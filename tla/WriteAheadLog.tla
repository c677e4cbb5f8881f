--------------------------- MODULE WriteAheadLog ---------------------------
(***************************************************************************)
(* What the commit log promises the rest of the storage engine, with no    *)
(* buffer, lock, thread or file in it.  Log sequence numbers are issued    *)
(* one after the other; each reaches stable storage once, in the order of  *)
(* its number; and the log only reports a number as hardened when that     *)
(* number and all the numbers before it are stored.                        *)
(*                                                                         *)
(* storage/buffer/buffer_pool_log.h (flush_page) relies on this rule: a    *)
(* page may go to disk when the log reached the LSN the page carries.      *)
(***************************************************************************)
EXTENDS Integers

CONSTANT FirstLsn    \* the LSN the log starts behind

VARIABLES
    issued,      \* the last LSN handed out
    hardened,    \* the last LSN reported as flushed
    stored       \* the LSNs that can be read back in full

vars == <<issued, hardened, stored>>

Init ==
    /\ issued = FirstLsn
    /\ hardened = FirstLsn
    /\ stored = {}

Issue ==
    /\ issued' = issued + 1
    /\ UNCHANGED <<hardened, stored>>

(* Only the next number may be stored, and only after it was issued.       *)
Store ==
    /\ hardened < issued
    /\ stored = FirstLsn + 1 .. hardened
    /\ stored' = stored \cup {hardened + 1}
    /\ UNCHANGED <<issued, hardened>>

Harden ==
    /\ hardened + 1 \in stored
    /\ hardened' = hardened + 1
    /\ UNCHANGED <<issued, stored>>

Next == Issue \/ Store \/ Harden

Spec == Init /\ [][Next]_vars
=============================================================================
