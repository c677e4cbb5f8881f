----------------------------- MODULE PageStore -----------------------------
(***************************************************************************)
(* What a double write buffer is for, with no files and no buffer in it:   *)
(* whenever the system crashes, every page can be had back whole, in a     *)
(* version that never goes back.  Pages whose own copy was damaged while   *)
(* it was written are exempt.                                              *)
(***************************************************************************)
EXTENDS Integers

CONSTANT Key    \* the pages

VARIABLES
    stored,  \* the version of each page that a crash now would leave
    asked,   \* the newest version each page was handed over in
    exempt   \* the pages nothing is promised of

vars == <<stored, asked, exempt>>

Init ==
    /\ stored = [k \in Key |-> 0]
    /\ asked = [k \in Key |-> 0]
    /\ exempt \subseteq Key

(* A new version of a page is handed over.                                 *)
Ask ==
    /\ \E k \in Key : asked' = [asked EXCEPT ![k] = @ + 1]
    /\ UNCHANGED <<stored, exempt>>

(* Newer versions become safe; pages may have to be given up.              *)
Advance ==
    /\ UNCHANGED asked
    /\ exempt \subseteq exempt'
    /\ \A k \in Key \ exempt' : stored[k] <= stored'[k] /\ stored'[k] <= asked[k]

Next == Ask \/ Advance

Spec == Init /\ [][Next]_vars
=============================================================================
