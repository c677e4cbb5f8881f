------------------------------ MODULE LogEntry ------------------------------
(***************************************************************************)
(* The entries of the commit log (storage/clog/log_entry.{h,cpp}) and the  *)
(* items they become in a log file.                                        *)
(*                                                                         *)
(* A log file is the sequence of the items that LogFileWriter::write left  *)
(* in it, in file order.  An item remembers the entry it came from and how *)
(* many of its bytes reached the file: a call that fails half way leaves a *)
(* torn item, and O_APPEND puts the next item right behind it.             *)
(*                                                                         *)
(* What an entry carries is abstracted to its size.  Sizes are below 2^31, *)
(* where the int32_t of the header and of the check in LogEntry::init() is *)
(* the number itself.                                                      *)
(***************************************************************************)
EXTENDS Integers, Sequences

CONSTANTS
    HEAD_SIZE,         \* LogHeader::HEAD_SIZE
    max_payload_size   \* LogEntry::max_payload_size()

ASSUME HeadSizeAssumption    == HEAD_SIZE \in Nat \ {0}
ASSUME PayloadSizeAssumption == max_payload_size \in Nat

(* A payload fits in an entry: the check of LogEntry::init().              *)
Fits(size) == size <= max_payload_size

total_size(e) == HEAD_SIZE + e.size

Entry == [lsn : Int, size : Nat]
Item  == [lsn : Int, size : Nat, put : Nat]

Whole(item)  == item.put = total_size(item)
ItemOf(e, n) == [lsn |-> e.lsn, size |-> e.size, put |-> n]

(* What any number of writes leaves in a file: entries that init()         *)
(* accepted, or the front of one, and LSNs that never descend (those of a  *)
(* write that failed and of the one that repeats it are the same).         *)
LeftByWriter(file) ==
    /\ \A i \in 1 .. Len(file) : Fits(file[i].size) /\ file[i].put \in 1 .. total_size(file[i])
    /\ \A i, j \in 1 .. Len(file) : i < j => file[i].lsn <= file[j].lsn
=============================================================================
