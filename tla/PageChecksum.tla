---------------------------- MODULE PageChecksum ----------------------------
(***************************************************************************)
(* The checksum of a page: Page::calc_checksum() and verify_checksum() of  *)
(* storage/buffer/page.h, and crc32() of common/math/crc.cpp.              *)
(*                                                                         *)
(* A word is the set of its bits that are 1, so that exclusive or is the   *)
(* symmetric difference.  Pages are Len(data) bytes instead of 8160.       *)
(*                                                                         *)
(* verify_checksum() is a const method: threads that only read a page may  *)
(* call it side by side.  It stores the checksum it computes in the page,  *)
(* compares, and puts the old one back.  Pages are written, stamped and    *)
(* damaged (on the disk) while no thread verifies.  calc_checksum() builds *)
(* its table at the first call; that call is taken to have returned.       *)
(***************************************************************************)
EXTENDS Integers, Sequences, FiniteSets, SequencesExt

CONSTANTS
    Verifier,   \* the threads that verify
    ByteValue,  \* the values bytes take
    DataSize    \* bytes of data, a multiple of 4 as BP_PAGE_DATA_SIZE

ASSUME ByteValueAssumption == ByteValue \subseteq SUBSET (0 .. 7)
ASSUME DataSizeAssumption  == DataSize % 4 = 0

VARIABLES
    data,
    check_sum,
    old_checksum, \* of each thread in verify_checksum()
    valid,        \* what verify_checksum() found last
    at,           \* of each thread: "out", "calc", "compare", "restore"
    stamped,      \* the data that were stamped last; <<>> if none (history)
    raced         \* a damaged page was verified by two at once (history)

page_vars == <<data, check_sum, old_checksum, valid, at, stamped, raced>>

-----------------------------------------------------------------------------
Xor(a, b) == (a \ b) \cup (b \ a)
Shift(a, n) == {i - n : i \in {j \in a : j >= n}}
Low(a) == {i \in a : i < 8}
Ones == 0 .. 31

(* 0xEDB88320.                                                             *)
Polynomial == {5, 8, 9, 15, 19, 20, 21, 23, 24, 26, 27, 29, 30, 31}

(* The table both functions use.                                           *)
crc_table ==
    [b \in SUBSET (0 .. 7) |->
        FoldLeft(LAMBDA c, j : IF 0 \in c THEN Xor(Polynomial, Shift(c, 1)) ELSE Shift(c, 1),
                 b, [j \in 1 .. 8 |-> j])]

Update(crc, byte) == Xor(crc_table[Low(Xor(crc, byte))], Shift(crc, 8))

calc_checksum(d) == Xor(Ones, FoldLeft(Update, Ones, d))

(* crc32() of data that are aligned: four bytes at a time, each looked up  *)
(* in the one table.                                                       *)
crc32(d) ==
    LET word(k) == UNION {{8 * n + i : i \in d[4 * k + n + 1]} : n \in 0 .. 3}
        four(crc, k) ==
            LET tmp == Xor(word(k), crc)
            IN  FoldLeft(LAMBDA c, n : Xor(c, crc_table[Low(Shift(tmp, n))]), {}, <<24, 16, 8, 0>>)
    IN  Xor(Ones, FoldLeft(four, Ones, [k \in 1 .. Len(d) \div 4 |-> k - 1]))

-----------------------------------------------------------------------------
NobodyVerifies == \A t \in Verifier : at[t] = "out"

(* Page::init().                                                           *)
PageInit ==
    /\ data = [i \in 1 .. DataSize |-> {}]
    /\ check_sum = {}
    /\ old_checksum = [t \in Verifier |-> {}]
    /\ valid = [t \in Verifier |-> "unknown"]
    /\ at = [t \in Verifier |-> "out"]
    /\ stamped = <<>>
    /\ raced = FALSE

(* A byte changes: the page is edited, or damaged on the disk.             *)
PageWrite(i, byte) ==
    /\ NobodyVerifies
    /\ data' = [data EXCEPT ![i] = byte]
    /\ valid' = [t \in Verifier |-> "unknown"]
    /\ UNCHANGED <<check_sum, old_checksum, at, stamped, raced>>

(* calc_checksum().                                                        *)
PageStamp ==
    /\ NobodyVerifies
    /\ check_sum' = calc_checksum(data)
    /\ stamped' = data
    /\ valid' = [t \in Verifier |-> "unknown"]
    /\ raced' = FALSE
    /\ UNCHANGED <<data, old_checksum, at>>

(* verify_checksum(), access by access.                                    *)
VerifyBegin(t) ==
    /\ at[t] = "out"
    /\ old_checksum' = [old_checksum EXCEPT ![t] = check_sum]
    /\ at' = [at EXCEPT ![t] = "calc"]
    /\ raced' = (raced \/ (data # stamped /\ ~NobodyVerifies))
    /\ UNCHANGED <<data, check_sum, valid, stamped>>

VerifyCalc(t) ==
    /\ at[t] = "calc"
    /\ check_sum' = calc_checksum(data)
    /\ at' = [at EXCEPT ![t] = "compare"]
    /\ UNCHANGED <<data, old_checksum, valid, stamped, raced>>

VerifyCompare(t) ==
    /\ at[t] = "compare"
    /\ valid' = [valid EXCEPT ![t] = IF old_checksum[t] = check_sum THEN "yes" ELSE "no"]
    /\ at' = [at EXCEPT ![t] = "restore"]
    /\ UNCHANGED <<data, check_sum, old_checksum, stamped, raced>>

(* Mutant: the computed checksum stays in the page.                        *)
VerifyRestoreNot(t) ==
    /\ at[t] = "restore"
    /\ at' = [at EXCEPT ![t] = "out"]
    /\ UNCHANGED <<data, check_sum, old_checksum, valid, stamped, raced>>

VerifyRestore(t) ==
    /\ at[t] = "restore"
    /\ check_sum' = old_checksum[t]
    /\ at' = [at EXCEPT ![t] = "out"]
    /\ UNCHANGED <<data, old_checksum, valid, stamped, raced>>

PageNext ==
    \/ \E i \in 1 .. DataSize, byte \in ByteValue : PageWrite(i, byte)
    \/ PageStamp
    \/ \E t \in Verifier :
          VerifyBegin(t) \/ VerifyCalc(t) \/ VerifyCompare(t) \/ VerifyRestore(t)

PageSpec == PageInit /\ [][PageNext]_page_vars

-----------------------------------------------------------------------------
(* The checksum tells the page as it was stamped from any other, again and *)
(* again, and verifying leaves the stamp alone, also when threads verify   *)
(* the whole page side by side.  The exception are damaged pages that two  *)
(* verify at once: one reads the checksum the other has stored for the     *)
(* time being, accepts the damage and stamps it (calc_checksum(),          *)
(* verify_checksum()).                                                     *)
VerifyTells ==
    ~raced =>
        /\ \A t \in Verifier : /\ valid[t] = "yes" => data = stamped
                              /\ valid[t] = "no" => data # stamped
        /\ NobodyVerifies /\ stamped # <<>> => check_sum = calc_checksum(stamped)
=============================================================================
