--------------------------- MODULE LogFileReader ---------------------------
(***************************************************************************)
(* Reading a log file back: class LogFileReader of                         *)
(* storage/clog/log_file.{h,cpp} (go_to() and iterate()) over readn() of   *)
(* common/io/io.cpp.                                                       *)
(*                                                                         *)
(* The reader works on byte offsets.  A header read where an item begins   *)
(* is that item's header; a header read anywhere else is made of payload   *)
(* bytes, of the rest of a fragment or of two items, and is any header of  *)
(* Garbage, the same one each time one call of iterate() reads the offset. *)
(*                                                                         *)
(* The content of the file does not change while it is read: every         *)
(* content the module is checked with is one that LogFileWriter leaves.    *)
(***************************************************************************)
EXTENDS LogEntry, Sequences, SequencesExt

CONSTANTS
    Contents,    \* the contents a log file may have: sequences of items
    Garbage,     \* what a header read at a wrong offset may say
    StartLsn     \* the LSNs iterate() is asked to start from

ASSUME ContentsAssumption == /\ Contents \subseteq Seq(Item)
                             /\ \A f \in Contents : LeftByWriter(f)
ASSUME GarbageAssumption  == Garbage \subseteq [lsn : Int, size : Int]
ASSUME StartAssumption    == StartLsn \subseteq Int

VARIABLES
    content,     \* the file
    pc,          \* "closed" | "idle" | "go_to" | "iterate"
    start_lsn,   \* argument of iterate()
    pos,         \* offset of m_fd
    seen,        \* the headers read at wrong offsets so far, by offset
    delivered,   \* what the callback got: entry and offset of its header
    rc           \* what iterate() returned

reader_vars == <<content, pc, start_lsn, pos, seen, delivered, rc>>

Header == [lsn : Int, size : Int]

(* iterate() returns a code, or std::vector throws on a negative size.     *)
Outcome == {"NONE", "SUCCESS", "FILE_NOT_FOUND", "IOERR_READ", "CALLBACK", "length_error"}

ReaderTypeOK ==
    /\ content \in Contents
    /\ pc \in {"closed", "idle", "go_to", "iterate"}
    /\ start_lsn \in StartLsn \cup {0}
    /\ pos \in Nat
    /\ DOMAIN seen \subseteq Nat /\ \A p \in DOMAIN seen : seen[p] \in Garbage
    /\ delivered \in Seq([lsn : Int, size : Nat, at : Nat])
    /\ rc \in Outcome

ReaderInit ==
    /\ content \in Contents
    /\ pc = "closed"
    /\ start_lsn = 0
    /\ pos = 0
    /\ seen = <<>>
    /\ delivered = <<>>
    /\ rc = "NONE"

-----------------------------------------------------------------------------
(* The layout of the file.                                                 *)

PutBytes(items) == FoldLeft(LAMBDA n, item : n + item.put, 0, items)
StartOf(i)      == PutBytes(SubSeq(content, 1, i - 1))
FileSize        == StartOf(Len(content) + 1)

(* The items whose header is complete at offset p: at most one.            *)
HeadersAt(p) ==
    {i \in 1 .. Len(content) : StartOf(i) = p /\ content[i].put >= HEAD_SIZE}

(* readn() of n bytes at p: 0, or -1 when the file ends before.            *)
CanRead(p, n) == p + n <= FileSize

(* The header h that readn() gets at p.                                    *)
IsHeader(p, h) ==
    IF HeadersAt(p) # {}
    THEN /\ \E i \in HeadersAt(p) : h = [lsn |-> content[i].lsn, size |-> content[i].size]
         /\ UNCHANGED seen
    ELSE IF p \in DOMAIN seen
    THEN h = seen[p] /\ UNCHANGED seen
    ELSE h \in Garbage /\ seen' = [q \in DOMAIN seen \cup {p} |-> IF q = p THEN h ELSE seen[q]]

Headers == Garbage \cup {[lsn |-> content[i].lsn, size |-> content[i].size]
                            : i \in 1 .. Len(content)}

-----------------------------------------------------------------------------
ReaderOpen ==
    /\ pc = "closed"
    /\ pc' = "idle"
    /\ pos' = 0
    /\ UNCHANGED <<content, start_lsn, seen, delivered, rc>>

ReaderClose ==
    /\ pc = "idle"
    /\ pc' = "closed"
    /\ pos' = 0
    /\ UNCHANGED <<content, start_lsn, seen, delivered, rc>>

(* iterate() without an open file.                                         *)
IterateClosed ==
    /\ pc = "closed"
    /\ rc' = "FILE_NOT_FOUND"
    /\ delivered' = <<>>
    /\ UNCHANGED <<content, pc, start_lsn, pos, seen>>

(* iterate() up to the loop of go_to(), which starts at the front.         *)
Iterate ==
    /\ pc = "idle"
    /\ start_lsn' \in StartLsn
    /\ pos' = 0
    /\ pc' = "go_to"
    /\ delivered' = <<>>
    /\ rc' = "NONE"
    /\ seen' = <<>>
    /\ UNCHANGED content

Return(code) == pc' = "idle" /\ rc' = code

(* go_to(): the file ends; its offset stays at the end.                    *)
GoToEof ==
    /\ pc = "go_to"
    /\ ~CanRead(pos, HEAD_SIZE)
    /\ pos' = IF pos < FileSize THEN FileSize ELSE pos
    /\ pc' = "iterate"
    /\ UNCHANGED <<content, start_lsn, seen, delivered, rc>>

(* Mutant: the offset is left behind the header.                           *)
GoToFoundBehind ==
    /\ pc = "go_to"
    /\ CanRead(pos, HEAD_SIZE)
    /\ \E h \in Headers : IsHeader(pos, h) /\ h.lsn >= start_lsn
    /\ pc' = "iterate"
    /\ pos' = pos + HEAD_SIZE
    /\ UNCHANGED <<content, start_lsn, delivered, rc>>

(* go_to(): the header is the first one wanted, seek back to it.           *)
GoToFound ==
    /\ pc = "go_to"
    /\ CanRead(pos, HEAD_SIZE)
    /\ \E h \in Headers : IsHeader(pos, h) /\ h.lsn >= start_lsn
    /\ pc' = "iterate"
    /\ UNCHANGED <<content, start_lsn, pos, delivered, rc>>

(* go_to(): a header that says it is no entry's.                           *)
GoToInvalid ==
    /\ pc = "go_to"
    /\ CanRead(pos, HEAD_SIZE)
    /\ \E h \in Headers : /\ IsHeader(pos, h)
                          /\ h.lsn < start_lsn
                          /\ h.size < 0 \/ ~Fits(h.size)
    /\ Return("IOERR_READ")
    /\ pos' = pos + HEAD_SIZE
    /\ UNCHANGED <<content, start_lsn, delivered>>

(* Mutant: the offset is put back on the header before it is skipped.      *)
GoToSkipStays ==
    /\ pc = "go_to"
    /\ CanRead(pos, HEAD_SIZE)
    /\ \E h \in Headers : IsHeader(pos, h) /\ h.lsn < start_lsn /\ h.size >= 0 /\ Fits(h.size)
    /\ UNCHANGED <<content, pc, start_lsn, pos, delivered, rc>>

(* go_to(): skip an entry.  lseek() moves on by HEAD_SIZE, not by the size *)
(* of the payload.                                                         *)
GoToSkip ==
    /\ pc = "go_to"
    /\ CanRead(pos, HEAD_SIZE)
    /\ \E h \in Headers : IsHeader(pos, h) /\ h.lsn < start_lsn /\ h.size >= 0 /\ Fits(h.size)
    /\ pos' = pos + HEAD_SIZE + HEAD_SIZE
    /\ UNCHANGED <<content, pc, start_lsn, delivered, rc>>

(* iterate(): no further header.                                           *)
IterateEof ==
    /\ pc = "iterate"
    /\ ~CanRead(pos, HEAD_SIZE)
    /\ Return("SUCCESS")
    /\ pos' = IF pos < FileSize THEN FileSize ELSE pos
    /\ UNCHANGED <<content, start_lsn, seen, delivered>>

(* iterate(): std::vector is asked for a negative number of bytes.         *)
IterateThrows ==
    /\ pc = "iterate"
    /\ CanRead(pos, HEAD_SIZE)
    /\ \E h \in Headers : IsHeader(pos, h) /\ h.size < 0
    /\ Return("length_error")
    /\ pos' = pos + HEAD_SIZE
    /\ UNCHANGED <<content, start_lsn, delivered>>

(* Mutant: the end of the file inside a payload is taken for its end.      *)
IterateShortOk ==
    /\ pc = "iterate"
    /\ CanRead(pos, HEAD_SIZE)
    /\ \E h \in Headers :
          IsHeader(pos, h) /\ h.size >= 0 /\ ~CanRead(pos, HEAD_SIZE + h.size)
    /\ Return("SUCCESS")
    /\ pos' = FileSize
    /\ UNCHANGED <<content, start_lsn, delivered>>

(* iterate(): the file ends inside the payload.                            *)
IterateShort ==
    /\ pc = "iterate"
    /\ CanRead(pos, HEAD_SIZE)
    /\ \E h \in Headers :
          IsHeader(pos, h) /\ h.size >= 0 /\ ~CanRead(pos, HEAD_SIZE + h.size)
    /\ Return("IOERR_READ")
    /\ pos' = FileSize
    /\ UNCHANGED <<content, start_lsn, delivered>>

(* What the callback is given: init() refuses a payload that is too large  *)
(* and leaves the entry empty, and iterate() ignores what it returned.     *)
EntryOf(h) == IF Fits(h.size) THEN h ELSE [lsn |-> 0, size |-> 0]

(* Mutant: a negative size is not noticed.                                 *)
IterateDeliverNegative(code) ==
    /\ pc = "iterate"
    /\ CanRead(pos, HEAD_SIZE)
    /\ \E h \in Headers :
          /\ IsHeader(pos, h)
          /\ CanRead(pos, HEAD_SIZE + h.size)
          /\ delivered' = Append(delivered, [lsn |-> EntryOf(h).lsn,
                                             size |-> EntryOf(h).size, at |-> pos])
          /\ pos' = pos + HEAD_SIZE + h.size
    /\ IF code = "SUCCESS" THEN UNCHANGED <<pc, rc>> ELSE Return(code)
    /\ UNCHANGED <<content, start_lsn>>

(* iterate(): one entry is read and handed to the callback.                *)
IterateDeliver(code) ==
    /\ pc = "iterate"
    /\ CanRead(pos, HEAD_SIZE)
    /\ \E h \in Headers :
          /\ IsHeader(pos, h)
          /\ h.size >= 0 /\ CanRead(pos, HEAD_SIZE + h.size)
          /\ delivered' = Append(delivered, [lsn |-> EntryOf(h).lsn,
                                             size |-> EntryOf(h).size, at |-> pos])
          /\ pos' = pos + HEAD_SIZE + h.size
    /\ IF code = "SUCCESS" THEN UNCHANGED <<pc, rc>> ELSE Return(code)
    /\ UNCHANGED <<content, start_lsn>>

Running ==
    \/ GoToEof \/ GoToFound \/ GoToInvalid \/ GoToSkip
    \/ IterateEof \/ IterateThrows \/ IterateShort
    \/ \E code \in {"SUCCESS", "CALLBACK"} : IterateDeliver(code)

ReaderNext == ReaderOpen \/ ReaderClose \/ IterateClosed \/ Iterate \/ Running

ReaderSpec == ReaderInit /\ [][ReaderNext]_reader_vars

(* iterate() runs to its end once it is called.                            *)
ReaderFairSpec == ReaderSpec /\ WF_reader_vars(Running)

-----------------------------------------------------------------------------
(* The entries that can be read one after the other from the front: those  *)
(* before the first torn item.                                             *)
Readable == {i \in 1 .. Len(content) : \A j \in 1 .. i : Whole(content[j])}

Unwanted == {i \in Readable : content[i].lsn < start_lsn}

EntryAt(i) == [lsn |-> content[i].lsn, size |-> content[i].size, at |-> StartOf(i)]

(* What iterate(callback, start_lsn) is to deliver.  LSNs do not descend,  *)
(* so what is unwanted comes first.                                        *)
Wanted ==
    [n \in 1 .. Cardinality(Readable \ Unwanted) |-> EntryAt(Cardinality(Unwanted) + n)]

Torn == {i \in 1 .. Len(content) : ~Whole(content[i])}

(* go_to() finds its way when it has nothing to skip or only payloads that *)
(* happen to be as long as a header.                                       *)
Aligned ==
    \A i \in 1 .. Len(content) : content[i].lsn < start_lsn =>
        Whole(content[i]) /\ content[i].size = HEAD_SIZE

(* A write that failed was not followed by another: the writer crashed, or *)
(* gave up.                                                                *)
CleanTail == Torn \subseteq {Len(content)}

(* Recovery from such a file (iterate() over go_to()): the callback gets   *)
(* the wanted entries, in order, nothing else and each of them complete;   *)
(* SUCCESS says that it got them all, and IOERR_READ is returned only for  *)
(* a file that ends inside a payload, after all that is complete.          *)
DeliversWanted ==
    Aligned /\ CleanTail =>
        /\ IsPrefix(delivered, Wanted)
        /\ rc \in {"SUCCESS", "IOERR_READ"} => delivered = Wanted
        /\ rc = "IOERR_READ" => Torn # {}
        /\ rc # "length_error"

(* SUCCESS is never returned for a file that ends inside a payload: the    *)
(* caller can tell that the last write did not complete.                   *)
TornPayloadReported ==
    \A i \in Torn :
        Aligned /\ CleanTail /\ content[i].put >= HEAD_SIZE => rc # "SUCCESS"

(* go_to() and iterate() end, also in a file whose bytes make no sense to  *)
(* them.                                                                   *)
Terminates == pc \in {"go_to", "iterate"} ~> pc = "idle"

(* "jump to the entry of the given LSN; the LSN of the first entry wanted" *)
(* (log_file.h:41-42): when iterate() returns SUCCESS on an intact file it *)
(* has delivered the entries from start_lsn on.                            *)
StartsAtLsn == Torn = {} /\ rc = "SUCCESS" => delivered = Wanted
=============================================================================
