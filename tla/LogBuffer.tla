----------------------------- MODULE LogBuffer -----------------------------
(***************************************************************************)
(* The in-memory buffer of the commit log (class LogBuffer,                *)
(* storage/clog/log_buffer.{h,cpp}) with the threads that append entries   *)
(* to it, the threads that flush it and the client that opens and closes   *)
(* the log file the flushes write to.                                      *)
(*                                                                         *)
(* What a thread does between two accesses to shared state is one step:    *)
(*                                                                         *)
(*   append()   pc  idle -> append_data | append_entry   call, spinning on *)
(*                                            current_bytes_, no lock held *)
(*                  -> ready       admitted, the entry is built            *)
(*                  -> locked      holds mutex_                            *)
(*                  -> idle        LSN assigned, entry queued, unlocked    *)
(*   flush()    pc  idle -> flush         entries_.size() read, no lock    *)
(*   flush_batch()  -> flushing    holds mutex_, next write() due          *)
(*                  -> popping     write() succeeded, entry not yet popped *)
(*                  -> idle        returned, unlocked                      *)
(*                                                                         *)
(* Nobody ever waits on flush_cv_, so its notifications have no effect and *)
(* are left out, with the statistics.                                      *)
(***************************************************************************)
EXTENDS LogFileWriter, SequencesExt

CONSTANTS
    Appender,          \* threads that append
    Flusher,           \* threads that flush
    NoThread,          \* mutex_ is free
    Payload,           \* payload sizes the callers append
    max_bytes,         \* max_bytes_
    BatchSize,         \* batch sizes the callers of flush_batch() ask for
    TornSize,          \* what a read of entries_.size() may yield that races
                       \* with a thread changing entries_
    EndLsn,            \* the limits the client opens log files with
    InitLsn,           \* the LSN init() is called with
    MaxLsn             \* bound: the last LSN that is assigned

ASSUME ThreadAssumption  == /\ NoThread \notin Appender \cup Flusher
                            /\ Appender \cap Flusher = {}
                            /\ IsFiniteSet(Appender)
ASSUME PayloadAssumption == Payload \subseteq Nat
ASSUME LimitAssumption   == max_bytes \in Nat \ {0}
ASSUME BatchAssumption   == BatchSize \subseteq Nat /\ TornSize \subseteq Nat
ASSUME LsnAssumption     == /\ EndLsn \subseteq Int
                            /\ InitLsn \in Int
                            /\ MaxLsn \in Int

VARIABLES
    entries,         \* entries_
    current_bytes,   \* current_bytes_
    current_lsn,     \* current_lsn_
    flushed_lsn,     \* flushed_lsn_
    mutex,           \* the thread that holds mutex_
    pc,              \* where each thread is
    req,             \* payload size of an append, batch size of a flush
    written,         \* local of flush_batch() in the thread that holds mutex_
    promised         \* history: the last LSN assigned when flush() was called

vars == <<files, created, writer, io_errors, entries, current_bytes,
          current_lsn, flushed_lsn, mutex, pc, req, written, promised>>

Thread == Appender \cup Flusher

(* Appends that may still get an LSN.                                      *)
InFlight == {a \in Appender : pc[a] # "idle"}

AppenderPc == {"idle", "append_data", "append_entry", "ready", "locked"}
FlusherPc  == {"idle", "flush", "flushing", "popping"}

(* Type invariant.  An entry in the buffer is never larger than the        *)
(* largest payload, whichever append() it came through.                    *)
TypeOK ==
    /\ WriterTypeOK
    /\ entries \in Seq([lsn : Int, size : 0 .. max_payload_size])
    /\ current_bytes \in Int
    /\ current_lsn \in Int
    /\ flushed_lsn \in Int
    /\ mutex \in Thread \cup {NoThread}
    /\ pc \in [Thread -> AppenderPc \cup FlusherPc]
    /\ \A a \in Appender : pc[a] \in AppenderPc
    /\ \A f \in Flusher : pc[f] \in FlusherPc
    /\ req \in [Thread -> Nat]
    /\ written \in Nat
    /\ promised \in [Flusher -> Int]

(* LogBuffer::init() of a buffer nobody uses yet.                          *)
Init ==
    /\ WriterInit
    /\ entries = <<>>
    /\ current_bytes = 0
    /\ current_lsn = InitLsn
    /\ flushed_lsn = InitLsn
    /\ mutex = NoThread
    /\ pc = [t \in Thread |-> "idle"]
    /\ req = [t \in Thread |-> 0]
    /\ written = 0
    /\ promised = [f \in Flusher |-> InitLsn]

Goto(t, label) == pc' = [pc EXCEPT ![t] = label]

(* The call returns and its locals are gone.                               *)
Return(t)      == Goto(t, "idle") /\ req' = [req EXCEPT ![t] = 0]
Lock(t)        == mutex = NoThread /\ mutex' = t
Unlock(t)      == mutex = t /\ mutex' = NoThread

-----------------------------------------------------------------------------
(* append()                                                                *)

(* append(lsn, module, data): any payload.                                 *)
AppendData(a, size) ==
    /\ pc[a] = "idle"
    /\ current_lsn + Cardinality(InFlight) < MaxLsn
    /\ Goto(a, "append_data")
    /\ req' = [req EXCEPT ![a] = size]
    /\ UNCHANGED <<writer_vars, entries, current_bytes, current_lsn,
                   flushed_lsn, mutex, written, promised>>

(* append(entry): the caller built the entry with LogEntry::init().        *)
AppendEntry(a, size) ==
    /\ pc[a] = "idle"
    /\ current_lsn + Cardinality(InFlight) < MaxLsn
    /\ Fits(size)
    /\ Goto(a, "append_entry")
    /\ req' = [req EXCEPT ![a] = size]
    /\ UNCHANGED <<writer_vars, entries, current_bytes, current_lsn,
                   flushed_lsn, mutex, written, promised>>

(* Mutant: the limit is tested with > instead of >=.                       *)
BufferFullLate == current_bytes > max_bytes

(* is_full(), read by the spinning thread without the lock.                *)
BufferFull == current_bytes >= max_bytes

(* Mutant: the result of LogEntry::init() is ignored.                      *)
AppendAdmitUnchecked(a) ==
    /\ ~BufferFull
    /\ pc[a] \in {"append_entry", "append_data"}
    /\ Goto(a, "ready")
    /\ UNCHANGED <<writer_vars, entries, current_bytes, current_lsn,
                   flushed_lsn, mutex, req, written, promised>>

(* The spin ends and the entry is built.                                   *)
AppendAdmit(a) ==
    /\ ~BufferFull
    /\ \/ pc[a] = "append_entry"
       \/ pc[a] = "append_data" /\ Fits(req[a])
    /\ Goto(a, "ready")
    /\ UNCHANGED <<writer_vars, entries, current_bytes, current_lsn,
                   flushed_lsn, mutex, req, written, promised>>

(* Mutant: the LSN is taken before the entry is checked.                   *)
AppendRejectLate(a) ==
    /\ ~BufferFull
    /\ pc[a] = "append_data"
    /\ ~Fits(req[a])
    /\ current_lsn' = current_lsn + 1
    /\ Return(a)
    /\ UNCHANGED <<writer_vars, entries, current_bytes, flushed_lsn, mutex,
                   written, promised>>

(* The payload is too large: append() returns MESSAGE_INVAID, no LSN used. *)
AppendReject(a) ==
    /\ ~BufferFull
    /\ pc[a] = "append_data"
    /\ ~Fits(req[a])
    /\ Return(a)
    /\ UNCHANGED <<writer_vars, entries, current_bytes, current_lsn,
                   flushed_lsn, mutex, written, promised>>

AppendLock(a) ==
    /\ pc[a] = "ready"
    /\ Lock(a)
    /\ Goto(a, "locked")
    /\ UNCHANGED <<writer_vars, entries, current_bytes, current_lsn,
                   flushed_lsn, req, written, promised>>

(* Mutant: the size is taken from the entry that was moved from, whose     *)
(* header the move has reset.                                              *)
AppendPushMovedFrom(a) ==
    /\ pc[a] = "locked"
    /\ Unlock(a)
    /\ current_lsn' = current_lsn + 1
    /\ entries' = Append(entries, [lsn |-> current_lsn + 1, size |-> req[a]])
    /\ current_bytes' = current_bytes + HEAD_SIZE
    /\ Return(a)
    /\ UNCHANGED <<writer_vars, flushed_lsn, written, promised>>

(* The critical section of append(), up to its return.                     *)
AppendPush(a) ==
    /\ pc[a] = "locked"
    /\ Unlock(a)
    /\ LET e == [lsn |-> current_lsn + 1, size |-> req[a]]
       IN  /\ current_lsn' = e.lsn
           /\ entries' = Append(entries, e)
           /\ current_bytes' = current_bytes + total_size(e)
    /\ Return(a)
    /\ UNCHANGED <<writer_vars, flushed_lsn, written, promised>>

-----------------------------------------------------------------------------
(* flush() and flush_batch()                                               *)

(* A thread inside its critical section is about to change entries_.       *)
EntriesInUse == mutex # NoThread /\ pc[mutex] \in {"locked", "popping"}

(* entries_.size() without the lock: the length, or anything when it races *)
(* with a push or a pop.                                                   *)
SizeRead == {Len(entries)} \cup (IF EntriesInUse THEN TornSize ELSE {})

(* flush() up to its call of flush_batch().                                *)
Flush(f) ==
    /\ pc[f] = "idle"
    /\ \E n \in SizeRead : req' = [req EXCEPT ![f] = n]
    /\ promised' = [promised EXCEPT ![f] = current_lsn]
    /\ Goto(f, "flush")
    /\ UNCHANGED <<writer_vars, entries, current_bytes, current_lsn,
                   flushed_lsn, mutex, written>>

(* flush_batch() called directly: it promises nothing about what was       *)
(* appended before.                                                        *)
FlushBatch(f, batch_size) ==
    /\ pc[f] = "idle"
    /\ req' = [req EXCEPT ![f] = batch_size]
    /\ promised' = [promised EXCEPT ![f] = InitLsn]
    /\ Goto(f, "flush")
    /\ UNCHANGED <<writer_vars, entries, current_bytes, current_lsn,
                   flushed_lsn, mutex, written>>

(* flush_batch() returns, with whatever code.                              *)
FlushEnds(f) ==
    /\ Return(f)
    /\ written' = 0
    /\ promised' = [promised EXCEPT ![f] = InitLsn]

FlushLock(f) ==
    /\ pc[f] = "flush"
    /\ entries # <<>>
    /\ Lock(f)
    /\ req' = [req EXCEPT ![f] = IF @ < Len(entries) THEN @ ELSE Len(entries)]
    /\ Goto(f, "flushing")
    /\ UNCHANGED <<writer_vars, entries, current_bytes, current_lsn,
                   flushed_lsn, written, promised>>

(* Nothing to flush: lock, SUCCESS, unlock.                                *)
FlushEmpty(f) ==
    /\ pc[f] = "flush"
    /\ mutex = NoThread
    /\ entries = <<>>
    /\ FlushEnds(f)
    /\ UNCHANGED <<writer_vars, entries, current_bytes, current_lsn,
                   flushed_lsn, mutex>>

(* Mutant: the loop ends one entry early.                                  *)
BatchOpenShort(f) ==
    pc[f] = "flushing" /\ written + 1 < req[f] /\ entries # <<>>

(* The loop condition of flush_batch().                                    *)
BatchOpen(f) == pc[f] = "flushing" /\ written < req[f] /\ entries # <<>>

FlushWrite(f) ==
    /\ BatchOpen(f)
    /\ WriteDone(Head(entries))
    /\ Goto(f, "popping")
    /\ UNCHANGED <<entries, current_bytes, current_lsn, flushed_lsn, mutex,
                   req, written, promised>>

(* Mutant: the entry leaves the buffer before it is written.               *)
FlushFailDrops(f) ==
    /\ BatchOpen(f)
    /\ WriteFails(Head(entries))
    /\ Unlock(f)
    /\ current_bytes' = current_bytes - total_size(Head(entries))
    /\ flushed_lsn' = Head(entries).lsn
    /\ entries' = Tail(entries)
    /\ FlushEnds(f)
    /\ UNCHANGED current_lsn

(* Mutant: the early return leaves mutex_ locked.                          *)
FlushFailLocked(f) ==
    /\ BatchOpen(f)
    /\ WriteFails(Head(entries))
    /\ FlushEnds(f)
    /\ UNCHANGED <<entries, current_bytes, current_lsn, flushed_lsn, mutex>>

(* write() failed: flush_batch() returns its code and keeps the entry.     *)
FlushFail(f) ==
    /\ BatchOpen(f)
    /\ WriteFails(Head(entries))
    /\ Unlock(f)
    /\ FlushEnds(f)
    /\ UNCHANGED <<entries, current_bytes, current_lsn, flushed_lsn>>

(* Mutant: the whole buffer is reported flushed after its first entry.     *)
FlushPopAll(f) ==
    /\ pc[f] = "popping"
    /\ current_bytes' = current_bytes - total_size(Head(entries))
    /\ flushed_lsn' = current_lsn
    /\ entries' = Tail(entries)
    /\ written' = written + 1
    /\ Goto(f, "flushing")
    /\ UNCHANGED <<writer_vars, current_lsn, mutex, req, promised>>

(* Mutant: the header is not subtracted.                                   *)
FlushPopPayload(f) ==
    /\ pc[f] = "popping"
    /\ current_bytes' = current_bytes - Head(entries).size
    /\ flushed_lsn' = Head(entries).lsn
    /\ entries' = Tail(entries)
    /\ written' = written + 1
    /\ Goto(f, "flushing")
    /\ UNCHANGED <<writer_vars, current_lsn, mutex, req, promised>>

FlushPop(f) ==
    /\ pc[f] = "popping"
    /\ current_bytes' = current_bytes - total_size(Head(entries))
    /\ flushed_lsn' = Head(entries).lsn
    /\ entries' = Tail(entries)
    /\ written' = written + 1
    /\ Goto(f, "flushing")
    /\ UNCHANGED <<writer_vars, current_lsn, mutex, req, promised>>

FlushReturn(f) ==
    /\ pc[f] = "flushing"
    /\ ~BatchOpen(f)
    /\ Unlock(f)
    /\ FlushEnds(f)
    /\ UNCHANGED <<writer_vars, entries, current_bytes, current_lsn,
                   flushed_lsn>>

-----------------------------------------------------------------------------
(* The client that owns the writer.  A LogFileWriter has no lock, so the   *)
(* client leaves it alone while a flush uses it, and it changes the file   *)
(* when write() reported FILE_FULL.                                        *)

WriterIdle == mutex \notin Flusher

OpenWriter(name, end_lsn) ==
    /\ WriterIdle
    /\ Open(name, end_lsn)
    /\ UNCHANGED <<entries, current_bytes, current_lsn, flushed_lsn, mutex,
                   pc, req, written, promised>>

CloseWriter ==
    /\ WriterIdle
    /\ is_open
    /\ entries # <<>> /\ Head(entries).lsn >= writer.end_lsn
    /\ Close
    /\ UNCHANGED <<entries, current_bytes, current_lsn, flushed_lsn, mutex,
                   pc, req, written, promised>>

-----------------------------------------------------------------------------
AppenderNext(a) ==
    \/ \E size \in Payload : AppendData(a, size) \/ AppendEntry(a, size)
    \/ AppendAdmit(a) \/ AppendReject(a) \/ AppendLock(a) \/ AppendPush(a)

(* What a flush does once it is called.                                    *)
FlushRun(f) ==
    \/ FlushLock(f) \/ FlushEmpty(f) \/ FlushWrite(f) \/ FlushFail(f)
    \/ FlushPop(f) \/ FlushReturn(f)

FlusherNext(f) ==
    \/ Flush(f)
    \/ \E batch_size \in BatchSize : FlushBatch(f, batch_size)
    \/ FlushRun(f)

Client ==
    \/ \E name \in FileName, end_lsn \in EndLsn : OpenWriter(name, end_lsn)
    \/ CloseWriter

Next ==
    \/ \E a \in Appender : AppenderNext(a)
    \/ \E f \in Flusher : FlusherNext(f)
    \/ Client

Spec == Init /\ [][Next]_vars

-----------------------------------------------------------------------------
(* Safety.                                                                 *)

(* LSNs are handed out without gaps and the buffer holds exactly the ones  *)
(* that are not flushed yet, in order, whatever appends and flushes        *)
(* interleave (append(), flush_batch()).                                   *)
LsnChain ==
    /\ current_lsn = flushed_lsn + Len(entries)
    /\ \A i \in 1 .. Len(entries) : entries[i].lsn = flushed_lsn + i

(* flushed_lsn_ is what the rest of the engine may rely on: exactly the    *)
(* LSNs up to it can be read back in full, plus the one entry a flush has  *)
(* written and not popped yet.  A failed write, a full or a closed file    *)
(* never moves it (flush_batch()).                                         *)
Popping == mutex # NoThread /\ pc[mutex] = "popping"

Durable ==
    Stored = InitLsn + 1 .. (IF Popping THEN flushed_lsn + 1 ELSE flushed_lsn)

(* Recovery reads a file from front to back: no LSN is stored in full      *)
(* twice, and within a file they ascend, also across failed and repeated   *)
(* writes and across reopened files (flush_batch(), LogFileWriter::write). *)
OnceInOrder ==
    \A n, m \in FileName :
        \A i \in 1 .. Len(files[n]), j \in 1 .. Len(files[m]) :
            Whole(files[n][i]) /\ Whole(files[m][j]) =>
                /\ files[n][i].lsn = files[m][j].lsn => n = m /\ i = j
                /\ n = m /\ i < j => files[n][i].lsn < files[m][j].lsn

(* "atomic write" (storage/README.md:387): what write() left half written   *)
(* never stands in front of an entry that was flushed.                     *)
FlushedReachable ==
    \A n \in FileName : \A i \in 1 .. Len(files[n]) :
        Whole(files[n][i]) => \A j \in 1 .. i : Whole(files[n][j])

(* max_bytes_ is tested before the lock is taken, so it is no hard limit;  *)
(* the buffer exceeds it by at most one largest entry per appending thread *)
(* (the spin of append() and its critical section).                        *)
LimitOvershoot ==
    current_bytes <=
        max_bytes - 1 + Cardinality(Appender) * (HEAD_SIZE + max_payload_size)

Bytes(list) == FoldLeft(LAMBDA n, e : n + total_size(e), 0, list)

(* current_bytes_ is the size of what is in the buffer; it is a size_t, so *)
(* an entry subtracted twice or with another size than it was added with   *)
(* would make the buffer full for ever.                                    *)
BytesExact == current_bytes = Bytes(entries)

(* "flush all entries" (log_buffer.cpp:117): when flush() returns SUCCESS, *)
(* everything appended before it was called is flushed, whoever flushed    *)
(* it.                                                                     *)
Succeeds(f) == FlushEmpty(f) \/ FlushReturn(f)

FlushCoversCall ==
    [][\A f \in Flusher : Succeeds(f) => flushed_lsn >= promised[f]]_vars

(* The buffer, the file and their threads implement the abstract log.      *)
WAL == INSTANCE WriteAheadLog WITH
            FirstLsn <- InitLsn, issued <- current_lsn,
            hardened <- flushed_lsn, stored <- Stored
ImplementsLog == WAL!Spec

-----------------------------------------------------------------------------
(* Liveness.  Threads run and return from their critical sections; someone *)
(* keeps calling flush(); and the client, when a file is full or none is   *)
(* open, at some point gets a file that has room for the next entry.       *)

OpenWithRoom ==
    /\ entries # <<>>
    /\ \E name \in FileName, end_lsn \in EndLsn :
          end_lsn > Head(entries).lsn /\ OpenWriter(name, end_lsn)

Fairness ==
    /\ \A a \in Appender :
          /\ WF_vars(AppendAdmit(a) \/ AppendReject(a))
          /\ WF_vars(AppendLock(a))
          /\ WF_vars(AppendPush(a))
    /\ \A f \in Flusher : WF_vars(Flush(f)) /\ WF_vars(FlushRun(f))
    /\ SF_vars(OpenWithRoom)
    /\ SF_vars(CloseWriter)

FairSpec == Spec /\ Fairness

(* A thread that calls append() gets back from it: the spin on a full      *)
(* buffer and the lock never hold it for ever.                             *)
AppendReturns == \A a \in Appender : pc[a] # "idle" ~> pc[a] = "idle"

(* Every LSN handed out is hardened in the end.                            *)
Drains ==
    \A n \in InitLsn + 1 .. MaxLsn : current_lsn >= n ~> flushed_lsn >= n
=============================================================================
