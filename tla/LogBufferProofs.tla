-------------------------- MODULE LogBufferProofs --------------------------
(***************************************************************************)
(* What holds of LogBuffer for every number of threads, every payload,     *)
(* limit and batch size, and every number of failing writes.               *)
(*                                                                         *)
(* No invariant of LogBuffer is inductive alone.  The types need that only *)
(* checked entries reach the buffer (AdmittedFit); what is stored on disk  *)
(* and what the buffer holds are only related in the presence of the lock  *)
(* (Locking); and the bound on the bytes needs an account of the threads   *)
(* that passed the test of the limit and did not append yet (Reserved).    *)
(***************************************************************************)
EXTENDS LogBuffer, LogFileWriterProofs, DataLemmas

Inside == {"locked", "flushing", "popping"}

Locking ==
    /\ \A t \in Thread : pc[t] \in Inside <=> mutex = t
    /\ \A f \in Flusher : pc[f] = "popping" => entries # <<>>

AdmittedFit ==
    \A a \in Appender :
        pc[a] \in {"append_entry", "ready", "locked"} => Fits(req[a])

TInv == TypeOK /\ Locking /\ AdmittedFit

-----------------------------------------------------------------------------
(* Types and locking.                                                      *)

(* The entry at the head of a buffer that is not empty.                    *)
LEMMA HeadType ==
    ASSUME TypeOK, entries # <<>>
    PROVE  /\ Head(entries) \in Entry
           /\ Tail(entries) \in Seq([lsn : Int, size : 0 .. max_payload_size])
           /\ Len(Tail(entries)) = Len(entries) - 1
           /\ Len(entries) \in Nat \ {0}
           /\ Head(entries) = entries[1]
           /\ \A i \in 1 .. Len(entries) - 1 : Tail(entries)[i] = entries[i + 1]
<1>. DEFINE S == [lsn : Int, size : 0 .. max_payload_size]
<1>1. entries \in Seq(S) /\ S \subseteq Entry
  BY LimitAssumption, PayloadSizeAssumption DEF TypeOK, Entry
<1>. HIDE DEF S
<1>2. /\ Head(entries) \in S
      /\ Tail(entries) \in Seq(S)
      /\ Len(Tail(entries)) = Len(entries) - 1
      /\ Len(entries) \in Nat \ {0}
      /\ Head(entries) = entries[1]
      /\ \A i \in 1 .. Len(entries) - 1 : Tail(entries)[i] = entries[i + 1]
  BY <1>1
<1>. QED
  BY <1>1, <1>2 DEF S

(* An empty buffer, a closed file and idle threads have the right types.   *)
LEMMA InitTInv == Init => TInv
<1>. SUFFICES ASSUME Init PROVE TInv
  OBVIOUS
<1>1. WriterTypeOK
  BY IoErrorsAssumption DEF Init, WriterInit, WriterTypeOK, Writer
<1>2. TypeOK
  BY <1>1, LsnAssumption
     DEF Init, TypeOK, Thread, AppenderPc, FlusherPc
<1>3. Locking /\ AdmittedFit
  BY ThreadAssumption DEF Init, Locking, AdmittedFit, Inside, Thread
<1>. QED
  BY <1>2, <1>3 DEF TInv

(* The files stay as they are.                                             *)
LEMMA WriterUnchanged ==
    ASSUME WriterTypeOK, UNCHANGED writer_vars
    PROVE  WriterTypeOK'
  BY DEF WriterTypeOK, writer_vars, Writer

(* Every step of an appender, of a flusher and of the owner keeps types    *)
(* and the lock.                                                           *)
LEMMA StepTInv == TInv /\ [Next]_vars => TInv'
<1>. SUFFICES ASSUME TInv, [Next]_vars PROVE TInv'
  OBVIOUS
<1>. USE DEF Thread
<1>0. /\ TypeOK /\ Locking /\ AdmittedFit
      /\ NoThread \notin Appender \cup Flusher
      /\ Appender \cap Flusher = {}
  BY ThreadAssumption DEF TInv
<1>1. ASSUME NEW a \in Appender, NEW size \in Payload, AppendData(a, size)
      PROVE  TInv'
  <2>1. WriterTypeOK'
    BY <1>0, <1>1, WriterUnchanged DEF AppendData, TypeOK
  <2>2. TypeOK'
    BY <1>0, <1>1, <2>1, PayloadAssumption
       DEF AppendData, TypeOK, Goto, AppenderPc, FlusherPc
  <2>3. Locking'
    BY <1>0, <1>1 DEF AppendData, TypeOK, Goto, Locking, Inside
  <2>4. AdmittedFit'
    BY <1>0, <1>1 DEF AppendData, TypeOK, Goto, AdmittedFit
  <2>. QED
    BY <2>2, <2>3, <2>4 DEF TInv
<1>2. ASSUME NEW a \in Appender, NEW size \in Payload, AppendEntry(a, size)
      PROVE  TInv'
  <2>1. WriterTypeOK'
    BY <1>0, <1>2, WriterUnchanged DEF AppendEntry, TypeOK
  <2>2. TypeOK'
    BY <1>0, <1>2, <2>1, PayloadAssumption
       DEF AppendEntry, TypeOK, Goto, AppenderPc, FlusherPc
  <2>3. Locking'
    BY <1>0, <1>2 DEF AppendEntry, TypeOK, Goto, Locking, Inside
  <2>4. AdmittedFit'
    BY <1>0, <1>2, PayloadAssumption DEF AppendEntry, TypeOK, Goto, AdmittedFit, Fits
  <2>. QED
    BY <2>2, <2>3, <2>4 DEF TInv
<1>3. ASSUME NEW a \in Appender, AppendAdmit(a)
      PROVE  TInv'
  <2>1. WriterTypeOK'
    BY <1>0, <1>3, WriterUnchanged DEF AppendAdmit, TypeOK
  <2>2. TypeOK'
    BY <1>0, <1>3, <2>1 DEF AppendAdmit, TypeOK, Goto, AppenderPc, FlusherPc
  <2>3. Locking'
    BY <1>0, <1>3 DEF AppendAdmit, TypeOK, Goto, Locking, Inside
  <2>4. AdmittedFit'
    BY <1>0, <1>3 DEF AppendAdmit, TypeOK, Goto, AdmittedFit, Fits
  <2>. QED
    BY <2>2, <2>3, <2>4 DEF TInv
<1>4. ASSUME NEW a \in Appender, AppendReject(a)
      PROVE  TInv'
  <2>1. WriterTypeOK'
    BY <1>0, <1>4, WriterUnchanged DEF AppendReject, TypeOK
  <2>2. TypeOK'
    BY <1>0, <1>4, <2>1 DEF AppendReject, TypeOK, Return, Goto, AppenderPc, FlusherPc
  <2>3. Locking'
    BY <1>0, <1>4 DEF AppendReject, TypeOK, Return, Goto, Locking, Inside
  <2>4. AdmittedFit'
    BY <1>0, <1>4 DEF AppendReject, TypeOK, Return, Goto, AdmittedFit, Fits
  <2>. QED
    BY <2>2, <2>3, <2>4 DEF TInv
<1>5. ASSUME NEW a \in Appender, AppendLock(a)
      PROVE  TInv'
  <2>1. WriterTypeOK'
    BY <1>0, <1>5, WriterUnchanged DEF AppendLock, TypeOK
  <2>2. TypeOK'
    BY <1>0, <1>5, <2>1 DEF AppendLock, TypeOK, Lock, Goto, AppenderPc, FlusherPc
  <2>3. Locking'
    BY <1>0, <1>5 DEF AppendLock, TypeOK, Lock, Goto, Locking, Inside
  <2>4. AdmittedFit'
    BY <1>0, <1>5 DEF AppendLock, TypeOK, Goto, AdmittedFit, Fits
  <2>. QED
    BY <2>2, <2>3, <2>4 DEF TInv
<1>6. ASSUME NEW a \in Appender, AppendPush(a)
      PROVE  TInv'
  <2>1. WriterTypeOK'
    BY <1>0, <1>6, WriterUnchanged DEF AppendPush, TypeOK
  <2>. DEFINE e == [lsn |-> current_lsn + 1, size |-> req[a]]
              S == [lsn : Int, size : 0 .. max_payload_size]
  <2>2. e \in S /\ e \in Entry
    BY <1>0, <1>6, LimitAssumption, PayloadSizeAssumption
       DEF AppendPush, TypeOK, AdmittedFit, Fits, Entry
  <2>3. /\ entries' = Append(entries, e)
        /\ current_lsn' = e.lsn
        /\ current_bytes' = current_bytes + total_size(e)
    BY <1>6 DEF AppendPush
  <2>4. current_lsn' \in Int /\ current_bytes' \in Int
    BY <1>0, <2>2, <2>3, TotalSizeType DEF TypeOK, Entry
  <2>5. entries' \in Seq(S) /\ entries' # <<>>
    <3>1. entries \in Seq(S)
      BY <1>0 DEF TypeOK
    <3>. HIDE DEF S, e
    <3>. QED
      BY <2>2, <2>3, <3>1
  <2>6. TypeOK'
    BY <1>0, <1>6, <2>1, <2>4, <2>5
       DEF AppendPush, TypeOK, Return, Unlock, Goto, AppenderPc, FlusherPc
  <2>7. Locking'
    BY <1>0, <1>6, <2>5 DEF AppendPush, TypeOK, Return, Unlock, Goto, Locking, Inside
  <2>8. AdmittedFit'
    BY <1>0, <1>6 DEF AppendPush, TypeOK, Return, Goto, AdmittedFit, Fits
  <2>. QED
    BY <2>6, <2>7, <2>8 DEF TInv
<1>7. ASSUME NEW f \in Flusher,
             Flush(f) \/ \E batch_size \in BatchSize : FlushBatch(f, batch_size)
      PROVE  TInv'
  <2>1. UNCHANGED writer_vars
    BY <1>7 DEF Flush, FlushBatch
  <2>2. WriterTypeOK'
    BY <1>0, <2>1, WriterUnchanged DEF TypeOK
  <2>3. SizeRead \subseteq Nat
    <3>1. Len(entries) \in Nat
      BY <1>0 DEF TypeOK
    <3>. QED
      BY <3>1, BatchAssumption DEF SizeRead
  <2>4. PICK n \in Nat : req' = [req EXCEPT ![f] = n]
    BY <1>7, <2>3, BatchAssumption DEF Flush, FlushBatch
  <2>5. PICK m \in Int : promised' = [promised EXCEPT ![f] = m]
    BY <1>0, <1>7, LsnAssumption DEF Flush, FlushBatch, TypeOK
  <2>6. /\ pc[f] = "idle"
        /\ Goto(f, "flush")
        /\ UNCHANGED <<entries, current_bytes, current_lsn, flushed_lsn, mutex, written>>
    BY <1>7 DEF Flush, FlushBatch
  <2>7. TypeOK'
    BY <1>0, <2>2, <2>4, <2>5, <2>6 DEF TypeOK, Goto, AppenderPc, FlusherPc
  <2>8. Locking'
    BY <1>0, <2>6 DEF TypeOK, Goto, Locking, Inside
  <2>9. AdmittedFit'
    BY <1>0, <2>4, <2>6 DEF TypeOK, Goto, AdmittedFit
  <2>. QED
    BY <2>7, <2>8, <2>9 DEF TInv
<1>8. ASSUME NEW f \in Flusher, FlushLock(f)
      PROVE  TInv'
  <2>1. WriterTypeOK'
    BY <1>0, <1>8, WriterUnchanged DEF FlushLock, TypeOK
  <2>2. TypeOK'
    BY <1>0, <1>8, <2>1 DEF FlushLock, TypeOK, Lock, Goto, AppenderPc, FlusherPc
  <2>3. Locking'
    BY <1>0, <1>8 DEF FlushLock, TypeOK, Lock, Goto, Locking, Inside
  <2>4. AdmittedFit'
    BY <1>0, <1>8 DEF FlushLock, TypeOK, Goto, AdmittedFit, Fits
  <2>. QED
    BY <2>2, <2>3, <2>4 DEF TInv
<1>9. ASSUME NEW f \in Flusher, FlushEmpty(f)
      PROVE  TInv'
  <2>1. WriterTypeOK'
    BY <1>0, <1>9, WriterUnchanged DEF FlushEmpty, TypeOK
  <2>2. TypeOK'
    BY <1>0, <1>9, <2>1, LsnAssumption
       DEF FlushEmpty, TypeOK, FlushEnds, Return, Goto, AppenderPc, FlusherPc
  <2>3. Locking'
    BY <1>0, <1>9 DEF FlushEmpty, TypeOK, FlushEnds, Return, Goto, Locking, Inside
  <2>4. AdmittedFit'
    BY <1>0, <1>9 DEF FlushEmpty, TypeOK, FlushEnds, Return, Goto, AdmittedFit, Fits
  <2>. QED
    BY <2>2, <2>3, <2>4 DEF TInv
<1>10. ASSUME NEW f \in Flusher, FlushWrite(f)
       PROVE  TInv'
  <2>1. Head(entries) \in Entry /\ entries # <<>>
    BY <1>0, <1>10, HeadType DEF FlushWrite, BatchOpen
  <2>2. WriterTypeOK'
    BY <1>0, <1>10, <2>1, WriterTypes DEF FlushWrite, TypeOK
  <2>3. TypeOK'
    BY <1>0, <1>10, <2>2 DEF FlushWrite, TypeOK, Goto, AppenderPc, FlusherPc
  <2>4. Locking'
    BY <1>0, <1>10, <2>1
       DEF FlushWrite, BatchOpen, TypeOK, Goto, Locking, Inside
  <2>5. AdmittedFit'
    BY <1>0, <1>10 DEF FlushWrite, TypeOK, Goto, AdmittedFit, Fits
  <2>. QED
    BY <2>3, <2>4, <2>5 DEF TInv
<1>11. ASSUME NEW f \in Flusher, FlushFail(f)
       PROVE  TInv'
  <2>1. Head(entries) \in Entry /\ entries # <<>>
    BY <1>0, <1>11, HeadType DEF FlushFail, BatchOpen
  <2>2. WriterTypeOK'
    BY <1>0, <1>11, <2>1, WriterTypes DEF FlushFail, TypeOK
  <2>3. TypeOK'
    BY <1>0, <1>11, <2>2, LsnAssumption
       DEF FlushFail, TypeOK, FlushEnds, Unlock, Return, Goto, AppenderPc, FlusherPc
  <2>4. Locking'
    BY <1>0, <1>11
       DEF FlushFail, TypeOK, FlushEnds, Unlock, Return, Goto, Locking, Inside
  <2>5. AdmittedFit'
    BY <1>0, <1>11 DEF FlushFail, TypeOK, FlushEnds, Return, Goto, AdmittedFit, Fits
  <2>. QED
    BY <2>3, <2>4, <2>5 DEF TInv
<1>12. ASSUME NEW f \in Flusher, FlushPop(f)
       PROVE  TInv'
  <2>1. WriterTypeOK'
    BY <1>0, <1>12, WriterUnchanged DEF FlushPop, TypeOK
  <2>2. entries # <<>>
    BY <1>0, <1>12 DEF FlushPop, Locking
  <2>3. /\ entries' \in Seq([lsn : Int, size : 0 .. max_payload_size])
        /\ current_bytes' \in Int
        /\ flushed_lsn' \in Int
    BY <1>0, <1>12, <2>2, HeadType, TotalSizeType DEF FlushPop, TypeOK, Entry
  <2>4. TypeOK'
    BY <1>0, <1>12, <2>1, <2>3
       DEF FlushPop, TypeOK, Goto, AppenderPc, FlusherPc
  <2>5. Locking'
    BY <1>0, <1>12 DEF FlushPop, TypeOK, Goto, Locking, Inside
  <2>6. AdmittedFit'
    BY <1>0, <1>12 DEF FlushPop, TypeOK, Goto, AdmittedFit, Fits
  <2>. QED
    BY <2>4, <2>5, <2>6 DEF TInv
<1>13. ASSUME NEW f \in Flusher, FlushReturn(f)
       PROVE  TInv'
  <2>1. WriterTypeOK'
    BY <1>0, <1>13, WriterUnchanged DEF FlushReturn, TypeOK
  <2>2. TypeOK'
    BY <1>0, <1>13, <2>1, LsnAssumption
       DEF FlushReturn, TypeOK, FlushEnds, Unlock, Return, Goto, AppenderPc, FlusherPc
  <2>3. Locking'
    BY <1>0, <1>13
       DEF FlushReturn, TypeOK, FlushEnds, Unlock, Return, Goto, Locking, Inside
  <2>4. AdmittedFit'
    BY <1>0, <1>13 DEF FlushReturn, TypeOK, FlushEnds, Return, Goto, AdmittedFit, Fits
  <2>. QED
    BY <2>2, <2>3, <2>4 DEF TInv
<1>14. ASSUME Client
       PROVE  TInv'
  <2>1. WriterTypeOK'
    <3>1. CASE \E name \in FileName, end_lsn \in EndLsn : OpenWriter(name, end_lsn)
      <4>1. \E name \in FileName, end_lsn \in Int : Open(name, end_lsn)
        BY <3>1, LsnAssumption DEF OpenWriter
      <4>2. [lsn |-> 0, size |-> 0] \in Entry
        BY DEF Entry
      <4>. QED
        BY <1>0, <4>1, <4>2, WriterTypes DEF TypeOK
    <3>2. CASE CloseWriter
      BY <1>0, <3>2, HeadType, WriterTypes DEF CloseWriter, TypeOK
    <3>. QED
      BY <1>14, <3>1, <3>2 DEF Client
  <2>2. UNCHANGED <<entries, current_bytes, current_lsn, flushed_lsn, mutex,
                    pc, req, written, promised>>
    BY <1>14 DEF Client, OpenWriter, CloseWriter
  <2>. QED
    BY <1>0, <2>1, <2>2 DEF TInv, TypeOK, Locking, AdmittedFit
<1>15. CASE UNCHANGED vars
  <2>1. WriterTypeOK'
    BY <1>0, <1>15, WriterUnchanged DEF vars, TypeOK, writer_vars
  <2>. QED
    BY <1>0, <1>15, <2>1 DEF vars, TInv, TypeOK, Locking, AdmittedFit
<1>. QED
  BY <1>1, <1>2, <1>3, <1>4, <1>5, <1>6, <1>7, <1>8, <1>9, <1>10, <1>11,
     <1>12, <1>13, <1>14, <1>15
     DEF Next, AppenderNext, FlusherNext, FlushRun

(* So they hold of every behaviour.                                        *)
LEMMA TInvAlways == Spec => []TInv
  BY InitTInv, StepTInv, PTL DEF Spec

(* Type correctness, for every value of the constants.                     *)
THEOREM TypeCorrect == Spec => []TypeOK
  BY TInvAlways, PTL DEF TInv

-----------------------------------------------------------------------------
(* The log: the chain of LSNs through disk and buffer, and the steps of    *)
(* the abstract log.                                                       *)

LInv == LsnChain /\ Durable /\ OnceInOrder /\ InitLsn <= flushed_lsn

LogStep == [WAL!Next]_(WAL!vars)

(* Nothing is issued, stored or hardened at first, in the log as in its    *)
(* promise.                                                                *)
LEMMA InitLInv == Init => LInv /\ WAL!Init
<1>. SUFFICES ASSUME Init PROVE LInv /\ WAL!Init
  OBVIOUS
<1>1. \A n \in FileName : files[n] = <<>>
  BY DEF Init, WriterInit
<1>2. Stored = {}
  BY <1>1, StoredMember DEF Stored
<1>3. ~Popping /\ InitLsn + 1 .. flushed_lsn = {}
  BY LsnAssumption DEF Init, Popping
<1>4. Durable
  BY <1>2, <1>3 DEF Durable
<1>5. LsnChain
  BY LsnAssumption DEF Init, LsnChain
<1>6. OnceInOrder
  BY <1>1 DEF OnceInOrder
<1>. QED
  BY <1>2, <1>4, <1>5, <1>6, LsnAssumption DEF LInv, Init, WAL!Init

(* A step that touches neither the disk nor the buffer nor an LSN.         *)
LEMMA Quiet ==
    ASSUME TInv, LInv, Popping' <=> Popping, OnceInOrder', Stored' = Stored,
           UNCHANGED <<entries, current_lsn, flushed_lsn>>
    PROVE  LInv' /\ LogStep
<1>1. LsnChain' /\ Durable'
  BY DEF LInv, LsnChain, Durable
<1>2. UNCHANGED WAL!vars
  BY DEF WAL!vars
<1>. QED
  BY <1>1, <1>2 DEF LInv, LogStep

(* OnceInOrder is the order of LogFileWriterProofs.                        *)
LEMMA OrderIs ==
    /\ OnceInOrder <=> Ascending(files)
    /\ OnceInOrder' <=> Ascending(files')
  BY DEF OnceInOrder, Ascending, Whole, total_size

(* While the files do not change, nor does what is stored.                 *)
LEMMA SameFiles ==
    ASSUME LInv, UNCHANGED files
    PROVE  Stored' = Stored /\ OnceInOrder'
  BY DEF LInv, Stored, OnceInOrder, Whole, total_size

(* Only the thread that holds the lock can be popping.                     *)
LEMMA PoppingIs ==
    ASSUME TInv
    PROVE  Popping <=> \E f \in Flusher : pc[f] = "popping"
  BY ThreadAssumption
     DEF TInv, TypeOK, Locking, Inside, Popping, Thread, AppenderPc, FlusherPc

(* Every step keeps the chain from files to buffer, and is a step of the   *)
(* promise or changes nothing of it.                                       *)
LEMMA StepLInv == TInv /\ LInv /\ [Next]_vars => LInv' /\ LogStep
<1>. SUFFICES ASSUME TInv, LInv, [Next]_vars PROVE LInv' /\ LogStep
  OBVIOUS
<1>0. /\ TypeOK /\ Locking /\ WriterTypeOK
      /\ TInv'
      /\ NoThread \notin Appender \cup Flusher
      /\ Appender \cap Flusher = {}
      /\ InitLsn \in Int
  BY ThreadAssumption, LsnAssumption, StepTInv DEF TInv, TypeOK
<1>00. /\ Popping <=> \E f \in Flusher : pc[f] = "popping"
       /\ Popping' <=> \E f \in Flusher : pc'[f] = "popping"
       /\ current_lsn \in Int /\ flushed_lsn \in Int
  <2>1. Popping <=> \E f \in Flusher : pc[f] = "popping"
    BY PoppingIs
  <2>2. (Popping <=> \E f \in Flusher : pc[f] = "popping")'
    BY <1>0, ThreadAssumption
       DEF TInv, TypeOK, Locking, Inside, Popping, Thread, AppenderPc, FlusherPc
  <2>. QED
    BY <1>0, <2>1, <2>2 DEF TypeOK
<1>1. ASSUME NEW a \in Appender,
             \/ \E size \in Payload : AppendData(a, size) \/ AppendEntry(a, size)
             \/ AppendAdmit(a) \/ AppendReject(a) \/ AppendLock(a)
      PROVE  LInv' /\ LogStep
  <2>1. UNCHANGED <<files, entries, current_lsn, flushed_lsn>>
    BY <1>1 DEF AppendData, AppendEntry, AppendAdmit, AppendReject, AppendLock,
                writer_vars
  <2>2. \A f \in Flusher : pc'[f] = pc[f]
    BY <1>0, <1>1 DEF AppendData, AppendEntry, AppendAdmit, AppendReject,
                      AppendLock, Return, Goto, TypeOK, Thread
  <2>. QED
    BY <1>00, <2>1, <2>2, SameFiles, Quiet
<1>2. ASSUME NEW a \in Appender, AppendPush(a)
      PROVE  LInv' /\ LogStep
  <2>. DEFINE e == [lsn |-> current_lsn + 1, size |-> req[a]]
              S == [lsn : Int, size : 0 .. max_payload_size]
  <2>1. /\ entries' = Append(entries, e)
        /\ current_lsn' = current_lsn + 1
        /\ UNCHANGED <<files, flushed_lsn>>
        /\ \A f \in Flusher : pc'[f] = pc[f]
    BY <1>0, <1>2 DEF AppendPush, Return, Goto, TypeOK, Thread, writer_vars
  <2>2. /\ Len(entries') = Len(entries) + 1
        /\ \A i \in 1 .. Len(entries) : entries'[i] = entries[i]
        /\ entries'[Len(entries) + 1] = e
        /\ Len(entries) \in Nat
    <3>1. entries \in Seq(S)
      BY <1>0 DEF TypeOK
    <3>. HIDE DEF S, e
    <3>. QED
      BY <2>1, <3>1
  <2>3. LsnChain'
    <3>1. current_lsn = flushed_lsn + Len(entries)
      BY DEF LInv, LsnChain
    <3>2. \A i \in 1 .. Len(entries) : entries'[i].lsn = flushed_lsn + i
      BY <2>2 DEF LInv, LsnChain
    <3>3. entries'[Len(entries) + 1].lsn = flushed_lsn + (Len(entries) + 1)
      BY <1>00, <2>2, <3>1
    <3>4. \A i \in 1 .. Len(entries) + 1 : entries'[i].lsn = flushed_lsn + i
      BY <2>2, <3>2, <3>3
    <3>. QED
      BY <1>00, <2>1, <2>2, <3>1, <3>4 DEF LsnChain
  <2>4. Stored' = Stored /\ OnceInOrder' /\ (Popping' <=> Popping)
    BY <1>00, <2>1, SameFiles
  <2>5. Durable'
    BY <2>1, <2>4 DEF LInv, Durable
  <2>6. WAL!Issue
    BY <2>1, <2>4 DEF WAL!Issue
  <2>. QED
    BY <2>1, <2>3, <2>4, <2>5, <2>6 DEF LInv, LogStep, WAL!Next
<1>3. ASSUME NEW f \in Flusher,
             \/ Flush(f)
             \/ \E batch_size \in BatchSize : FlushBatch(f, batch_size)
             \/ FlushLock(f) \/ FlushEmpty(f) \/ FlushReturn(f)
      PROVE  LInv' /\ LogStep
  <2>1. UNCHANGED <<files, entries, current_lsn, flushed_lsn>>
    BY <1>3 DEF Flush, FlushBatch, FlushLock, FlushEmpty, FlushReturn, writer_vars
  <2>2. /\ pc[f] # "popping" /\ pc'[f] # "popping"
        /\ \A g \in Flusher \ {f} : pc'[g] = pc[g]
    BY <1>0, <1>3 DEF Flush, FlushBatch, FlushLock, FlushEmpty, FlushReturn,
                      FlushEnds, Return, Goto, TypeOK, Thread
  <2>. QED
    BY <1>00, <2>1, <2>2, SameFiles, Quiet
<1>4. ASSUME NEW f \in Flusher, FlushWrite(f)
      PROVE  LInv' /\ LogStep
  <2>1. Head(entries) \in Entry /\ Head(entries) = entries[1] /\ Len(entries) \in Nat \ {0}
    BY <1>0, <1>4, HeadType DEF FlushWrite, BatchOpen
  <2>2. Head(entries).lsn = flushed_lsn + 1 /\ flushed_lsn < current_lsn
    BY <1>00, <2>1 DEF LInv, LsnChain
  <2>3. /\ pc[f] = "flushing" /\ pc'[f] = "popping"
        /\ UNCHANGED <<entries, current_lsn, flushed_lsn>>
    BY <1>0, <1>4 DEF FlushWrite, BatchOpen, Goto, TypeOK, Thread
  <2>4. ~Popping /\ Popping'
    BY <1>0, <1>00, <2>3 DEF Locking, Inside, TypeOK, Thread
  <2>5. Stored = InitLsn + 1 .. flushed_lsn
    BY <2>4 DEF LInv, Durable
  <2>6. InitLsn <= flushed_lsn
    BY DEF LInv
  <2>7. Stored' = Stored \cup {flushed_lsn + 1}
    BY <1>0, <1>4, <2>1, <2>2, StoredDone DEF FlushWrite
  <2>8. Durable'
    BY <1>0, <2>3, <2>4, <2>5, <2>6, <2>7 DEF Durable, TypeOK
  <2>9. OnceInOrder'
    BY <1>0, <1>4, <2>1, <2>2, <2>5, OrderDone, OrderIs DEF FlushWrite, LInv, TypeOK
  <2>10. LsnChain'
    BY <2>3 DEF LInv, LsnChain
  <2>11. WAL!Store
    BY <2>2, <2>3, <2>5, <2>7 DEF WAL!Store
  <2>. QED
    BY <2>3, <2>6, <2>8, <2>9, <2>10, <2>11 DEF LInv, LogStep, WAL!Next
<1>5. ASSUME NEW f \in Flusher, FlushFail(f)
      PROVE  LInv' /\ LogStep
  <2>1. Head(entries) \in Entry
    BY <1>0, <1>5, HeadType DEF FlushFail, BatchOpen
  <2>2. /\ pc[f] # "popping" /\ pc'[f] # "popping"
        /\ \A g \in Flusher \ {f} : pc'[g] = pc[g]
        /\ UNCHANGED <<entries, current_lsn, flushed_lsn>>
    BY <1>0, <1>5 DEF FlushFail, BatchOpen, FlushEnds, Return, Goto, TypeOK, Thread
  <2>3. Stored' = Stored /\ OnceInOrder'
    BY <1>0, <1>5, <2>1, StoredKept, OrderKept, OrderIs DEF FlushFail, LInv
  <2>. QED
    BY <1>00, <2>2, <2>3, Quiet
<1>6. ASSUME NEW f \in Flusher, FlushPop(f)
      PROVE  LInv' /\ LogStep
  <2>1. /\ pc[f] = "popping"
        /\ entries # <<>>
    BY <1>0, <1>6 DEF FlushPop, Locking
  <2>2. /\ Len(Tail(entries)) = Len(entries) - 1
        /\ Len(entries) \in Nat \ {0}
        /\ Head(entries) = entries[1]
        /\ \A i \in 1 .. Len(entries) - 1 : Tail(entries)[i] = entries[i + 1]
    BY <1>0, <2>1, HeadType
  <2>3. Head(entries).lsn = flushed_lsn + 1
    BY <1>0, <2>2 DEF LInv, LsnChain, TypeOK
  <2>4. /\ entries' = Tail(entries)
        /\ flushed_lsn' = flushed_lsn + 1
        /\ UNCHANGED <<files, current_lsn>>
    BY <1>6, <2>3 DEF FlushPop, writer_vars
  <2>5. Popping
    BY <1>00, <2>1
  <2>6. ~Popping'
    <3>1. mutex' = f /\ pc'[f] = "flushing"
      BY <1>0, <1>6, <2>1 DEF FlushPop, Goto, Locking, Inside, TypeOK, Thread
    <3>. QED
      BY <3>1 DEF Popping
  <2>7. LsnChain'
    BY <1>0, <2>2, <2>4 DEF LInv, LsnChain, TypeOK
  <2>8. Stored' = Stored /\ OnceInOrder'
    BY <2>4, SameFiles
  <2>9. Durable'
    BY <2>4, <2>5, <2>6, <2>8 DEF LInv, Durable
  <2>10. WAL!Harden
    <3>1. Stored = InitLsn + 1 .. flushed_lsn + 1
      BY <2>5 DEF LInv, Durable
    <3>2. flushed_lsn + 1 \in Stored
      BY <1>0, <3>1 DEF LInv, TypeOK
    <3>. QED
      BY <2>4, <2>8, <3>2 DEF WAL!Harden
  <2>11. InitLsn <= flushed_lsn'
    BY <1>0, <2>4 DEF LInv, TypeOK
  <2>. QED
    BY <2>7, <2>8, <2>9, <2>10, <2>11 DEF LInv, LogStep, WAL!Next
<1>7. CASE Client \/ UNCHANGED vars
  <2>1. UNCHANGED <<files, entries, current_lsn, flushed_lsn, pc>>
    BY <1>7 DEF Client, OpenWriter, Open, CloseWriter, Close, vars
  <2>. QED
    BY <1>00, <2>1, SameFiles, Quiet
<1>. QED
  BY <1>1, <1>2, <1>3, <1>4, <1>5, <1>6, <1>7
     DEF Next, AppenderNext, FlusherNext, FlushRun

(* So both hold of every behaviour.                                        *)
LEMMA LInvAlways == Spec => [](TInv /\ LInv)
<1>1. Init => TInv /\ LInv
  BY InitTInv, InitLInv
<1>2. TInv /\ LInv /\ [Next]_vars => (TInv /\ LInv)'
  BY StepTInv, StepLInv
<1>. QED
  BY <1>1, <1>2, PTL DEF Spec

(* The buffer holds exactly what is issued and not flushed.                *)
THEOREM BufferIsChain == Spec => []LsnChain
  BY LInvAlways, PTL DEF LInv

(* What flushed_lsn_ reports can be read back, after any number of failing *)
(* writes, with any number of threads.                                     *)
THEOREM FlushedIsDurable == Spec => []Durable
  BY LInvAlways, PTL DEF LInv

(* No LSN is stored twice, and the LSNs of a file ascend.                  *)
THEOREM StoredOnceInOrder == Spec => []OnceInOrder
  BY LInvAlways, PTL DEF LInv

(* The buffer, the file and their threads refine the abstract log.         *)
THEOREM BufferImplementsLog == Spec => ImplementsLog
<1>1. Init => WAL!Init
  BY InitLInv
<1>2. TInv /\ LInv /\ [Next]_vars => [WAL!Next]_(WAL!vars)
  BY StepLInv DEF LogStep
<1>. QED
  BY <1>1, <1>2, LInvAlways, PTL DEF Spec, ImplementsLog, WAL!Spec

-----------------------------------------------------------------------------
(* The bound on the bytes.  A thread that passed the test of the limit has *)
(* one largest entry reserved; the buffer and the reservations together    *)
(* stay below the bound.                                                   *)

Largest  == HEAD_SIZE + max_payload_size
Reserved == {a \in Appender : pc[a] \in {"ready", "locked"}}

BInv == current_bytes + Cardinality(Reserved) * Largest
            <= max_bytes - 1 + Cardinality(Appender) * Largest

(* The appends under way can be counted.                                   *)
LEMMA ReservedFinite ==
    /\ IsFiniteSet(Reserved)
    /\ Cardinality(Reserved) \in Nat
    /\ Cardinality(Appender) \in Nat
    /\ Cardinality(Reserved) <= Cardinality(Appender)
    /\ Largest \in Nat
  BY ThreadAssumption, HeadSizeAssumption, LimitAssumption, PayloadSizeAssumption, FS_Subset,
     FS_CardinalityType DEF Reserved, Largest

(* Multiplication keeps the order of numbers.                              *)
LEMMA Scale ==
    ASSUME NEW m \in Nat, NEW n \in Nat, NEW k \in Nat, m <= n
    PROVE  /\ m * k \in Nat
           /\ m * k <= n * k
           /\ (m + 1) * k = m * k + k
<1>1. n = m + (n - m) /\ n - m \in Nat
  OBVIOUS
<1>2. n * k = m * k + (n - m) * k /\ (n - m) * k >= 0
  BY <1>1
<1>. QED
  BY <1>2

(* Nothing is reserved at first.                                           *)
LEMMA InitBInv == Init => BInv
<1>. SUFFICES ASSUME Init PROVE BInv
  OBVIOUS
<1>1. Reserved = {} /\ current_bytes = 0
  BY DEF Init, Reserved, Thread
<1>2. Cardinality(Reserved) = 0
  BY <1>1, FS_EmptySet
<1>3. Cardinality(Appender) * Largest \in Nat
  BY ReservedFinite, Scale
<1>. QED
  BY <1>1, <1>2, <1>3, ReservedFinite, LimitAssumption, PayloadSizeAssumption DEF BInv

(* An append reserves below the limit and adds at most what it reserved;   *)
(* flushing only gives back.                                               *)
LEMMA StepBInv == TInv /\ BInv /\ [Next]_vars => BInv'
<1>. SUFFICES ASSUME TInv, BInv, [Next]_vars PROVE BInv'
  OBVIOUS
<1>. DEFINE held  == Cardinality(Reserved) * Largest
            bound == max_bytes - 1 + Cardinality(Appender) * Largest
<1>0. /\ TypeOK /\ Locking /\ AdmittedFit
      /\ NoThread \notin Appender \cup Flusher
      /\ Appender \cap Flusher = {}
      /\ current_bytes \in Int
  BY ThreadAssumption DEF TInv, TypeOK
<1>00. /\ held \in Nat
       /\ bound \in Int
       /\ current_bytes + held <= bound
  BY ReservedFinite, Scale, LimitAssumption, PayloadSizeAssumption DEF BInv
<1>1. ASSUME NEW a \in Appender, AppendAdmit(a)
      PROVE  BInv'
  <2>1. /\ a \notin Reserved
        /\ Reserved' = Reserved \cup {a}
        /\ current_bytes' = current_bytes
        /\ current_bytes <= max_bytes - 1
    BY <1>0, <1>1, LimitAssumption, PayloadSizeAssumption
       DEF AppendAdmit, Reserved, Goto, TypeOK, Thread, BufferFull
  <2>2. Cardinality(Reserved') \in Nat /\ Cardinality(Reserved') <= Cardinality(Appender)
    <3>1. Reserved' \subseteq Appender
      BY DEF Reserved
    <3>. QED
      BY <3>1, ThreadAssumption, FS_Subset, FS_CardinalityType
  <2>3. Cardinality(Reserved') * Largest <= Cardinality(Appender) * Largest
    BY <2>2, ReservedFinite, Scale
  <2>4. Cardinality(Reserved') * Largest \in Nat /\ Cardinality(Appender) * Largest \in Nat
    BY <2>2, ReservedFinite, Scale
  <2>5. BInv' <=> current_bytes' + Cardinality(Reserved') * Largest <= bound
    BY DEF BInv, Largest
  <2>. QED
    BY <1>0, <2>1, <2>3, <2>4, <2>5, LimitAssumption, PayloadSizeAssumption
<1>2. ASSUME NEW a \in Appender, AppendPush(a)
      PROVE  BInv'
  <2>1. a \in Reserved /\ Reserved' = Reserved \ {a}
    BY <1>0, <1>2 DEF AppendPush, Reserved, Return, Goto, TypeOK, Thread
  <2>2. current_bytes' = current_bytes + (HEAD_SIZE + req[a])
    BY <1>2 DEF AppendPush, total_size
  <2>3. req[a] \in Nat /\ req[a] <= max_payload_size
    BY <1>0, <1>2 DEF AppendPush, AdmittedFit, Fits, TypeOK, Thread
  <2>4. current_bytes' \in Int /\ current_bytes' <= current_bytes + Largest
    BY <1>0, <2>2, <2>3, HeadSizeAssumption, LimitAssumption, PayloadSizeAssumption DEF Largest
  <2>5. Cardinality(Reserved') \in Nat /\ Cardinality(Reserved) = Cardinality(Reserved') + 1
    <3>1. /\ IsFiniteSet(Reserved \ {a})
          /\ Cardinality(Reserved \ {a}) = Cardinality(Reserved) - 1
      BY <2>1, ReservedFinite, FS_RemoveElement
    <3>2. Cardinality(Reserved \ {a}) \in Nat
      BY <3>1, FS_CardinalityType
    <3>. QED
      BY <2>1, <3>1, <3>2, ReservedFinite
  <2>6. held = Cardinality(Reserved') * Largest + Largest /\ Cardinality(Reserved') * Largest \in Nat
    BY <2>5, ReservedFinite, Scale
  <2>7. BInv' <=> current_bytes' + Cardinality(Reserved') * Largest <= bound
    BY DEF BInv, Largest
  <2>. HIDE DEF held, bound
  <2>. QED
    BY <1>0, <1>00, <2>4, <2>6, <2>7, ReservedFinite
<1>3. ASSUME NEW f \in Flusher, FlushPop(f)
      PROVE  BInv'
  <2>1. Head(entries) \in Entry
    BY <1>0, <1>3, HeadType DEF FlushPop, Locking
  <2>2. current_bytes' \in Int /\ current_bytes' <= current_bytes
    BY <1>0, <1>3, <2>1, TotalSizeType DEF FlushPop
  <2>3. Reserved' = Reserved
    BY <1>0, <1>3 DEF FlushPop, Reserved, Goto, TypeOK, Thread
  <2>4. BInv' <=> current_bytes' + held <= bound
    BY <2>3 DEF BInv, Largest
  <2>5. current_bytes' + held <= bound
    <3>1. /\ current_bytes \in Int /\ current_bytes' \in Int
          /\ current_bytes' <= current_bytes
      BY <1>0, <2>2
    <3>2. \A h \in Nat, b, c, d \in Int : d <= c /\ c + h <= b => d + h <= b
      OBVIOUS
    <3>. HIDE DEF held, bound
    <3>. QED
      BY <1>00, <3>1, <3>2
  <2>. QED
    BY <2>4, <2>5
<1>4. ASSUME UNCHANGED current_bytes, Reserved' = Reserved
      PROVE  BInv'
  BY <1>4 DEF BInv, Largest
<1>5. ASSUME NEW a \in Appender,
             \/ \E size \in Payload : AppendData(a, size) \/ AppendEntry(a, size)
             \/ AppendReject(a) \/ AppendLock(a)
      PROVE  BInv'
  <2>1. UNCHANGED current_bytes /\ Reserved' = Reserved
    BY <1>0, <1>5
       DEF AppendData, AppendEntry, AppendReject, AppendLock, Return, Goto,
           Reserved, TypeOK, Thread
  <2>. QED
    BY <1>4, <2>1
<1>6. ASSUME NEW f \in Flusher,
             \/ Flush(f)
             \/ \E batch_size \in BatchSize : FlushBatch(f, batch_size)
             \/ FlushLock(f) \/ FlushEmpty(f) \/ FlushWrite(f) \/ FlushFail(f)
             \/ FlushReturn(f)
      PROVE  BInv'
  <2>1. UNCHANGED current_bytes /\ Reserved' = Reserved
    BY <1>0, <1>6
       DEF Flush, FlushBatch, FlushLock, FlushEmpty, FlushWrite, FlushFail,
           FlushReturn, FlushEnds, Return, Goto, Reserved, TypeOK, Thread
  <2>. QED
    BY <1>4, <2>1
<1>7. CASE Client \/ UNCHANGED vars
  <2>1. UNCHANGED <<current_bytes, pc>>
    BY <1>7 DEF Client, OpenWriter, CloseWriter, vars
  <2>. QED
    BY <1>4, <2>1 DEF Reserved
<1>. QED
  BY <1>1, <1>2, <1>3, <1>5, <1>6, <1>7
     DEF Next, AppenderNext, FlusherNext, FlushRun

(* max_bytes_ is exceeded by at most one largest entry per appending       *)
(* thread.                                                                 *)
THEOREM OvershootBounded == Spec => []LimitOvershoot
<1>1. TInv /\ BInv => LimitOvershoot
  <2>. SUFFICES ASSUME TInv, BInv PROVE LimitOvershoot
    OBVIOUS
  <2>1. /\ Cardinality(Reserved) * Largest \in Nat
        /\ Cardinality(Appender) * Largest \in Nat
        /\ current_bytes \in Int
    BY ReservedFinite, Scale DEF TInv, TypeOK
  <2>. QED
    BY <2>1, LimitAssumption, PayloadSizeAssumption DEF BInv, LimitOvershoot, Largest
<1>. QED
  BY <1>1, InitBInv, StepBInv, TInvAlways, PTL DEF Spec

-----------------------------------------------------------------------------
(* The bytes that current_bytes_ counts.                                   *)

Sizes(list) == [i \in 1 .. Len(list) |-> total_size(list[i])]

(* They are the value of a fold, for which the facts of DataLemmas hold.   *)
LEMMA BytesFold ==
    ASSUME NEW list \in Seq(Entry)
    PROVE  /\ Len(list) \in Nat
           /\ \A i \in 1 .. Len(list) : Sizes(list)[i] = total_size(list[i])
           /\ AllNumbers(Sizes(list), Len(list))
           /\ \E f : IsFold(Sizes(list), Len(list), f) /\ Bytes(list) = f[1 .. Len(list)]
<1>1. Len(list) \in Nat /\ DOMAIN list = 1 .. Len(list)
  OBVIOUS
<1>2. \A i \in 1 .. Len(list) : /\ Sizes(list)[i] = total_size(list[i])
                                /\ Sizes(list)[i] \in Int
  BY TotalSizeType DEF Sizes
<1>. DEFINE F(f) == [s \in SUBSET (1 .. Len(list)) |->
                       IF s = {} THEN 0
                       ELSE LET x == Max(s) IN f[s \ {x}] + total_size(list[x])]
            g    == CHOOSE f : f = F(f)
<1>3. Bytes(list) = g[1 .. Len(list)]
  BY <1>1 DEF Bytes, FoldLeft, MapThenFoldSet
<1>4. ASSUME NEW f PROVE f = F(f) <=> IsFold(Sizes(list), Len(list), f)
  <2>1. ASSUME NEW s \in SUBSET (1 .. Len(list)), s # {}
        PROVE  total_size(list[Max(s)]) = Sizes(list)[Max(s)]
    BY <1>1, <1>2, <2>1, MaxPlace
  <2>. DEFINE G == [s \in SUBSET (1 .. Len(list)) |->
                      IF s = {} THEN 0
                      ELSE LET x == Max(s) IN f[s \ {x}] + Sizes(list)[x]]
  <2>2. F(f) = G
    BY <2>1
  <2>. QED
    BY <2>2 DEF IsFold
<1>5. \E f : f = F(f)
  <2>1. PICK f : IsFold(Sizes(list), Len(list), f)
    BY <1>1, FoldExists
  <2>2. f = F(f)
    BY <1>4, <2>1
  <2>. QED
    BY <2>2
<1>. HIDE DEF F
<1>6. g = F(g)
  BY <1>5
<1>7. IsFold(Sizes(list), Len(list), g)
  <2>. HIDE DEF g
  <2>. QED
    BY <1>4, <1>6
<1>. HIDE DEF g
<1>. QED
  BY <1>1, <1>2, <1>3, <1>7 DEF AllNumbers

(* An entry that is pushed adds its size.                                  *)
LEMMA BytesPush ==
    ASSUME NEW list \in Seq(Entry), NEW e \in Entry
    PROVE  Bytes(Append(list, e)) = Bytes(list) + total_size(e)
<1>. DEFINE n == Len(list)
            l == Append(list, e)
<1>1. /\ l \in Seq(Entry) /\ Len(l) = n + 1 /\ n \in Nat
      /\ \A i \in 1 .. n : l[i] = list[i]
      /\ l[n + 1] = e
  OBVIOUS
<1>2. PICK f : IsFold(Sizes(list), n, f) /\ Bytes(list) = f[1 .. n]
  BY BytesFold
<1>3. PICK g : IsFold(Sizes(l), n + 1, g) /\ Bytes(l) = g[1 .. n + 1]
  BY <1>1, BytesFold
<1>4. /\ \A i \in 1 .. n + 1 : Sizes(l)[i] = total_size(l[i])
      /\ AllNumbers(Sizes(l), n + 1)
      /\ \A i \in 1 .. n : Sizes(list)[i] = total_size(list[i])
  BY <1>1, BytesFold
<1>. HIDE DEF l, n
<1>5. Shifted(Sizes(list), Sizes(l), n, 0) /\ Sizes(l)[n + 1] = total_size(e)
  BY <1>1, <1>4 DEF Shifted
<1>6. g[1 .. n + 1] = f[1 .. n] + Sizes(l)[n + 1]
  BY <1>1, <1>2, <1>3, <1>4, <1>5, FoldPush
<1>7. Bytes(l) = Bytes(list) + total_size(e)
  BY <1>2, <1>3, <1>5, <1>6
<1>. QED
  BY <1>7 DEF l

(* One that is popped takes it away.                                       *)
LEMMA BytesPop ==
    ASSUME NEW list \in Seq(Entry), list # <<>>
    PROVE  Bytes(Tail(list)) = Bytes(list) - total_size(Head(list))
<1>. DEFINE n == Len(list)
            l == Tail(list)
<1>1. /\ l \in Seq(Entry) /\ Len(l) = n - 1 /\ n \in Nat \ {0}
      /\ \A i \in 1 .. n - 1 : l[i] = list[i + 1]
      /\ Head(list) = list[1]
  OBVIOUS
<1>2. PICK f : IsFold(Sizes(list), n, f) /\ Bytes(list) = f[1 .. n]
  BY BytesFold
<1>3. PICK g : IsFold(Sizes(l), n - 1, g) /\ Bytes(l) = g[1 .. n - 1]
  BY <1>1, BytesFold
<1>4. /\ \A i \in 1 .. n : Sizes(list)[i] = total_size(list[i])
      /\ AllNumbers(Sizes(list), n)
      /\ \A i \in 1 .. n - 1 : Sizes(l)[i] = total_size(l[i])
  BY <1>1, BytesFold
<1>. HIDE DEF l, n
<1>5. Shifted(Sizes(l), Sizes(list), n - 1, 1) /\ Sizes(list)[1] = total_size(Head(list))
  BY <1>1, <1>4 DEF Shifted
<1>6. g[1 .. n - 1] = f[1 .. n] - Sizes(list)[1]
  BY <1>1, <1>2, <1>3, <1>4, <1>5, FoldPop
<1>7. Bytes(l) = Bytes(list) - total_size(Head(list))
  BY <1>2, <1>3, <1>5, <1>6
<1>. QED
  BY <1>7 DEF l

(* No entries, no bytes.                                                   *)
LEMMA BytesEmpty == Bytes(<<>>) = 0
<1>1. <<>> \in Seq(Entry) /\ Len(<<>>) = 0 /\ 0 \in Nat
  OBVIOUS
<1>2. PICK f : IsFold(Sizes(<<>>), 0, f) /\ Bytes(<<>>) = f[1 .. 0]
  BY <1>1, BytesFold
<1>3. f[1 .. 0] = 0
  BY <1>1, <1>2, FoldSteps
<1>. QED
  BY <1>2, <1>3

(* No step of any thread changes the one without the other.                *)
LEMMA StepBytes == TInv /\ BytesExact /\ [Next]_vars => BytesExact'
<1>. SUFFICES ASSUME TInv, BytesExact, [Next]_vars PROVE BytesExact'
  OBVIOUS
<1>0. TypeOK /\ Locking /\ AdmittedFit
  BY DEF TInv
<1>t. entries \in Seq(Entry) /\ current_bytes = Bytes(entries)
  <2>. DEFINE Small == [lsn : Int, size : 0 .. max_payload_size]
  <2>1. Small \subseteq Entry
    BY PayloadSizeAssumption DEF Entry
  <2>2. entries \in Seq(Small)
    BY <1>0 DEF TypeOK
  <2>. HIDE DEF Small
  <2>3. entries \in Seq(Entry)
    BY <2>1, <2>2
  <2>. QED
    BY <2>3 DEF BytesExact
<1>1. ASSUME NEW a \in Appender, AppendPush(a)
      PROVE  BytesExact'
  <2>. DEFINE e == [lsn |-> current_lsn + 1, size |-> req[a]]
  <2>1. e \in Entry
    BY <1>0, <1>1 DEF AppendPush, AdmittedFit, Fits, TypeOK, Thread, Entry
  <2>2. entries' = Append(entries, e) /\ current_bytes' = current_bytes + total_size(e)
    BY <1>1 DEF AppendPush
  <2>. HIDE DEF e
  <2>3. Bytes(entries') = current_bytes'
    BY <1>t, <2>1, <2>2, BytesPush
  <2>. QED
    BY <2>3 DEF BytesExact
<1>2. ASSUME NEW f \in Flusher, FlushPop(f)
      PROVE  BytesExact'
  <2>1. entries # <<>>
    BY <1>0, <1>2 DEF FlushPop, Locking
  <2>2. /\ entries' = Tail(entries)
        /\ current_bytes' = current_bytes - total_size(Head(entries))
    BY <1>2 DEF FlushPop
  <2>3. Bytes(entries') = current_bytes'
    BY <1>t, <2>1, <2>2, BytesPop
  <2>. QED
    BY <2>3 DEF BytesExact
<1>3. ASSUME UNCHANGED <<entries, current_bytes>>
      PROVE  BytesExact'
  BY <1>3 DEF BytesExact
<1>4. ASSUME NEW a \in Appender,
             \/ \E size \in Payload : AppendData(a, size) \/ AppendEntry(a, size)
             \/ AppendReject(a) \/ AppendAdmit(a) \/ AppendLock(a)
      PROVE  BytesExact'
  BY <1>3, <1>4 DEF AppendData, AppendEntry, AppendReject, AppendAdmit, AppendLock
<1>5. ASSUME NEW f \in Flusher,
             \/ Flush(f)
             \/ \E batch_size \in BatchSize : FlushBatch(f, batch_size)
             \/ FlushLock(f) \/ FlushEmpty(f) \/ FlushWrite(f) \/ FlushFail(f)
             \/ FlushReturn(f)
      PROVE  BytesExact'
  BY <1>3, <1>5
     DEF Flush, FlushBatch, FlushLock, FlushEmpty, FlushWrite, FlushFail, FlushReturn, FlushEnds
<1>6. CASE Client \/ UNCHANGED vars
  BY <1>3, <1>6 DEF Client, OpenWriter, CloseWriter, vars
<1>. QED
  BY <1>1, <1>2, <1>4, <1>5, <1>6 DEF Next, AppenderNext, FlusherNext, FlushRun

(* current_bytes_ is the size of what is in the buffer, for any number of  *)
(* threads and entries: append() and flush() count the same for an entry,  *)
(* and no entry is popped that another flush has popped.                   *)
THEOREM BytesCounted == Spec => []BytesExact
<1>1. Init => BytesExact
  BY BytesEmpty DEF Init, BytesExact
<1>. QED
  BY <1>1, StepBytes, TInvAlways, PTL DEF Spec

-----------------------------------------------------------------------------
(* flush() and its promise.  While a flush is under way, what it promised  *)
(* is at most as far ahead of flushed_lsn_ as the entries it still has to  *)
(* write; other flushes only help it.                                      *)

Owes(f) ==
    /\ promised[f] <= current_lsn
    /\ pc[f] = "flush" => promised[f] <= flushed_lsn + req[f]
    /\ pc[f] \in {"flushing", "popping"} =>
            promised[f] <= flushed_lsn + (req[f] - written)

CInv ==
    /\ mutex \notin Flusher => written = 0
    /\ \A f \in Flusher : Owes(f)

(* No flush owes anything before its call.                                 *)
LEMMA InitCInv == Init => CInv
  BY LsnAssumption DEF Init, CInv, Owes, Thread

(* Without a racing read, no step of any thread changes what a flush owes, *)
(* but by flushing it.                                                     *)
LEMMA StepCInv ==
    ASSUME TornSize = {}
    PROVE  TInv /\ LInv /\ CInv /\ [Next]_vars => CInv'
<1>. SUFFICES ASSUME TInv, LInv, CInv, [Next]_vars PROVE CInv'
  OBVIOUS
<1>0. /\ TypeOK /\ Locking
      /\ NoThread \notin Appender \cup Flusher
      /\ Appender \cap Flusher = {}
  BY ThreadAssumption DEF TInv
<1>00. /\ current_lsn \in Int /\ flushed_lsn \in Int /\ InitLsn \in Int
       /\ written \in Nat /\ Len(entries) \in Nat
       /\ \A f \in Flusher : promised[f] \in Int /\ req[f] \in Nat
       /\ current_lsn = flushed_lsn + Len(entries)
       /\ InitLsn <= flushed_lsn
  <2>1. Len(entries) \in Nat
    BY <1>0 DEF TypeOK
  <2>. QED
    BY <1>0, <2>1, LsnAssumption DEF TypeOK, Thread, LInv, LsnChain
<1>1. ASSUME NEW a \in Appender,
             \/ \E size \in Payload : AppendData(a, size) \/ AppendEntry(a, size)
             \/ AppendAdmit(a) \/ AppendReject(a) \/ AppendLock(a) \/ AppendPush(a)
      PROVE  CInv'
  <2>1. /\ UNCHANGED <<flushed_lsn, written, promised>>
        /\ current_lsn' = current_lsn \/ current_lsn' = current_lsn + 1
        /\ \A f \in Flusher : pc'[f] = pc[f] /\ req'[f] = req[f]
    BY <1>0, <1>1 DEF AppendData, AppendEntry, AppendAdmit, AppendReject, AppendLock,
                      AppendPush, Return, Goto, TypeOK, Thread
  <2>2. mutex' \notin Flusher => mutex \notin Flusher
    BY <1>0, <1>1 DEF AppendData, AppendEntry, AppendAdmit, AppendReject, AppendLock,
                      AppendPush, Lock, Unlock
  <2>3. ASSUME NEW f \in Flusher
        PROVE  Owes(f)'
    BY <1>00, <2>1 DEF CInv, Owes
  <2>. QED
    BY <2>1, <2>2, <2>3 DEF CInv
<1>2. ASSUME NEW f \in Flusher,
             Flush(f) \/ \E batch_size \in BatchSize : FlushBatch(f, batch_size)
      PROVE  CInv'
  <2>1. /\ UNCHANGED <<flushed_lsn, current_lsn, written, mutex>>
        /\ pc'[f] = "flush"
        /\ \A g \in Flusher \ {f} : /\ pc'[g] = pc[g] /\ req'[g] = req[g]
                                    /\ promised'[g] = promised[g]
    BY <1>0, <1>2 DEF Flush, FlushBatch, Goto, TypeOK, Thread
  <2>2. \/ promised'[f] = current_lsn /\ req'[f] = Len(entries)
        \/ promised'[f] = InitLsn /\ req'[f] \in Nat
    BY <1>0, <1>2, BatchAssumption DEF Flush, FlushBatch, SizeRead, TypeOK, Thread
  <2>3. Owes(f)'
    BY <1>00, <2>1, <2>2 DEF Owes
  <2>4. ASSUME NEW g \in Flusher \ {f}
        PROVE  Owes(g)'
    BY <2>1 DEF CInv, Owes
  <2>. QED
    BY <2>1, <2>3, <2>4 DEF CInv
<1>3. ASSUME NEW f \in Flusher, FlushLock(f)
      PROVE  CInv'
  <2>1. /\ UNCHANGED <<flushed_lsn, current_lsn, written, promised>>
        /\ pc[f] = "flush" /\ pc'[f] = "flushing"
        /\ mutex = NoThread /\ mutex' = f
        /\ req'[f] = IF req[f] < Len(entries) THEN req[f] ELSE Len(entries)
        /\ \A g \in Flusher \ {f} : pc'[g] = pc[g] /\ req'[g] = req[g]
    BY <1>0, <1>3 DEF FlushLock, Lock, Goto, TypeOK, Thread
  <2>2. written = 0
    BY <1>0, <2>1 DEF CInv
  <2>3. Owes(f)'
    BY <1>00, <2>1, <2>2 DEF CInv, Owes
  <2>4. ASSUME NEW g \in Flusher \ {f}
        PROVE  Owes(g)'
    BY <2>1 DEF CInv, Owes
  <2>. QED
    BY <2>1, <2>3, <2>4 DEF CInv
<1>4. ASSUME NEW f \in Flusher, FlushWrite(f)
      PROVE  CInv'
  <2>1. /\ UNCHANGED <<flushed_lsn, current_lsn, written, promised, req, mutex>>
        /\ pc[f] = "flushing" /\ pc'[f] = "popping"
        /\ \A g \in Flusher \ {f} : pc'[g] = pc[g]
    BY <1>0, <1>4 DEF FlushWrite, BatchOpen, Goto, TypeOK, Thread
  <2>. QED
    BY <2>1 DEF CInv, Owes
<1>5. ASSUME NEW f \in Flusher, FlushPop(f)
      PROVE  CInv'
  <2>1. /\ UNCHANGED <<current_lsn, promised, req, mutex>>
        /\ pc[f] = "popping" /\ pc'[f] = "flushing"
        /\ written' = written + 1
        /\ mutex = f
        /\ \A g \in Flusher \ {f} : pc'[g] = pc[g]
    BY <1>0, <1>5 DEF FlushPop, Goto, TypeOK, Thread, Locking, Inside
  <2>2. entries # <<>>
    BY <1>0, <2>1 DEF Locking
  <2>3. flushed_lsn' = flushed_lsn + 1
    <3>1. Head(entries) = entries[1] /\ Len(entries) \in Nat \ {0}
      BY <1>0, <2>2, HeadType
    <3>. QED
      BY <1>5, <3>1 DEF FlushPop, LInv, LsnChain
  <2>4. Owes(f)'
    BY <1>00, <2>1, <2>3 DEF CInv, Owes
  <2>5. ASSUME NEW g \in Flusher \ {f}
        PROVE  Owes(g)'
    <3>1. pc[g] \notin {"flushing", "popping"}
      BY <1>0, <2>1 DEF Locking, Inside, Thread
    <3>. QED
      BY <1>00, <2>1, <2>3, <3>1 DEF CInv, Owes
  <2>. QED
    BY <2>1, <2>4, <2>5 DEF CInv
<1>6. ASSUME NEW f \in Flusher, FlushEmpty(f) \/ FlushFail(f) \/ FlushReturn(f)
      PROVE  CInv'
  <2>1. /\ UNCHANGED <<flushed_lsn, current_lsn>>
        /\ FlushEnds(f)
        /\ \A g \in Flusher \ {f} : pc[g] \notin {"flushing", "popping"}
    BY <1>0, <1>6
       DEF FlushEmpty, FlushFail, FlushReturn, Unlock, Locking, Inside, Thread
  <2>2. /\ pc'[f] = "idle" /\ promised'[f] = InitLsn /\ written' = 0
        /\ \A g \in Flusher \ {f} : /\ pc'[g] = pc[g] /\ req'[g] = req[g]
                                    /\ promised'[g] = promised[g]
    BY <1>0, <2>1 DEF FlushEnds, Return, Goto, TypeOK, Thread
  <2>3. Owes(f)'
    BY <1>00, <2>1, <2>2 DEF Owes
  <2>4. ASSUME NEW g \in Flusher \ {f}
        PROVE  Owes(g)'
    BY <2>1, <2>2 DEF CInv, Owes
  <2>. QED
    BY <2>2, <2>3, <2>4 DEF CInv
<1>7. CASE Client \/ UNCHANGED vars
  BY <1>7 DEF Client, OpenWriter, CloseWriter, vars, CInv, Owes
<1>. QED
  BY <1>1, <1>2, <1>3, <1>4, <1>5, <1>6, <1>7
     DEF Next, AppenderNext, FlusherNext, FlushRun

(* When the size of the buffer is read without a race, flush() has flushed *)
(* everything appended before it was called when it returns SUCCESS.       *)
THEOREM FlushCovers ==
    ASSUME TornSize = {}
    PROVE  Spec => FlushCoversCall
<1>1. TInv /\ LInv /\ CInv =>
        \A f \in Flusher : Succeeds(f) => flushed_lsn >= promised[f]
  <2>. SUFFICES ASSUME TInv, LInv, CInv, NEW f \in Flusher, Succeeds(f)
                PROVE  flushed_lsn >= promised[f]
    OBVIOUS
  <2>1. /\ current_lsn \in Int /\ flushed_lsn \in Int /\ written \in Nat
        /\ promised[f] \in Int /\ req[f] \in Nat
        /\ current_lsn = flushed_lsn + Len(entries)
    BY DEF TInv, TypeOK, Thread, LInv, LsnChain
  <2>2. CASE entries = <<>>
    BY <2>1, <2>2 DEF CInv, Owes
  <2>3. CASE pc[f] = "flushing" /\ written >= req[f]
    BY <2>1, <2>3 DEF CInv, Owes
  <2>4. entries = <<>> \/ (pc[f] = "flushing" /\ written >= req[f])
    BY <2>1 DEF Succeeds, FlushEmpty, FlushReturn, BatchOpen
  <2>. QED
    BY <2>2, <2>3, <2>4
<1>. QED
  BY <1>1, InitCInv, StepCInv, LInvAlways, PTL DEF Spec, FlushCoversCall

-----------------------------------------------------------------------------
(* What is left for the recovery.                                          *)

FInv == LeftUpTo(files, flushed_lsn + 1)

(* There are no items at first.                                            *)
LEMMA InitFInv == Init => FInv
<1>. SUFFICES ASSUME Init PROVE FInv
  OBVIOUS
<1>1. \A n \in FileName : files[n] = <<>> /\ Len(<<>>) = 0
  BY DEF Init, WriterInit
<1>. QED
  BY <1>1 DEF FInv, LeftUpTo, LeftByWriter

(* A write is of the entry behind the last one that was flushed.           *)
LEMMA StepFInv == TInv /\ LInv /\ FInv /\ [Next]_vars => FInv'
<1>. SUFFICES ASSUME TInv, LInv, FInv, [Next]_vars PROVE FInv'
  OBVIOUS
<1>0. TypeOK /\ WriterTypeOK /\ LsnChain /\ flushed_lsn \in Int
  BY DEF TInv, LInv, TypeOK
<1>1. CASE UNCHANGED <<files, flushed_lsn>>
  BY <1>1 DEF FInv
<1>2. ASSUME entries # <<>>
      PROVE  /\ Head(entries) \in Entry /\ Head(entries).lsn = flushed_lsn + 1
             /\ Fits(Head(entries).size)
  <2>1. Head(entries) \in Entry /\ Head(entries) = entries[1] /\ Len(entries) \in Nat \ {0}
    BY <1>0, <1>2, HeadType
  <2>2. Head(entries).lsn = flushed_lsn + 1
    BY <1>0, <2>1 DEF LsnChain
  <2>3. entries[1] \in [lsn : Int, size : 0 .. max_payload_size]
    <3>. DEFINE S == [lsn : Int, size : 0 .. max_payload_size]
    <3>1. entries \in Seq(S)
      BY <1>0 DEF TypeOK
    <3>. HIDE DEF S
    <3>2. entries[1] \in S
      BY <2>1, <3>1
    <3>. QED
      BY <3>2 DEF S
  <2>4. Fits(entries[1].size)
    BY <2>3, PayloadSizeAssumption DEF Fits
  <2>. QED
    BY <2>1, <2>2, <2>4
<1>3. ASSUME NEW f \in Flusher, FlushWrite(f) \/ FlushFail(f)
      PROVE  FInv'
  <2>1. entries # <<>> /\ (WriteDone(Head(entries)) \/ WriteFails(Head(entries)))
        /\ flushed_lsn' = flushed_lsn
    BY <1>3 DEF FlushWrite, FlushFail, BatchOpen
  <2>2. LeftUpTo(files, Head(entries).lsn)
    BY <1>2, <2>1 DEF FInv
  <2>3. LeftUpTo(files', Head(entries).lsn)
    BY <1>0, <1>2, <2>1, <2>2, LeftWrites
  <2>. QED
    BY <1>2, <2>1, <2>3 DEF FInv
<1>4. ASSUME NEW f \in Flusher, FlushPop(f)
      PROVE  FInv'
  <2>1. entries # <<>> /\ files' = files /\ flushed_lsn' = Head(entries).lsn
    BY <1>4 DEF FlushPop, writer_vars, TInv, Locking
  <2>2. flushed_lsn' = flushed_lsn + 1
    BY <1>2, <2>1
  <2>3. \A n \in FileName : \A i \in 1 .. Len(files[n]) : files[n][i].lsn \in Int
    <3>1. \A it \in Item : it.lsn \in Int
      BY DEF Item
    <3>2. \A n \in FileName : \A i \in 1 .. Len(files[n]) : files[n][i] \in Item
      BY <1>0 DEF WriterTypeOK
    <3>. QED
      BY <3>1, <3>2
  <2>. QED
    BY <1>0, <2>1, <2>2, <2>3 DEF FInv, LeftUpTo
<1>5. ASSUME NEW a \in Appender, AppenderNext(a)
      PROVE  UNCHANGED <<files, flushed_lsn>>
  BY <1>5 DEF AppenderNext, AppendData, AppendEntry, AppendAdmit, AppendReject,
              AppendLock, AppendPush, writer_vars
<1>6. ASSUME NEW f \in Flusher,
             \/ Flush(f) \/ FlushLock(f) \/ FlushEmpty(f) \/ FlushReturn(f)
             \/ \E batch_size \in BatchSize : FlushBatch(f, batch_size)
      PROVE  UNCHANGED <<files, flushed_lsn>>
  BY <1>6 DEF Flush, FlushBatch, FlushLock, FlushEmpty, FlushReturn, writer_vars
<1>7. Client => UNCHANGED <<files, flushed_lsn>>
  BY DEF Client, OpenWriter, CloseWriter, Open, Close
<1>8. UNCHANGED vars => UNCHANGED <<files, flushed_lsn>>
  BY DEF vars
<1>. QED
  BY <1>1, <1>3, <1>4, <1>5, <1>6, <1>7, <1>8 DEF Next, FlusherNext, FlushRun

(* At any moment, and so whenever the process is stopped, every log file   *)
(* is one that LogFileReader is proved to read (LeftByWriter): what is in  *)
(* it are entries that init() accepts or the front of one, and LSNs never  *)
(* descend, failed writes and reopened files included.                     *)
THEOREM FilesReadable == Spec => [](\A n \in FileName : LeftByWriter(files[n]))
<1>1. FInv => \A n \in FileName : LeftByWriter(files[n])
  BY DEF FInv, LeftUpTo
<1>. QED
  BY <1>1, InitFInv, StepFInv, LInvAlways, PTL DEF Spec
=============================================================================
