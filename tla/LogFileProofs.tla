---------------------------- MODULE LogFileProofs ----------------------------
(***************************************************************************)
(* What holds of the two classes that read what a LogFileWriter has        *)
(* written: LogFileManager, for every set of file names, every number of   *)
(* entries in a file, and every number of process lifetimes and of failing *)
(* calls; and LogFileReader, for any file that writes can leave            *)
(* (LeftByWriter), every LSN to start from and whatever the bytes between  *)
(* the headers say.                                                        *)
(***************************************************************************)
EXTENDS LogFileManager, LogFileReader, LogFileWriterProofs, DataLemmas

-----------------------------------------------------------------------------
(***************************************************************************)
(* LogFileManager.                                                         *)
(*                                                                         *)
(* That the name of a file tells the LSNs in it (RangeByName) rests on two *)
(* bounds the code never compares: write() checks the upper one (end_lsn), *)
(* and nothing checks the lower one.  It holds because the process turns   *)
(* to the next file only when the LSN it has to write is at the end of the *)
(* present one, so no file is created ahead of the LSNs (Reached), and a   *)
(* process that starts again opens the last of them, unless that fails.    *)
(*                                                                         *)
(* A process never adds but one file to those it knows, since its map is   *)
(* that of its start (Known).  When it does, every LSN before the new      *)
(* name is stored (Recorded), and none of those in the range of the file   *)
(* before can be elsewhere: names are N apart (Apart), and what is in a    *)
(* file is within the range of its name (FilesTile).                       *)
(***************************************************************************)
(* What the phase tells about the writer and the names.                    *)
Control ==
    /\ phase \in {"down", "start"} => ~is_open
    /\ phase = "rotate" => NextName <= next_lsn \/ NextName \in skipped
    /\ phase = "write" => /\ writer.file \in created
                          /\ writer.file <= next_lsn \/ writer.file \in skipped
                          /\ writer.end_lsn = writer.file + N
                          /\ NextName <= writer.end_lsn

(* No file is named after an LSN that is still to come.                    *)
Reached == \A n \in created : n <= next_lsn \/ n \in skipped

(* What a process does not know is the file it has begun itself.           *)
Known ==
    /\ phase = "start" => m_log_files = created
    /\ phase # "down" => \A n \in created : n \in m_log_files \/ n = NextName

(* Names are at least N apart, and entries are in files that exist.        *)
Apart ==
    /\ \A n, m \in created : n < m => n + N <= m
    /\ \A n \in FileName : LsnsIn(n) # {} => n \in created

Bounded == \E b \in Nat : \A n \in created : n <= b

(* All LSNs before the next one are stored.                                *)
Recorded == Stored = 1 .. next_lsn - 1

MInv ==
    /\ TypeOK /\ Control /\ Reached /\ Known /\ Apart /\ Bounded
    /\ RangeByName /\ FilesTile /\ Recorded

-----------------------------------------------------------------------------
(* Names and numbers.                                                      *)
LEMMA Numbers ==
    ASSUME TypeOK
    PROVE  /\ FileName \subseteq Nat /\ N \in Nat \ {0} /\ NoFile \notin FileName
           /\ next_lsn \in Nat \ {0} /\ MaxLsn \in Nat
           /\ created \subseteq FileName /\ m_log_files \subseteq created
           /\ writer.end_lsn \in Int
           /\ is_open => writer.file \in FileName
  BY NameAssumption, PerFileAssumption, NoFileAssumption, BoundAssumption
     DEF TypeOK, WriterTypeOK, Writer, N, is_open

(* The last file that the manager knows is a file it knows.                *)
LEMMA LastKnown ==
    ASSUME TypeOK, Bounded, m_log_files # {}
    PROVE  /\ Max(m_log_files) \in m_log_files
           /\ Max(m_log_files) \in Nat
           /\ \A n \in m_log_files : n <= Max(m_log_files)
<1>1. m_log_files \in SUBSET Nat
  BY Numbers
<1>2. PICK b \in Nat : \A n \in m_log_files : n <= b
  BY Numbers DEF Bounded
<1>3. \E n \in m_log_files : \A m \in m_log_files : m <= n
  BY <1>1, <1>2, LargestNumber
<1>4. \E n \in m_log_files : \A m \in m_log_files : n >= m
  BY <1>1, <1>3
<1>5. /\ Max(m_log_files) \in m_log_files
      /\ \A m \in m_log_files : Max(m_log_files) >= m
  BY <1>4 DEF Max
<1>. QED
  BY <1>1, <1>5

(* next_file() names a file after a number, and not after one it knows.    *)
LEMMA NameType ==
    ASSUME TypeOK, Bounded
    PROVE  NextName \in Nat /\ \A n \in m_log_files : n + N <= NextName
<1>1. CASE m_log_files = {}
  BY <1>1 DEF NextName
<1>2. CASE m_log_files # {}
  <2>. DEFINE last == Max(m_log_files)
  <2>1. last \in Nat /\ \A n \in m_log_files : n \in Nat /\ n <= last
    BY <1>2, Numbers, LastKnown
  <2>2. NextName = last + N /\ N \in Nat
    BY <1>2, Numbers DEF NextName
  <2>. HIDE DEF last
  <2>. QED
    BY <2>1, <2>2
<1>. QED
  BY <1>1, <1>2

(* A writer that opened a file.                                            *)
LEMMA OpenedType ==
    ASSUME writer \in Writer, NEW name \in FileName, NEW end_lsn \in Int,
           writer' = [writer EXCEPT !.file = name, !.end_lsn = end_lsn]
    PROVE  writer' \in Writer /\ writer'.file = name /\ writer'.end_lsn = end_lsn
  BY DEF Writer

-----------------------------------------------------------------------------
(* What is in the files.                                                   *)
LEMMA LsnsMember ==
    ASSUME NEW n, NEW x
    PROVE  x \in LsnsIn(n) <=>
             \E i \in 1 .. Len(files[n]) : Whole(files[n][i]) /\ files[n][i].lsn = x
  BY DEF LsnsIn

LEMMA LsnsStored ==
    ASSUME NEW x
    PROVE  x \in Stored <=> \E n \in FileName : x \in LsnsIn(n)
  BY StoredMember, LsnsMember DEF Stored

(* What touches neither files nor directory keeps what is said of them,    *)
(* also when one more file is begun too early.                             *)
LEMMA SameFiles ==
    ASSUME UNCHANGED <<files, created>>, skipped \subseteq skipped'
    PROVE  /\ RangeByName => RangeByName'
           /\ FilesTile => FilesTile'
           /\ Apart => Apart'
           /\ Bounded => Bounded'
           /\ Stored' = Stored
<1>1. N' = N /\ Stored' = Stored /\ \A n : LsnsIn(n)' = LsnsIn(n)
  BY DEF N, Stored, StoredIn, LsnsIn, Whole, total_size
<1>2. RangeByName => RangeByName'
  BY <1>1 DEF RangeByName
<1>3. FilesTile => FilesTile'
  BY <1>1 DEF FilesTile
<1>4. (Apart => Apart') /\ (Bounded => Bounded')
  BY <1>1 DEF Apart, Bounded
<1>. QED
  BY <1>1, <1>2, <1>3, <1>4

(* An item at the end of a file: torn, or in the range of the file.        *)
LEMMA ItemAdded ==
    ASSUME TypeOK, RangeByName, FilesTile, Apart, NEW n \in created, NEW item \in Item,
           Whole(item) => item.lsn < n + N /\ (item.lsn >= n \/ n \in skipped),
           files' = [files EXCEPT ![n] = Append(@, item)],
           UNCHANGED <<created, skipped>>
    PROVE  RangeByName' /\ FilesTile' /\ Apart'
<1>1. /\ files \in [FileName -> Seq(Item)] /\ created \subseteq FileName /\ n \in FileName
      /\ N' = N
  BY DEF TypeOK, WriterTypeOK, N
<1>2. \A m \in FileName : \A i \in 1 .. Len(files[m]) :
         i \in 1 .. Len(files'[m]) /\ files'[m][i] = files[m][i]
  BY <1>1, Places
<1>3. \A m \in FileName : \A i \in 1 .. Len(files'[m]) :
         \/ i \in 1 .. Len(files[m]) /\ files'[m][i] = files[m][i]
         \/ m = n /\ files'[m][i] = item
  BY <1>1, Places
<1>4. \A m, x : x \in LsnsIn(m)' <=>
         \E i \in 1 .. Len(files'[m]) : Whole(files'[m][i]) /\ files'[m][i].lsn = x
  BY DEF LsnsIn, Whole, total_size
<1>5. \A m \in FileName : LsnsIn(m) \subseteq LsnsIn(m)'
  BY <1>2, <1>4, LsnsMember
<1>6. \A m \in FileName : \A x \in LsnsIn(m)' :
         x \in LsnsIn(m) \/ (m = n /\ Whole(item) /\ x = item.lsn)
  BY <1>3, <1>4, LsnsMember
<1>7. RangeByName'
  BY <1>1, <1>6 DEF RangeByName
<1>8. FilesTile'
  BY <1>1, <1>5 DEF FilesTile
<1>9. Apart'
  BY <1>1, <1>6 DEF Apart
<1>. QED
  BY <1>7, <1>8, <1>9

(* next_file() begins a file: the one before has all LSNs of its range.    *)
LEMMA FileBegun ==
    ASSUME MInv, NextFile
    PROVE  RangeByName' /\ FilesTile' /\ Apart' /\ Bounded' /\ Stored' = Stored
<1>1. /\ TypeOK /\ Control /\ Known /\ Apart /\ Bounded
      /\ RangeByName /\ FilesTile /\ Recorded
  BY DEF MInv
<1>2. /\ phase = "rotate" /\ UNCHANGED <<files, skipped>>
      /\ created' = created \cup {NextName}
  BY DEF NextFile
<1>3. /\ FileName \subseteq Nat /\ N \in Nat \ {0} /\ NextName \in Nat
      /\ created \subseteq FileName /\ m_log_files \subseteq created
      /\ \A n \in m_log_files : n + N <= NextName
      /\ next_lsn \in Nat
  BY <1>1, Numbers, NameType
<1>4. /\ N' = N /\ Stored' = Stored /\ \A n : LsnsIn(n)' = LsnsIn(n)
      /\ RangeByName'
  BY <1>1, <1>2 DEF N, Stored, StoredIn, LsnsIn, Whole, total_size, RangeByName
<1>5. Bounded'
  <2>1. PICK b \in Nat : \A n \in created : n <= b
    BY <1>1 DEF Bounded
  <2>2. b + NextName \in Nat /\ \A n \in created' : n <= b + NextName
    BY <1>2, <1>3, <2>1
  <2>. QED
    BY <2>2 DEF Bounded
<1>6. CASE NextName \in created
  BY <1>1, <1>2, <1>4, <1>5, <1>6 DEF FilesTile, Apart
<1>7. CASE NextName \notin created
  <2>1. \A n \in created : n \in m_log_files /\ n + N <= NextName
    BY <1>1, <1>2, <1>3, <1>7 DEF Known
  <2>2. Apart'
    <3>1. ASSUME NEW n \in created', NEW m \in created', n < m
          PROVE  n + N <= m
      BY <1>1, <1>2, <1>3, <2>1, <3>1 DEF Apart
    <3>2. \A n \in FileName : LsnsIn(n)' # {} => n \in created'
      BY <1>1, <1>2, <1>4 DEF Apart
    <3>. QED
      BY <1>4, <3>1, <3>2 DEF Apart
  <2>3. ASSUME m_log_files = {}
        PROVE  FilesTile'
    <3>1. created' \ {0} = {}
      BY <1>2, <2>1, <2>3 DEF NextName
    <3>. QED
      BY <3>1 DEF FilesTile
  <2>4. ASSUME m_log_files # {}
        PROVE  FilesTile'
    <3>. DEFINE last == Max(m_log_files)
    <3>1. last \in m_log_files /\ last \in created /\ last \in Nat
          /\ \A n \in m_log_files : n <= last
      BY <1>1, <1>3, <2>4, LastKnown
    <3>2. NextName = last + N
      BY <2>4 DEF NextName
    <3>. HIDE DEF last
    <3>3. ASSUME NextName \notin skipped, NEW x \in (last .. NextName - 1) \ {0}
          PROVE  x \in LsnsIn(last)
      <4>1. NextName <= next_lsn
        BY <1>1, <1>2, <3>3 DEF Control
      <4>2. x \in Stored /\ x \in Nat
        BY <1>1, <1>3, <3>1, <4>1 DEF Recorded
      <4>3. PICK n \in FileName : x \in LsnsIn(n)
        BY <4>2, LsnsStored
      <4>4. n \in created /\ x < n + N
        BY <1>1, <4>3 DEF Apart, RangeByName
      <4>5. n <= last /\ (n < last => n + N <= last) /\ n \in Nat
        BY <1>1, <1>3, <2>1, <3>1, <4>4 DEF Apart
      <4>6. n = last
        BY <1>3, <3>1, <4>2, <4>4, <4>5
      <4>. QED
        BY <4>3, <4>6
    <3>4. last = NextName - N
      BY <1>3, <3>1, <3>2
    <3>5. ASSUME NEW n \in created' \ {0}
          PROVE  /\ n - N \in created'
                 /\ n \notin skipped => (n - N .. n - 1) \ {0} \subseteq LsnsIn(n - N)
      <4>1. CASE n \in created
        BY <1>1, <1>2, <3>5, <4>1 DEF FilesTile
      <4>2. CASE n = NextName
        BY <1>2, <3>1, <3>3, <3>4, <4>2
      <4>. QED
        BY <1>2, <3>5, <4>1, <4>2
    <3>6. FilesTile'
      BY <1>2, <1>4, <3>5 DEF FilesTile
    <3>. QED
      BY <3>6
  <2>5. FilesTile'
    BY <2>3, <2>4
  <2>. QED
    BY <1>4, <1>5, <2>2, <2>5
<1>. QED
  BY <1>4, <1>5, <1>6, <1>7

-----------------------------------------------------------------------------
(* The invariant.                                                          *)
LEMMA InitMInv == Init => MInv
<1>. SUFFICES ASSUME Init PROVE MInv
  OBVIOUS
<1>1. created = {} /\ m_log_files = {} /\ skipped = {} /\ next_lsn = 1 /\ phase = "down"
  BY DEF Init, WriterInit
<1>2. \A n \in FileName : files[n] = <<>> /\ Len(files[n]) = 0
  BY DEF Init, WriterInit
<1>3. \A n \in FileName : LsnsIn(n) = {}
  BY <1>2, LsnsMember
<1>4. TypeOK
  BY BoundAssumption, IoErrorsAssumption
     DEF Init, WriterInit, TypeOK, WriterTypeOK, Writer
<1>5. Control /\ Reached /\ Known /\ Bounded
  BY <1>1 DEF Init, WriterInit, Control, Reached, Known, Bounded, is_open
<1>6. RangeByName /\ FilesTile /\ Apart
  BY <1>1, <1>3 DEF RangeByName, FilesTile, Apart
<1>7. Recorded
  <2>1. Stored = {}
    BY <1>3, LsnsStored
  <2>2. 1 .. next_lsn - 1 = {}
    BY <1>1
  <2>. QED
    BY <2>1, <2>2 DEF Recorded
<1>. QED
  BY <1>4, <1>5, <1>6, <1>7 DEF MInv

(* Every step of a process, its start and its end keep the invariant.      *)
LEMMA StepMInv == MInv /\ [Next]_vars => MInv'
<1>. SUFFICES ASSUME MInv, [Next]_vars PROVE MInv'
  OBVIOUS
<1>0. /\ TypeOK /\ Control /\ Reached /\ Known /\ Apart /\ Bounded
      /\ RangeByName /\ FilesTile /\ Recorded
  BY DEF MInv
<1>n. /\ FileName \subseteq Nat /\ N \in Nat \ {0} /\ NoFile \notin FileName
      /\ next_lsn \in Nat \ {0} /\ MaxLsn \in Nat
      /\ created \subseteq FileName /\ m_log_files \subseteq created
      /\ writer.end_lsn \in Int
      /\ is_open => writer.file \in FileName
      /\ NextName \in Nat
  BY <1>0, Numbers, NameType
<1>s. ASSUME UNCHANGED <<files, created, next_lsn>>, skipped \subseteq skipped'
      PROVE  RangeByName' /\ FilesTile' /\ Apart' /\ Bounded' /\ Recorded'
  BY <1>0, <1>s, SameFiles DEF Recorded
<1>1. CASE Start
  <2>1. UNCHANGED <<files, created, writer, io_errors, next_lsn, skipped>>
        /\ m_log_files' = created /\ phase' = "start" /\ phase = "down"
    BY <1>1 DEF Start, writer_vars
  <2>2. TypeOK'
    BY <1>0, <1>1, <2>1, BoundAssumption DEF Start, TypeOK, WriterTypeOK, Writer, is_open
  <2>3. Control' /\ Reached' /\ Known'
    BY <1>0, <2>1 DEF Control, Reached, Known, is_open
  <2>. QED
    BY <1>s, <2>1, <2>2, <2>3 DEF MInv
<1>2. CASE Stop
  <2>1. UNCHANGED <<files, created, io_errors, next_lsn, starts, skipped>> /\ phase' = "down"
    BY <1>2 DEF Stop
  <2>2. TypeOK'
    BY <1>0, <1>2, <2>1 DEF Stop, TypeOK, WriterTypeOK, Writer, is_open
  <2>3. Control' /\ Reached' /\ Known'
    BY <1>0, <1>2, <2>1 DEF Stop, Control, Reached, Known, is_open
  <2>. QED
    BY <1>s, <2>1, <2>2, <2>3 DEF MInv
<1>3. CASE LastFile
  <2>1. CASE m_log_files = {}
    <3>1. UNCHANGED <<files, created, writer, io_errors, m_log_files, next_lsn, starts, skipped>>
          /\ phase' = "rotate" /\ phase = "start"
      BY <1>3, <2>1 DEF LastFile, writer_vars
    <3>2. TypeOK'
      BY <1>0, <3>1 DEF TypeOK, WriterTypeOK, Writer, is_open
    <3>3. NextName' = 0 /\ NextName = 0
      BY <2>1, <3>1 DEF NextName
    <3>4. Control' /\ Reached' /\ Known'
      BY <1>0, <1>n, <3>1, <3>3 DEF Control, Reached, Known
    <3>. QED
      BY <1>s, <3>1, <3>2, <3>4 DEF MInv
  <2>2. CASE m_log_files # {}
    <3>. DEFINE last == Max(m_log_files)
    <3>1. last \in m_log_files /\ last \in created /\ last \in FileName /\ last \in Nat
      BY <1>0, <1>n, <2>2, LastKnown
    <3>2. /\ UNCHANGED <<files, io_errors, m_log_files, next_lsn, starts, skipped>>
          /\ created' = created \cup {last}
          /\ writer' = [writer EXCEPT !.file = last, !.end_lsn = last + N]
          /\ phase' = "write" /\ phase = "start"
      BY <1>3, <2>2 DEF LastFile, Open
    <3>3. NextName = last + N /\ NextName' = NextName /\ N' = N
      BY <2>2, <3>2 DEF NextName, N
    <3>. HIDE DEF last
    <3>4. created' = created
      BY <3>1, <3>2
    <3>5. writer' \in Writer /\ writer'.file = last /\ writer'.end_lsn = last + N
      <4>1. writer \in Writer /\ last + N \in Int
        BY <1>0, <1>n, <3>1 DEF TypeOK, WriterTypeOK
      <4>. QED
        BY <3>1, <3>2, <4>1, OpenedType
    <3>6. TypeOK'
      BY <1>0, <1>n, <3>1, <3>2, <3>4, <3>5 DEF TypeOK, WriterTypeOK, is_open
    <3>7. last <= next_lsn \/ last \in skipped
      BY <1>0, <3>1 DEF Reached
    <3>8. Control'
      BY <1>n, <3>1, <3>2, <3>3, <3>4, <3>5, <3>7 DEF Control
    <3>9. Reached' /\ Known'
      BY <1>0, <3>2, <3>3, <3>4 DEF Reached, Known
    <3>. QED
      BY <1>s, <3>2, <3>4, <3>6, <3>8, <3>9 DEF MInv
  <2>. QED
    BY <2>1, <2>2
<1>4. CASE LastFileFails
  <2>1. /\ UNCHANGED <<files, created, writer, m_log_files, next_lsn, starts>>
        /\ io_errors' = io_errors + 1 /\ io_errors < MaxIoErrors
        /\ skipped' = skipped \cup {NextName}
        /\ phase' = "rotate" /\ phase = "start"
    BY <1>4 DEF LastFileFails
  <2>2. TypeOK'
    BY <1>0, <1>n, <2>1, IoErrorsAssumption DEF TypeOK, WriterTypeOK, Writer, is_open
  <2>3. NextName' = NextName
    BY <2>1 DEF NextName, N
  <2>4. Control' /\ Reached' /\ Known'
    BY <1>0, <2>1, <2>3 DEF Control, Reached, Known
  <2>. QED
    BY <1>s, <2>1, <2>2, <2>4 DEF MInv
<1>5. CASE NextFile
  <2>1. /\ UNCHANGED <<files, io_errors, m_log_files, next_lsn, starts, skipped>>
        /\ created' = created \cup {NextName}
        /\ writer' = [writer EXCEPT !.file = NextName, !.end_lsn = NextName + N]
        /\ phase' = "write" /\ phase = "rotate" /\ NextName \in FileName
    BY <1>5 DEF NextFile
  <2>2. NextName' = NextName /\ N' = N
    BY <2>1 DEF NextName, N
  <2>3. writer' \in Writer /\ writer'.file = NextName /\ writer'.end_lsn = NextName + N
    <3>1. writer \in Writer /\ NextName + N \in Int
      BY <1>0, <1>n DEF TypeOK, WriterTypeOK
    <3>. QED
      BY <2>1, <3>1, OpenedType
  <2>4. TypeOK'
    BY <1>0, <1>n, <2>1, <2>3 DEF TypeOK, WriterTypeOK, is_open
  <2>5. NextName <= next_lsn \/ NextName \in skipped
    BY <1>0, <2>1 DEF Control
  <2>6. Control'
    BY <1>n, <2>1, <2>2, <2>3, <2>5 DEF Control
  <2>7. Reached' /\ Known'
    BY <1>0, <2>1, <2>2, <2>5 DEF Reached, Known
  <2>8. RangeByName' /\ FilesTile' /\ Apart' /\ Bounded' /\ Recorded'
    BY <1>0, <1>5, <2>1, FileBegun DEF Recorded
  <2>. QED
    BY <2>4, <2>6, <2>7, <2>8 DEF MInv
<1>6. CASE NextFileFails
  <2>1. /\ UNCHANGED <<files, created, m_log_files, phase, next_lsn, starts, skipped>>
        /\ writer' = [writer EXCEPT !.file = NoFile]
        /\ io_errors' = io_errors + 1 /\ io_errors < MaxIoErrors
        /\ phase = "rotate"
    BY <1>6 DEF NextFileFails
  <2>2. writer' \in Writer
    BY <1>0, <2>1 DEF TypeOK, WriterTypeOK, Writer
  <2>3. TypeOK'
    BY <1>0, <2>1, <2>2, IoErrorsAssumption DEF TypeOK, WriterTypeOK
  <2>4. NextName' = NextName
    BY <2>1 DEF NextName, N
  <2>5. Control' /\ Reached' /\ Known'
    BY <1>0, <2>1, <2>4 DEF Control, Reached, Known
  <2>. QED
    BY <1>s, <2>1, <2>3, <2>5 DEF MInv
<1>7. CASE WriteFull
  <2>1. UNCHANGED <<files, created, writer, io_errors, m_log_files, next_lsn, starts, skipped>>
        /\ phase' = "rotate" /\ phase = "write"
    BY <1>7 DEF WriteFull, WriteRefused, writer_vars
  <2>2. TypeOK'
    BY <1>0, <2>1 DEF TypeOK, WriterTypeOK, Writer
  <2>3. next_lsn >= writer.end_lsn
    BY <1>0, <1>7, <2>1 DEF WriteFull, WriteRefused, Refuses, TypeOK
  <2>4. NextName' = NextName
    BY <2>1 DEF NextName, N
  <2>5. NextName <= next_lsn
    BY <1>0, <1>n, <2>1, <2>3 DEF Control
  <2>6. Control' /\ Reached' /\ Known'
    BY <1>0, <2>1, <2>4, <2>5 DEF Control, Reached, Known
  <2>. QED
    BY <1>s, <2>1, <2>2, <2>6 DEF MInv
<1>8. ASSUME NEW size \in Payload, WriteNext(size)
      PROVE  MInv'
  <2>. DEFINE e == [lsn |-> next_lsn, size |-> size]
  <2>1. e \in Entry /\ e.lsn = next_lsn
    BY <1>n, PayloadAssumption, PayloadSizeAssumption DEF Entry
  <2>2. \/ WriteDone(e) /\ next_lsn' = next_lsn + 1 /\ UNCHANGED phase
        \/ WriteTorn(e) /\ UNCHANGED <<next_lsn, phase>>
    BY <1>8 DEF WriteNext
  <2>3. UNCHANGED <<m_log_files, starts, skipped, created>> /\ phase = "write" /\ next_lsn <= MaxLsn
    BY <1>8 DEF WriteNext, WriteDone, WriteTorn
  <2>. HIDE DEF e
  <2>4. is_open /\ writer.file \in FileName /\ writer.file \in created
    BY <1>0, <1>n, <2>3 DEF TypeOK, Control
  <2>5. WriterTypeOK'
    BY <1>0, <2>1, <2>2, WriterTypes DEF TypeOK, WriteFails
  <2>6. writer'.file = writer.file /\ writer'.end_lsn = writer.end_lsn
    BY <1>0, <2>2 DEF TypeOK, WriterTypeOK, Writer, WriteDone, WriteTorn
  <2>7. TypeOK'
    BY <1>0, <1>n, <2>2, <2>3, <2>5, <2>6 DEF TypeOK, is_open
  <2>8. NextName' = NextName /\ N' = N
    BY <2>3 DEF NextName, N
  <2>9. next_lsn <= next_lsn' /\ next_lsn' \in Nat /\ phase' = "write"
    BY <1>n, <2>2, <2>3
  <2>10. Reached' /\ Known' /\ Bounded'
    <3>1. \A n \in created : n \in Nat /\ (n <= next_lsn \/ n \in skipped)
      BY <1>0, <1>n DEF Reached
    <3>2. Reached'
      BY <1>n, <2>3, <2>9, <3>1 DEF Reached
    <3>. QED
      BY <1>0, <2>3, <2>8, <2>9, <3>2 DEF Known, Bounded
  <2>11. Control'
    <3>1. writer.file \in Nat
      BY <1>n, <2>4
    <3>2. /\ writer.file <= next_lsn \/ writer.file \in skipped
          /\ writer.end_lsn = writer.file + N
          /\ NextName <= writer.end_lsn
      BY <1>0, <2>3 DEF Control
    <3>. QED
      BY <1>n, <2>3, <2>4, <2>6, <2>8, <2>9, <3>1, <3>2 DEF Control
  <2>12. CASE WriteDone(e) /\ next_lsn' = next_lsn + 1
    <3>1. Stored' = Stored \cup {next_lsn}
      BY <1>0, <2>1, <2>12, StoredDone DEF TypeOK
    <3>2. Recorded'
      BY <1>0, <1>n, <2>12, <3>1 DEF Recorded
    <3>3. next_lsn < writer.file + N /\ (next_lsn >= writer.file \/ writer.file \in skipped)
      BY <1>0, <1>n, <2>1, <2>3, <2>4, <2>12 DEF Control, WriteDone, Refuses
    <3>. DEFINE item == ItemOf(e, total_size(e))
    <3>4. item \in Item /\ item.lsn = next_lsn
      BY <2>1, ItemType, TotalSizeType DEF ItemOf
    <3>5. files' = [files EXCEPT ![writer.file] = Append(@, item)]
      BY <2>12 DEF WriteDone
    <3>. HIDE DEF item
    <3>6. RangeByName' /\ FilesTile' /\ Apart'
      BY <1>0, <2>3, <2>4, <3>3, <3>4, <3>5, ItemAdded
    <3>. QED
      BY <2>7, <2>10, <2>11, <3>2, <3>6 DEF MInv
  <2>13. CASE WriteTorn(e) /\ UNCHANGED next_lsn
    <3>1. Recorded'
      BY <1>0, <2>1, <2>13, StoredKept DEF TypeOK, Recorded, WriteFails
    <3>2. PICK n \in 0 .. total_size(e) - 1 :
              files' = IF n = 0 THEN files
                       ELSE [files EXCEPT ![writer.file] = Append(@, ItemOf(e, n))]
      BY <2>13 DEF WriteTorn
    <3>3. ItemOf(e, n) \in Item /\ ~Whole(ItemOf(e, n))
      BY <2>1, <3>2, ItemType, TotalSizeType DEF Whole, ItemOf, total_size
    <3>4. RangeByName' /\ FilesTile' /\ Apart'
      <4>1. CASE n = 0
        BY <1>0, <2>3, <3>2, <4>1, SameFiles
      <4>2. CASE n # 0
        BY <1>0, <2>3, <2>4, <3>2, <3>3, <4>2, ItemAdded
      <4>. QED
        BY <4>1, <4>2
    <3>. QED
      BY <2>7, <2>10, <2>11, <3>1, <3>4 DEF MInv
  <2>. QED
    BY <2>2, <2>12, <2>13
<1>9. CASE UNCHANGED vars
  <2>1. UNCHANGED <<files, created, writer, io_errors, m_log_files, phase, next_lsn, starts, skipped>>
    BY <1>9 DEF vars
  <2>2. TypeOK'
    BY <1>0, <2>1 DEF TypeOK, WriterTypeOK, Writer, is_open
  <2>3. Control' /\ Reached' /\ Known'
    BY <1>0, <2>1 DEF Control, Reached, Known, is_open, NextName, N
  <2>. QED
    BY <1>s, <2>1, <2>2, <2>3 DEF MInv
<1>. QED
  BY <1>1, <1>2, <1>3, <1>4, <1>5, <1>6, <1>7, <1>8, <1>9 DEF Next

(* So it holds of every behaviour.                                         *)
LEMMA MInvAlways == Spec => []MInv
  BY InitMInv, StepMInv, PTL DEF Spec

-----------------------------------------------------------------------------
(* Type correctness: in particular, the process writes only to an open     *)
(* file, also after open(2) failed in next_file().                         *)
THEOREM TypesKept == Spec => []TypeOK
  BY MInvAlways, PTL DEF MInv

(* The name of a file bounds the LSNs in it, from below unless the file    *)
(* was begun because last_file() failed (last_file(), next_file(),         *)
(* write()).                                                               *)
THEOREM NamesTellLsns == Spec => []RangeByName
  BY MInvAlways, PTL DEF MInv

(* The names of the files are N apart, and behind none is an LSN missing   *)
(* that is due in it: no rotation, restart or failing next_file() leaves a *)
(* gap (init(), last_file(), next_file(), write()).                        *)
THEOREM FilesFollow == Spec => []FilesTile
  BY MInvAlways, PTL DEF MInv

(* Of all files in the directory that hold a wanted LSN, list_files()      *)
(* leaves out the first and the one this process has begun, and no other   *)
(* (init(), list_files(), next_file()).                                    *)
THEOREM ListMisses == Spec => []ListMissesTwo
<1>1. ASSUME MInv PROVE ListMissesTwo
  <2>1. TypeOK /\ RangeByName /\ Known
    BY <1>1 DEF MInv
  <2>2. FileName \subseteq Nat /\ created \subseteq FileName /\ N \in Nat
    BY <2>1, Numbers
  <2>3. ASSUME phase # "down", NEW lsn \in 0 .. MaxLsn, NEW n \in Needed(lsn) \ Listed(lsn)
        PROVE  (n < lsn /\ lsn < n + N) \/ (n = NextName /\ phase # "start")
    <3>1. n \in created /\ n \in Nat
      BY <2>2, <2>3 DEF Needed
    <3>2. CASE n \in m_log_files
      <4>1. ~(n >= lsn)
        BY <2>3, <3>2 DEF Listed
      <4>2. PICK x \in LsnsIn(n) : x >= lsn
        BY <2>3 DEF Needed
      <4>3. x < n + N /\ x \in Int
        <5>1. PICK i \in 1 .. Len(files[n]) : files[n][i].lsn = x
          BY <4>2, LsnsMember
        <5>2. files[n] \in Seq(Item)
          BY <2>1, <2>2, <3>1 DEF TypeOK, WriterTypeOK
        <5>3. files[n][i] \in Item
          BY <5>1, <5>2
        <5>4. x \in Int
          BY <5>1, <5>3 DEF Item
        <5>. QED
          BY <2>1, <2>2, <3>1, <4>2, <5>4 DEF RangeByName
      <4>. QED
        BY <2>2, <2>3, <3>1, <4>1, <4>2, <4>3
    <3>3. CASE n \notin m_log_files
      BY <2>1, <2>3, <3>1, <3>3 DEF Known
    <3>. QED
      BY <3>2, <3>3
  <2>. QED
    BY <2>3 DEF ListMissesTwo
<1>2. MInv => ListMissesTwo
  BY <1>1
<1>. QED
  BY <1>2, MInvAlways, PTL

-----------------------------------------------------------------------------
(***************************************************************************)
(* LogFileReader.                                                          *)
(*                                                                         *)
(* The inductive invariant is about the offset: as long as go_to() has     *)
(* nothing to skip or skips rightly, it is where an item begins (Route),   *)
(* so that the header read there is the item's and no other.  That offset  *)
(* and number are related at all is an induction over the file (Layout).   *)
(***************************************************************************)
(* Entries that can be read, and those that are to be skipped.             *)
ToRead == Cardinality(Readable)
ToSkip == Cardinality(Unwanted)

(* Fragments at the end of which not even the header is complete.          *)
HeadersTorn == \A i \in Torn : content[i].put < HEAD_SIZE

(* Where the offset is, and what was delivered on the way.                 *)
InGoTo ==
    /\ delivered = <<>> /\ rc = "NONE"
    /\ \E i \in 1 .. Len(content) + 1 :
          pos = StartOf(i) /\ \A j \in 1 .. i - 1 : content[j].lsn < start_lsn

InIterate ==
    /\ rc = "NONE"
    /\ \/ \E i \in 1 .. Len(content) + 1 : i = ToSkip + Len(delivered) + 1 /\ pos = StartOf(i)
       \/ pos = FileSize /\ Len(delivered) = ToRead - ToSkip /\ HeadersTorn

SoFar ==
    /\ Len(delivered) <= ToRead - ToSkip
    /\ \A m \in 1 .. Len(delivered) : delivered[m] = EntryAt(ToSkip + m)

Outcomes ==
    /\ rc \in {"SUCCESS", "IOERR_READ"} => Len(delivered) = ToRead - ToSkip
    /\ rc = "IOERR_READ" => Torn # {}
    /\ rc = "SUCCESS" => HeadersTorn
    /\ rc # "length_error"

Route ==
    Aligned /\ CleanTail =>
        /\ pc = "go_to" => InGoTo
        /\ pc = "iterate" => InIterate
        /\ SoFar /\ Outcomes

RInv == ReaderTypeOK /\ Route

-----------------------------------------------------------------------------
(* The layout of a file.                                                   *)

(* What is assumed of a file, item by item.                                *)
LEMMA Items ==
    ASSUME content \in Contents
    PROVE  /\ HEAD_SIZE \in Nat \ {0}
           /\ content \in Seq(Item) /\ Len(content) \in Nat
           /\ \A i \in 1 .. Len(content) :
                 /\ content[i].lsn \in Int /\ content[i].size \in Nat
                 /\ content[i].put \in Nat \ {0} /\ content[i].put <= HEAD_SIZE + content[i].size
                 /\ Whole(content[i]) <=> content[i].put = HEAD_SIZE + content[i].size
                 /\ Fits(content[i].size)
           /\ \A i, j \in 1 .. Len(content) : i < j => content[i].lsn <= content[j].lsn
<1>1. HEAD_SIZE \in Nat \ {0} /\ content \in Seq(Item) /\ LeftByWriter(content)
  BY HeadSizeAssumption, ContentsAssumption
<1>2. Len(content) \in Nat /\ \A i \in 1 .. Len(content) : content[i] \in Item
  BY <1>1
<1>3. ASSUME NEW i \in 1 .. Len(content)
      PROVE  /\ content[i].lsn \in Int /\ content[i].size \in Nat
             /\ content[i].put \in Nat \ {0} /\ content[i].put <= HEAD_SIZE + content[i].size
             /\ Whole(content[i]) <=> content[i].put = HEAD_SIZE + content[i].size
             /\ Fits(content[i].size)
  <2>1. content[i].lsn \in Int /\ content[i].size \in Nat
    BY <1>2 DEF Item
  <2>2. content[i].put \in 1 .. HEAD_SIZE + content[i].size /\ Fits(content[i].size)
    BY <1>1 DEF LeftByWriter, total_size
  <2>. QED
    BY <1>1, <2>1, <2>2 DEF Whole, total_size
<1>. QED
  BY <1>1, <1>2, <1>3 DEF LeftByWriter

Puts(list) == [i \in 1 .. Len(list) |-> list[i].put]

(* The bytes of a sequence of items are the value of a fold.               *)
LEMMA PutFold ==
    ASSUME NEW list \in Seq(Item)
    PROVE  /\ Len(list) \in Nat
           /\ \A i \in 1 .. Len(list) : Puts(list)[i] = list[i].put
           /\ AllNumbers(Puts(list), Len(list))
           /\ \E f : IsFold(Puts(list), Len(list), f) /\ PutBytes(list) = f[1 .. Len(list)]
<1>1. Len(list) \in Nat /\ DOMAIN list = 1 .. Len(list)
  OBVIOUS
<1>2. \A i \in 1 .. Len(list) : Puts(list)[i] = list[i].put /\ Puts(list)[i] \in Int
  <2>1. \A i \in 1 .. Len(list) : list[i] \in Item
    OBVIOUS
  <2>. QED
    BY <2>1 DEF Puts, Item
<1>. DEFINE F(f) == [s \in SUBSET (1 .. Len(list)) |->
                       IF s = {} THEN 0
                       ELSE LET x == Max(s) IN f[s \ {x}] + list[x].put]
            g    == CHOOSE f : f = F(f)
<1>3. PutBytes(list) = g[1 .. Len(list)]
  BY <1>1 DEF PutBytes, FoldLeft, MapThenFoldSet
<1>4. ASSUME NEW f PROVE f = F(f) <=> IsFold(Puts(list), Len(list), f)
  <2>1. ASSUME NEW s \in SUBSET (1 .. Len(list)), s # {}
        PROVE  list[Max(s)].put = Puts(list)[Max(s)]
    BY <1>1, <1>2, <2>1, MaxPlace
  <2>. DEFINE G == [s \in SUBSET (1 .. Len(list)) |->
                      IF s = {} THEN 0
                      ELSE LET x == Max(s) IN f[s \ {x}] + Puts(list)[x]]
  <2>2. F(f) = G
    BY <2>1
  <2>. QED
    BY <2>2 DEF IsFold
<1>5. \E f : f = F(f)
  <2>1. PICK f : IsFold(Puts(list), Len(list), f)
    BY <1>1, FoldExists
  <2>2. f = F(f)
    BY <1>4, <2>1
  <2>. QED
    BY <2>2
<1>. HIDE DEF F
<1>6. g = F(g)
  BY <1>5
<1>7. IsFold(Puts(list), Len(list), g)
  <2>. HIDE DEF g
  <2>. QED
    BY <1>4, <1>6
<1>. HIDE DEF g
<1>. QED
  BY <1>1, <1>2, <1>3, <1>7 DEF AllNumbers

(* An item begins where the one before it ends.                            *)
LEMMA StartNext ==
    ASSUME content \in Seq(Item), NEW i \in 1 .. Len(content)
    PROVE  StartOf(i) \in Int /\ StartOf(i + 1) = StartOf(i) + content[i].put
<1>. DEFINE v == SubSeq(content, 1, i - 1)
            w == SubSeq(content, 1, i)
            n == i - 1
<1>1. /\ n \in Nat /\ n + 1 = i
      /\ v \in Seq(Item) /\ Len(v) = n /\ w \in Seq(Item) /\ Len(w) = n + 1
      /\ \A j \in 1 .. n : v[j] = w[j]
      /\ w[n + 1] = content[i]
  OBVIOUS
<1>2. StartOf(i) = PutBytes(v) /\ StartOf(i + 1) = PutBytes(w)
  <2>1. (i + 1) - 1 = i
    OBVIOUS
  <2>. QED
    BY <2>1 DEF StartOf
<1>. HIDE DEF v, w, n
<1>3. PICK f : IsFold(Puts(v), n, f) /\ PutBytes(v) = f[1 .. n]
  BY <1>1, PutFold
<1>4. PICK g : IsFold(Puts(w), n + 1, g) /\ PutBytes(w) = g[1 .. n + 1]
  BY <1>1, PutFold
<1>5. /\ \A j \in 1 .. n + 1 : Puts(w)[j] = w[j].put
      /\ AllNumbers(Puts(w), n + 1) /\ AllNumbers(Puts(v), n)
      /\ \A j \in 1 .. n : Puts(v)[j] = v[j].put
  BY <1>1, PutFold
<1>6. Shifted(Puts(v), Puts(w), n, 0) /\ Puts(w)[n + 1] = content[i].put
  BY <1>1, <1>5 DEF Shifted
<1>7. g[1 .. n + 1] = f[1 .. n] + Puts(w)[n + 1]
  BY <1>1, <1>3, <1>4, <1>5, <1>6, FoldPush
<1>8. f[1 .. n] \in Int
  BY <1>1, <1>3, <1>5, FoldType
<1>. QED
  BY <1>2, <1>3, <1>4, <1>6, <1>7, <1>8

(* The first item begins at the front of the file.                         *)
LEMMA StartFirst == ASSUME content \in Seq(Item) PROVE StartOf(1) = 0
<1>1. SubSeq(content, 1, 0) = <<>> /\ <<>> \in Seq(Item) /\ Len(<<>>) = 0 /\ 1 - 1 = 0 /\ 0 \in Nat
  OBVIOUS
<1>2. StartOf(1) = PutBytes(<<>>)
  BY <1>1 DEF StartOf
<1>3. PICK f : IsFold(Puts(<<>>), 0, f) /\ PutBytes(<<>>) = f[1 .. 0]
  BY <1>1, PutFold
<1>4. f[1 .. 0] = 0
  BY <1>1, <1>3, FoldSteps
<1>. QED
  BY <1>2, <1>3, <1>4

(* So items begin at different offsets, in the order of the file.          *)
LEMMA Layout ==
    ASSUME content \in Contents
    PROVE  /\ StartOf(1) = 0 /\ FileSize \in Nat
           /\ FileSize = StartOf(Len(content) + 1)
           /\ \A i \in 1 .. Len(content) + 1 : StartOf(i) \in Nat
           /\ \A i \in 1 .. Len(content) : StartOf(i + 1) = StartOf(i) + content[i].put
           /\ \A i, j \in 1 .. Len(content) + 1 : i < j => StartOf(i) < StartOf(j)
<1>. DEFINE L == Len(content)
<1>1. L \in Nat /\ content \in Seq(Item) /\ \A i \in 1 .. L : content[i].put \in Nat \ {0}
  BY Items
<1>2. StartOf(1) = 0
  BY <1>1, StartFirst
<1>3. \A i \in 1 .. L : StartOf(i) \in Int /\ StartOf(i + 1) = StartOf(i) + content[i].put
  BY <1>1, StartNext
<1>. HIDE DEF L
<1>4. \A i \in 1 .. L + 1 : StartOf(i) \in Nat
  <2>. DEFINE S == {k \in Nat : k <= L => StartOf(k + 1) \in Nat}
  <2>1. 0 \in S
    BY <1>2
  <2>2. ASSUME NEW k \in Nat, k \in S PROVE k + 1 \in S
    <3>. SUFFICES ASSUME k + 1 <= L PROVE StartOf((k + 1) + 1) \in Nat
      OBVIOUS
    <3>1. k + 1 \in 1 .. L /\ StartOf(k + 1) \in Nat
      BY <1>1, <2>2
    <3>2. StartOf((k + 1) + 1) = StartOf(k + 1) + content[k + 1].put
      BY <1>3, <3>1
    <3>. QED
      BY <1>1, <3>1, <3>2
  <2>. HIDE DEF S
  <2>3. Nat \subseteq S
    BY <2>1, <2>2, Induction
  <2>4. ASSUME NEW i \in 1 .. L + 1 PROVE StartOf(i) \in Nat
    <3>1. i - 1 \in Nat /\ i - 1 <= L /\ (i - 1) + 1 = i
      BY <1>1
    <3>2. i - 1 \in S
      BY <2>3, <3>1
    <3>. QED
      BY <3>1, <3>2 DEF S
  <2>. QED
    BY <2>4
<1>5. \A i, j \in 1 .. L + 1 : i < j => StartOf(i) < StartOf(j)
  <2>. SUFFICES ASSUME NEW i \in 1 .. L + 1
                PROVE  \A j \in 1 .. L + 1 : i < j => StartOf(i) < StartOf(j)
    OBVIOUS
  <2>. DEFINE S == {k \in Nat : i <= k /\ k <= L => StartOf(i) < StartOf(k + 1)}
  <2>1. 0 \in S
    BY <1>1
  <2>2. ASSUME NEW k \in Nat, k \in S PROVE k + 1 \in S
    <3>. SUFFICES ASSUME i <= k + 1, k + 1 <= L PROVE StartOf(i) < StartOf((k + 1) + 1)
      OBVIOUS
    <3>1. k + 1 \in 1 .. L /\ i \in 1 .. L
      BY <1>1
    <3>2. StartOf((k + 1) + 1) = StartOf(k + 1) + content[k + 1].put
      BY <1>3, <3>1
    <3>3. StartOf(k + 1) \in Int /\ content[k + 1].put \in Nat \ {0} /\ StartOf(i) \in Int
      BY <1>1, <1>3, <3>1
    <3>4. i = k + 1 \/ StartOf(i) < StartOf(k + 1)
      BY <1>1, <2>2
    <3>. QED
      BY <3>2, <3>3, <3>4
  <2>. HIDE DEF S
  <2>3. Nat \subseteq S
    BY <2>1, <2>2, Induction
  <2>4. ASSUME NEW j \in 1 .. L + 1, i < j PROVE StartOf(i) < StartOf(j)
    <3>1. j - 1 \in Nat /\ i <= j - 1 /\ j - 1 <= L /\ (j - 1) + 1 = j
      BY <1>1, <2>4
    <3>2. j - 1 \in S
      BY <2>3, <3>1
    <3>. QED
      BY <3>1, <3>2 DEF S
  <2>. QED
    BY <2>4
<1>6. FileSize = StartOf(L + 1)
  BY DEF FileSize, L
<1>7. L + 1 \in 1 .. L + 1
  BY <1>1
<1>. QED
  BY <1>2, <1>3, <1>4, <1>5, <1>6, <1>7 DEF L

(* Nothing but its last bytes lies between an item and the end.            *)
LEMMA Ends ==
    ASSUME content \in Contents, NEW i \in 1 .. Len(content)
    PROVE  /\ StartOf(i) \in Nat
           /\ StartOf(i) + content[i].put <= FileSize
           /\ i = Len(content) => StartOf(i) + content[i].put = FileSize
<1>1. Len(content) \in Nat /\ content[i].put \in Nat \ {0}
  BY Items
<1>2. i + 1 \in 1 .. Len(content) + 1 /\ Len(content) + 1 \in 1 .. Len(content) + 1
      /\ (i + 1 < Len(content) + 1 \/ i = Len(content)) /\ i \in 1 .. Len(content) + 1
  BY <1>1
<1>3. /\ StartOf(i + 1) = StartOf(i) + content[i].put
      /\ FileSize = StartOf(Len(content) + 1) /\ StartOf(i) \in Nat /\ FileSize \in Nat
      /\ i + 1 < Len(content) + 1 => StartOf(i + 1) < StartOf(Len(content) + 1)
  BY <1>2, Layout
<1>. QED
  BY <1>1, <1>2, <1>3

(* The header read where an item begins is the item's.                     *)
LEMMA HeaderRead ==
    ASSUME content \in Contents, NEW i \in 1 .. Len(content), content[i].put >= HEAD_SIZE,
           NEW h, IsHeader(StartOf(i), h)
    PROVE  h.lsn = content[i].lsn /\ h.size = content[i].size
<1>1. ASSUME NEW j \in 1 .. Len(content), StartOf(j) = StartOf(i) PROVE j = i
  <2>1. Len(content) \in Nat
    BY Items
  <2>2. i \in 1 .. Len(content) + 1 /\ j \in 1 .. Len(content) + 1
    BY <2>1
  <2>3. /\ i < j => StartOf(i) < StartOf(j)
        /\ j < i => StartOf(j) < StartOf(i)
        /\ StartOf(i) \in Nat
    BY <2>2, Layout
  <2>. QED
    BY <1>1, <2>3
<1>2. HeadersAt(StartOf(i)) = {i}
  BY <1>1 DEF HeadersAt
<1>3. h = [lsn |-> content[i].lsn, size |-> content[i].size]
  BY <1>2 DEF IsHeader
<1>. QED
  BY <1>3

-----------------------------------------------------------------------------
(* What is readable and what is wanted.                                    *)

(* A set of numbers with every number below each of its own.               *)
LEMMA FirstOnes ==
    ASSUME NEW n \in Nat, NEW S \in SUBSET (1 .. n), \A i \in S : \A j \in 1 .. i : j \in S
    PROVE  Cardinality(S) \in 0 .. n /\ S = 1 .. Cardinality(S)
<1>1. CASE S = {}
  BY <1>1, FS_EmptySet
<1>2. CASE S # {}
  <2>1. S \in SUBSET Nat /\ \A i \in S : i <= n
    OBVIOUS
  <2>2. PICK m \in S : \A i \in S : i <= m
    BY <1>2, <2>1, LargestNumber
  <2>3. m \in 1 .. n /\ m \in Nat /\ \A j \in 1 .. m : j \in S
    BY <2>2
  <2>4. S = 1 .. m
    <3>1. S \subseteq 1 .. m
      BY <2>2, <2>3
    <3>. QED
      BY <2>3, <3>1
  <2>5. Cardinality(1 .. m) = m
    BY <2>3, FS_Interval
  <2>. QED
    BY <2>3, <2>4, <2>5
<1>. QED
  BY <1>1, <1>2

(* The readable entries are the first, and of them those to be skipped.    *)
LEMMA Shape ==
    ASSUME content \in Contents, start_lsn \in Int, CleanTail
    PROVE  /\ ToRead \in 0 .. Len(content) /\ ToSkip \in 0 .. ToRead
           /\ \/ ToRead = Len(content) /\ Torn = {}
              \/ ToRead = Len(content) - 1 /\ Torn = {Len(content)} /\ Len(content) \in 1 .. Len(content)
           /\ \A i \in 1 .. ToRead : Whole(content[i]) /\ (i <= ToSkip <=> content[i].lsn < start_lsn)
           /\ Wanted = [m \in 1 .. ToRead - ToSkip |-> EntryAt(ToSkip + m)]
<1>. DEFINE L == Len(content)
<1>0. /\ L \in Nat
      /\ \A i, j \in 1 .. L : i < j => content[i].lsn <= content[j].lsn
      /\ \A i \in 1 .. L : content[i].lsn \in Int
  BY Items
<1>1. ToRead \in 0 .. L /\ Readable = 1 .. ToRead
  <2>1. Readable \in SUBSET (1 .. L) /\ \A i \in Readable : \A j \in 1 .. i : j \in Readable
    BY <1>0 DEF Readable
  <2>. HIDE DEF L
  <2>. QED
    BY <1>0, <2>1, FirstOnes DEF ToRead
<1>2. ToSkip \in 0 .. ToRead /\ Unwanted = 1 .. ToSkip
  <2>1. Unwanted \in SUBSET (1 .. ToRead)
    BY <1>1 DEF Unwanted
  <2>2. ASSUME NEW i \in Unwanted, NEW j \in 1 .. i PROVE j \in Unwanted
    <3>1. i \in 1 .. ToRead /\ j \in 1 .. ToRead /\ i \in 1 .. L /\ j \in 1 .. L /\ (j = i \/ j < i)
      BY <1>0, <1>1, <2>1
    <3>2. content[i].lsn < start_lsn /\ content[j].lsn <= content[i].lsn
          /\ content[i].lsn \in Int /\ content[j].lsn \in Int
      BY <1>0, <3>1 DEF Unwanted
    <3>3. content[j].lsn < start_lsn
      BY <3>2
    <3>. QED
      BY <1>1, <3>1, <3>3 DEF Unwanted
  <2>3. ToRead \in Nat
    BY <1>0, <1>1
  <2>. QED
    BY <2>1, <2>2, <2>3, FirstOnes DEF ToSkip
<1>3. \/ ToRead = L /\ Torn = {}
      \/ ToRead = L - 1 /\ Torn = {L} /\ L \in 1 .. L
  <2>1. CASE Torn = {}
    <3>1. Readable = 1 .. L
      BY <1>0, <2>1 DEF Readable, Torn
    <3>2. Cardinality(1 .. L) = L
      <4>. HIDE DEF L
      <4>. QED
        BY <1>0, FS_Interval
    <3>3. ToRead = L
      BY <3>1, <3>2 DEF ToRead
    <3>. QED
      BY <2>1, <3>3
  <2>2. CASE Torn # {}
    <3>1. Torn = {L}
      BY <2>2 DEF CleanTail
    <3>2. L \in 1 .. L /\ ~Whole(content[L]) /\ \A i \in 1 .. L : i # L => Whole(content[i])
      BY <3>1 DEF Torn
    <3>3. Readable = 1 .. L - 1
      BY <1>0, <3>2 DEF Readable
    <3>4. ToRead = L - 1
      BY <1>0, <3>2, <3>3, FS_Interval DEF ToRead
    <3>. QED
      BY <3>1, <3>2, <3>4
  <2>. QED
    BY <2>1, <2>2
<1>4. \A i \in 1 .. ToRead : Whole(content[i]) /\ (i <= ToSkip <=> content[i].lsn < start_lsn)
  <2>1. \A i \in 1 .. ToRead : i \in Readable /\ i \in 1 .. i
    BY <1>1
  <2>2. \A i \in 1 .. ToRead : i \in Unwanted <=> i <= ToSkip
    BY <1>0, <1>1, <1>2
  <2>. QED
    BY <2>1, <2>2 DEF Readable, Unwanted
<1>5. Cardinality(Readable \ Unwanted) = ToRead - ToSkip
  <2>1. IsFiniteSet(Readable) /\ Unwanted \subseteq Readable
    <3>1. ToRead \in Int
      BY <1>0, <1>1
    <3>2. IsFiniteSet(1 .. ToRead)
      BY <3>1, FS_Interval
    <3>. QED
      BY <1>1, <3>2 DEF Unwanted
  <2>2. Cardinality(Readable \ Unwanted) = Cardinality(Readable) - Cardinality(Readable \cap Unwanted)
    BY <2>1, FS_Difference
  <2>3. Readable \cap Unwanted = Unwanted
    BY <2>1
  <2>. QED
    BY <2>2, <2>3 DEF ToRead, ToSkip
<1>6. Wanted = [m \in 1 .. ToRead - ToSkip |-> EntryAt(ToSkip + m)]
  BY <1>5 DEF Wanted, ToSkip
<1>. QED
  BY <1>1, <1>2, <1>3, <1>4, <1>6

-----------------------------------------------------------------------------
(* Types.                                                                  *)

(* A header that is read, and what is remembered of it.                    *)
LEMMA HeaderType ==
    ASSUME ReaderTypeOK, NEW h \in Headers, IsHeader(pos, h)
    PROVE  /\ h.lsn \in Int /\ h.size \in Int
           /\ DOMAIN seen' \subseteq Nat /\ \A p \in DOMAIN seen' : seen'[p] \in Garbage
<1>1. h.lsn \in Int /\ h.size \in Int
  <2>1. CASE h \in Garbage
    BY <2>1, GarbageAssumption
  <2>2. CASE \E i \in 1 .. Len(content) : h = [lsn |-> content[i].lsn, size |-> content[i].size]
    BY <2>2, Items DEF ReaderTypeOK
  <2>. QED
    BY <2>1, <2>2 DEF Headers
<1>2. CASE UNCHANGED seen
  BY <1>1, <1>2 DEF ReaderTypeOK
<1>3. CASE h \in Garbage /\ seen' = [q \in DOMAIN seen \cup {pos} |-> IF q = pos THEN h ELSE seen[q]]
  BY <1>1, <1>3 DEF ReaderTypeOK
<1>. QED
  BY <1>2, <1>3 DEF IsHeader

(* The reader starts closed.                                               *)
LEMMA InitType == ReaderInit => ReaderTypeOK
  BY DEF ReaderInit, ReaderTypeOK, Outcome

(* Every step keeps the types.                                             *)
LEMMA StepType == ReaderTypeOK /\ [ReaderNext]_reader_vars => ReaderTypeOK'
<1>. SUFFICES ASSUME ReaderTypeOK, [ReaderNext]_reader_vars PROVE ReaderTypeOK'
  OBVIOUS
<1>0. FileSize \in Nat /\ HEAD_SIZE \in Nat \ {0} /\ pos \in Nat
  BY Layout, Items DEF ReaderTypeOK
<1>1. CASE ReaderOpen \/ ReaderClose \/ UNCHANGED reader_vars
  BY <1>1 DEF ReaderTypeOK, ReaderOpen, ReaderClose, reader_vars
<1>e. <<>> \in Seq([lsn : Int, size : Nat, at : Nat]) /\ DOMAIN <<>> = {}
  OBVIOUS
<1>c. CASE IterateClosed
  BY <1>c, <1>e DEF ReaderTypeOK, Outcome, IterateClosed
<1>i. CASE Iterate
  <2>1. DOMAIN seen' = {} /\ delivered' \in Seq([lsn : Int, size : Nat, at : Nat])
    BY <1>i, <1>e DEF Iterate
  <2>. QED
    BY <1>i, <2>1 DEF ReaderTypeOK, Outcome, Iterate
<1>2. CASE GoToEof \/ IterateEof
  BY <1>0, <1>2 DEF ReaderTypeOK, Outcome, GoToEof, IterateEof, Return
<1>3. ASSUME NEW h \in Headers, IsHeader(pos, h),
             \/ UNCHANGED pos
             \/ pos' = pos + HEAD_SIZE
             \/ pos' = pos + HEAD_SIZE + HEAD_SIZE
             \/ pos' = FileSize,
             UNCHANGED <<content, start_lsn, delivered>>,
             pc' \in {"idle", "go_to", "iterate"}, rc' \in Outcome
      PROVE  ReaderTypeOK'
  <2>1. pos' \in Nat
    BY <1>0, <1>3
  <2>. QED
    BY <1>3, <2>1, HeaderType DEF ReaderTypeOK
<1>4. CASE GoToFound \/ GoToInvalid \/ GoToSkip
  BY <1>3, <1>4 DEF GoToFound, GoToInvalid, GoToSkip, Return, ReaderTypeOK, Outcome
<1>5. CASE IterateThrows \/ IterateShort
  BY <1>3, <1>5 DEF IterateThrows, IterateShort, Return, Outcome
<1>6. ASSUME NEW code \in {"SUCCESS", "CALLBACK"}, IterateDeliver(code)
      PROVE  ReaderTypeOK'
  <2>1. PICK h \in Headers :
            /\ IsHeader(pos, h)
            /\ h.size >= 0
            /\ delivered' = Append(delivered, [lsn |-> EntryOf(h).lsn,
                                               size |-> EntryOf(h).size, at |-> pos])
            /\ pos' = pos + HEAD_SIZE + h.size
    BY <1>6 DEF IterateDeliver
  <2>2. h.lsn \in Int /\ h.size \in Nat
        /\ DOMAIN seen' \subseteq Nat /\ \A p \in DOMAIN seen' : seen'[p] \in Garbage
    BY <2>1, HeaderType
  <2>3. EntryOf(h).lsn \in Int /\ EntryOf(h).size \in Nat
    BY <2>2 DEF EntryOf
  <2>4. delivered' \in Seq([lsn : Int, size : Nat, at : Nat])
    BY <1>0, <2>1, <2>3 DEF ReaderTypeOK
  <2>5. pos' \in Nat
    BY <1>0, <2>1, <2>2
  <2>. QED
    BY <1>6, <2>2, <2>4, <2>5 DEF ReaderTypeOK, IterateDeliver, Return, Outcome
<1>. QED
  BY <1>1, <1>c, <1>i, <1>2, <1>4, <1>5, <1>6 DEF ReaderNext, Running

(* The types of what the reader keeps and delivers.                        *)
THEOREM ReaderTypesKept == ReaderSpec => []ReaderTypeOK
  BY InitType, StepType, PTL DEF ReaderSpec

-----------------------------------------------------------------------------
(* The way of the offset through the file.                                 *)

(* The offsets are the file's.                                             *)
LEMMA SameStarts ==
    ASSUME content' = content
    PROVE  FileSize' = FileSize /\ \A i : StartOf(i)' = StartOf(i)
  BY DEF StartOf, FileSize

(* A step within a call reads the same file from the same LSN.             *)
LEMMA SameFile ==
    ASSUME UNCHANGED <<content, start_lsn>>
    PROVE  /\ Aligned' <=> Aligned
           /\ CleanTail' <=> CleanTail
           /\ ToRead' = ToRead /\ ToSkip' = ToSkip /\ FileSize' = FileSize /\ Torn' = Torn
           /\ HeadersTorn' <=> HeadersTorn
           /\ \A i : StartOf(i)' = StartOf(i) /\ EntryAt(i)' = EntryAt(i)
<1>1. Readable' = Readable /\ Torn' = Torn /\ Unwanted' = Unwanted
  BY DEF Readable, Torn, Unwanted
<1>2. FileSize' = FileSize /\ \A i : StartOf(i)' = StartOf(i)
  BY SameStarts
<1>3. ToRead' = ToRead /\ ToSkip' = ToSkip /\ (Aligned' <=> Aligned) /\ (CleanTail' <=> CleanTail)
      /\ (HeadersTorn' <=> HeadersTorn)
  BY <1>1 DEF Aligned, CleanTail, ToRead, ToSkip, HeadersTorn
<1>4. \A i : EntryAt(i)' = EntryAt(i)
  BY <1>2 DEF EntryAt
<1>. QED
  BY <1>1, <1>2, <1>3, <1>4

(* Nothing is delivered at first.                                          *)
LEMMA InitRoute == ReaderInit => Route
<1>. SUFFICES ASSUME ReaderInit, CleanTail PROVE Route
  BY DEF Route
<1>1. delivered = <<>> /\ Len(<<>>) = 0 /\ pc = "closed" /\ rc = "NONE"
      /\ content \in Contents /\ start_lsn \in Int
  BY DEF ReaderInit
<1>2. ToRead - ToSkip >= 0
  BY <1>1, Shape, Items
<1>. QED
  BY <1>1, <1>2 DEF Route, SoFar, Outcomes

(* iterate() starts over, perhaps from another LSN.                        *)
LEMMA RouteStarts ==
    ASSUME ReaderTypeOK, Iterate
    PROVE  Route'
<1>1. pc' = "go_to" /\ delivered' = <<>> /\ rc' = "NONE" /\ pos' = 0 /\ content' = content
      /\ content \in Contents
  BY DEF Iterate, ReaderTypeOK
<1>2. Readable' = Readable /\ Unwanted' \subseteq Readable
  BY <1>1 DEF Readable, Unwanted
<1>3. IsFiniteSet(Readable)
  <2>1. Len(content) \in Int
    BY <1>1, Items
  <2>2. IsFiniteSet(1 .. Len(content))
    BY <2>1, FS_Interval
  <2>. QED
    BY <2>2, FS_Subset DEF Readable
<1>4. ToRead' \in Int /\ ToSkip' \in Int /\ ToRead' - ToSkip' >= 0
  <2>1. Cardinality(Unwanted') <= Cardinality(Readable) /\ IsFiniteSet(Unwanted')
    BY <1>2, <1>3, FS_Subset
  <2>2. Cardinality(Unwanted') \in Nat /\ Cardinality(Readable) \in Nat
    BY <1>3, <2>1, FS_CardinalityType
  <2>. QED
    BY <1>2, <2>1, <2>2 DEF ToRead, ToSkip
<1>5. \E i \in 1 .. Len(content') + 1 :
         pos' = StartOf(i)' /\ \A j \in 1 .. i - 1 : content'[j].lsn < start_lsn'
  <2>0. StartOf(1)' = StartOf(1)
    BY <1>1, SameStarts
  <2>1. StartOf(1)' = 0
    BY <1>1, <2>0, Layout
  <2>2. 1 \in 1 .. Len(content) + 1 /\ 1 .. 1 - 1 = {}
    BY <1>1, Items
  <2>. QED
    BY <1>1, <2>1, <2>2
<1>6. InGoTo'
  BY <1>1, <1>5 DEF InGoTo
<1>7. SoFar' /\ Outcomes'
  <2>1. Len(delivered') = 0
    BY <1>1
  <2>. QED
    <3>1. 0 <= ToRead' - ToSkip'
      BY <1>4
    <3>2. Len(delivered') <= ToRead' - ToSkip' /\ \A m \in 1 .. Len(delivered') : FALSE
      BY <2>1, <3>1
    <3>3. SoFar'
      BY <3>2 DEF SoFar
    <3>. QED
      BY <1>1, <3>3 DEF Outcomes
<1>. QED
  BY <1>1, <1>6, <1>7 DEF Route

(* go_to() stops at the first entry that is wanted.                        *)
LEMMA FoundAt ==
    ASSUME content \in Contents, start_lsn \in Int, CleanTail, Aligned,
           NEW i \in 1 .. Len(content), content[i].lsn >= start_lsn,
           \A j \in 1 .. i - 1 : content[j].lsn < start_lsn
    PROVE  ToSkip = i - 1
<1>1. /\ ToRead \in 0 .. Len(content) /\ ToSkip \in 0 .. ToRead
      /\ ToRead = Len(content) \/ ToRead = Len(content) - 1
      /\ \A j \in 1 .. ToRead : j <= ToSkip <=> content[j].lsn < start_lsn
      /\ Len(content) \in Nat /\ content[i].lsn \in Int
  BY Shape, Items
<1>2. i <= ToRead => ~(i <= ToSkip)
  BY <1>1
<1>3. i - 1 \in 0 .. ToRead
  BY <1>1
<1>4. i > 1 => i - 1 <= ToSkip
  BY <1>1, <1>3
<1>. QED
  BY <1>1, <1>2, <1>3, <1>4

(* The steps of go_to().                                                   *)
LEMMA RouteGoTo ==
    ASSUME ReaderTypeOK, Route, GoToEof \/ GoToFound \/ GoToInvalid \/ GoToSkip
    PROVE  Route'
<1>1. pc = "go_to" /\ UNCHANGED <<content, start_lsn, delivered>> /\ content \in Contents
      /\ start_lsn \in Int
  BY StartAssumption DEF GoToEof, GoToFound, GoToInvalid, GoToSkip, ReaderTypeOK
<1>2. /\ Aligned' <=> Aligned
      /\ CleanTail' <=> CleanTail
      /\ ToRead' = ToRead /\ ToSkip' = ToSkip /\ FileSize' = FileSize /\ Torn' = Torn
      /\ HeadersTorn' <=> HeadersTorn
      /\ \A j : StartOf(j)' = StartOf(j) /\ EntryAt(j)' = EntryAt(j)
  BY <1>1, SameFile
<1>. SUFFICES ASSUME Aligned, CleanTail PROVE Route'
  BY <1>2 DEF Route
<1>3. InGoTo /\ SoFar /\ Outcomes /\ delivered = <<>> /\ rc = "NONE" /\ Len(delivered) = 0
  BY <1>1 DEF Route, InGoTo
<1>4. SoFar' /\ delivered' = <<>> /\ Len(delivered') = 0
  BY <1>1, <1>2, <1>3 DEF SoFar
<1>5. PICK i \in 1 .. Len(content) + 1 :
          pos = StartOf(i) /\ \A j \in 1 .. i - 1 : content[j].lsn < start_lsn
  BY <1>3 DEF InGoTo
<1>6. /\ HEAD_SIZE \in Nat \ {0} /\ Len(content) \in Nat /\ FileSize \in Nat
      /\ FileSize = StartOf(Len(content) + 1)
      /\ ToRead \in 0 .. Len(content) /\ ToSkip \in 0 .. ToRead
      /\ \A j \in 1 .. ToRead : j <= ToSkip <=> content[j].lsn < start_lsn
  BY <1>1, Items, Layout, Shape
<1>7. CASE i = Len(content) + 1
  <2>1. pos = FileSize /\ ~CanRead(pos, HEAD_SIZE)
    BY <1>5, <1>6, <1>7 DEF CanRead
  <2>2. pc' = "iterate" /\ rc' = "NONE" /\ pos' = pos
    BY <1>3, <1>6, <2>1 DEF GoToEof, GoToFound, GoToInvalid, GoToSkip
  <2>3. \A j \in 1 .. Len(content) : Whole(content[j]) /\ content[j].lsn < start_lsn
    BY <1>5, <1>6, <1>7 DEF Aligned
  <2>4. Torn = {}
    BY <2>3 DEF Torn
  <2>5. ToRead = Len(content) /\ ToSkip = ToRead
    BY <1>1, <1>6, <2>3, <2>4, Shape
  <2>6. InIterate'
    BY <1>2, <1>4, <1>6, <2>1, <2>2, <2>4, <2>5 DEF InIterate, HeadersTorn
  <2>. QED
    BY <1>4, <2>2, <2>6 DEF Route, Outcomes
<1>8. CASE i \in 1 .. Len(content)
  <2>1. /\ pos + content[i].put <= FileSize
        /\ i = Len(content) => pos + content[i].put = FileSize
        /\ pos \in Nat /\ content[i].put \in Nat \ {0} /\ content[i].size \in Nat
        /\ content[i].lsn \in Int
        /\ Whole(content[i]) <=> content[i].put = HEAD_SIZE + content[i].size
        /\ Fits(content[i].size)
        /\ StartOf(i + 1) = pos + content[i].put
    BY <1>1, <1>5, <1>8, Ends, Items, Layout
  <2>2. ~Whole(content[i]) => i = Len(content) /\ Torn = {i} /\ ToRead = i - 1
    BY <1>1, <1>8, Shape DEF Torn, CleanTail
  <2>3. content[i].lsn < start_lsn => Whole(content[i]) /\ content[i].size = HEAD_SIZE
    BY <1>8 DEF Aligned
  <2>4. CASE GoToEof
    <3>1. pos + HEAD_SIZE > FileSize
      BY <1>6, <2>1, <2>4 DEF GoToEof, CanRead
    <3>2. content[i].put < HEAD_SIZE
      BY <1>6, <2>1, <3>1
    <3>n. ~Whole(content[i])
      BY <1>6, <2>1, <3>2
    <3>3. ~Whole(content[i]) /\ content[i].lsn >= start_lsn
      BY <1>1, <2>1, <2>3, <3>n
    <3>4. ToSkip = i - 1
      BY <1>1, <1>5, <1>8, <3>3, FoundAt
    <3>5. HeadersTorn /\ Len(delivered) = ToRead - ToSkip
      BY <1>3, <1>6, <2>2, <3>2, <3>3, <3>4 DEF HeadersTorn
    <3>6. pos' = FileSize /\ pc' = "iterate" /\ rc' = "NONE"
      BY <1>3, <1>6, <2>1, <2>2, <2>4, <3>3 DEF GoToEof
    <3>7. InIterate'
      BY <1>1, <1>2, <3>5, <3>6 DEF InIterate
    <3>. QED
      BY <1>4, <3>6, <3>7 DEF Route, Outcomes
  <2>5. CASE GoToFound \/ GoToInvalid \/ GoToSkip
    <3>1. pos + HEAD_SIZE <= FileSize
      BY <2>5 DEF GoToFound, GoToInvalid, GoToSkip, CanRead
    <3>2. content[i].put >= HEAD_SIZE
      BY <1>6, <2>1, <2>2, <3>1
    <3>3. \A h : IsHeader(pos, h) => h.lsn = content[i].lsn /\ h.size = content[i].size
      BY <1>1, <1>5, <1>8, <3>2, HeaderRead
    <3>4. CASE GoToFound
      <4>1. content[i].lsn >= start_lsn /\ pc' = "iterate" /\ rc' = "NONE" /\ pos' = pos
        BY <1>3, <3>3, <3>4 DEF GoToFound
      <4>2. ToSkip = i - 1
        BY <1>1, <1>5, <1>8, <4>1, FoundAt
      <4>3. i = ToSkip + Len(delivered) + 1
        BY <1>3, <1>8, <4>2
      <4>4. InIterate'
        BY <1>1, <1>2, <1>5, <4>1, <4>3 DEF InIterate
      <4>. QED
        BY <1>4, <4>1, <4>4 DEF Route, Outcomes
    <3>5. CASE GoToInvalid
      <4>1. content[i].lsn < start_lsn /\ (content[i].size < 0 \/ ~Fits(content[i].size))
        BY <3>3, <3>5 DEF GoToInvalid
      <4>. QED
        BY <2>1, <4>1
    <3>6. CASE GoToSkip
      <4>1. content[i].lsn < start_lsn /\ pc' = "go_to" /\ rc' = "NONE"
            /\ pos' = pos + HEAD_SIZE + HEAD_SIZE
        BY <1>1, <1>3, <3>3, <3>6 DEF GoToSkip
      <4>2. pos' = StartOf(i + 1)
        BY <1>6, <2>1, <2>3, <4>1
      <4>3. i + 1 \in 1 .. Len(content) + 1
            /\ \A j \in 1 .. (i + 1) - 1 : content[j].lsn < start_lsn
        BY <1>5, <1>6, <1>8, <4>1
      <4>4. InGoTo'
        BY <1>1, <1>2, <1>4, <4>1, <4>2, <4>3 DEF InGoTo
      <4>. QED
        BY <1>4, <4>1, <4>4 DEF Route, Outcomes
    <3>. QED
      BY <2>5, <3>4, <3>5, <3>6
  <2>. QED
    BY <2>4, <2>5
<1>. QED
  BY <1>5, <1>6, <1>7, <1>8

(* The steps of the loop of iterate().                                     *)
LEMMA RouteIterate ==
    ASSUME ReaderTypeOK, Route,
           \/ IterateEof \/ IterateThrows \/ IterateShort
           \/ \E code \in {"SUCCESS", "CALLBACK"} : IterateDeliver(code)
    PROVE  Route'
<1>1. pc = "iterate" /\ UNCHANGED <<content, start_lsn>> /\ content \in Contents
      /\ start_lsn \in Int
  BY StartAssumption DEF IterateEof, IterateThrows, IterateShort, IterateDeliver, ReaderTypeOK
<1>2. /\ Aligned' <=> Aligned
      /\ CleanTail' <=> CleanTail
      /\ ToRead' = ToRead /\ ToSkip' = ToSkip /\ FileSize' = FileSize /\ Torn' = Torn
      /\ HeadersTorn' <=> HeadersTorn
      /\ \A j : StartOf(j)' = StartOf(j) /\ EntryAt(j)' = EntryAt(j)
  BY <1>1, SameFile
<1>. SUFFICES ASSUME Aligned, CleanTail PROVE Route'
  BY <1>2 DEF Route
<1>. DEFINE c == Len(delivered)
<1>3. /\ rc = "NONE" /\ c \in Nat /\ c <= ToRead - ToSkip
      /\ \A m \in 1 .. c : delivered[m] = EntryAt(ToSkip + m)
      /\ delivered \in Seq([lsn : Int, size : Nat, at : Nat])
  BY <1>1 DEF Route, InIterate, SoFar, ReaderTypeOK
<1>4. UNCHANGED delivered => SoFar'
  BY <1>2, <1>3 DEF SoFar
<1>5. /\ HEAD_SIZE \in Nat \ {0} /\ Len(content) \in Nat /\ FileSize \in Nat
      /\ FileSize = StartOf(Len(content) + 1)
      /\ ToRead \in 0 .. Len(content) /\ ToSkip \in 0 .. ToRead
  BY <1>1, Items, Layout, Shape
<1>. HIDE DEF c
<1>6. ASSUME pos = FileSize, c = ToRead - ToSkip, HeadersTorn
      PROVE  Route'
  <2>1. ~CanRead(pos, HEAD_SIZE)
    BY <1>5, <1>6 DEF CanRead
  <2>2. IterateEof
    BY <2>1 DEF IterateThrows, IterateShort, IterateDeliver
  <2>3. pc' = "idle" /\ rc' = "SUCCESS" /\ UNCHANGED delivered
    BY <2>2 DEF IterateEof, Return
  <2>4. Len(delivered') = ToRead - ToSkip
    BY <1>6, <2>3 DEF c
  <2>5. Outcomes'
    BY <1>2, <1>6, <2>3, <2>4 DEF Outcomes
  <2>. QED
    BY <1>4, <2>3, <2>5 DEF Route
<1>7. ASSUME NEW i \in 1 .. Len(content) + 1, i = ToSkip + c + 1, pos = StartOf(i)
      PROVE  Route'
  <2>1. CASE i = Len(content) + 1
    <3>1. pos = FileSize
      BY <1>5, <1>7, <2>1
    <3>2. ToRead = Len(content) /\ c = ToRead - ToSkip
      BY <1>3, <1>5, <1>7, <2>1
    <3>3. Torn = {}
      BY <1>1, <1>5, <3>2, Shape
    <3>. QED
      BY <1>6, <3>1, <3>2, <3>3 DEF HeadersTorn
  <2>2. CASE i \in 1 .. Len(content)
    <3>1. /\ pos + content[i].put <= FileSize
          /\ i = Len(content) => pos + content[i].put = FileSize
          /\ pos \in Nat /\ content[i].put \in Nat \ {0} /\ content[i].size \in Nat
          /\ content[i].put <= HEAD_SIZE + content[i].size
          /\ Whole(content[i]) <=> content[i].put = HEAD_SIZE + content[i].size
          /\ Fits(content[i].size)
          /\ StartOf(i + 1) = pos + content[i].put
      BY <1>1, <1>7, <2>2, Ends, Items, Layout
    <3>2. \/ Whole(content[i]) /\ i <= ToRead /\ c + 1 <= ToRead - ToSkip
          \/ /\ ~Whole(content[i]) /\ i = Len(content) /\ Torn = {i}
             /\ c = ToRead - ToSkip
      <4>1. \/ ToRead = Len(content) /\ Torn = {}
            \/ ToRead = Len(content) - 1 /\ Torn = {Len(content)}
        BY <1>1, Shape
      <4>2. Whole(content[i]) <=> i \notin Torn
        BY <2>2 DEF Torn
      <4>. QED
        BY <1>3, <1>5, <1>7, <2>2, <4>1, <4>2
    <3>3. content[i].put >= HEAD_SIZE =>
             \A h : IsHeader(pos, h) => h.lsn = content[i].lsn /\ h.size = content[i].size
      BY <1>1, <1>7, <2>2, HeaderRead
    <3>4. pos + HEAD_SIZE <= FileSize <=> content[i].put >= HEAD_SIZE
      BY <1>5, <3>1, <3>2
    <3>5. pos + (HEAD_SIZE + content[i].size) <= FileSize <=> Whole(content[i])
      <4>1. /\ HEAD_SIZE \in Int /\ FileSize \in Int /\ pos \in Int
            /\ content[i].put \in Int /\ content[i].size \in Int
        BY <1>5, <3>1
      <4>2. Whole(content[i]) => pos + (HEAD_SIZE + content[i].size) <= FileSize
        BY <3>1
      <4>3. ~Whole(content[i]) => /\ pos + content[i].put = FileSize
                                 /\ content[i].put # HEAD_SIZE + content[i].size
        BY <3>1, <3>2
      <4>4. ~Whole(content[i]) => pos + (HEAD_SIZE + content[i].size) > FileSize
        BY <3>1, <4>1, <4>3
      <4>. QED
        BY <4>1, <4>2, <4>4
    <3>6. CASE IterateEof
      <4>1. content[i].put < HEAD_SIZE
        BY <1>5, <3>1, <3>4, <3>6 DEF IterateEof, CanRead
      <4>2. ~Whole(content[i]) /\ Torn = {i} /\ c = ToRead - ToSkip
        BY <1>5, <3>1, <3>2, <4>1
      <4>3. HeadersTorn
        BY <4>1, <4>2 DEF HeadersTorn
      <4>4. pc' = "idle" /\ rc' = "SUCCESS" /\ UNCHANGED delivered
        BY <3>6 DEF IterateEof, Return
      <4>5. Len(delivered') = ToRead - ToSkip
        BY <4>2, <4>4 DEF c
      <4>6. Outcomes'
        BY <1>2, <4>3, <4>4, <4>5 DEF Outcomes
      <4>. QED
        BY <1>4, <4>4, <4>6 DEF Route
    <3>7. CASE IterateThrows
      <4>1. content[i].size < 0
        BY <3>3, <3>4, <3>7 DEF IterateThrows, CanRead
      <4>. QED
        BY <3>1, <4>1
    <3>8. CASE IterateShort
      <4>1. ~Whole(content[i])
        BY <3>3, <3>4, <3>5, <3>8 DEF IterateShort, CanRead
      <4>2. pc' = "idle" /\ rc' = "IOERR_READ" /\ UNCHANGED delivered
        BY <3>8 DEF IterateShort, Return
      <4>3. Len(delivered') = ToRead - ToSkip /\ Torn # {}
        BY <3>2, <4>1, <4>2 DEF c
      <4>4. Outcomes'
        BY <1>2, <4>2, <4>3 DEF Outcomes
      <4>. QED
        BY <1>4, <4>2, <4>4 DEF Route
    <3>9. ASSUME NEW code \in {"SUCCESS", "CALLBACK"}, IterateDeliver(code)
          PROVE  Route'
      <4>1. PICK h \in Headers :
                /\ IsHeader(pos, h) /\ CanRead(pos, HEAD_SIZE + h.size)
                /\ delivered' = Append(delivered, [lsn |-> EntryOf(h).lsn,
                                                   size |-> EntryOf(h).size, at |-> pos])
                /\ pos' = pos + HEAD_SIZE + h.size
        BY <3>9 DEF IterateDeliver
      <4>2. h.lsn = content[i].lsn /\ h.size = content[i].size
        BY <3>3, <3>4, <3>9, <4>1 DEF IterateDeliver, CanRead
      <4>3. Whole(content[i]) /\ c + 1 <= ToRead - ToSkip
        BY <3>2, <3>5, <4>1, <4>2 DEF CanRead
      <4>4. EntryOf(h) = h
        BY <3>1, <4>2 DEF EntryOf
      <4>5. delivered' = Append(delivered, EntryAt(i))
        BY <1>7, <4>1, <4>2, <4>4 DEF EntryAt
      <4>6. /\ Len(delivered') = c + 1
            /\ \A m \in 1 .. c + 1 : delivered'[m] = EntryAt(ToSkip + m)
        <5>1. /\ Len(delivered') = c + 1
              /\ \A m \in 1 .. c : delivered'[m] = delivered[m]
              /\ delivered'[c + 1] = EntryAt(i)
          BY <1>3, <4>5 DEF c
        <5>2. ToSkip + (c + 1) = i
          BY <1>3, <1>5, <1>7
        <5>3. \A m \in 1 .. c + 1 : m \in 1 .. c \/ m = c + 1
          BY <1>3
        <5>. QED
          BY <1>3, <5>1, <5>2, <5>3
      <4>7. SoFar'
        BY <1>2, <4>3, <4>6 DEF SoFar
      <4>8. CASE code = "CALLBACK"
        <5>1. pc' = "idle" /\ rc' = "CALLBACK"
          BY <3>9, <4>8 DEF IterateDeliver, Return
        <5>. QED
          BY <4>7, <5>1 DEF Route, Outcomes
      <4>9. CASE code = "SUCCESS"
        <5>1. pc' = "iterate" /\ rc' = "NONE"
          BY <1>1, <1>3, <3>9, <4>9 DEF IterateDeliver
        <5>2. pos' = StartOf(i + 1)
          <6>1. pos' = pos + HEAD_SIZE + content[i].size
            BY <4>1, <4>2
          <6>2. content[i].put = HEAD_SIZE + content[i].size
            BY <3>1, <4>3
          <6>. QED
            BY <1>5, <3>1, <6>1, <6>2
        <5>3. i + 1 \in 1 .. Len(content) + 1 /\ i + 1 = ToSkip + Len(delivered') + 1
          <6>1. ToSkip \in Int /\ c \in Int /\ i \in Int /\ i = ToSkip + c + 1 /\ Len(delivered') = c + 1
            BY <1>3, <1>5, <1>7, <4>6
          <6>. QED
            BY <1>5, <2>2, <6>1
        <5>4. InIterate'
          BY <1>1, <1>2, <5>1, <5>2, <5>3 DEF InIterate
        <5>. QED
          BY <4>7, <5>1, <5>4 DEF Route, Outcomes
      <4>. QED
        BY <4>8, <4>9
    <3>. QED
      BY <3>6, <3>7, <3>8, <3>9
  <2>. QED
    BY <1>5, <1>7, <2>1, <2>2
<1>8. InIterate
  BY <1>1 DEF Route
<1>. QED
  BY <1>6, <1>7, <1>8 DEF InIterate, c

(* Every step keeps to the route.                                          *)
LEMMA StepRoute == ReaderTypeOK /\ Route /\ [ReaderNext]_reader_vars => Route'
<1>. SUFFICES ASSUME ReaderTypeOK, Route, [ReaderNext]_reader_vars PROVE Route'
  OBVIOUS
<1>1. CASE UNCHANGED <<content, start_lsn, delivered, rc>> /\ pc' \in {"idle", "closed"}
  BY <1>1, SameFile DEF Route, SoFar, Outcomes
<1>2. CASE UNCHANGED reader_vars
  <2>1. UNCHANGED <<content, start_lsn, delivered, rc, pos, pc>>
    BY <1>2 DEF reader_vars
  <2>. QED
    BY <2>1, SameFile DEF Route, SoFar, Outcomes, InGoTo, InIterate
<1>3. CASE IterateClosed
  <2>1. UNCHANGED <<content, start_lsn>> /\ pc' = "closed" /\ rc' = "FILE_NOT_FOUND"
        /\ delivered' = <<>> /\ content \in Contents /\ start_lsn \in Int
    BY <1>3, StartAssumption DEF IterateClosed, ReaderTypeOK
  <2>2. Len(delivered') = 0
    BY <2>1
  <2>3. ASSUME CleanTail PROVE SoFar'
    <3>1. ToRead - ToSkip >= 0 /\ ToRead' = ToRead /\ ToSkip' = ToSkip
      BY <2>1, <2>3, Shape, SameFile, Items
    <3>. QED
      BY <2>2, <3>1 DEF SoFar
  <2>4. Outcomes'
    BY <2>1 DEF Outcomes
  <2>. QED
    BY <2>1, <2>3, <2>4, SameFile DEF Route
<1>4. CASE ReaderOpen \/ ReaderClose
  BY <1>1, <1>4 DEF ReaderOpen, ReaderClose
<1>. QED
  BY <1>2, <1>3, <1>4, RouteStarts, RouteGoTo, RouteIterate DEF ReaderNext, Running

(* It holds throughout.                                                    *)
LEMMA RInvHolds == ReaderSpec => []RInv
<1>1. ReaderInit => RInv
  BY InitType, InitRoute DEF RInv
<1>2. RInv /\ [ReaderNext]_reader_vars => RInv'
  BY StepType, StepRoute DEF RInv
<1>. QED
  BY <1>1, <1>2, PTL DEF ReaderSpec

-----------------------------------------------------------------------------
(* From any file that ends at most with a fragment iterate() delivers the  *)
(* wanted entries, complete, in order and nothing else; SUCCESS means all  *)
(* of them.                                                                *)
THEOREM RecoveryDelivers == ReaderSpec => []DeliversWanted
<1>1. ASSUME RInv PROVE DeliversWanted
  <2>. SUFFICES ASSUME Aligned, CleanTail
                PROVE  /\ IsPrefix(delivered, Wanted)
                       /\ rc \in {"SUCCESS", "IOERR_READ"} => delivered = Wanted
                       /\ rc = "IOERR_READ" => Torn # {}
                       /\ rc # "length_error"
    BY DEF DeliversWanted
  <2>. DEFINE c == Len(delivered)
  <2>1. /\ c \in Nat /\ c <= ToRead - ToSkip
        /\ \A m \in 1 .. c : delivered[m] = EntryAt(ToSkip + m)
        /\ delivered \in Seq([lsn : Int, size : Nat, at : Nat])
        /\ Outcomes /\ content \in Contents /\ start_lsn \in Int
    BY <1>1, StartAssumption DEF RInv, Route, SoFar, ReaderTypeOK
  <2>2. ToRead - ToSkip \in Nat /\ Wanted = [m \in 1 .. ToRead - ToSkip |-> EntryAt(ToSkip + m)]
    BY <2>1, Shape, Items
  <2>3. DOMAIN delivered = 1 .. c /\ delivered = [m \in 1 .. c |-> delivered[m]]
    BY <2>1
  <2>4. Len(Wanted) = ToRead - ToSkip
    BY <2>2
  <2>5. SubSeq(delivered, 1, c) = SubSeq(Wanted, 1, c)
    <3>1. \A m \in 1 .. c : delivered[m] = Wanted[m]
      BY <2>1, <2>2
    <3>2. /\ SubSeq(delivered, 1, c) = [m \in 1 .. c |-> delivered[m]]
          /\ SubSeq(Wanted, 1, c) = [m \in 1 .. c |-> Wanted[m]]
      BY <2>1, <2>2, <2>4
    <3>. QED
      BY <3>1, <3>2
  <2>6. IsPrefix(delivered, Wanted)
    BY <2>1, <2>4, <2>5 DEF IsPrefix
  <2>7. c = ToRead - ToSkip => delivered = Wanted
    BY <2>1, <2>2, <2>3
  <2>. QED
    BY <2>1, <2>6, <2>7 DEF Outcomes
<1>. QED
  BY <1>1, RInvHolds, PTL

(* A payload that is torn at the end of the file is never passed over with *)
(* SUCCESS.                                                                *)
THEOREM TornIsReported == ReaderSpec => []TornPayloadReported
<1>1. ASSUME RInv PROVE TornPayloadReported
  <2>. SUFFICES ASSUME NEW i \in Torn, Aligned, CleanTail, content[i].put >= HEAD_SIZE
                PROVE  rc # "SUCCESS"
    BY DEF TornPayloadReported
  <2>1. content[i].put \in Int /\ HEAD_SIZE \in Int
    BY <1>1, Items DEF RInv, ReaderTypeOK, Torn
  <2>. QED
    BY <1>1, <2>1 DEF RInv, Route, Outcomes, HeadersTorn
<1>. QED
  BY <1>1, RInvHolds, PTL
=============================================================================
