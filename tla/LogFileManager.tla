--------------------------- MODULE LogFileManager ---------------------------
(***************************************************************************)
(* The directory of log files: class LogFileManager of                     *)
(* storage/clog/log_file.{h,cpp}, with the process that starts, writes     *)
(* entries with consecutive LSNs, changes the file when write() reports    *)
(* FILE_FULL, and stops and starts again.                                  *)
(*                                                                         *)
(* A file is named by the LSN in its name: clog_<n>.log is the number n    *)
(* (get_lsn_from_filename()).                                              *)
(*                                                                         *)
(* The log handler that owns the manager is not in the repository.  What   *)
(* it does here is the least the interface asks of it: init(), last_file() *)
(* or else, on FILE_NOT_FOUND, next_file(); write() with one LSN after the *)
(* other, again when it fails; and next_file() when a file is full.        *)
(***************************************************************************)
EXTENDS LogFileWriter, FiniteSetsExt

CONSTANTS
    max_entry_number_per_file,   \* the number init() is called with
    Payload,                     \* payload sizes
    MaxLsn,                      \* bound: the last LSN written
    MaxStarts                    \* bound: how often the process starts

ASSUME NameAssumption    == FileName \subseteq Nat
ASSUME PerFileAssumption == max_entry_number_per_file \in Nat \ {0}
ASSUME PayloadAssumption == Payload \subseteq 0 .. max_payload_size
ASSUME BoundAssumption   == MaxLsn \in Nat /\ MaxStarts \in Nat

VARIABLES
    m_log_files,   \* the files the manager knows
    phase,         \* of the process: "down" | "start" | "rotate" | "write"
    next_lsn,      \* LSN of the next entry
    starts,        \* how often the process started
    skipped        \* the files begun because last_file() failed (history)

vars == <<files, created, writer, io_errors, m_log_files, phase, next_lsn, starts, skipped>>

N == max_entry_number_per_file

TypeOK ==
    /\ WriterTypeOK
    /\ m_log_files \subseteq created
    /\ phase \in {"down", "start", "rotate", "write"}
    /\ phase = "write" => is_open
    /\ next_lsn \in 1 .. MaxLsn + 1
    /\ starts \in 0 .. MaxStarts
    /\ skipped \subseteq Nat

Init ==
    /\ WriterInit
    /\ m_log_files = {}
    /\ phase = "down"
    /\ next_lsn = 1
    /\ starts = 0
    /\ skipped = {}

-----------------------------------------------------------------------------
(* init() of a new manager: it knows the files that are in the directory.  *)
Start ==
    /\ phase = "down"
    /\ starts < MaxStarts
    /\ starts' = starts + 1
    /\ m_log_files' = created
    /\ phase' = "start"
    /\ UNCHANGED <<writer_vars, next_lsn, skipped>>

(* The process ends between two writes; manager and writer are gone.       *)
Stop ==
    /\ phase # "down"
    /\ phase' = "down"
    /\ writer' = [file |-> NoFile, last_lsn |-> 0, end_lsn |-> 0]
    /\ m_log_files' = {}
    /\ UNCHANGED <<files, created, io_errors, next_lsn, starts, skipped>>

(* Mutant: a file that begins at start_lsn is left out.                    *)
ListedAfter(start_lsn) == {n \in m_log_files : n > start_lsn}

(* list_files(), in the order of the map.                                  *)
Listed(start_lsn) == {n \in m_log_files : n >= start_lsn}

NextName == IF m_log_files = {} THEN 0 ELSE Max(m_log_files) + N

(* Mutant: begin() of the map in the place of rbegin().                    *)
FirstFile ==
    /\ phase = "start"
    /\ IF m_log_files = {}
       THEN phase' = "rotate" /\ UNCHANGED writer_vars
       ELSE /\ Open(Min(m_log_files), Min(m_log_files) + N)
            /\ phase' = "write"
    /\ UNCHANGED <<m_log_files, next_lsn, starts, skipped>>

(* last_file(): FILE_NOT_FOUND when the manager knows no file.             *)
LastFile ==
    /\ phase = "start"
    /\ IF m_log_files = {}
       THEN phase' = "rotate" /\ UNCHANGED writer_vars
       ELSE /\ Open(Max(m_log_files), Max(m_log_files) + N)
            /\ phase' = "write"
    /\ UNCHANGED <<m_log_files, next_lsn, starts, skipped>>

(* last_file(): open(2) fails.  The result is FILE_NOT_FOUND as well, and  *)
(* the process takes the directory to be empty.                            *)
LastFileFails ==
    /\ phase = "start" /\ m_log_files # {}
    /\ io_errors < MaxIoErrors
    /\ io_errors' = io_errors + 1
    /\ skipped' = skipped \cup {NextName}
    /\ phase' = "rotate"
    /\ UNCHANGED <<files, created, writer, m_log_files, next_lsn, starts>>

(* next_file(): close, then open.  The map stays as it is.                 *)
NextFile ==
    /\ phase = "rotate"
    /\ NextName \in FileName
    /\ created' = created \cup {NextName}
    /\ writer' = [writer EXCEPT !.file = NextName, !.end_lsn = NextName + N]
    /\ phase' = "write"
    /\ UNCHANGED <<files, io_errors, m_log_files, next_lsn, starts, skipped>>

(* Mutant: the result of open(2) is not looked at.                         *)
NextFileFailsUnseen ==
    /\ phase = "rotate"
    /\ io_errors < MaxIoErrors
    /\ io_errors' = io_errors + 1
    /\ writer' = [writer EXCEPT !.file = NoFile]
    /\ phase' = "write"
    /\ UNCHANGED <<files, created, m_log_files, next_lsn, starts, skipped>>

(* next_file(): open(2) fails, the writer stays closed.                    *)
NextFileFails ==
    /\ phase = "rotate"
    /\ io_errors < MaxIoErrors
    /\ io_errors' = io_errors + 1
    /\ writer' = [writer EXCEPT !.file = NoFile]
    /\ UNCHANGED <<files, created, m_log_files, phase, next_lsn, starts, skipped>>

(* The process writes the next entry.                                      *)
WriteNext(size) ==
    /\ phase = "write"
    /\ next_lsn <= MaxLsn
    /\ LET e == [lsn |-> next_lsn, size |-> size]
       IN  \/ WriteDone(e) /\ next_lsn' = next_lsn + 1 /\ UNCHANGED phase
           \/ WriteTorn(e) /\ UNCHANGED <<next_lsn, phase>>
    /\ UNCHANGED <<m_log_files, starts, skipped>>

(* write() reported FILE_FULL: the process turns to next_file().           *)
WriteFull ==
    /\ phase = "write"
    /\ next_lsn <= MaxLsn
    /\ WriteRefused([lsn |-> next_lsn, size |-> 0])
    /\ phase' = "rotate"
    /\ UNCHANGED <<m_log_files, next_lsn, starts, skipped>>

Next ==
    \/ Start \/ Stop \/ LastFile \/ LastFileFails \/ NextFile \/ NextFileFails \/ WriteFull
    \/ \E size \in Payload : WriteNext(size)

Spec == Init /\ [][Next]_vars

-----------------------------------------------------------------------------
(* The LSNs that are readable in full in file n.                           *)
LsnsIn(n) == {files[n][i].lsn : i \in {j \in 1 .. Len(files[n]) : Whole(files[n][j])}}

(* The name of a file tells which LSNs are in it: recovery and list_files  *)
(* go by the name.  A file that was begun because last_file() failed may   *)
(* hold smaller ones, which were due in the file before (last_file(),      *)
(* next_file(), write()).                                                  *)
RangeByName ==
    \A n \in FileName : \A lsn \in LsnsIn(n) :
        lsn < n + N /\ (lsn >= n \/ n \in skipped)

(* The files follow one another without a gap between their names, and the *)
(* next is begun when the one before holds every LSN of its range, over    *)
(* rotations, restarts and failing calls, although the map is that of the  *)
(* last start; unless last_file() failed (init(), last_file(),             *)
(* next_file(), write()).                                                  *)
FilesTile ==
    \A n \in created \ {0} :
        /\ n - N \in created
        /\ n \notin skipped => (n - N .. n - 1) \ {0} \subseteq LsnsIn(n - N)

(* The files that hold an entry from start_lsn on.                         *)
Needed(start_lsn) == {n \in created : \E lsn \in LsnsIn(n) : lsn >= start_lsn}

(* Of the files in the directory that are needed, list_files(start_lsn)    *)
(* leaves out two at most: the one that start_lsn falls into, and once     *)
(* next_file() was called the one it made, which the map does not have     *)
(* (init(), list_files(), next_file()).                                    *)
ListMissesTwo ==
    phase # "down" => \A start_lsn \in 0 .. MaxLsn :
        \A n \in Needed(start_lsn) \ Listed(start_lsn) :
            \/ n < start_lsn /\ start_lsn < n + N
            \/ n = NextName /\ phase # "start"

-----------------------------------------------------------------------------
(* What the comments and tests say and the code does not do.               *)

(* "list the log files", "start_lsn: the first LSN" (log_file.h:118-120):  *)
(* the files listed for an LSN hold all that is stored from it on.         *)
ListCovers ==
    phase # "down" => \A start_lsn \in 0 .. MaxLsn : Needed(start_lsn) \subseteq Listed(start_lsn)

(* "get the next file" (log_file_test.cpp:124): where next_file() is       *)
(* called, the file it opens takes the entry that the last one was too     *)
(* full for.                                                               *)
NextFileHasRoom == phase = "rotate" => next_lsn < NextName + N
=============================================================================
