--------------------------- MODULE LogFileWriter ---------------------------
(***************************************************************************)
(* The append-only log file of the commit log and the object that writes   *)
(* it: class LogFileWriter of storage/clog/log_file.{h,cpp}, the entries   *)
(* of LogEntry and the loop writen() of common/io/io.cpp.                  *)
(*                                                                         *)
(* The module has the operations only; LogBuffer and LogFileManager, whose *)
(* code calls them, have the specifications.                               *)
(***************************************************************************)
EXTENDS LogEntry, Sequences, FiniteSets

CONSTANTS
    FileName,     \* the names a log file can have
    NoFile,       \* what m_fd = -1 is here: no file is open
    MaxIoErrors   \* bound: how many write(2) calls fail in a behaviour

ASSUME NoFileAssumption   == NoFile \notin FileName
ASSUME IoErrorsAssumption == MaxIoErrors \in Nat

VARIABLES
    files,       \* what is in each file, <<>> for a file never opened
    created,     \* the files that exist in the directory
    writer,      \* the LogFileWriter object
    io_errors    \* write(2) calls that failed so far

writer_vars == <<files, created, writer, io_errors>>

(* The LSNs that are readable in full in some file.                        *)
StoredIn(fs) ==
    UNION { {fs[n][i].lsn : i \in {j \in 1 .. Len(fs[n]) : Whole(fs[n][j])}}
            : n \in FileName }
Stored == StoredIn(files)

Writer == [file : FileName \cup {NoFile}, last_lsn : Int, end_lsn : Int]

WriterTypeOK ==
    /\ files \in [FileName -> Seq(Item)]
    /\ created \subseteq FileName
    /\ writer \in Writer
    /\ io_errors \in 0 .. MaxIoErrors

WriterInit ==
    /\ files = [n \in FileName |-> <<>>]
    /\ created = {}
    /\ writer = [file |-> NoFile, last_lsn |-> 0, end_lsn |-> 0]
    /\ io_errors = 0

is_open == writer.file # NoFile
is_full == writer.last_lsn >= writer.end_lsn

-----------------------------------------------------------------------------
(* open(): refused when a file is open already (FILE_OPEND); an existing   *)
(* file keeps its content, and the writer keeps its last_lsn.              *)
Open(name, end_lsn) ==
    /\ ~is_open
    /\ created' = created \cup {name}
    /\ writer' = [writer EXCEPT !.file = name, !.end_lsn = end_lsn]
    /\ UNCHANGED <<files, io_errors>>

(* close(): last_lsn and end_lsn stay.                                     *)
Close ==
    /\ writer' = [writer EXCEPT !.file = NoFile]
    /\ UNCHANGED <<files, created, io_errors>>

-----------------------------------------------------------------------------
(* Mutant: the entry at end_lsn is accepted too.                           *)
RefusesLate(e) == ~is_open \/ e.lsn > writer.end_lsn

(* write() returns before it touches the file.                             *)
Refuses(e) == ~is_open \/ e.lsn >= writer.end_lsn

WriteRefused(e) ==
    /\ Refuses(e)
    /\ UNCHANGED writer_vars

(* Header and payload reach the file in full.                              *)
WriteDone(e) ==
    /\ ~Refuses(e)
    /\ files' = [files EXCEPT ![writer.file] = Append(@, ItemOf(e, total_size(e)))]
    /\ writer' = [writer EXCEPT !.last_lsn = e.lsn]
    /\ UNCHANGED <<created, io_errors>>

(* Mutant: the error is reported for an entry that is complete in the file.*)
WriteTornWhole(e) ==
    /\ ~Refuses(e)
    /\ io_errors < MaxIoErrors
    /\ io_errors' = io_errors + 1
    /\ \E n \in 1 .. total_size(e) :
          files' = [files EXCEPT ![writer.file] = Append(@, ItemOf(e, n))]
    /\ UNCHANGED <<created, writer>>

(* writen() gives up after n bytes of header and payload (IOERR_WRITE):    *)
(* what it wrote stays.                                                    *)
WriteTorn(e) ==
    /\ ~Refuses(e)
    /\ io_errors < MaxIoErrors
    /\ io_errors' = io_errors + 1
    /\ \E n \in 0 .. total_size(e) - 1 :
          files' = IF n = 0 THEN files
                   ELSE [files EXCEPT ![writer.file] = Append(@, ItemOf(e, n))]
    /\ UNCHANGED <<created, writer>>

WriteFails(e) == WriteRefused(e) \/ WriteTorn(e)
=============================================================================
