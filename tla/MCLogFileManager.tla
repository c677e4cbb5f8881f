-------------------------- MODULE MCLogFileManager --------------------------
(* LogFileManager with files of two entries and three process lifetimes.   *)
EXTENDS LogFileManager
=============================================================================
