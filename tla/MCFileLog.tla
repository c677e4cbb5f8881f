----------------------------- MODULE MCFileLog -----------------------------
(* FileLog with two threads, two appenders on one file name and four       *)
(* events, one of them below the level and one longer than the others.     *)
EXTENDS FileLog

MCLineSize == [e \in Event |-> IF e = 3 THEN 2 ELSE 1]
=============================================================================
