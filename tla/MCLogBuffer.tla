---------------------------- MODULE MCLogBuffer ----------------------------
(* LogBuffer with small sets of threads for TLC.                           *)
EXTENDS LogBuffer

(* Threads of one kind run the same code, and no safety property tells     *)
(* them apart.  Not used where a liveness property is checked.             *)
ThreadSymmetry == Permutations(Appender) \cup Permutations(Flusher)
=============================================================================
