----------------------------- MODULE MCMemPool -----------------------------
(* MemPool with two threads, pools of two items and one stray call.        *)
EXTENDS MemPool, TLC

MCPoolNum == {0, 1}

(* Threads run the same code and no property tells them apart.             *)
ThreadSymmetry == Permutations(Thread)
=============================================================================
