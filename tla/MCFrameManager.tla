--------------------------- MODULE MCFrameManager ---------------------------
(* FrameManager with three pages in two files and two frames.              *)
EXTENDS FrameManager

MCPageId == [buffer_pool_id : {1}, page_num : {0, 1}] \cup [buffer_pool_id : {2}, page_num : {0}]

(* Threads run the same code and no property tells them apart.             *)
ThreadSymmetry == Permutations(Thread)
=============================================================================
