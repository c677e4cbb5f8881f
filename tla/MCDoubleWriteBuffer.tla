------------------------ MODULE MCDoubleWriteBuffer ------------------------
(* DoubleWriteBuffer with three pages and a buffer of two.                 *)
EXTENDS DoubleWriteBuffer, TLC

(* The buffer treats all pages alike, and no property tells them apart.    *)
KeySymmetry == Permutations(Key)
=============================================================================
