---------------------------- MODULE MC_Transpose ----------------------------
(* Matrices that are not square, the larger side either way.               *)
EXTENDS Transpose
=============================================================================
