----------------------------- MODULE MCMatrixRank -----------------------------
(* All 65536 matrices of size 4: in size 4 a pass can miss a pivot and find  *)
(* others both before and after it.                                          *)
EXTENDS MatrixRank
=============================================================================
