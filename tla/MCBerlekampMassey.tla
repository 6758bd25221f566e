-------------------------- MODULE MCBerlekampMassey --------------------------
(* Instances of BerlekampMassey for TLC: every block of MCBlockLength bits,  *)
(* and a second block of any content after the first, so that the state each *)
(* block starts from is exercised too.                                       *)
EXTENDS BerlekampMassey

MCBlockLength == 8
MCNumBlocks == 2
=============================================================================
