----------------------------- MODULE MCRandomWalk -----------------------------
(* All walks of 12 steps: the shortest that visit a state five times in one  *)
(* of two cycles, so that the last row of nu is used and the constraint on   *)
(* the number of cycles, 2 here, is both met and missed.                     *)
EXTENDS RandomWalk
=============================================================================
