------------------------------ MODULE MCLogin ------------------------------
(* Login on one to three goroutines.                                       *)
EXTENDS Login, TLC

CONSTANTS a1, a2, a3, alice

AttemptersSymmetry == Permutations(Attempters)
=============================================================================
