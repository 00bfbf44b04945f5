-------------------------- MODULE MCDatabaseFiles --------------------------
(* DatabaseFiles with a pool of two connections.                           *)
EXTENDS DatabaseFiles, TLC

CONSTANTS c1, c2

ConnsSymmetry == Permutations(Conns)
=============================================================================
