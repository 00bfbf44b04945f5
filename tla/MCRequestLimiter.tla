-------------------------- MODULE MCRequestLimiter --------------------------
(* RequestLimiter on two requests at a time, over two connections.         *)
EXTENDS RequestLimiter, TLC

CONSTANTS r1, r2, conn1, conn2, host1, alice

MCHostOf == [a \in Addrs |-> host1]
RequestsSymmetry == Permutations(Requests)
=============================================================================
