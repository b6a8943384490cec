----------------------------- MODULE MCUnixLocks -----------------------------
(* Instances of UnixLocks for TLC: connections a1, a2, a3 of process A, b1 of B. *)
EXTENDS UnixLocks, TLC

CONSTANTS a1, a2, a3, b1, A, B

MCProcOf == [f \in Files |-> IF f = b1 THEN B ELSE A]
=============================================================================
