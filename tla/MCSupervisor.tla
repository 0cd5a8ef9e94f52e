---------------------------- MODULE MCSupervisor ----------------------------
(* Instances of Supervisor for TLC. *)
EXTENDS Supervisor, TLC

CONSTANTS p1, p2, t1, t2, t3, d1

Interchangeable == Permutations(Threads) \cup Permutations(Processes)
=============================================================================
