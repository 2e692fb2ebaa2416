------------------------- MODULE MCExecutionAdapter -------------------------
(* Finite instances of ExecutionAdapter: one effect slot, one slot of the   *)
(* store and one of the deadline lane.                                      *)
EXTENDS ExecutionAdapter, TLC

CONSTANTS a1, a2, t1, c1, c2, c3, c4

\* Threads and calls are told apart by nothing; for the invariants only.
MCSymmetry == Permutations(Threads) \cup Permutations(Calls)

MCCap == [l \in AllLanes |-> 1]

=============================================================================
