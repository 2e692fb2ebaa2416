---------------------------- MODULE MCStoreLease ----------------------------
(* Finite instances of StoreLease. *)
EXTENDS StoreLease, TLC

CONSTANTS p1, p2, p3, t1, t2

Symmetry == Permutations(Procs) \cup Permutations(Txs)

=============================================================================
