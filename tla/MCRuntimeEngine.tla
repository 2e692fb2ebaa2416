--------------------------- MODULE MCRuntimeEngine ---------------------------
(* Finite instances of RuntimeEngine; runs and threads are interchangeable. *)
EXTENDS RuntimeEngine, TLC

CONSTANTS own, r1, r2, t1, t2

Symmetry == Permutations(Runs) \cup Permutations(Threads)

=============================================================================
