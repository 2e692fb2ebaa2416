------------------------- MODULE MCMutationAuthority -------------------------
\* Model values and symmetry for the runs on MutationAuthority.
EXTENDS MutationAuthority, TLC

CONSTANTS t1, t2, r1, r2, k1

\* Callers of one kind are interchangeable; used by the safety run only.
MCSymmetry == Permutations({t1, t2}) \cup Permutations({r1, r2})
=============================================================================
