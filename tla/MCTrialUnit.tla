---------------------------- MODULE MCTrialUnit ----------------------------
(* One application phase; of the two domains to destroy the first has no    *)
(* installed service.                                                       *)
EXTENDS TrialUnit

MCVacuous == {<<"destroy", 1>>}
=============================================================================
