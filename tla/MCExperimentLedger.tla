------------------------- MODULE MCExperimentLedger -------------------------
EXTENDS ExperimentLedger, TLC

CallersAndOwners == Permutations(Callers) \cup Permutations(Owners)
=============================================================================
