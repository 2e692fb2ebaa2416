CONSTANTS
    MaxAttempts = 2
    Phases = 1
    Domains = 2
    Vacuous <- MCVacuous
    Policies = {"reset"}
    Abort = {"timeout"}
    None = None
    MaxFaults = 2
SPECIFICATION FairSpec
INVARIANTS EffectsOnce LifecycleOrder HandedOnClean
PROPERTIES InterruptionSticks TrialEnds
CHECK_DEADLOCK FALSE
