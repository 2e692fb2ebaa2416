SPECIFICATION Spec
CONSTANTS
    own = own
    r1 = r1
    r2 = r2
    t1 = t1
    t2 = t2
    Owner = own
    Runs = {r1, r2}
    Threads = {t1, t2}
    None = None
    MaxCalls = 2
    MaxFaults = 1
SYMMETRY Symmetry
CHECK_DEADLOCK FALSE
INVARIANTS
    RivalExcluded
PROPERTIES
    ImplementsTarget
