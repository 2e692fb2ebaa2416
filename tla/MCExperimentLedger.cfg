CONSTANTS
    t1 = t1
    t2 = t2
    o1 = o1
    o2 = o2
    Callers = {t1, t2}
    Owners = {o1, o2}
    NumEntries = 2
    MaxAttempts = 2
    Floor = 1
    Ceiling = 1
    None = None
SYMMETRY CallersAndOwners
SPECIFICATION Spec
INVARIANTS ExecutionBounded AttemptsJustified
PROPERTIES CancelFencesAssignment
