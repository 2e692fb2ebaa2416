SPECIFICATION FairSpec
CONSTANTS
    n1 = n1
    n2 = n2
    n3 = n3
    p1 = p1
    p2 = p2
    f1 = f1
    c1 = c1
    Native = {n1, n2}
    Plain = {p1}
    Core = {f1}
    Resolutions = {c1}
    KeyOf <- MCKeyOf
    None = None
    MaxFaults = 2
    MaxCrashes = 1
CHECK_DEADLOCK FALSE
PROPERTIES
    EffectsAdmitted
    ImplementsLifecycle
    InterruptedIsClassified
INVARIANTS
    WriteAhead
    AtMostOncePerKey
    QuarantineKept
    SuccessIsPublished
