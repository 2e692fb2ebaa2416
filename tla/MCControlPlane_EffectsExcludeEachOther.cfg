SPECIFICATION Spec
CONSTANTS
    n1 = n1
    n2 = n2
    n3 = n3
    p1 = p1
    p2 = p2
    f1 = f1
    c1 = c1
    Native = {n1}
    Plain = {p1, p2}
    Core = {}
    Resolutions = {}
    KeyOf <- MCKeyOf
    None = None
    MaxFaults = 1
    MaxCrashes = 0
CHECK_DEADLOCK FALSE
PROPERTIES
    EffectsExcludeEachOther
