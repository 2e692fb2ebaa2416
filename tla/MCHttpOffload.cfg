SPECIFICATION HttpFairSpec
CONSTANTS
    e1 = e1
    e2 = e2
    e3 = e3
    c1 = c1
    Requests = {e1, e2, e3}
    LaneOf <- MCLaneOf
    Capacity <- MCCapacity
    Outsider = Outsider
    Nobody = Nobody
    MaxCloses = 2
    MaxCancels = 2
CHECK_DEADLOCK FALSE
INVARIANTS
    OffloadAccounted
PROPERTIES
    AbandonedIsNotRun
    CallsEnd
