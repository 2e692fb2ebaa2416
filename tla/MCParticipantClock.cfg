SPECIFICATION Spec
CONSTANTS
    p1 = p1
    p2 = p2
    p3 = p3
    Participants <- TwoParticipants
    Callers = {u}
    Driver = driver
    None = None
    Cadence = 2
    MaxAttempts = 2
    MaxInFlight = 2
    MaxTick = 3
    MaxSegment = 1
    MaxCalls = 3
    MaxFaults = 1
INVARIANTS ActionsOnce PacingLossStands
PROPERTIES DispatchInTurn DueIsServed
CHECK_DEADLOCK FALSE
