SPECIFICATION Spec
CONSTANTS
    t1 = t1
    t2 = t2
    r1 = r1
    r2 = r2
    k1 = k1
    Threads = {t1, t2}
    Requests = {r1, r2}
    Children = {k1}
    None = None
    MaxSessions = 1
    MaxCalls = 1
INVARIANTS
    ExpiredWaiterKeepsDeadline
