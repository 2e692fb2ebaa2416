SPECIFICATION Spec
CONSTANTS
    o1 = o1
    o2 = o2
    w1 = w1
    w2 = w2
    cancel1 = cancel1
    observe1 = observe1
    reconcile1 = reconcile1
    Ops = {o1}
    Workers = {w1, w2}
    Controls = {reconcile1, cancel1}
    ActionOf <- MCActionOf
    None = None
    MaxRuns = 3
    MaxFaults = 2
CHECK_DEADLOCK FALSE
SYMMETRY WorkerSymmetry
INVARIANTS
    DeliveredOnce
