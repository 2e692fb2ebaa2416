SPECIFICATION LeaseSpec
CONSTANTS
    p1 = p1
    p2 = p2
    p3 = p3
    t1 = t1
    t2 = t2
    Procs = {p1, p2, p3}
    Txs = {t1, t2}
    Nobody = Nobody
    MaxGen = 4
    MaxFaults = 3
SYMMETRY Symmetry
CHECK_DEADLOCK FALSE
INVARIANTS
    OneOwner
PROPERTIES
    WritesInOrder
