SPECIFICATION Spec
CONSTANTS
    Requests = {r1, r2}
    Users = {u1}
    Plans = {p1, p2}
    NULL = NULL
    MaxThreads = 2
    MaxFaults = 0
    MaxTime = 1
SYMMETRY Interchangeable
INVARIANTS
    AtMostOneOpenSubscription
CHECK_DEADLOCK FALSE
