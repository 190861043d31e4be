SPECIFICATION Spec
CONSTANTS
    Requests = {r1, r2, r3}
    Users = {u1, u2}
    Plans = {p1, p2}
    NULL = NULL
    MaxThreads = 3
    MaxFaults = 1
    MaxTime = 1
SYMMETRY Interchangeable
INVARIANTS
    TypeOK
    OnlyOverlapsLeaveTwoOpen
    GrantedOnlyAfterPayment
    SourceStaysWithItsUser
    PeriodsJoin
    OnlyOverlapsLoseTitles
    BilledForOpenPlan
PROPERTIES
    ImplementsMembership
CONSTRAINT FewAtOnce
CHECK_DEADLOCK FALSE
