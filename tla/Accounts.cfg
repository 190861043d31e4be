SPECIFICATION MCSpec
CONSTANTS
    Requests = {r1, r2, r3, r4, r5, r6}
    u1 = u1
    u2 = u2
    git1 = git1
    git2 = git2
    goo1 = goo1
    Users = {u1, u2}
    Identities <- TheIdentities
    ProviderOf <- TheProviderOf
    EmailOf <- TheEmailOf
    NULL = NULL
    MaxOpen = 4
SYMMETRY Interchangeable
INVARIANTS
    TypeOK
    LockoutNeedsOverlap
    SerialOneOfEachProvider
    SerialRowsOfActiveAccounts
    SerialCallbackLinksFreeIdentities
CONSTRAINT Bounds
CHECK_DEADLOCK FALSE
