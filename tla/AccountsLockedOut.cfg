SPECIFICATION MCSpec
CONSTANTS
    Requests = {r1, r2, r3, r4}
    u1 = u1
    u2 = u2
    git1 = git1
    git2 = git2
    goo1 = goo1
    Users = {u1, u2}
    Identities <- TheIdentities
    ProviderOf <- TheProviderOf
    EmailOf <- TheEmailOf
    NULL = NULL
    MaxOpen = 2
SYMMETRY Interchangeable
INVARIANTS
    KeepsMeansOfSignIn
CHECK_DEADLOCK FALSE
