SPECIFICATION MCSpec
CONSTANTS
    Requests = {r1, r2, r3}
    Links = {k1, k2}
    Videos = {v1}
    Kinds = {"hangout", "youtube", "callback"}
    Bylines = {b1, b2}
    NULL = NULL
    MaxOpen = 3
    MaxFaults = 1
    MaxTime = 2
    LiveFor = 1
    Start = 1
    Duration = 1
    Margin = 1
    Events <- PremiumPairingAndScrum
    Limit = 1
    MaxRoom = 2
SYMMETRY Interchangeable
INVARIANTS
    TypeOK
    PremiumStaysPrivate
    EveryStoredLinkAnnounced
    SerialUidsUnique
    GitterRepeatsOnlyRaced
PROPERTIES
    SerialFormsChangeTheirOwn
    SerialFinishedStaysFinished
CONSTRAINT Bounds
CHECK_DEADLOCK FALSE
