SPECIFICATION Spec
CONSTANTS
    Members = {m1}
    NULL = NULL
    Day = 4
    Past = 1
    Soon = 8
    Window = 10
    Final = 60
    Duration = 1
    Starts <- AnyStart
    DaySets <- WeekendOrMonday
    EndDays = {3, 12}
    Offsets <- NearUtc
    MaxOpen = 1
    MaxRemoved = 1
    MaxTime = 26
INVARIANTS
    TypeOK
    PageAgreesWithIndex
PROPERTIES
    UnchangedSaveChangesNothing
    WeeklyRemovalSkipsOne
CHECK_DEADLOCK FALSE
