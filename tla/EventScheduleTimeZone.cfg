SPECIFICATION Spec
CONSTANTS
    Members = {m1}
    NULL = NULL
    Day = 4
    Past = 1
    Soon = 8
    Window = 10
    Final = 60
    Duration = 1
    Starts <- Mornings
    DaySets <- SomeDays
    EndDays = {20}
    Offsets <- Hawaii
    MaxOpen = 1
    MaxRemoved = 0
    MaxTime = 2
PROPERTIES
    UnchangedSaveChangesNothing
CHECK_DEADLOCK FALSE
