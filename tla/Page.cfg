SPECIFICATION Spec
CONSTANTS
    Few = 4
    Several = 5
    Many = 6
    Pair = {1, 2}
    Trio = {1, 2, 3}
    Tags = {"a", "s", "amp"}
    Coded = {"amp"}
    Beginning = "start"
    Modules = {"EventCountdown", "Users"}
    EventTimes = {0, 2, 3}
    EventMinutes = 2
    MaxTime = 8
    MaxVisits = 3
    PerPage = 2
    RowsAtFirst = 5
    MaxRows = 6
INVARIANTS
    TypeOK
    RestingPageAgrees
    LibrariesAgree
    SkillsSubmittedAsShown
    ListedInOrder
    ScriptsStartOnce
PROPERTIES
    TransitionsSettle
CHECK_DEADLOCK FALSE
