SPECIFICATION Spec
CONSTANTS
    Docs = {d1, d2}
    Editors = {e1}
    NoDoc = NoDoc
    MaxEdits = 1
    Users = {u1}
    Admins = {u1}
    Projects = {p1}
    Visits = {1}
    NoProject = NoProject
    FeedLimit = 1
    MaxVisits = 1
    Members = {1}
    Repos = {p1, p2}
    Jobs = {1}
    Counts = {1}
    MaxSignIns = 1
    MaxRuns = 2
    NoRow = NoRow
    LanguageJobs = {j1, j2}
    Repositories = {r1, r2}
    LanguageNames = {ruby, js}
    Reported <- TheReported
    r1 = r1
    r2 = r2
    ruby = ruby
    js = js
    NoLanguage = NoLanguage
    MaxFaults = 0
PROPERTIES EveryRunEnds
CHECK_DEADLOCK FALSE
