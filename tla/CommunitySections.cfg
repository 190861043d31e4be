SPECIFICATION Spec
CONSTANTS
    Docs = {d1, d2, d3}
    Editors = {e1, e2, e3, e4}
    NoDoc = NoDoc
    MaxEdits = 2
    Users = {u1, u2}
    Admins = {u1}
    Projects = {p1}
    Visits = {1, 2, 3, 4}
    NoProject = NoProject
    FeedLimit = 1
    MaxVisits = 2
    Members = {1, 2}
    Repos = {p1}
    Jobs = {1, 2, 3}
    Counts = {1, 2}
    MaxSignIns = 1
    MaxRuns = 2
    NoRow = NoRow
    LanguageJobs = {j1, j2}
    Repositories = {r1, r2}
    LanguageNames = {ruby, js}
    Reported <- TheReported
    r1 = r1
    r2 = r2
    ruby = ruby
    js = js
    NoLanguage = NoLanguage
    MaxFaults = 1

PROPERTY OnlyMovesChangeSection
CHECK_DEADLOCK FALSE
