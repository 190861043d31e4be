-------------------------------- MODULE Karma --------------------------------
(***************************************************************************)
(* The karma of the members and the commit counts it is computed from: the *)
(* tasks karma_calculator and fetch_github_commits of scheduler.rake, which*)
(* may overlap each other and themselves, while members sign in.  Karma is *)
(* kept in a table of its own with the sum of its columns; the columns are *)
(* reduced to two, the activity and the commits.                           *)
(***************************************************************************)
EXTENDS FiniteSets, FiniteSetsExt, Naturals

CONSTANTS
    Members,   \* users, numbered by id
    Repos,     \* projects with a GitHub url
    Jobs,      \* bound: the runs of the two tasks, in the order they start
    Counts,    \* bound: what GitHub may answer
    MaxSignIns,\* bound
    MaxRuns,   \* bound: runs at the same time
    NoRow       \* a record that is new, nil

VARIABLES
    signIns,   \* activity of each member
    karmas,    \* the rows of karmas
    commits,   \* the rows of commit_counts
    jobs,      \* the runs
    together   \* history: the tasks of which two runs overlapped

karmaVars == <<signIns, karmas, commits, jobs, together>>

Idle == [at |-> "idle", task |-> "karma", todo |-> {}, known |-> [m \in Members |-> 0],
         row |-> NoRow, pair |-> NoRow, activity |-> 0, commits |-> 0, total |-> 0]
Running == {j \in Jobs : jobs[j].at \notin {"idle", "ended", "aborted"}}
In(j, task, label) == jobs[j].task = task /\ jobs[j].at = label
Step(j, job) == jobs' = [jobs EXCEPT ![j] = job] /\ UNCHANGED <<signIns, together>>
NextRow(rows) == Max({row.id : row \in rows} \cup {0}) + 1

\* find_or_initialize_by: the first row, or a new one.
FirstOf(rows) ==
    IF rows = {} THEN NoRow ELSE CHOOSE k \in rows : \A l \in rows : k.id <= l.id
KarmaOf(m) == {k \in karmas : k.user = m}
CountsOf(m, p) == {c \in commits : c.user = m /\ c.project = p}

\* commit_count_total
CommitsOf(m) == MapThenSumSet(LAMBDA c : c.count, {c \in commits : c.user = m})

KarmaInit ==
    /\ signIns = [m \in Members |-> 0]
    /\ karmas = {} /\ commits = {} /\ together = {}
    /\ jobs = [j \in Jobs |-> Idle]

\* What a member does between two runs, here as a sign-in.
SignIn ==
    \E m \in Members :
        /\ signIns[m] < MaxSignIns
        /\ signIns' = [signIns EXCEPT ![m] = @ + 1]
        /\ UNCHANGED <<karmas, commits, jobs, together>>

\* find_each loads the users, with_github_url the projects.
Start(j, task, todo) ==
    /\ jobs[j].at = "idle" /\ \A i \in Jobs : i < j => jobs[i].at # "idle"
    /\ Cardinality(Running) < MaxRuns
    /\ jobs' = [jobs EXCEPT ![j] = [Idle EXCEPT !.at = "next", !.task = task, !.todo = todo,
                                     !.known = IF task = "karma" THEN signIns ELSE @]]
    /\ together' = IF \E i \in Running : jobs[i].task = task
                   THEN together \cup {task} ELSE together
    /\ UNCHANGED <<signIns, karmas, commits>>

StartKarma(j) == Start(j, "karma", Members)
StartCommits(j) == Start(j, "commits", Repos \X Members)

End(j) ==
    /\ jobs[j].at = "next" /\ jobs[j].todo = {}
    /\ Step(j, [Idle EXCEPT !.at = "ended"])
    /\ UNCHANGED <<karmas, commits>>

\* The user at hand: find_each goes by id.
Current(j) == CHOOSE m \in jobs[j].todo : \A n \in jobs[j].todo : m <= n
Forward(j, t) ==
    Step(j, [jobs[j] EXCEPT !.todo = @ \ {t}, !.at = "next", !.row = NoRow, !.pair = NoRow,
                            !.activity = 0, !.commits = 0, !.total = 0])

(***************************************************************************)
(* karma_calculator, for one user.                                         *)
(***************************************************************************)
FindKarmaAs(j, row) ==
    /\ In(j, "karma", "next") /\ jobs[j].todo # {}
    /\ Step(j, [jobs[j] EXCEPT !.at = "calculate", !.row = row])
    /\ UNCHANGED <<karmas, commits>>

\* Variant: a new row for every run.
FindKarmaNew(j) == FindKarmaAs(j, NoRow)
FindKarma(j) == FindKarmaAs(j, FirstOf(KarmaOf(Current(j))))

\* The user is the one loaded at the start, what the user has is counted now.
Calculate(j) ==
    /\ In(j, "karma", "calculate")
    /\ Step(j, [jobs[j] EXCEPT !.at = "sum", !.activity = jobs[j].known[Current(j)],
                               !.commits = CommitsOf(Current(j))])
    /\ UNCHANGED <<karmas, commits>>

\* sum_elements: the components are memoized, so that the sum is theirs.
SumOf(j, counted) ==
    /\ In(j, "karma", "sum")
    /\ Step(j, [jobs[j] EXCEPT !.at = "save", !.total = jobs[j].activity + counted])
    /\ UNCHANGED <<karmas, commits>>

\* Variant: the components are not memoized.
SumCountingAgain(j) == SumOf(j, CommitsOf(Current(j)))
Sum(j) == SumOf(j, jobs[j].commits)

\* save!: the columns that differ from what was loaded, or a new row.
Differing(j, column) ==
    LET job == jobs[j] IN
    IF job.row = NoRow \/ job.row[column] # job[column] THEN {column} ELSE {}
SaveKarma(j) ==
    LET job == jobs[j]
        m == Current(j)
        changed == UNION {Differing(j, c) : c \in {"activity", "commits", "total"}}
        columns == [c \in {"activity", "commits", "total"} |-> job[c]]
        Saved(k) == [c \in DOMAIN k |-> IF c \in changed THEN columns[c] ELSE k[c]]
    IN  /\ In(j, "karma", "save")
        /\ karmas' = IF job.row = NoRow
             THEN karmas \cup {[id |-> NextRow(karmas), user |-> m, activity |-> job.activity,
                                commits |-> job.commits, total |-> job.total]}
             ELSE {IF k.id = job.row.id THEN Saved(k) ELSE k : k \in karmas}
        /\ Forward(j, m)
        /\ UNCHANGED commits

\* Whatever raises for one user is rescued by a line that raises (usr): the
\* task ends there.
Abort(j) ==
    /\ jobs[j].task = "karma" /\ jobs[j].at \in {"calculate", "sum", "save"}
    /\ Step(j, [Idle EXCEPT !.at = "aborted"])
    /\ UNCHANGED <<karmas, commits>>

(***************************************************************************)
(* fetch_github_commits, for one contributor of one project.  What raises  *)
(* is rescued twice: for the contributor, and for the project's rest.      *)
(***************************************************************************)
\* CommitCount.find_or_initialize_by, with what GitHub answered.
FindCount(j) ==
    /\ In(j, "commits", "next")
    /\ \E t \in jobs[j].todo, n \in Counts :
        Step(j, [jobs[j] EXCEPT !.at = "validate", !.pair = t, !.commits = n,
                                !.row = FirstOf(CountsOf(t[2], t[1]))])
    /\ UNCHANGED <<karmas, commits>>

\* validates uniqueness of the user in the project, another query: a count
\* beside a row with another id is not saved.
Validate(j) ==
    LET job == jobs[j]
        others == {c \in CountsOf(job.pair[2], job.pair[1]) :
                     job.row # NoRow => c.id # job.row.id}
    IN  /\ In(j, "commits", "validate")
        /\ IF others = {} THEN Step(j, [job EXCEPT !.at = "save"])
           ELSE Forward(j, job.pair)
        /\ UNCHANGED <<karmas, commits>>

SaveCount(j) ==
    LET job == jobs[j]
    IN  /\ In(j, "commits", "save")
        /\ commits' = IF job.row = NoRow
             THEN commits \cup {[id |-> NextRow(commits), user |-> job.pair[2],
                                 project |-> job.pair[1], count |-> job.commits]}
             ELSE {IF c.id = job.row.id THEN [c EXCEPT !.count = job.commits] ELSE c
                     : c \in commits}
        /\ Forward(j, job.pair)
        /\ UNCHANGED karmas

\* No user of that GitHub name, no answer for the project, or an exception:
\* the contributor is left out, or all that is left of the project.
LeaveOut(j) ==
    /\ In(j, "commits", "next")
    /\ \E t \in jobs[j].todo, left \in BOOLEAN :
        LET out == IF left THEN {s \in jobs[j].todo : s[1] = t[1]} ELSE {t}
        IN  Step(j, [jobs[j] EXCEPT !.todo = @ \ out])
    /\ UNCHANGED <<karmas, commits>>

CarryOn(j) ==
    \/ FindKarma(j) \/ Calculate(j) \/ Sum(j) \/ SaveKarma(j) \/ Abort(j)
    \/ FindCount(j) \/ Validate(j) \/ SaveCount(j) \/ LeaveOut(j) \/ End(j)

KarmaNext ==
    \/ SignIn
    \/ \E j \in Jobs : StartKarma(j) \/ StartCommits(j) \/ CarryOn(j)

-----------------------------------------------------------------------------
KarmaTypeOK ==
    /\ signIns \in [Members -> 0 .. MaxSignIns]
    /\ together \subseteq {"karma", "commits"}
    /\ \A k \in karmas : k.user \in Members /\ {k.activity, k.commits, k.total} \subseteq Nat
    /\ \A c \in commits : c.user \in Members /\ c.project \in Repos /\ c.count \in Counts
    /\ \A j \in Jobs : /\ jobs[j].task \in {"karma", "commits"}
                       /\ jobs[j].row # NoRow => jobs[j].row.id \in {r.id : r \in karmas \cup commits}

\* The total that the pages show is the sum of the columns beside it, although
\* only the columns that differ from what was loaded are written, and although
\* commit counts change meanwhile: it fails only when two runs of the
\* calculator overlap.
TotalIsSum ==
    "karma" \notin together =>
        \A k \in karmas : k.total = k.activity + k.commits

\* The tables have no unique index: a member has one row of karma and one
\* commit count per project unless two runs of the same task overlap.
OneRowEach ==
    /\ "karma" \notin together => \A m \in Members : Cardinality(KarmaOf(m)) <= 1
    /\ "commits" \notin together =>
         \A m \in Members, p \in Repos : Cardinality(CountsOf(m, p)) <= 1
=============================================================================
