--------------------------- MODULE GithubLanguages ---------------------------
(***************************************************************************)
(* The task that adds to every project the languages GitHub reports of its *)
(* repositories.  A run is a process: the scheduler starts one a day and   *)
(* anybody with a console another, and each statement is a step.           *)
(*                                                                         *)
(* A row of languages is named by the run that inserted it and its name:   *)
(* a run that has inserted a name finds it from then on.                   *)
(***************************************************************************)
EXTENDS Naturals, FiniteSets, FiniteSetsExt

CONSTANTS
    Runs,
    Projects,  \* those with a GitHub url
    Names,     \* of languages
    NULL,
    Reported,  \* the languages of a project's repositories, one after the other
    MaxOpen,   \* bound: runs at the same time
    MaxFaults  \* bound: errors of GitHub

VARIABLES
    languages, \* rows of languages: <<the run that inserted it, name>>
    joins,     \* rows of languages_projects: <<project, language>>, unique
    pc,        \* "idle", "next", "fetch", "find", "create", "insert", "link", "done"
    todo,      \* projects a run has not updated
    project,   \* the one it is at
    loaded,    \* names in its project.languages, NULL before it is loaded
    wanted,    \* what it has still to add, the places in Reported[project]
    language,  \* the language found or created
    skipped,   \* history: projects a run gave up
    faults     \* history: those of them GitHub answered with an error, <<run, project>>

found == <<project, loaded, wanted, language>>

Goto(r, label) == pc' = [pc EXCEPT ![r] = label]
Open == {r \in Runs : pc[r] \notin {"idle", "done"}}
Rows(n) == {l \in languages : l[2] = n}
NamesOf(p) == {l[2] : l \in {k \in languages : <<p, k>> \in joins}}
ReportedNames(p) == {Reported[p][i] : i \in DOMAIN Reported[p]}
Wanted(r) == Reported[project[r]][Min(wanted[r])]

Init ==
    /\ languages = {} /\ joins = {}
    /\ pc = [r \in Runs |-> "idle"]
    /\ todo = [r \in Runs |-> {}]
    /\ project = [r \in Runs |-> NULL]
    /\ loaded = [r \in Runs |-> NULL]
    /\ wanted = [r \in Runs |-> {}]
    /\ language = [r \in Runs |-> NULL]
    /\ skipped = [r \in Runs |-> {}]
    /\ faults = {}

Start(r) ==
    /\ pc[r] = "idle" /\ Cardinality(Open) < MaxOpen
    /\ todo' = [todo EXCEPT ![r] = Projects]
    /\ Goto(r, "next")
    /\ UNCHANGED <<languages, joins, found, skipped, faults>>

NextProject(r) ==
    /\ pc[r] = "next"
    /\ \/ /\ todo[r] = {}
          /\ Goto(r, "done")
          /\ UNCHANGED <<todo, project, loaded>>
       \/ \E p \in todo[r] :
            /\ todo' = [todo EXCEPT ![r] = @ \ {p}]
            /\ project' = [project EXCEPT ![r] = p]
            /\ loaded' = [loaded EXCEPT ![r] = NULL]
            /\ Goto(r, "fetch")
    /\ UNCHANGED <<languages, joins, wanted, language, skipped, faults>>

\* The rescue in run: the project is left as it is.
GiveUp(r, remaining) ==
    /\ skipped' = [skipped EXCEPT ![r] = @ \cup {project[r]}]
    /\ todo' = [todo EXCEPT ![r] = remaining]
    /\ Goto(r, "next")

\* new_languages_for: GitHub is asked again at every retry, project.languages
\* is read once and kept.
FetchThen(r, remaining) ==
    /\ pc[r] = "fetch"
    /\ LET p == project[r]
           have == IF loaded[r] = NULL THEN NamesOf(p) ELSE loaded[r]
       IN  \/ /\ loaded' = [loaded EXCEPT ![r] = have]
              /\ wanted' = [wanted EXCEPT ![r] = {i \in DOMAIN Reported[p] : Reported[p][i] \notin have}]
              /\ Goto(r, "find")
              /\ UNCHANGED <<todo, skipped, faults>>
           \/ /\ Cardinality(faults) < MaxFaults
              /\ faults' = faults \cup {<<r, p>>}
              /\ GiveUp(r, remaining)
              /\ UNCHANGED <<loaded, wanted>>
    /\ UNCHANGED <<languages, joins, project, language>>

\* Variant: the rescue is around the loop, not in it.
FetchOrGiveUp(r) == FetchThen(r, {})
Fetch(r) == FetchThen(r, todo[r])

\* find_or_create_by takes any row with the name.
Find(r) ==
    /\ pc[r] = "find"
    /\ \/ /\ wanted[r] = {}
          /\ Goto(r, "next")
          /\ UNCHANGED language
       \/ /\ wanted[r] # {}
          /\ \E l \in languages : l[2] = Wanted(r) /\ language' = [language EXCEPT ![r] = l]
          /\ Goto(r, "link")
       \/ /\ wanted[r] # {}
          /\ \A l \in languages : l[2] # Wanted(r)
          /\ Goto(r, "create")
          /\ UNCHANGED language
    /\ UNCHANGED <<languages, joins, todo, project, loaded, wanted, skipped, faults>>

\* Language validates that its name is unique.  A language that is not valid
\* is returned unsaved, << saves it before it is linked and raises
\* RecordInvalid, which is not retried.
Validate(r) ==
    /\ pc[r] = "create"
    /\ \/ Rows(Wanted(r)) # {} /\ GiveUp(r, todo[r])
       \/ /\ Rows(Wanted(r)) = {}
          /\ Goto(r, "insert")
          /\ UNCHANGED <<todo, skipped>>
    /\ UNCHANGED <<languages, joins, found, faults>>

Insert(r) ==
    /\ pc[r] = "insert"
    /\ languages' = languages \cup {<<r, Wanted(r)>>}
    /\ language' = [language EXCEPT ![r] = <<r, Wanted(r)>>]
    /\ Goto(r, "link")
    /\ UNCHANGED <<joins, todo, project, loaded, wanted, skipped, faults>>

\* The insert into languages_projects; a row that is there raises
\* RecordNotUnique, which is retried.
LinkRemembering(r, names) ==
    /\ pc[r] = "link"
    /\ LET row == <<project[r], language[r]>> IN
         \/ /\ row \in joins
            /\ Goto(r, "fetch")
            /\ UNCHANGED <<joins, loaded, wanted>>
         \/ /\ row \notin joins
            /\ joins' = joins \cup {row}
            /\ loaded' = [loaded EXCEPT ![r] = names]
            /\ wanted' = [wanted EXCEPT ![r] = @ \ {Min(@)}]
            /\ Goto(r, "find")
    /\ UNCHANGED <<languages, todo, project, language, skipped, faults>>

\* Variant: the row is inserted past project.languages.
LinkUnseen(r) == LinkRemembering(r, loaded[r])
Link(r) == LinkRemembering(r, loaded[r] \cup {Wanted(r)})

Work(r) ==
    \/ NextProject(r)
    \/ Fetch(r)
    \/ Find(r)
    \/ Validate(r)
    \/ Insert(r)
    \/ Link(r)

Next == \E r \in Runs : Start(r) \/ Work(r)

-----------------------------------------------------------------------------
\* Rows are of languages and projects there are, and a run keeps what it has
\* found until it is linked.
TypeOK ==
    /\ languages \subseteq Runs \X Names
    /\ joins \subseteq Projects \X languages
    /\ pc \in [Runs -> {"idle", "next", "fetch", "find", "create", "insert", "link", "done"}]
    /\ todo \in [Runs -> SUBSET Projects]
    /\ project \in [Runs -> Projects \cup {NULL}]
    /\ loaded \in [Runs -> (SUBSET Names) \cup {NULL}]
    /\ \A r \in Runs : pc[r] \in {"find", "create", "insert", "link"} =>
         wanted[r] \subseteq DOMAIN Reported[project[r]]
    /\ \A r \in Runs : pc[r] = "link" => language[r] \in Rows(Wanted(r))
    /\ skipped \in [Runs -> SUBSET Projects]
    /\ faults \subseteq Runs \X Projects

\* However runs overlap, one that has ended has added to every project what
\* GitHub reported of it, but for the projects it gave up: one that raises does
\* not keep the others from being updated, and a language that two
\* repositories share does not keep the rest of theirs from being added.  It
\* gives a project up for an error of GitHub, or because another run inserted
\* one of its languages after this one had looked for it.
GivenUpForAReason(r, p) ==
    \/ <<r, p>> \in faults
    \/ \E q \in Runs \ {r} : \E n \in ReportedNames(p) : <<q, n>> \in languages

EndedRunsComplete ==
    \A r \in Runs :
        /\ \A p \in skipped[r] : GivenUpForAReason(r, p)
        /\ pc[r] = "done" =>
              \A p \in Projects \ skipped[r] : ReportedNames(p) \subseteq NamesOf(p)

\* Another run has been at the project r is at, and has added a language since
\* r read the project's.
Overtaken(r) ==
    /\ loaded[r] # NULL
    /\ \E q \in Runs \ {r} : pc[q] # "idle" /\ project[r] \notin todo[q]
    /\ \E n \in ReportedNames(project[r]) \ loaded[r] : n \in NamesOf(project[r])

\* A run that was started ends unless it is overtaken: two repositories with
\* one language in common make it retry, but not for ever.
EndsUnlessOvertaken == \A r \in Runs : pc[r] = "next" ~> pc[r] = "done" \/ Overtaken(r)

\* A run that was started updates all projects and ends
\* (features/devops/github_languages.feature, "Update language field of all
\* projects with valid github_url").
EveryRunEnds == \A r \in Runs : pc[r] = "next" ~> pc[r] = "done"
=============================================================================
