----------------------------- MODULE MCCommunity -----------------------------
(***************************************************************************)
(* What members do around a project, one part at a time: its documents,    *)
(* following it and the feed of the dashboard, the karma earned in it, the *)
(* languages of its repositories.                                          *)
(* The parts share no table that these properties look at, so that each    *)
(* behaviour is of one of them and the others rest.                        *)
(***************************************************************************)
EXTENDS Naturals, Sequences, TLC

CONSTANTS Docs, Editors, NoDoc, MaxEdits,
          Users, Admins, Projects, Visits, NoProject, FeedLimit, MaxVisits,
          Members, Repos, Jobs, Counts, MaxSignIns, MaxRuns, NoRow,
          LanguageJobs, Repositories, LanguageNames, Reported, NoLanguage, MaxFaults,
          r1, r2, ruby, js

\* Users, runs and rows are numbered, and the absent document and the absent
\* row are none of them.  GitHub reports a list of languages of each project.
ASSUME CommunityAssumption ==
    /\ NoDoc \notin Docs
    /\ Users # {}
    /\ Members \subseteq Nat /\ Counts \subseteq Nat /\ MaxSignIns \in Nat
    /\ NoRow \notin [id : Nat, user : Members, activity : Nat, commits : Nat, total : Nat]
    /\ NoRow \notin [id : Nat, user : Members, project : Repos, count : Counts]
    /\ Reported \in [Repositories -> Seq(LanguageNames)]

VARIABLES part,
          docs, parent, edits, stale,
          members, status, follows, feed, visits, raced,
          signIns, karmas, commits, jobs, together,
          languages, joins, pc, todo, project, loaded, wanted, language, skipped, faults

D == INSTANCE Documents
P == INSTANCE Projects
K == INSTANCE Karma

L == INSTANCE GithubLanguages
       WITH Runs <- LanguageJobs, Projects <- Repositories, Names <- LanguageNames,
            NULL <- NoLanguage, MaxOpen <- MaxRuns

\* The instance for TLC: two repositories of the first project share a language.
TheReported == r1 :> <<ruby, ruby, js>> @@ r2 :> <<js, ruby>>

docVars == <<docs, parent, edits, stale>>
projVars == <<members, status, follows, feed, visits, raced>>
karmaVars == <<signIns, karmas, commits, jobs, together>>
langVars == <<languages, joins, pc, todo, project, loaded, wanted, language, skipped, faults>>
mcVars == <<part, docVars, projVars, karmaVars, langVars>>

Init ==
    /\ part \in {"documents", "projects", "karma", "languages"}
    /\ D!DocInit /\ P!ProjInit /\ K!KarmaInit /\ L!Init

Next ==
    \/ part = "documents" /\ D!DocNext /\ UNCHANGED <<part, projVars, karmaVars, langVars>>
    \/ part = "projects" /\ P!ProjNext /\ UNCHANGED <<part, docVars, karmaVars, langVars>>
    \/ part = "karma" /\ K!KarmaNext /\ UNCHANGED <<part, docVars, projVars, langVars>>
    \/ part = "languages" /\ L!Next /\ UNCHANGED <<part, docVars, projVars, karmaVars>>

\* The server goes on with every request it has accepted, and a run of the
\* languages job that was started goes on; nobody has to start one.
Fairness ==
    /\ \A v \in Visits : WF_projVars(P!Serve(v))
    /\ \A r \in LanguageJobs : WF_langVars(L!Work(r))

Spec == Init /\ [][Next]_mcVars /\ Fairness

\* Every variable has its type.
TypeOK == D!DocTypeOK /\ P!ProjTypeOK /\ K!KarmaTypeOK /\ L!TypeOK

\* Documents: only a request that acted on an outdated page or reading makes
\* a document unreachable from the project's categories.
LostNeedsStalePage == D!LostNeedsStalePage

\* Documents: sections change by "change section" only.
OnlyMovesChangeSection == D!OnlyMovesChangeSection

\* Projects: after an answered unfollow there is no follow left, unless the
\* user's requests overlapped.
UnfollowLeavesNone == P!UnfollowLeavesNone

\* Projects: no follow outlives its account unless requests overlapped.
FollowsAreOfMembers == P!FollowsAreOfMembers

\* Dashboard: reading the feed, which purges it, ends.
DashboardAnswers == P!DashboardAnswers

\* Karma: the stored total is the sum of the stored columns unless two runs
\* of the calculator overlapped.
TotalIsSum == K!TotalIsSum

\* Karma, commit counts: no second row without overlapping runs.
OneRowEach == K!OneRowEach

\* Languages: a run that has ended has updated every project it did not give
\* up, which it does for a reason.
EndedRunsComplete == L!EndedRunsComplete

\* Languages: a run ends unless another overtakes it.
EndsUnlessOvertaken == L!EndsUnlessOvertaken

\* Languages: a run that was started updates all projects and ends
\* (features/devops/github_languages.feature).
EveryRunEnds == L!EveryRunEnds
=============================================================================
