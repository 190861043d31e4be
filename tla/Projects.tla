------------------------------- MODULE Projects -------------------------------
(***************************************************************************)
(* Projects, the members who follow them, and the feed of activities that  *)
(* the dashboard shows: ProjectsController, acts_as_follower,              *)
(* public_activity and DashboardController.  No request locks anything and *)
(* no index forbids a second follow, so that every statement is a step of  *)
(* its own.                                                                *)
(***************************************************************************)
EXTENDS FiniteSets, FiniteSetsExt, Naturals

CONSTANTS
    Users,
    Admins,     \* some of them
    Projects,
    Visits,     \* bound: the requests, numbered in the order they arrive
    NoProject,
    FeedLimit,  \* activities one page of the dashboard shows, 100 in the code
    MaxVisits   \* bound: requests at the same time

VARIABLES
    members,  \* the users whose account is active
    status,   \* projects.status, "none" before the project exists
    follows,  \* the rows of follows
    feed,     \* the rows of activities
    visits,   \* the requests
    raced     \* history: users of whom two requests on following overlapped

projVars == <<members, status, follows, feed, visits, raced>>

Visit(what, u, p, label) ==
    [at |-> label, op |-> what, user |-> u, project |-> p, rows |-> {}]
At(v, label) == visits[v].at = label
Nobody == CHOOSE u \in Users : TRUE

\* An answered request holds nothing any more.
Goto(v, label) ==
    visits' = [visits EXCEPT ![v] =
        IF label \in {"done", "failed"} THEN Visit("none", Nobody, NoProject, label)
        ELSE [visits[v] EXCEPT !.at = label]]
Finding(v, rows, label) ==
    visits' = [visits EXCEPT ![v].rows = rows, ![v].at = label]
Underway == {v \in Visits : visits[v].at \notin {"idle", "done", "failed"}}

\* Rows are numbered in the order of their insertion.
NextId(rows) == Max({row.id : row \in rows} \cup {0}) + 1
FollowsOf(v) ==
    {f \in follows : f.user = visits[v].user /\ f.project = visits[v].project}

ProjInit ==
    /\ members = Users
    /\ status = [p \in Projects |-> "none"]
    /\ follows = {} /\ feed = {} /\ raced = {}
    /\ visits = [v \in Visits |-> Visit("none", Nobody, NoProject, "idle")]

\* authenticate_user!, set_project
Following == {"create", "follow", "unfollow", "leave"}
Begin(v, what, u, p, label) ==
    /\ At(v, "idle") /\ u \in members
    /\ \A w \in Visits : w < v => ~ At(w, "idle")
    /\ Cardinality(Underway) < MaxVisits
    /\ visits' = [visits EXCEPT ![v] = Visit(what, u, p, label)]
    /\ raced' = IF \E w \in Underway : /\ visits[w].user = u
                                       /\ {what, visits[w].op} \subseteq Following
                THEN raced \cup {u} ELSE raced
    /\ UNCHANGED <<members, status, follows, feed>>

\* The dashboard is open to everybody.
BeginReading(v) ==
    /\ At(v, "idle") /\ \A w \in Visits : w < v => ~ At(w, "idle")
    /\ Cardinality(Underway) < MaxVisits
    /\ visits' = [visits EXCEPT ![v] = Visit("dashboard", Nobody, NoProject, "read")]
    /\ UNCHANGED <<members, status, follows, feed, raced>>

Arrive(v) ==
    \/ \E u \in Users :
        \/ \E p \in Projects :
            \/ status[p] = "none" /\ Begin(v, "create", u, p, "write")
            \/ status[p] # "none" /\ \/ Begin(v, "update", u, p, "write")
                                     \/ Begin(v, "command", u, p, "write")
                                     \/ Begin(v, "follow", u, p, "find")
                                     \/ Begin(v, "unfollow", u, p, "find")
        \/ Begin(v, "leave", u, NoProject, "find")
    \/ BeginReading(v)

(***************************************************************************)
(* Project.create, Project#update, update_project_status.  An invalid form *)
(* comes back and nothing is written; an invalid project is not activated, *)
(* though it is said to be.                                                *)
(***************************************************************************)
Offered == {"Active", "Closed", "Pending"}  \* the select of an administrator's form

\* params[:status].downcase for an administrator
Downcased == {"active", "closed", "pending"}
Created(u) == IF u \in Admins THEN Downcased ELSE {"pending"}

Updated(u, s) == IF u \in Admins THEN Offered ELSE {s}

\* Variant: the status is the command.
CommandedAsSent == {"activate", "deactivate"}
Commanded == {"active", "pending"}

WriteProject(v) ==
    /\ At(v, "write")
    /\ LET p == visits[v].project
           u == visits[v].user
       IN
        \/ /\ visits[v].op = "create" => status[p] = "none"
           /\ \E s \in CASE visits[v].op = "create"  -> Created(u)
                         [] visits[v].op = "update"  -> Updated(u, status[p])
                         [] visits[v].op = "command" -> Commanded :
                status' = [status EXCEPT ![p] = s]
           /\ Goto(v, IF visits[v].op = "command" THEN "done" ELSE "feed")
        \/ Goto(v, "done") /\ UNCHANGED status
    /\ UNCHANGED <<members, follows, feed, raced>>

\* add_to_feed, a statement after the commit: when it raises, the project stays.
AddToFeed(v) ==
    /\ At(v, "feed")
    /\ \/ /\ feed' = feed \cup {[id |-> NextId(feed), owner |-> visits[v].user]}
          /\ Goto(v, IF visits[v].op = "create" THEN "find" ELSE "done")
       \/ Goto(v, "failed") /\ UNCHANGED feed
    /\ UNCHANGED <<members, status, follows, raced>>

\* follow: find_or_create_by, a query and then an insert.
AfterFollow(v) == IF visits[v].op = "create" THEN "done" ELSE "mail"
FindFollowOr(v, found) ==
    /\ At(v, "find") /\ visits[v].op \in {"create", "follow"}
    /\ Goto(v, IF found THEN AfterFollow(v) ELSE "insert")
    /\ UNCHANGED <<members, status, follows, feed, raced>>

\* Variant: follow creates without finding.
FindFollowNever(v) == FindFollowOr(v, FALSE)
FindFollow(v) == FindFollowOr(v, FollowsOf(v) # {})

InsertFollow(v) ==
    /\ At(v, "insert")
    /\ follows' = follows \cup {[id |-> NextId(follows), user |-> visits[v].user,
                                 project |-> visits[v].project]}
    /\ Goto(v, AfterFollow(v))
    /\ UNCHANGED <<members, status, feed, raced>>

\* send_email_notifications: deliver_now raises within the request, which has
\* followed already.
SendMails(v) ==
    /\ At(v, "mail")
    /\ Goto(v, "done") \/ Goto(v, "failed")
    /\ UNCHANGED <<members, status, follows, feed, raced>>

\* stop_following: the first row, then its removal.
FindToUnfollow(v) ==
    /\ At(v, "find") /\ visits[v].op = "unfollow"
    /\ IF FollowsOf(v) = {} THEN Goto(v, "done")
       ELSE Finding(v, {CHOOSE f \in FollowsOf(v) : \A g \in FollowsOf(v) : f.id <= g.id}, "remove")
    /\ UNCHANGED <<members, status, follows, feed, raced>>

DestroyFollow(v) ==
    /\ At(v, "remove") /\ visits[v].op = "unfollow"
    /\ follows' = follows \ visits[v].rows
    /\ Goto(v, "done")
    /\ UNCHANGED <<members, status, feed, raced>>

\* Deactivating an account destroys its follows (acts_as_follower: dependent:
\* :destroy) and keeps the row of the user, hidden (acts_as_paranoid).
FindToLeave(v) ==
    /\ At(v, "find") /\ visits[v].op = "leave"
    /\ Finding(v, {f \in follows : f.user = visits[v].user}, "remove")
    /\ UNCHANGED <<members, status, follows, feed, raced>>

LeaveDestroying(v, rows) ==
    /\ At(v, "remove") /\ visits[v].op = "leave"
    /\ follows' = follows \ rows
    /\ members' = members \ {visits[v].user}
    /\ Goto(v, "done")
    /\ UNCHANGED <<status, feed, raced>>

\* Variant: the follows of a hidden account are kept with it.
LeaveHidden(v) == LeaveDestroying(v, {})
Leave(v) == LeaveDestroying(v, visits[v].rows)

(***************************************************************************)
(* get_activities: the newest activities; those whose owner is not found   *)
(* are destroyed one by one, and the feed is read again.                   *)
(***************************************************************************)
Newest == {a \in feed : Cardinality({b \in feed : b.id > a.id}) < FeedLimit}
Errorous == {a \in Newest : a.owner \notin members}

ReadFeed(v) ==
    /\ At(v, "read")
    /\ IF Errorous = {} THEN Goto(v, "done") ELSE Finding(v, Errorous, "purge")
    /\ UNCHANGED <<members, status, follows, feed, raced>>

PurgeFrom(v, rows) ==
    /\ At(v, "purge")
    /\ \E a \in visits[v].rows :
        /\ feed' = rows \ {a}
        /\ Finding(v, visits[v].rows \ {a}, IF visits[v].rows = {a} THEN "read" ELSE "purge")
    /\ UNCHANGED <<members, status, follows, raced>>

\* Variant: activities are hidden from no query by destroying them.
PurgeNothing(v) == At(v, "purge") /\ Finding(v, {}, "read")
    /\ UNCHANGED <<members, status, follows, feed, raced>>
Purge(v) == PurgeFrom(v, feed)

Serve(v) ==
    \/ WriteProject(v) \/ AddToFeed(v)
    \/ FindFollow(v) \/ InsertFollow(v) \/ SendMails(v)
    \/ FindToUnfollow(v) \/ DestroyFollow(v)
    \/ FindToLeave(v) \/ Leave(v)
    \/ ReadFeed(v) \/ Purge(v)

ProjNext == \E v \in Visits : Arrive(v) \/ Serve(v)

-----------------------------------------------------------------------------
ProjTypeOK ==
    /\ members \subseteq Users /\ raced \subseteq Users
    /\ status \in [Projects -> {"none"} \cup Downcased \cup Offered]
    /\ \A f \in follows : f.id \in Nat /\ f.user \in Users /\ f.project \in Projects
    /\ \A a \in feed : a.id \in Nat /\ a.owner \in Users
    /\ \A v \in Visits : /\ visits[v].user \in Users
                         /\ visits[v].rows \subseteq follows \cup feed \cup visits[v].rows

\* Leaving a project works: an answered unfollow leaves no follow of that user
\* behind, although it removes one row, unless two of the user's requests
\* overlapped (follow's query and insert are not one statement).
UnfollowLeavesNone ==
    [][\A v \in Visits :
         /\ visits[v].op = "unfollow" /\ visits[v].at # "done" /\ visits'[v].at = "done"
         /\ visits[v].user \notin raced
         => \A f \in follows' : ~ (f.user = visits[v].user /\ f.project = visits[v].project)]_projVars

\* Project#members asks every follower for display_profile, and a deactivated
\* one is not found: no follow outlives its account unless the account was
\* left while another of its requests was running.
FollowsAreOfMembers == \A f \in follows : f.user \in members \cup raced

\* get_activities calls itself until a page has no activity without an owner;
\* it ends, however many such pages there are and whoever else reads, writes
\* or leaves meanwhile.
DashboardAnswers ==
    (\E v \in Visits : visits[v].op = "dashboard") ~> (\A v \in Visits : visits[v].op # "dashboard")
=============================================================================
