--------------------------- MODULE CommunityProofs ---------------------------
(***************************************************************************)
(* Proofs about what members do around a project, for any sets of          *)
(* documents, users, projects, repositories, requests and runs: no         *)
(* document is lost without a request from an outdated page, follows end   *)
(* with an unfollow or with the account, karma adds up, and a run of the   *)
(* languages task leaves every project updated or given up for a reason.   *)
(***************************************************************************)
EXTENDS MCCommunity, TLAPS, FiniteSetTheorems, WellFoundedInduction

(***************************************************************************)
(* Numbers, and the sum over a finite set.                                 *)
(***************************************************************************)
\* A set of numbers that is not empty has a least one.
LEMMA LeastOf ==
    ASSUME NEW S \in SUBSET Nat, S # {}
    PROVE  \E n \in S : \A m \in S : n <= m
<1> DEFINE less == {ss \in Nat \X Nat : ss[1] < ss[2]}
<1>1. IsWellFoundedOn(less, Nat)
  <2>1. OpToRel(<, Nat) = less
    BY Zenon DEF OpToRel
  <2> QED
    BY <2>1, NatLessThanWellFounded
<1>2. PICK n \in S : \A m \in S : <<m, n>> \notin less
  BY <1>1, WFMin
<1>3. ASSUME NEW m \in S PROVE n <= m
  <2>1. <<m, n>> \in less <=> m < n
    OBVIOUS
  <2> QED
    BY <1>2, <2>1
<1> QED
  BY <1>3

\* A bounded one has a greatest one.
LEMMA GreatestOf ==
    ASSUME NEW S \in SUBSET Nat, S # {}, NEW b \in Nat, \A m \in S : m <= b
    PROVE  P!Max(S) \in S /\ \A m \in S : m <= P!Max(S)
<1> DEFINE bounds == {n \in Nat : \A m \in S : m <= n}
<1>1. PICK n \in bounds : \A m \in bounds : n <= m
  BY LeastOf
<1>2. n \in S
  <2> SUFFICES ASSUME n \notin S PROVE FALSE
    OBVIOUS
  <2>1. \A m \in S : m <= n - 1 /\ n - 1 \in Nat
    OBVIOUS
  <2>2. n - 1 \in bounds
    BY <2>1
  <2> QED
    BY <1>1, <2>2
<1> QED
  BY <1>2 DEF P!Max

\* The number of the next row is one that no row has.
Bounded(rows) == \E b \in Nat : \A row \in rows : row.id <= b
\* The id of the next row is greater than those there are.
LEMMA NextRowIsNew ==
    ASSUME NEW rows, \A row \in rows : row.id \in Nat, Bounded(rows)
    PROVE  /\ P!NextId(rows) \in Nat /\ P!NextId(rows) = K!NextRow(rows)
           /\ \A row \in rows : row.id < P!NextId(rows)
<1> DEFINE ids == {row.id : row \in rows} \cup {0}
<1>1. PICK b \in Nat : \A row \in rows : row.id <= b
  BY DEF Bounded
<1>2. ids \subseteq Nat /\ ids # {} /\ \A m \in ids : m <= b
  BY <1>1
<1>3. P!Max(ids) \in ids /\ \A m \in ids : m <= P!Max(ids)
  BY <1>2, GreatestOf
<1>4. P!NextId(rows) = P!Max(ids) + 1 /\ K!NextRow(rows) = P!Max(ids) + 1
  BY DEF P!NextId, K!NextRow, P!Max, K!Max
<1>5. \A row \in rows : row.id \in ids
  OBVIOUS
<1> HIDE DEF ids
<1>6. P!Max(ids) \in Nat
  BY <1>2, <1>3
<1> QED
  BY <1>2, <1>3, <1>4, <1>5, <1>6

\* The recursion behind MapThenSumSet, as a property of a function on subsets.
One(s) == CHOOSE x \in s : TRUE
Sums(g, S) ==
    g = [s \in SUBSET S |-> IF s = {} THEN 0 ELSE One(s).count + g[s \ {One(s)}]]

\* Of sets of members of a finite set there is a smallest one.
LEMMA SmallestOf ==
    ASSUME NEW S, IsFiniteSet(S), NEW T \in SUBSET (SUBSET S), T # {}
    PROVE  \E s \in T : \A t \in T : t \subseteq s => t = s
<1>1. T \subseteq FiniteSubsetsOf(S)
  BY FS_FiniteSubsetsOfFinite
<1>2. PICK s \in T : \A t \in T : <<t, s>> \notin StrictSubsetOrdering(S)
  BY <1>1, FS_StrictSubsetOrderingWellFounded, WFMin
<1>3. ASSUME NEW t \in T, t \subseteq s PROVE t = s
  <2>1. <<t, s>> \in StrictSubsetOrdering(S) <=> t \subseteq s /\ t # s
    BY DEF StrictSubsetOrdering
  <2> QED
    BY <1>2, <1>3, <2>1
<1> QED
  BY <1>3

\* A set without one of its elements is smaller.
LEMMA WithoutOne ==
    ASSUME NEW s, s # {}
    PROVE  One(s) \in s /\ s \ {One(s)} \subseteq s /\ s \ {One(s)} # s
BY DEF One

\* What it says of a set depends on the set alone.
LEMMA SumsAgree ==
    ASSUME NEW S, NEW T, NEW g, NEW h, Sums(g, S), Sums(h, T), IsFiniteSet(S)
    PROVE  \A s \in (SUBSET S) \cap (SUBSET T) : g[s] = h[s]
<1> DEFINE differ == {s \in (SUBSET S) \cap (SUBSET T) : g[s] # h[s]}
<1> SUFFICES ASSUME differ # {} PROVE FALSE
  OBVIOUS
<1>1. differ \in SUBSET (SUBSET S)
  OBVIOUS
<1>2. PICK s \in differ : \A t \in differ : t \subseteq s => t = s
  <2> HIDE DEF differ
  <2> QED
    BY <1>1, SmallestOf
<1>3. CASE s = {}
  <2>1. g[s] = 0 /\ h[s] = 0
    BY <1>3 DEF Sums
  <2> QED
    BY <2>1
<1>4. CASE s # {}
  <2> DEFINE t == s \ {One(s)}
  <2>1. t \in (SUBSET S) \cap (SUBSET T) /\ t \notin differ
    BY <1>2, <1>4, WithoutOne
  <2>2. g[s] = One(s).count + g[t] /\ h[s] = One(s).count + h[t]
    BY <1>4 DEF Sums
  <2> QED
    BY <2>1, <2>2
<1> QED
  BY <1>3, <1>4

\* For a finite set of counts there is such a function, and it is of numbers.
LEMMA SumsExist ==
    ASSUME NEW S, IsFiniteSet(S), \A c \in S : c.count \in Nat
    PROVE  \E g : Sums(g, S) /\ \A s \in SUBSET S : g[s] \in Nat
<1> DEFINE Good(s, g) == Sums(g, s) /\ \A t \in SUBSET s : g[t] \in Nat
           without == {s \in SUBSET S : ~ \E g : Good(s, g)}
<1> SUFFICES ASSUME without # {} PROVE FALSE
  OBVIOUS
<1>1. PICK s \in without : \A t \in without : t \subseteq s => t = s
  <2>1. without \in SUBSET (SUBSET S)
    OBVIOUS
  <2> HIDE DEF without
  <2> QED
    BY <2>1, SmallestOf
<1>2. s \in SUBSET S /\ IsFiniteSet(s)
  BY FS_Subset
<1> DEFINE of(t) == CHOOSE g : Good(t, g)
           step(t) == IF t = {} THEN 0 ELSE One(t).count + of(t \ {One(t)})[t \ {One(t)}]
           sum == [t \in SUBSET s |-> step(t)]
<1>3. \A t \in SUBSET s : t # s => Good(t, of(t))
  BY <1>1, <1>2
<1> HIDE DEF Good
<1>4. ASSUME NEW t \in SUBSET s, t # s PROVE step(t) = of(t)[t]
  <2>1. Sums(of(t), t) /\ IsFiniteSet(t)
    BY <1>2, <1>3, <1>4, FS_Subset DEF Good
  <2>2. CASE t = {}
    BY <2>1, <2>2 DEF Sums
  <2>3. CASE t # {}
    <3> DEFINE u == t \ {One(t)}
    <3>1. u \in SUBSET t /\ u \in SUBSET s /\ u # s
      BY <1>4, <2>3, WithoutOne
    <3>2. Sums(of(u), u)
      BY <1>3, <3>1 DEF Good
    <3>3. of(t)[u] = of(u)[u]
      BY <2>1, <3>1, <3>2, SumsAgree
    <3>4. of(t)[t] = One(t).count + of(t)[u]
      BY <2>1, <2>3 DEF Sums
    <3> QED
      BY <2>3, <3>3, <3>4
  <2> QED
    BY <2>2, <2>3
<1>5. ASSUME NEW t \in SUBSET s
      PROVE  /\ sum[t] \in Nat
             /\ sum[t] = IF t = {} THEN 0 ELSE One(t).count + sum[t \ {One(t)}]
  <2>1. sum[t] = step(t)
    OBVIOUS
  <2>2. CASE t = {}
    BY <2>1, <2>2
  <2>3. CASE t # {}
    <3> DEFINE u == t \ {One(t)}
    <3>1. u \in SUBSET s /\ u # s /\ One(t) \in S
      BY <1>2, <2>3, WithoutOne
    <3>2. of(u)[u] \in Nat
      BY <1>3, <3>1 DEF Good
    <3>3. sum[u] = of(u)[u]
      BY <1>4, <3>1
    <3>4. step(t) = One(t).count + of(u)[u]
      BY <2>3
    <3> HIDE DEF sum, step, of, u
    <3> QED
      BY <2>1, <2>3, <3>1, <3>2, <3>3, <3>4 DEF u
  <2> QED
    BY <2>2, <2>3
<1>6. sum = [t \in SUBSET s |-> sum[t]]
  OBVIOUS
<1> HIDE DEF sum
<1>7. Sums(sum, s)
  BY <1>5, <1>6 DEF Sums
<1>8. Good(s, sum)
  BY <1>5, <1>7 DEF Good
<1> QED
  BY <1>8

\* commit_count_total is a number.
LEMMA CommitsAddUp ==
    ASSUME IsFiniteSet(commits), \A c \in commits : c.count \in Nat, NEW m
    PROVE  K!CommitsOf(m) \in Nat
<1> DEFINE S == {c \in commits : c.user = m}
           iter == CHOOSE iter : Sums(iter, S)
<1>1. IsFiniteSet(S) /\ \A c \in S : c.count \in Nat
  BY FS_Subset
<1>2. K!CommitsOf(m) = iter[S]
  BY DEF K!CommitsOf, K!MapThenSumSet, K!MapThenFoldSet, Sums, One
<1> HIDE DEF S
<1>3. PICK g : Sums(g, S) /\ \A s \in SUBSET S : g[s] \in Nat
  BY <1>1, SumsExist
<1>4. Sums(iter, S)
  BY <1>3
<1>5. iter[S] = g[S]
  BY <1>1, <1>3, <1>4, SumsAgree
<1> QED
  BY <1>2, <1>3, <1>5

(***************************************************************************)
(* Projects: following and leaving.                                        *)
(***************************************************************************)
\* A request holds its five fields, its user and, where it is about one, its
\* project; one without a purpose is not served, and each statement is of the
\* purposes that have it.
ProjectOps == {"create", "update", "command", "follow", "unfollow"}
VisitInv ==
    /\ DOMAIN visits = Visits
    /\ \A v \in Visits :
         /\ visits[v] = [at |-> visits[v].at, op |-> visits[v].op, user |-> visits[v].user,
                         project |-> visits[v].project, rows |-> visits[v].rows]
         /\ visits[v].user \in Users
         /\ visits[v].op \in ProjectOps => visits[v].project \in Projects
         /\ visits[v].op \in P!Following => v \in P!Underway
         /\ visits[v].at = "write" => visits[v].op \in {"create", "update", "command"}
         /\ visits[v].at = "insert" => visits[v].op \in {"create", "follow"}
         /\ visits[v].op = "unfollow" => visits[v].at \in {"find", "remove"}

\* The tables hold what they are of, and their ids are numbers with a greatest.
TableInv ==
    /\ members \subseteq Users /\ raced \subseteq Users
    /\ status \in [Projects -> {"none"} \cup P!Downcased \cup P!Offered]
    /\ \A f \in follows : f.id \in Nat /\ f.user \in Users /\ f.project \in Projects
    /\ \A a \in feed : a.id \in Nat /\ a.owner \in Users
    /\ Bounded(follows) /\ Bounded(feed)

\* Of a user whose requests have not overlapped one at most is on following,
\* and the account is active until that one leaves it, with all its follows.
\* The query of a follow and of an unfollow is still right when it is used.
FollowsBy(u, p) == {f \in follows : f.user = u /\ f.project = p}
AloneAt(v) ==
    /\ visits[v].user \in members
    /\ \A w \in Visits \ {v} :
         visits[w].op \in P!Following => visits[w].user # visits[v].user
    /\ visits[v].op = "leave" /\ visits[v].at = "remove" =>
         {f \in follows : f.user = visits[v].user} \subseteq visits[v].rows
    /\ visits[v].op = "unfollow" /\ visits[v].at = "remove" =>
         FollowsBy(visits[v].user, visits[v].project) \subseteq visits[v].rows
    /\ visits[v].at = "insert" => FollowsBy(visits[v].user, visits[v].project) = {}
AloneInv ==
    \A v \in Visits : visits[v].op \in P!Following /\ visits[v].user \notin raced => AloneAt(v)

\* Such a user has one follow of a project at most.
SingleInv ==
    \A f, g \in follows :
        f.user = g.user /\ f.project = g.project /\ f.user \notin raced => f = g

FollowInv == VisitInv /\ AloneInv /\ SingleInv /\ P!FollowsAreOfMembers
ProjInv == TableInv /\ FollowInv

\* The memory of a request as its statements leave it: answered, or at another
\* statement with the purpose, the user and the project it came with.
Answered(v) == visits'[v].op = "none" /\ visits'[v].at \in {"done", "failed"} /\ visits'[v].user \in Users
Continued(v) ==
    /\ visits'[v].op = visits[v].op /\ visits'[v].user = visits[v].user
    /\ visits'[v].project = visits[v].project
    /\ visits'[v].at \notin {"idle", "write", "done", "failed"}
Other(v) == \A w \in Visits \ {v} : visits'[w] = visits[w]
Whole(visit) ==
    visit = [at |-> visit.at, op |-> visit.op, user |-> visit.user,
             project |-> visit.project, rows |-> visit.rows]
Kept(v) ==
    /\ DOMAIN visits' = Visits /\ Other(v) /\ Whole(visits'[v])
    /\ Answered(v) \/ Continued(v)

\* Going to another statement keeps what a visit has in memory.
LEMMA GotoEffect ==
    ASSUME VisitInv, NEW v \in Visits, NEW label, label \notin {"idle", "write"}, P!Goto(v, label)
    PROVE  /\ Kept(v) /\ visits'[v].at = label
           /\ label \in {"done", "failed"} <=> Answered(v)
<1>1. CASE label \in {"done", "failed"}
  <2>1. visits' = [visits EXCEPT ![v] = P!Visit("none", P!Nobody, NoProject, label)]
    BY <1>1 DEF P!Goto
  <2>2. visits'[v] = [at |-> label, op |-> "none", user |-> P!Nobody, project |-> NoProject, rows |-> {}]
    BY <2>1 DEF VisitInv, P!Visit
  <2>3. P!Nobody \in Users
    BY CommunityAssumption DEF CommunityAssumption, P!Nobody
  <2> QED
    BY <1>1, <2>1, <2>2, <2>3 DEF VisitInv, Kept, Other, Whole, Answered
<1>2. CASE label \notin {"done", "failed"}
  <2>1. visits' = [visits EXCEPT ![v] = [visits[v] EXCEPT !.at = label]]
    BY <1>2 DEF P!Goto
  <2>2. visits'[v] = [at |-> label, op |-> visits[v].op, user |-> visits[v].user,
                      project |-> visits[v].project, rows |-> visits[v].rows]
    BY <2>1 DEF VisitInv
  <2> QED
    BY <1>2, <2>1, <2>2 DEF VisitInv, Kept, Other, Whole, Answered, Continued
<1> QED
  BY <1>1, <1>2

\* So does looking rows up, but for the rows.
LEMMA FindingEffect ==
    ASSUME VisitInv, NEW v \in Visits, NEW rows, NEW label,
           label \notin {"idle", "write", "done", "failed"}, P!Finding(v, rows, label)
    PROVE  Kept(v) /\ Continued(v) /\ visits'[v].at = label /\ visits'[v].rows = rows
<1>1. visits' = [visits EXCEPT ![v] = [[visits[v] EXCEPT !.rows = rows] EXCEPT !.at = label]]
  BY DEF P!Finding, VisitInv
<1>2. visits'[v] = [at |-> label, op |-> visits[v].op, user |-> visits[v].user,
                    project |-> visits[v].project, rows |-> rows]
  <2>1. [visits[v] EXCEPT !.rows = rows] =
          [at |-> visits[v].at, op |-> visits[v].op, user |-> visits[v].user,
           project |-> visits[v].project, rows |-> rows]
    BY DEF VisitInv
  <2>2. visits'[v] = [[visits[v] EXCEPT !.rows = rows] EXCEPT !.at = label]
    BY <1>1 DEF VisitInv
  <2> QED
    BY <2>1, <2>2
<1> QED
  BY <1>1, <1>2 DEF VisitInv, Kept, Other, Whole, Answered, Continued


\* A visit that keeps its memory keeps the invariant of the visits.
LEMMA KeptVisits ==
    ASSUME VisitInv, NEW v \in Visits, Kept(v),
           visits'[v].at = "insert" => visits[v].op \in {"create", "follow"},
           visits[v].op = "unfollow" => Answered(v) \/ visits'[v].at = "remove"
    PROVE  VisitInv'
BY DEF VisitInv, Kept, Other, Whole, Answered, Continued, P!Underway, P!Following, ProjectOps

\* A statement that leaves accounts and follows alone.
LEMMA QuietStep ==
    ASSUME FollowInv, NEW v \in Visits, UNCHANGED <<members, follows, raced>>, Kept(v),
           visits[v].op = "unfollow" => Answered(v) \/ visits'[v].at = "remove",
           visits'[v].at = "insert" =>
             /\ visits[v].op \in {"create", "follow"}
             /\ FollowsBy(visits[v].user, visits[v].project) = {},
           visits'[v].at = "remove" /\ visits'[v].op = "leave" =>
             {f \in follows : f.user = visits[v].user} \subseteq visits'[v].rows,
           visits'[v].at = "remove" /\ visits'[v].op = "unfollow" /\ visits[v].user \notin raced =>
             FollowsBy(visits[v].user, visits[v].project) \subseteq visits'[v].rows
    PROVE  FollowInv'
<1>1. VisitInv'
  BY KeptVisits DEF FollowInv
<1>2. AloneInv'
  BY DEF FollowInv, AloneInv, AloneAt, FollowsBy, Kept, Other, Answered, Continued, P!Following
<1> QED
  BY <1>1, <1>2 DEF FollowInv, SingleInv, P!FollowsAreOfMembers

\* A request that begins.
LEMMA BeginStep ==
    ASSUME FollowInv, NEW v \in Visits, NEW what, NEW u \in Users, NEW p, NEW label,
           P!Begin(v, what, u, p, label),
           \/ what \in {"create", "update", "command"} /\ p \in Projects /\ label = "write"
           \/ what \in {"follow", "unfollow"} /\ p \in Projects /\ label = "find"
           \/ what = "leave" /\ label = "find"
    PROVE  FollowInv'
<1>1. VisitInv /\ AloneInv /\ SingleInv /\ P!FollowsAreOfMembers
  BY DEF FollowInv
<1>2. /\ u \in members /\ visits[v].at = "idle" /\ UNCHANGED <<members, follows>>
      /\ visits' = [visits EXCEPT ![v] = P!Visit(what, u, p, label)]
      /\ raced' = IF \E w \in P!Underway : /\ visits[w].user = u
                                           /\ {what, visits[w].op} \subseteq P!Following
                  THEN raced \cup {u} ELSE raced
  BY DEF P!Begin, P!At
<1>3. /\ visits'[v] = [at |-> label, op |-> what, user |-> u, project |-> p, rows |-> {}]
      /\ \A w \in Visits \ {v} : visits'[w] = visits[w]
      /\ DOMAIN visits' = Visits
  BY <1>1, <1>2 DEF VisitInv, P!Visit
<1>4. VisitInv'
  BY <1>1, <1>3 DEF VisitInv, P!Underway, P!Following, ProjectOps
<1>5. raced \subseteq raced'
  BY <1>2
<1>6. \A w \in Visits \ {v} :
        visits[w].op \in P!Following /\ visits[w].user = u /\ what \in P!Following => u \in raced'
  BY <1>1, <1>2 DEF VisitInv
<1>7. AloneInv'
  BY <1>1, <1>2, <1>3, <1>5, <1>6 DEF AloneInv, AloneAt, FollowsBy
<1> QED
  BY <1>1, <1>2, <1>4, <1>5, <1>7 DEF FollowInv, SingleInv, P!FollowsAreOfMembers

\* Opening the dashboard keeps what is known of the follows.
LEMMA BeginReadingStep ==
    ASSUME FollowInv, NEW v \in Visits, P!BeginReading(v)
    PROVE  FollowInv'
<1>1. VisitInv /\ AloneInv
  BY DEF FollowInv
<1>2. /\ visits' = [visits EXCEPT ![v] = P!Visit("dashboard", P!Nobody, NoProject, "read")]
      /\ UNCHANGED <<members, follows, raced>>
  BY DEF P!BeginReading
<1>3. /\ visits'[v] = [at |-> "read", op |-> "dashboard", user |-> P!Nobody,
                       project |-> NoProject, rows |-> {}]
      /\ \A w \in Visits \ {v} : visits'[w] = visits[w]
      /\ DOMAIN visits' = Visits
  BY <1>1, <1>2 DEF VisitInv, P!Visit
<1>4. P!Nobody \in Users
  BY CommunityAssumption DEF CommunityAssumption, P!Nobody
<1>5. VisitInv'
  BY <1>1, <1>3, <1>4 DEF VisitInv, P!Underway, P!Following, ProjectOps
<1>6. AloneInv'
  BY <1>1, <1>2, <1>3 DEF AloneInv, AloneAt, FollowsBy, P!Following
<1> QED
  BY <1>2, <1>5, <1>6 DEF FollowInv, SingleInv, P!FollowsAreOfMembers

\* So does a request that arrives.
LEMMA ArriveStep ==
    ASSUME FollowInv, NEW v \in Visits, P!Arrive(v)
    PROVE  FollowInv'
<1>1. CASE P!BeginReading(v)
  BY <1>1, BeginReadingStep
<1>2. CASE ~ P!BeginReading(v)
  <2>1. PICK u \in Users :
          \/ \E p \in Projects :
               \/ \E what \in {"create", "update", "command"} : P!Begin(v, what, u, p, "write")
               \/ \E what \in {"follow", "unfollow"} : P!Begin(v, what, u, p, "find")
          \/ P!Begin(v, "leave", u, NoProject, "find")
    BY <1>2 DEF P!Arrive
  <2> QED
    BY <2>1, BeginStep
<1> QED
  BY <1>1, <1>2

\* The first of a user's follows of a project, when there is one at most.
LEMMA FirstFollow ==
    ASSUME TableInv, FollowInv, NEW v \in Visits, visits[v].user \notin raced,
           P!FollowsOf(v) # {}
    PROVE  P!FollowsOf(v) \subseteq
             {CHOOSE f \in P!FollowsOf(v) : \A g \in P!FollowsOf(v) : f.id <= g.id}
<1>1. PICK x \in P!FollowsOf(v) : TRUE
  OBVIOUS
<1>2. \A f \in P!FollowsOf(v) : f = x
  BY DEF P!FollowsOf, FollowInv, SingleInv
<1>3. x.id <= x.id
  BY <1>1 DEF TableInv, P!FollowsOf
<1>4. \A g \in P!FollowsOf(v) : x.id <= g.id
  BY <1>2, <1>3
<1> HIDE DEF P!FollowsOf
<1> QED
  BY <1>1, <1>2, <1>4

\* So does every statement of a request.
LEMMA ServeStep ==
    ASSUME TableInv, FollowInv, NEW v \in Visits, P!Serve(v)
    PROVE  FollowInv'
<1>1. VisitInv /\ AloneInv /\ SingleInv /\ P!FollowsAreOfMembers
  BY DEF FollowInv
<1>2. CASE P!WriteProject(v) \/ P!AddToFeed(v) \/ P!SendMails(v)
  <2>1. /\ UNCHANGED <<members, follows, raced>>
        /\ visits[v].at \in {"write", "feed", "mail"}
        /\ \E label \in {"feed", "find", "done", "failed"} : P!Goto(v, label)
    BY <1>2 DEF P!WriteProject, P!AddToFeed, P!SendMails, P!At
  <2>2. visits[v].op # "unfollow"
    BY <1>1, <2>1 DEF VisitInv
  <2> QED
    BY <1>1, <2>1, <2>2, GotoEffect, QuietStep
<1>3. CASE P!FindFollow(v)
  <2>1. UNCHANGED <<members, follows, raced>> /\ visits[v].op \in {"create", "follow"}
    BY <1>3 DEF P!FindFollow, P!FindFollowOr
  <2>2. CASE P!FollowsOf(v) = {} /\ P!Goto(v, "insert")
    <3>1. FollowsBy(visits[v].user, visits[v].project) = {}
      BY <2>2 DEF FollowsBy, P!FollowsOf
    <3> QED
      BY <1>1, <2>1, <2>2, <3>1, GotoEffect, QuietStep
  <2>3. CASE \E label \in {"mail", "done"} : P!Goto(v, label)
    BY <1>1, <2>1, <2>3, GotoEffect, QuietStep
  <2> QED
    BY <1>3, <2>2, <2>3 DEF P!FindFollow, P!FindFollowOr, P!AfterFollow
<1>4. CASE P!FindToUnfollow(v)
  <2>1. UNCHANGED <<members, follows, raced>> /\ visits[v].op = "unfollow"
    BY <1>4 DEF P!FindToUnfollow
  <2>2. CASE P!Goto(v, "done")
    BY <1>1, <2>1, <2>2, GotoEffect, QuietStep
  <2>3. CASE ~ P!Goto(v, "done")
    <3> DEFINE first == {CHOOSE f \in P!FollowsOf(v) : \A g \in P!FollowsOf(v) : f.id <= g.id}
    <3>1. P!FollowsOf(v) # {} /\ P!Finding(v, first, "remove")
      BY <1>4, <2>3 DEF P!FindToUnfollow
    <3>2. visits[v].user \notin raced => P!FollowsOf(v) \subseteq first
      BY <3>1, FirstFollow
    <3>3. P!FollowsOf(v) = FollowsBy(visits[v].user, visits[v].project)
      BY DEF P!FollowsOf, FollowsBy
    <3> HIDE DEF first
    <3>4. Kept(v) /\ Continued(v) /\ visits'[v].at = "remove" /\ visits'[v].rows = first
      BY <1>1, <3>1, FindingEffect
    <3> QED
      BY <2>1, <3>2, <3>3, <3>4, QuietStep DEF Continued
  <2> QED
    BY <2>2, <2>3
<1>5. CASE P!FindToLeave(v)
  <2>1. /\ UNCHANGED <<members, follows, raced>> /\ visits[v].op = "leave"
        /\ P!Finding(v, {f \in follows : f.user = visits[v].user}, "remove")
    BY <1>5 DEF P!FindToLeave
  <2>2. /\ Kept(v) /\ Continued(v) /\ visits'[v].at = "remove"
        /\ visits'[v].rows = {f \in follows : f.user = visits[v].user}
    BY <1>1, <2>1, FindingEffect
  <2> QED
    BY <2>1, <2>2, QuietStep DEF Continued
<1>6. CASE P!ReadFeed(v) \/ P!Purge(v)
  <2>1. UNCHANGED <<members, follows, raced>> /\ visits[v].at \in {"read", "purge"}
    BY <1>6 DEF P!ReadFeed, P!Purge, P!PurgeFrom, P!At
  <2>2. CASE P!Goto(v, "done")
    BY <1>1, <2>1, <2>2, GotoEffect, QuietStep
  <2>3. CASE \E rows, label : label \in {"read", "purge"} /\ P!Finding(v, rows, label)
    <3>1. Kept(v) /\ Continued(v) /\ visits'[v].at \in {"read", "purge"}
      BY <1>1, <2>3, FindingEffect
    <3>2. visits[v].op # "unfollow"
      BY <1>1, <2>1 DEF VisitInv
    <3> QED
      BY <2>1, <3>1, <3>2, QuietStep
  <2> QED
    BY <1>6, <2>2, <2>3 DEF P!ReadFeed, P!Purge, P!PurgeFrom
<1>7. CASE P!InsertFollow(v)
  <2>1. /\ visits[v].at = "insert" /\ UNCHANGED <<members, raced>>
        /\ \E label \in {"mail", "done"} : P!Goto(v, label)
    BY <1>7 DEF P!InsertFollow, P!At, P!AfterFollow
  <2>2. PICK f : /\ f.user = visits[v].user /\ f.project = visits[v].project
                 /\ follows' = follows \cup {f}
    <3> DEFINE f == [id |-> P!NextId(follows), user |-> visits[v].user,
                     project |-> visits[v].project]
    <3>1. f.user = visits[v].user /\ f.project = visits[v].project
      OBVIOUS
    <3>2. follows' = follows \cup {f}
      BY <1>7 DEF P!InsertFollow
    <3> HIDE DEF f
    <3> QED
      BY <3>1, <3>2
  <2>3. visits[v].op \in {"create", "follow"}
    BY <1>1, <2>1 DEF VisitInv
  <2>4. visits[v].user \in members \cup raced
    BY <1>1, <2>3 DEF AloneInv, AloneAt, P!Following
  <2>5. visits[v].user \notin raced => FollowsBy(visits[v].user, visits[v].project) = {}
    BY <1>1, <2>1, <2>3 DEF AloneInv, AloneAt, P!Following
  <2>6. Kept(v) /\ visits'[v].at \in {"mail", "done"}
    BY <1>1, <2>1, GotoEffect
  <2>7. VisitInv'
    BY <1>1, <2>3, <2>6, KeptVisits
  <2>8. SingleInv'
    BY <1>1, <2>1, <2>2, <2>5 DEF SingleInv, FollowsBy
  <2>9. AloneInv'
    <3> SUFFICES ASSUME NEW w \in Visits, visits'[w].op \in P!Following, visits'[w].user \notin raced
                 PROVE  AloneAt(w)'
      BY <2>1 DEF AloneInv
    <3>1. CASE w = v
      BY <1>1, <2>1, <2>3, <2>6, <3>1 DEF AloneInv, AloneAt, Kept, Other, Answered, Continued, P!Following
    <3>2. CASE w # v
      <4>1. visits'[w] = visits[w] /\ visits[w].user # visits[v].user
        BY <1>1, <2>3, <2>6, <3>2 DEF AloneInv, AloneAt, Kept, Other, P!Following
      <4>2. \A x \in Visits \ {w} :
              visits'[x].op \in P!Following => visits'[x].user # visits'[w].user
        BY <1>1, <2>6, <3>2, <4>1 DEF AloneInv, AloneAt, Kept, Other, Answered, Continued, P!Following
      <4>3. AloneAt(w)
        BY <1>1, <4>1 DEF AloneInv
      <4>4. /\ {g \in follows' : g.user = visits[w].user} = {g \in follows : g.user = visits[w].user}
            /\ FollowsBy(visits[w].user, visits[w].project)' = FollowsBy(visits[w].user, visits[w].project)
        BY <2>2, <4>1 DEF FollowsBy
      <4> QED
        BY <2>1, <4>1, <4>2, <4>3, <4>4 DEF AloneAt
    <3> QED
      BY <3>1, <3>2
  <2> QED
    BY <1>1, <2>1, <2>2, <2>4, <2>7, <2>8, <2>9 DEF FollowInv, P!FollowsAreOfMembers
<1>8. CASE P!DestroyFollow(v)
  <2>1. UNCHANGED <<members, raced>> /\ follows' \subseteq follows /\ P!Goto(v, "done")
    BY <1>8 DEF P!DestroyFollow
  <2>2. Kept(v) /\ Answered(v)
    BY <1>1, <2>1, GotoEffect
  <2>3. VisitInv'
    BY <1>1, <2>2, KeptVisits DEF Answered
  <2>4. AloneInv'
    BY <1>1, <2>1, <2>2 DEF AloneInv, AloneAt, FollowsBy, Kept, Other, Answered, P!Following
  <2> QED
    BY <1>1, <2>1, <2>3, <2>4 DEF FollowInv, SingleInv, P!FollowsAreOfMembers
<1>9. CASE P!Leave(v)
  <2>1. /\ visits[v].op = "leave" /\ visits[v].at = "remove"
        /\ follows' = follows \ visits[v].rows
        /\ members' = members \ {visits[v].user}
        /\ raced' = raced /\ P!Goto(v, "done")
    BY <1>9 DEF P!Leave, P!LeaveDestroying, P!At
  <2>2. Kept(v) /\ Answered(v)
    BY <1>1, <2>1, GotoEffect
  <2>3. visits[v].user \notin raced =>
          /\ \A f \in follows' : f.user # visits[v].user
          /\ \A w \in Visits \ {v} :
               visits[w].op \in P!Following => visits[w].user # visits[v].user
    BY <1>1, <2>1 DEF AloneInv, AloneAt, P!Following
  <2>4. VisitInv'
    BY <1>1, <2>2, KeptVisits DEF Answered
  <2>5. AloneInv'
    BY <1>1, <2>1, <2>2, <2>3 DEF AloneInv, AloneAt, FollowsBy, Kept, Other, Answered, P!Following
  <2>6. P!FollowsAreOfMembers'
    BY <1>1, <2>1, <2>3 DEF P!FollowsAreOfMembers
  <2>7. SingleInv'
    BY <1>1, <2>1 DEF SingleInv
  <2> QED
    BY <2>4, <2>5, <2>6, <2>7 DEF FollowInv
<1> QED
  BY <1>2, <1>3, <1>4, <1>5, <1>6, <1>7, <1>8, <1>9 DEF P!Serve

\* A row with the next id keeps ids bounded.
LEMMA OneMoreRow ==
    ASSUME NEW rows, \A row \in rows : row.id \in Nat, Bounded(rows), NEW new, new.id = P!NextId(rows)
    PROVE  new.id \in Nat /\ Bounded(rows \cup {new})
<1>1. new.id \in Nat /\ \A row \in rows : row.id <= new.id
  BY NextRowIsNew
<1> QED
  BY <1>1 DEF Bounded

\* Every step keeps the types and the ids of the table of follows.
LEMMA TableStep ==
    ASSUME TableInv, VisitInv, P!ProjNext
    PROVE  TableInv'
<1>1. PICK v \in Visits : P!Arrive(v) \/ P!Serve(v)
  BY DEF P!ProjNext
<1>2. CASE P!Arrive(v)
  <2>1. UNCHANGED <<members, status, follows, feed>>
    BY <1>2 DEF P!Arrive, P!Begin, P!BeginReading
  <2>2. raced' \subseteq Users
    BY <1>2 DEF TableInv, P!Arrive, P!Begin, P!BeginReading
  <2> QED
    BY <2>1, <2>2 DEF TableInv, Bounded
<1>3. CASE P!WriteProject(v)
  <2>1. UNCHANGED <<members, follows, feed, raced>>
    BY <1>3 DEF P!WriteProject
  <2>2. /\ visits[v].op \in {"create", "update", "command"} /\ visits[v].project \in Projects
        /\ visits[v].user \in Users
    BY <1>3 DEF P!WriteProject, P!At, VisitInv, ProjectOps
  <2>3. status[visits[v].project] \in {"none"} \cup P!Downcased \cup P!Offered
    BY <2>2 DEF TableInv
  <2>4. status' \in [Projects -> {"none"} \cup P!Downcased \cup P!Offered]
    BY <1>3, <2>2, <2>3 DEF TableInv, P!WriteProject, P!Created, P!Updated, P!Commanded, P!Downcased, P!Offered
  <2> QED
    BY <2>1, <2>4 DEF TableInv, Bounded
<1>4. CASE P!AddToFeed(v)
  <2>1. UNCHANGED <<members, status, follows, raced>>
    BY <1>4 DEF P!AddToFeed
  <2>2. CASE UNCHANGED feed
    BY <2>1, <2>2 DEF TableInv, Bounded
  <2>3. CASE feed' = feed \cup {[id |-> P!NextId(feed), owner |-> visits[v].user]}
    <3> DEFINE a == [id |-> P!NextId(feed), owner |-> visits[v].user]
    <3>1. a.id \in Nat /\ Bounded(feed \cup {a})
      BY OneMoreRow DEF TableInv
    <3>2. a.owner \in Users
      BY DEF VisitInv
    <3>3. feed' = feed \cup {a}
      BY <2>3
    <3> HIDE DEF a
    <3> QED
      BY <2>1, <3>1, <3>2, <3>3 DEF TableInv, Bounded
  <2> QED
    BY <1>4, <2>2, <2>3 DEF P!AddToFeed
<1>5. CASE P!InsertFollow(v)
  <2>1. UNCHANGED <<members, status, feed, raced>>
    BY <1>5 DEF P!InsertFollow
  <2> DEFINE f == [id |-> P!NextId(follows), user |-> visits[v].user,
                   project |-> visits[v].project]
  <2>2. f.id \in Nat /\ Bounded(follows \cup {f})
    BY OneMoreRow DEF TableInv
  <2>3. f.user \in Users /\ f.project \in Projects
    BY <1>5 DEF VisitInv, ProjectOps, P!InsertFollow, P!At
  <2>4. follows' = follows \cup {f}
    BY <1>5 DEF P!InsertFollow
  <2> HIDE DEF f
  <2> QED
    BY <2>1, <2>2, <2>3, <2>4 DEF TableInv, Bounded
<1>6. CASE P!DestroyFollow(v) \/ P!Leave(v)
  <2>1. UNCHANGED <<status, feed, raced>> /\ follows' \subseteq follows /\ members' \subseteq members
    BY <1>6 DEF P!DestroyFollow, P!Leave, P!LeaveDestroying
  <2> QED
    BY <2>1 DEF TableInv, Bounded
<1>7. CASE P!Purge(v)
  <2>1. UNCHANGED <<members, status, follows, raced>> /\ feed' \subseteq feed
    BY <1>7 DEF P!Purge, P!PurgeFrom
  <2> QED
    BY <2>1 DEF TableInv, Bounded
<1>8. CASE P!FindFollow(v) \/ P!SendMails(v) \/ P!FindToUnfollow(v) \/ P!FindToLeave(v) \/ P!ReadFeed(v)
  <2>1. UNCHANGED <<members, status, follows, feed, raced>>
    BY <1>8 DEF P!FindFollow, P!FindFollowOr, P!SendMails, P!FindToUnfollow, P!FindToLeave, P!ReadFeed
  <2> QED
    BY <2>1 DEF TableInv, Bounded
<1> QED
  BY <1>1, <1>2, <1>3, <1>4, <1>5, <1>6, <1>7, <1>8 DEF P!Serve

\* Every step keeps the invariant of the projects.
LEMMA ProjStep == ProjInv /\ [P!ProjNext]_projVars => ProjInv'
<1> SUFFICES ASSUME ProjInv, [P!ProjNext]_projVars PROVE ProjInv'
  OBVIOUS
<1>1. CASE UNCHANGED projVars
  BY <1>1 DEF projVars, ProjInv, TableInv, Bounded, FollowInv, VisitInv, AloneInv, AloneAt, SingleInv,
              FollowsBy, P!FollowsAreOfMembers, P!Underway
<1>2. CASE P!ProjNext
  <2>1. TableInv'
    BY <1>2, TableStep DEF ProjInv, FollowInv
  <2>2. FollowInv'
    BY <1>2, ArriveStep, ServeStep DEF ProjInv, P!ProjNext
  <2> QED
    BY <2>1, <2>2 DEF ProjInv
<1> QED
  BY <1>1, <1>2

\* The projects begin in their invariant.
LEMMA ProjStart == P!ProjInit => ProjInv
<1> SUFFICES ASSUME P!ProjInit PROVE ProjInv
  OBVIOUS
<1>1. /\ DOMAIN visits = Visits /\ follows = {} /\ feed = {} /\ raced = {} /\ members = Users
      /\ status = [p \in Projects |-> "none"]
      /\ \A v \in Visits : visits[v] = [at |-> "idle", op |-> "none", user |-> P!Nobody,
                                        project |-> NoProject, rows |-> {}]
  BY DEF P!ProjInit, P!Visit
<1>2. P!Nobody \in Users
  BY CommunityAssumption DEF CommunityAssumption, P!Nobody
<1>3. TableInv
  BY <1>1 DEF TableInv, Bounded
<1> QED
  BY <1>1, <1>2, <1>3 DEF ProjInv, FollowInv, VisitInv, AloneInv, AloneAt, SingleInv,
                          P!FollowsAreOfMembers, P!Following, ProjectOps

\* An unfollow that is answered leaves no follow of its user, unless two of the
\* user's requests overlapped.
LEMMA UnfollowStep ==
    ASSUME ProjInv, P!ProjNext, NEW v \in Visits,
           visits[v].op = "unfollow", visits[v].at # "done", visits'[v].at = "done",
           visits[v].user \notin raced
    PROVE  \A f \in follows' : ~ (f.user = visits[v].user /\ f.project = visits[v].project)
<1>1. VisitInv /\ AloneInv
  BY DEF ProjInv, FollowInv
<1>2. visits[v].at \in {"find", "remove"} /\ visits[v].op \in P!Following
  BY <1>1 DEF VisitInv, P!Following
<1>3. PICK w \in Visits : P!Arrive(w) \/ P!Serve(w)
  BY DEF P!ProjNext
<1>4. w = v
  <2> SUFFICES \E visit : visits' = [visits EXCEPT ![w] = visit]
    BY <1>1 DEF VisitInv
  <2>1. CASE P!Arrive(w)
    BY <2>1 DEF P!Arrive, P!Begin, P!BeginReading
  <2>2. CASE P!Serve(w)
    BY <2>2 DEF P!Serve, P!Goto, P!Finding, P!WriteProject, P!AddToFeed, P!SendMails,
       P!FindFollow, P!FindFollowOr, P!InsertFollow, P!FindToUnfollow, P!DestroyFollow,
       P!FindToLeave, P!Leave, P!LeaveDestroying, P!ReadFeed, P!Purge, P!PurgeFrom
  <2> QED
    BY <1>3, <2>1, <2>2
<1>5. ~ P!Arrive(v)
  BY <1>2 DEF P!Arrive, P!Begin, P!BeginReading, P!At
<1>6. P!FindToUnfollow(v) \/ P!DestroyFollow(v)
  BY <1>2, <1>3, <1>4, <1>5 DEF P!Serve, P!At, P!WriteProject, P!AddToFeed, P!SendMails, P!FindFollow,
     P!FindFollowOr, P!InsertFollow, P!FindToLeave, P!Leave, P!LeaveDestroying, P!ReadFeed,
     P!Purge, P!PurgeFrom
<1>7. CASE P!FindToUnfollow(v)
  <2>1. UNCHANGED follows /\ P!FollowsOf(v) = {}
    <3>1. SUFFICES ASSUME NEW rows, P!Finding(v, rows, "remove") PROVE FALSE
      BY <1>7 DEF P!FindToUnfollow
    <3> QED
      BY <1>1, <3>1, FindingEffect
  <2> QED
    BY <2>1 DEF P!FollowsOf, FollowsBy
<1>8. CASE P!DestroyFollow(v)
  <2>1. follows' = follows \ visits[v].rows /\ visits[v].at = "remove"
    BY <1>8 DEF P!DestroyFollow, P!At
  <2> QED
    BY <1>1, <1>2, <2>1 DEF AloneInv, AloneAt, FollowsBy
<1> QED
  BY <1>6, <1>7, <1>8

(***************************************************************************)
(* Documents: what no category leads to.                                   *)
(***************************************************************************)
\* A request is not about its own target, and what is to be created does not
\* exist and is created once.
EditInv ==
    \A r \in Editors :
        /\ edits[r].at \in {"page", "loaded"} =>
             /\ edits[r].doc \in Docs /\ edits[r].op # "none"
             /\ edits[r].target # edits[r].doc
        /\ edits[r].at = "loaded" => edits[r].op # "create"
        /\ edits[r].op = "create" /\ edits[r].at = "page" =>
             /\ edits[r].doc \notin docs
             /\ \A q \in Editors \ {r} : edits[q].doc # edits[r].doc \/ edits[q].op # "create"

\* Documents that hang below each other, or below rows that are gone, have
\* one that was put or left there when there was no category any more.
Astray(T) ==
    \A d \in T : /\ parent[d] # NoDoc /\ d \notin stale
                 /\ parent[d] \in T \/ parent[d] \notin docs
NoneAstray == \A T \in SUBSET docs : Astray(T) => T = {}

DocInv == D!DocTypeOK /\ EditInv /\ NoneAstray

\* What is below a set of documents is in every set with them that is closed
\* under children.
LEMMA BelowIsLeast ==
    ASSUME NEW d \in docs, NEW tops \in SUBSET docs, d \notin D!Below(tops)
    PROVE  \E S \in SUBSET docs : tops \subseteq S /\ D!ChildrenOf(S) \subseteq S /\ d \notin S
BY DEF D!Below

\* What is below documents are documents.
LEMMA BelowAreDocs ==
    ASSUME D!DocTypeOK, NEW tops \in SUBSET Docs
    PROVE  D!Below(tops) \subseteq Docs
BY DEF D!Below, D!DocTypeOK

\* What is lost is below a document that an outdated page changed.
LEMMA LostAreBelowStale ==
    ASSUME DocInv
    PROVE  D!LostNeedsStalePage
<1> SUFFICES ASSUME NEW d \in docs, d \notin D!Below(D!Categories), d \notin D!Below(stale)
             PROVE  FALSE
  BY DEF D!LostNeedsStalePage, D!Lost
<1>1. D!Categories \in SUBSET docs /\ stale \in SUBSET docs
  BY DEF D!Categories, DocInv, D!DocTypeOK
<1>2. PICK A \in SUBSET docs :
        D!Categories \subseteq A /\ D!ChildrenOf(A) \subseteq A /\ d \notin A
  BY <1>1, BelowIsLeast
<1>3. PICK B \in SUBSET docs : stale \subseteq B /\ D!ChildrenOf(B) \subseteq B /\ d \notin B
  BY <1>1, BelowIsLeast
<1>4. Astray(docs \ (A \cup B))
  BY <1>2, <1>3 DEF Astray, D!Categories, D!ChildrenOf
<1> QED
  BY <1>2, <1>3, <1>4 DEF DocInv, NoneAstray

\* A document that gets another parent, a category, none, or else as a stale
\* one, leads no others astray.
LEMMA NoneAstrayBelow ==
    ASSUME D!DocTypeOK, NoneAstray, NEW d \in Docs, NEW p \in Docs \cup {NoDoc}, p # d,
           docs' = docs \cup {d}, parent' = [parent EXCEPT ![d] = p],
           stale' = D!StaleAfter(d, p)
    PROVE  NoneAstray'
<1> SUFFICES ASSUME NEW T \in SUBSET (docs \cup {d}), Astray(T)' PROVE T = {}
  BY DEF NoneAstray
<1>1. /\ \A x \in T : /\ parent'[x] # NoDoc /\ x \notin stale'
                      /\ parent'[x] \in T \/ parent'[x] \notin docs \cup {d}
  BY DEF Astray
<1>2. parent'[d] = p /\ \A x \in Docs \ {d} : parent'[x] = parent[x]
  BY DEF D!DocTypeOK
<1>3. d \notin T
  <2> SUFFICES ASSUME d \in T PROVE FALSE
    OBVIOUS
  <2>1. p \in D!Categories
    BY <1>1, <1>2 DEF D!StaleAfter
  <2>2. p \in docs /\ parent[p] = NoDoc
    BY <2>1 DEF D!Categories
  <2>3. p \in T /\ parent'[p] = NoDoc
    BY <1>1, <1>2, <2>2 DEF D!DocTypeOK
  <2> QED
    BY <1>1, <2>3
<1>4. Astray(T)
  BY <1>1, <1>2, <1>3 DEF Astray, D!StaleAfter, D!DocTypeOK
<1> QED
  BY <1>3, <1>4 DEF NoneAstray

\* Opening a form of a document keeps the invariant of the documents.
LEMMA OpenPageStep ==
    ASSUME DocInv, NEW r \in Editors, NEW what \in {"create", "edit", "move", "destroy"},
           NEW d \in Docs, NEW p \in Docs \cup {NoDoc}, p # d, D!OpenPage(r, what, d, p),
           what = "create" => d \notin docs /\ \A q \in Editors : edits[q].doc # d,
           what # "create" => d \in docs
    PROVE  DocInv'
<1>1. /\ UNCHANGED <<docs, parent, stale>>
      /\ edits' = [edits EXCEPT ![r] =
           [at |-> "page", op |-> what, doc |-> d, target |-> p, seen |-> NoDoc, tree |-> {}]]
  BY DEF D!OpenPage, D!Edit
<1>2. D!DocTypeOK'
  BY <1>1 DEF DocInv, D!DocTypeOK
<1>3. EditInv'
  BY <1>1 DEF DocInv, D!DocTypeOK, EditInv
<1> QED
  BY <1>1, <1>2, <1>3 DEF DocInv, NoneAstray, Astray

\* Every step keeps the invariant of the documents.
LEMMA DocStep == DocInv /\ [D!DocNext]_docVars => DocInv'
<1> SUFFICES ASSUME DocInv, [D!DocNext]_docVars PROVE DocInv'
  OBVIOUS
<1>1. D!DocTypeOK /\ EditInv /\ NoneAstray /\ NoDoc \notin Docs
  BY CommunityAssumption DEF DocInv, CommunityAssumption
<1>2. CASE UNCHANGED docVars
  BY <1>1, <1>2 DEF docVars, DocInv, D!DocTypeOK, EditInv, NoneAstray, Astray
<1>3. ASSUME NEW r \in Editors, D!OpenNew(r) \/ D!OpenEdit(r) \/ D!OpenSections(r) \/ D!OpenToDestroy(r)
      PROVE  DocInv'
  <2>1. CASE D!OpenNew(r)
    <3>1. PICK d \in Docs \ docs, p \in D!Categories \cup {NoDoc} :
            (\A q \in Editors : edits[q].doc # d) /\ D!OpenPage(r, "create", d, p)
      BY <2>1 DEF D!OpenNew
    <3>2. p # d /\ p \in Docs \cup {NoDoc}
      BY <1>1 DEF D!Categories, D!DocTypeOK
    <3> QED
      BY <3>1, <3>2, OpenPageStep
  <2>2. CASE D!OpenSections(r)
    <3>1. PICK d \in docs, c \in D!Categories : c # d /\ D!OpenPage(r, "move", d, c)
      BY <2>2 DEF D!OpenSections
    <3>2. d \in Docs /\ c # d /\ c \in Docs
      BY <1>1, <3>1 DEF D!Categories, D!DocTypeOK
    <3> QED
      BY <3>1, <3>2, OpenPageStep
  <2>3. CASE D!OpenEdit(r) \/ D!OpenToDestroy(r)
    <3>1. PICK d \in docs, what \in {"edit", "destroy"} : D!OpenPage(r, what, d, NoDoc)
      BY <2>3 DEF D!OpenEdit, D!OpenToDestroy
    <3>2. d \in Docs /\ NoDoc # d
      BY <1>1 DEF D!DocTypeOK
    <3> QED
      BY <3>1, <3>2, OpenPageStep
  <2> QED
    BY <1>3, <2>1, <2>2, <2>3
<1>4. ASSUME NEW r \in Editors, D!Create(r) PROVE DocInv'
  <2> DEFINE d == edits[r].doc
             p == edits[r].target
  <2>1. /\ edits[r].at = "page" /\ edits[r].op = "create"
        /\ docs' = docs \cup {d} /\ parent' = [parent EXCEPT ![d] = p]
        /\ stale' = D!StaleAfter(d, p)
        /\ edits' = [edits EXCEPT ![r].at = "done"]
    BY <1>4 DEF D!Create, D!Go
  <2>2. d \in Docs /\ p \in Docs \cup {NoDoc} /\ p # d
    BY <1>1, <2>1 DEF EditInv, D!DocTypeOK
  <2>3. D!DocTypeOK'
    BY <1>1, <2>1, <2>2 DEF D!DocTypeOK, D!StaleAfter
  <2>4. EditInv'
    BY <1>1, <2>1, <2>2 DEF EditInv, D!DocTypeOK
  <2>5. NoneAstray'
    BY <1>1, <2>1, <2>2, NoneAstrayBelow
  <2> QED
    BY <2>3, <2>4, <2>5 DEF DocInv
<1>5. ASSUME NEW r \in Editors, D!Refuse(r) PROVE DocInv'
  <2>1. UNCHANGED <<docs, parent, stale>> /\ edits' = [edits EXCEPT ![r].target = NoDoc]
    BY <1>5 DEF D!Refuse
  <2>2. D!DocTypeOK'
    BY <1>1, <2>1 DEF D!DocTypeOK
  <2>3. EditInv'
    BY <1>1, <2>1 DEF EditInv, D!DocTypeOK
  <2> QED
    BY <1>1, <2>1, <2>2, <2>3 DEF DocInv, NoneAstray, Astray
<1>6. ASSUME NEW r \in Editors, D!Load(r) PROVE DocInv'
  <2>1. /\ UNCHANGED <<docs, parent, stale>>
        /\ edits[r].at = "page" /\ edits[r].op # "create"
    BY <1>6 DEF D!Load
  <2>2. edits[r].doc \in Docs
    BY <1>1, <2>1 DEF EditInv
  <2>3. PICK at \in {"loaded", "done"}, seen \in Docs \cup {NoDoc}, tree \in SUBSET Docs :
          edits' = [edits EXCEPT ![r] = [edits[r] EXCEPT !.at = at, !.seen = seen, !.tree = tree]]
    <3>1. parent[edits[r].doc] \in Docs \cup {NoDoc} /\ D!Below({edits[r].doc}) \subseteq Docs
      BY <1>1, <2>2, BelowAreDocs DEF D!DocTypeOK
    <3> QED
      BY <1>6, <3>1 DEF D!Load
  <2>4. D!DocTypeOK'
    <3> DEFINE edit == [edits[r] EXCEPT !.at = at, !.seen = seen, !.tree = tree]
               Edit == [at : {"idle", "page", "loaded", "done"},
                        op : {"none", "create", "edit", "move", "destroy"},
                        doc : Docs \cup {NoDoc}, target : Docs \cup {NoDoc},
                        seen : Docs \cup {NoDoc}, tree : SUBSET Docs]
    <3>1. edits \in [Editors -> Edit]
      BY <1>1 DEF D!DocTypeOK
    <3>2. edit \in Edit
      BY <3>1
    <3> HIDE DEF edit, Edit
    <3>3. edits' \in [Editors -> Edit]
      BY <2>3, <3>1, <3>2 DEF edit
    <3> QED
      BY <1>1, <2>1, <3>3 DEF D!DocTypeOK, Edit
  <2>5. EditInv'
    BY <1>1, <2>1, <2>3 DEF EditInv, D!DocTypeOK
  <2> QED
    BY <1>1, <2>1, <2>4, <2>5 DEF DocInv, NoneAstray, Astray
<1>7. ASSUME NEW r \in Editors, D!Write(r) PROVE DocInv'
  <2> DEFINE d == edits[r].doc
             p == edits[r].target
  <2>1. /\ edits[r].at = "loaded" /\ edits[r].op \in {"edit", "move"}
        /\ edits' = [edits EXCEPT ![r].at = "done"] /\ docs' = docs
    BY <1>7 DEF D!Write, D!Go
  <2>2. d \in Docs /\ p \in Docs \cup {NoDoc} /\ p # d
    BY <1>1, <2>1 DEF EditInv, D!DocTypeOK
  <2>3. EditInv'
    BY <1>1, <2>1 DEF EditInv, D!DocTypeOK
  <2>4. CASE UNCHANGED <<parent, stale>>
    <3>1. D!DocTypeOK'
      BY <1>1, <2>1, <2>4 DEF D!DocTypeOK
    <3> QED
      BY <1>1, <2>1, <2>3, <2>4, <3>1 DEF DocInv, NoneAstray, Astray
  <2>5. CASE d \in docs /\ parent' = [parent EXCEPT ![d] = p] /\ stale' = D!StaleAfter(d, p)
    <3>1. D!DocTypeOK'
      BY <1>1, <2>1, <2>2, <2>5 DEF D!DocTypeOK, D!StaleAfter
    <3>2. docs' = docs \cup {d}
      BY <2>1, <2>5
    <3>3. NoneAstray'
      BY <1>1, <2>2, <2>5, <3>2, NoneAstrayBelow
    <3> QED
      BY <2>3, <3>1, <3>3 DEF DocInv
  <2> QED
    BY <1>7, <2>4, <2>5 DEF D!Write
<1>8. ASSUME NEW r \in Editors, D!Destroy(r) PROVE DocInv'
  <2> DEFINE tree == edits[r].tree
  <2>1. /\ docs' = docs \ tree /\ parent' = parent
        /\ stale' = (stale \ tree) \cup (D!ChildrenOf(tree) \ tree)
        /\ edits' = [edits EXCEPT ![r].at = "done"]
    BY <1>8 DEF D!Destroy, D!DestroyRows, D!Go
  <2>2. D!DocTypeOK'
    BY <1>1, <2>1 DEF D!DocTypeOK, D!ChildrenOf
  <2>3. EditInv'
    BY <1>1, <2>1 DEF EditInv, D!DocTypeOK
  <2>4. NoneAstray'
    <3> SUFFICES ASSUME NEW T \in SUBSET docs', Astray(T)' PROVE T = {}
      BY DEF NoneAstray
    <3>1. Astray(T)
      BY <2>1 DEF Astray, D!ChildrenOf
    <3> QED
      BY <1>1, <2>1, <3>1 DEF NoneAstray
  <2> QED
    BY <2>2, <2>3, <2>4 DEF DocInv
<1> QED
  BY <1>2, <1>3, <1>4, <1>5, <1>6, <1>7, <1>8 DEF D!DocNext

\* The documents begin in their invariant.
LEMMA DocStart == D!DocInit => DocInv
BY CommunityAssumption DEF D!DocInit, D!NoEdit, D!Edit, DocInv, D!DocTypeOK, EditInv, NoneAstray, Astray

(***************************************************************************)
(* Karma and commit counts.                                                *)
(***************************************************************************)
KarmaRow == [id : Nat, user : Members, activity : Nat, commits : Nat, total : Nat]
CountRow == [id : Nat, user : Members, project : Repos, count : Counts]
JobType ==
    [at : {"idle", "next", "calculate", "sum", "save", "validate", "ended", "aborted"},
     task : {"karma", "commits"}, todo : SUBSET (Members \cup (Repos \X Members)),
     known : [Members -> Nat], row : KarmaRow \cup CountRow \cup {NoRow},
     pair : (Repos \X Members) \cup {NoRow}, activity : Nat, commits : Nat, total : Nat]

\* A run has what its task works on, and what its statement has found before.
AtKarma(job) == job.task = "karma" /\ job.at \in {"calculate", "sum", "save"}
AtCount(job) == job.task = "commits" /\ job.at \in {"validate", "save"}
JobOK(job) ==
    /\ job \in JobType
    /\ job.at \in {"calculate", "sum"} => job.task = "karma"
    /\ job.at = "validate" => job.task = "commits"
    /\ job.at \in {"idle", "next", "ended", "aborted"} => job.row = NoRow
    /\ job.task = "karma" => job.todo \subseteq Members /\ job.row \in KarmaRow \cup {NoRow}
    /\ job.task = "commits" => job.todo \subseteq Repos \X Members /\ job.row \in CountRow \cup {NoRow}
    /\ AtKarma(job) => job.todo # {}
    /\ AtKarma(job) /\ job.at = "save" => job.total = job.activity + job.commits
    /\ AtCount(job) => job.pair \in Repos \X Members /\ job.commits \in Counts

\* The row it has found is still there, perhaps with other columns.
Held(job) ==
    job.row # NoRow =>
        \E k \in IF job.task = "karma" THEN karmas ELSE commits : k.id = job.row.id

\* Rows have their types and an id of their own, and there are finitely many.
RowsInv ==
    /\ karmas \subseteq KarmaRow /\ commits \subseteq CountRow
    /\ IsFiniteSet(commits) /\ Bounded(karmas) /\ Bounded(commits)
    /\ \A k, l \in karmas : k.id = l.id => k = l
    /\ \A c, d \in commits : c.id = d.id => c = d

\* While no two runs of a task have overlapped one at most is under way, it
\* has found the rows there are, and there is one at most of each.
OneRun(task) == \A i, j \in K!Running : jobs[i].task = task /\ jobs[j].task = task => i = j
Least(S) == CHOOSE m \in S : \A n \in S : m <= n
FoundKarma(job) ==
    AtKarma(job) => K!KarmaOf(Least(job.todo)) = IF job.row = NoRow THEN {} ELSE {job.row}
FoundCount(job) ==
    AtCount(job) => K!CountsOf(job.pair[2], job.pair[1]) = IF job.row = NoRow THEN {} ELSE {job.row}

KarmaAlone ==
    "karma" \notin together =>
        /\ OneRun("karma") /\ \A j \in Jobs : FoundKarma(jobs[j])
        /\ \A k, l \in karmas : k.user = l.user => k = l
        /\ \A k \in karmas : k.total = k.activity + k.commits
CountAlone ==
    "commits" \notin together =>
        /\ OneRun("commits") /\ \A j \in Jobs : FoundCount(jobs[j])
        /\ \A c, d \in commits : c.user = d.user /\ c.project = d.project => c = d

JobsInv == DOMAIN jobs = Jobs /\ \A j \in Jobs : JobOK(jobs[j]) /\ Held(jobs[j])
KarmaInv ==
    /\ signIns \in [Members -> 0 .. MaxSignIns] /\ together \subseteq {"karma", "commits"}
    /\ JobsInv /\ RowsInv /\ KarmaAlone /\ CountAlone

\* The current user is one of those to do.
LEMMA LeastIsOne ==
    ASSUME NEW S \in SUBSET Members, S # {}
    PROVE  Least(S) \in S
<1>1. \E m \in S : \A n \in S : m <= n
  BY CommunityAssumption, LeastOf DEF CommunityAssumption
<1> QED
  BY <1>1 DEF Least

\* find_or_initialize_by: a row there is, the only one there is, or none.
LEMMA FirstIsOne ==
    ASSUME NEW rows, \A k \in rows : k.id \in Nat
    PROVE  /\ rows = {} => K!FirstOf(rows) = NoRow
           /\ rows # {} => K!FirstOf(rows) \in rows
           /\ (\A k, l \in rows : k = l) /\ rows # {} => rows = {K!FirstOf(rows)}
<1>1. ASSUME rows # {} PROVE K!FirstOf(rows) \in rows
  <2> DEFINE ids == {k.id : k \in rows}
  <2>1. ids \in SUBSET Nat /\ ids # {}
    BY <1>1
  <2>2. PICK n \in ids : \A m \in ids : n <= m
    BY <2>1, LeastOf
  <2>3. \E k \in rows : \A l \in rows : k.id <= l.id
    BY <2>2
  <2> QED
    BY <1>1, <2>3 DEF K!FirstOf
<1> QED
  BY <1>1 DEF K!FirstOf

\* The row that is new is no row of the tables.
LEMMA NoRowIsNone == NoRow \notin KarmaRow /\ NoRow \notin CountRow
BY CommunityAssumption DEF CommunityAssumption, KarmaRow, CountRow

\* A finite set has a finite image.
LEMMA FiniteImage ==
    ASSUME NEW S, IsFiniteSet(S), NEW f
    PROVE  IsFiniteSet({f[x] : x \in S})
<1> DEFINE T == {f[x] : x \in S}
           g == [x \in S |-> f[x]]
<1>1. g \in Surjection(S, T)
  BY DEF Surjection
<1> QED
  BY <1>1, FS_Surjection

-----------------------------------------------------------------------------
\* A statement of a run that writes no row.
LEMMA QuietJob ==
    ASSUME KarmaInv, NEW j \in Jobs, NEW job, jobs' = [jobs EXCEPT ![j] = job],
           UNCHANGED <<signIns, karmas, commits, together>>, JobOK(job), Held(job),
           jobs[j].at \notin {"idle", "ended", "aborted"},
           job.task = jobs[j].task \/ job.at \in {"ended", "aborted"},
           "karma" \notin together => FoundKarma(job),
           "commits" \notin together => FoundCount(job)
    PROVE  KarmaInv'
<1>1. /\ jobs'[j] = job /\ \A i \in Jobs \ {j} : jobs'[i] = jobs[i]
      /\ DOMAIN jobs' = Jobs
  BY DEF KarmaInv, JobsInv
<1>2. JobsInv'
  BY <1>1 DEF KarmaInv, JobsInv, JobOK, Held
<1>3. \A i \in Jobs : i \in K!Running' => i \in K!Running /\ jobs'[i].task = jobs[i].task
  BY <1>1 DEF K!Running
<1>4. \A task : OneRun(task) => OneRun(task)'
  BY <1>3 DEF OneRun, K!Running
<1>5. KarmaAlone'
  BY <1>1, <1>4 DEF KarmaInv, KarmaAlone, FoundKarma, AtKarma, K!KarmaOf
<1>6. CountAlone'
  BY <1>1, <1>4 DEF KarmaInv, CountAlone, FoundCount, AtCount, K!CountsOf
<1> QED
  BY <1>2, <1>5, <1>6 DEF KarmaInv, RowsInv, Bounded

\* A run that has not begun is as it should be.
LEMMA IdleIsOK == JobOK(K!Idle) /\ K!Idle.row = NoRow /\ K!Idle.task = "karma" /\ K!Idle.at = "idle"
BY DEF K!Idle, JobOK, JobType, AtKarma, AtCount

\* The start of a run of the calculator or of the counts keeps the invariant.
LEMMA StartStep ==
    ASSUME KarmaInv, NEW j \in Jobs, NEW task, NEW rest, K!Start(j, task, rest),
           \/ task = "karma" /\ rest = Members
           \/ task = "commits" /\ rest = Repos \X Members
    PROVE  KarmaInv'
<1> DEFINE job == [K!Idle EXCEPT !.at = "next", !.task = task, !.todo = rest,
                                 !.known = IF task = "karma" THEN signIns ELSE @]
<1>1. /\ jobs[j].at = "idle" /\ jobs' = [jobs EXCEPT ![j] = job]
      /\ together' = IF \E i \in K!Running : jobs[i].task = task
                     THEN together \cup {task} ELSE together
      /\ UNCHANGED <<signIns, karmas, commits>>
  BY DEF K!Start
<1>2. job.at = "next" /\ job.task = task /\ job.row = NoRow
  BY DEF K!Idle
<1>3. JobOK(job)
  <2>1. signIns \in [Members -> Nat]
    BY CommunityAssumption DEF KarmaInv, CommunityAssumption
  <2>2. job = [at |-> "next", task |-> task, todo |-> rest,
               known |-> IF task = "karma" THEN signIns ELSE [m \in Members |-> 0],
               row |-> NoRow, pair |-> NoRow, activity |-> 0, commits |-> 0, total |-> 0]
    <3>1. K!Idle.known = [m \in Members |-> 0]
      BY DEF K!Idle
    <3>2. job = [K!Idle EXCEPT !.at = "next", !.task = task, !.todo = rest,
                               !.known = IF task = "karma" THEN signIns ELSE [m \in Members |-> 0]]
      BY <3>1
    <3> HIDE DEF job
    <3> QED
      BY <3>2 DEF K!Idle
  <2> HIDE DEF job
  <2> QED
    BY <2>1, <2>2 DEF JobOK, JobType, AtKarma, AtCount
<1> HIDE DEF job
<1>4. /\ jobs'[j] = job /\ \A i \in Jobs \ {j} : jobs'[i] = jobs[i]
      /\ DOMAIN jobs' = Jobs
  BY <1>1 DEF KarmaInv, JobsInv
<1>5. JobsInv'
  BY <1>1, <1>2, <1>3, <1>4 DEF KarmaInv, JobsInv, JobOK, Held
<1>6. \A i \in Jobs \ {j} : i \in K!Running' <=> i \in K!Running
  BY <1>4 DEF K!Running
<1>7. ASSUME NEW t \in {"karma", "commits"}, t \notin together', OneRun(t) PROVE OneRun(t)'
  <2>1. CASE t = task
    <3>1. \A i \in K!Running : jobs[i].task # t
      BY <1>1, <1>7, <2>1
    <3> QED
      BY <1>4, <1>6, <3>1 DEF OneRun, K!Running
  <2>2. CASE t # task
    BY <1>2, <1>4, <1>6, <1>7, <2>2 DEF OneRun, K!Running
  <2> QED
    BY <2>1, <2>2
<1>8. KarmaAlone'
  BY <1>1, <1>2, <1>4, <1>7 DEF KarmaInv, KarmaAlone, FoundKarma, AtKarma, K!KarmaOf
<1>9. CountAlone'
  BY <1>1, <1>2, <1>4, <1>7 DEF KarmaInv, CountAlone, FoundCount, AtCount, K!CountsOf
<1>10. together' \subseteq {"karma", "commits"}
  BY <1>1 DEF KarmaInv
<1> QED
  BY <1>1, <1>5, <1>8, <1>9, <1>10 DEF KarmaInv, RowsInv, Bounded

\* What Forward leaves of a run.
LEMMA ForwardIsOK ==
    ASSUME NEW job, JobOK(job), NEW t
    PROVE  LET next == [job EXCEPT !.todo = @ \ {t}, !.at = "next", !.row = NoRow, !.pair = NoRow,
                                   !.activity = 0, !.commits = 0, !.total = 0]
           IN  JobOK(next) /\ next.at = "next" /\ next.task = job.task /\ next.row = NoRow
BY DEF JobOK, JobType, AtKarma, AtCount

\* The calculator's statements that write no row keep the invariant.
LEMMA KarmaStatements ==
    ASSUME KarmaInv, NEW j \in Jobs,
           K!FindKarma(j) \/ K!Calculate(j) \/ K!Sum(j) \/ K!Abort(j) \/ K!End(j)
    PROVE  KarmaInv'
<1>1. JobOK(jobs[j]) /\ Held(jobs[j]) /\ RowsInv
  BY DEF KarmaInv, JobsInv
<1>2. /\ "karma" \notin together => FoundKarma(jobs[j])
      /\ "commits" \notin together => FoundCount(jobs[j])
  BY DEF KarmaInv, KarmaAlone, CountAlone
<1>3. CASE K!FindKarma(j)
  <2> DEFINE m == Least(jobs[j].todo)
             row == K!FirstOf(K!KarmaOf(m))
             job == [jobs[j] EXCEPT !.at = "calculate", !.row = row]
  <2>1. /\ jobs[j].task = "karma" /\ jobs[j].at = "next" /\ jobs[j].todo # {}
        /\ jobs' = [jobs EXCEPT ![j] = job]
        /\ UNCHANGED <<signIns, karmas, commits, together>>
    BY <1>3 DEF K!FindKarma, K!FindKarmaAs, K!Current, Least, K!Step, K!In
  <2>2. K!KarmaOf(m) \subseteq karmas /\ \A k \in K!KarmaOf(m) : k \in KarmaRow /\ k.id \in Nat
    BY <1>1 DEF K!KarmaOf, RowsInv, KarmaRow
  <2>3. /\ K!KarmaOf(m) = {} => row = NoRow
        /\ K!KarmaOf(m) # {} => row \in K!KarmaOf(m)
        /\ (\A k, l \in K!KarmaOf(m) : k = l) /\ K!KarmaOf(m) # {} => K!KarmaOf(m) = {row}
    BY <2>2, FirstIsOne
  <2>4. "karma" \notin together => \A k, l \in K!KarmaOf(m) : k = l
    BY DEF KarmaInv, KarmaAlone, K!KarmaOf
  <2> HIDE DEF row, m
  <2>5. row \in KarmaRow \cup {NoRow}
    BY <2>2, <2>3
  <2>6. /\ JobOK(job) /\ job.at = "calculate" /\ job.task = "karma" /\ job.row = row
        /\ job.todo = jobs[j].todo
    BY <1>1, <2>1, <2>5 DEF JobOK, JobType, AtKarma, AtCount
  <2> HIDE DEF job
  <2>7. Held(job)
    BY <2>2, <2>3, <2>6 DEF Held
  <2>8. "karma" \notin together => FoundKarma(job)
    BY <2>2, <2>3, <2>4, <2>6, NoRowIsNone DEF FoundKarma, m
  <2>9. FoundCount(job)
    BY <2>6 DEF FoundCount, AtCount
  <2> QED
    BY <2>1, <2>6, <2>7, <2>8, <2>9, QuietJob
<1>4. CASE K!Calculate(j)
  <2> DEFINE a == jobs[j].known[Least(jobs[j].todo)]
             c == K!CommitsOf(Least(jobs[j].todo))
             job == [jobs[j] EXCEPT !.at = "sum", !.activity = a, !.commits = c]
  <2>1. /\ jobs[j].task = "karma" /\ jobs[j].at = "calculate"
        /\ jobs' = [jobs EXCEPT ![j] = job]
        /\ UNCHANGED <<signIns, karmas, commits, together>>
    BY <1>4 DEF K!Calculate, K!Current, Least, K!Step, K!In
  <2>2. Least(jobs[j].todo) \in Members
    BY <1>1, <2>1, LeastIsOne DEF JobOK, AtKarma
  <2>3. a \in Nat
    BY <1>1, <2>2 DEF JobOK, JobType
  <2>4. c \in Nat
    <3>1. IsFiniteSet(commits) /\ \A d \in commits : d.count \in Nat
      BY <1>1, CommunityAssumption DEF RowsInv, CountRow, CommunityAssumption
    <3> QED
      BY <3>1, CommitsAddUp
  <2> HIDE DEF a, c
  <2>5. /\ JobOK(job) /\ job.at = "sum" /\ job.task = "karma" /\ job.row = jobs[j].row
        /\ job.todo = jobs[j].todo
    BY <1>1, <2>1, <2>3, <2>4 DEF JobOK, JobType, AtKarma, AtCount
  <2> HIDE DEF job
  <2>6. Held(job) /\ FoundCount(job) /\ ("karma" \notin together => FoundKarma(job))
    BY <1>1, <1>2, <2>1, <2>5 DEF Held, FoundCount, FoundKarma, AtCount, AtKarma
  <2> QED
    BY <2>1, <2>5, <2>6, QuietJob
<1>5. CASE K!Sum(j)
  <2> DEFINE total == jobs[j].activity + jobs[j].commits
             job == [jobs[j] EXCEPT !.at = "save", !.total = total]
  <2>1. /\ jobs[j].task = "karma" /\ jobs[j].at = "sum"
        /\ jobs' = [jobs EXCEPT ![j] = job]
        /\ UNCHANGED <<signIns, karmas, commits, together>>
    BY <1>5 DEF K!Sum, K!SumOf, K!Step, K!In
  <2>2. /\ job.at = "save" /\ job.task = "karma" /\ job.row = jobs[j].row
        /\ job.todo = jobs[j].todo /\ job.total = job.activity + job.commits
    BY <1>1, <2>1 DEF JobOK, JobType
  <2>3. total \in Nat
    BY <1>1 DEF JobOK, JobType
  <2>4. job \in JobType
    <3> HIDE DEF total
    <3> QED
      BY <1>1, <2>3 DEF JobOK, JobType
  <2> HIDE DEF job
  <2>5. JobOK(job)
    BY <1>1, <2>1, <2>2, <2>4 DEF JobOK, AtKarma, AtCount
  <2>6. Held(job) /\ FoundCount(job) /\ ("karma" \notin together => FoundKarma(job))
    BY <1>1, <1>2, <2>1, <2>2 DEF Held, FoundCount, FoundKarma, AtCount, AtKarma
  <2> QED
    BY <2>1, <2>2, <2>5, <2>6, QuietJob
<1>6. CASE K!Abort(j) \/ K!End(j)
  <2>1. PICK label \in {"ended", "aborted"} :
          /\ jobs' = [jobs EXCEPT ![j] = [K!Idle EXCEPT !.at = label]]
          /\ jobs[j].at \in {"next", "calculate", "sum", "save"}
          /\ UNCHANGED <<signIns, karmas, commits, together>>
    BY <1>6 DEF K!Abort, K!End, K!Step
  <2> DEFINE job == [K!Idle EXCEPT !.at = label]
  <2>2. JobOK(job) /\ job.at = label /\ job.row = NoRow
    BY IdleIsOK DEF K!Idle, JobOK, JobType, AtKarma, AtCount
  <2> HIDE DEF job
  <2>3. Held(job) /\ FoundCount(job) /\ FoundKarma(job)
    BY <2>2 DEF Held, FoundCount, FoundKarma, AtCount, AtKarma
  <2> QED
    BY <2>1, <2>2, <2>3, QuietJob DEF job
<1> QED
  BY <1>3, <1>4, <1>5, <1>6

\* So do those of the commit counts.
LEMMA CountStatements ==
    ASSUME KarmaInv, NEW j \in Jobs, K!FindCount(j) \/ K!Validate(j) \/ K!LeaveOut(j)
    PROVE  KarmaInv'
<1>1. JobOK(jobs[j]) /\ Held(jobs[j]) /\ RowsInv
  BY DEF KarmaInv, JobsInv
<1>2. "commits" \notin together => FoundCount(jobs[j])
  BY DEF KarmaInv, CountAlone
<1>3. CASE K!FindCount(j)
  <2>1. PICK t \in jobs[j].todo, n \in Counts :
          jobs' = [jobs EXCEPT ![j] = [jobs[j] EXCEPT !.at = "validate", !.pair = t, !.commits = n,
                                         !.row = K!FirstOf(K!CountsOf(t[2], t[1]))]]
    BY <1>3 DEF K!FindCount, K!Step
  <2> DEFINE rows == K!CountsOf(t[2], t[1])
             row == K!FirstOf(rows)
             job == [jobs[j] EXCEPT !.at = "validate", !.pair = t, !.commits = n, !.row = row]
  <2>2. /\ jobs[j].task = "commits" /\ jobs[j].at = "next"
        /\ jobs' = [jobs EXCEPT ![j] = job]
        /\ UNCHANGED <<signIns, karmas, commits, together>>
    BY <1>3, <2>1 DEF K!FindCount, K!Step, K!In
  <2>3. t \in Repos \X Members /\ n \in Nat
    BY <1>1, <2>2, CommunityAssumption DEF JobOK, CommunityAssumption
  <2>4. rows \subseteq commits /\ \A c \in rows : c \in CountRow /\ c.id \in Nat
    BY <1>1 DEF K!CountsOf, RowsInv, CountRow
  <2>5. /\ rows = {} => row = NoRow
        /\ rows # {} => row \in rows
        /\ (\A k, l \in rows : k = l) /\ rows # {} => rows = {row}
    BY <2>4, FirstIsOne
  <2>6. "commits" \notin together => \A k, l \in rows : k = l
    BY DEF KarmaInv, CountAlone, K!CountsOf
  <2> HIDE DEF row, rows
  <2>7. row \in CountRow \cup {NoRow}
    BY <2>4, <2>5
  <2>8. /\ JobOK(job) /\ job.at = "validate" /\ job.task = "commits" /\ job.row = row
        /\ job.pair = t
    BY <1>1, <2>2, <2>3, <2>7 DEF JobOK, JobType, AtKarma, AtCount
  <2> HIDE DEF job
  <2>9. Held(job)
    BY <2>4, <2>5, <2>8 DEF Held
  <2>10. "commits" \notin together => FoundCount(job)
    BY <2>4, <2>5, <2>6, <2>8, NoRowIsNone DEF FoundCount, rows
  <2>11. FoundKarma(job)
    BY <2>8 DEF FoundKarma, AtKarma
  <2> QED
    BY <2>2, <2>8, <2>9, <2>10, <2>11, QuietJob
<1>4. CASE K!Validate(j)
  <2>1. /\ jobs[j].task = "commits" /\ jobs[j].at = "validate"
        /\ UNCHANGED <<signIns, karmas, commits, together>>
    BY <1>4 DEF K!Validate, K!Step, K!In, K!Forward
  <2>2. CASE jobs' = [jobs EXCEPT ![j] = [jobs[j] EXCEPT !.at = "save"]]
    <3> DEFINE job == [jobs[j] EXCEPT !.at = "save"]
    <3>1. /\ JobOK(job) /\ job.at = "save" /\ job.task = "commits" /\ job.row = jobs[j].row
          /\ job.pair = jobs[j].pair
      BY <1>1, <2>1 DEF JobOK, JobType, AtKarma, AtCount
    <3> HIDE DEF job
    <3>2. Held(job) /\ FoundKarma(job) /\ ("commits" \notin together => FoundCount(job))
      BY <1>1, <1>2, <2>1, <3>1 DEF Held, FoundCount, FoundKarma, AtCount, AtKarma
    <3> QED
      BY <2>1, <2>2, <3>1, <3>2, QuietJob DEF job
  <2>3. CASE K!Forward(j, jobs[j].pair)
    <3> DEFINE job == [jobs[j] EXCEPT !.todo = @ \ {jobs[j].pair}, !.at = "next", !.row = NoRow,
                                      !.pair = NoRow, !.activity = 0, !.commits = 0, !.total = 0]
    <3>1. jobs' = [jobs EXCEPT ![j] = job]
      BY <2>3 DEF K!Forward, K!Step
    <3>2. JobOK(job) /\ job.at = "next" /\ job.task = jobs[j].task /\ job.row = NoRow
      BY <1>1, ForwardIsOK
    <3> HIDE DEF job
    <3>3. Held(job) /\ FoundKarma(job) /\ FoundCount(job)
      BY <3>2 DEF Held, FoundCount, FoundKarma, AtCount, AtKarma
    <3> QED
      BY <2>1, <3>1, <3>2, <3>3, QuietJob
  <2> QED
    BY <1>4, <2>2, <2>3 DEF K!Validate, K!Step
<1>5. CASE K!LeaveOut(j)
  <2>1. PICK out : jobs' = [jobs EXCEPT ![j] = [jobs[j] EXCEPT !.todo = @ \ out]]
    BY <1>5 DEF K!LeaveOut, K!Step
  <2> DEFINE job == [jobs[j] EXCEPT !.todo = @ \ out]
  <2>2. /\ jobs[j].task = "commits" /\ jobs[j].at = "next"
        /\ jobs' = [jobs EXCEPT ![j] = job]
        /\ UNCHANGED <<signIns, karmas, commits, together>>
    BY <1>5, <2>1 DEF K!LeaveOut, K!Step, K!In
  <2>3. JobOK(job) /\ job.at = "next" /\ job.task = "commits" /\ job.row = NoRow
    BY <1>1, <2>2 DEF JobOK, JobType, AtKarma, AtCount
  <2> HIDE DEF job
  <2>4. Held(job) /\ FoundKarma(job) /\ FoundCount(job)
    BY <2>3 DEF Held, FoundCount, FoundKarma, AtCount, AtKarma
  <2> QED
    BY <2>2, <2>3, <2>4, QuietJob
<1> QED
  BY <1>3, <1>4, <1>5

\* The statement that saves a row, of either task.
SingleKarma == \A k, l \in karmas : k.user = l.user => k = l
SingleCount == \A c, d \in commits : c.user = d.user /\ c.project = d.project => c = d
TotalsAreSums == \A k \in karmas : k.total = k.activity + k.commits

\* A run that saves a row, of karma or of counts, keeps the invariant if the tables do.
LEMMA SaveJob ==
    ASSUME KarmaInv, NEW j \in Jobs, NEW job, jobs' = [jobs EXCEPT ![j] = job],
           JobOK(job), job.at = "next", job.task = jobs[j].task, job.row = NoRow,
           jobs[j].at = "save", UNCHANGED <<signIns, together>>, RowsInv',
           \A k \in karmas : \E l \in karmas' : l.id = k.id,
           \A c \in commits : \E d \in commits' : d.id = c.id,
           \/ /\ jobs[j].task = "karma" /\ UNCHANGED commits
              /\ "karma" \notin together => SingleKarma' /\ TotalsAreSums'
           \/ /\ jobs[j].task = "commits" /\ UNCHANGED karmas
              /\ "commits" \notin together => SingleCount'
    PROVE  KarmaInv'
<1>1. /\ jobs'[j] = job /\ \A i \in Jobs \ {j} : jobs'[i] = jobs[i]
      /\ DOMAIN jobs' = Jobs
  BY DEF KarmaInv, JobsInv
<1>2. JobsInv'
  <2>1. \A i \in Jobs \ {j} : Held(jobs[i]) => Held(jobs[i])'
    <3> SUFFICES ASSUME NEW i \in Jobs \ {j}, Held(jobs[i]), jobs'[i].row # NoRow
                 PROVE  Held(jobs[i])'
      BY DEF Held
    <3>1. jobs'[i] = jobs[i]
      BY <1>1
    <3>2. CASE jobs[i].task = "karma"
      <4>1. PICK k \in karmas : k.id = jobs[i].row.id
        BY <3>1, <3>2 DEF Held
      <4> QED
        BY <3>1, <3>2, <4>1 DEF Held
    <3>3. CASE jobs[i].task # "karma"
      <4>1. PICK k \in commits : k.id = jobs[i].row.id
        BY <3>1, <3>3 DEF Held
      <4> QED
        BY <3>1, <3>3, <4>1 DEF Held
    <3> QED
      BY <3>2, <3>3
  <2> QED
    BY <1>1, <2>1 DEF KarmaInv, JobsInv, JobOK, Held
<1>3. \A i \in Jobs : i \in K!Running' => i \in K!Running /\ jobs'[i].task = jobs[i].task
  BY <1>1 DEF K!Running
<1>4. \A task : OneRun(task) => OneRun(task)'
  BY <1>3 DEF OneRun, K!Running
<1>5. \A i \in Jobs \ {j} : OneRun(jobs[j].task) =>
        /\ jobs[j].task = "karma" => ~ AtKarma(jobs[i])
        /\ jobs[j].task = "commits" => ~ AtCount(jobs[i])
  BY DEF OneRun, K!Running, AtKarma, AtCount
<1>6. KarmaAlone'
  <2> SUFFICES ASSUME "karma" \notin together
               PROVE  OneRun("karma")' /\ SingleKarma' /\ TotalsAreSums' /\ \A i \in Jobs : FoundKarma(jobs[i])'
    BY DEF KarmaAlone, SingleKarma, TotalsAreSums
  <2>1. OneRun("karma") /\ SingleKarma /\ TotalsAreSums /\ \A i \in Jobs : FoundKarma(jobs[i])
    BY DEF KarmaInv, KarmaAlone, SingleKarma, TotalsAreSums
  <2>2. OneRun("karma")' /\ SingleKarma' /\ TotalsAreSums'
    BY <1>4, <2>1 DEF SingleKarma, TotalsAreSums
  <2>3. ASSUME NEW i \in Jobs PROVE FoundKarma(jobs[i])'
    BY <1>1, <1>5, <2>1 DEF FoundKarma, AtKarma, K!KarmaOf
  <2> QED
    BY <2>2, <2>3
<1>7. CountAlone'
  <2> SUFFICES ASSUME "commits" \notin together
               PROVE  OneRun("commits")' /\ SingleCount' /\ \A i \in Jobs : FoundCount(jobs[i])'
    BY DEF CountAlone, SingleCount
  <2>1. OneRun("commits") /\ SingleCount /\ \A i \in Jobs : FoundCount(jobs[i])
    BY DEF KarmaInv, CountAlone, SingleCount
  <2>2. OneRun("commits")' /\ SingleCount'
    BY <1>4, <2>1 DEF SingleCount
  <2>3. ASSUME NEW i \in Jobs PROVE FoundCount(jobs[i])'
    BY <1>1, <1>5, <2>1 DEF FoundCount, AtCount, K!CountsOf
  <2> QED
    BY <2>2, <2>3
<1> QED
  BY <1>2, <1>6, <1>7 DEF KarmaInv

\* A row written with the columns that differ from what was loaded, when it
\* is the one that was loaded, has all of them afterwards.
Columns == {"activity", "commits", "total"}
Written(k, job, changed) ==
    [c \in DOMAIN k |-> IF c \in changed THEN [d \in Columns |-> job[d]][c] ELSE k[c]]

\* A row that was saved has its id, its user, and the columns of the object.
LEMMA WrittenRow ==
    ASSUME NEW k \in KarmaRow, NEW job \in JobType, NEW changed \in SUBSET Columns
    PROVE  /\ Written(k, job, changed) \in KarmaRow
           /\ Written(k, job, changed).id = k.id /\ Written(k, job, changed).user = k.user
           /\ (\A c \in Columns \ changed : k[c] = job[c]) =>
                /\ Written(k, job, changed).activity = job.activity
                /\ Written(k, job, changed).commits = job.commits
                /\ Written(k, job, changed).total = job.total
<1>1. DOMAIN k = {"id", "user", "activity", "commits", "total"}
  BY DEF KarmaRow
<1>2. Written(k, job, changed) =
        [id |-> k.id, user |-> k.user,
         activity |-> IF "activity" \in changed THEN job.activity ELSE k.activity,
         commits |-> IF "commits" \in changed THEN job.commits ELSE k.commits,
         total |-> IF "total" \in changed THEN job.total ELSE k.total]
  BY <1>1 DEF Written, Columns
<1>3. job.activity \in Nat /\ job.commits \in Nat /\ job.total \in Nat
  BY DEF JobType
<1> QED
  BY <1>2, <1>3 DEF KarmaRow, Columns

\* Saving a karma keeps the invariant.
LEMMA SaveKarmaStep ==
    ASSUME KarmaInv, NEW j \in Jobs, K!SaveKarma(j)
    PROVE  KarmaInv'
<1> DEFINE job == jobs[j]
           m == Least(job.todo)
           next == [job EXCEPT !.todo = @ \ {m}, !.at = "next", !.row = NoRow, !.pair = NoRow,
                               !.activity = 0, !.commits = 0, !.total = 0]
           changed == UNION {K!Differing(j, c) : c \in Columns}
           new == [id |-> K!NextRow(karmas), user |-> m, activity |-> job.activity,
                   commits |-> job.commits, total |-> job.total]
           Now(k) == IF k.id = job.row.id THEN Written(k, job, changed) ELSE k
<1>1. JobOK(job) /\ Held(job) /\ RowsInv
  BY DEF KarmaInv, JobsInv
<1>2. job.task = "karma" /\ job.at = "save" /\ UNCHANGED <<signIns, together, commits>>
  BY DEF K!SaveKarma, K!Forward, K!Step, K!In
<1>3. jobs' = [jobs EXCEPT ![j] = next]
  BY DEF K!SaveKarma, K!Forward, K!Step, K!Current, Least
<1>4. /\ job.row = NoRow => karmas' = karmas \cup {new}
      /\ job.row # NoRow => karmas' = {Now(k) : k \in karmas}
  BY DEF K!SaveKarma, K!Current, Least, Written, Columns
<1>5. JobOK(next) /\ next.at = "next" /\ next.task = job.task /\ next.row = NoRow
  BY <1>1, ForwardIsOK
<1>6. m \in Members /\ job.total = job.activity + job.commits /\ job \in JobType
  BY <1>1, <1>2, LeastIsOne DEF JobOK, AtKarma
<1>7. "karma" \notin together =>
        /\ K!KarmaOf(m) = IF job.row = NoRow THEN {} ELSE {job.row}
        /\ SingleKarma /\ TotalsAreSums
  BY <1>2 DEF KarmaInv, KarmaAlone, FoundKarma, AtKarma, SingleKarma, TotalsAreSums
<1> SUFFICES /\ karmas' \subseteq KarmaRow /\ Bounded(karmas')
             /\ \A k, l \in karmas' : k.id = l.id => k = l
             /\ \A k \in karmas : \E l \in karmas' : l.id = k.id
             /\ "karma" \notin together => SingleKarma' /\ TotalsAreSums'
  <2>1. RowsInv'
    BY <1>1, <1>2 DEF RowsInv, Bounded
  <2> HIDE DEF next
  <2>2. \A c \in commits : \E d \in commits' : d.id = c.id
    BY <1>2
  <2> QED
    BY <1>2, <1>3, <1>5, <2>1, <2>2, SaveJob
<1>8. CASE job.row = NoRow
  <2>1. karmas' = karmas \cup {new}
    BY <1>4, <1>8
  <2>2. karmas \subseteq KarmaRow /\ \A k \in karmas : k.id \in Nat
    BY <1>1 DEF RowsInv, KarmaRow
  <2>3. K!NextRow(karmas) \in Nat /\ \A k \in karmas : k.id < K!NextRow(karmas)
    BY <1>1, <2>2, NextRowIsNew DEF RowsInv
  <2>4. new \in KarmaRow
    BY <1>6, <2>3 DEF KarmaRow, JobType
  <2>5. new.id = K!NextRow(karmas) /\ new.user = m /\ new.total = new.activity + new.commits
    BY <1>6
  <2> HIDE DEF new
  <2>6. Bounded(karmas')
    <3>1. \A k \in karmas' : k.id <= K!NextRow(karmas)
      BY <2>1, <2>2, <2>3, <2>5
    <3> QED
      BY <2>3, <3>1 DEF Bounded
  <2>7. \A k, l \in karmas' : k.id = l.id => k = l
    BY <1>1, <2>1, <2>2, <2>3, <2>5 DEF RowsInv
  <2>8. "karma" \notin together => SingleKarma' /\ TotalsAreSums'
    BY <1>7, <1>8, <2>1, <2>5 DEF SingleKarma, TotalsAreSums, K!KarmaOf
  <2> QED
    BY <2>1, <2>2, <2>4, <2>6, <2>7, <2>8
<1>9. CASE job.row # NoRow
  <2>1. karmas' = {Now(k) : k \in karmas}
    BY <1>4, <1>9
  <2>2. changed \in SUBSET Columns
    BY DEF K!Differing, Columns
  <2>3. \A c \in Columns \ changed : job.row[c] = job[c]
    BY <1>9 DEF K!Differing
  <2> HIDE DEF changed
  <2>4. ASSUME NEW k \in karmas
        PROVE  Now(k) \in KarmaRow /\ Now(k).id = k.id /\ Now(k).user = k.user
    BY <1>1, <1>6, <2>2, WrittenRow DEF RowsInv
  <2>5. ASSUME "karma" \notin together, NEW k \in karmas
        PROVE  Now(k).total = Now(k).activity + Now(k).commits
    <3>1. CASE k.id = job.row.id
      <4>1. job.row \in karmas
        BY <1>7, <1>9, <2>5 DEF K!KarmaOf
      <4>2. k = job.row
        BY <1>1, <3>1, <4>1 DEF RowsInv
      <4>3. k \in KarmaRow /\ \A c \in Columns \ changed : k[c] = job[c]
        BY <1>1, <2>3, <4>2 DEF RowsInv
      <4>4. /\ Written(k, job, changed).activity = job.activity
            /\ Written(k, job, changed).commits = job.commits
            /\ Written(k, job, changed).total = job.total
        BY <1>6, <2>2, <4>3, WrittenRow
      <4> QED
        BY <1>6, <3>1, <4>4
    <3>2. CASE k.id # job.row.id
      BY <1>7, <2>5, <3>2 DEF TotalsAreSums
    <3> QED
      BY <3>1, <3>2
  <2> HIDE DEF Now
  <2>6. karmas' \subseteq KarmaRow /\ \A k \in karmas : \E l \in karmas' : l.id = k.id
    BY <2>1, <2>4
  <2>7. Bounded(karmas')
    BY <1>1, <2>1, <2>4 DEF RowsInv, Bounded
  <2>8. \A k, l \in karmas' : k.id = l.id => k = l
    BY <1>1, <2>1, <2>4 DEF RowsInv
  <2>9. "karma" \notin together => SingleKarma' /\ TotalsAreSums'
    BY <1>7, <2>1, <2>4, <2>5 DEF SingleKarma, TotalsAreSums
  <2> QED
    BY <2>6, <2>7, <2>8, <2>9
<1> QED
  BY <1>8, <1>9

\* Saving a commit count keeps the invariant.
LEMMA SaveCountStep ==
    ASSUME KarmaInv, NEW j \in Jobs, K!SaveCount(j)
    PROVE  KarmaInv'
<1> DEFINE job == jobs[j]
           next == [job EXCEPT !.todo = @ \ {job.pair}, !.at = "next", !.row = NoRow, !.pair = NoRow,
                               !.activity = 0, !.commits = 0, !.total = 0]
           new == [id |-> K!NextRow(commits), user |-> job.pair[2], project |-> job.pair[1],
                   count |-> job.commits]
           Now(c) == IF c.id = job.row.id THEN [c EXCEPT !.count = job.commits] ELSE c
<1>1. JobOK(job) /\ RowsInv
  BY DEF KarmaInv, JobsInv
<1>2. job.task = "commits" /\ job.at = "save" /\ UNCHANGED <<signIns, together, karmas>>
  BY DEF K!SaveCount, K!Forward, K!Step, K!In
<1>3. jobs' = [jobs EXCEPT ![j] = next]
  BY DEF K!SaveCount, K!Forward, K!Step
<1>4. /\ job.row = NoRow => commits' = commits \cup {new}
      /\ job.row # NoRow => commits' = {Now(c) : c \in commits}
  BY DEF K!SaveCount
<1>5. JobOK(next) /\ next.at = "next" /\ next.task = job.task /\ next.row = NoRow
  BY <1>1, ForwardIsOK
<1>6. job.pair \in Repos \X Members /\ job.commits \in Counts
  BY <1>1, <1>2 DEF JobOK, AtCount
<1>7. "commits" \notin together =>
        /\ K!CountsOf(job.pair[2], job.pair[1]) = IF job.row = NoRow THEN {} ELSE {job.row}
        /\ SingleCount
  BY <1>2 DEF KarmaInv, CountAlone, FoundCount, AtCount, SingleCount
<1> SUFFICES /\ commits' \subseteq CountRow /\ Bounded(commits') /\ IsFiniteSet(commits')
             /\ \A k, l \in commits' : k.id = l.id => k = l
             /\ \A k \in commits : \E l \in commits' : l.id = k.id
             /\ "commits" \notin together => SingleCount'
  <2>1. RowsInv'
    BY <1>1, <1>2 DEF RowsInv, Bounded
  <2> HIDE DEF next
  <2>2. \A c \in karmas : \E d \in karmas' : d.id = c.id
    BY <1>2
  <2> QED
    BY <1>2, <1>3, <1>5, <2>1, <2>2, SaveJob
<1>8. CASE job.row = NoRow
  <2>1. commits' = commits \cup {new}
    BY <1>4, <1>8
  <2>2. commits \subseteq CountRow /\ \A c \in commits : c.id \in Nat
    BY <1>1 DEF RowsInv, CountRow
  <2>3. K!NextRow(commits) \in Nat /\ \A c \in commits : c.id < K!NextRow(commits)
    BY <1>1, <2>2, NextRowIsNew DEF RowsInv
  <2>4. new \in CountRow
    BY <1>6, <2>3 DEF CountRow
  <2>5. new.id = K!NextRow(commits) /\ new.user = job.pair[2] /\ new.project = job.pair[1]
    OBVIOUS
  <2> HIDE DEF new
  <2>6. Bounded(commits')
    <3>1. \A c \in commits' : c.id <= K!NextRow(commits)
      BY <2>1, <2>2, <2>3, <2>5
    <3> QED
      BY <2>3, <3>1 DEF Bounded
  <2>7. IsFiniteSet(commits')
    BY <1>1, <2>1, FS_AddElement DEF RowsInv
  <2>8. \A c, d \in commits' : c.id = d.id => c = d
    BY <1>1, <2>1, <2>2, <2>3, <2>5 DEF RowsInv
  <2>9. "commits" \notin together => SingleCount'
    BY <1>7, <1>8, <2>1, <2>5 DEF SingleCount, K!CountsOf
  <2> QED
    BY <2>1, <2>2, <2>4, <2>6, <2>7, <2>8, <2>9
<1>9. CASE job.row # NoRow
  <2> DEFINE f == [c \in commits |-> Now(c)]
  <2>1. commits' = {Now(c) : c \in commits}
    BY <1>4, <1>9
  <2>2. ASSUME NEW c \in commits
        PROVE  /\ Now(c) \in CountRow /\ Now(c).id = c.id /\ Now(c).user = c.user
               /\ Now(c).project = c.project
    BY <1>1, <1>6 DEF RowsInv, CountRow
  <2>3. commits' = {f[c] : c \in commits}
    BY <2>1
  <2> HIDE DEF Now, f
  <2>4. commits' \subseteq CountRow /\ \A c \in commits : \E d \in commits' : d.id = c.id
    BY <2>1, <2>2
  <2>5. Bounded(commits')
    BY <1>1, <2>1, <2>2 DEF RowsInv, Bounded
  <2>6. IsFiniteSet(commits')
    BY <1>1, <2>3, FiniteImage DEF RowsInv
  <2>7. \A c, d \in commits' : c.id = d.id => c = d
    BY <1>1, <2>1, <2>2 DEF RowsInv
  <2>8. "commits" \notin together => SingleCount'
    BY <1>7, <2>1, <2>2 DEF SingleCount
  <2> QED
    BY <2>4, <2>5, <2>6, <2>7, <2>8
<1> QED
  BY <1>8, <1>9

\* Every step keeps the invariant of the karma.
LEMMA KarmaStep == KarmaInv /\ [K!KarmaNext]_karmaVars => KarmaInv'
<1> SUFFICES ASSUME KarmaInv, [K!KarmaNext]_karmaVars PROVE KarmaInv'
  OBVIOUS
<1>1. CASE UNCHANGED karmaVars
  BY <1>1 DEF karmaVars, KarmaInv, JobsInv, JobOK, Held, RowsInv, Bounded, KarmaAlone, CountAlone,
              FoundKarma, FoundCount, OneRun, K!Running, K!KarmaOf, K!CountsOf
<1>2. CASE K!SignIn
  <2>1. UNCHANGED <<karmas, commits, jobs, together>>
    BY <1>2 DEF K!SignIn
  <2>2. signIns' \in [Members -> 0 .. MaxSignIns]
    BY <1>2, CommunityAssumption DEF KarmaInv, K!SignIn, CommunityAssumption
  <2> QED
    BY <2>1, <2>2 DEF KarmaInv, JobsInv, JobOK, Held, RowsInv, Bounded, KarmaAlone, CountAlone,
                      FoundKarma, FoundCount, OneRun, K!Running, K!KarmaOf, K!CountsOf
<1>3. CASE \E j \in Jobs : K!StartKarma(j) \/ K!StartCommits(j)
  BY <1>3, StartStep DEF K!StartKarma, K!StartCommits
<1>4. CASE \E j \in Jobs : K!CarryOn(j)
  BY <1>4, KarmaStatements, CountStatements, SaveKarmaStep, SaveCountStep DEF K!CarryOn
<1> QED
  BY <1>1, <1>2, <1>3, <1>4 DEF K!KarmaNext

\* The karma begins in its invariant.
LEMMA KarmaStart == K!KarmaInit => KarmaInv
<1> SUFFICES ASSUME K!KarmaInit PROVE KarmaInv
  OBVIOUS
<1>1. /\ signIns = [m \in Members |-> 0] /\ karmas = {} /\ commits = {} /\ together = {}
      /\ jobs = [j \in Jobs |-> K!Idle]
  BY DEF K!KarmaInit
<1>2. signIns \in [Members -> 0 .. MaxSignIns]
  BY <1>1, CommunityAssumption DEF CommunityAssumption
<1>3. \A j \in Jobs : jobs[j] = K!Idle
  BY <1>1
<1> QED
  BY <1>1, <1>2, <1>3, IdleIsOK, FS_EmptySet
  DEF KarmaInv, JobsInv, Held, RowsInv, Bounded, KarmaAlone, CountAlone, FoundKarma, FoundCount,
      AtKarma, AtCount, OneRun, K!Running

\* Karma's instance counts the elements of a set as this module does.
LEMMA SameCardinality == \A S : K!Cardinality(S) = Cardinality(S)
BY DEF K!Cardinality, K!IsFiniteSet, Cardinality, IsFiniteSet

\* The invariant of the karma has what the runs check of it.
LEMMA KarmaConclusions ==
    ASSUME KarmaInv
    PROVE  K!KarmaTypeOK /\ K!TotalIsSum /\ K!OneRowEach
<1>1. K!KarmaTypeOK
  <2>1. \A k \in karmas : k.user \in Members /\ {k.activity, k.commits, k.total} \subseteq Nat
    BY DEF KarmaInv, RowsInv, KarmaRow
  <2>2. \A c \in commits : c.user \in Members /\ c.project \in Repos /\ c.count \in Counts
    BY DEF KarmaInv, RowsInv, CountRow
  <2>3. ASSUME NEW j \in Jobs
        PROVE  /\ jobs[j].task \in {"karma", "commits"}
               /\ jobs[j].row # NoRow => jobs[j].row.id \in {r.id : r \in karmas \cup commits}
    BY DEF KarmaInv, JobsInv, JobOK, JobType, Held
  <2> QED
    BY <2>1, <2>2, <2>3 DEF KarmaInv, K!KarmaTypeOK
<1>2. K!TotalIsSum
  BY DEF KarmaInv, KarmaAlone, K!TotalIsSum
<1>3. ASSUME NEW S, \A x, y \in S : x = y PROVE Cardinality(S) <= 1
  <2>1. CASE S = {}
    BY <2>1, FS_EmptySet
  <2>2. CASE S # {}
    <3>1. PICK x \in S : S = {x}
      BY <1>3, <2>2
    <3> QED
      BY <3>1, FS_Singleton
  <2> QED
    BY <2>1, <2>2
<1>4. K!OneRowEach
  <2>1. ASSUME "karma" \notin together, NEW m \in Members PROVE Cardinality(K!KarmaOf(m)) <= 1
    <3>1. \A x, y \in K!KarmaOf(m) : x = y
      BY <2>1 DEF KarmaInv, KarmaAlone, K!KarmaOf
    <3> QED
      BY <1>3, <3>1
  <2>2. ASSUME "commits" \notin together, NEW m \in Members, NEW p \in Repos
        PROVE  Cardinality(K!CountsOf(m, p)) <= 1
    <3>1. \A x, y \in K!CountsOf(m, p) : x = y
      BY <2>2 DEF KarmaInv, CountAlone, K!CountsOf
    <3> QED
      BY <1>3, <3>1
  <2> QED
    BY <2>1, <2>2, SameCardinality DEF K!OneRowEach
<1> QED
  BY <1>1, <1>2, <1>4

(***************************************************************************)
(* The languages task.                                                     *)
(***************************************************************************)
Complete(p) == L!ReportedNames(p) \subseteq L!NamesOf(p)
Fetched == {"find", "create", "insert", "link"}
Active == {"fetch"} \cup Fetched

\* A run that is not at a project any more, or has not come to it, has seen to
\* it that the project is complete, or has given it up for a reason.  Of the
\* project it is at it remembers languages the project has, and what is neither
\* there nor still wanted is not reported.
RunInv(r) ==
    /\ pc[r] \in Active => project[r] \in Repositories
    /\ pc[r] \in {"create", "insert", "link"} => wanted[r] # {}
    /\ pc[r] = "create" => \A l \in languages : l[2] = L!Wanted(r) => l[1] # r
    /\ pc[r] \in Active =>
         \/ pc[r] = "fetch" /\ loaded[r] = NoLanguage
         \/ loaded[r] \in SUBSET LanguageNames /\ loaded[r] \subseteq L!NamesOf(project[r])
    /\ pc[r] \in Fetched =>
         \A i \in DOMAIN Reported[project[r]] :
             Reported[project[r]][i] \in L!NamesOf(project[r]) \/ i \in wanted[r]
    /\ pc[r] # "idle" =>
         \A p \in Repositories \ (todo[r] \cup skipped[r]) :
             Complete(p) \/ (pc[r] \in Active /\ p = project[r])
    /\ pc[r] = "done" => todo[r] = {}
    /\ \A p \in skipped[r] : L!GivenUpForAReason(r, p)

LangInv ==
    /\ L!TypeOK /\ DOMAIN wanted = LanguageJobs /\ DOMAIN language = LanguageJobs
    /\ \A r \in LanguageJobs : RunInv(r)

\* What GitHub reports are names of languages.
LEMMA ReportedIsOfNames ==
    \A p \in Repositories : /\ DOMAIN Reported[p] \subseteq Nat
                            /\ \A i \in DOMAIN Reported[p] : Reported[p][i] \in LanguageNames
BY CommunityAssumption DEF CommunityAssumption

\* What a run is about to link was reported for its project.
LEMMA WantedIsReported ==
    ASSUME L!TypeOK, NEW r \in LanguageJobs, RunInv(r), pc[r] \in {"create", "insert", "link", "find"},
           wanted[r] # {}
    PROVE  /\ L!Min(wanted[r]) \in wanted[r] /\ wanted[r] \subseteq DOMAIN Reported[project[r]]
           /\ L!Wanted(r) \in LanguageNames /\ L!Wanted(r) \in L!ReportedNames(project[r])
<1>1. wanted[r] \subseteq DOMAIN Reported[project[r]] /\ project[r] \in Repositories
  BY DEF L!TypeOK, RunInv, Active, Fetched
<1>2. wanted[r] \in SUBSET Nat
  BY <1>1, ReportedIsOfNames
<1>3. L!Min(wanted[r]) \in wanted[r]
  BY <1>2, LeastOf DEF L!Min
<1> QED
  BY <1>1, <1>3, ReportedIsOfNames DEF L!Wanted, L!ReportedNames

\* What the steps of one run leave of another's memory and of the tables.
Others(r) ==
    \A q \in LanguageJobs \ {r} :
        /\ pc'[q] = pc[q] /\ todo'[q] = todo[q] /\ project'[q] = project[q]
        /\ loaded'[q] = loaded[q] /\ wanted'[q] = wanted[q] /\ skipped'[q] = skipped[q]
Grows(r) ==
    /\ languages \subseteq languages' /\ joins \subseteq joins' /\ faults \subseteq faults'
    /\ \A l \in languages' \ languages : l[1] = r

\* The languages of a project only grow, so that what is complete stays so.
LEMMA NamesGrow ==
    ASSUME NEW r, Grows(r)
    PROVE  /\ \A p : L!NamesOf(p) \subseteq L!NamesOf(p)' /\ (Complete(p) => Complete(p)')
           /\ \A q, p : L!GivenUpForAReason(q, p) => L!GivenUpForAReason(q, p)'
<1>1. \A p : L!NamesOf(p) \subseteq L!NamesOf(p)'
  BY DEF Grows, L!NamesOf
<1>2. \A p : Complete(p) => Complete(p)'
  BY <1>1 DEF Complete, L!ReportedNames
<1>3. \A q, p : L!GivenUpForAReason(q, p) => L!GivenUpForAReason(q, p)'
  BY DEF Grows, L!GivenUpForAReason, L!ReportedNames
<1> QED
  BY <1>1, <1>2, <1>3

\* A step of one run keeps the invariant of the others.
LEMMA OthersGoOn ==
    ASSUME NEW r \in LanguageJobs, Others(r), Grows(r), NEW q \in LanguageJobs \ {r}, RunInv(q)
    PROVE  RunInv(q)'
<1>1. L!Wanted(q)' = L!Wanted(q)
  BY DEF Others, L!Wanted
<1>2. /\ \A p : L!NamesOf(p) \subseteq L!NamesOf(p)' /\ (Complete(p) => Complete(p)')
      /\ \A p : L!GivenUpForAReason(q, p) => L!GivenUpForAReason(q, p)'
  BY NamesGrow
<1>3. /\ pc'[q] = pc[q] /\ todo'[q] = todo[q] /\ project'[q] = project[q]
      /\ loaded'[q] = loaded[q] /\ wanted'[q] = wanted[q] /\ skipped'[q] = skipped[q]
  BY DEF Others
<1>4. pc[q] = "create" => \A l \in languages' : l[2] = L!Wanted(q) => l[1] # q
  BY DEF Grows, RunInv
<1> QED
  BY <1>1, <1>2, <1>3, <1>4 DEF RunInv

\* Every step keeps the invariant of the languages job.
LEMMA LangStep == LangInv /\ [L!Next]_langVars => LangInv'
<1> SUFFICES ASSUME LangInv, [L!Next]_langVars PROVE LangInv'
  OBVIOUS
<1>1. L!TypeOK /\ DOMAIN wanted = LanguageJobs /\ DOMAIN language = LanguageJobs
  BY DEF LangInv
<1>2. CASE UNCHANGED langVars
  <2>1. UNCHANGED <<languages, joins, pc, todo, project, loaded, wanted, language, skipped, faults>>
    BY <1>2 DEF langVars
  <2>2. \A r \in LanguageJobs : Others(r) /\ Grows(r)
    BY <2>1 DEF Others, Grows
  <2>3. L!TypeOK'
    BY <1>1, <2>1 DEF L!TypeOK, L!Rows, L!Wanted
  <2>4. ASSUME NEW r \in LanguageJobs PROVE RunInv(r)'
    <3>1. RunInv(r)
      BY DEF LangInv
    <3>2. L!Wanted(r)' = L!Wanted(r)
      BY <2>1 DEF L!Wanted
    <3> QED
      BY <2>1, <2>2, <3>1, <3>2, NamesGrow DEF RunInv
  <2> QED
    BY <1>1, <2>1, <2>3, <2>4 DEF LangInv
<1>3. ASSUME NEW r \in LanguageJobs, L!TypeOK', DOMAIN wanted' = LanguageJobs,
             DOMAIN language' = LanguageJobs, Others(r), Grows(r), RunInv(r)'
      PROVE  LangInv'
  BY <1>3, OthersGoOn DEF LangInv
<1>4. ASSUME NEW r \in LanguageJobs, L!Start(r) PROVE LangInv'
  <2>1. /\ pc[r] = "idle" /\ pc' = [pc EXCEPT ![r] = "next"]
        /\ todo' = [todo EXCEPT ![r] = Repositories]
        /\ UNCHANGED <<languages, joins, project, loaded, wanted, language, skipped, faults>>
    BY <1>4 DEF L!Start, L!Goto, L!found
  <2>2. pc'[r] = "next" /\ todo'[r] = Repositories
    BY <1>1, <2>1 DEF L!TypeOK
  <2>3. Others(r) /\ Grows(r)
    BY <1>1, <2>1 DEF L!TypeOK, Others, Grows
  <2>4. L!TypeOK'
    BY <1>1, <2>1 DEF L!TypeOK, L!Rows, L!Wanted
  <2>5. RunInv(r)'
    BY <2>1, <2>2, <2>3, NamesGrow DEF LangInv, RunInv, Active, Fetched
  <2> QED
    BY <1>1, <1>3, <2>1, <2>3, <2>4, <2>5
<1>5. ASSUME NEW r \in LanguageJobs, L!NextProject(r) PROVE LangInv'
  <2>1. RunInv(r) /\ pc[r] = "next"
        /\ UNCHANGED <<languages, joins, wanted, language, skipped, faults>>
    BY <1>5 DEF LangInv, L!NextProject
  <2>2. CASE todo[r] = {} /\ pc' = [pc EXCEPT ![r] = "done"] /\ UNCHANGED <<todo, project, loaded>>
    <3>1. pc'[r] = "done" /\ todo'[r] = {}
      BY <1>1, <2>2 DEF L!TypeOK
    <3>2. Others(r) /\ Grows(r)
      BY <1>1, <2>1, <2>2 DEF L!TypeOK, Others, Grows
    <3>3. L!TypeOK'
      BY <1>1, <2>1, <2>2 DEF L!TypeOK, L!Rows, L!Wanted
    <3>4. RunInv(r)'
      BY <2>1, <2>2, <3>1, <3>2, NamesGrow DEF RunInv, Active, Fetched
    <3> QED
      BY <1>1, <1>3, <2>1, <3>2, <3>3, <3>4
  <2>3. CASE \E p \in todo[r] :
               /\ todo' = [todo EXCEPT ![r] = @ \ {p}] /\ project' = [project EXCEPT ![r] = p]
               /\ loaded' = [loaded EXCEPT ![r] = NoLanguage] /\ pc' = [pc EXCEPT ![r] = "fetch"]
    <3>1. PICK p \in todo[r] :
            /\ todo' = [todo EXCEPT ![r] = @ \ {p}] /\ project' = [project EXCEPT ![r] = p]
            /\ loaded' = [loaded EXCEPT ![r] = NoLanguage] /\ pc' = [pc EXCEPT ![r] = "fetch"]
      BY <2>3
    <3>2. p \in Repositories
      BY <1>1 DEF L!TypeOK
    <3>3. /\ pc'[r] = "fetch" /\ todo'[r] = todo[r] \ {p} /\ project'[r] = p
          /\ loaded'[r] = NoLanguage
      BY <1>1, <3>1 DEF L!TypeOK
    <3>4. Others(r) /\ Grows(r)
      BY <1>1, <2>1, <3>1 DEF L!TypeOK, Others, Grows
    <3>5. L!TypeOK'
      <4>1. /\ todo' \in [LanguageJobs -> SUBSET Repositories]
            /\ project' \in [LanguageJobs -> Repositories \cup {NoLanguage}]
            /\ loaded' \in [LanguageJobs -> (SUBSET LanguageNames) \cup {NoLanguage}]
        <5>1. todo[r] \ {p} \in SUBSET Repositories
          BY <1>1 DEF L!TypeOK
        <5>2. /\ todo' = [todo EXCEPT ![r] = todo[r] \ {p}]
              /\ todo \in [LanguageJobs -> SUBSET Repositories]
          BY <1>1, <3>1 DEF L!TypeOK
        <5>3. todo' \in [LanguageJobs -> SUBSET Repositories]
          BY <5>1, <5>2
        <5>4. project' \in [LanguageJobs -> Repositories \cup {NoLanguage}]
          BY <1>1, <3>1, <3>2 DEF L!TypeOK
        <5>5. loaded' \in [LanguageJobs -> (SUBSET LanguageNames) \cup {NoLanguage}]
          BY <1>1, <3>1 DEF L!TypeOK
        <5> QED
          BY <5>3, <5>4, <5>5
      <4>2. \A q \in LanguageJobs : pc'[q] \in Fetched =>
              /\ pc[q] \in Fetched /\ project'[q] = project[q] /\ wanted'[q] = wanted[q]
              /\ pc'[q] = pc[q] /\ language'[q] = language[q] /\ L!Wanted(q)' = L!Wanted(q)
        BY <2>1, <3>3, <3>4 DEF Others, L!Wanted, Fetched
      <4>3. \A q \in LanguageJobs : pc'[q] \in Fetched =>
              wanted'[q] \subseteq DOMAIN Reported[project'[q]]
        BY <1>1, <4>2 DEF L!TypeOK, Fetched
      <4>4. \A q \in LanguageJobs : pc'[q] = "link" => language'[q] \in L!Rows(L!Wanted(q))'
        BY <1>1, <2>1, <4>2 DEF L!TypeOK, Fetched, L!Rows
      <4> QED
        BY <1>1, <2>1, <3>1, <4>1, <4>3, <4>4 DEF L!TypeOK, Fetched
    <3>6. RunInv(r)'
      BY <2>1, <3>2, <3>3, <3>4, NamesGrow DEF RunInv, Active, Fetched
    <3> QED
      BY <1>1, <1>3, <2>1, <3>4, <3>5, <3>6
  <2> QED
    BY <1>5, <2>2, <2>3 DEF L!NextProject, L!Goto
<1>6. ASSUME NEW r \in LanguageJobs, L!GiveUp(r, todo[r]), pc[r] \in Active,
             UNCHANGED <<languages, joins, project, loaded, wanted, language>>,
             faults \subseteq faults', faults' \subseteq LanguageJobs \X Repositories,
             L!GivenUpForAReason(r, project[r])'
      PROVE  LangInv'
  <2>1. /\ skipped' = [skipped EXCEPT ![r] = @ \cup {project[r]}]
        /\ todo' = [todo EXCEPT ![r] = todo[r]] /\ pc' = [pc EXCEPT ![r] = "next"]
    BY <1>6 DEF L!GiveUp, L!Goto
  <2>2. RunInv(r) /\ project[r] \in Repositories
    BY <1>6 DEF LangInv, RunInv
  <2>3. /\ pc'[r] = "next" /\ todo'[r] = todo[r] /\ project'[r] = project[r]
        /\ skipped'[r] = skipped[r] \cup {project[r]}
    BY <1>1, <1>6, <2>1 DEF L!TypeOK
  <2>4. Others(r) /\ Grows(r)
    BY <1>1, <1>6, <2>1 DEF L!TypeOK, Others, Grows
  <2>5. L!TypeOK'
    BY <1>1, <1>6, <2>1, <2>2 DEF L!TypeOK, L!Rows, L!Wanted
  <2>6. RunInv(r)'
    BY <1>6, <2>2, <2>3, <2>4, NamesGrow DEF RunInv, Active, Fetched
  <2> QED
    BY <1>1, <1>3, <1>6, <2>4, <2>5, <2>6
<1>7. ASSUME NEW r \in LanguageJobs, L!Fetch(r) PROVE LangInv'
  <2> DEFINE p == project[r]
             have == IF loaded[r] = NoLanguage THEN L!NamesOf(p) ELSE loaded[r]
             missing == {i \in DOMAIN Reported[p] : Reported[p][i] \notin have}
  <2>1. RunInv(r) /\ pc[r] = "fetch" /\ p \in Repositories
        /\ UNCHANGED <<languages, joins, project, language>>
    BY <1>7 DEF LangInv, L!Fetch, L!FetchThen, RunInv, Active
  <2>2. CASE /\ loaded' = [loaded EXCEPT ![r] = have] /\ wanted' = [wanted EXCEPT ![r] = missing]
             /\ pc' = [pc EXCEPT ![r] = "find"] /\ UNCHANGED <<todo, skipped, faults>>
    <3>1. have \in SUBSET LanguageNames /\ have \subseteq L!NamesOf(p)
      <4>1. CASE loaded[r] = NoLanguage
        <5>1. \A l \in languages : l[2] \in LanguageNames
          BY <1>1 DEF L!TypeOK
        <5>2. L!NamesOf(p) \subseteq LanguageNames
          BY <5>1 DEF L!NamesOf
        <5> QED
          BY <4>1, <5>2
      <4>2. CASE loaded[r] # NoLanguage
        BY <2>1, <4>2 DEF RunInv, Active
      <4> QED
        BY <4>1, <4>2
    <3> HIDE DEF have
    <3>2. \A i \in DOMAIN Reported[p] : Reported[p][i] \in L!NamesOf(p) \/ i \in missing
      BY <3>1
    <3>3. missing \subseteq DOMAIN Reported[p]
      OBVIOUS
    <3> HIDE DEF missing
    <3>4. /\ pc'[r] = "find" /\ todo'[r] = todo[r] /\ project'[r] = p /\ loaded'[r] = have
          /\ wanted'[r] = missing
      BY <1>1, <2>1, <2>2 DEF L!TypeOK
    <3>5. Others(r) /\ Grows(r)
      BY <1>1, <2>1, <2>2 DEF L!TypeOK, Others, Grows
    <3>6. L!TypeOK'
      <4>1. loaded' \in [LanguageJobs -> (SUBSET LanguageNames) \cup {NoLanguage}]
        BY <1>1, <2>2, <3>1 DEF L!TypeOK
      <4> QED
        BY <1>1, <2>1, <2>2, <3>3, <4>1 DEF L!TypeOK, L!Rows, L!Wanted
    <3>7. UNCHANGED <<languages, joins, skipped>>
      BY <2>1, <2>2
    <3>8. RunInv(r)'
      BY <2>1, <3>1, <3>2, <3>4, <3>5, <3>7, NamesGrow DEF RunInv, Active, Fetched
    <3> QED
      BY <1>1, <1>3, <2>1, <2>2, <3>5, <3>6, <3>8
  <2>3. CASE faults' = faults \cup {<<r, p>>} /\ L!GiveUp(r, todo[r]) /\ UNCHANGED <<loaded, wanted>>
    <3>1. L!GivenUpForAReason(r, project[r])'
      BY <2>1, <2>3 DEF L!GivenUpForAReason
    <3>2. faults' \subseteq LanguageJobs \X Repositories
      BY <1>1, <2>1, <2>3 DEF L!TypeOK
    <3> QED
      BY <1>6, <2>1, <2>3, <3>1, <3>2 DEF Active
  <2> QED
    BY <1>7, <2>2, <2>3 DEF L!Fetch, L!FetchThen, L!Goto
<1>8. ASSUME NEW r \in LanguageJobs, L!Find(r) PROVE LangInv'
  <2>1. RunInv(r) /\ pc[r] = "find" /\ project[r] \in Repositories
        /\ UNCHANGED <<languages, joins, todo, project, loaded, wanted, skipped, faults>>
    BY <1>8 DEF LangInv, L!Find, RunInv, Active, Fetched
  <2>2. ASSUME NEW label \in {"next", "link", "create"}, pc' = [pc EXCEPT ![r] = label]
        PROVE  pc'[r] = label /\ Others(r) /\ Grows(r)
    BY <1>1, <2>1, <2>2 DEF L!TypeOK, Others, Grows
  <2>3. CASE wanted[r] = {} /\ pc' = [pc EXCEPT ![r] = "next"] /\ UNCHANGED language
    <3>1. pc'[r] = "next" /\ Others(r) /\ Grows(r)
      BY <2>2, <2>3
    <3>2. Complete(project[r])
      BY <2>1, <2>3 DEF RunInv, Fetched, Complete, L!ReportedNames
    <3>3. L!TypeOK'
      BY <1>1, <2>1, <2>3 DEF L!TypeOK, L!Rows, L!Wanted
    <3>4. RunInv(r)'
      BY <2>1, <3>1, <3>2, NamesGrow DEF RunInv, Active, Fetched
    <3> QED
      BY <1>1, <1>3, <2>1, <2>3, <3>1, <3>3, <3>4
  <2>4. CASE /\ wanted[r] # {} /\ pc' = [pc EXCEPT ![r] = "link"]
             /\ \E l \in languages : l[2] = L!Wanted(r) /\ language' = [language EXCEPT ![r] = l]
    <3>1. pc'[r] = "link" /\ Others(r) /\ Grows(r)
      BY <2>2, <2>4
    <3>2. language'[r] \in L!Rows(L!Wanted(r)) /\ DOMAIN language' = LanguageJobs
          /\ \A q \in LanguageJobs \ {r} : language'[q] = language[q]
      BY <1>1, <2>4 DEF L!Rows
    <3>3. L!TypeOK'
      BY <1>1, <2>1, <2>4, <3>2 DEF L!TypeOK, L!Rows, L!Wanted
    <3>4. RunInv(r)'
      BY <2>1, <2>4, <3>1, NamesGrow DEF RunInv, Active, Fetched
    <3> QED
      BY <1>1, <1>3, <2>1, <3>1, <3>2, <3>3, <3>4
  <2>5. CASE /\ wanted[r] # {} /\ \A l \in languages : l[2] # L!Wanted(r)
             /\ pc' = [pc EXCEPT ![r] = "create"] /\ UNCHANGED language
    <3>1. pc'[r] = "create" /\ Others(r) /\ Grows(r)
      BY <2>2, <2>5
    <3>2. L!TypeOK'
      BY <1>1, <2>1, <2>5 DEF L!TypeOK, L!Rows, L!Wanted
    <3>3. L!Wanted(r)' = L!Wanted(r)
      BY <2>1 DEF L!Wanted
    <3>4. RunInv(r)'
      BY <2>1, <2>5, <3>1, <3>3, NamesGrow DEF RunInv, Active, Fetched
    <3> QED
      BY <1>1, <1>3, <2>1, <2>5, <3>1, <3>2, <3>4
  <2> QED
    BY <1>8, <2>3, <2>4, <2>5 DEF L!Find, L!Goto
<1>9. ASSUME NEW r \in LanguageJobs, L!Validate(r) PROVE LangInv'
  <2>1. RunInv(r) /\ pc[r] = "create" /\ project[r] \in Repositories /\ wanted[r] # {}
        /\ UNCHANGED <<languages, joins, project, loaded, wanted, language, faults>>
    BY <1>9 DEF LangInv, L!Validate, L!found, RunInv, Active, Fetched
  <2>2. CASE L!Rows(L!Wanted(r)) # {} /\ L!GiveUp(r, todo[r])
    <3>1. PICK l \in languages : l[2] = L!Wanted(r)
      BY <2>2 DEF L!Rows
    <3>2. l[1] \in LanguageJobs \ {r} /\ l = <<l[1], l[2]>>
      BY <1>1, <2>1, <3>1 DEF L!TypeOK, RunInv
    <3>3. L!Wanted(r) \in L!ReportedNames(project[r])
      BY <1>1, <2>1, WantedIsReported
    <3>4. L!GivenUpForAReason(r, project[r])
      BY <3>1, <3>2, <3>3 DEF L!GivenUpForAReason
    <3>5. L!GivenUpForAReason(r, project[r])'
      BY <2>1, <3>4 DEF L!GivenUpForAReason, L!ReportedNames
    <3>6. faults' \subseteq LanguageJobs \X Repositories
      BY <1>1, <2>1 DEF L!TypeOK
    <3> QED
      BY <1>6, <2>1, <2>2, <3>5, <3>6 DEF Active, Fetched
  <2>3. CASE pc' = [pc EXCEPT ![r] = "insert"] /\ UNCHANGED <<todo, skipped>>
    <3>1. pc'[r] = "insert" /\ Others(r) /\ Grows(r)
      BY <1>1, <2>1, <2>3 DEF L!TypeOK, Others, Grows
    <3>2. L!TypeOK'
      BY <1>1, <2>1, <2>3 DEF L!TypeOK, L!Rows, L!Wanted
    <3>3. RunInv(r)'
      BY <2>1, <2>3, <3>1, NamesGrow DEF RunInv, Active, Fetched
    <3> QED
      BY <1>1, <1>3, <2>1, <3>1, <3>2, <3>3
  <2> QED
    BY <1>9, <2>2, <2>3 DEF L!Validate, L!Goto
<1>10. ASSUME NEW r \in LanguageJobs, L!Insert(r) PROVE LangInv'
  <2> DEFINE row == <<r, L!Wanted(r)>>
  <2>1. /\ RunInv(r) /\ pc[r] = "insert" /\ wanted[r] # {}
        /\ languages' = languages \cup {row} /\ language' = [language EXCEPT ![r] = row]
        /\ pc' = [pc EXCEPT ![r] = "link"]
        /\ UNCHANGED <<joins, todo, project, loaded, wanted, skipped, faults>>
    BY <1>10 DEF LangInv, L!Insert, L!Goto, RunInv
  <2>2. L!Wanted(r) \in LanguageNames /\ L!Wanted(r)' = L!Wanted(r)
    BY <1>1, <2>1, WantedIsReported DEF L!Wanted
  <2>3. row \in LanguageJobs \X LanguageNames /\ row[1] = r /\ row[2] = L!Wanted(r)
    BY <2>2
  <2> HIDE DEF row
  <2>4. pc'[r] = "link" /\ Others(r) /\ Grows(r)
    BY <1>1, <2>1, <2>3 DEF L!TypeOK, Others, Grows
  <2>5. /\ language'[r] = row /\ DOMAIN language' = LanguageJobs
        /\ \A q \in LanguageJobs \ {r} : language'[q] = language[q]
    BY <1>1, <2>1
  <2>6. L!TypeOK'
    BY <1>1, <2>1, <2>2, <2>3, <2>4, <2>5 DEF L!TypeOK, L!Rows, L!Wanted
  <2>7. RunInv(r)'
    BY <2>1, <2>4, NamesGrow DEF RunInv, Active, Fetched
  <2> QED
    BY <1>1, <1>3, <2>1, <2>4, <2>5, <2>6, <2>7
<1>11. ASSUME NEW r \in LanguageJobs, L!Link(r) PROVE LangInv'
  <2> DEFINE row == <<project[r], language[r]>>
             n == L!Wanted(r)
  <2>1. /\ RunInv(r) /\ pc[r] = "link" /\ wanted[r] # {} /\ project[r] \in Repositories
        /\ UNCHANGED <<languages, todo, project, language, skipped, faults>>
    BY <1>11 DEF LangInv, L!Link, L!LinkRemembering, RunInv, Active, Fetched
  <2>2. language[r] \in languages /\ language[r][2] = n /\ n \in LanguageNames
    BY <1>1, <2>1, WantedIsReported DEF L!TypeOK, L!Rows
  <2>3. L!Min(wanted[r]) \in wanted[r] /\ n = Reported[project[r]][L!Min(wanted[r])]
    BY <1>1, <2>1, WantedIsReported DEF L!Wanted
  <2>4. CASE pc' = [pc EXCEPT ![r] = "fetch"] /\ UNCHANGED <<joins, loaded, wanted>>
    <3>1. pc'[r] = "fetch" /\ Others(r) /\ Grows(r)
      BY <1>1, <2>1, <2>4 DEF L!TypeOK, Others, Grows
    <3>2. L!TypeOK'
      BY <1>1, <2>1, <2>4 DEF L!TypeOK, L!Rows, L!Wanted
    <3>3. RunInv(r)'
      BY <2>1, <2>4, <3>1, NamesGrow DEF RunInv, Active, Fetched
    <3> QED
      BY <1>1, <1>3, <2>1, <2>4, <3>1, <3>2, <3>3
  <2>5. CASE /\ joins' = joins \cup {row} /\ loaded' = [loaded EXCEPT ![r] = loaded[r] \cup {n}]
             /\ wanted' = [wanted EXCEPT ![r] = @ \ {L!Min(@)}] /\ pc' = [pc EXCEPT ![r] = "find"]
    <3>1. /\ pc'[r] = "find" /\ loaded'[r] = loaded[r] \cup {n}
          /\ wanted'[r] = wanted[r] \ {L!Min(wanted[r])}
      BY <1>1, <2>5 DEF L!TypeOK
    <3>2. Others(r) /\ Grows(r)
      BY <1>1, <2>1, <2>5 DEF L!TypeOK, Others, Grows
    <3>3. n \in L!NamesOf(project[r])'
      <4>1. language[r] \in languages' /\ <<project'[r], language[r]>> \in joins'
        BY <2>1, <2>2, <2>5
      <4> QED
        BY <2>1, <2>2, <4>1 DEF L!NamesOf
    <3> HIDE DEF n
    <3>4. loaded[r] \in SUBSET LanguageNames /\ loaded[r] \subseteq L!NamesOf(project[r])
      BY <2>1 DEF RunInv, Active, Fetched
    <3>5. L!TypeOK'
      <4>1. joins' \subseteq Repositories \X languages
        BY <1>1, <2>1, <2>2, <2>5 DEF L!TypeOK
      <4>2. loaded' \in [LanguageJobs -> (SUBSET LanguageNames) \cup {NoLanguage}]
        BY <1>1, <2>2, <2>5, <3>4 DEF L!TypeOK
      <4>3. wanted[r] \subseteq DOMAIN Reported[project[r]]
        BY <1>1, <2>1 DEF L!TypeOK
      <4> QED
        BY <1>1, <2>1, <2>5, <3>1, <4>1, <4>2, <4>3 DEF L!TypeOK, L!Rows, L!Wanted
    <3>6. UNCHANGED <<todo, skipped>> /\ project'[r] = project[r]
      BY <2>1
    <3>7. loaded'[r] \in SUBSET LanguageNames /\ loaded'[r] \subseteq L!NamesOf(project[r])'
      BY <2>2, <3>1, <3>2, <3>3, <3>4, <3>6, NamesGrow
    <3>8. \A i \in DOMAIN Reported[project[r]] :
            Reported[project[r]][i] \in L!NamesOf(project[r])' \/ i \in wanted'[r]
      BY <2>1, <2>3, <3>1, <3>2, <3>3, <3>6, NamesGrow DEF RunInv, Fetched
    <3>9. RunInv(r)'
      BY <2>1, <3>1, <3>2, <3>6, <3>7, <3>8, NamesGrow DEF RunInv, Active, Fetched
    <3> QED
      BY <1>1, <1>3, <2>1, <2>5, <3>2, <3>5, <3>9
  <2> QED
    BY <1>11, <2>4, <2>5 DEF L!Link, L!LinkRemembering, L!Goto
<1> QED
  BY <1>2, <1>4, <1>5, <1>7, <1>8, <1>9, <1>10, <1>11
  DEF L!Next, L!Work, langVars, L!found

\* The languages job begins in its invariant.
LEMMA LangStart == L!Init => LangInv
<1> SUFFICES ASSUME L!Init PROVE LangInv
  OBVIOUS
<1>1. /\ languages = {} /\ joins = {} /\ faults = {}
      /\ pc = [r \in LanguageJobs |-> "idle"]
      /\ todo = [r \in LanguageJobs |-> {}] /\ skipped = [r \in LanguageJobs |-> {}]
      /\ project = [r \in LanguageJobs |-> NoLanguage]
      /\ loaded = [r \in LanguageJobs |-> NoLanguage]
      /\ DOMAIN wanted = LanguageJobs /\ DOMAIN language = LanguageJobs
  BY DEF L!Init
<1>2. \A r \in LanguageJobs : pc[r] = "idle" /\ skipped[r] = {}
  BY <1>1
<1>3. L!TypeOK
  <2>1. /\ pc \in [LanguageJobs -> {"idle", "next", "fetch", "find", "create", "insert", "link", "done"}]
        /\ todo \in [LanguageJobs -> SUBSET Repositories]
        /\ skipped \in [LanguageJobs -> SUBSET Repositories]
    BY <1>1
  <2>2. project \in [LanguageJobs -> Repositories \cup {NoLanguage}]
    BY <1>1
  <2>3. loaded \in [LanguageJobs -> (SUBSET LanguageNames) \cup {NoLanguage}]
    BY <1>1
  <2> QED
    BY <1>1, <1>2, <2>1, <2>2, <2>3 DEF L!TypeOK
<1> QED
  BY <1>1, <1>2, <1>3 DEF LangInv, RunInv, Active, Fetched

\* The invariant of the languages job has what the runs check of it.
LEMMA LangConclusions == LangInv => L!TypeOK /\ L!EndedRunsComplete
BY DEF LangInv, RunInv, L!EndedRunsComplete, Complete, Active, Fetched

(***************************************************************************)
(* The parts together, and what holds of every behaviour.                  *)
(***************************************************************************)
CommunityInv == DocInv /\ ProjInv /\ KarmaInv /\ LangInv

\* A step is one of a part, or leaves it alone.
LEMMA StepsOfParts ==
    [Next]_mcVars =>
        [D!DocNext]_docVars /\ [P!ProjNext]_projVars /\ [K!KarmaNext]_karmaVars /\ [L!Next]_langVars
BY DEF Next, mcVars

\* The inductive invariant of the specification.
THEOREM Invariant == Spec => []CommunityInv
<1>1. Init => CommunityInv
  BY DocStart, ProjStart, KarmaStart, LangStart DEF Init, CommunityInv
<1>2. CommunityInv /\ [Next]_mcVars => CommunityInv'
  BY StepsOfParts, DocStep, ProjStep, KarmaStep, LangStep DEF CommunityInv
<1> QED
  BY <1>1, <1>2, PTL DEF Spec

\* Every variable has its type, whatever the members, requests and jobs do.
THEOREM TypeCorrect == Spec => []TypeOK
<1>1. DocInv => D!DocTypeOK
  BY DEF DocInv
<1>2. ProjInv => P!ProjTypeOK
  BY DEF ProjInv, TableInv, FollowInv, VisitInv, P!ProjTypeOK
<1>3. CommunityInv => TypeOK
  BY <1>1, <1>2, KarmaConclusions, LangConclusions DEF CommunityInv, TypeOK
<1> QED
  BY <1>3, Invariant, PTL

\* A document that cannot be reached from the project's categories was moved,
\* or its section changed, by a request that acted on an outdated page or
\* reading; otherwise no sequence of legal edits loses one.
THEOREM NoDocumentIsLost == Spec => []LostNeedsStalePage
<1>1. CommunityInv => LostNeedsStalePage
  BY LostAreBelowStale DEF CommunityInv, LostNeedsStalePage
<1> QED
  BY <1>1, Invariant, PTL

\* No follow outlives the account of its user, unless two of the user's
\* requests on following overlapped.
THEOREM NoFollowOutlivesItsAccount == Spec => []FollowsAreOfMembers
<1>1. CommunityInv => FollowsAreOfMembers
  BY DEF CommunityInv, ProjInv, FollowInv, FollowsAreOfMembers
<1> QED
  BY <1>1, Invariant, PTL

\* When an unfollow of a user whose requests have not overlapped is answered,
\* the user follows the project no more.
THEOREM UnfollowedIsGone == Spec => UnfollowLeavesNone
<1> DEFINE Leaves(v) ==
             /\ visits[v].op = "unfollow" /\ visits[v].at # "done" /\ visits'[v].at = "done"
             /\ visits[v].user \notin raced
             => \A f \in follows' : ~ (f.user = visits[v].user /\ f.project = visits[v].project)
<1>1. ASSUME CommunityInv, [Next]_mcVars, NEW v \in Visits PROVE Leaves(v) \/ UNCHANGED projVars
  <2> SUFFICES ASSUME ~ UNCHANGED projVars, visits[v].op = "unfollow", visits[v].at # "done",
                      visits'[v].at = "done", visits[v].user \notin raced
               PROVE  \A f \in follows' : ~ (f.user = visits[v].user /\ f.project = visits[v].project)
    OBVIOUS
  <2>1. ProjInv /\ P!ProjNext
    BY <1>1, StepsOfParts DEF CommunityInv
  <2> QED
    BY <2>1, UnfollowStep
<1>2. CommunityInv /\ [Next]_mcVars => [\A v \in Visits : Leaves(v)]_projVars
  BY <1>1
<1>3. Spec => [][\A v \in Visits : Leaves(v)]_projVars
  BY <1>2, Invariant, PTL DEF Spec
<1> QED
  BY <1>3 DEF UnfollowLeavesNone, P!UnfollowLeavesNone, projVars, P!projVars

\* The stored total of a member's karma is the sum of what it was computed of,
\* unless two runs of the calculator overlapped.
THEOREM KarmaAddsUp == Spec => []TotalIsSum
<1>1. CommunityInv => TotalIsSum
  BY KarmaConclusions DEF CommunityInv, TotalIsSum
<1> QED
  BY <1>1, Invariant, PTL

\* A member has one row of karma, and one of commits in each project, unless
\* two runs of the job that writes it overlapped.
THEOREM OneRowTheorem == Spec => []OneRowEach
<1>1. CommunityInv => OneRowEach
  BY KarmaConclusions DEF CommunityInv, OneRowEach
<1> QED
  BY <1>1, Invariant, PTL

\* A run of the languages task that has ended has added to every project what
\* GitHub reported of it, but for the projects it gave up, each because GitHub
\* failed or another run inserted one of its languages.
THEOREM LanguagesArrive == Spec => []EndedRunsComplete
<1>1. CommunityInv => EndedRunsComplete
  BY LangConclusions DEF CommunityInv, EndedRunsComplete
<1> QED
  BY <1>1, Invariant, PTL
=============================================================================
