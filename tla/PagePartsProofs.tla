---------------------------- MODULE PagePartsProofs ----------------------------
(***************************************************************************)
(* Proofs about the parts of a page, for any numbers of menus, panels,     *)
(* dialogs, rows and events: each section gives the invariant of one part, *)
(* shows that the part begins in it and keeps it, and what follows from it *)
(* of the part at rest. Here are the scripts' modules, the lists, the      *)
(* carousel, the panels, what follows the scrolling, the tips and the      *)
(* dialogs.                                                                *)
(***************************************************************************)
EXTENDS PageParts, Sequences, TLAPS, FiniteSetTheorems

(***************************************************************************)
(* What the folds of the parts compute; and sequences.                     *)
(***************************************************************************)
Moves == INSTANCE Folding WITH Op <- TabLists!Next

\* An element of a sequence is of its set.
LEMMA ElementOf ==
    ASSUME NEW T, NEW s \in Seq(T), NEW i \in 1 .. Len(s)
    PROVE  s[i] \in T
OBVIOUS

\* The elements of a sequence that are in a set, in their order.
Kept(s, set) ==
    LET kept[n \in 0 .. Len(s)] ==
            IF n = 0 THEN <<>>
            ELSE IF s[n] \in set THEN Append(kept[n - 1], s[n]) ELSE kept[n - 1]
    IN  kept[Len(s)]

\* Keeping some of a sequence gives a sequence that is no longer.
LEMMA KeptIs ==
    ASSUME NEW T, NEW s \in Seq(T), NEW set
    PROVE  Kept(s, set) \in Seq(T) /\ Len(Kept(s, set)) <= Len(s)
<1> DEFINE N == Len(s)
           S == Seq(T)
           next == [xm \in S \X (1 .. N) |->
                       IF s[xm[2]] \in set THEN Append(xm[1], s[xm[2]]) ELSE xm[1]]
           IsKept(f) == f = [n \in 0 .. N |->
                              IF n = 0 THEN <<>>
                              ELSE IF s[n] \in set THEN Append(f[n - 1], s[n]) ELSE f[n - 1]]
           kept == CHOOSE f : IsKept(f)
<1>1. N \in Nat /\ <<>> \in S /\ next \in [S \X (1 .. N) -> S]
  <2>1. N \in Nat /\ <<>> \in S
    OBVIOUS
  <2>2. ASSUME NEW x \in S, NEW m \in 1 .. N PROVE Append(x, s[m]) \in S
    <3>1. s[m] \in T
      BY ElementOf
    <3> QED
      BY <3>1
  <2> HIDE DEF N, S
  <2> QED
    BY <2>1, <2>2
<1>2. \E f : IsKept(f)
  <2>2. PICK after \in [0 .. N -> S] : Moves!Steps(N, <<>>, next, after)
    <3> HIDE DEF N, S, next
    <3> QED
      BY <1>1, Moves!StepsExist
  <2>3. ASSUME NEW n \in 1 .. N
        PROVE  after[n] = IF s[n] \in set THEN Append(after[n - 1], s[n]) ELSE after[n - 1]
    <3>1. after[n - 1] \in S
      <4>1. n - 1 \in 0 .. N
        BY <1>1
      <4> HIDE DEF N, S
      <4> QED
        BY <2>2, <4>1
    <3>2. <<after[n - 1], n>> \in S \X (1 .. N)
      BY <3>1
    <3>3. after[n] = next[<<after[n - 1], n>>]
      <4> HIDE DEF N, S, next
      <4> QED
        BY <2>2 DEF Moves!Steps
    <3> HIDE DEF S, N
    <3> QED
      BY <3>2, <3>3
  <2>4. IsKept(after)
    <3>1. \A n \in 0 .. N : n = 0 \/ n \in 1 .. N
      BY <1>1
    <3> HIDE DEF S, next, N
    <3> QED
      BY <2>2, <2>3, <3>1 DEF Moves!Steps
  <2> QED
    BY <2>4
<1>3. IsKept(kept)
  BY <1>2
<1>4. Kept(s, set) = kept[N]
  BY Zenon DEF Kept
<1> HIDE DEF kept
<1> DEFINE Typed(n) == kept[n] \in S /\ Len(kept[n]) <= n
<1>5. Typed(0)
  BY <1>1, <1>3
<1>6. ASSUME NEW n \in 1 .. N, Typed(n - 1) PROVE Typed(n)
  <2>1. kept[n] = IF s[n] \in set THEN Append(kept[n - 1], s[n]) ELSE kept[n - 1]
    <3>1. n \in 0 .. N /\ n # 0
      BY <1>1
    <3> HIDE DEF N
    <3> QED
      BY <1>3, <3>1
  <2>2. s[n] \in T
    BY ElementOf
  <2>3. kept[n - 1] \in S /\ Len(kept[n - 1]) <= n - 1
    BY <1>6
  <2>4. /\ Append(kept[n - 1], s[n]) \in S
        /\ Len(Append(kept[n - 1], s[n])) = Len(kept[n - 1]) + 1
    BY <2>2, <2>3
  <2>5. n \in Nat /\ Len(kept[n - 1]) \in Nat
    BY <1>1, <2>3
  <2> HIDE DEF S, N
  <2> QED
    BY <2>1, <2>3, <2>4, <2>5
<1>7. \A n \in 0 .. N : Typed(n)
  <2> DEFINE typed == {n \in 0 .. N : Typed(n)}
  <2>1. 0 \in typed
    BY <1>1, <1>5
  <2>2. ASSUME NEW n \in 1 .. N, n - 1 \in typed PROVE n \in typed
    <3> HIDE DEF Typed, N
    <3>1. n \in 0 .. N
      BY <1>1
    <3> QED
      BY <1>6, <2>2, <3>1
  <2> HIDE DEF typed
  <2>3. 0 .. N \subseteq typed
    <3> HIDE DEF N
    <3> QED
      BY <1>1, <2>1, <2>2, Moves!UpTo
  <2> QED
    BY <2>3 DEF typed
<1> QED
  BY <1>1, <1>4, <1>7

\* Elements of a sequence put together, a part of it, and without one of them.
Without(s, i) == SubSeq(s, 1, i - 1) \o SubSeq(s, i + 1, Len(s))

\* A sequence without its element i: those after it move up by one.
LEMMA RemovedFrom ==
    ASSUME NEW T, NEW s \in Seq(T), NEW i \in 1 .. Len(s), NEW t, t = Without(s, i)
    PROVE  /\ t \in Seq(T) /\ Len(t) = Len(s) - 1
           /\ \A j \in 1 .. Len(t) : t[j] = s[IF j < i THEN j ELSE j + 1]
<1> DEFINE u == SubSeq(s, 1, i - 1)
           v == SubSeq(s, i + 1, Len(s))
<1>1. t = u \o v
  BY DEF Without
<1>2. u \in Seq(T) /\ Len(u) = i - 1 /\ \A j \in 1 .. i - 1 : u[j] = s[j]
  OBVIOUS
<1>3. v \in Seq(T) /\ Len(v) = Len(s) - i /\ \A j \in 1 .. Len(s) - i : v[j] = s[j + i]
  OBVIOUS
<1>4. Len(s) \in Nat /\ i \in 1 .. Len(s)
  OBVIOUS
<1> HIDE DEF u, v
<1>5. t \in Seq(T) /\ Len(t) = Len(s) - 1
  BY <1>1, <1>2, <1>3, <1>4
<1>6. ASSUME NEW j \in 1 .. Len(t) PROVE t[j] = s[IF j < i THEN j ELSE j + 1]
  <2>1. CASE j < i
    BY <1>1, <1>2, <1>3, <1>4, <1>5, <2>1
  <2>2. CASE ~(j < i)
    <3>1. j - (i - 1) \in 1 .. Len(s) - i /\ j - (i - 1) + i = j + 1
      BY <1>4, <1>5, <2>2
    <3>2. t[j] = v[j - (i - 1)]
      BY <1>1, <1>2, <1>3, <1>4, <1>5, <2>2
    <3> QED
      BY <1>3, <2>2, <3>1, <3>2
  <2> QED
    BY <2>1, <2>2
<1> QED
  BY <1>5, <1>6

\* A sequence that an element was appended to: its length and its elements.
LEMMA Lengthened ==
    ASSUME NEW T, NEW q \in Seq(T), NEW v \in T
    PROVE  /\ Append(q, v) \in Seq(T) /\ Len(Append(q, v)) = Len(q) + 1
           /\ Append(q, v)[Len(q) + 1] = v
           /\ \A i \in 1 .. Len(q) : Append(q, v)[i] = q[i]
OBVIOUS

\* Its last element, and that it has one.
LEMMA Appended ==
    ASSUME NEW T, NEW s \in Seq(T), NEW x \in T
    PROVE  /\ Append(s, x) \in Seq(T) /\ Append(s, x) # <<>>
           /\ Append(s, x)[Len(Append(s, x))] = x
           /\ s = <<>> => Append(s, x) = <<x>>
<1>1. Append(<<>>, x) = <<x>>
  OBVIOUS
<1>2. Append(s, x) # <<>>
  <2>1. Len(Append(s, x)) = Len(s) + 1 /\ Len(s) \in Nat
    BY Lengthened
  <2>2. Len(s) + 1 # 0
    BY <2>1
  <2>3. Len(<<>>) = 0
    OBVIOUS
  <2> QED
    BY <2>1, <2>2, <2>3
<1>3. Append(s, x) \in Seq(T) /\ Append(s, x)[Len(Append(s, x))] = x
  BY Lengthened
<1>4. s = <<>> => Append(s, x) = <<x>>
  BY <1>1, Zenon
<1> QED
  BY <1>2, <1>3, <1>4

\* The elements of two sequences put together are theirs, in their order.
LEMMA Concatenated ==
    ASSUME NEW T, NEW s \in Seq(T), NEW u \in Seq(T)
    PROVE  /\ s \o u \in Seq(T) /\ Len(s \o u) = Len(s) + Len(u)
           /\ \A j \in 1 .. Len(s) : (s \o u)[j] = s[j]
           /\ \A j \in 1 .. Len(u) : (s \o u)[Len(s) + j] = u[j]
OBVIOUS

\* The elements of a part of a sequence.
LEMMA PartOf ==
    ASSUME NEW T, NEW s \in Seq(T), NEW m \in Nat \ {0}, NEW n \in Nat, n <= Len(s)
    PROVE  /\ SubSeq(s, m, n) \in Seq(T)
           /\ Len(SubSeq(s, m, n)) = IF m <= n THEN n - m + 1 ELSE 0
           /\ m <= n => \A j \in 1 .. n - m + 1 : SubSeq(s, m, n)[j] = s[j + m - 1]
OBVIOUS

\* A set whose elements are the same has at most one.
LEMMA AtMostOne ==
    ASSUME NEW S, \A x, y \in S : x = y
    PROVE  IsFiniteSet(S) /\ Cardinality(S) <= 1
<1>1. CASE S = {}
  BY <1>1, FS_EmptySet
<1>2. ASSUME NEW x \in S PROVE IsFiniteSet(S) /\ Cardinality(S) <= 1
  <2>1. S = {x}
    OBVIOUS
  <2> QED
    <3>1. IsFiniteSet({x}) /\ Cardinality({x}) = 1
      BY FS_Singleton
    <3> QED
      BY <2>1, <3>1
<1> QED
  BY <1>1, <1>2

\* And the other way round.
LEMMA NoTwo ==
    ASSUME NEW S, IsFiniteSet(S), Cardinality(S) <= 1
    PROVE  \A x, y \in S : x = y
<1>1. Cardinality(S) \in Nat
  BY FS_CardinalityType
<1>2. Cardinality(S) = 0 \/ Cardinality(S) = 1
  BY <1>1
<1>3. CASE Cardinality(S) = 0
  BY <1>3, FS_EmptySet
<1>4. CASE Cardinality(S) = 1
  <2>1. \E x : S = {x}
    BY <1>4, FS_Singleton
  <2> QED
    BY <2>1
<1> QED
  BY <1>2, <1>3, <1>4

(***************************************************************************)
(* The scripts' modules, the clock and the banner.                         *)
(***************************************************************************)
Sites ==
    [visit : 0 .. MaxVisits, now : Nat, next : EventTimes \cup {0},
     text : {"empty", "countdown", "live", "ended"},
     newPageLoaded : BOOLEAN, ready : BOOLEAN, inits : [Modules -> 0 .. 1],
     event : EventTimes \cup {0}, clockOf : 0 .. MaxVisits, timers : 0 .. 1, due : BOOLEAN,
     message : BOOLEAN, banner : BOOLEAN, hider : {"none", "message", "banner"},
     stored : BOOLEAN]

\* Nothing runs before the page is ready, when the modules are initialised.
InitsOf(s) ==
    /\ ~s.ready => /\ s.inits = [m \in Modules |-> 0]
                   /\ s.clockOf = 0 /\ s.timers = 0 /\ s.due = FALSE
    /\ s.ready => s.inits = [m \in Modules |-> 1]

\* The page's own clock says what is so of its event, unless an update is due,
\* and is updated again unless the event has ended.
ClockRuns(s) ==
    /\ s.clockOf <= s.visit
    /\ s.due => s.timers = 1
    /\ s.clockOf = s.visit =>
          /\ s.event = s.next
          /\ s.timers = 1 <=> s.text # "ended"
          /\ s.text # "empty"
          /\ ~s.due => s.text = Pages!Says(s.event, s.now)

SiteInv(s) ==
    /\ s \in Sites /\ s.visit > 0
    /\ InitsOf(s) /\ ClockRuns(s)
    /\ s.stored => ~s.banner

\* The times of events, and 0 for none, are numbers.
LEMMA EventTimesAreNumbers ==
    ASSUME NEW time \in EventTimes \cup {0}
    PROVE  time \in Nat
BY SiteAssumption

\* What the clock says of an event: the text changes in one order only, and "ended" is
\* said no earlier than a minute before the end, and at the end.
LEMMA SaysText ==
    ASSUME NEW event \in Nat, NEW now \in Nat
    PROVE  /\ Pages!Says(event, now) \in {"countdown", "live", "ended"}
           /\ Pages!Says(event, now) = "ended" => Pages!Says(event, now + 1) = "ended"
           /\ (Pages!Says(event, now) = "countdown") = (event - now > 0)
           /\ Pages!Says(event, now) = "ended" => event - now < -2 * EventMinutes + 2
           /\ event - now <= -2 * EventMinutes => Pages!Says(event, now) = "ended"
BY SiteAssumption DEF Pages!Says


\* What a new page leaves of the page before.
LEMMA BodyIs ==
    ASSUME NEW s \in Sites, s.visit < MaxVisits, NEW next \in EventTimes, NEW message \in BOOLEAN,
           NEW t, t = Pages!Body(s, next, message)
    PROVE  /\ t \in Sites
           /\ t.visit = s.visit + 1 /\ t.next = next /\ t.text = "empty"
           /\ t.stored => ~t.banner
           /\ t.now = s.now /\ t.ready = s.ready /\ t.inits = s.inits /\ t.event = s.event
           /\ t.clockOf = s.clockOf /\ t.timers = s.timers /\ t.due = s.due
<1> USE SiteAssumption DEF Pages!Body, Pages!RunBannerScript
<1>1. t \in Sites
  <2> DEFINE u == [s EXCEPT !.visit = @ + 1, !.next = next, !.message = message,
                            !.banner = TRUE, !.text = "empty"]
             hider == CASE u.stored -> "none" [] u.message -> "message" [] OTHER -> "banner"
             banner == u.banner /\ ~u.stored
  <2>1. s.visit + 1 \in 0 .. MaxVisits /\ next \in EventTimes \cup {0}
    BY DEF Sites
  <2>2. u \in Sites
    BY <2>1 DEF Sites
  <2>3. hider \in {"none", "message", "banner"} /\ banner \in BOOLEAN
    OBVIOUS
  <2>4. t = [u EXCEPT !.banner = banner, !.hider = hider]
    OBVIOUS
  <2> HIDE DEF u, hider, banner
  <2> QED
    BY <2>2, <2>3, <2>4 DEF Sites
<1>2. t.visit = s.visit + 1 /\ t.next = next /\ t.text = "empty"
  BY DEF Sites
<1>3. t.stored => ~t.banner
  BY DEF Sites
<1>4. /\ t.now = s.now /\ t.ready = s.ready /\ t.inits = s.inits /\ t.event = s.event
      /\ t.clockOf = s.clockOf /\ t.timers = s.timers /\ t.due = s.due
  BY DEF Sites
<1> QED
  BY <1>1, <1>2, <1>3, <1>4

\* A page that was just loaded is in the invariant, whatever was loaded.
LEMMA LoadedKeeps ==
    ASSUME NEW now \in Nat, NEW visit \in 0 .. MaxVisits - 1, NEW stored \in BOOLEAN,
           NEW next \in EventTimes, NEW message \in BOOLEAN
    PROVE  SiteInv(Pages!Loaded(now, visit, stored, next, message))
<1> DEFINE s == Pages!Started(now, visit, stored)
           t == Pages!Body(s, next, message)
<1>1. /\ s.visit = visit /\ s.now = now /\ s.ready = FALSE
      /\ s.inits = [m \in Modules |-> 0] /\ s.clockOf = 0 /\ s.timers = 0 /\ s.due = FALSE
      /\ s.newPageLoaded = TRUE
  BY DEF Pages!Started
<1>2. s \in Sites
  BY SiteAssumption DEF Pages!Started, Pages!NoEvent, Sites
<1>3. Pages!Loaded(now, visit, stored, next, message) = t
  BY <1>1 DEF Pages!Loaded, Pages!DefineModules
<1> HIDE DEF s
<1>4. /\ t \in Sites
      /\ t.visit = visit + 1 /\ (t.stored => ~t.banner)
      /\ t.ready = FALSE /\ t.inits = [m \in Modules |-> 0]
      /\ t.clockOf = 0 /\ t.timers = 0 /\ t.due = FALSE
  BY <1>1, <1>2, BodyIs, SiteAssumption
<1> HIDE DEF t
<1> QED
  BY <1>3, <1>4, SiteAssumption DEF SiteInv, InitsOf, ClockRuns

\* The first page is in the invariant.
LEMMA SiteStarts ==
    ASSUME Pages!SiteInit
    PROVE  SiteInv(page)
<1>1. PICK next \in EventTimes, message \in BOOLEAN :
          page = Pages!Loaded(0, 0, FALSE, next, message)
  BY DEF Pages!SiteInit
<1>2. 0 \in Nat /\ 0 \in 0 .. MaxVisits - 1 /\ FALSE \in BOOLEAN
  BY SiteAssumption
<1>3. SiteInv(Pages!Loaded(0, 0, FALSE, next, message))
  BY <1>2, LoadedKeeps
<1> QED
  BY <1>1, <1>3

\* A full load keeps the invariant.
LEMMA LoadKeeps ==
    ASSUME SiteInv(page), NEW next \in EventTimes, NEW message \in BOOLEAN,
           Pages!Load(next, message)
    PROVE  SiteInv(page')
<1>1. /\ page.now \in Nat /\ page.visit \in 0 .. MaxVisits - 1 /\ page.stored \in BOOLEAN
      /\ page' = Pages!Loaded(page.now, page.visit, page.stored, next, message)
  BY SiteAssumption DEF SiteInv, Sites, Pages!Load
<1> QED
  BY <1>1, LoadedKeeps

\* A visit by Turbo keeps the invariant: a countdown of an earlier page goes on.
LEMMA VisitKeeps ==
    ASSUME SiteInv(page), NEW next \in EventTimes, NEW message \in BOOLEAN,
           Pages!Visit(next, message)
    PROVE  SiteInv(page')
<1>1. /\ page \in Sites /\ page.visit < MaxVisits /\ page.visit \in 1 .. MaxVisits
      /\ page.clockOf \in Nat /\ page.clockOf <= page.visit
      /\ page' = Pages!Body(page, next, message)
  BY SiteAssumption DEF SiteInv, Sites, ClockRuns, Pages!Visit
<1>2. InitsOf(page) /\ (page.due => page.timers = 1)
  BY DEF SiteInv, ClockRuns
<1>3. /\ page' \in Sites
      /\ page'.visit = page.visit + 1 /\ (page'.stored => ~page'.banner)
      /\ page'.ready = page.ready /\ page'.inits = page.inits
      /\ page'.clockOf = page.clockOf /\ page'.timers = page.timers /\ page'.due = page.due
  BY <1>1, BodyIs
<1>4. InitsOf(page')
  BY <1>2, <1>3 DEF InitsOf
<1>5. ClockRuns(page') /\ page'.visit > 0
  BY <1>1, <1>2, <1>3 DEF ClockRuns
<1> QED
  BY <1>3, <1>4, <1>5 DEF SiteInv

\* What an update leaves of a page whose timer, if it had one, has run.
LEMMA UpdateKeeps ==
    ASSUME NEW s \in Sites, s.timers = 0, s.due = FALSE, s.visit > 0, s.clockOf <= s.visit,
           s.clockOf = s.visit => s.event = s.next, s.stored => ~s.banner,
           s.ready = TRUE, s.inits = [m \in Modules |-> 1],
           NEW t, t = Pages!Update(s)
    PROVE  SiteInv(t)
<1> DEFINE text == Pages!Says(s.event, s.now)
           shown == IF s.clockOf = s.visit THEN [s EXCEPT !.text = text] ELSE s
           timers == IF text = "ended" THEN shown.timers ELSE shown.timers + 1
<1>1. s.event \in EventTimes \cup {0} /\ s.now \in Nat
  BY DEF Sites
<1>2. text \in {"countdown", "live", "ended"}
  BY <1>1, SaysText, SiteAssumption
<1>3. t = [shown EXCEPT !.timers = timers]
  BY DEF Pages!Update
<1> HIDE DEF text
<1>4. /\ shown \in Sites /\ (s.clockOf = s.visit => shown.text = text)
      /\ shown.timers = 0 /\ shown.due = FALSE /\ shown.visit = s.visit /\ shown.clockOf = s.clockOf
      /\ shown.event = s.event /\ shown.next = s.next /\ shown.now = s.now
      /\ shown.stored = s.stored /\ shown.banner = s.banner
      /\ shown.ready = s.ready /\ shown.inits = s.inits
  BY <1>2 DEF Sites
<1>5. timers \in 0 .. 1 /\ (timers = 1 <=> text # "ended")
  BY <1>4
<1> HIDE DEF shown, timers
<1>6. /\ t \in Sites /\ t.text = shown.text /\ t.timers = timers
      /\ t.due = FALSE /\ t.visit = s.visit /\ t.clockOf = s.clockOf
      /\ t.event = s.event /\ t.next = s.next /\ t.now = s.now
      /\ t.stored = s.stored /\ t.banner = s.banner
      /\ t.ready = s.ready /\ t.inits = s.inits
  BY <1>3, <1>4, <1>5 DEF Sites
<1>7. ClockRuns(t)
  BY <1>2, <1>4, <1>5, <1>6 DEF ClockRuns, text
<1>8. InitsOf(t)
  BY <1>6 DEF InitsOf
<1> QED
  BY <1>6, <1>7, <1>8 DEF SiteInv

\* An update of the countdown keeps the invariant.
LEMMA TimeoutKeeps ==
    ASSUME SiteInv(page), Pages!Timeout
    PROVE  SiteInv(page')
<1> DEFINE s == [page EXCEPT !.timers = 0, !.due = FALSE]
<1>1. page \in Sites /\ page.timers = 1 /\ page.ready = TRUE /\ page.inits = [m \in Modules |-> 1]
  BY DEF SiteInv, Sites, InitsOf, ClockRuns, Pages!Timeout
<1>2. /\ s \in Sites /\ s.timers = 0 /\ s.due = FALSE /\ s.visit = page.visit
      /\ s.clockOf = page.clockOf /\ s.event = page.event /\ s.next = page.next
      /\ s.stored = page.stored /\ s.banner = page.banner
      /\ s.ready = page.ready /\ s.inits = page.inits
  <2>1. 0 \in 0 .. 1 /\ FALSE \in BOOLEAN
    OBVIOUS
  <2>2. s \in Sites
    BY <1>1, <2>1 DEF Sites
  <2> QED
    BY <1>1, <2>2 DEF Sites
<1>3. page' = Pages!Update(s)
  BY <1>1 DEF Pages!Timeout
<1> HIDE DEF s
<1> QED
  BY <1>1, <1>2, <1>3, UpdateKeeps DEF SiteInv, ClockRuns

\* The document's ready event, which initialises the modules, keeps the invariant.
LEMMA ReadyKeeps ==
    ASSUME SiteInv(page), Pages!Ready
    PROVE  SiteInv(page')
<1> DEFINE s == [page EXCEPT !.ready = TRUE]
           t == [s EXCEPT !.inits = [m \in Modules |-> @[m] + 1], !.newPageLoaded = FALSE]
           u == [t EXCEPT !.event = t.next, !.clockOf = t.visit]
<1>1. /\ page \in Sites /\ page.inits = [m \in Modules |-> 0] /\ page.clockOf = 0
      /\ page.timers = 0 /\ page.due = FALSE /\ page.visit > 0
  BY DEF SiteInv, InitsOf, Pages!Ready
<1>2. /\ s \in Sites /\ s.ready = TRUE
      /\ s.inits = page.inits /\ s.clockOf = 0 /\ s.timers = 0 /\ s.due = FALSE
      /\ s.visit = page.visit /\ s.stored = page.stored /\ s.banner = page.banner
  BY <1>1 DEF Sites
<1>3. [m \in Modules |-> s.inits[m] + 1] = [m \in Modules |-> 1]
  BY <1>1, <1>2
<1>4. t = [s EXCEPT !.inits = [m \in Modules |-> 1], !.newPageLoaded = FALSE]
  BY <1>3
<1> HIDE DEF s
<1>5. page' = IF t.next = 0 THEN t ELSE Pages!Update(u)
  BY DEF Pages!Ready, Pages!InitModules, Pages!CountdownInit, Pages!NoEvent, s
<1> HIDE DEF t
<1>6. /\ t \in Sites /\ t.ready = TRUE /\ t.inits = [m \in Modules |-> 1]
      /\ t.clockOf = 0 /\ t.timers = 0 /\ t.due = FALSE
      /\ t.visit = page.visit /\ t.stored = page.stored /\ t.banner = page.banner
  <2> DEFINE ones == [m \in Modules |-> 1]
  <2>1. ones \in [Modules -> 0 .. 1]
    OBVIOUS
  <2> HIDE DEF ones
  <2> QED
    BY <1>2, <1>4, <2>1 DEF Sites, ones
<1>7. CASE t.next = 0
  <2>1. ClockRuns(t)
    BY <1>1, <1>6 DEF ClockRuns, Sites
  <2>2. InitsOf(t)
    BY <1>6 DEF InitsOf
  <2> QED
    BY <1>1, <1>5, <1>6, <1>7, <2>1, <2>2 DEF SiteInv
<1>8. CASE t.next # 0
  <2>1. /\ u \in Sites /\ u.ready = TRUE /\ u.inits = [m \in Modules |-> 1]
        /\ u.clockOf = t.visit /\ u.timers = 0 /\ u.due = FALSE
        /\ u.visit = t.visit /\ u.stored = t.stored /\ u.banner = t.banner
        /\ u.event = t.next /\ u.next = t.next
    BY <1>6, SiteAssumption DEF Sites
  <2> HIDE DEF u
  <2>2. u.clockOf <= u.visit /\ u.visit > 0 /\ (u.stored => ~u.banner)
    BY <1>1, <1>6, <2>1 DEF SiteInv, Sites
  <2> QED
    BY <1>5, <1>8, <2>1, <2>2, UpdateKeeps
<1> QED
  BY <1>7, <1>8

\* The passing of a minute keeps the invariant.
LEMMA TickKeeps ==
    ASSUME SiteInv(page), Pages!Tick
    PROVE  SiteInv(page')
<1>1. /\ page \in Sites /\ page.timers \in 0 .. 1 /\ page.due = FALSE /\ page.ready = TRUE
      /\ page' = [page EXCEPT !.now = @ + 1, !.due = (page.timers > 0)]
  BY DEF SiteInv, Sites, Pages!Tick
<1>2. page' \in Sites
  <2> DEFINE due == page.timers > 0
  <2>1. due \in BOOLEAN /\ page.now + 1 \in Nat
    BY <1>1 DEF Sites
  <2>2. page' = [page EXCEPT !.now = @ + 1, !.due = due]
    BY <1>1
  <2> HIDE DEF due
  <2> QED
    BY <1>1, <2>1, <2>2 DEF Sites
<1>3. /\ page'.now = page.now + 1 /\ page'.due <=> page.timers > 0
      /\ page'.timers = page.timers /\ page'.visit = page.visit /\ page'.clockOf = page.clockOf
      /\ page'.event = page.event /\ page'.next = page.next /\ page'.text = page.text
      /\ page'.stored = page.stored /\ page'.banner = page.banner
      /\ page'.ready = page.ready /\ page'.inits = page.inits
  BY <1>1 DEF Sites
<1>4. Pages!Says(page.event, page.now) = "ended" => Pages!Says(page.event, page.now + 1) = "ended"
  BY <1>1, SaysText, SiteAssumption DEF Sites
<1>5. ClockRuns(page')
  BY <1>1, <1>3, <1>4 DEF ClockRuns, SiteInv
<1>6. InitsOf(page')
  BY <1>1, <1>3 DEF InitsOf, SiteInv
<1> QED
  BY <1>2, <1>3, <1>5, <1>6 DEF SiteInv

\* Closing a message or the banner keeps the invariant.
LEMMA ClosingKeeps ==
    ASSUME SiteInv(page), Pages!CloseMessage \/ Pages!CloseBanner
    PROVE  SiteInv(page')
<1> USE DEF Pages!CloseMessage, Pages!CloseBanner
<1>1. page \in Sites /\ (page.stored => ~page.banner)
  BY DEF SiteInv
<1>2. page' \in Sites
  <2>1. ASSUME Pages!CloseMessage PROVE page' \in Sites
    <3> DEFINE banner == page.banner /\ page.hider # "message"
               stored == page.stored \/ page.hider = "message"
    <3>1. /\ banner \in BOOLEAN /\ stored \in BOOLEAN
          /\ page' = [page EXCEPT !.message = FALSE, !.banner = banner, !.stored = stored]
      BY <2>1
    <3> HIDE DEF banner, stored
    <3> QED
      BY <1>1, <3>1 DEF Sites
  <2>2. ASSUME Pages!CloseBanner PROVE page' \in Sites
    <3> DEFINE banner == page.hider # "banner"
               stored == page.stored \/ page.hider = "banner"
    <3>1. /\ banner \in BOOLEAN /\ stored \in BOOLEAN
          /\ page' = [page EXCEPT !.banner = banner, !.stored = stored]
      BY <2>2
    <3> HIDE DEF banner, stored
    <3> QED
      BY <1>1, <3>1 DEF Sites
  <2> QED
    BY <2>1, <2>2
<1>3. /\ page'.now = page.now /\ page'.due = page.due
      /\ page'.timers = page.timers /\ page'.visit = page.visit /\ page'.clockOf = page.clockOf
      /\ page'.event = page.event /\ page'.next = page.next /\ page'.text = page.text
      /\ page'.ready = page.ready /\ page'.inits = page.inits
  BY <1>1 DEF Sites
<1>4. page'.stored => ~page'.banner
  BY <1>1 DEF Sites
<1>5. ClockRuns(page') /\ InitsOf(page') /\ page'.visit > 0
  BY <1>3 DEF ClockRuns, InitsOf, SiteInv
<1> QED
  BY <1>2, <1>4, <1>5 DEF SiteInv

\* Whatever happens keeps the invariant of the scripts' modules.
LEMMA SiteKeeps ==
    ASSUME SiteInv(page), Pages!SiteNext
    PROVE  SiteInv(page')
BY LoadKeeps, VisitKeeps, TimeoutKeeps, TickKeeps, ReadyKeeps, ClosingKeeps
DEF Pages!SiteNext, Pages!SiteRuns

\* The invariant of the scripts' modules has what the runs check of them.
LEMMA SiteSafe ==
    ASSUME SiteInv(page)
    PROVE  /\ Pages!InitOncePerDocument /\ Pages!ClockTellsTheEvent /\ Pages!BannerStaysHidden
           /\ Pages!SiteTypeOK
<1>1. Pages!InitOncePerDocument
  BY DEF Pages!InitOncePerDocument, SiteInv, InitsOf
<1>2. Pages!BannerStaysHidden /\ Pages!SiteTypeOK
  BY DEF Pages!BannerStaysHidden, Pages!SiteTypeOK, SiteInv, Sites
<1>3. Pages!ClockTellsTheEvent
  <2> SUFFICES ASSUME Pages!SiteQuiet, page.clockOf = page.visit
               PROVE  LET left == page.next - page.now IN
                      /\ (page.text = "countdown") = (left > 0)
                      /\ page.text = "ended" => left < -2 * EventMinutes + 2
                      /\ left <= -2 * EventMinutes => page.text = "ended"
                      /\ page.text # "ended" => page.timers = 1
    BY DEF Pages!ClockTellsTheEvent
  <2>1. page.next \in EventTimes \cup {0} /\ page.now \in Nat
    BY DEF SiteInv, Sites
  <2>2. /\ page.text = Pages!Says(page.next, page.now)
        /\ page.text # "ended" => page.timers = 1
    BY DEF SiteInv, ClockRuns, Pages!SiteQuiet
  <2>3. page.next \in Nat
    BY <2>1, EventTimesAreNumbers
  <2> QED
    BY <2>1, <2>2, <2>3, SaysText
<1> QED
  BY <1>1, <1>2, <1>3

(***************************************************************************)
(* The lists that grow while the reader scrolls.                           *)
(***************************************************************************)
Requests == [page : 1 .. MaxRows, filter : Lists!Filters, visit : Nat]
GrowingLists ==
    [members : BOOLEAN, rows : Seq(1 .. MaxRows), filter : Lists!Filters,
     shown : Seq(1 .. MaxRows), next : {Lists!NoLink, Lists!Wait, Lists!Gone} \cup 1 .. MaxRows,
     listening : BOOLEAN, requests : Seq(Requests), visit : Nat,
     moved : BOOLEAN, mixed : BOOLEAN, failed : BOOLEAN]

\* The rows there are for what the page filters.
RowsOf(l) == Lists!Matching(l.rows, l.filter)

\* What is shown is the beginning of them; the link is to the page that follows.
ShownInOrder(l) ==
    /\ Lists!IsPrefix(l.shown, RowsOf(l))
    /\ l.next > 0 => Len(l.shown) = (l.next - 1) * PerPage
    /\ l.next \in {Lists!NoLink, Lists!Gone} => l.shown = RowsOf(l)

\* A request of this page is the only one, for the page that follows what is
\* shown; while the link is away there is one, unless it failed.
OneRequest(l) ==
    /\ \A i, j \in DOMAIN l.requests :
          l.requests[i].visit = l.visit /\ l.requests[j].visit = l.visit => i = j
    /\ \A i \in DOMAIN l.requests :
          l.requests[i].visit = l.visit =>
             /\ l.next = Lists!Wait /\ l.requests[i].filter = l.filter
             /\ ~l.moved => Len(l.shown) = (l.requests[i].page - 1) * PerPage
    /\ l.next = Lists!Wait /\ ~l.failed =>
          \E i \in DOMAIN l.requests : l.requests[i].visit = l.visit

ListInv(l) ==
    /\ l \in GrowingLists /\ Len(l.rows) <= MaxRows
    /\ \A i \in DOMAIN l.requests : l.requests[i].visit <= l.visit
    /\ ~l.mixed => (~l.moved => ShownInOrder(l)) /\ OneRequest(l)

USE DEF Lists!NoLink, Lists!Wait, Lists!Gone

\* The rows a filter lets through are rows, and no more than there are.
LEMMA MatchingIs ==
    ASSUME NEW rows \in Seq(1 .. MaxRows), NEW filter \in Lists!Filters
    PROVE  /\ Lists!Matching(rows, filter) \in Seq(1 .. MaxRows)
           /\ Len(Lists!Matching(rows, filter)) <= Len(rows)
<1> DEFINE through == {row \in Lists!ToSet(rows) : filter = "some" => row % 3 # 0}
<1>1. Lists!Matching(rows, filter) = Kept(rows, through)
  BY DEF Lists!Matching, Kept
<1> HIDE DEF through
<1> QED
  BY <1>1, KeptIs

\* What follows the beginning of a sequence, appended to it, makes a longer
\* beginning.
LEMMA ListLengthened ==
    ASSUME NEW T, NEW all \in Seq(T), NEW s \in Seq(T), NEW u \in Seq(T),
           Lists!IsPrefix(s, all), Len(s) + Len(u) <= Len(all),
           \A j \in 1 .. Len(u) : u[j] = all[Len(s) + j]
    PROVE  /\ s \o u \in Seq(T) /\ Lists!IsPrefix(s \o u, all)
           /\ Len(s \o u) = Len(s) + Len(u)
           /\ Len(s) + Len(u) = Len(all) => s \o u = all
<1>1. \A j \in 1 .. Len(s) : s[j] = all[j]
  <2>1. SubSeq(s, 1, Len(s)) = SubSeq(all, 1, Len(s)) /\ Len(s) <= Len(all)
    BY DEF Lists!IsPrefix
  <2>2. /\ Len(s) \in Nat /\ 1 \in Nat \ {0}
        /\ (1 <= Len(s) => \A j \in 1 .. Len(s) - 1 + 1 : SubSeq(s, 1, Len(s))[j] = s[j + 1 - 1])
        /\ (1 <= Len(s) => \A j \in 1 .. Len(s) - 1 + 1 : SubSeq(all, 1, Len(s))[j] = all[j + 1 - 1])
    BY <2>1, PartOf
  <2>3. ASSUME NEW j \in 1 .. Len(s) PROVE s[j] = all[j]
    <3>1. j \in 1 .. Len(s) - 1 + 1 /\ j + 1 - 1 = j /\ 1 <= Len(s)
      OBVIOUS
    <3> QED
      BY <2>1, <2>2, <3>1
  <2> QED
    BY <2>3
<1>2. /\ s \o u \in Seq(T) /\ Len(s \o u) = Len(s) + Len(u)
      /\ \A j \in 1 .. Len(s) : (s \o u)[j] = s[j]
      /\ \A j \in 1 .. Len(u) : (s \o u)[Len(s) + j] = u[j]
  BY Concatenated
<1> DEFINE t == s \o u
           n == Len(s) + Len(u)
<1>3. t \in Seq(T) /\ Len(t) = n /\ n \in Nat /\ n <= Len(all)
  BY <1>2
<1>4. \A j \in 1 .. n : t[j] = all[j]
  <2>1. ASSUME NEW j \in 1 .. n PROVE t[j] = all[j]
    <3>1. CASE j <= Len(s)
      BY <1>1, <1>2, <3>1
    <3>2. CASE j > Len(s)
      <4>1. PICK k \in 1 .. Len(u) : j = Len(s) + k
        <5>1. j - Len(s) \in 1 .. Len(u) /\ j = Len(s) + (j - Len(s))
          BY <3>2
        <5> QED
          BY <5>1
      <4> QED
        BY <1>2, <4>1
    <3> QED
      BY <3>1, <3>2
  <2> QED
    BY <2>1
<1> HIDE DEF t, n
<1>5. Lists!IsPrefix(t, all)
  <2>1. SubSeq(t, 1, Len(t)) = SubSeq(all, 1, Len(t))
    BY <1>3, <1>4
  <2> QED
    BY <1>3, <2>1 DEF Lists!IsPrefix
<1>6. n = Len(all) => t = all
  BY <1>3, <1>4
<1> QED
  BY <1>3, <1>5, <1>6 DEF t, n

\* Pages have PerPage rows, and are no more than there are rows.
LEMMA PagesOfRows ==
    ASSUME NEW n \in Nat \ {0}
    PROVE  /\ n * PerPage \in Nat /\ (n - 1) * PerPage \in Nat
           /\ n * PerPage = (n - 1) * PerPage + PerPage
           /\ n <= n * PerPage
BY ListAssumption

\* What page n, appended to what is shown of the pages before, makes of it.
PageShown(rows, filter, n, s, t) ==
    LET all == Lists!Matching(rows, filter) IN
    /\ t \in Seq(1 .. MaxRows)
    /\ ~Lists!IsLast(rows, filter, n) => n + 1 \in 1 .. MaxRows
    /\ Lists!IsPrefix(s, all) /\ Len(s) = (n - 1) * PerPage =>
          /\ Lists!IsPrefix(t, all)
          /\ IF Lists!IsLast(rows, filter, n) THEN t = all ELSE Len(t) = n * PerPage

\* What is shown, extended by the next page, is the next part of the rows let through.
LEMMA PageIs ==
    ASSUME NEW rows \in Seq(1 .. MaxRows), Len(rows) <= MaxRows,
           NEW filter \in Lists!Filters, NEW n \in 1 .. MaxRows,
           NEW s \in Seq(1 .. MaxRows), NEW t, t = s \o Lists!PageOf(rows, filter, n)
    PROVE  PageShown(rows, filter, n, s, t)
<1> DEFINE all == Lists!Matching(rows, filter)
           to == IF n * PerPage < Len(all) THEN n * PerPage ELSE Len(all)
           from == (n - 1) * PerPage
<1>1. all \in Seq(1 .. MaxRows) /\ Len(all) <= MaxRows /\ Len(all) \in Nat
  BY MatchingIs, ListAssumption
<1>2. n * PerPage \in Nat /\ from \in Nat /\ n * PerPage = from + PerPage /\ n <= n * PerPage
  BY PagesOfRows, ListAssumption
<1>3. /\ Lists!PageOf(rows, filter, n) = SubSeq(all, from + 1, to)
      /\ Lists!IsLast(rows, filter, n) <=> n * PerPage >= Len(all)
  BY DEF Lists!PageOf, Lists!IsLast
<1> HIDE DEF all
<1>4. to \in Nat /\ to <= Len(all)
  BY <1>1, <1>2
<1> DEFINE u == SubSeq(all, from + 1, to)
<1>5. u \in Seq(1 .. MaxRows) /\ t = s \o u
  <2> HIDE DEF to, from
  <2>1. from + 1 \in Nat \ {0}
    BY <1>2
  <2> QED
    BY <1>1, <1>3, <1>4, <2>1, PartOf
<1>6. ~Lists!IsLast(rows, filter, n) => n + 1 \in 1 .. MaxRows
  BY <1>1, <1>2, <1>3, ListAssumption
<1>7. ASSUME Lists!IsPrefix(s, all), Len(s) = from
      PROVE  /\ Lists!IsPrefix(t, all)
             /\ IF Lists!IsLast(rows, filter, n) THEN t = all ELSE Len(t) = n * PerPage
  <2>1. from <= Len(all)
    BY <1>1, <1>7 DEF Lists!IsPrefix
  <2>2. from <= to /\ (Lists!IsLast(rows, filter, n) => to = Len(all))
        /\ (~Lists!IsLast(rows, filter, n) => to = n * PerPage)
    BY <1>1, <1>2, <1>3, <2>1, ListAssumption
  <2> HIDE DEF to, from
  <2>3. /\ Len(u) = to - from
        /\ \A j \in 1 .. Len(u) : u[j] = all[Len(s) + j]
    <3>1. from + 1 \in Nat \ {0}
      BY <1>2
    <3>2. /\ Len(u) = IF from + 1 <= to THEN to - (from + 1) + 1 ELSE 0
          /\ from + 1 <= to => \A j \in 1 .. to - (from + 1) + 1 : u[j] = all[j + (from + 1) - 1]
      BY <1>1, <1>4, <3>1, PartOf
    <3> HIDE DEF u
    <3>3. Len(u) = to - from
      BY <1>2, <1>4, <2>2, <3>2
    <3>4. ASSUME NEW j \in 1 .. Len(u) PROVE u[j] = all[Len(s) + j]
      <4>1. j \in 1 .. to - (from + 1) + 1 /\ from + 1 <= to /\ j + (from + 1) - 1 = Len(s) + j
        BY <1>2, <1>4, <1>7, <3>3
      <4> QED
        BY <3>2, <4>1
    <3> QED
      BY <3>3, <3>4
  <2> HIDE DEF u
  <2>4. /\ Len(s) + Len(u) = to /\ to <= Len(all)
    BY <1>2, <1>4, <1>7, <2>3
  <2>5. /\ Lists!IsPrefix(s \o u, all) /\ Len(s \o u) = to
        /\ to = Len(all) => s \o u = all
    <3>1. /\ all \in Seq(1 .. MaxRows) /\ s \in Seq(1 .. MaxRows) /\ u \in Seq(1 .. MaxRows)
          /\ Lists!IsPrefix(s, all) /\ Len(s) + Len(u) <= Len(all)
          /\ \A j \in 1 .. Len(u) : u[j] = all[Len(s) + j]
      BY <1>1, <1>5, <1>7, <2>3, <2>4
    <3>2. /\ Lists!IsPrefix(s \o u, all) /\ Len(s \o u) = Len(s) + Len(u)
          /\ Len(s) + Len(u) = Len(all) => s \o u = all
      BY <3>1, ListLengthened
    <3> QED
      BY <2>4, <3>2
  <2> QED
    BY <1>5, <2>2, <2>5
<1>8. t \in Seq(1 .. MaxRows)
  <2> HIDE DEF u
  <2> QED
    BY <1>5, Concatenated
<1> QED
  BY <1>6, <1>7, <1>8 DEF all, PageShown


\* A page opened, or filtered, is without a request of its own.
LEMMA OpenedKeeps ==
    ASSUME NEW l \in GrowingLists, Len(l.rows) <= MaxRows, NEW filter \in Lists!Filters,
           \A i \in DOMAIN l.requests : l.requests[i].visit <= l.visit,
           NEW t, t = Lists!Opened(l, filter)
    PROVE  ListInv(t)
<1> DEFINE shown == Lists!PageOf(l.rows, filter, 1)
           last == Lists!IsLast(l.rows, filter, 1)
           next == IF last THEN Lists!NoLink ELSE 2
           all == Lists!Matching(l.rows, filter)
<1>1. l.rows \in Seq(1 .. MaxRows) /\ l.visit \in Nat /\ l.requests \in Seq(Requests)
  BY DEF GrowingLists
<1>2. all \in Seq(1 .. MaxRows)
  BY <1>1, MatchingIs
<1>3. /\ shown \in Seq(1 .. MaxRows) /\ next \in {Lists!NoLink} \cup 1 .. MaxRows
      /\ Lists!IsPrefix(shown, all)
      /\ IF last THEN shown = all ELSE Len(shown) = PerPage
  <2>1. <<>> \in Seq(1 .. MaxRows) /\ 1 \in 1 .. MaxRows
    BY ListAssumption
  <2>2. Lists!IsPrefix(<<>>, all) /\ Len(<<>>) = (1 - 1) * PerPage
    BY <1>2, ListAssumption DEF Lists!IsPrefix
  <2>3. shown \in Seq(1 .. MaxRows) /\ shown = <<>> \o shown
    <3>1. shown \in Seq(1 .. MaxRows)
      <4> DEFINE to == IF 1 * PerPage < Len(all) THEN 1 * PerPage ELSE Len(all)
      <4>1. shown = SubSeq(all, (1 - 1) * PerPage + 1, to)
        BY DEF Lists!PageOf
      <4>2. (1 - 1) * PerPage + 1 = 1 /\ to \in Nat /\ to <= Len(all) /\ 1 \in Nat \ {0}
        BY <1>2, ListAssumption
      <4> HIDE DEF to, all
      <4>3. SubSeq(all, 1, to) \in Seq(1 .. MaxRows)
        BY <1>2, <4>2, PartOf
      <4>4. (1 - 1) * PerPage + 1 = 1
        BY <4>2
      <4> HIDE DEF shown
      <4> QED
        BY <4>1, <4>3, <4>4
    <3> HIDE DEF shown
    <3> QED
      BY <3>1
  <2>4. /\ ~last => 1 + 1 \in 1 .. MaxRows
        /\ Lists!IsPrefix(shown, all)
        /\ IF last THEN shown = all ELSE Len(shown) = 1 * PerPage
    <3>1. ASSUME NEW s \in Seq(1 .. MaxRows), NEW n \in 1 .. MaxRows,
                 NEW u, u = s \o Lists!PageOf(l.rows, filter, n)
          PROVE  PageShown(l.rows, filter, n, s, u)
      BY <1>1, <3>1, PageIs
    <3>2. shown = <<>> \o Lists!PageOf(l.rows, filter, 1)
      BY <2>3
    <3> HIDE DEF shown
    <3>3. PageShown(l.rows, filter, 1, <<>>, shown)
      BY <2>1, <3>1, <3>2
    <3> QED
      BY <2>2, <3>3 DEF PageShown
  <2> HIDE DEF shown, last, all
  <2> QED
    BY <2>3, <2>4, ListAssumption
<1>4. t = [l EXCEPT !.filter = filter, !.shown = shown, !.next = next, !.visit = @ + 1,
                    !.moved = FALSE, !.mixed = FALSE, !.failed = FALSE]
  BY DEF Lists!Opened
<1> HIDE DEF shown, next
<1>5. t \in GrowingLists
  <2>1. l.visit + 1 \in Nat /\ next \in {Lists!NoLink, Lists!Wait, Lists!Gone} \cup 1 .. MaxRows
        /\ FALSE \in BOOLEAN
    BY <1>1, <1>3
  <2> QED
    BY <1>3, <1>4, <2>1 DEF GrowingLists
<1>6. /\ t.rows = l.rows /\ t.requests = l.requests /\ t.visit = l.visit + 1
      /\ t.filter = filter /\ t.shown = shown /\ t.next = next /\ t.moved = FALSE
      /\ t.mixed = FALSE /\ t.failed = FALSE
  BY <1>4 DEF GrowingLists
<1>7. \A i \in DOMAIN t.requests : t.requests[i].visit <= t.visit /\ t.requests[i].visit # t.visit
  <2>1. ASSUME NEW i \in DOMAIN l.requests
        PROVE  l.requests[i].visit <= l.visit + 1 /\ l.requests[i].visit # l.visit + 1
    <3>1. l.requests[i] \in Requests
      BY <1>1, ElementOf
    <3>2. l.requests[i].visit \in Nat /\ l.requests[i].visit <= l.visit
      BY <3>1 DEF Requests
    <3> QED
      BY <1>1, <3>2
  <2> QED
    BY <1>6, <2>1
<1>8. OneRequest(t)
  <2>1. next # Lists!Wait
    BY <1>3, ListAssumption
  <2> QED
    BY <1>6, <1>7, <2>1 DEF OneRequest
<1>9. ShownInOrder(t)
  <2>1. RowsOf(t) = all
    BY <1>6 DEF RowsOf
  <2>2. next > 0 => ~last /\ next = 2
    BY DEF next
  <2>3. next \in {Lists!NoLink, Lists!Gone} => last
    BY DEF next
  <2>4. (2 - 1) * PerPage = PerPage
    BY ListAssumption
  <2> HIDE DEF all, last
  <2> QED
    BY <1>3, <1>6, <2>1, <2>2, <2>3, <2>4 DEF ShownInOrder
<1> QED
  BY <1>5, <1>6, <1>7, <1>8, <1>9 DEF ListInv

\* A list begins in its invariant.
LEMMA ListStarts ==
    ASSUME Lists!ListInit
    PROVE  ListInv(page)
<1>1. PICK members \in BOOLEAN, n \in 1 .. RowsAtFirst :
          page = Lists!Opened([members |-> members, rows |-> [i \in 1 .. n |-> i],
                       filter |-> "all", shown |-> <<>>, next |-> Lists!NoLink,
                       listening |-> TRUE, requests |-> <<>>, visit |-> 0,
                       moved |-> FALSE, mixed |-> FALSE, failed |-> FALSE], "all")
  BY DEF Lists!ListInit
<1> DEFINE rows == [i \in 1 .. n |-> i]
           l == [members |-> members, rows |-> rows, filter |-> "all", shown |-> <<>>,
                 next |-> Lists!NoLink, listening |-> TRUE, requests |-> <<>>, visit |-> 0,
                 moved |-> FALSE, mixed |-> FALSE, failed |-> FALSE]
<1>2. rows \in Seq(1 .. MaxRows) /\ Len(rows) <= MaxRows
  BY ListAssumption
<1> HIDE DEF rows
<1>3. l \in GrowingLists
  <2>1. <<>> \in Seq(1 .. MaxRows) /\ <<>> \in Seq(Requests)
    OBVIOUS
  <2> QED
    BY <1>2, <2>1 DEF GrowingLists, Lists!Filters
<1>4. l.rows = rows /\ l.requests = <<>> /\ l.visit = 0
  OBVIOUS
<1>5. page = Lists!Opened(l, "all") /\ "all" \in Lists!Filters
  BY <1>1 DEF rows, Lists!Filters
<1> HIDE DEF l
<1>6. \A i \in DOMAIN l.requests : l.requests[i].visit <= l.visit
  BY <1>4
<1> QED
  BY <1>2, <1>3, <1>4, <1>5, <1>6, OpenedKeeps

\* A visit to a list, or with another filter, keeps the invariant.
LEMMA ListVisitKeeps ==
    ASSUME ListInv(page), NEW filter \in Lists!Filters, Lists!Visit(filter)
    PROVE  ListInv(page')
BY OpenedKeeps DEF ListInv, Lists!Visit

\* Scrolling near the end, which may ask for a page, keeps the invariant.
LEMMA ListScrollKeeps ==
    ASSUME ListInv(page), Lists!Scroll
    PROVE  ListInv(page')
<1> DEFINE r == [page |-> page.next, filter |-> page.filter, visit |-> page.visit]
           requests == Append(page.requests, r)
           n == Len(page.requests)
<1>1. /\ page \in GrowingLists /\ page.next \in 1 .. MaxRows /\ page.visit \in Nat
      /\ page.filter \in Lists!Filters /\ page.requests \in Seq(Requests)
  BY ListAssumption DEF ListInv, GrowingLists, Lists!Scroll, Lists!Near
<1>2. r \in Requests /\ r.visit = page.visit /\ r.filter = page.filter /\ r.page = page.next
  BY <1>1 DEF Requests
<1>3. page' = [page EXCEPT !.next = Lists!Wait, !.requests = requests]
  BY DEF Lists!Scroll, Lists!Request
<1> HIDE DEF r
<1>4. /\ requests \in Seq(Requests) /\ n \in Nat /\ Len(requests) = n + 1
      /\ requests[n + 1] = r /\ \A i \in 1 .. n : requests[i] = page.requests[i]
  BY <1>1, <1>2
<1> HIDE DEF requests
<1>5. page' \in GrowingLists
  BY <1>1, <1>3, <1>4 DEF GrowingLists
<1>6. /\ page'.rows = page.rows /\ page'.requests = requests /\ page'.visit = page.visit
      /\ page'.filter = page.filter /\ page'.shown = page.shown /\ page'.next = Lists!Wait
      /\ page'.moved = page.moved /\ page'.mixed = page.mixed /\ page'.failed = page.failed
  BY <1>1, <1>3 DEF GrowingLists
<1>7. DOMAIN requests = 1 .. n + 1 /\ DOMAIN page.requests = 1 .. n
  BY <1>1, <1>4
<1>8. \A i \in DOMAIN page'.requests : page'.requests[i].visit <= page'.visit
  <2>1. ASSUME NEW i \in 1 .. n + 1 PROVE requests[i].visit <= page.visit
    <3>1. i = n + 1 \/ i \in 1 .. n
      BY <1>4
    <3> QED
      BY <1>1, <1>2, <1>4, <1>7, <3>1 DEF ListInv
  <2> QED
    BY <1>6, <1>7, <2>1
<1>9. ASSUME ~page.mixed
      PROVE  /\ \A i \in 1 .. n : page.requests[i].visit # page.visit
             /\ ~page.moved => ShownInOrder(page)
  BY <1>1, <1>7, <1>9 DEF ListInv, OneRequest
<1>10. ASSUME ~page.mixed, NEW i \in 1 .. n + 1, requests[i].visit = page.visit
       PROVE  i = n + 1
  BY <1>4, <1>9, <1>10
<1>11. ASSUME ~page.mixed PROVE OneRequest(page')
  <2>1. ~page.moved => Len(page.shown) = (r.page - 1) * PerPage
    BY <1>1, <1>2, <1>9, <1>11 DEF ShownInOrder
  <2>2. n + 1 \in 1 .. n + 1
    BY <1>4
  <2> QED
    BY <1>2, <1>4, <1>6, <1>7, <1>10, <1>11, <2>1, <2>2 DEF OneRequest
<1>12. ASSUME ~page.mixed, ~page.moved PROVE ShownInOrder(page')
  BY <1>6, <1>9, <1>12 DEF ShownInOrder, RowsOf
<1> QED
  BY <1>5, <1>6, <1>8, <1>11, <1>12 DEF ListInv

\* A row that arrives moves the others; the list is then excepted.
LEMMA ArriveKeeps ==
    ASSUME ListInv(page), Lists!Arrive
    PROVE  ListInv(page')
<1> DEFINE first == <<Len(page.rows) + 1>>
           rows == first \o page.rows
<1>1. /\ page \in GrowingLists /\ page.rows \in Seq(1 .. MaxRows) /\ Len(page.rows) < MaxRows
      /\ page' = [page EXCEPT !.rows = rows, !.moved = TRUE]
  BY DEF ListInv, GrowingLists, Lists!Arrive
<1>2. rows \in Seq(1 .. MaxRows) /\ Len(rows) <= MaxRows
  <2>1. Len(page.rows) + 1 \in 1 .. MaxRows
    BY <1>1, ListAssumption
  <2>2. first \in Seq(1 .. MaxRows) /\ Len(first) = 1
    <3> HIDE <1>1
    <3> QED
      BY <2>1
  <2> HIDE DEF first
  <2>3. rows \in Seq(1 .. MaxRows) /\ Len(rows) = Len(first) + Len(page.rows)
    <3>1. page.rows \in Seq(1 .. MaxRows)
      BY <1>1
    <3> QED
      BY <2>2, <3>1, Concatenated
  <2> QED
    BY <1>1, <2>2, <2>3, ListAssumption
<1> HIDE DEF rows
<1>3. page' \in GrowingLists
  BY <1>1, <1>2 DEF GrowingLists
<1>4. /\ page'.rows = rows /\ page'.requests = page.requests /\ page'.visit = page.visit
      /\ page'.filter = page.filter /\ page'.shown = page.shown /\ page'.next = page.next
      /\ page'.moved = TRUE /\ page'.mixed = page.mixed /\ page'.failed = page.failed
  BY <1>1 DEF GrowingLists
<1>5. ASSUME ~page.mixed PROVE OneRequest(page')
  BY <1>4, <1>5 DEF ListInv, OneRequest
<1> QED
  BY <1>2, <1>3, <1>4, <1>5 DEF ListInv

\* What is left of the requests without one of them.
LEMMA WithoutRequest ==
    ASSUME NEW l \in GrowingLists, \A i \in DOMAIN l.requests : l.requests[i].visit <= l.visit,
           NEW i \in DOMAIN l.requests, NEW left, left = Lists!RemoveAt(l.requests, i)
    PROVE  /\ left \in Seq(Requests)
           /\ \A j \in DOMAIN left : left[j].visit <= l.visit
           /\ OneRequest(l) =>
                 /\ l.requests[i].visit = l.visit =>
                       \A j \in DOMAIN left : left[j].visit # l.visit
                 /\ l.requests[i].visit # l.visit =>
                       OneRequest([l EXCEPT !.requests = left])
<1> DEFINE from(j) == IF j < i THEN j ELSE j + 1
           n == Len(left)
           t == [l EXCEPT !.requests = left]
<1>1. l.requests \in Seq(Requests) /\ i \in 1 .. Len(l.requests)
      /\ DOMAIN l.requests = 1 .. Len(l.requests)
  BY DEF GrowingLists
<1>2. /\ left \in Seq(Requests) /\ Len(left) = Len(l.requests) - 1
      /\ \A j \in 1 .. Len(left) : left[j] = l.requests[from(j)]
  <2>1. left = Without(l.requests, i)
    BY DEF Lists!RemoveAt, Without
  <2> QED
    BY <1>1, <2>1, RemovedFrom
<1>3. n \in Nat /\ DOMAIN left = 1 .. n /\ DOMAIN l.requests = 1 .. n + 1
  BY <1>1, <1>2
<1>4. \A j \in 1 .. n : from(j) \in 1 .. n + 1 /\ from(j) # i
  BY <1>1, <1>3
<1>5. \A j \in 1 .. n + 1 : j # i => \E k \in 1 .. n : from(k) = j
  <2>1. ASSUME NEW j \in 1 .. n + 1, j # i PROVE \E k \in 1 .. n : from(k) = j
    <3>1. CASE j < i
      <4>1. j \in 1 .. n /\ from(j) = j
        BY <1>1, <1>3, <3>1
      <4> QED
        BY <4>1
    <3>2. CASE j > i
      <4>1. j - 1 \in 1 .. n /\ from(j - 1) = j
        BY <1>1, <1>3, <3>2
      <4> QED
        BY <4>1
    <3> QED
      BY <1>1, <2>1, <3>1, <3>2
  <2> QED
    BY <2>1
<1>6. \A j, k \in 1 .. n : from(j) = from(k) => j = k
  BY <1>1, <1>3
<1>7. \A j \in 1 .. n : left[j] = l.requests[from(j)]
  BY <1>2
<1> HIDE DEF from, n
<1>8. \A j \in DOMAIN left : left[j].visit <= l.visit
  BY <1>3, <1>4, <1>7
<1>9. ASSUME OneRequest(l), l.requests[i].visit = l.visit
      PROVE  \A j \in DOMAIN left : left[j].visit # l.visit
  BY <1>3, <1>4, <1>7, <1>9 DEF OneRequest
<1>10. ASSUME OneRequest(l), l.requests[i].visit # l.visit
       PROVE  OneRequest(t)
  <2>1. /\ t.requests = left /\ t.visit = l.visit /\ t.next = l.next /\ t.filter = l.filter
        /\ t.moved = l.moved /\ t.shown = l.shown /\ t.failed = l.failed
    BY DEF GrowingLists
  <2> HIDE DEF t
  <2>2. \A j, k \in 1 .. n : left[j].visit = l.visit /\ left[k].visit = l.visit => j = k
    BY <1>3, <1>4, <1>6, <1>7, <1>10 DEF OneRequest
  <2>3. \A j \in 1 .. n : left[j].visit = l.visit =>
              /\ l.next = Lists!Wait /\ left[j].filter = l.filter
              /\ ~l.moved => Len(l.shown) = (left[j].page - 1) * PerPage
    BY <1>3, <1>4, <1>7, <1>10 DEF OneRequest
  <2>4. ASSUME l.next = Lists!Wait, ~l.failed
        PROVE  \E j \in 1 .. n : left[j].visit = l.visit
    <3>1. PICK k \in 1 .. n + 1 : l.requests[k].visit = l.visit
      BY <1>3, <1>10, <2>4 DEF OneRequest
    <3> QED
      BY <1>5, <1>7, <1>10, <3>1
  <2> QED
    BY <1>3, <2>1, <2>2, <2>3, <2>4 DEF OneRequest
<1> QED
  BY <1>2, <1>8, <1>9, <1>10


\* A request that fails keeps the invariant; its link stays away.
LEMMA FailKeeps ==
    ASSUME ListInv(page), NEW i \in DOMAIN page.requests, Lists!Fail(i)
    PROVE  ListInv(page')
<1> DEFINE left == Lists!RemoveAt(page.requests, i)
           t == [page EXCEPT !.requests = left]
           failed == page.failed \/ page.requests[i].visit = page.visit
<1>1. page \in GrowingLists /\ \A j \in DOMAIN page.requests : page.requests[j].visit <= page.visit
  BY DEF ListInv
<1>2. /\ left \in Seq(Requests) /\ \A j \in DOMAIN left : left[j].visit <= page.visit
      /\ OneRequest(page) =>
            /\ page.requests[i].visit = page.visit => \A j \in DOMAIN left : left[j].visit # page.visit
            /\ page.requests[i].visit # page.visit => OneRequest(t)
  BY <1>1, WithoutRequest
<1>3. page' = [page EXCEPT !.requests = left, !.failed = failed] /\ failed \in BOOLEAN
  BY <1>1 DEF Lists!Fail, GrowingLists
<1>4. failed <=> page.failed \/ page.requests[i].visit = page.visit
  OBVIOUS
<1> HIDE DEF left, failed
<1>5. page' \in GrowingLists
  BY <1>1, <1>2, <1>3 DEF GrowingLists
<1>6. /\ page'.rows = page.rows /\ page'.requests = left /\ page'.visit = page.visit
      /\ page'.filter = page.filter /\ page'.shown = page.shown /\ page'.next = page.next
      /\ page'.moved = page.moved /\ page'.mixed = page.mixed /\ page'.failed = failed
  BY <1>1, <1>3 DEF GrowingLists
<1>7. /\ t.requests = left /\ t.visit = page.visit
      /\ t.filter = page.filter /\ t.shown = page.shown /\ t.next = page.next
      /\ t.moved = page.moved /\ t.failed = page.failed
  BY <1>1 DEF GrowingLists
<1> HIDE DEF t
<1>8. ASSUME ~page.mixed PROVE OneRequest(page')
  <2>1. OneRequest(page)
    BY <1>8 DEF ListInv
  <2>2. CASE page.requests[i].visit = page.visit
    BY <1>2, <1>4, <1>6, <2>1, <2>2 DEF OneRequest
  <2>3. CASE page.requests[i].visit # page.visit
    BY <1>2, <1>4, <1>6, <1>7, <2>1, <2>3 DEF OneRequest
  <2> QED
    BY <2>2, <2>3
<1>9. ASSUME ~page.mixed, ~page.moved PROVE ShownInOrder(page')
  BY <1>6, <1>9 DEF ListInv, ShownInOrder, RowsOf
<1> QED
  BY <1>2, <1>5, <1>6, <1>8, <1>9 DEF ListInv

\* An answer keeps the invariant, whichever page it finds itself on.
LEMMA AnswerKeeps ==
    ASSUME ListInv(page), NEW i \in DOMAIN page.requests, Lists!Answer(i)
    PROVE  ListInv(page')
<1> DEFINE left == Lists!RemoveAt(page.requests, i)
           t == [page EXCEPT !.requests = left]
           r == page.requests[i]
           shown == page.shown \o Lists!PageOf(page.rows, r.filter, r.page)
           mixed == page.mixed \/ r.visit # page.visit
           last == Lists!IsLast(page.rows, r.filter, r.page)
           next == CASE last -> Lists!Gone
                     [] ~last /\ page.next \in {Lists!NoLink, Lists!Gone} -> page.next
                     [] OTHER -> r.page + 1
           listening == page.listening /\ (last => ~page.members)
<1>1. page \in GrowingLists /\ \A j \in DOMAIN page.requests : page.requests[j].visit <= page.visit
  BY DEF ListInv
<1>2. /\ left \in Seq(Requests) /\ \A j \in DOMAIN left : left[j].visit <= page.visit
      /\ OneRequest(page) =>
            (r.visit = page.visit => \A j \in DOMAIN left : left[j].visit # page.visit)
  BY <1>1, WithoutRequest
<1>3. /\ r.page \in 1 .. MaxRows /\ r.filter \in Lists!Filters /\ r.visit \in Nat
      /\ page.rows \in Seq(1 .. MaxRows) /\ Len(page.rows) <= MaxRows
      /\ page.shown \in Seq(1 .. MaxRows)
      /\ page.next \in {Lists!NoLink, Lists!Wait, Lists!Gone} \cup 1 .. MaxRows
      /\ page.visit \in Nat /\ page.members \in BOOLEAN /\ page.listening \in BOOLEAN
  <2>1. page.requests \in Seq(Requests) /\ i \in 1 .. Len(page.requests)
    BY <1>1 DEF GrowingLists
  <2>2. r \in Requests
    BY <2>1, ElementOf
  <2> HIDE DEF r
  <2> QED
    BY <1>1, <2>2 DEF Requests, GrowingLists, ListInv
<1>4. PageShown(page.rows, r.filter, r.page, page.shown, shown)
  <2> HIDE DEF r
  <2> QED
    BY <1>3, PageIs
<1>5. /\ shown \in Seq(1 .. MaxRows) /\ mixed \in BOOLEAN /\ listening \in BOOLEAN
      /\ ~last => r.page + 1 \in 1 .. MaxRows
  <2>1. mixed \in BOOLEAN /\ listening \in BOOLEAN
    BY <1>1, <1>3 DEF GrowingLists
  <2> HIDE DEF shown, r, mixed, listening
  <2> QED
    BY <1>4, <2>1 DEF PageShown
<1>6. next \in {Lists!NoLink, Lists!Wait, Lists!Gone} \cup 1 .. MaxRows
  <2> HIDE DEF last, r
  <2> QED
    BY <1>3, <1>5
<1>7. page' = [page EXCEPT !.requests = left, !.shown = shown, !.mixed = mixed, !.next = next,
                           !.listening = listening]
  <2> DEFINE u == [t EXCEPT !.shown = @ \o Lists!PageOf(page.rows, r.filter, r.page),
                            !.mixed = @ \/ r.visit # page.visit]
  <2>1. /\ t.rows = page.rows /\ t.visit = page.visit /\ t.members = page.members
        /\ t.shown = page.shown /\ t.mixed = page.mixed /\ t.next = page.next
        /\ t.listening = page.listening
    BY <1>1 DEF GrowingLists
  <2>2. page' = IF last THEN [u EXCEPT !.next = Lists!Gone, !.listening = @ /\ ~page.members]
                ELSE [u EXCEPT !.next = IF @ \in {Lists!NoLink, Lists!Gone} THEN @ ELSE r.page + 1]
    BY <2>1 DEF Lists!Answer, Lists!Script
  <2>3. u = [page EXCEPT !.requests = left, !.shown = shown, !.mixed = mixed]
    <3>1. u = [t EXCEPT !.shown = shown, !.mixed = mixed]
      BY <1>1, <2>1 DEF GrowingLists
    <3> HIDE DEF shown, mixed, left, u
    <3> QED
      BY <1>1, <3>1 DEF GrowingLists
  <2>4. DOMAIN page = {"members", "rows", "filter", "shown", "next", "listening", "requests",
                       "visit", "moved", "mixed", "failed"}
    BY <1>1 DEF GrowingLists
  <2> HIDE DEF u, shown, mixed, left, r, last
  <2>5. u.next = page.next /\ u.listening = page.listening
    BY <2>3, <2>4
  <2>6. CASE last
    <3>1. next = Lists!Gone /\ listening = (page.listening /\ ~page.members)
      BY <2>6
    <3>2. page' = [u EXCEPT !.next = next, !.listening = listening]
      BY <2>2, <2>4, <2>5, <2>6, <3>1
    <3> HIDE DEF next, listening
    <3> QED
      BY <2>3, <2>4, <3>2
  <2>7. CASE ~last
    <3>1. next = (IF page.next \in {Lists!NoLink, Lists!Gone} THEN page.next ELSE r.page + 1)
          /\ listening = page.listening
      BY <1>3, <2>7
    <3>2. page' = [u EXCEPT !.next = next]
      BY <2>2, <2>5, <2>7, <3>1
    <3> HIDE DEF next, listening
    <3> QED
      BY <1>1, <2>3, <2>5, <3>1, <3>2 DEF GrowingLists
  <2> QED
    BY <2>6, <2>7
<1>8. mixed <=> page.mixed \/ r.visit # page.visit
  OBVIOUS
<1>9. /\ last => next = Lists!Gone
      /\ ~last /\ page.next = Lists!Wait => next = r.page + 1
  <2> HIDE DEF last, r
  <2> QED
    OBVIOUS
<1> HIDE DEF left, r, shown, mixed, next, listening, last
<1>10. page' \in GrowingLists
  BY <1>1, <1>2, <1>5, <1>6, <1>7 DEF GrowingLists
<1>11. /\ page'.rows = page.rows /\ page'.requests = left /\ page'.visit = page.visit
       /\ page'.filter = page.filter /\ page'.shown = shown /\ page'.next = next
       /\ page'.moved = page.moved /\ page'.mixed = mixed /\ page'.failed = page.failed
  BY <1>1, <1>7 DEF GrowingLists
<1>12. ASSUME ~mixed
       PROVE  /\ OneRequest(page) /\ r.visit = page.visit /\ page.next = Lists!Wait
              /\ r.filter = page.filter
              /\ ~page.moved => /\ ShownInOrder(page)
                                /\ Len(page.shown) = (r.page - 1) * PerPage
  BY <1>8, <1>12 DEF ListInv, OneRequest, r
<1>13. next # Lists!Wait \/ mixed
  BY <1>3, <1>5, <1>9, <1>12
<1>14. ASSUME ~mixed PROVE OneRequest(page')
  BY <1>2, <1>11, <1>12, <1>13, <1>14 DEF OneRequest
<1>15. ASSUME ~mixed, ~page.moved PROVE ShownInOrder(page')
  <2>1. RowsOf(page') = RowsOf(page) /\ Lists!Matching(page.rows, r.filter) = RowsOf(page)
    BY <1>11, <1>12, <1>15 DEF RowsOf
  <2>2. /\ Lists!IsPrefix(shown, RowsOf(page))
        /\ IF last THEN shown = RowsOf(page) ELSE Len(shown) = r.page * PerPage
    <3>1. Lists!IsPrefix(page.shown, RowsOf(page)) /\ Len(page.shown) = (r.page - 1) * PerPage
      BY <1>12, <1>15 DEF ShownInOrder
    <3> QED
      BY <1>4, <2>1, <3>1 DEF PageShown, last
  <2>3. CASE last
    BY <1>9, <1>11, <2>1, <2>2, <2>3 DEF ShownInOrder
  <2>4. CASE ~last
    <3>1. next = r.page + 1 /\ next > 0 /\ next - 1 = r.page
      BY <1>3, <1>9, <1>12, <1>15, <2>4
    <3> QED
      BY <1>3, <1>11, <2>1, <2>2, <2>4, <3>1 DEF ShownInOrder
  <2> QED
    BY <2>3, <2>4
<1>16. \A j \in DOMAIN page'.requests : page'.requests[j].visit <= page'.visit
  BY <1>2, <1>11
<1>17. Len(page'.rows) <= MaxRows
  BY <1>3, <1>11
<1> QED
  BY <1>10, <1>11, <1>14, <1>15, <1>16, <1>17 DEF ListInv

\* Whatever happens keeps the invariant of a list.
LEMMA ListKeeps ==
    ASSUME ListInv(page), Lists!ListNext
    PROVE  ListInv(page')
BY ListVisitKeeps, ListScrollKeeps, ArriveKeeps, AnswerKeeps, FailKeeps
DEF Lists!ListNext, Lists!ListRuns

\* The invariant of a list has what the runs check of it.
LEMMA ListSafe ==
    ASSUME ListInv(page)
    PROVE  Lists!ListedInOrder /\ Lists!ListTypeOK
<1>1. page \in GrowingLists
  BY DEF ListInv
<1>2. Lists!ListTypeOK
  <2>1. page.shown \in Seq(1 .. MaxRows)
    BY <1>1 DEF GrowingLists
  <2>2. Lists!ToSet(page.shown) \subseteq 1 .. MaxRows
    <3>1. ASSUME NEW i \in DOMAIN page.shown PROVE page.shown[i] \in 1 .. MaxRows
      <4>1. i \in 1 .. Len(page.shown)
        BY <2>1
      <4> QED
        BY <2>1, <4>1, ElementOf
    <3> QED
      BY <3>1 DEF Lists!ToSet
  <2> QED
    BY <1>1, <2>2 DEF Lists!ListTypeOK, GrowingLists
<1>3. Lists!ListedInOrder
  <2> SUFFICES ASSUME ~page.moved, ~page.mixed
               PROVE  LET all == Lists!Matching(page.rows, page.filter) IN
                      /\ Lists!IsPrefix(page.shown, all)
                      /\ page.next > 0 => Len(page.shown) = (page.next - 1) * PerPage
                      /\ Lists!ListQuiet /\ ~page.failed => page.next > 0 \/ page.shown = all
    BY DEF Lists!ListedInOrder
  <2>1. ShownInOrder(page) /\ OneRequest(page)
    BY DEF ListInv
  <2>2. page.next \in {Lists!NoLink, Lists!Wait, Lists!Gone} \cup 1 .. MaxRows
    BY <1>1 DEF GrowingLists
  <2>3. Lists!ListQuiet /\ ~page.failed => page.next # Lists!Wait
    BY <2>1 DEF Lists!ListQuiet, OneRequest
  <2> QED
    BY <2>1, <2>2, <2>3, ListAssumption DEF ShownInOrder, RowsOf
<1> QED
  BY <1>2, <1>3

Turns == INSTANCE Folding WITH Op <- Carousels!To

(***************************************************************************)
(* The carousel.                                                           *)
(***************************************************************************)
Positions == 0 .. 2
CarouselStates ==
    [active : Positions, indicator : Positions, coming : Positions \cup {-1}, sliding : BOOLEAN,
     cycling : BOOLEAN, paused : BOOLEAN, hovered : BOOLEAN, chosen : BOOLEAN,
     announced : Nat, waiting : Seq(Positions), wrap : BOOLEAN,
     wanted : Positions \cup {-1}, between : BOOLEAN, events : Nat]

Slides(c) ==
    /\ c.sliding = (c.coming # -1)
    /\ IF c.sliding THEN c.indicator = c.coming ELSE c.indicator = c.active
    /\ c.cycling /\ c.hovered => c.chosen

\* The item asked for last is the last that waits, or the one that comes, or
\* the active one.
Comes(c, item) ==
    IF c.waiting # <<>> THEN c.waiting[Len(c.waiting)] = item
    ELSE IF c.sliding THEN c.coming = item ELSE c.active = item

CarouselInv(c) ==
    /\ c \in CarouselStates /\ Slides(c)
    /\ c.waiting # <<>> => c.sliding \/ c.announced > 0
    /\ c.wanted # -1 /\ ~c.between => Comes(c, c.wanted)

\* The carousel's fold is the one of Folding.
LEMMA TurnsFold ==
    ASSUME NEW base, NEW s
    PROVE  Carousels!FoldLeft(Carousels!To, base, s) = Turns!Folded(base, s)
BY Zenon DEF Carousels!FoldLeft, Carousels!MapThenFoldSet, Carousels!Max,
             Turns!Folded, Turns!Greatest

\* What is not of the items' concern.
SameCarousel(c, d) ==
    /\ d \in CarouselStates
    /\ d.announced = c.announced /\ d.wanted = c.wanted /\ d.between = c.between

\* A slide that begins.
SlideBegins(c, next, d) ==
    /\ SameCarousel(c, d) /\ Slides(d) /\ d.active = c.active /\ d.waiting = c.waiting
    /\ next = c.active => ~d.sliding
    /\ next # c.active => d.sliding /\ d.coming = next

\* What the beginning of a slide changes.
LEMMA SlideIs ==
    ASSUME NEW c \in CarouselStates, Slides(c), ~c.sliding, NEW next \in Positions
    PROVE  SlideBegins(c, next, Carousels!Slide(c, next))
<1> DEFINE d == Carousels!Slide(c, next)
<1>1. CASE next = c.active
  <2>1. d = [c EXCEPT !.sliding = FALSE]
    BY <1>1 DEF Carousels!Slide
  <2> HIDE DEF d
  <2>2. /\ d \in CarouselStates /\ d.sliding = FALSE /\ d.coming = c.coming /\ d.indicator = c.indicator
        /\ d.active = c.active /\ d.cycling = c.cycling /\ d.hovered = c.hovered
        /\ d.chosen = c.chosen /\ d.waiting = c.waiting /\ d.announced = c.announced
        /\ d.wanted = c.wanted /\ d.between = c.between
    BY <2>1 DEF CarouselStates
  <2>3. c.coming = -1 /\ c.indicator = c.active /\ (c.cycling /\ c.hovered => c.chosen)
    BY DEF Slides
  <2>4. Slides(d)
    BY <2>2, <2>3 DEF Slides
  <2> QED
    BY <1>1, <2>2, <2>4 DEF SlideBegins, SameCarousel, d
<1>2. CASE next # c.active
  <2> DEFINE paused == IF c.cycling THEN FALSE ELSE c.paused
  <2>1. d = [c EXCEPT !.sliding = TRUE, !.indicator = next, !.coming = next, !.paused = paused]
    BY <1>2 DEF Carousels!Slide, Carousels!PauseCycle, CarouselStates
  <2>5. paused \in BOOLEAN
    BY DEF CarouselStates
  <2>2. next # -1 /\ next \in Positions \cup {-1}
    BY DEF Positions
  <2> HIDE DEF d, paused
  <2>3. d \in CarouselStates
    BY <2>1, <2>2, <2>5 DEF CarouselStates
  <2>4. /\ d.sliding /\ d.coming = next /\ d.indicator = next
        /\ d.active = c.active /\ d.cycling = c.cycling /\ d.hovered = c.hovered
        /\ d.chosen = c.chosen /\ d.waiting = c.waiting /\ d.announced = c.announced
        /\ d.wanted = c.wanted /\ d.between = c.between
    BY <2>1 DEF CarouselStates
  <2> QED
    BY <1>2, <2>2, <2>3, <2>4 DEF SlideBegins, SameCarousel, Slides, d
<1> QED
  BY <1>1, <1>2

\* Asking for an item.
Asked(c, item, d) ==
    /\ SameCarousel(c, d) /\ Slides(d)
    /\ c.sliding => d.sliding /\ d.waiting # <<>> /\ d.waiting[Len(d.waiting)] = item
    /\ ~c.sliding => /\ d.waiting = c.waiting
                     /\ IF d.sliding THEN d.coming = item ELSE d.active = item

\* What asking for an item changes: during a slide it waits, else the slide begins.
LEMMA ToIs ==
    ASSUME NEW c \in CarouselStates, Slides(c), NEW item \in Positions
    PROVE  Asked(c, item, Carousels!To(c, item))
<1> DEFINE d == Carousels!To(c, item)
<1>1. CASE c.sliding
  <2> DEFINE waiting == Append(c.waiting, item)
  <2>1. d = [c EXCEPT !.waiting = waiting]
    BY <1>1 DEF Carousels!To, CarouselStates
  <2>2. waiting \in Seq(Positions) /\ waiting # <<>> /\ waiting[Len(waiting)] = item
    BY Appended DEF CarouselStates
  <2> HIDE DEF d, waiting
  <2>3. /\ d \in CarouselStates /\ d.sliding = c.sliding /\ d.coming = c.coming
        /\ d.indicator = c.indicator /\ d.active = c.active /\ d.cycling = c.cycling
        /\ d.hovered = c.hovered /\ d.chosen = c.chosen /\ d.waiting = waiting
        /\ d.announced = c.announced /\ d.wanted = c.wanted /\ d.between = c.between
    BY <2>1, <2>2 DEF CarouselStates
  <2> QED
    BY <1>1, <2>2, <2>3 DEF Asked, SameCarousel, Slides, d
<1>2. CASE ~c.sliding /\ item = c.active
  <2>1. d = [c EXCEPT !.paused = FALSE, !.cycling = TRUE, !.chosen = TRUE]
    BY <1>2 DEF Carousels!To, Carousels!PauseCycle, CarouselStates
  <2> HIDE DEF d
  <2>2. /\ d \in CarouselStates /\ d.sliding = c.sliding /\ d.coming = c.coming
        /\ d.indicator = c.indicator /\ d.active = c.active /\ d.chosen /\ d.waiting = c.waiting
        /\ d.announced = c.announced /\ d.wanted = c.wanted /\ d.between = c.between
    BY <2>1 DEF CarouselStates
  <2> QED
    BY <1>2, <2>2 DEF Asked, SameCarousel, Slides, d
<1>3. CASE ~c.sliding /\ item # c.active
  <2>1. d = Carousels!Slide(c, item)
    BY <1>3 DEF Carousels!To
  <2> HIDE DEF d
  <2>2. SlideBegins(c, item, d)
    BY <1>3, <2>1, SlideIs
  <2> QED
    BY <1>3, <2>2 DEF SlideBegins, Asked, d
<1> QED
  BY <1>1, <1>2, <1>3

\* A carousel begins in its invariant.
LEMMA CarouselStarts ==
    ASSUME Carousels!CarouselInit
    PROVE  CarouselInv(page)
<1>1. PICK wrap \in BOOLEAN :
        page = [active |-> 0, indicator |-> 0, coming |-> -1, sliding |-> FALSE,
                cycling |-> TRUE, paused |-> FALSE, hovered |-> FALSE, chosen |-> FALSE,
                announced |-> 0, waiting |-> <<>>, wrap |-> wrap,
                wanted |-> -1, between |-> FALSE, events |-> 0]
  BY DEF Carousels!CarouselInit, Carousels!None
<1>2. <<>> \in Seq(Positions) /\ 0 \in Positions /\ -1 \in Positions \cup {-1}
  BY DEF Positions
<1>3. page \in CarouselStates
  BY <1>1, <1>2 DEF CarouselStates
<1> QED
  BY <1>1, <1>3 DEF CarouselInv, Slides

\* Counting an event keeps the invariant.
LEMMA CarouselHappens ==
    ASSUME NEW c, CarouselInv(c), Carousels!Happens(c)
    PROVE  CarouselInv(page')
<1> DEFINE events == c.events + 1
<1>1. c \in CarouselStates /\ events \in Nat /\ page' = [c EXCEPT !.events = events]
  BY DEF CarouselInv, CarouselStates, Carousels!Happens
<1> HIDE DEF events
<1>2. page' \in CarouselStates
  BY <1>1 DEF CarouselStates
<1>3. /\ page'.sliding = c.sliding /\ page'.coming = c.coming
      /\ page'.indicator = c.indicator /\ page'.active = c.active /\ page'.cycling = c.cycling
      /\ page'.hovered = c.hovered /\ page'.chosen = c.chosen /\ page'.waiting = c.waiting
      /\ page'.announced = c.announced /\ page'.wanted = c.wanted /\ page'.between = c.between
  BY <1>1 DEF CarouselStates
<1> QED
  BY <1>2, <1>3 DEF CarouselInv, Slides, Comes

\* A step to the next item or the one before, by a control, a key or the interval,
\* keeps the invariant.
LEMMA MovedKeeps ==
    ASSUME CarouselInv(page), NEW delta \in {-1, 1}, Carousels!Happens(Carousels!Moved(delta))
    PROVE  CarouselInv(page')
<1>1. page \in CarouselStates /\ Slides(page)
  BY DEF CarouselInv
<1>2. CASE page.sliding
  <2>1. Carousels!Moved(delta) = page
    BY <1>2 DEF Carousels!Moved, Carousels!Advance
  <2> QED
    BY <2>1, CarouselHappens
<1>3. CASE ~page.sliding
  <2> DEFINE wanted == IF page.waiting # <<>> THEN page.wanted ELSE -1
             c == [page EXCEPT !.wanted = wanted]
             next == Carousels!ItemFor(c, delta)
             d == Carousels!Slide(c, next)
  <2>1. wanted \in Positions \cup {-1}
    BY <1>1 DEF CarouselStates
  <2>2. c = IF page.waiting # <<>> THEN page ELSE [page EXCEPT !.wanted = -1]
    BY <1>1 DEF CarouselStates
  <2> HIDE DEF wanted
  <2>3. /\ c \in CarouselStates /\ c.wanted = wanted /\ c.sliding = page.sliding
        /\ c.coming = page.coming /\ c.indicator = page.indicator /\ c.active = page.active
        /\ c.cycling = page.cycling /\ c.hovered = page.hovered /\ c.chosen = page.chosen
        /\ c.waiting = page.waiting /\ c.announced = page.announced /\ c.between = page.between
    BY <1>1, <2>1 DEF CarouselStates
  <2>4. Carousels!Moved(delta) = Carousels!Advance(c, delta)
    BY <1>3, <2>2, <2>3 DEF Carousels!Moved, Carousels!None
  <2> HIDE DEF c
  <2>5. Carousels!Moved(delta) = d
    BY <1>3, <2>3, <2>4 DEF Carousels!Advance
  <2>6. next \in Positions
    <3>1. c.active \in 0 .. 2
      BY <2>3 DEF CarouselStates, Positions
    <3>2. ASSUME NEW i \in Int PROVE i % 3 \in 0 .. 2
      OBVIOUS
    <3>3. c.active + delta \in Int
      BY <3>1
    <3> QED
      BY <3>1, <3>2, <3>3 DEF Carousels!ItemFor, Positions
  <2>7. Slides(c)
    BY <1>1, <2>3 DEF Slides
  <2> HIDE DEF next
  <2>8. SlideBegins(c, next, d)
    BY <1>3, <2>3, <2>6, <2>7, SlideIs
  <2> HIDE DEF d
  <2>9. CarouselInv(d)
    <3>1. /\ d \in CarouselStates /\ Slides(d) /\ d.waiting = page.waiting
          /\ d.announced = page.announced /\ d.wanted = wanted /\ d.between = page.between
      BY <2>3, <2>8 DEF SlideBegins, SameCarousel
    <3>2. d.waiting # <<>> => d.announced > 0
      BY <1>3, <3>1 DEF CarouselInv
    <3>3. d.wanted # -1 /\ ~d.between => Comes(d, d.wanted)
      BY <3>1 DEF wanted, CarouselInv, Comes
    <3> QED
      BY <3>1, <3>2, <3>3 DEF CarouselInv
  <2> QED
    BY <2>5, <2>9, CarouselHappens
<1> QED
  BY <1>2, <1>3

\* A click on an indicator keeps the invariant.
LEMMA IndicatorKeeps ==
    ASSUME CarouselInv(page), NEW item \in Positions, Carousels!Indicator(item)
    PROVE  CarouselInv(page')
<1> DEFINE between == page.between \/ (~page.sliding /\ page.waiting # <<>>)
           c == [page EXCEPT !.wanted = item, !.between = between]
           d == Carousels!To(c, item)
<1>1. page \in CarouselStates /\ Slides(page) /\ between \in BOOLEAN
  BY DEF CarouselInv, CarouselStates
<1>2. Carousels!Happens(d)
  BY <1>1 DEF Carousels!Indicator, CarouselStates
<1>3. ~between /\ ~page.sliding => page.waiting = <<>>
  OBVIOUS
<1> HIDE DEF between
<1>4. /\ c \in CarouselStates /\ c.wanted = item /\ c.between = between /\ c.sliding = page.sliding
      /\ c.coming = page.coming /\ c.indicator = page.indicator /\ c.active = page.active
      /\ c.cycling = page.cycling /\ c.hovered = page.hovered /\ c.chosen = page.chosen
      /\ c.waiting = page.waiting /\ c.announced = page.announced
  BY <1>1 DEF CarouselStates
<1> HIDE DEF c
<1>5. Slides(c)
  BY <1>1, <1>4 DEF Slides
<1>6. Asked(c, item, d)
  BY <1>4, <1>5, ToIs
<1> HIDE DEF d
<1>7. CarouselInv(d)
  <2>1. /\ d \in CarouselStates /\ Slides(d) /\ d.announced = page.announced
        /\ d.wanted = item /\ d.between = between
    BY <1>4, <1>6 DEF Asked, SameCarousel
  <2>2. d.waiting # <<>> => d.sliding \/ d.announced > 0
    BY <1>4, <1>6, <2>1 DEF Asked, CarouselInv
  <2>3. ~d.between => Comes(d, item)
    BY <1>3, <1>4, <1>6, <2>1 DEF Asked, Comes
  <2> QED
    BY <2>1, <2>2, <2>3 DEF CarouselInv
<1> QED
  BY <1>2, <1>7, CarouselHappens

\* The pointer's coming and going keeps the invariant.
LEMMA PointerKeeps ==
    ASSUME CarouselInv(page), Carousels!Enter \/ Carousels!Leave
    PROVE  CarouselInv(page')
<1>1. page \in CarouselStates /\ Slides(page)
  BY DEF CarouselInv
<1>2. ASSUME NEW hovered \in BOOLEAN, NEW cycling \in BOOLEAN, NEW chosen \in BOOLEAN,
             cycling /\ hovered => chosen
      PROVE  CarouselInv([page EXCEPT !.hovered = hovered, !.cycling = cycling, !.chosen = chosen])
  <2> DEFINE c == [page EXCEPT !.hovered = hovered, !.cycling = cycling, !.chosen = chosen]
  <2>1. c \in CarouselStates
    BY <1>1 DEF CarouselStates
  <2>2. /\ c.hovered = hovered /\ c.cycling = cycling /\ c.chosen = chosen
        /\ c.wanted = page.wanted /\ c.between = page.between /\ c.sliding = page.sliding
        /\ c.coming = page.coming /\ c.indicator = page.indicator /\ c.active = page.active
        /\ c.waiting = page.waiting /\ c.announced = page.announced
    BY <1>1 DEF CarouselStates
  <2> HIDE DEF c
  <2>3. CarouselInv(c)
    BY <1>1, <1>2, <2>1, <2>2 DEF CarouselInv, Slides, Comes
  <2> QED
    BY <2>3 DEF c
<1>3. CASE Carousels!Enter
  <2>1. CarouselInv([page EXCEPT !.hovered = TRUE, !.cycling = FALSE, !.chosen = FALSE])
    BY <1>2
  <2> QED
    BY <1>3, <2>1, CarouselHappens DEF Carousels!Enter
<1>4. CASE Carousels!Leave
  <2> DEFINE cycling == ~page.paused
  <2>1. cycling \in BOOLEAN /\ page.chosen \in BOOLEAN
    BY <1>1 DEF CarouselStates
  <2> HIDE DEF cycling
  <2>2. CarouselInv([page EXCEPT !.hovered = FALSE, !.cycling = cycling, !.chosen = page.chosen])
    BY <1>2, <2>1
  <2>3. [page EXCEPT !.hovered = FALSE, !.cycling = cycling, !.chosen = page.chosen]
        = [page EXCEPT !.hovered = FALSE, !.cycling = cycling]
    BY <1>1 DEF CarouselStates
  <2> QED
    BY <1>4, <2>2, <2>3, CarouselHappens DEF Carousels!Leave, cycling
<1> QED
  BY <1>3, <1>4

\* The end of a slide keeps the invariant.
LEMMA TransitionEndKeeps ==
    ASSUME CarouselInv(page), Carousels!TransitionEnd
    PROVE  CarouselInv(page')
<1> DEFINE announced == page.announced + 1
<1>1. /\ page \in CarouselStates /\ Slides(page) /\ page.coming # -1 /\ page.coming \in Positions
      /\ announced \in Nat /\ announced > 0
  BY DEF CarouselInv, CarouselStates, Carousels!TransitionEnd, Carousels!None
<1>2. page' = [page EXCEPT !.active = page.coming, !.coming = -1, !.sliding = FALSE,
                           !.announced = announced]
  BY <1>1 DEF Carousels!TransitionEnd, Carousels!None, CarouselStates
<1> HIDE DEF announced
<1>3. page' \in CarouselStates
  <2>1. -1 \in Positions \cup {-1}
    OBVIOUS
  <2> QED
    BY <1>1, <1>2, <2>1 DEF CarouselStates
<1>4. /\ page'.active = page.coming /\ page'.coming = -1 /\ page'.sliding = FALSE
      /\ page'.announced = announced /\ page'.indicator = page.indicator
      /\ page'.cycling = page.cycling /\ page'.hovered = page.hovered /\ page'.chosen = page.chosen
      /\ page'.waiting = page.waiting /\ page'.wanted = page.wanted /\ page'.between = page.between
  BY <1>1, <1>2 DEF CarouselStates
<1>5. page.sliding /\ page.indicator = page.coming
  BY <1>1 DEF Slides
<1>6. Slides(page')
  BY <1>1, <1>4, <1>5 DEF Slides
<1>7. page'.wanted # -1 /\ ~page'.between => Comes(page', page'.wanted)
  BY <1>4, <1>5 DEF CarouselInv, Comes
<1> QED
  BY <1>1, <1>3, <1>4, <1>6, <1>7 DEF CarouselInv

\* What every item served makes of the state.
Serving(announced, wanted, between) ==
    {c \in CarouselStates :
        /\ Slides(c) /\ c.announced = announced /\ c.wanted = wanted /\ c.between = between
        /\ ~c.sliding => c.waiting = <<>>}

\* The announcement of a slide, which runs what was asked for meanwhile, keeps it.
LEMMA AnnounceKeeps ==
    ASSUME CarouselInv(page), Carousels!Announce
    PROVE  CarouselInv(page')
<1> DEFINE announced == page.announced - 1
           base == [page EXCEPT !.announced = announced, !.waiting = <<>>]
           s == page.waiting
           N == Len(s)
           S == Serving(announced, page.wanted, page.between)
<1>1. page \in CarouselStates /\ Slides(page) /\ page.announced \in Nat /\ page.announced > 0
  BY DEF CarouselInv, CarouselStates, Carousels!Announce
<1>2. s \in Seq(Positions) /\ <<>> \in Seq(Positions) /\ announced \in Nat
  BY <1>1 DEF CarouselStates
<1>3. page' = Turns!Folded(base, s)
  BY <1>1, TurnsFold DEF Carousels!Announce, CarouselStates
<1>4. N \in Nat /\ DOMAIN s = 1 .. N /\ (s = <<>> <=> N = 0) /\ (\A n \in 1 .. N : s[n] \in Positions)
  BY <1>2
<1> HIDE DEF announced
<1>5. /\ base \in CarouselStates /\ base.sliding = page.sliding /\ base.coming = page.coming
      /\ base.indicator = page.indicator /\ base.active = page.active
      /\ base.cycling = page.cycling /\ base.hovered = page.hovered /\ base.chosen = page.chosen
      /\ base.waiting = <<>> /\ base.announced = announced
      /\ base.wanted = page.wanted /\ base.between = page.between
  BY <1>1, <1>2 DEF CarouselStates
<1> HIDE DEF base, N, s
<1>6. Slides(base)
  BY <1>1, <1>5 DEF Slides
<1>7. base \in S
  BY <1>5, <1>6 DEF Serving
<1>8. ASSUME NEW c \in S, NEW item \in Positions
      PROVE  Asked(c, item, Carousels!To(c, item)) /\ Carousels!To(c, item) \in S
  <2> DEFINE d == Carousels!To(c, item)
  <2>1. c \in CarouselStates /\ Slides(c)
    BY DEF Serving
  <2>2. Asked(c, item, d)
    BY <2>1, ToIs
  <2> HIDE DEF d
  <2>3. d \in S
    BY <2>2 DEF Serving, Asked, SameCarousel
  <2> QED
    BY <2>2, <2>3 DEF d
<1>9. \A c \in S, n \in 1 .. N : Carousels!To(c, s[n]) \in S
  BY <1>4, <1>8
<1> HIDE DEF S
<1>10. page' \in S
  <2>1. Turns!Folded(base, s) \in S
    BY <1>4, <1>7, <1>9, Turns!FoldStays
  <2> QED
    BY <1>3, <2>1
<1>11. page'.wanted # -1 /\ ~page'.between => Comes(page', page'.wanted)
  <2> SUFFICES ASSUME page.wanted # -1, ~page.between PROVE Comes(page', page.wanted)
    BY <1>10 DEF S, Serving
  <2>1. Comes(page, page.wanted)
    BY DEF CarouselInv
  <2>2. CASE N = 0
    <3>1. s = <<>>
      BY <1>4, <2>2
    <3>2. PICK after \in [0 .. N -> S] :
            Turns!Follows(N, base, s, after) /\ Turns!Folded(base, s) = after[N]
      <4>1. Turns!InSteps(S, N, base, s)
        BY <1>4, <1>7, <1>9, Turns!FoldSteps
      <4> QED
        BY <4>1 DEF Turns!InSteps
    <3>3. page' = base
      BY <1>3, <2>2, <3>2 DEF Turns!Follows
    <3> QED
      BY <1>5, <2>1, <3>1, <3>3 DEF Comes, s
  <2>3. CASE N # 0
    <3>1. N \in Nat \ {0} /\ N \in 1 .. N
      BY <1>4, <2>3
    <3>2. PICK c \in S : Turns!Folded(base, s) = Carousels!To(c, s[N])
      BY <1>4, <1>7, <1>9, <3>1, Turns!FoldLast
    <3>3. s[N] = page.wanted
      BY <1>4, <2>1, <2>3 DEF Comes, s, N
    <3>4. Asked(c, page.wanted, page') /\ (~c.sliding => c.waiting = <<>>)
      BY <1>3, <1>4, <1>8, <3>1, <3>2, <3>3 DEF S, Serving
    <3>5. CASE c.sliding
      BY <3>4, <3>5 DEF Asked, Comes
    <3>6. CASE ~c.sliding
      BY <3>4, <3>6 DEF Asked, Comes
    <3> QED
      BY <3>5, <3>6
  <2> QED
    BY <2>2, <2>3
<1> QED
  <2>1. page' \in CarouselStates /\ Slides(page') /\ (~page'.sliding => page'.waiting = <<>>)
    BY <1>10 DEF S, Serving
  <2> QED
    BY <1>11, <2>1 DEF CarouselInv

\* Whatever happens keeps the invariant of a carousel.
LEMMA CarouselKeeps ==
    ASSUME CarouselInv(page), Carousels!CarouselNext
    PROVE  CarouselInv(page')
<1>1. CASE Carousels!TransitionEnd
  BY <1>1, TransitionEndKeeps
<1>2. CASE Carousels!Announce
  BY <1>2, AnnounceKeeps
<1>3. CASE Carousels!Tick
  BY <1>3, MovedKeeps DEF Carousels!Tick
<1>4. CASE Carousels!Enter \/ Carousels!Leave
  BY <1>4, PointerKeeps
<1>5. ASSUME NEW delta \in {-1, 1}, Carousels!Control(delta) PROVE CarouselInv(page')
  BY <1>5, MovedKeeps DEF Carousels!Control
<1>6. ASSUME NEW item \in Positions, Carousels!Indicator(item) PROVE CarouselInv(page')
  BY <1>6, IndicatorKeeps
<1>7. Carousels!Shows = Positions
  BY DEF Carousels!Shows, Positions
<1> QED
  BY <1>1, <1>2, <1>3, <1>4, <1>5, <1>6, <1>7 DEF Carousels!CarouselNext, Carousels!CarouselRuns

\* The invariant of a carousel has what the runs check of it.
LEMMA CarouselSafe ==
    ASSUME CarouselInv(page)
    PROVE  /\ Carousels!CarouselAgrees /\ Carousels!CyclesUnhovered /\ Carousels!LastChosenShown
           /\ Carousels!CarouselTypeOK
<1>1. Carousels!CarouselAgrees
  BY DEF CarouselInv, Slides, Carousels!CarouselAgrees, Carousels!None
<1>2. Carousels!CyclesUnhovered
  BY DEF CarouselInv, Slides, Carousels!CyclesUnhovered
<1>3. Carousels!LastChosenShown
  BY DEF CarouselInv, Comes, Carousels!LastChosenShown, Carousels!CarouselQuiet, Carousels!None
<1>4. Carousels!CarouselTypeOK
  BY DEF CarouselInv, CarouselStates, Positions, Carousels!CarouselTypeOK, Carousels!Shows,
         Carousels!None
<1> QED
  BY <1>1, <1>2, <1>3, <1>4

Endings == INSTANCE Folding WITH Op <- Collapses!Completed

(***************************************************************************)
(* Panels and carets.                                                      *)
(***************************************************************************)
Shapes == {"in", "out", "collapsing"}
PanelEnds == {"show", "hide"}
Objects == [made : BOOLEAN, transitioning : BOOLEAN, grouped : BOOLEAN]
PanelStates ==
    [shape : [Trio -> Shapes], data : [Trio -> Objects], ends : [Trio -> Seq(PanelEnds)],
     aria : [Trio -> BOOLEAN], caret : [Trio -> {"down", "right"}], group : BOOLEAN,
     list : BOOLEAN, clicks : Nat, ignored : [Trio -> BOOLEAN], overtaken : BOOLEAN]

\* Whether a panel is open, or will be when its transition has ended.
Opens(shape, ends) == IF ends = <<>> THEN shape = "in" ELSE ends[Len(ends)] = "show"

\* A panel moves while something waits for its transition: it closes at first,
\* if at all, and opens then; aria-expanded says so where nothing spoils it.
PanelOK(shape, ends, aria, d, exact) ==
    /\ d.transitioning => d.made
    /\ ends = <<>> => shape # "collapsing" /\ ~d.transitioning
    /\ ends # <<>> => shape = "collapsing" /\ (\A i \in 2 .. Len(ends) : ends[i] = "show")
    /\ exact => aria = Opens(shape, ends)

\* Every panel of c; those of a page without parents keep their carets with them.
PanelsOK(c, exact) ==
    /\ \A p \in Trio : PanelOK(c.shape[p], c.ends[p], c.aria[p], c.data[p], exact)
    /\ \A p \in Trio : c.data[p].grouped => c.group
    /\ ~c.group => \A p \in Trio : c.ends[p] # <<>> => c.data[p].transitioning

CaretsOK(c) ==
    ~c.group => \A p \in Trio : (c.caret[p] = "down") = (c.aria[p] # (c.ignored[p] # c.list))

\* With a parent, every object belongs to it and one panel opens at most.
OneOpens(c) ==
    /\ \A p \in Trio : c.data[p].made => c.data[p].grouped
    /\ \A p, q \in Trio : c.aria[p] /\ c.aria[q] => p = q

Exact(c) == ~(c.group /\ c.overtaken)

CollapseInv(c) ==
    /\ c \in PanelStates /\ PanelsOK(c, Exact(c)) /\ CaretsOK(c)
    /\ c.group /\ ~c.overtaken => OneOpens(c)

\* The panels' fold is the one of Folding.
LEMMA EndingsFold ==
    ASSUME NEW base, NEW s
    PROVE  Collapses!FoldLeft(Collapses!Completed, base, s) = Endings!Folded(base, s)
BY Zenon DEF Collapses!FoldLeft, Collapses!MapThenFoldSet, Collapses!Max,
             Endings!Folded, Endings!Greatest

\* The panels begin in their invariant.
LEMMA CollapseStarts ==
    ASSUME Collapses!CollapseInit
    PROVE  CollapseInv(page)
<1>1. PICK group \in BOOLEAN, list \in BOOLEAN, opened \in SUBSET Trio :
        /\ IF list THEN opened = Trio /\ ~group ELSE Collapses!Cardinality(opened) <= 1
        /\ page = [shape |-> [p \in Trio |-> IF p \in opened THEN "in" ELSE "out"],
                   data  |-> [p \in Trio |-> Collapses!NoData],
                   ends  |-> [p \in Trio |-> <<>>],
                   aria  |-> [p \in Trio |-> p \in opened],
                   caret |-> [p \in Trio |-> IF p \in opened /\ ~list THEN "down" ELSE "right"],
                   group |-> group, list |-> list, clicks |-> 0,
                   ignored |-> [p \in Trio |-> FALSE], overtaken |-> FALSE]
  BY Zenon DEF Collapses!CollapseInit
<1> DEFINE shape == [p \in Trio |-> IF p \in opened THEN "in" ELSE "out"]
           data == [p \in Trio |-> Collapses!NoData]
           ends == [p \in Trio |-> <<>>]
           aria == [p \in Trio |-> p \in opened]
           caret == [p \in Trio |-> IF p \in opened /\ ~list THEN "down" ELSE "right"]
           ignored == [p \in Trio |-> FALSE]
<1>2. /\ shape \in [Trio -> Shapes] /\ aria \in [Trio -> BOOLEAN]
      /\ caret \in [Trio -> {"down", "right"}] /\ ignored \in [Trio -> BOOLEAN]
  BY DEF Shapes
<1>3. data \in [Trio -> Objects] /\ ends \in [Trio -> Seq(PanelEnds)]
  BY DEF Collapses!NoData, Objects
<1>4. \A p \in Trio : /\ shape[p] = IF p \in opened THEN "in" ELSE "out"
                      /\ data[p].made = FALSE /\ data[p].transitioning = FALSE
                      /\ data[p].grouped = FALSE /\ ends[p] = <<>>
                      /\ aria[p] = (p \in opened) /\ ignored[p] = FALSE
                      /\ caret[p] = IF p \in opened /\ ~list THEN "down" ELSE "right"
  BY DEF Collapses!NoData
<1>5. group => \A p, q \in opened : p = q
  <2> SUFFICES ASSUME group PROVE \A p, q \in opened : p = q
    OBVIOUS
  <2>1. Cardinality(opened) <= 1 /\ IsFiniteSet(opened)
    <3>1. Collapses!Cardinality(opened) = Cardinality(opened)
      BY DEF Collapses!Cardinality, Cardinality
    <3> QED
      BY <1>1, <3>1, FS_Subset, TrioAssumption
  <2> QED
    BY <2>1, NoTwo
<1> HIDE DEF shape, data, ends, aria, caret, ignored
<1>6. /\ page.shape = shape /\ page.data = data /\ page.ends = ends /\ page.aria = aria
      /\ page.caret = caret /\ page.group = group /\ page.list = list
      /\ page.ignored = ignored /\ page.overtaken = FALSE
  BY <1>1 DEF shape, data, ends, aria, caret, ignored
<1>7. page \in PanelStates
  BY <1>1, <1>2, <1>3 DEF PanelStates, shape, data, ends, aria, caret, ignored
<1>8. PanelsOK(page, Exact(page))
  BY <1>4, <1>6 DEF PanelsOK, PanelOK, Opens
<1>9. CaretsOK(page)
  <2> SUFFICES ASSUME NEW p \in Trio
               PROVE  (caret[p] = "down") = (aria[p] # (ignored[p] # list))
    BY <1>6 DEF CaretsOK
  <2>1. CASE list
    BY <1>1, <1>4, <2>1
  <2>2. CASE ~list
    <3>1. list = FALSE /\ ignored[p] = FALSE /\ aria[p] = (p \in opened)
      BY <1>4, <2>2
    <3>2. (caret[p] = "down") = (p \in opened)
      BY <1>4, <2>2
    <3> QED
      BY <3>1, <3>2
  <2> QED
    BY <2>1, <2>2
<1>10. ASSUME page.group PROVE OneOpens(page)
  <2>1. page.data = data /\ page.aria = aria /\ \A p, q \in opened : p = q
    BY <1>5, <1>6, <1>10
  <2>2. \A p \in Trio : page.data[p].made = FALSE
    BY <1>4, <2>1
  <2>3. \A p \in Trio : page.aria[p] = (p \in opened)
    BY <1>4, <2>1
  <2> QED
    BY <2>1, <2>2, <2>3 DEF OneOpens
<1> QED
  BY <1>7, <1>8, <1>9, <1>10 DEF CollapseInv

(***************************************************************************)
(* What a click does.                                                      *)
(***************************************************************************)
\* All but panel p, and all but the panels, is as it was.
OthersStay(c, p, e) ==
    /\ e \in PanelStates
    /\ \A q \in Trio \ {p} : /\ e.shape[q] = c.shape[q] /\ e.ends[q] = c.ends[q]
                             /\ e.aria[q] = c.aria[q] /\ e.data[q] = c.data[q]
    /\ e.caret = c.caret /\ e.group = c.group /\ e.list = c.list
    /\ e.ignored = c.ignored /\ e.overtaken = c.overtaken

\* Panel p through the object d.
HidesPanel(c, p, d, e) ==
    /\ OthersStay(c, p, e)
    /\ IF d.transitioning \/ c.shape[p] # "in"
       THEN /\ e.shape[p] = c.shape[p] /\ e.ends[p] = c.ends[p] /\ e.aria[p] = c.aria[p]
            /\ e.data[p] = d /\ e.ends = c.ends
       ELSE /\ e.shape[p] = "collapsing" /\ e.ends[p] = Append(c.ends[p], "hide")
            /\ e.aria[p] = FALSE /\ e.data[p] = [d EXCEPT !.transitioning = TRUE]

\* What hiding a panel changes.
LEMMA PanelHideIs ==
    ASSUME NEW c \in PanelStates, NEW p \in Trio, NEW d \in Objects
    PROVE  HidesPanel(c, p, d, Collapses!HidePanel(c, p, d))
<1> DEFINE e == Collapses!HidePanel(c, p, d)
<1>1. /\ c.shape \in [Trio -> Shapes] /\ c.data \in [Trio -> Objects]
      /\ c.ends \in [Trio -> Seq(PanelEnds)] /\ c.aria \in [Trio -> BOOLEAN]
  BY DEF PanelStates
<1>2. CASE d.transitioning \/ c.shape[p] # "in"
  <2> DEFINE data == [c.data EXCEPT ![p] = d]
  <2>1. e = [c EXCEPT !.data = data]
    BY <1>2 DEF Collapses!HidePanel, PanelStates
  <2>2. data \in [Trio -> Objects] /\ data[p] = d /\ \A q \in Trio \ {p} : data[q] = c.data[q]
    BY <1>1
  <2> HIDE DEF data, e
  <2>3. /\ e \in PanelStates /\ e.shape = c.shape /\ e.ends = c.ends /\ e.aria = c.aria
        /\ e.data = data /\ e.caret = c.caret /\ e.group = c.group /\ e.list = c.list
        /\ e.ignored = c.ignored /\ e.overtaken = c.overtaken
    BY <2>1, <2>2 DEF PanelStates
  <2> QED
    BY <1>2, <2>2, <2>3 DEF HidesPanel, OthersStay, e
<1>3. CASE ~(d.transitioning \/ c.shape[p] # "in")
  <2> DEFINE moved == [d EXCEPT !.transitioning = TRUE]
             end == Append(c.ends[p], "hide")
             data == [c.data EXCEPT ![p] = moved]
             shape == [c.shape EXCEPT ![p] = "collapsing"]
             aria == [c.aria EXCEPT ![p] = FALSE]
             ends == [c.ends EXCEPT ![p] = end]
  <2>1. e = [c EXCEPT !.shape = shape, !.aria = aria, !.data = data, !.ends = ends]
    BY <1>1, <1>3 DEF Collapses!HidePanel, PanelStates
  <2>2. moved \in Objects /\ end \in Seq(PanelEnds) /\ "collapsing" \in Shapes
    <3>1. c.ends[p] \in Seq(PanelEnds) /\ "hide" \in PanelEnds
      BY <1>1 DEF PanelEnds
    <3>2. moved \in Objects
      BY DEF Objects
    <3> QED
      BY <3>1, <3>2 DEF Shapes
  <2> HIDE DEF e, moved, end
  <2>3. /\ data \in [Trio -> Objects] /\ data[p] = moved
        /\ shape \in [Trio -> Shapes] /\ shape[p] = "collapsing"
        /\ aria \in [Trio -> BOOLEAN] /\ aria[p] = FALSE
        /\ ends \in [Trio -> Seq(PanelEnds)] /\ ends[p] = end
        /\ \A q \in Trio \ {p} : /\ data[q] = c.data[q] /\ shape[q] = c.shape[q]
                                 /\ aria[q] = c.aria[q] /\ ends[q] = c.ends[q]
    BY <1>1, <2>2
  <2> HIDE DEF data, shape, aria, ends
  <2>4. /\ e \in PanelStates /\ e.shape = shape /\ e.ends = ends /\ e.aria = aria
        /\ e.data = data /\ e.caret = c.caret /\ e.group = c.group /\ e.list = c.list
        /\ e.ignored = c.ignored /\ e.overtaken = c.overtaken
    BY <2>1, <2>3 DEF PanelStates
  <2> QED
    BY <1>3, <2>3, <2>4 DEF HidesPanel, OthersStay, e, moved, end
<1> QED
  BY <1>2, <1>3

\* Panel p begins to open through the object d.
Begins(c, p, d, e) ==
    /\ OthersStay(c, p, e)
    /\ e.shape[p] = "collapsing" /\ e.ends[p] = Append(c.ends[p], "show")
    /\ e.aria[p] = TRUE /\ e.data[p] = [d EXCEPT !.transitioning = TRUE]

\* What the opening of a panel changes.
LEMMA BeginIs ==
    ASSUME NEW c \in PanelStates, NEW p \in Trio, NEW d \in Objects
    PROVE  Begins(c, p, d, [c EXCEPT !.shape[p] = "collapsing", !.aria[p] = TRUE,
                                     !.data[p] = [d EXCEPT !.transitioning = TRUE],
                                     !.ends[p] = Append(@, "show")])
<1> DEFINE e == [c EXCEPT !.shape[p] = "collapsing", !.aria[p] = TRUE,
                          !.data[p] = [d EXCEPT !.transitioning = TRUE],
                          !.ends[p] = Append(@, "show")]
           moved == [d EXCEPT !.transitioning = TRUE]
           end == Append(c.ends[p], "show")
           data == [c.data EXCEPT ![p] = moved]
           shape == [c.shape EXCEPT ![p] = "collapsing"]
           aria == [c.aria EXCEPT ![p] = TRUE]
           ends == [c.ends EXCEPT ![p] = end]
<1>1. /\ c.shape \in [Trio -> Shapes] /\ c.data \in [Trio -> Objects]
      /\ c.ends \in [Trio -> Seq(PanelEnds)] /\ c.aria \in [Trio -> BOOLEAN]
  BY DEF PanelStates
<1>2. e = [c EXCEPT !.shape = shape, !.aria = aria, !.data = data, !.ends = ends]
  BY <1>1 DEF PanelStates
<1>3. moved \in Objects /\ end \in Seq(PanelEnds) /\ "collapsing" \in Shapes
  <2>1. c.ends[p] \in Seq(PanelEnds) /\ "show" \in PanelEnds
    BY <1>1 DEF PanelEnds
  <2>2. moved \in Objects
    BY DEF Objects
  <2> QED
    BY <2>1, <2>2 DEF Shapes
<1> HIDE DEF e, moved, end
<1>4. /\ data \in [Trio -> Objects] /\ data[p] = moved
      /\ shape \in [Trio -> Shapes] /\ shape[p] = "collapsing"
      /\ aria \in [Trio -> BOOLEAN] /\ aria[p] = TRUE
      /\ ends \in [Trio -> Seq(PanelEnds)] /\ ends[p] = end
      /\ \A q \in Trio \ {p} : /\ data[q] = c.data[q] /\ shape[q] = c.shape[q]
                               /\ aria[q] = c.aria[q] /\ ends[q] = c.ends[q]
  BY <1>1, <1>3
<1> HIDE DEF data, shape, aria, ends
<1>5. /\ e \in PanelStates /\ e.shape = shape /\ e.ends = ends /\ e.aria = aria
      /\ e.data = data /\ e.caret = c.caret /\ e.group = c.group /\ e.list = c.list
      /\ e.ignored = c.ignored /\ e.overtaken = c.overtaken
  BY <1>2, <1>4 DEF PanelStates
<1>6. Begins(c, p, d, e)
  BY <1>4, <1>5 DEF Begins, OthersStay, moved, end
<1> QED
  BY <1>6 DEF e

\* A new object's look at the panels.
Realigned(c, p, group, e) ==
    /\ e \in PanelStates /\ e.shape = c.shape /\ e.ends = c.ends /\ e.data = c.data
    /\ e.caret = c.caret /\ e.group = c.group /\ e.list = c.list
    /\ e.ignored = c.ignored /\ e.overtaken = c.overtaken
    /\ \A q \in Trio : e.aria[q] = IF group \/ q = p THEN c.shape[q] = "in" ELSE c.aria[q]

\* What a new object changes of what the triggers say.
LEMMA AlignedIs ==
    ASSUME NEW c \in PanelStates, NEW p \in Trio, NEW group \in BOOLEAN
    PROVE  Realigned(c, p, group, Collapses!Aligned(c, p, group))
<1> DEFINE e == Collapses!Aligned(c, p, group)
           aria == [q \in Trio |-> IF group \/ q = p THEN c.shape[q] = "in" ELSE c.aria[q]]
<1>1. e = [c EXCEPT !.aria = aria]
  BY DEF Collapses!Aligned
<1>2. aria \in [Trio -> BOOLEAN]
  BY DEF PanelStates
<1>3. \A q \in Trio : aria[q] = IF group \/ q = p THEN c.shape[q] = "in" ELSE c.aria[q]
  OBVIOUS
<1> HIDE DEF e, aria
<1>4. /\ e \in PanelStates /\ e.shape = c.shape /\ e.ends = c.ends /\ e.data = c.data
      /\ e.caret = c.caret /\ e.group = c.group /\ e.list = c.list
      /\ e.ignored = c.ignored /\ e.overtaken = c.overtaken /\ e.aria = aria
  BY <1>1, <1>2 DEF PanelStates
<1> QED
  BY <1>3, <1>4 DEF Realigned, e

\* What collapse('hide') makes of panel q.
PluginHides(c, q, e) ==
    /\ e.shape[q] \in Shapes /\ e.ends[q] \in Seq(PanelEnds)
    /\ e.aria[q] \in BOOLEAN /\ e.data[q] \in Objects /\ e.data[q].made
    /\ e.data[q].grouped = (c.data[q].made /\ c.data[q].grouped)
    /\ IF c.data[q].transitioning \/ c.shape[q] # "in"
       THEN /\ e.shape[q] = c.shape[q] /\ e.ends[q] = c.ends[q]
            /\ e.aria[q] = (c.data[q].made /\ c.aria[q])
            /\ e.data[q].transitioning = c.data[q].transitioning
       ELSE /\ e.shape[q] = "collapsing" /\ e.ends[q] = Append(c.ends[q], "hide")
            /\ e.aria[q] = FALSE

\* What collapse('hide') changes, of a panel with an object or without.
LEMMA PluginHideIs ==
    ASSUME NEW c \in PanelStates, NEW q \in Trio, c.data[q].transitioning => c.data[q].made
    PROVE  PluginHides(c, q, Collapses!PluginHide(c, q))
<1> DEFINE e == Collapses!PluginHide(c, q)
<1>0. c.data[q] \in Objects /\ c.aria[q] \in BOOLEAN
  BY DEF PanelStates
<1>1. CASE c.data[q].made
  <2>1. e = Collapses!HidePanel(c, q, c.data[q])
    BY <1>1 DEF Collapses!PluginHide
  <2> HIDE DEF e
  <2>2. HidesPanel(c, q, c.data[q], e)
    BY <1>0, <2>1, PanelHideIs
  <2>3. [c.data[q] EXCEPT !.transitioning = TRUE].made = c.data[q].made
        /\ [c.data[q] EXCEPT !.transitioning = TRUE].grouped = c.data[q].grouped
    BY <1>0 DEF Objects
  <2>4. /\ e.shape[q] \in Shapes /\ e.ends[q] \in Seq(PanelEnds)
        /\ e.aria[q] \in BOOLEAN /\ e.data[q] \in Objects
    BY <2>2 DEF HidesPanel, OthersStay, PanelStates
  <2> QED
    BY <1>0, <1>1, <2>2, <2>3, <2>4 DEF HidesPanel, PluginHides, Objects, e
<1>2. CASE ~c.data[q].made
  <2> DEFINE b == Collapses!Aligned(c, q, FALSE)
             d == Collapses!Data(FALSE)
  <2>1. e = Collapses!HidePanel(b, q, d)
    BY <1>2 DEF Collapses!PluginHide
  <2>2. d \in Objects /\ d.made = TRUE /\ d.transitioning = FALSE /\ d.grouped = FALSE
    BY DEF Collapses!Data, Objects
  <2> HIDE DEF e, b, d
  <2>3. Realigned(c, q, FALSE, b)
    BY AlignedIs DEF b
  <2>4. HidesPanel(b, q, d, e)
    BY <2>1, <2>2, <2>3, PanelHideIs DEF Realigned
  <2>5. /\ e.shape[q] \in Shapes /\ e.ends[q] \in Seq(PanelEnds)
        /\ e.aria[q] \in BOOLEAN /\ e.data[q] \in Objects
    BY <2>4 DEF HidesPanel, OthersStay, PanelStates
  <2>6. [d EXCEPT !.transitioning = TRUE].made = TRUE
        /\ [d EXCEPT !.transitioning = TRUE].grouped = FALSE
    BY <2>2 DEF Objects
  <2>7. b.shape = c.shape /\ b.ends = c.ends /\ b.aria[q] = (c.shape[q] = "in")
    BY <2>3 DEF Realigned
  <2>8. c.data[q].transitioning = FALSE /\ c.data[q].made = FALSE
    BY <1>0, <1>2 DEF Objects
  <2> QED
    BY <2>2, <2>4, <2>5, <2>6, <2>7, <2>8 DEF HidesPanel, PluginHides, e
<1> QED
  BY <1>1, <1>2


\* The first of the open or moving panels.
LEMMA FirstActive ==
    ASSUME NEW c, Collapses!Actives(c) # {}
    PROVE  Collapses!Min(Collapses!Actives(c)) \in Collapses!Actives(c)
<1> DEFINE S == Collapses!Actives(c)
<1>1. S \in SUBSET Nat
  BY TrioAssumption DEF Collapses!Actives
<1> HIDE DEF S
<1>2. PICK n \in S : \A m \in S : n <= m
  BY <1>1, Moves!LeastOf DEF S
<1>3. Collapses!Min(S) \in S
  BY <1>2 DEF Collapses!Min
<1> QED
  BY <1>3 DEF S

\* Every active panel is hidden, or left to what it does.
ActivesHidden(c, e) ==
    /\ e \in PanelStates
    /\ e.caret = c.caret /\ e.group = c.group /\ e.list = c.list
    /\ e.ignored = c.ignored /\ e.overtaken = c.overtaken
    /\ \A q \in Trio :
          LET h == IF q \in Collapses!Actives(c) THEN Collapses!PluginHide(c, q) ELSE c
          IN  /\ e.shape[q] = h.shape[q] /\ e.ends[q] = h.ends[q] /\ e.aria[q] = h.aria[q]
              /\ e.data[q] = IF q \notin Collapses!Actives(c) \/ Collapses!ActivesData(c).made
                             THEN h.data[q] ELSE Collapses!NoData

\* What hiding the open panels of the parent changes.
LEMMA HideActivesIs ==
    ASSUME NEW c \in PanelStates,
           \A q \in Trio : c.data[q].transitioning => c.data[q].made
    PROVE  ActivesHidden(c, Collapses!HideActives(c))
<1> DEFINE H(q) == IF q \in Collapses!Actives(c) THEN Collapses!PluginHide(c, q) ELSE c
           kept(q) == q \notin Collapses!Actives(c) \/ Collapses!ActivesData(c).made
           shape == [q \in Trio |-> H(q).shape[q]]
           aria == [q \in Trio |-> H(q).aria[q]]
           ends == [q \in Trio |-> H(q).ends[q]]
           data == [q \in Trio |-> IF kept(q) THEN H(q).data[q] ELSE Collapses!NoData]
           e == Collapses!HideActives(c)
<1>1. e = [c EXCEPT !.shape = shape, !.aria = aria, !.ends = ends, !.data = data]
  BY Zenon DEF Collapses!HideActives
<1>2. ASSUME NEW q \in Trio
      PROVE  /\ H(q).shape[q] \in Shapes /\ H(q).aria[q] \in BOOLEAN
             /\ H(q).ends[q] \in Seq(PanelEnds) /\ H(q).data[q] \in Objects
  <2>1. PluginHides(c, q, Collapses!PluginHide(c, q))
    BY PluginHideIs
  <2>2. /\ c.shape[q] \in Shapes /\ c.aria[q] \in BOOLEAN
        /\ c.ends[q] \in Seq(PanelEnds) /\ c.data[q] \in Objects
    BY DEF PanelStates
  <2> QED
    BY <2>1, <2>2 DEF PluginHides
<1>3. Collapses!NoData \in Objects
  BY DEF Collapses!NoData, Objects
<1> HIDE DEF e, H
<1>4. /\ shape \in [Trio -> Shapes] /\ aria \in [Trio -> BOOLEAN]
      /\ ends \in [Trio -> Seq(PanelEnds)] /\ data \in [Trio -> Objects]
  BY <1>2, <1>3
<1>5. \A q \in Trio : /\ shape[q] = H(q).shape[q] /\ aria[q] = H(q).aria[q]
                      /\ ends[q] = H(q).ends[q]
                      /\ data[q] = IF kept(q) THEN H(q).data[q] ELSE Collapses!NoData
  OBVIOUS
<1> HIDE DEF shape, aria, ends, data
<1>6. /\ e \in PanelStates /\ e.shape = shape /\ e.ends = ends /\ e.aria = aria
      /\ e.data = data /\ e.caret = c.caret /\ e.group = c.group /\ e.list = c.list
      /\ e.ignored = c.ignored /\ e.overtaken = c.overtaken
  BY <1>1, <1>4 DEF PanelStates
<1> QED
  BY <1>5, <1>6 DEF ActivesHidden, H, e

\* A resting panel that is open begins to close.
LEMMA CloseOK ==
    ASSUME NEW ends \in Seq(PanelEnds), NEW aria, NEW d, NEW x,
           PanelOK("in", ends, aria, d, x), NEW d2, d2.made
    PROVE  /\ ends = <<>> /\ Append(ends, "hide") # <<>>
           /\ PanelOK("collapsing", Append(ends, "hide"), FALSE, d2, x)
<1>1. ends = <<>>
  BY DEF PanelOK
<1>2. Append(<<>>, "hide") = <<"hide">>
  OBVIOUS
<1>3. PanelOK("collapsing", <<"hide">>, FALSE, d2, x)
  BY DEF PanelOK, Opens
<1>4. Append(ends, "hide") = <<"hide">> /\ <<"hide">> # <<>>
  BY <1>1, <1>2
<1> QED
  BY <1>1, <1>3, <1>4

\* One that is not open begins to open.
LEMMA OpenOK ==
    ASSUME NEW shape, NEW ends \in Seq(PanelEnds), NEW aria, NEW d, NEW x,
           PanelOK(shape, ends, aria, d, x), NEW d2, d2.made
    PROVE  PanelOK("collapsing", Append(ends, "show"), TRUE, d2, x)
<1> DEFINE after == Append(ends, "show")
<1>1. "show" \in PanelEnds
  BY DEF PanelEnds
<1>2. /\ after # <<>> /\ after[Len(after)] = "show" /\ Len(after) = Len(ends) + 1
      /\ \A i \in 1 .. Len(ends) : after[i] = ends[i]
  <2>1. after # <<>> /\ after[Len(after)] = "show"
    BY <1>1, Appended
  <2>2. Len(after) = Len(ends) + 1 /\ \A i \in 1 .. Len(ends) : after[i] = ends[i]
    BY <1>1, Lengthened
  <2> QED
    BY <2>1, <2>2
<1>3. Len(ends) \in Nat /\ (ends = <<>> => Len(ends) = 0)
  OBVIOUS
<1> HIDE DEF after
<1>4. ASSUME NEW i \in 2 .. Len(after) PROVE after[i] = "show"
  <2>1. CASE i = Len(after)
    BY <1>2, <2>1
  <2>2. CASE i # Len(after)
    <3>1. i \in 2 .. Len(ends) /\ i \in 1 .. Len(ends) /\ ends # <<>>
      BY <1>2, <1>3, <2>2
    <3> QED
      BY <1>2, <3>1 DEF PanelOK
  <2> QED
    BY <2>1, <2>2
<1>5. PanelOK("collapsing", after, TRUE, d2, x)
  BY <1>2, <1>4 DEF PanelOK, Opens
<1> QED
  BY <1>5 DEF after


\* A click of p through the object d, when all that moves is known to its object
\* where x says so.
Ready(b, p, d, x) ==
    /\ b \in PanelStates /\ d \in Objects /\ d.made /\ x \in BOOLEAN
    /\ \A q \in Trio : PanelOK(b.shape[q], b.ends[q], b.aria[q], b.data[q], x)
    /\ PanelOK(b.shape[p], b.ends[p], b.aria[p], d, x)
    /\ (\A q \in Trio : b.data[q].grouped => b.group) /\ (d.grouped => b.group)
    /\ x => /\ \A q \in Trio : b.ends[q] # <<>> => b.data[q].transitioning
            /\ b.ends[p] # <<>> => d.transitioning
    /\ ~b.group => x
    /\ b.group /\ x => OneOpens(b) /\ d.grouped

\* What it leaves.
Toggled(b, p, x, e) ==
    /\ e \in PanelStates /\ e.caret = b.caret /\ e.group = b.group /\ e.list = b.list
    /\ e.ignored = b.ignored /\ e.overtaken = b.overtaken
    /\ PanelsOK(e, x)
    /\ ~b.group => /\ \A q \in Trio \ {p} : e.aria[q] = b.aria[q]
                   /\ e.aria[p] = IF e.ends = b.ends THEN b.aria[p] ELSE ~b.aria[p]
    /\ b.group /\ x => OneOpens(e)

\* A click on an open panel hides it.
LEMMA ToggledOpen ==
    ASSUME NEW b, NEW p \in Trio, NEW d, NEW x, Ready(b, p, d, x), b.shape[p] = "in"
    PROVE  Toggled(b, p, x, Collapses!HidePanel(b, p, d))
<1> DEFINE e == Collapses!HidePanel(b, p, d)
<1>1. b \in PanelStates /\ d \in Objects /\ d.made
  BY DEF Ready
<1>2. HidesPanel(b, p, d, e)
  BY <1>1, PanelHideIs
<1>3. /\ b.ends[p] \in Seq(PanelEnds) /\ b.aria \in [Trio -> BOOLEAN]
      /\ b.ends \in [Trio -> Seq(PanelEnds)]
  BY <1>1 DEF PanelStates
<1>4. PanelOK("in", b.ends[p], b.aria[p], d, x)
  BY DEF Ready
<1>5. b.ends[p] = <<>> /\ ~d.transitioning
  BY <1>4 DEF PanelOK
<1> DEFINE moved == [d EXCEPT !.transitioning = TRUE]
<1>6. moved \in Objects /\ moved.made /\ moved.transitioning /\ moved.grouped = d.grouped
  BY <1>1 DEF Objects
<1> HIDE DEF e, moved
<1>7. /\ OthersStay(b, p, e) /\ e.shape[p] = "collapsing" /\ e.ends[p] = Append(b.ends[p], "hide")
      /\ e.aria[p] = FALSE /\ e.data[p] = moved
  BY <1>2, <1>5 DEF HidesPanel, moved
<1>8. /\ Append(b.ends[p], "hide") # <<>>
      /\ PanelOK("collapsing", Append(b.ends[p], "hide"), FALSE, moved, x)
  BY <1>3, <1>4, <1>6, CloseOK
<1>9. PanelsOK(e, x)
  <2>1. ASSUME NEW q \in Trio
        PROVE  /\ PanelOK(e.shape[q], e.ends[q], e.aria[q], e.data[q], x)
               /\ e.data[q].grouped => e.group
               /\ ~e.group => (e.ends[q] # <<>> => e.data[q].transitioning)
    <3>1. CASE q = p
      BY <1>6, <1>7, <1>8, <3>1 DEF OthersStay, Ready
    <3>2. CASE q # p
      BY <1>7, <3>2 DEF OthersStay, Ready
    <3> QED
      BY <3>1, <3>2
  <2> QED
    BY <2>1 DEF PanelsOK
<1>10. ~b.group => e.ends # b.ends /\ b.aria[p] = TRUE
  <2>1. e.ends[p] # b.ends[p]
    BY <1>5, <1>7, <1>8
  <2>2. x => b.aria[p] = TRUE
    BY <1>4, <1>5 DEF PanelOK, Opens
  <2> QED
    BY <2>1, <2>2 DEF Ready
<1>11. ~b.group => /\ \A q \in Trio \ {p} : e.aria[q] = b.aria[q]
                   /\ e.aria[p] = IF e.ends = b.ends THEN b.aria[p] ELSE ~b.aria[p]
  <2>1. \A q \in Trio \ {p} : e.aria[q] = b.aria[q]
    BY <1>7 DEF OthersStay
  <2> QED
    BY <1>7, <1>10, <2>1
<1>12. b.group /\ x => OneOpens(e)
  <2> SUFFICES ASSUME b.group, x PROVE OneOpens(e)
    OBVIOUS
  <2>1. OneOpens(b) /\ d.grouped
    BY DEF Ready
  <2>2. \A q \in Trio : e.data[q].made => e.data[q].grouped
    BY <1>6, <1>7, <2>1 DEF OthersStay, OneOpens
  <2>3. \A q \in Trio : e.aria[q] => b.aria[q]
    BY <1>7 DEF OthersStay
  <2> QED
    BY <2>1, <2>2, <2>3 DEF OneOpens
<1>13. Toggled(b, p, x, e)
  BY <1>7, <1>9, <1>11, <1>12 DEF OthersStay, Toggled
<1> QED
  BY <1>13 DEF e

\* The object of a panel that takes no notice.
LEMMA ToggledIgnored ==
    ASSUME NEW b, NEW p \in Trio, NEW d, NEW x, Ready(b, p, d, x)
    PROVE  Toggled(b, p, x, [b EXCEPT !.data[p] = d])
<1> DEFINE data == [b.data EXCEPT ![p] = d]
           e == [b EXCEPT !.data[p] = d]
<1>1. /\ b \in PanelStates /\ d \in Objects /\ b.data \in [Trio -> Objects]
      /\ b.aria \in [Trio -> BOOLEAN]
  BY DEF Ready, PanelStates
<1>2. e = [b EXCEPT !.data = data]
  BY <1>1 DEF PanelStates
<1>3. /\ data \in [Trio -> Objects] /\ data[p] = d
      /\ \A q \in Trio \ {p} : data[q] = b.data[q]
  BY <1>1
<1> HIDE DEF data, e
<1>4. /\ e \in PanelStates /\ e.shape = b.shape /\ e.ends = b.ends /\ e.aria = b.aria
      /\ e.data = data /\ e.caret = b.caret /\ e.group = b.group /\ e.list = b.list
      /\ e.ignored = b.ignored /\ e.overtaken = b.overtaken
  BY <1>1, <1>2, <1>3 DEF PanelStates
<1>5. ASSUME NEW q \in Trio
      PROVE  /\ PanelOK(e.shape[q], e.ends[q], e.aria[q], e.data[q], x)
             /\ e.data[q].grouped => e.group
             /\ ~e.group => (e.ends[q] # <<>> => e.data[q].transitioning)
  <2>1. CASE q = p
    BY <1>3, <1>4, <2>1 DEF Ready
  <2>2. CASE q # p
    BY <1>3, <1>4, <2>2 DEF Ready
  <2> QED
    BY <2>1, <2>2
<1>6. PanelsOK(e, x)
  BY <1>5 DEF PanelsOK
<1>7. b.group /\ x => OneOpens(e)
  <2> SUFFICES ASSUME b.group, x PROVE OneOpens(e)
    OBVIOUS
  <2>1. OneOpens(b) /\ d.grouped
    BY DEF Ready
  <2>2. \A q \in Trio : e.data[q].made => e.data[q].grouped
    BY <1>3, <1>4, <2>1 DEF OneOpens
  <2> QED
    BY <1>4, <2>1, <2>2 DEF OneOpens
<1>8. Toggled(b, p, x, e)
  BY <1>4, <1>6, <1>7 DEF Toggled
<1> QED
  BY <1>8 DEF e


\* The panels as they are before p begins to open.
Cleared(b, p, x, h) ==
    /\ h \in PanelStates /\ h.caret = b.caret /\ h.group = b.group /\ h.list = b.list
    /\ h.ignored = b.ignored /\ h.overtaken = b.overtaken /\ h.ends[p] = b.ends[p]
    /\ \A q \in Trio : PanelOK(h.shape[q], h.ends[q], h.aria[q], h.data[q], x)
    /\ \A q \in Trio : h.data[q].grouped => h.group
    /\ ~b.group => /\ \A q \in Trio : h.ends[q] # <<>> => h.data[q].transitioning
                   /\ h.aria = b.aria
    /\ b.group /\ x => \A q \in Trio : /\ h.data[q].made => h.data[q].grouped
                                       /\ q # p => ~h.aria[q]

\* A click on a closed panel opens it, those of its parent hidden before.
LEMMA ToggledClosed ==
    ASSUME NEW b, NEW p \in Trio, NEW d, NEW x, NEW h, NEW e, Ready(b, p, d, x),
           Cleared(b, p, x, h), ~d.transitioning, b.shape[p] # "in", Begins(h, p, d, e)
    PROVE  Toggled(b, p, x, e)
<1> DEFINE moved == [d EXCEPT !.transitioning = TRUE]
<1>1. b \in PanelStates /\ d \in Objects /\ d.made /\ h \in PanelStates
  BY DEF Ready, Cleared
<1>2. moved \in Objects /\ moved.made /\ moved.transitioning /\ moved.grouped = d.grouped
  BY <1>1 DEF Objects
<1> HIDE DEF moved
<1>3. /\ OthersStay(h, p, e) /\ e.shape[p] = "collapsing" /\ e.ends[p] = Append(h.ends[p], "show")
      /\ e.aria[p] = TRUE /\ e.data[p] = moved
  BY DEF Begins, moved
<1>4. h.ends[p] \in Seq(PanelEnds) /\ h.ends[p] = b.ends[p] /\ h.group = b.group
  BY <1>1 DEF PanelStates, Cleared
<1>5. PanelOK(h.shape[p], h.ends[p], h.aria[p], h.data[p], x)
  BY DEF Cleared
<1>6. PanelOK("collapsing", Append(h.ends[p], "show"), TRUE, moved, x)
  BY <1>2, <1>4, <1>5, OpenOK
<1>7. PanelsOK(e, x)
  <2>1. ASSUME NEW q \in Trio
        PROVE  /\ PanelOK(e.shape[q], e.ends[q], e.aria[q], e.data[q], x)
               /\ e.data[q].grouped => e.group
               /\ ~e.group => (e.ends[q] # <<>> => e.data[q].transitioning)
    <3>1. CASE q = p
      BY <1>2, <1>3, <1>4, <1>6, <3>1 DEF OthersStay, Ready
    <3>2. CASE q # p
      BY <1>3, <1>4, <3>2 DEF OthersStay, Cleared
    <3> QED
      BY <3>1, <3>2
  <2> QED
    BY <2>1 DEF PanelsOK
<1>8. ~b.group => /\ \A q \in Trio \ {p} : e.aria[q] = b.aria[q]
                  /\ e.aria[p] = IF e.ends = b.ends THEN b.aria[p] ELSE ~b.aria[p]
  <2> SUFFICES ASSUME ~b.group
               PROVE  /\ \A q \in Trio \ {p} : e.aria[q] = b.aria[q]
                      /\ e.aria[p] = IF e.ends = b.ends THEN b.aria[p] ELSE ~b.aria[p]
    OBVIOUS
  <2>1. \A q \in Trio \ {p} : e.aria[q] = b.aria[q]
    BY <1>3 DEF OthersStay, Cleared
  <2>2. e.ends # b.ends
    <3>1. Append(h.ends[p], "show") # h.ends[p]
      <4>1. \A s \in Seq(PanelEnds) : Append(s, "show") # s
        <5> SUFFICES ASSUME NEW s \in Seq(PanelEnds) PROVE Append(s, "show") # s
          OBVIOUS
        <5>1. Len(Append(s, "show")) = Len(s) + 1 /\ Len(s) \in Nat
          OBVIOUS
        <5> QED
          BY <5>1
      <4> QED
        BY <1>4, <4>1
    <3> QED
      BY <1>3, <1>4, <3>1
  <2>3. b.aria[p] = FALSE
    <3>1. b.ends[p] = <<>> /\ PanelOK(b.shape[p], b.ends[p], b.aria[p], d, TRUE)
      BY DEF Ready
    <3> QED
      BY <3>1 DEF PanelOK, Opens
  <2> QED
    BY <1>3, <2>1, <2>2, <2>3
<1>9. b.group /\ x => OneOpens(e)
  <2> SUFFICES ASSUME b.group, x PROVE OneOpens(e)
    OBVIOUS
  <2>1. d.grouped
    BY DEF Ready
  <2>2. \A q \in Trio : e.data[q].made => e.data[q].grouped
    BY <1>2, <1>3, <2>1 DEF OthersStay, Cleared
  <2>3. \A q \in Trio : e.aria[q] => q = p
    BY <1>3 DEF OthersStay, Cleared
  <2> QED
    BY <2>2, <2>3 DEF OneOpens
<1> QED
  BY <1>3, <1>7, <1>8, <1>9 DEF OthersStay, Cleared, Toggled

\* No other panel is open or moves, or none is the parent's concern.
LEMMA ClearedAlone ==
    ASSUME NEW b, NEW p \in Trio, NEW d, NEW x, Ready(b, p, d, x),
           ~(d.grouped /\ Collapses!Actives(b) # {})
    PROVE  Cleared(b, p, x, b)
<1>1. ASSUME b.group, x, NEW q \in Trio
      PROVE  (b.data[q].made => b.data[q].grouped) /\ ~b.aria[q]
  <2>1. d.grouped /\ OneOpens(b)
    BY <1>1 DEF Ready
  <2>2. b.shape[q] \notin {"in", "collapsing"}
    BY <2>1 DEF Collapses!Actives
  <2>3. PanelOK(b.shape[q], b.ends[q], b.aria[q], b.data[q], TRUE)
    BY <1>1 DEF Ready
  <2>4. ~b.aria[q]
    BY <2>2, <2>3 DEF PanelOK, Opens
  <2> QED
    BY <2>1, <2>4 DEF OneOpens
<1> QED
  BY <1>1 DEF Ready, Cleared

\* The others of the parent are hidden.
LEMMA ClearedOthers ==
    ASSUME NEW b, NEW p \in Trio, NEW d, NEW x, Ready(b, p, d, x), b.shape[p] # "in",
           d.grouped, Collapses!Actives(b) # {}, ~d.transitioning,
           ~Collapses!ActivesData(b).transitioning
    PROVE  Cleared(b, p, x, Collapses!HideActives(b))
<1> DEFINE h == Collapses!HideActives(b)
           A == Collapses!Actives(b)
<1>1. b \in PanelStates /\ b.group
  BY DEF Ready
<1>2. \A q \in Trio : b.data[q].transitioning => b.data[q].made
  BY DEF Ready, PanelOK
<1>3. ActivesHidden(b, h)
  BY <1>1, <1>2, HideActivesIs
<1> HIDE DEF h
<1>4. ASSUME NEW q \in Trio \ A
      PROVE  /\ h.shape[q] = b.shape[q] /\ h.ends[q] = b.ends[q] /\ h.aria[q] = b.aria[q]
             /\ h.data[q] = b.data[q]
  BY <1>3 DEF ActivesHidden
<1>5. ASSUME NEW q \in A
      PROVE  \E g : /\ PluginHides(b, q, g)
                    /\ h.shape[q] = g.shape[q] /\ h.ends[q] = g.ends[q] /\ h.aria[q] = g.aria[q]
                    /\ h.data[q] = IF Collapses!ActivesData(b).made THEN g.data[q]
                                   ELSE Collapses!NoData
  <2>1. q \in Trio
    BY DEF Collapses!Actives
  <2>2. PluginHides(b, q, Collapses!PluginHide(b, q))
    BY <1>1, <1>2, <2>1, PluginHideIs
  <2> QED
    BY <1>3, <2>1, <2>2 DEF ActivesHidden
<1>6. A \subseteq Trio /\ Collapses!Min(A) \in A /\ Collapses!ActivesData(b) = b.data[Collapses!Min(A)]
  BY FirstActive DEF Collapses!Actives, Collapses!ActivesData
<1> DEFINE first == Collapses!Min(A)
<1> HIDE DEF A
<1>7. PICK f \in A : Collapses!ActivesData(b) = b.data[f]
  BY <1>6
<1>8. \A q \in Trio : b.ends[q] \in Seq(PanelEnds) /\ b.data[q] \in Objects /\ b.aria[q] \in BOOLEAN
  BY <1>1 DEF PanelStates
<1>9. Collapses!NoData.transitioning = FALSE /\ Collapses!NoData.made = FALSE
      /\ Collapses!NoData.grouped = FALSE
  BY DEF Collapses!NoData
<1>10. ASSUME NEW q \in A
       PROVE  PanelOK(h.shape[q], h.ends[q], h.aria[q], h.data[q], x)
  <2>1. PICK g : /\ PluginHides(b, q, g)
                 /\ h.shape[q] = g.shape[q] /\ h.ends[q] = g.ends[q] /\ h.aria[q] = g.aria[q]
                 /\ h.data[q] = IF Collapses!ActivesData(b).made THEN g.data[q]
                                ELSE Collapses!NoData
    BY <1>5
  <2>2. PanelOK(b.shape[q], b.ends[q], b.aria[q], b.data[q], x) /\ q \in Trio
    BY <1>6 DEF Ready
  <2>3. CASE b.data[q].transitioning \/ b.shape[q] # "in"
    <3>1. /\ h.shape[q] = b.shape[q] /\ h.ends[q] = b.ends[q]
          /\ h.aria[q] = (b.data[q].made /\ b.aria[q])
          /\ h.data[q].transitioning => b.data[q].transitioning
          /\ h.data[q].transitioning => h.data[q].made
      BY <1>9, <2>1, <2>3 DEF PluginHides
    <3>2. x => h.aria[q] = b.aria[q]
      <4> SUFFICES ASSUME x PROVE h.aria[q] = b.aria[q]
        OBVIOUS
      <4>1. b.ends[q] # <<>>
        <5>1. b.shape[q] \in {"in", "collapsing"}
          BY DEF A, Collapses!Actives
        <5> QED
          BY <2>2, <2>3, <5>1 DEF PanelOK
      <4>2. b.data[q].made
        BY <1>2, <2>2, <4>1 DEF Ready
      <4> QED
        BY <1>8, <2>2, <3>1, <4>2
    <3> QED
      BY <2>2, <3>1, <3>2 DEF PanelOK
  <2>4. CASE ~(b.data[q].transitioning \/ b.shape[q] # "in")
    <3>1. /\ h.shape[q] = "collapsing" /\ h.ends[q] = Append(b.ends[q], "hide")
          /\ h.aria[q] = FALSE /\ g.data[q].made
      BY <2>1, <2>4 DEF PluginHides
    <3>2. /\ PanelOK("collapsing", Append(b.ends[q], "hide"), FALSE, g.data[q], x)
          /\ Append(b.ends[q], "hide") # <<>>
      BY <1>8, <2>2, <2>4, <3>1, CloseOK
    <3>3. PanelOK("collapsing", Append(b.ends[q], "hide"), FALSE, Collapses!NoData, x)
      BY <1>9, <3>2 DEF PanelOK
    <3> QED
      BY <2>1, <3>1, <3>2, <3>3
  <2> QED
    BY <2>3, <2>4
<1>11. \A q \in Trio : PanelOK(h.shape[q], h.ends[q], h.aria[q], h.data[q], x)
  BY <1>4, <1>10 DEF Ready
<1>12. h.ends[p] = b.ends[p]
  <2>1. ASSUME p \in A PROVE h.ends[p] = b.ends[p]
    BY <1>5, <2>1 DEF PluginHides
  <2> QED
    BY <1>4, <2>1
<1>13. ASSUME x, NEW q \in Trio
       PROVE  (h.data[q].made => h.data[q].grouped) /\ (q # p => ~h.aria[q])
  <2>1. OneOpens(b)
    BY <1>1, <1>13 DEF Ready
  <2>2. ASSUME NEW r \in A, b.data[r].transitioning = FALSE
        PROVE  b.shape[r] = "in" /\ b.aria[r]
    <3>1. PanelOK(b.shape[r], b.ends[r], b.aria[r], b.data[r], TRUE) /\ b.ends[r] = <<>>
      BY <1>6, <1>13, <2>2 DEF Ready
    <3>2. b.shape[r] \in {"in", "collapsing"}
      BY DEF A, Collapses!Actives
    <3> QED
      BY <3>1, <3>2 DEF PanelOK, Opens
  <2>3. f \in Trio /\ b.data[f].transitioning = FALSE
    BY <1>6, <1>7, <1>8 DEF Objects
  <2>4. b.shape[f] = "in" /\ b.aria[f]
    BY <2>2, <2>3
  <2>5. \A r \in Trio : b.aria[r] => r = f
    BY <2>1, <2>3, <2>4 DEF OneOpens
  <2>6. CASE q \in A
    <3>1. PICK g : /\ PluginHides(b, q, g)
                   /\ h.shape[q] = g.shape[q] /\ h.ends[q] = g.ends[q] /\ h.aria[q] = g.aria[q]
                   /\ h.data[q] = IF Collapses!ActivesData(b).made THEN g.data[q]
                                  ELSE Collapses!NoData
      BY <1>5, <2>6
    <3>2. CASE q = f
      <4>1. h.aria[q] = FALSE
        BY <2>3, <2>4, <3>1, <3>2 DEF PluginHides
      <4>2. b.data[q].made => b.data[q].grouped
        BY <2>1 DEF OneOpens
      <4>3. h.data[q].made => h.data[q].grouped
        BY <1>7, <1>9, <3>1, <3>2, <4>2 DEF PluginHides
      <4> QED
        BY <4>1, <4>3
    <3>3. CASE q # f
      <4>1. b.aria[q] = FALSE
        BY <1>8, <2>5, <3>3
      <4>2. b.data[q].transitioning
        BY <1>8, <2>2, <2>6, <4>1 DEF Objects
      <4>3. b.data[q].made /\ b.data[q].grouped
        BY <1>2, <2>1, <4>2 DEF OneOpens
      <4>4. h.aria[q] = FALSE
        BY <3>1, <4>1, <4>2 DEF PluginHides
      <4>5. h.data[q].made => h.data[q].grouped
        BY <1>9, <3>1, <4>3 DEF PluginHides
      <4> QED
        BY <4>4, <4>5
    <3> QED
      BY <3>2, <3>3
  <2>7. CASE q \notin A
    <3>1. b.aria[q] = FALSE
      BY <1>7, <1>8, <2>5, <2>7
    <3> QED
      BY <1>4, <2>1, <2>7, <3>1 DEF OneOpens
  <2> QED
    BY <2>6, <2>7
<1>14. Cleared(b, p, x, h)
  BY <1>1, <1>3, <1>11, <1>12, <1>13 DEF ActivesHidden, Cleared, Ready
<1> QED
  BY <1>14 DEF h


\* What a click changes, whatever the state of its panel and the others.
LEMMA ToggleIs ==
    ASSUME NEW b, NEW p \in Trio, NEW d, NEW x, Ready(b, p, d, x)
    PROVE  Toggled(b, p, x, Collapses!Toggle(b, p, d))
<1> DEFINE others == d.grouped /\ Collapses!Actives(b) # {}
           idle == others /\ Collapses!ActivesData(b).transitioning
           h == IF others THEN Collapses!HideActives(b) ELSE b
           e == [h EXCEPT !.shape[p] = "collapsing", !.aria[p] = TRUE,
                          !.data[p] = [d EXCEPT !.transitioning = TRUE],
                          !.ends[p] = Append(@, "show")]
<1>1. CASE b.shape[p] = "in"
  BY <1>1, ToggledOpen DEF Collapses!Toggle
<1>2. CASE b.shape[p] # "in" /\ (d.transitioning \/ idle)
  <2>1. Collapses!Toggle(b, p, d) = [b EXCEPT !.data[p] = d]
    BY <1>2, Zenon DEF Collapses!Toggle, Collapses!ShowPanel
  <2> QED
    BY <2>1, ToggledIgnored
<1>3. CASE b.shape[p] # "in" /\ ~d.transitioning /\ ~idle
  <2>1. Collapses!Toggle(b, p, d) = e
    BY <1>3, Zenon DEF Collapses!Toggle, Collapses!ShowPanel
  <2>2. Cleared(b, p, x, h)
    <3>1. CASE others
      BY <1>3, <3>1, ClearedOthers
    <3>2. CASE ~others
      BY <3>2, ClearedAlone
    <3> QED
      BY <3>1, <3>2
  <2> HIDE DEF h
  <2>3. Begins(h, p, d, e)
    BY <2>2, BeginIs DEF Cleared, Ready
  <2> HIDE DEF e
  <2> QED
    BY <1>3, <2>1, <2>2, <2>3, ToggledClosed
<1> QED
  BY <1>1, <1>2, <1>3

\* Whether the panels that move are known at a click of p.
Known(c, p) == ~(c.group /\ (c.overtaken \/ Collapses!Unaware(c, p)))

\* What a click finds: the object of p, or a new one that has seen the panels.
LEMMA ClickFinds ==
    ASSUME CollapseInv(page), NEW p \in Trio
    PROVE  \E b, d :
              /\ Ready(b, p, d, Known(page, p))
              /\ Collapses!ClickToggles(page, p) = Collapses!Toggle(b, p, d)
              /\ b.ends = page.ends /\ b.group = page.group /\ b.list = page.list
              /\ b.caret = page.caret /\ b.ignored = page.ignored /\ b.overtaken = page.overtaken
              /\ ~page.group => \A q \in Trio : b.aria[q] = page.aria[q]
<1> DEFINE x == Known(page, p)
<1>1. page \in PanelStates /\ PanelsOK(page, Exact(page)) /\ page.group \in BOOLEAN
  BY DEF CollapseInv, PanelStates
<1>2. x => Exact(page)
  BY DEF Known, Exact
<1>3. ASSUME x, NEW q \in Trio, page.ends[q] # <<>>
      PROVE  page.data[q].transitioning /\ (page.group => page.data[p].made)
  <2>1. CASE page.group
    <3>1. ~Collapses!Unaware(page, p)
      BY <1>3, <2>1 DEF Known
    <3>2. Collapses!Moving(page, q)
      BY <1>3 DEF Collapses!Moving
    <3> QED
      BY <3>1, <3>2 DEF Collapses!Unaware
  <2>2. CASE ~page.group
    BY <1>1, <1>3, <2>2 DEF PanelsOK
  <2> QED
    BY <2>1, <2>2
<1>4. \A q \in Trio : PanelOK(page.shape[q], page.ends[q], page.aria[q], page.data[q], x)
  BY <1>1, <1>2 DEF PanelsOK, PanelOK
<1>5. page.group /\ x => OneOpens(page)
  BY DEF CollapseInv, Known
<1>6. x \in BOOLEAN /\ (~page.group => x)
  BY DEF Known
<1>7. page.data \in [Trio -> Objects] /\ \A q \in Trio : page.data[q].grouped => page.group
  BY <1>1 DEF PanelStates, PanelsOK
<1> HIDE DEF x
<1>8. CASE page.data[p].made
  <2> DEFINE d == page.data[p]
  <2>1. Ready(page, p, d, x)
    BY <1>1, <1>3, <1>4, <1>5, <1>6, <1>7, <1>8 DEF Ready, OneOpens
  <2>2. Collapses!ClickToggles(page, p) = Collapses!Toggle(page, p, d)
    BY <1>8, Zenon DEF Collapses!ClickToggles
  <2> QED
    BY <2>1, <2>2 DEF x
<1>9. CASE ~page.data[p].made
  <2> DEFINE d == Collapses!Data(page.group)
             b == Collapses!Aligned(page, p, page.group)
  <2>1. d \in Objects /\ d.made = TRUE /\ d.transitioning = FALSE /\ d.grouped = page.group
    BY <1>1 DEF Collapses!Data, Objects
  <2>2. Collapses!ClickToggles(page, p) = Collapses!Toggle(b, p, d)
    BY <1>9, Zenon DEF Collapses!ClickToggles
  <2> HIDE DEF d, b
  <2>3. Realigned(page, p, page.group, b)
    BY <1>1, AlignedIs DEF b
  <2>4. page.data[p].transitioning = FALSE
    BY <1>4, <1>7, <1>9 DEF PanelOK, Objects
  <2>5. x => page.ends[p] = <<>>
    BY <1>3, <2>4
  <2>6. ASSUME x, NEW q \in Trio PROVE b.aria[q] = page.aria[q]
    <3>1. PanelOK(page.shape[q], page.ends[q], page.aria[q], page.data[q], TRUE)
      BY <1>4, <2>6
    <3>2. CASE page.ends[q] = <<>>
      <4>1. page.aria[q] = (page.shape[q] = "in")
        BY <3>1, <3>2 DEF PanelOK, Opens
      <4> QED
        BY <2>3, <4>1 DEF Realigned
    <3>3. CASE page.ends[q] # <<>>
      <4>1. ~page.group /\ q # p
        BY <1>3, <1>9, <2>5, <2>6, <3>3
      <4> QED
        BY <2>3, <4>1 DEF Realigned
    <3> QED
      BY <3>2, <3>3
  <2>7. /\ b \in PanelStates /\ b.shape = page.shape /\ b.ends = page.ends /\ b.data = page.data
        /\ b.group = page.group /\ b.list = page.list
        /\ b.caret = page.caret /\ b.ignored = page.ignored /\ b.overtaken = page.overtaken
    BY <2>3 DEF Realigned
  <2>8. \A q \in Trio : PanelOK(b.shape[q], b.ends[q], b.aria[q], b.data[q], x)
    <3> SUFFICES ASSUME NEW q \in Trio
                 PROVE  PanelOK(b.shape[q], b.ends[q], b.aria[q], b.data[q], x)
      OBVIOUS
    <3>1. CASE x
      BY <1>4, <2>6, <2>7, <3>1
    <3>2. CASE ~x
      <4>1. PanelOK(page.shape[q], page.ends[q], page.aria[q], page.data[q], x)
        BY <1>4
      <4> QED
        BY <2>7, <3>2, <4>1 DEF PanelOK
    <3> QED
      BY <3>1, <3>2
  <2>9. PanelOK(b.shape[p], b.ends[p], b.aria[p], d, x)
    BY <2>1, <2>8 DEF PanelOK
  <2>10. b.group /\ x => OneOpens(b)
    BY <1>5, <2>6, <2>7 DEF OneOpens
  <2>11. x => /\ \A q \in Trio : b.ends[q] # <<>> => b.data[q].transitioning
              /\ b.ends[p] # <<>> => d.transitioning
    BY <1>3, <2>5, <2>7
  <2>12. Ready(b, p, d, x)
    BY <1>6, <1>7, <2>1, <2>7, <2>8, <2>9, <2>10, <2>11 DEF Ready
  <2>13. ~page.group => \A q \in Trio : b.aria[q] = page.aria[q]
    BY <1>6, <2>6
  <2> QED
    BY <2>2, <2>7, <2>12, <2>13 DEF x
<1> QED
  BY <1>8, <1>9

\* A click keeps the invariant.
LEMMA PanelClickKeeps ==
    ASSUME CollapseInv(page), NEW p \in Trio, Collapses!Click(p)
    PROVE  CollapseInv(page')
<1> DEFINE e == Collapses!ClickToggles(page, p)
           x == Known(page, p)
           caret == [e.caret EXCEPT ![p] = Collapses!ToggleCaret(e.caret[p])]
           ignored == [e.ignored EXCEPT ![p] = IF e.ends = page.ends THEN ~e.ignored[p]
                                                ELSE e.ignored[p]]
           overtaken == e.overtaken \/ Collapses!Unaware(page, p)
           clicks == e.clicks + 1
<1>1. /\ page \in PanelStates /\ CaretsOK(page) /\ page.list \in BOOLEAN
      /\ page.caret \in [Trio -> {"down", "right"}] /\ page.ignored \in [Trio -> BOOLEAN]
      /\ page.aria \in [Trio -> BOOLEAN]
  BY DEF CollapseInv, PanelStates
<1>2. PICK b, d :
        /\ Ready(b, p, d, x) /\ e = Collapses!Toggle(b, p, d)
        /\ b.ends = page.ends /\ b.group = page.group /\ b.list = page.list
        /\ b.caret = page.caret /\ b.ignored = page.ignored /\ b.overtaken = page.overtaken
        /\ ~page.group => \A q \in Trio : b.aria[q] = page.aria[q]
  <2> HIDE DEF e, x
  <2> QED
    BY ClickFinds DEF e, x
<1>3. Toggled(b, p, x, e)
  BY <1>2, ToggleIs
<1> HIDE DEF e, x
<1>4. e \in PanelStates
  BY <1>3 DEF Toggled
<1>5. page' = [e EXCEPT !.caret = caret, !.clicks = clicks, !.ignored = ignored,
                        !.overtaken = overtaken]
  BY <1>4 DEF Collapses!Click, PanelStates, e
<1>6. /\ caret \in [Trio -> {"down", "right"}] /\ ignored \in [Trio -> BOOLEAN]
      /\ overtaken \in BOOLEAN /\ clicks \in Nat
  <2>1. /\ e.caret \in [Trio -> {"down", "right"}] /\ e.ignored \in [Trio -> BOOLEAN]
        /\ e.clicks \in Nat
    BY <1>4 DEF PanelStates
  <2>2. Collapses!ToggleCaret(e.caret[p]) \in {"down", "right"}
    BY DEF Collapses!ToggleCaret
  <2>3. overtaken \in BOOLEAN
    BY Zenon
  <2>4. caret \in [Trio -> {"down", "right"}]
    BY <2>1, <2>2
  <2>5. ignored \in [Trio -> BOOLEAN]
    <3> DEFINE flag == IF e.ends = page.ends THEN ~e.ignored[p] ELSE e.ignored[p]
    <3>1. flag \in BOOLEAN
      BY <2>1
    <3> HIDE DEF flag
    <3>2. [e.ignored EXCEPT ![p] = flag] \in [Trio -> BOOLEAN]
      BY <2>1, <3>1
    <3> QED
      BY <3>2 DEF flag
  <2> QED
    BY <2>1, <2>3, <2>4, <2>5
<1>7. /\ e.caret = page.caret /\ e.ignored = page.ignored /\ e.overtaken = page.overtaken
      /\ e.group = page.group /\ e.list = page.list
  BY <1>2, <1>3 DEF Toggled
<1>8. /\ caret[p] = Collapses!ToggleCaret(page.caret[p])
      /\ ignored[p] = IF e.ends = page.ends THEN ~page.ignored[p] ELSE page.ignored[p]
      /\ \A q \in Trio \ {p} : caret[q] = page.caret[q] /\ ignored[q] = page.ignored[q]
      /\ overtaken = (page.overtaken \/ Collapses!Unaware(page, p))
  BY <1>1, <1>7
<1> HIDE DEF caret, ignored, overtaken, clicks
<1>9. /\ page' \in PanelStates /\ page'.caret = caret /\ page'.ignored = ignored
      /\ page'.overtaken = overtaken /\ page'.group = page.group /\ page'.list = page.list
      /\ page'.shape = e.shape /\ page'.ends = e.ends /\ page'.aria = e.aria /\ page'.data = e.data
  BY <1>4, <1>5, <1>6, <1>7 DEF PanelStates
<1>10. Exact(page') = x
  BY <1>8, <1>9 DEF Exact, Known, x
<1>11. PanelsOK(page', Exact(page'))
  BY <1>3, <1>7, <1>9, <1>10 DEF Toggled, PanelsOK
<1>12. CaretsOK(page')
  <2> SUFFICES ASSUME ~page.group, NEW q \in Trio
               PROVE  (caret[q] = "down") = (e.aria[q] # (ignored[q] # page.list))
    BY <1>9 DEF CaretsOK
  <2>1. (page.caret[q] = "down") = (page.aria[q] # (page.ignored[q] # page.list))
    BY <1>1 DEF CaretsOK
  <2>2. /\ \A r \in Trio \ {p} : e.aria[r] = page.aria[r]
        /\ e.aria[p] = IF e.ends = page.ends THEN page.aria[p] ELSE ~page.aria[p]
    BY <1>2, <1>3 DEF Toggled
  <2>3. CASE q # p
    BY <1>8, <2>1, <2>2, <2>3
  <2>4. CASE q = p
    <3>1. page.caret[p] \in {"down", "right"}
      BY <1>1
    <3>2. (caret[p] = "down") = ~(page.caret[p] = "down")
      BY <1>8, <3>1 DEF Collapses!ToggleCaret
    <3>3. /\ page.aria[p] \in BOOLEAN /\ page.ignored[p] \in BOOLEAN /\ page.list \in BOOLEAN
      BY <1>1
    <3>4. CASE e.ends = page.ends
      <4>1. e.aria[p] = page.aria[p] /\ ignored[p] = ~page.ignored[p]
        BY <1>8, <2>2, <3>4
      <4>2. (page.ignored[p] # page.list) = ~(~page.ignored[p] # page.list)
        BY <3>3
      <4> HIDE DEF CaretsOK
      <4> QED
        BY <2>1, <2>4, <3>2, <3>3, <4>1, <4>2
    <3>5. CASE e.ends # page.ends
      <4>1. e.aria[p] = ~page.aria[p] /\ ignored[p] = page.ignored[p]
        BY <1>8, <2>2, <3>5
      <4> QED
        BY <2>1, <2>4, <3>2, <3>3, <4>1
    <3> QED
      BY <3>4, <3>5
  <2> QED
    BY <2>3, <2>4
<1>13. page'.group /\ ~page'.overtaken => OneOpens(page')
  <2>1. page'.group /\ ~page'.overtaken => b.group /\ x
    BY <1>2, <1>9, <1>10 DEF Exact
  <2> QED
    BY <1>3, <1>9, <2>1 DEF Toggled, OneOpens
<1> QED
  BY <1>9, <1>11, <1>12, <1>13 DEF CollapseInv

\* What the callbacks make of a panel that moves.
LEMMA EndsIn ==
    ASSUME NEW ends \in Seq(PanelEnds), ends # <<>>, \A i \in 2 .. Len(ends) : ends[i] = "show"
    PROVE  Collapses!FoldLeft(Collapses!Completed, "collapsing", ends)
              = IF ends[Len(ends)] = "show" THEN "in" ELSE "out"
<1> DEFINE N == Len(ends)
<1>1. N \in Nat \ {0} /\ DOMAIN ends = 1 .. N /\ N \in 1 .. N
  OBVIOUS
<1>2. \A y \in Shapes, n \in 1 .. N : Collapses!Completed(y, ends[n]) \in Shapes
  BY DEF Collapses!Completed, Shapes
<1>3. "collapsing" \in Shapes
  BY DEF Shapes
<1>4. CASE ends[N] = "show"
  <2>1. PICK y \in Shapes : Endings!Folded("collapsing", ends) = Collapses!Completed(y, ends[N])
    <3> HIDE DEF N
    <3> QED
      BY <1>1, <1>2, <1>3, Endings!FoldLast
  <2> QED
    BY <1>4, <2>1, EndingsFold DEF Collapses!Completed
<1>5. CASE ends[N] # "show"
  <2>1. N = 1 /\ DOMAIN ends = {1}
    BY <1>1, <1>5
  <2>2. Endings!Folded("collapsing", ends) = Collapses!Completed("collapsing", ends[1])
    <3>1. \A y \in Shapes : Collapses!Completed(y, ends[1]) \in Shapes
      BY DEF Collapses!Completed, Shapes
    <3> QED
      BY <1>3, <2>1, <3>1, Endings!FoldOnce
  <2> QED
    BY <1>5, <2>1, <2>2, EndingsFold DEF Collapses!Completed
<1> QED
  BY <1>4, <1>5

\* The end of a panel's transition keeps the invariant.
LEMMA CollapseEndKeeps ==
    ASSUME CollapseInv(page), NEW p \in Trio, Collapses!TransitionEnd(p)
    PROVE  CollapseInv(page')
<1> DEFINE final == Collapses!FoldLeft(Collapses!Completed, page.shape[p], page.ends[p])
           stopped == [page.data[p] EXCEPT !.transitioning = FALSE]
           shape == [page.shape EXCEPT ![p] = final]
           data == [page.data EXCEPT ![p] = stopped]
           ends == [page.ends EXCEPT ![p] = <<>>]
<1>1. /\ page \in PanelStates /\ PanelsOK(page, Exact(page)) /\ CaretsOK(page)
      /\ page.shape \in [Trio -> Shapes] /\ page.data \in [Trio -> Objects]
      /\ page.ends \in [Trio -> Seq(PanelEnds)]
  BY DEF CollapseInv, PanelStates
<1>2. PanelOK(page.shape[p], page.ends[p], page.aria[p], page.data[p], Exact(page))
  BY <1>1 DEF PanelsOK
<1>3. page.ends[p] # <<>> /\ page.ends[p] \in Seq(PanelEnds)
  BY <1>1 DEF Collapses!TransitionEnd, Collapses!Moving
<1>4. final = IF page.ends[p][Len(page.ends[p])] = "show" THEN "in" ELSE "out"
  BY <1>2, <1>3, EndsIn DEF PanelOK
<1>5. page' = [page EXCEPT !.shape = shape, !.data = data, !.ends = ends]
  BY <1>1 DEF Collapses!TransitionEnd, PanelStates
<1>6. /\ stopped \in Objects /\ stopped.transitioning = FALSE
      /\ stopped.made = page.data[p].made /\ stopped.grouped = page.data[p].grouped
  BY <1>1 DEF Objects
<1> HIDE DEF final, stopped
<1>7. /\ shape \in [Trio -> Shapes] /\ shape[p] = final
      /\ data \in [Trio -> Objects] /\ data[p] = stopped
      /\ ends \in [Trio -> Seq(PanelEnds)] /\ ends[p] = <<>>
      /\ \A q \in Trio \ {p} : /\ shape[q] = page.shape[q] /\ data[q] = page.data[q]
                               /\ ends[q] = page.ends[q]
  <2>1. final \in Shapes /\ <<>> \in Seq(PanelEnds)
    BY <1>4 DEF Shapes
  <2> QED
    BY <1>1, <1>6, <2>1
<1> HIDE DEF shape, data, ends
<1>8. /\ page' \in PanelStates /\ page'.shape = shape /\ page'.data = data /\ page'.ends = ends
      /\ page'.aria = page.aria /\ page'.caret = page.caret /\ page'.group = page.group
      /\ page'.list = page.list /\ page'.ignored = page.ignored /\ page'.overtaken = page.overtaken
  BY <1>1, <1>5, <1>7 DEF PanelStates
<1>9. Exact(page') = Exact(page)
  BY <1>8 DEF Exact
<1>10. PanelOK(final, <<>>, page.aria[p], stopped, Exact(page))
  BY <1>2, <1>3, <1>4, <1>6 DEF PanelOK, Opens
<1>11. PanelsOK(page', Exact(page'))
  <2>1. ASSUME NEW q \in Trio
        PROVE  /\ PanelOK(shape[q], ends[q], page.aria[q], data[q], Exact(page))
               /\ data[q].grouped => page.group
               /\ ~page.group => (ends[q] # <<>> => data[q].transitioning)
    <3>1. CASE q = p
      BY <1>1, <1>6, <1>7, <1>10, <3>1 DEF PanelsOK
    <3>2. CASE q # p
      BY <1>1, <1>7, <3>2 DEF PanelsOK
    <3> QED
      BY <3>1, <3>2
  <2> QED
    BY <1>8, <1>9, <2>1 DEF PanelsOK
<1>12. CaretsOK(page')
  BY <1>1, <1>8 DEF CaretsOK
<1>13. page'.group /\ ~page'.overtaken => OneOpens(page')
  <2> SUFFICES ASSUME page.group, ~page.overtaken PROVE OneOpens(page')
    BY <1>8
  <2>1. OneOpens(page)
    BY DEF CollapseInv
  <2>2. \A q \in Trio : data[q].made => data[q].grouped
    BY <1>6, <1>7, <2>1 DEF OneOpens
  <2> QED
    BY <1>8, <2>1, <2>2 DEF OneOpens
<1> QED
  BY <1>8, <1>11, <1>12, <1>13 DEF CollapseInv

\* Whatever happens keeps the invariant of the panels.
LEMMA CollapseKeeps ==
    ASSUME CollapseInv(page), Collapses!CollapseNext
    PROVE  CollapseInv(page')
BY PanelClickKeeps, CollapseEndKeeps DEF Collapses!CollapseNext, Collapses!CollapseRuns

\* The invariant of the panels has what the runs check of them.
LEMMA CollapseSafe ==
    ASSUME CollapseInv(page)
    PROVE  Collapses!CollapseAgrees /\ Collapses!CaretFollowsPanel /\ Collapses!OneOpenPanel
<1>1. page \in PanelStates /\ PanelsOK(page, Exact(page)) /\ CaretsOK(page)
  BY DEF CollapseInv
<1>2. ASSUME NEW p \in Trio, ~Collapses!Moving(page, p)
      PROVE  /\ page.shape[p] # "collapsing" /\ ~page.data[p].transitioning
             /\ Exact(page) => page.aria[p] = (page.shape[p] = "in")
  BY <1>1, <1>2 DEF PanelsOK, PanelOK, Opens, Collapses!Moving
<1>3. Collapses!CollapseAgrees
  BY <1>2 DEF Collapses!CollapseAgrees, Exact
<1>4. Collapses!CaretFollowsPanel
  <2> SUFFICES ASSUME ~page.group, NEW p \in Trio, ~Collapses!Moving(page, p)
               PROVE  (page.caret[p] = "down") =
                         ((page.shape[p] = "in") # (page.ignored[p] # page.list))
    BY DEF Collapses!CaretFollowsPanel
  <2>1. page.aria[p] = (page.shape[p] = "in")
    BY <1>2 DEF Exact
  <2>2. (page.caret[p] = "down") = (page.aria[p] # (page.ignored[p] # page.list))
    BY <1>1 DEF CaretsOK
  <2> QED
    BY <2>1, <2>2
<1>5. Collapses!OneOpenPanel
  <2> SUFFICES ASSUME page.group, Collapses!CollapseQuiet, ~page.overtaken
               PROVE  Cardinality(Collapses!Actives(page)) <= 1
    BY DEF Collapses!OneOpenPanel, Collapses!Cardinality, Cardinality
  <2>1. \A p \in Trio : ~Collapses!Moving(page, p)
    BY DEF Collapses!CollapseQuiet
  <2>2. \A p, q \in Collapses!Actives(page) : p = q
    <3> SUFFICES ASSUME NEW p \in Collapses!Actives(page), NEW q \in Collapses!Actives(page)
                 PROVE  p = q
      OBVIOUS
    <3>1. p \in Trio /\ q \in Trio /\ page.aria[p] /\ page.aria[q]
      BY <1>2, <2>1 DEF Collapses!Actives, Exact
    <3>2. OneOpens(page)
      BY DEF CollapseInv
    <3> QED
      BY <3>1, <3>2 DEF OneOpens
  <2> QED
    BY <2>2, AtMostOne
<1> QED
  BY <1>3, <1>4, <1>5

\* The invariant has the panels' type.
LEMMA CollapseTypes ==
    ASSUME CollapseInv(page)
    PROVE  Collapses!CollapseTypeOK
BY DEF CollapseInv, PanelStates, Shapes, PanelEnds, Objects, Collapses!CollapseTypeOK

(***************************************************************************)
(* What follows the scrolling.                                             *)
(***************************************************************************)
ScrollStates ==
    [height : 4 .. 9, first : Nat, top : 0 .. 9, known : [1 .. 2 -> Nat], knownHeight : Nat,
     section : 0 .. 2, fresh : BOOLEAN, affixed : {"null", "top", "no", "bottom"}, at : Int,
     checks : 0 .. 2, click : BOOLEAN, bar : BOOLEAN, events : Nat]

InPage(p) == p \in ScrollStates /\ p.top <= p.height - 2

\* The active link is that of the section at the top.
LinkInv(p) ==
    p.fresh => p.section = CASE p.top >= p.height - 2 -> 2
                             [] p.top < 2 -> 0
                             [] OTHER -> Scrolling!Max({s \in 1 .. 2 : Scrolling!Offsets(p)[s] <= p.top})

OnEdge(p) == p.top = 2 \/ p.top = p.height - 4
Belongs(p) ==
    IF p.top < 2 THEN "top" ELSE IF p.top + 2 > p.height - 2 THEN "bottom" ELSE "no"

\* A check may be one that leaves a place, for the window's top: the next one
\* finds where the element belongs.  What was pinned above the footer is not in
\* the header.
StickInv(p) ==
    /\ p.affixed = "bottom" => p.at >= 1 /\ p.at <= p.height - 4
    /\ p.checks > 0 => /\ p.affixed # "null"
                       /\ p.affixed = "top" => p.top <= 2
                       /\ p.affixed = "bottom" => p.at = p.height - 4 /\ p.top >= 2
    /\ p.checks = 2 /\ ~OnEdge(p) => p.affixed = Belongs(p)

BarInv(p) == p.top # 2 => p.bar = (p.top > 2)

ScrollInv(p) == InPage(p) /\ LinkInv(p) /\ StickInv(p) /\ BarInv(p)

\* Where the sections begin.
LEMMA OffsetsAre ==
    ASSUME NEW p \in ScrollStates
    PROVE  /\ Scrolling!Offsets(p) = [s \in 1 .. 2 |-> IF s = 1 THEN 2 ELSE 2 + p.first]
           /\ Scrolling!Offsets(p) \in [1 .. 2 -> Nat]
<1>1. Scrolling!Offsets(p) = [s \in 1 .. 2 |-> IF s = 1 THEN 2 ELSE 2 + p.first]
  BY DEF Scrolling!Offsets, Scrolling!Sections
<1>2. 2 + p.first \in Nat /\ 2 \in Nat
  BY DEF ScrollStates
<1> QED
  BY <1>1, <1>2

\* Of the sections passed there is a last one.
LEMMA LastPassed ==
    ASSUME NEW passed \in SUBSET (1 .. 2), passed # {}
    PROVE  Scrolling!Max(passed) \in 1 .. 2
<1>1. \E m \in passed : \A n \in passed : m >= n
  <2>1. CASE 2 \in passed
    BY <2>1
  <2>2. CASE 2 \notin passed
    <3>1. \A n \in passed : n = 1
      BY <2>2
    <3>2. 1 \in passed
      BY <3>1
    <3> QED
      BY <3>1, <3>2
  <2> QED
    BY <2>1, <2>2
<1>2. Scrolling!Max(passed) \in passed
  BY <1>1, Zenon DEF Scrolling!Max
<1> QED
  BY <1>2

\* Where the element, the page and the bar are is not of the links' concern.
SamePlace(p, q) ==
    q.height = p.height /\ q.first = p.first /\ q.top = p.top
SameLink(p, q) == SamePlace(p, q) /\ q.section = p.section /\ q.fresh = p.fresh
SameElement(p, q) ==
    SamePlace(p, q) /\ q.affixed = p.affixed /\ q.at = p.at /\ q.checks = p.checks
SameBar(p, q) == SamePlace(p, q) /\ q.bar = p.bar

\* What concerns the link, the element or the bar depends on that part of the page.
LEMMA SameKeeps ==
    ASSUME NEW p, NEW q \in ScrollStates
    PROVE  /\ LinkInv(p) /\ SameLink(p, q) => LinkInv(q)
           /\ StickInv(p) /\ SameElement(p, q) => StickInv(q)
           /\ BarInv(p) /\ SameBar(p, q) => BarInv(q)
<1>1. SamePlace(p, q) => Scrolling!Offsets(p) = Scrolling!Offsets(q)
  BY DEF SamePlace, Scrolling!Offsets
<1>2. LinkInv(p) /\ SameLink(p, q) => LinkInv(q)
  BY <1>1 DEF LinkInv, SameLink, SamePlace
<1>3. StickInv(p) /\ SameElement(p, q) => StickInv(q)
  BY DEF StickInv, SameElement, SamePlace, OnEdge, Belongs
<1>4. BarInv(p) /\ SameBar(p, q) => BarInv(q)
  BY DEF BarInv, SameBar, SamePlace
<1> QED
  BY <1>2, <1>3, <1>4

\* Following the scrolling makes the link the section's, and leaves the element and the
\* bar alone.
LEMMA ProcessIs ==
    ASSUME NEW p, InPage(p), NEW q, q = Scrolling!Process(p)
    PROVE  InPage(q) /\ LinkInv(q) /\ SameElement(p, q) /\ SameBar(p, q)
<1> DEFINE passed == {s \in 1 .. 2 : p.known[s] <= p.top}
           section == IF p.top >= p.height - 2 THEN 2
                      ELSE IF p.section # 0 /\ p.top < p.known[1] THEN 0
                      ELSE IF passed = {} THEN p.section ELSE Scrolling!Max(passed)
           fresh == p.known = Scrolling!Offsets(p)
           known == IF p.knownHeight # p.height THEN Scrolling!Offsets(p) ELSE p.known
<1>1. p \in ScrollStates
  BY DEF InPage
<1>2. Scrolling!SectionAt(p, p.known) = section
  BY DEF Scrolling!SectionAt, Scrolling!MaxScroll, Scrolling!Highest, Scrolling!Lowest,
         Scrolling!Sections
<1>3. q = [p EXCEPT !.section = section, !.fresh = fresh, !.known = known, !.knownHeight = p.height]
  BY <1>1, <1>2 DEF Scrolling!Process, ScrollStates
<1>4. section \in 0 .. 2 /\ fresh \in BOOLEAN /\ known \in [1 .. 2 -> Nat] /\ p.height \in Nat
  <2>1. p.section \in 0 .. 2 /\ p.known \in [1 .. 2 -> Nat] /\ p.height \in 4 .. 9
    BY <1>1 DEF ScrollStates
  <2>2. passed # {} => Scrolling!Max(passed) \in 0 .. 2
    BY LastPassed
  <2> HIDE DEF passed
  <2> QED
    BY <1>1, <2>1, <2>2, OffsetsAre
<1> HIDE DEF section, fresh, known
<1>5. q \in ScrollStates
  BY <1>1, <1>3, <1>4 DEF ScrollStates
<1>6. SamePlace(p, q) /\ q.section = section /\ q.fresh = fresh
  BY <1>1, <1>3 DEF ScrollStates, SamePlace
<1>7. SameElement(p, q) /\ SameBar(p, q)
  BY <1>1, <1>3, <1>6 DEF ScrollStates, SameElement, SameBar
<1>8. InPage(q)
  BY <1>5, <1>6 DEF InPage, SamePlace
<1>9. LinkInv(q)
  <2> SUFFICES ASSUME fresh PROVE LinkInv(q)
    BY <1>6 DEF LinkInv
  <2>1. p.known = Scrolling!Offsets(p) /\ Scrolling!Offsets(q) = Scrolling!Offsets(p)
    BY <1>6 DEF fresh, SamePlace, Scrolling!Offsets
  <2>2. p.known[1] = 2 /\ p.known[2] = 2 + p.first /\ p.first \in Nat
    BY <1>1, <2>1, OffsetsAre DEF ScrollStates
  <2>3. passed = {s \in 1 .. 2 : Scrolling!Offsets(q)[s] <= q.top} /\ q.top = p.top /\ q.height = p.height
    BY <1>6, <2>1 DEF SamePlace
  <2>4. p.top \in 0 .. 9 /\ p.height \in 4 .. 9 /\ p.section \in 0 .. 2
    BY <1>1 DEF ScrollStates
  <2>5. p.top < 2 => passed = {}
    <3> SUFFICES ASSUME p.top < 2, NEW s \in 1 .. 2, p.known[s] <= p.top PROVE FALSE
      OBVIOUS
    <3>1. s = 1 \/ s = 2
      OBVIOUS
    <3> QED
      BY <2>2, <2>4, <3>1
  <2>6. p.top >= 2 => passed # {}
    <3>1. p.top >= 2 => 1 \in passed
      BY <2>2, <2>4
    <3> QED
      BY <3>1
  <2> HIDE DEF passed
  <2> QED
    BY <1>6, <2>2, <2>3, <2>4, <2>5, <2>6 DEF LinkInv, section
<1> QED
  BY <1>7, <1>8, <1>9

\* A check finds where the element belongs if one was made before it; the first
\* leaves a state from which it is found.
LEMMA CheckIs ==
    ASSUME NEW p, InPage(p), StickInv(p), NEW q, q = Scrolling!CheckPosition(p)
    PROVE  InPage(q) /\ StickInv(q) /\ SameLink(p, q) /\ SameBar(p, q)
<1> DEFINE affixed == Scrolling!AffixState(p)
           at == IF affixed = "bottom" THEN p.height - 4 ELSE p.at
           checks == IF p.checks = 2 THEN 2 ELSE p.checks + 1
<1>1. p \in ScrollStates /\ p.top <= p.height - 2
  BY DEF InPage
<1>2. /\ p.height \in 4 .. 9 /\ p.top \in 0 .. 9 /\ p.at \in Int /\ p.checks \in 0 .. 2
      /\ p.affixed \in {"null", "top", "no", "bottom"}
  BY <1>1 DEF ScrollStates
<1>3. affixed = CASE p.affixed = "top" -> IF p.top < 2 THEN "top" ELSE "no"
                  [] p.affixed = "bottom" -> IF p.top <= p.at THEN "no" ELSE "bottom"
                  [] OTHER -> IF p.top <= 2 THEN "top"
                              ELSE IF p.top + 2 >= p.height - 2 THEN "bottom" ELSE "no"
  <2>1. Scrolling!Bottom(p) = p.height - 2
    BY DEF Scrolling!Bottom
  <2>2. /\ p.affixed = "no" => Scrolling!Position(p) = p.top
        /\ p.affixed = "bottom" => Scrolling!Position(p) = p.at
    BY DEF Scrolling!Position
  <2>3. CASE p.affixed = "top"
    BY <2>3 DEF Scrolling!AffixState
  <2>4. CASE p.affixed = "bottom"
    BY <2>2, <2>4 DEF Scrolling!AffixState
  <2>5. CASE p.affixed = "no"
    BY <2>1, <2>2, <2>5 DEF Scrolling!AffixState
  <2>6. CASE p.affixed = "null"
    BY <2>1, <2>6 DEF Scrolling!AffixState
  <2> QED
    BY <1>2, <2>3, <2>4, <2>5, <2>6
<1>4. q = [p EXCEPT !.affixed = affixed, !.at = at, !.checks = checks]
  <2>1. Scrolling!Bottom(p) - 2 = p.height - 4
    BY <1>2 DEF Scrolling!Bottom
  <2> QED
    BY <1>1, <2>1 DEF Scrolling!CheckPosition, ScrollStates
<1> HIDE DEF affixed
<1>5. affixed \in {"top", "no", "bottom"}
  BY <1>2, <1>3
<1>6. at \in Int /\ checks \in 1 .. 2 /\ checks \in 0 .. 2
  BY <1>2
<1>7. checks = 2 => p.checks > 0
  BY <1>2
<1>8. affixed = "bottom" => at = p.height - 4
  OBVIOUS
<1> HIDE DEF at, checks
<1>9. /\ q \in ScrollStates /\ q.affixed = affixed /\ q.at = at /\ q.checks = checks
      /\ q.height = p.height /\ q.top = p.top
  BY <1>1, <1>4, <1>5, <1>6 DEF ScrollStates
<1>10. SameLink(p, q) /\ SameBar(p, q)
  BY <1>1, <1>4 DEF ScrollStates, SameLink, SameBar, SamePlace
<1>11. affixed = "bottom" => p.height >= 5 /\ p.top >= 2
  <2>1. CASE p.affixed = "bottom"
    <3>1. p.at >= 1 /\ p.at <= p.height - 4
      BY <2>1 DEF StickInv
    <3> QED
      BY <1>2, <1>3, <2>1, <3>1
  <2>2. CASE p.affixed # "bottom"
    <3>1. affixed = "bottom" => ~(p.top <= 2)
      BY <1>2, <1>3, <2>2
    <3> QED
      BY <1>1, <1>2, <3>1
  <2> QED
    BY <2>1, <2>2
<1>12. affixed = "top" => p.top <= 2
  BY <1>2, <1>3
<1>13. p.checks > 0 /\ ~OnEdge(p) => affixed = Belongs(p)
  <2> SUFFICES ASSUME p.checks > 0, p.top # 2, p.top # p.height - 4 PROVE affixed = Belongs(p)
    BY DEF OnEdge
  <2>1. /\ p.affixed # "null"
        /\ p.affixed = "top" => p.top <= 2
        /\ p.affixed = "bottom" => p.at = p.height - 4 /\ p.top >= 2
    BY DEF StickInv
  <2>2. CASE p.top < 2
    <3>1. Belongs(p) = "top"
      BY <2>2 DEF Belongs
    <3>2. p.affixed \in {"top", "no"} /\ p.top <= 2
      BY <1>2, <2>1, <2>2
    <3> QED
      BY <1>3, <2>2, <3>1, <3>2
  <2>3. CASE p.top > 2 /\ p.top > p.height - 4
    <3>1. Belongs(p) = "bottom"
      BY <1>2, <2>3 DEF Belongs
    <3>2. p.affixed \in {"bottom", "no"} /\ ~(p.top <= 2) /\ p.top + 2 >= p.height - 2
      BY <1>2, <2>1, <2>3
    <3>3. p.affixed = "bottom" => ~(p.top <= p.at)
      BY <1>2, <2>1, <2>3
    <3> QED
      BY <1>3, <3>1, <3>2, <3>3
  <2>4. CASE p.top > 2 /\ p.top < p.height - 4
    <3>1. Belongs(p) = "no"
      BY <1>2, <2>4 DEF Belongs
    <3>2. p.affixed \in {"bottom", "no"} /\ ~(p.top <= 2) /\ ~(p.top + 2 >= p.height - 2)
      BY <1>2, <2>1, <2>4
    <3>3. p.affixed = "bottom" => p.top <= p.at
      BY <1>2, <2>1, <2>4
    <3> QED
      BY <1>3, <3>1, <3>2, <3>3
  <2> QED
    BY <1>2, <2>2, <2>3, <2>4
<1>14. StickInv(q)
  BY <1>2, <1>5, <1>6, <1>7, <1>8, <1>9, <1>11, <1>12, <1>13 DEF StickInv, OnEdge, Belongs
<1>15. InPage(q)
  BY <1>1, <1>9 DEF InPage
<1> QED
  BY <1>10, <1>14, <1>15

\* Moving the bar puts it in its place, and leaves the link and the element alone.
LEMMA MoveBarIs ==
    ASSUME NEW p, InPage(p), NEW q, q = Scrolling!MoveBar(p)
    PROVE  InPage(q) /\ BarInv(q) /\ SameLink(p, q) /\ SameElement(p, q)
<1> DEFINE bar == IF p.top > 2 THEN TRUE ELSE IF p.top < 2 THEN FALSE ELSE p.bar
<1>1. p \in ScrollStates /\ p.top <= p.height - 2 /\ p.top \in 0 .. 9 /\ bar \in BOOLEAN
  BY DEF InPage, ScrollStates
<1>2. q = [p EXCEPT !.bar = bar]
  BY <1>1 DEF Scrolling!MoveBar, ScrollStates
<1>3. p.top # 2 => bar = (p.top > 2)
  <2>1. p.top > 2 => bar = TRUE
    OBVIOUS
  <2>2. p.top < 2 => bar = FALSE /\ ~(p.top > 2)
    BY <1>1
  <2> HIDE DEF bar
  <2> QED
    BY <1>1, <2>1, <2>2
<1> HIDE DEF bar
<1>4. q \in ScrollStates /\ q.bar = bar /\ SamePlace(p, q)
  BY <1>1, <1>2 DEF ScrollStates, SamePlace
<1>5. SameLink(p, q) /\ SameElement(p, q)
  BY <1>1, <1>2, <1>4 DEF ScrollStates, SameLink, SameElement
<1>6. InPage(q) /\ BarInv(q)
  BY <1>1, <1>3, <1>4 DEF InPage, BarInv, SamePlace
<1> QED
  BY <1>5, <1>6

\* After all listeners of a scroll event the page is in the invariant.
LEMMA ListenersKeep ==
    ASSUME NEW p, InPage(p), StickInv(p)
    PROVE  ScrollInv(Scrolling!Listeners(p))
<1> DEFINE processed == Scrolling!Process(p)
           checked == Scrolling!CheckPosition(processed)
           moved == Scrolling!MoveBar(checked)
<1>1. Scrolling!Listeners(p) = moved
  BY DEF Scrolling!Listeners
<1> HIDE DEF moved
<1>2. InPage(processed) /\ LinkInv(processed) /\ SameElement(p, processed)
  BY ProcessIs
<1> HIDE DEF processed
<1>3. StickInv(processed)
  BY <1>2, SameKeeps DEF InPage
<1>4. InPage(checked) /\ StickInv(checked) /\ SameLink(processed, checked)
  BY <1>2, <1>3, CheckIs
<1> HIDE DEF checked
<1>5. LinkInv(checked)
  BY <1>2, <1>4, SameKeeps DEF InPage
<1>6. InPage(moved) /\ BarInv(moved) /\ SameLink(checked, moved) /\ SameElement(checked, moved)
  BY <1>4, MoveBarIs DEF moved
<1>7. LinkInv(moved) /\ StickInv(moved)
  BY <1>4, <1>5, <1>6, SameKeeps DEF InPage
<1> QED
  BY <1>1, <1>6, <1>7 DEF ScrollInv

\* A page begins in the invariant of what follows the scrolling.
LEMMA ScrollStarts ==
    ASSUME Scrolling!ScrollSpyInit
    PROVE  ScrollInv(page)
<1> DEFINE zeros == <<0, 0>>
           Loaded(height, top) ==
             [height |-> height, first |-> 2, top |-> top,
              known |-> zeros, knownHeight |-> height, section |-> 0,
              fresh |-> TRUE, affixed |-> "null", at |-> 0, checks |-> 0,
              click |-> FALSE, bar |-> FALSE, events |-> 0]
<1>1. PICK height \in 2 + 2 .. 9, top \in 0 .. 9 :
        /\ top <= Scrolling!MaxScroll(Loaded(height, top))
        /\ page = Scrolling!Listeners([Loaded(height, top) EXCEPT
                                          !.known = Scrolling!Offsets(Loaded(height, top))])
  BY Zenon DEF Scrolling!ScrollSpyInit
<1> DEFINE loaded == Loaded(height, top)
           known == Scrolling!Offsets(loaded)
           p == [loaded EXCEPT !.known = known]
<1>2. known \in [1 .. 2 -> Nat] /\ height \in 4 .. 9
  BY DEF Scrolling!Offsets, Scrolling!Sections
<1>3. page = Scrolling!Listeners(p) /\ top <= height - 2
  BY <1>1 DEF Scrolling!MaxScroll
<1>6. loaded \in ScrollStates /\ loaded.top = top /\ loaded.height = height /\ loaded.checks = 0
      /\ loaded.affixed = "null"
  <2>1. zeros \in [1 .. 2 -> Nat]
    OBVIOUS
  <2> HIDE DEF zeros
  <2> QED
    BY <1>2, <2>1 DEF ScrollStates
<1> HIDE DEF known, loaded
<1>4. /\ p \in ScrollStates /\ p.top = top /\ p.height = height /\ p.checks = 0
      /\ p.affixed = "null"
  BY <1>2, <1>6 DEF ScrollStates
<1> HIDE DEF p
<1>5. InPage(p) /\ StickInv(p)
  BY <1>3, <1>4 DEF InPage, StickInv
<1> QED
  BY <1>3, <1>5, ListenersKeep

\* Counting an event keeps the invariant.
LEMMA HappensKeeps ==
    ASSUME NEW p, ScrollInv(p), Scrolling!Happens(p)
    PROVE  ScrollInv(page')
<1> DEFINE events == p.events + 1
<1>1. p \in ScrollStates /\ events \in Nat /\ page' = [p EXCEPT !.events = events]
  BY DEF ScrollInv, InPage, ScrollStates, Scrolling!Happens
<1> HIDE DEF events
<1>2. page' \in ScrollStates
  BY <1>1 DEF ScrollStates
<1>3. SameLink(p, page') /\ SameElement(p, page') /\ SameBar(p, page')
  BY <1>1 DEF ScrollStates, SameLink, SameElement, SameBar, SamePlace
<1>4. InPage(page')
  BY <1>2, <1>3 DEF InPage, ScrollInv, SameLink, SamePlace
<1> QED
  BY <1>2, <1>3, <1>4, SameKeeps DEF ScrollInv

\* Scrolling keeps the invariant.
LEMMA ScrollKeeps ==
    ASSUME ScrollInv(page), NEW row \in 0 .. 9, Scrolling!Scroll(row)
    PROVE  ScrollInv(page')
<1> DEFINE checks == IF row = page.top THEN page.checks ELSE 0
           p == [page EXCEPT !.top = row, !.checks = checks]
<1>1. /\ page \in ScrollStates /\ row <= page.height - 2 /\ checks \in 0 .. 2
      /\ Scrolling!Happens(Scrolling!Listeners(p))
  BY DEF ScrollInv, InPage, ScrollStates, Scrolling!Scroll, Scrolling!MaxScroll
<1>2. /\ p \in ScrollStates /\ p.top = row /\ p.height = page.height /\ p.checks = checks
      /\ p.affixed = page.affixed /\ p.at = page.at
  <2> HIDE DEF checks
  <2> QED
    BY <1>1 DEF ScrollStates
<1> HIDE DEF p
<1>3. InPage(p)
  BY <1>1, <1>2 DEF InPage
<1>4. StickInv(p)
  BY <1>1, <1>2 DEF StickInv, OnEdge, Belongs, ScrollInv
<1> QED
  BY <1>1, <1>3, <1>4, ListenersKeep, HappensKeeps

\* A page that grows keeps the invariant.
LEMMA GrowKeeps ==
    ASSUME ScrollInv(page), Scrolling!Grow
    PROVE  ScrollInv(page')
<1> DEFINE height == page.height + 1
           first == page.first + 1
           p == [page EXCEPT !.height = height, !.first = first, !.checks = 0, !.fresh = FALSE]
<1>1. page \in ScrollStates /\ page.top <= page.height - 2 /\ height \in 4 .. 9 /\ first \in Nat
  BY DEF ScrollInv, InPage, ScrollStates, Scrolling!Grow
<1>2. Scrolling!Happens(p)
  BY <1>1 DEF Scrolling!Grow, ScrollStates
<1>3. page.height \in 4 .. 9 /\ page.top \in 0 .. 9 /\ page.height <= height
  BY <1>1 DEF ScrollStates
<1> HIDE DEF height, first
<1>7. p \in ScrollStates
  <2>1. 0 \in 0 .. 2 /\ FALSE \in BOOLEAN
    OBVIOUS
  <2> QED
    BY <1>1, <2>1 DEF ScrollStates
<1>4. /\ p.top = page.top /\ p.height = height /\ p.checks = 0
      /\ p.affixed = page.affixed /\ p.at = page.at /\ p.fresh = FALSE /\ p.bar = page.bar
  BY <1>1 DEF ScrollStates
<1> HIDE DEF p
<1>5. p.top <= p.height - 2
  BY <1>1, <1>3, <1>4
<1>6. ScrollInv(p)
  <2>1. p.at \in Int /\ height \in Int
    BY <1>1, <1>7 DEF ScrollStates
  <2>2. StickInv(p)
    BY <1>3, <1>4, <2>1 DEF ScrollInv, StickInv
  <2>3. InPage(p) /\ LinkInv(p) /\ BarInv(p)
    BY <1>4, <1>5, <1>7 DEF ScrollInv, InPage, LinkInv, BarInv
  <2> QED
    BY <2>2, <2>3 DEF ScrollInv
<1> QED
  BY <1>2, <1>6, HappensKeeps

\* A click, and what is done a moment after it, keeps the invariant.
LEMMA ClicksKeep ==
    ASSUME ScrollInv(page), Scrolling!Click \/ Scrolling!AfterClick
    PROVE  ScrollInv(page')
<1>1. ASSUME NEW click \in BOOLEAN PROVE ScrollInv([page EXCEPT !.click = click])
  <2> DEFINE p == [page EXCEPT !.click = click]
  <2>1. page \in ScrollStates
    BY DEF ScrollInv, InPage
  <2>2. p \in ScrollStates
    BY <2>1 DEF ScrollStates
  <2>3. SameLink(page, p) /\ SameElement(page, p) /\ SameBar(page, p)
    BY <2>1 DEF ScrollStates, SameLink, SameElement, SameBar, SamePlace
  <2> HIDE DEF p
  <2>4. InPage(p)
    BY <2>2, <2>3 DEF InPage, ScrollInv, SameLink, SamePlace
  <2>5. ScrollInv(p)
    BY <2>2, <2>3, <2>4, SameKeeps DEF ScrollInv
  <2> QED
    BY <2>5 DEF p
<1>2. CASE Scrolling!Click
  BY <1>1, <1>2, HappensKeeps DEF Scrolling!Click
<1>3. CASE Scrolling!AfterClick
  <2> DEFINE p == [page EXCEPT !.click = FALSE]
  <2>1. page' = Scrolling!CheckPosition(p)
    BY <1>3 DEF Scrolling!AfterClick
  <2>2. ScrollInv(p)
    BY <1>1
  <2> HIDE DEF p
  <2>3. InPage(page') /\ StickInv(page') /\ SameLink(p, page') /\ SameBar(p, page')
    BY <2>1, <2>2, CheckIs DEF ScrollInv
  <2>4. LinkInv(page') /\ BarInv(page')
    BY <2>2, <2>3, SameKeeps DEF ScrollInv, InPage
  <2> QED
    BY <2>3, <2>4 DEF ScrollInv
<1> QED
  BY <1>2, <1>3

\* Whatever happens keeps the invariant of what follows the scrolling.
LEMMA ScrollingKeeps ==
    ASSUME ScrollInv(page), Scrolling!ScrollSpyNext
    PROVE  ScrollInv(page')
BY ScrollKeeps, GrowKeeps, ClicksKeep DEF Scrolling!ScrollSpyNext, Scrolling!ScrollSpyRuns

\* The invariant has what the runs check of what follows the scrolling.
LEMMA ScrollingSafe ==
    ASSUME ScrollInv(page)
    PROVE  /\ Scrolling!LinkFollowsSection /\ Scrolling!ElementSticks /\ Scrolling!BarSticks
           /\ Scrolling!ScrollSpyTypeOK
<1>1. page \in ScrollStates /\ page.height \in 4 .. 9 /\ page.top \in 0 .. 9 /\ page.checks \in 0 .. 2
  BY DEF ScrollInv, InPage, ScrollStates
<1>2. Scrolling!LinkFollowsSection
  BY DEF ScrollInv, LinkInv, Scrolling!LinkFollowsSection, Scrolling!MaxScroll, Scrolling!Highest,
         Scrolling!Sections
<1>3. Scrolling!ElementSticks
  <2>1. Scrolling!Bottom(page) = page.height - 2
    BY DEF Scrolling!Bottom
  <2> SUFFICES ASSUME page.checks = 2, page.top # 2, page.top # page.height - 2 - 2
               PROVE  page.affixed = Belongs(page)
    BY <2>1 DEF Scrolling!ElementSticks, Belongs
  <2>2. ~OnEdge(page)
    BY <1>1 DEF OnEdge
  <2> QED
    BY <2>2 DEF ScrollInv, StickInv
<1>4. Scrolling!BarSticks
  BY DEF ScrollInv, BarInv, Scrolling!BarSticks
<1>5. Scrolling!ScrollSpyTypeOK
  <2>1. page.section \in 0 .. 2
    BY <1>1 DEF ScrollStates
  <2> QED
    BY <1>1, <2>1 DEF ScrollStates, Scrolling!ScrollSpyTypeOK, Scrolling!Sections
<1> QED
  BY <1>2, <1>3, <1>4, <1>5

Fadings == INSTANCE Folding WITH Op <- Tooltips!Complete

(***************************************************************************)
(* Tips.                                                                   *)
(***************************************************************************)
Living == {"shown", "hidden"}
Ends == {"shown", "hidden", "destroyed"}
TipStates ==
    [triggers : SUBSET Tooltips!Reasons, delayed : BOOLEAN, enabled : BOOLEAN, alive : BOOLEAN,
     state : SUBSET Tooltips!Reasons, hover : {"none", "in", "out"},
     timer : {"none", "show", "hide"}, in : BOOLEAN, inserted : BOOLEAN, described : BOOLEAN,
     ends : Seq(Ends), events : Nat, hurried : BOOLEAN, scripted : BOOLEAN]

LastHidden(ends) == ends # <<>> /\ ends[Len(ends)] = "hidden"

\* Without a reason the tip is about to be hidden, or was; what is left of it
\* is taken out at the end of its fading.
Leaving(t) ==
    \/ t.hover = "out" /\ t.timer = "hide" /\ t.delayed
    \/ /\ t.hover = "none" /\ t.timer = "none" /\ ~t.in
       /\ t.inserted \/ t.described => LastHidden(t.ends)

\* Nothing else waits for the fading when the tip is shown or hidden, unless it
\* was hurried; with a reason it is in or will be.
Calm(t) ==
    /\ t.in => t.inserted /\ (t.ends = <<>> \/ t.ends = <<"shown">>)
    /\ ~t.in => t.ends = <<>> \/ t.ends = <<"hidden">>
    /\ t.state # {} /\ ~t.in => t.hover = "in" /\ t.timer = "show"

Unscripted(t) ==
    /\ t.enabled /\ t.alive /\ t.ends \in Seq(Living)
    /\ t.state = {} => Leaving(t)
    /\ t.state # {} => t.hover # "out"
    /\ t.hurried \/ Calm(t)

TipInv(t) == t \in TipStates /\ (t.scripted \/ Unscripted(t))

\* The tip's fold is the one of Folding.
LEMMA FadingsFold ==
    ASSUME NEW base, NEW s
    PROVE  Tooltips!FoldLeft(Tooltips!Complete, base, s) = Fadings!Folded(base, s)
BY Zenon DEF Tooltips!FoldLeft, Tooltips!MapThenFoldSet, Tooltips!Max,
             Fadings!Folded, Fadings!Greatest

\* What showing and hiding leave alone.
SameTip(t, u) ==
    /\ u \in TipStates
    /\ u.delayed = t.delayed /\ u.enabled = t.enabled /\ u.alive = t.alive
    /\ u.state = t.state /\ u.scripted = t.scripted

Shows(t, u) ==
    /\ SameTip(t, u) /\ u.hover = t.hover /\ u.timer = t.timer
    /\ t.enabled => /\ u.in /\ u.inserted
                    /\ u.hurried = (t.hurried \/ t.ends # <<>>)
                    /\ t.ends = <<>> => u.ends = <<"shown">>
                    /\ t.ends \in Seq(Living) => u.ends \in Seq(Living)

HidesTip(t, u, end) ==
    /\ SameTip(t, u) /\ u.hover = "none" /\ u.timer = t.timer
    /\ ~u.in /\ u.inserted = t.inserted /\ u.described = t.described
    /\ u.hurried = (t.hurried \/ t.ends # <<>>)
    /\ u.ends # <<>> /\ u.ends[Len(u.ends)] = end
    /\ t.ends = <<>> => u.ends = <<end>>
    /\ t.ends \in Seq(Living) /\ end \in Living => u.ends \in Seq(Living)

\* What showing a tip changes.
LEMMA TipShowIs ==
    ASSUME NEW t \in TipStates
    PROVE  Shows(t, Tooltips!Show(t))
<1> DEFINE u == Tooltips!Show(t)
           ends == Append(t.ends, "shown")
           hurried == t.hurried \/ t.ends # <<>>
<1>1. CASE ~t.enabled
  BY <1>1 DEF Tooltips!Show, Shows, SameTip
<1>2. CASE t.enabled
  <2>1. u = [t EXCEPT !.in = TRUE, !.inserted = TRUE, !.described = TRUE,
                      !.ends = ends, !.hurried = hurried]
    BY <1>2 DEF Tooltips!Show, TipStates
  <2>2. /\ ends \in Seq(Ends) /\ hurried \in BOOLEAN
        /\ t.ends = <<>> => ends = <<"shown">>
        /\ t.ends \in Seq(Living) => ends \in Seq(Living)
    <3>1. t.ends \in Seq(Ends) /\ "shown" \in Ends /\ "shown" \in Living
      BY DEF TipStates, Ends, Living
    <3>2. hurried \in BOOLEAN
      BY DEF TipStates
    <3> QED
      BY <3>1, <3>2, Appended
  <2> HIDE DEF u, ends
  <2>3. u \in TipStates
    <3> HIDE DEF hurried
    <3> QED
      BY <2>1, <2>2 DEF TipStates
  <2>4. /\ u.delayed = t.delayed /\ u.enabled = t.enabled /\ u.alive = t.alive
        /\ u.state = t.state /\ u.scripted = t.scripted /\ u.hover = t.hover /\ u.timer = t.timer
        /\ u.in /\ u.inserted /\ u.hurried = hurried /\ u.ends = ends
    <3> HIDE DEF hurried
    <3> QED
      BY <2>1 DEF TipStates
  <2> QED
    BY <2>2, <2>3, <2>4 DEF Shows, SameTip, u
<1> QED
  BY <1>1, <1>2

\* What hiding a tip changes.
LEMMA TipHideIs ==
    ASSUME NEW t \in TipStates, NEW end \in Ends
    PROVE  HidesTip(t, Tooltips!Hide(t, end), end)
<1> DEFINE u == Tooltips!Hide(t, end)
           ends == Append(t.ends, end)
           hurried == t.hurried \/ t.ends # <<>>
<1>1. u = [t EXCEPT !.in = FALSE, !.hover = "none", !.ends = ends, !.hurried = hurried]
  BY DEF Tooltips!Hide, TipStates
<1>2. /\ ends \in Seq(Ends) /\ ends # <<>> /\ ends[Len(ends)] = end
      /\ t.ends = <<>> => ends = <<end>>
      /\ t.ends \in Seq(Living) /\ end \in Living => ends \in Seq(Living)
  <2>1. t.ends \in Seq(Ends)
    BY DEF TipStates
  <2> QED
    BY <2>1, Appended
<1>3. hurried \in BOOLEAN
  BY DEF TipStates
<1> HIDE DEF u, ends
<1>4. u \in TipStates
  <2> HIDE DEF hurried
  <2> QED
    BY <1>1, <1>2, <1>3 DEF TipStates
<1>5. /\ u.delayed = t.delayed /\ u.enabled = t.enabled /\ u.alive = t.alive
      /\ u.state = t.state /\ u.scripted = t.scripted /\ u.hover = "none" /\ u.timer = t.timer
      /\ ~u.in /\ u.inserted = t.inserted /\ u.described = t.described
      /\ u.hurried = hurried /\ u.ends = ends
  <2> HIDE DEF hurried
  <2> QED
    BY <1>1 DEF TipStates
<1> QED
  BY <1>2, <1>4, <1>5 DEF HidesTip, SameTip, u

\* Another hover state and timer.
Turned(t, hover, timer, u) ==
    /\ SameTip(t, u) /\ u.hover = hover /\ u.timer = timer
    /\ u.in = t.in /\ u.inserted = t.inserted /\ u.described = t.described
    /\ u.ends = t.ends /\ u.hurried = t.hurried

\* What a change of the tip's direction and its timer changes.
LEMMA TurnedIs ==
    ASSUME NEW t \in TipStates, NEW hover \in {"none", "in", "out"},
           NEW timer \in {"none", "show", "hide"}
    PROVE  Turned(t, hover, timer, [t EXCEPT !.hover = hover, !.timer = timer])
<1> DEFINE u == [t EXCEPT !.hover = hover, !.timer = timer]
<1>1. u \in TipStates
  BY DEF TipStates
<1> QED
  BY <1>1 DEF TipStates, SameTip, Turned

\* A tip that has a reason to be shown is, or will be.
LEMMA EnterIs ==
    ASSUME NEW t \in TipStates
    PROVE  SameTip(t, Tooltips!EnterTip(t))
<1>1. CASE t.in \/ t.hover = "in"
  <2>1. Tooltips!EnterTip(t) = [t EXCEPT !.hover = "in", !.timer = t.timer]
    BY <1>1 DEF Tooltips!EnterTip, TipStates
  <2>2. t.timer \in {"none", "show", "hide"}
    BY DEF TipStates
  <2>3. Turned(t, "in", t.timer, Tooltips!EnterTip(t))
    BY <2>1, <2>2, TurnedIs
  <2> QED
    BY <2>3 DEF Turned
<1>2. CASE ~(t.in \/ t.hover = "in")
  <2> DEFINE entering == [t EXCEPT !.hover = "in", !.timer = "none"]
             later == [t EXCEPT !.hover = "in", !.timer = "show"]
  <2>1. Tooltips!EnterTip(t) = IF t.delayed THEN later ELSE Tooltips!Show(entering)
    BY <1>2 DEF Tooltips!EnterTip, TipStates
  <2>4. Turned(t, "in", "none", entering) /\ Turned(t, "in", "show", later)
    BY TurnedIs
  <2>2. SameTip(t, entering) /\ SameTip(t, later)
    BY <2>4 DEF Turned
  <2> HIDE DEF entering, later
  <2>3. SameTip(entering, Tooltips!Show(entering))
    BY <2>2, TipShowIs DEF SameTip, Shows
  <2> QED
    BY <2>1, <2>2, <2>3 DEF SameTip
<1> QED
  BY <1>1, <1>2

\* Leaving changes the direction and the timer, or hides the tip.
LEMMA LeaveIs ==
    ASSUME NEW t \in TipStates
    PROVE  SameTip(t, Tooltips!LeaveTip(t))
<1>1. CASE t.state # {}
  BY <1>1 DEF Tooltips!LeaveTip, SameTip
<1>2. CASE t.state = {}
  <2> DEFINE leaving == [t EXCEPT !.hover = "out", !.timer = "none"]
             later == [t EXCEPT !.hover = "out", !.timer = "hide"]
  <2>1. Tooltips!LeaveTip(t) = IF t.delayed THEN later ELSE Tooltips!Hide(leaving, "hidden")
    BY <1>2 DEF Tooltips!LeaveTip, TipStates
  <2>4. Turned(t, "out", "none", leaving) /\ Turned(t, "out", "hide", later)
    BY TurnedIs
  <2>2. SameTip(t, leaving) /\ SameTip(t, later)
    BY <2>4 DEF Turned
  <2> HIDE DEF leaving, later
  <2>3. SameTip(leaving, Tooltips!Hide(leaving, "hidden"))
    BY <2>2, TipHideIs DEF SameTip, HidesTip, Ends
  <2> QED
    BY <2>1, <2>2, <2>3 DEF SameTip
<1> QED
  BY <1>1, <1>2

\* The reasons change; then the tip enters or leaves.
LEMMA TipEnterKeeps ==
    ASSUME NEW t, TipInv(t), NEW state \in SUBSET Tooltips!Reasons, state # {}, NEW u,
           u = [t EXCEPT !.state = state]
    PROVE  TipInv(Tooltips!EnterTip(u))
<1> DEFINE v == Tooltips!EnterTip(u)
<1>1. t \in TipStates
  BY DEF TipInv
<1>2. u \in TipStates
  BY <1>1 DEF TipStates
<1>3. /\ u.delayed = t.delayed /\ u.enabled = t.enabled /\ u.alive = t.alive
      /\ u.state = state /\ u.scripted = t.scripted /\ u.hover = t.hover /\ u.timer = t.timer
      /\ u.in = t.in /\ u.inserted = t.inserted
      /\ u.ends = t.ends /\ u.hurried = t.hurried
  BY <1>1 DEF TipStates
<1>4. SameTip(u, v)
  BY <1>2, EnterIs
<1> HIDE DEF v
<1> SUFFICES ASSUME ~u.scripted PROVE Unscripted(v)
  BY <1>4 DEF TipInv, SameTip, v
<1>5. Unscripted(t) /\ v.state # {} /\ v.enabled /\ v.alive /\ u.enabled
  BY <1>3, <1>4 DEF TipInv, Unscripted, SameTip
<1>6. CASE u.in \/ u.hover = "in"
  <2>1. v = [u EXCEPT !.hover = "in", !.timer = u.timer]
    BY <1>2, <1>6 DEF Tooltips!EnterTip, TipStates, v
  <2>2. u.timer \in {"none", "show", "hide"}
    BY <1>2 DEF TipStates
  <2>3. /\ v.hover = "in" /\ v.timer = u.timer
        /\ v.in = u.in /\ v.inserted = u.inserted /\ v.described = u.described
        /\ v.ends = u.ends /\ v.hurried = u.hurried
    <3>1. Turned(u, "in", u.timer, v)
      BY <1>2, <2>1, <2>2, TurnedIs
    <3> QED
      BY <3>1 DEF Turned
  <2>4. v.hurried \/ Calm(v)
    <3> SUFFICES ASSUME ~t.hurried PROVE Calm(v)
      BY <1>3, <2>3
    <3>1. Calm(t)
      BY <1>5 DEF Unscripted
    <3>2. ~t.in => t.state # {}
      BY <1>3, <1>5, <1>6 DEF Unscripted, Leaving
    <3> QED
      BY <1>3, <2>3, <3>1, <3>2 DEF Calm
  <2> QED
    BY <1>5, <2>3, <2>4 DEF Unscripted
<1>7. CASE ~(u.in \/ u.hover = "in")
  <2> DEFINE entering == [u EXCEPT !.hover = "in", !.timer = "none"]
             later == [u EXCEPT !.hover = "in", !.timer = "show"]
  <2>1. v = IF u.delayed THEN later ELSE Tooltips!Show(entering)
    BY <1>2, <1>7 DEF Tooltips!EnterTip, TipStates, v
  <2>2. /\ later.hover = "in" /\ later.timer = "show" /\ later.in = u.in
        /\ later.ends = u.ends /\ later.hurried = u.hurried
        /\ entering \in TipStates /\ entering.hover = "in" /\ entering.enabled = u.enabled
        /\ entering.ends = u.ends /\ entering.hurried = u.hurried
    <3>1. Turned(u, "in", "none", entering) /\ Turned(u, "in", "show", later)
      BY <1>2, TurnedIs
    <3> HIDE DEF entering, later
    <3> QED
      BY <3>1 DEF Turned, SameTip
  <2> HIDE DEF later, entering
  <2>3. CASE u.delayed
    <3>1. t.hurried \/ Calm(v)
      BY <1>3, <1>5, <1>7, <2>1, <2>2, <2>3 DEF Unscripted, Calm
    <3> QED
      BY <1>3, <1>5, <2>1, <2>2, <2>3, <3>1 DEF Unscripted
  <2>4. CASE ~u.delayed
    <3>1. Shows(entering, v)
      BY <2>1, <2>2, <2>4, TipShowIs
    <3>2. /\ v.hover = "in" /\ v.in /\ v.inserted
          /\ v.hurried = (u.hurried \/ u.ends # <<>>)
          /\ u.ends = <<>> => v.ends = <<"shown">>
          /\ u.ends \in Seq(Living) => v.ends \in Seq(Living)
      BY <1>5, <2>2, <3>1 DEF Shows
    <3> QED
      BY <1>3, <1>5, <3>2 DEF Unscripted, Calm
  <2> QED
    BY <2>3, <2>4
<1> QED
  BY <1>6, <1>7

\* Leaving for the last reason keeps the invariant.
LEMMA LeaveKeeps ==
    ASSUME NEW t, TipInv(t), t.state # {}, NEW state \in SUBSET Tooltips!Reasons, NEW u,
           u = [t EXCEPT !.state = state]
    PROVE  TipInv(Tooltips!LeaveTip(u))
<1> DEFINE v == Tooltips!LeaveTip(u)
<1>1. t \in TipStates
  BY DEF TipInv
<1>2. u \in TipStates
  BY <1>1 DEF TipStates
<1>3. /\ u.delayed = t.delayed /\ u.enabled = t.enabled /\ u.alive = t.alive
      /\ u.state = state /\ u.scripted = t.scripted /\ u.hover = t.hover /\ u.timer = t.timer
      /\ u.in = t.in /\ u.inserted = t.inserted
      /\ u.ends = t.ends /\ u.hurried = t.hurried
  BY <1>1 DEF TipStates
<1>4. SameTip(u, v)
  BY <1>2, LeaveIs
<1> HIDE DEF v
<1> SUFFICES ASSUME ~u.scripted PROVE Unscripted(v)
  BY <1>4 DEF TipInv, SameTip, v
<1>5. Unscripted(t) /\ v.state = state /\ v.enabled /\ v.alive /\ v.delayed = u.delayed
  BY <1>3, <1>4 DEF TipInv, Unscripted, SameTip
<1>6. CASE state # {}
  <2>1. v = u
    BY <1>3, <1>6 DEF Tooltips!LeaveTip, v
  <2> QED
    BY <1>3, <1>5, <1>6, <2>1 DEF Unscripted, Calm
<1>7. CASE state = {}
  <2> DEFINE leaving == [u EXCEPT !.hover = "out", !.timer = "none"]
             later == [u EXCEPT !.hover = "out", !.timer = "hide"]
  <2>1. v = IF u.delayed THEN later ELSE Tooltips!Hide(leaving, "hidden")
    BY <1>2, <1>3, <1>7 DEF Tooltips!LeaveTip, TipStates, v
  <2>2. /\ later.hover = "out" /\ later.timer = "hide" /\ later.in = u.in
        /\ later.ends = u.ends /\ later.hurried = u.hurried /\ later.inserted = u.inserted
        /\ leaving \in TipStates /\ leaving.timer = "none"
        /\ leaving.ends = u.ends /\ leaving.hurried = u.hurried
    <3>1. Turned(u, "out", "none", leaving) /\ Turned(u, "out", "hide", later)
      BY <1>2, TurnedIs
    <3> HIDE DEF leaving, later
    <3> QED
      BY <3>1 DEF Turned, SameTip
  <2> HIDE DEF later, leaving
  <2>3. CASE u.delayed
    BY <1>3, <1>5, <1>7, <2>1, <2>2, <2>3 DEF Unscripted, Calm, Leaving
  <2>4. CASE ~u.delayed
    <3>1. HidesTip(leaving, v, "hidden")
      BY <2>1, <2>2, <2>4, TipHideIs DEF Ends
    <3>2. /\ v.hover = "none" /\ v.timer = "none" /\ ~v.in
          /\ v.hurried = (u.hurried \/ u.ends # <<>>) /\ LastHidden(v.ends)
          /\ u.ends = <<>> => v.ends = <<"hidden">>
          /\ u.ends \in Seq(Living) => v.ends \in Seq(Living)
      BY <2>2, <3>1 DEF HidesTip, LastHidden, Living
    <3> QED
      BY <1>3, <1>5, <1>7, <3>2 DEF Unscripted, Calm, Leaving
  <2> QED
    BY <2>3, <2>4
<1> QED
  BY <1>6, <1>7

\* A tip begins in its invariant.
LEMMA TipStarts ==
    ASSUME Tooltips!TooltipInit
    PROVE  TipInv(page)
<1>1. PICK popover \in BOOLEAN, delayed \in BOOLEAN :
        page = [triggers |-> IF popover THEN {"click"} ELSE {"hover", "focus"},
                delayed |-> delayed, enabled |-> TRUE, alive |-> TRUE,
                state |-> {}, hover |-> "none",
                timer |-> "none", in |-> FALSE, inserted |-> FALSE,
                described |-> FALSE, ends |-> <<>>,
                events |-> 0, hurried |-> FALSE, scripted |-> FALSE]
  BY DEF Tooltips!TooltipInit
<1>2. <<>> \in Seq(Ends) /\ <<>> \in Seq(Living)
  OBVIOUS
<1>3. (IF popover THEN {"click"} ELSE {"hover", "focus"}) \in SUBSET Tooltips!Reasons
  BY DEF Tooltips!Reasons
<1>4. page \in TipStates
  BY <1>1, <1>2, <1>3 DEF TipStates
<1>5. Unscripted(page)
  BY <1>1, <1>2 DEF Unscripted, Leaving, Calm
<1> QED
  BY <1>4, <1>5 DEF TipInv

\* Counting an event keeps the invariant.
LEMMA TipHappensKeeps ==
    ASSUME NEW t, TipInv(t), Tooltips!Happens(t)
    PROVE  TipInv(page')
<1> DEFINE events == t.events + 1
<1>1. t \in TipStates /\ events \in Nat /\ page' = [t EXCEPT !.events = events]
  BY DEF TipInv, TipStates, Tooltips!Happens
<1> HIDE DEF events
<1>2. page' \in TipStates
  BY <1>1 DEF TipStates
<1>3. /\ page'.enabled = t.enabled /\ page'.alive = t.alive /\ page'.ends = t.ends
      /\ page'.state = t.state /\ page'.hover = t.hover /\ page'.timer = t.timer
      /\ page'.delayed = t.delayed /\ page'.in = t.in /\ page'.inserted = t.inserted
      /\ page'.described = t.described /\ page'.hurried = t.hurried /\ page'.scripted = t.scripted
  BY <1>1 DEF TipStates
<1>4. Unscripted(t) => Unscripted(page')
  BY <1>3 DEF Unscripted, Leaving, Calm
<1> QED
  BY <1>2, <1>3, <1>4 DEF TipInv

\* A reason to show the tip that comes or goes, and a click, keep the invariant.
LEMMA ReasonsKeep ==
    ASSUME TipInv(page), NEW reason \in Tooltips!Reasons,
           Tooltips!Enter(reason) \/ Tooltips!Leave(reason) \/ Tooltips!Click
    PROVE  TipInv(page')
<1>1. page \in TipStates /\ page.state \in SUBSET Tooltips!Reasons
  BY DEF TipInv, TipStates
<1>2. CASE Tooltips!Enter(reason)
  <2> DEFINE state == page.state \cup {reason}
             u == [page EXCEPT !.state = state]
  <2>1. Tooltips!Happens(Tooltips!EnterTip(u))
    BY <1>1, <1>2 DEF Tooltips!Enter, TipStates
  <2>2. state \in SUBSET Tooltips!Reasons /\ state # {}
    BY <1>1
  <2> HIDE DEF state
  <2> QED
    BY <2>1, <2>2, TipEnterKeeps, TipHappensKeeps
<1>3. CASE Tooltips!Leave(reason)
  <2> DEFINE state == page.state \ {reason}
             u == [page EXCEPT !.state = state]
  <2>1. Tooltips!Happens(Tooltips!LeaveTip(u)) /\ page.state # {}
    BY <1>1, <1>3 DEF Tooltips!Leave, TipStates
  <2>2. state \in SUBSET Tooltips!Reasons
    BY <1>1
  <2> HIDE DEF state
  <2> QED
    BY <2>1, <2>2, LeaveKeeps, TipHappensKeeps
<1>4. CASE Tooltips!Click
  <2> DEFINE none == {}
             click == {"click"}
  <2>1. none \in SUBSET Tooltips!Reasons /\ click \in SUBSET Tooltips!Reasons /\ click # {}
    BY DEF Tooltips!Reasons
  <2>2. CASE "click" \in page.state
    <3>1. Tooltips!Happens(Tooltips!LeaveTip([page EXCEPT !.state = none])) /\ page.state # {}
      BY <1>4, <2>2 DEF Tooltips!Click
    <3> HIDE DEF none
    <3> QED
      BY <2>1, <3>1, LeaveKeeps, TipHappensKeeps
  <2>3. CASE "click" \notin page.state
    <3>1. Tooltips!Happens(Tooltips!EnterTip([page EXCEPT !.state = click]))
      BY <1>4, <2>3 DEF Tooltips!Click
    <3> HIDE DEF click
    <3> QED
      BY <2>1, <3>1, TipEnterKeeps, TipHappensKeeps
  <2> QED
    BY <2>2, <2>3
<1> QED
  BY <1>2, <1>3, <1>4

\* What a script calls is not promised to follow the reasons.
LEMMA CallsKeep ==
    ASSUME TipInv(page),
           \/ Tooltips!ToggleCall \/ Tooltips!Destroy
           \/ \E on \in BOOLEAN : Tooltips!Enable(on)
    PROVE  TipInv(page')
<1>1. page \in TipStates
  BY DEF TipInv
<1>2. ASSUME NEW t \in TipStates, Tooltips!Called(t) PROVE TipInv(page')
  <2> DEFINE u == [t EXCEPT !.scripted = TRUE]
  <2>1. u \in TipStates /\ u.scripted
    BY DEF TipStates
  <2>2. Tooltips!Happens(u)
    BY <1>2 DEF Tooltips!Called
  <2> HIDE DEF u
  <2> QED
    BY <2>1, <2>2, TipHappensKeeps DEF TipInv
<1>3. CASE Tooltips!ToggleCall
  <2>1. Tooltips!LeaveTip(page) \in TipStates /\ Tooltips!EnterTip(page) \in TipStates
    BY <1>1, LeaveIs, EnterIs DEF SameTip
  <2> QED
    BY <1>2, <1>3, <2>1 DEF Tooltips!ToggleCall
<1>4. CASE Tooltips!Destroy
  <2> DEFINE t == [page EXCEPT !.timer = "none"]
  <2>1. t \in TipStates
    BY <1>1 DEF TipStates
  <2>2. Tooltips!Hide(t, "destroyed") \in TipStates
    <3> HIDE DEF t
    <3> QED
      BY <2>1, TipHideIs DEF HidesTip, SameTip, Ends
  <2> QED
    BY <1>2, <1>4, <2>2 DEF Tooltips!Destroy
<1>5. ASSUME NEW on \in BOOLEAN, Tooltips!Enable(on) PROVE TipInv(page')
  <2>1. [page EXCEPT !.enabled = on] \in TipStates
    BY <1>1 DEF TipStates
  <2> QED
    BY <1>2, <1>5, <2>1 DEF Tooltips!Enable
<1> QED
  BY <1>3, <1>4, <1>5

\* The delay's end keeps the invariant.
LEMMA TipTimeoutKeeps ==
    ASSUME TipInv(page), Tooltips!Timeout
    PROVE  TipInv(page')
<1> DEFINE t == [page EXCEPT !.hover = page.hover, !.timer = "none"]
<1>1. page \in TipStates /\ page.timer \in {"show", "hide"} /\ page.hover \in {"none", "in", "out"}
  BY DEF TipInv, TipStates, Tooltips!Timeout
<1>2. t = [page EXCEPT !.timer = "none"]
  BY <1>1 DEF TipStates
<1>3. Turned(page, page.hover, "none", t)
  BY <1>1, TurnedIs
<1> HIDE DEF t
<1>4. page' = CASE page.timer = "show" /\ t.hover = "in" -> Tooltips!Show(t)
                [] page.timer = "hide" /\ t.hover = "out" -> Tooltips!Hide(t, "hidden")
                [] OTHER -> t
  BY <1>2 DEF Tooltips!Timeout
<1>5. /\ t \in TipStates /\ t.hover = page.hover /\ t.timer = "none"
      /\ t.delayed = page.delayed /\ t.enabled = page.enabled /\ t.alive = page.alive
      /\ t.state = page.state /\ t.scripted = page.scripted
      /\ t.in = page.in /\ t.inserted = page.inserted /\ t.described = page.described
      /\ t.ends = page.ends /\ t.hurried = page.hurried
  BY <1>3 DEF Turned, SameTip
<1>6. CASE page.timer = "show" /\ page.hover = "in"
  <2>1. Shows(t, page')
    BY <1>4, <1>5, <1>6, TipShowIs
  <2>2. page' \in TipStates /\ page'.scripted = page.scripted
    BY <1>5, <2>1 DEF Shows, SameTip
  <2> SUFFICES ASSUME Unscripted(page) PROVE Unscripted(page')
    BY <2>2 DEF TipInv
  <2>3. page.state # {}
    BY <1>6 DEF Unscripted, Leaving
  <2>4. /\ page'.state = page.state /\ page'.enabled /\ page'.alive /\ page'.hover = "in"
        /\ page'.in /\ page'.inserted /\ page'.hurried = (page.hurried \/ page.ends # <<>>)
        /\ page.ends = <<>> => page'.ends = <<"shown">>
        /\ page'.ends \in Seq(Living)
    BY <1>5, <1>6, <2>1 DEF Shows, SameTip, Unscripted
  <2> QED
    BY <2>3, <2>4 DEF Unscripted, Calm
<1>7. CASE page.timer = "hide" /\ page.hover = "out"
  <2>1. HidesTip(t, page', "hidden")
    BY <1>4, <1>5, <1>7, TipHideIs DEF Ends
  <2>2. page' \in TipStates /\ page'.scripted = page.scripted
    BY <1>5, <2>1 DEF HidesTip, SameTip
  <2> SUFFICES ASSUME Unscripted(page) PROVE Unscripted(page')
    BY <2>2 DEF TipInv
  <2>3. page.state = {}
    BY <1>7 DEF Unscripted
  <2>4. /\ page'.state = page.state /\ page'.enabled /\ page'.alive /\ page'.hover = "none"
        /\ page'.timer = "none"
        /\ ~page'.in /\ page'.hurried = (page.hurried \/ page.ends # <<>>)
        /\ page.ends = <<>> => page'.ends = <<"hidden">>
        /\ page'.ends \in Seq(Living) /\ LastHidden(page'.ends)
    BY <1>5, <2>1 DEF HidesTip, SameTip, Unscripted, Living, LastHidden
  <2> QED
    BY <2>3, <2>4 DEF Unscripted, Calm, Leaving
<1>8. CASE /\ ~(page.timer = "show" /\ page.hover = "in")
           /\ ~(page.timer = "hide" /\ page.hover = "out")
  <2>1. page' = t
    BY <1>4, <1>5, <1>8
  <2>2. Unscripted(page) => Unscripted(t)
    BY <1>1, <1>5, <1>8 DEF Unscripted, Leaving, Calm
  <2> QED
    BY <1>5, <2>1, <2>2 DEF TipInv
<1> QED
  BY <1>6, <1>7, <1>8

\* The callback of a show or a hide, at the end of the fading.
LEMMA CompleteTyped ==
    ASSUME NEW t \in TipStates, NEW end \in Ends
    PROVE  /\ Tooltips!Complete(t, end) \in TipStates
           /\ Tooltips!Complete(t, end).scripted = t.scripted
<1> DEFINE w == [t EXCEPT !.hover = "none", !.timer = t.timer]
<1>1. CASE end = "shown"
  <2>1. w = [t EXCEPT !.hover = "none"] /\ t.timer \in {"none", "show", "hide"}
    BY DEF TipStates
  <2>2. Turned(t, "none", t.timer, w)
    BY <2>1, TurnedIs
  <2>3. Tooltips!Complete(t, end) = IF t.alive /\ t.hover = "out" THEN Tooltips!LeaveTip(w) ELSE w
    BY <1>1, <2>1 DEF Tooltips!Complete
  <2> HIDE DEF w
  <2>4. w \in TipStates /\ w.scripted = t.scripted
    BY <2>2 DEF Turned, SameTip
  <2>5. SameTip(w, Tooltips!LeaveTip(w))
    BY <2>4, LeaveIs
  <2> QED
    BY <2>3, <2>4, <2>5 DEF SameTip
<1>2. CASE end # "shown"
  <2> DEFINE inserted == t.inserted /\ t.hover = "in" /\ end = "hidden"
             alive == t.alive /\ end = "hidden"
             u == [t EXCEPT !.inserted = inserted, !.described = FALSE, !.alive = alive]
  <2>1. Tooltips!Complete(t, end) = u
    BY <1>2 DEF Tooltips!Complete, TipStates
  <2>2. inserted \in BOOLEAN /\ alive \in BOOLEAN
    BY DEF TipStates
  <2> HIDE DEF inserted, alive
  <2>3. u \in TipStates /\ u.scripted = t.scripted
    BY <2>2 DEF TipStates
  <2> QED
    BY <2>1, <2>3
<1> QED
  BY <1>1, <1>2

\* What it makes of a tip that is hidden after a delay, or not on its way out.
Completes(t, end, u) ==
    /\ SameTip(t, u) /\ u.in = t.in /\ u.ends = t.ends /\ u.hurried = t.hurried
    /\ t.hover = "out" => u.hover = "out" /\ u.timer = "hide"
    /\ t.hover # "out" => u.timer = t.timer /\ u.hover \in {t.hover, "none"}
    /\ u.inserted => t.inserted
    /\ u.described => t.described
    /\ end = "shown" => u.inserted = t.inserted
    /\ end = "hidden" => ~u.described /\ (u.inserted => t.hover = "in") /\ u.hover = t.hover

\* What the callback of a transition changes.
LEMMA CompleteIs ==
    ASSUME NEW t \in TipStates, NEW end \in Living, t.alive,
           t.hover = "out" => t.timer = "hide" /\ t.delayed /\ t.state = {}
    PROVE  Completes(t, end, Tooltips!Complete(t, end))
<1> DEFINE u == Tooltips!Complete(t, end)
<1>0. t.timer \in {"none", "show", "hide"} /\ t.hover \in {"none", "in", "out"}
  BY DEF TipStates
<1>1. CASE end = "shown" /\ t.hover = "out"
  <2>1. u = Tooltips!LeaveTip([t EXCEPT !.hover = "none"])
    BY <1>1 DEF Tooltips!Complete
  <2>2. u = [t EXCEPT !.hover = "out", !.timer = "hide"]
    BY <1>1, <2>1 DEF Tooltips!LeaveTip, TipStates
  <2> HIDE DEF u
  <2>3. Turned(t, "out", "hide", u)
    BY <2>2, TurnedIs
  <2> QED
    BY <1>1, <2>3 DEF Turned, Completes, u
<1>2. CASE end = "shown" /\ t.hover # "out"
  <2>1. u = [t EXCEPT !.hover = "none", !.timer = t.timer]
    BY <1>2 DEF Tooltips!Complete, TipStates
  <2> HIDE DEF u
  <2>2. Turned(t, "none", t.timer, u)
    BY <1>0, <2>1, TurnedIs
  <2> QED
    BY <1>2, <2>2 DEF Turned, Completes, u
<1>3. CASE end = "hidden"
  <2> DEFINE inserted == t.inserted /\ t.hover = "in"
  <2>1. u = [t EXCEPT !.inserted = inserted, !.described = FALSE]
    BY <1>3 DEF Tooltips!Complete, TipStates
  <2>2. inserted \in BOOLEAN /\ (inserted => t.inserted /\ t.hover = "in")
    BY DEF TipStates
  <2> HIDE DEF u, inserted
  <2>3. /\ u \in TipStates /\ u.delayed = t.delayed /\ u.enabled = t.enabled /\ u.alive = t.alive
        /\ u.state = t.state /\ u.scripted = t.scripted /\ u.hover = t.hover /\ u.timer = t.timer
        /\ u.in = t.in /\ u.ends = t.ends /\ u.hurried = t.hurried
        /\ u.inserted = inserted /\ ~u.described
    BY <2>1, <2>2 DEF TipStates
  <2>4. t.hover = "out" => u.timer = "hide"
    BY <2>3
  <2> QED
    BY <1>3, <2>2, <2>3, <2>4 DEF Completes, SameTip, u
<1> QED
  BY <1>1, <1>2, <1>3 DEF Living

\* The callbacks of a tip that no script called leave it going out, out, or
\* where there is a reason for it.
LEMMA FadingEndUnscripted ==
    ASSUME TipInv(page), Unscripted(page), Tooltips!FadingEnd
    PROVE  page' \in TipStates /\ page'.scripted = page.scripted /\ Unscripted(page')
<1> DEFINE none == <<>>
           base == [page EXCEPT !.ends = none]
           s == page.ends
           N == Len(s)
           same == {t \in TipStates :
                      /\ SameTip(page, t) /\ t.ends = none /\ t.hurried = page.hurried
                      /\ t.in = page.in
                      /\ page.state # {} => t.hover # "out"
                      /\ page.state = {} =>
                            IF page.hover = "out" THEN t.hover = "out" /\ t.timer = "hide"
                            ELSE /\ t.hover = "none" /\ t.timer = "none"
                                 /\ t.inserted => page.inserted
                                 /\ t.described => page.described}
<1>1. /\ page \in TipStates /\ s \in Seq(Living) /\ s # <<>> /\ page.alive
      /\ page.state # {} => page.hover # "out"
      /\ page.state = {} => Leaving(page)
  BY DEF TipInv, Unscripted, Tooltips!FadingEnd
<1>2. page' = Fadings!Folded(base, s)
  <2>1. page' = Tooltips!FoldLeft(Tooltips!Complete, base, s)
    BY DEF Tooltips!FadingEnd
  <2> HIDE DEF base, s
  <2> QED
    BY <2>1, FadingsFold
<1>3. N \in Nat \ {0} /\ DOMAIN s = 1 .. N /\ \A n \in 1 .. N : s[n] \in Living
  BY <1>1, ElementOf
<1>4. none \in Seq(Ends) /\ none \in Seq(Living)
  OBVIOUS
<1> HIDE DEF none, s, N
<1>5. /\ SameTip(page, base) /\ base.ends = none /\ base.hurried = page.hurried
      /\ base.in = page.in /\ base.hover = page.hover /\ base.timer = page.timer
      /\ base.inserted = page.inserted /\ base.described = page.described
  <2>1. base \in TipStates
    BY <1>1, <1>4 DEF TipStates
  <2> QED
    BY <1>1, <2>1 DEF TipStates, SameTip
<1> HIDE DEF base
<1>6. base \in same
  BY <1>1, <1>5 DEF SameTip, Leaving
<1>7. ASSUME NEW t \in same, NEW end \in Living
      PROVE  Completes(t, end, Tooltips!Complete(t, end)) /\ Tooltips!Complete(t, end) \in same
  <2> DEFINE u == Tooltips!Complete(t, end)
  <2>1. /\ t \in TipStates /\ t.alive
        /\ t.hover = "out" => t.timer = "hide" /\ t.delayed /\ t.state = {}
    BY <1>1 DEF SameTip, Leaving
  <2>2. Completes(t, end, u)
    BY <2>1, CompleteIs
  <2> HIDE DEF u
  <2>3. u \in TipStates /\ SameTip(page, u)
    BY <2>2 DEF Completes, SameTip
  <2>4. u \in same
    BY <2>2, <2>3 DEF Completes
  <2> QED
    BY <2>2, <2>4 DEF u
<1>8. \A t \in same, n \in 1 .. N : Tooltips!Complete(t, s[n]) \in same
  BY <1>3, <1>7
<1>9. PICK t \in same : Fadings!Folded(base, s) = Tooltips!Complete(t, s[N])
  <2> HIDE DEF same
  <2> QED
    BY <1>3, <1>6, <1>8, Fadings!FoldLast
<1>10. page' \in same /\ Completes(t, s[N], page') /\ s[N] \in Living
  <2>1. N \in 1 .. N /\ s[N] \in Living
    BY <1>3
  <2> HIDE DEF same
  <2> QED
    BY <1>2, <1>7, <1>9, <2>1
<1>11. /\ page' \in TipStates /\ SameTip(page, page') /\ page'.ends = <<>>
       /\ page'.hurried = page.hurried /\ page'.in = page.in
  BY <1>10 DEF none
<1>12. page'.state = {} => Leaving(page')
  <2> SUFFICES ASSUME page.state = {} PROVE Leaving(page')
    BY <1>11 DEF SameTip
  <2>1. CASE page.hover = "out"
    BY <1>1, <1>10, <2>1 DEF Leaving, SameTip
  <2>2. CASE page.hover # "out"
    <3>1. /\ page'.hover = "none" /\ page'.timer = "none" /\ ~page'.in
          /\ page'.inserted => page.inserted
          /\ page'.described => page.described
          /\ page.inserted \/ page.described => LastHidden(s)
      BY <1>1, <1>10, <1>11, <2>2 DEF Leaving, s
    <3>2. s[N] = "hidden" => ~page'.inserted /\ ~page'.described
      <4>1. t.hover = "none"
        BY <2>2
      <4> QED
        BY <1>10, <4>1 DEF Completes
    <3>3. LastHidden(s) => s[N] = "hidden"
      BY DEF LastHidden, N
    <3> QED
      BY <3>1, <3>2, <3>3 DEF Leaving
  <2> QED
    BY <2>1, <2>2
<1>13. page'.state # {} => page'.hover # "out"
  BY <1>10, <1>11 DEF SameTip
<1>14. page'.hurried \/ Calm(page')
  <2> SUFFICES ASSUME ~page.hurried PROVE Calm(page')
    BY <1>11
  <2>1. Calm(page) /\ s # <<>>
    BY <1>1 DEF Unscripted
  <2>2. s = <<"shown">> \/ s = <<"hidden">>
    BY <2>1 DEF Calm, s
  <2>3. N = 1 /\ DOMAIN s = {1} /\ s[1] \in Living
    BY <2>2 DEF N, Living
  <2>4. page' = Tooltips!Complete(base, s[1])
    <3>1. \A x \in same : Tooltips!Complete(x, s[1]) \in same
      BY <1>7, <2>3
    <3> HIDE DEF same
    <3> QED
      BY <1>2, <1>6, <2>3, <3>1, Fadings!FoldOnce
  <2>5. Completes(base, s[1], page')
    <3> HIDE DEF same
    <3> QED
      BY <1>6, <1>7, <2>3, <2>4
  <2>6. s[1] = IF page.in THEN "shown" ELSE "hidden"
    <3>1. page.in => s = <<"shown">>
      BY <2>1, <1>1 DEF Calm, s
    <3>2. ~page.in => s = <<"hidden">>
      BY <2>1, <1>1 DEF Calm, s
    <3> QED
      BY <3>1, <3>2
  <2>7. page.in => page'.inserted
    BY <1>5, <2>1, <2>5, <2>6 DEF Completes, Calm
  <2>8. page.state # {} /\ ~page.in => page'.hover = "in" /\ page'.timer = "show"
    BY <1>5, <2>1, <2>5, <2>6 DEF Completes, Calm
  <2> QED
    BY <1>11, <2>7, <2>8 DEF Calm, SameTip
<1> QED
  BY <1>1, <1>4, <1>11, <1>12, <1>13, <1>14 DEF Unscripted, SameTip, none

\* The end of a tip's transition, which runs every callback waiting, keeps the invariant.
LEMMA TipFadingKeeps ==
    ASSUME TipInv(page), Tooltips!FadingEnd
    PROVE  TipInv(page')
<1>1. CASE Unscripted(page)
  BY <1>1, FadingEndUnscripted DEF TipInv
<1>2. CASE page.scripted
  <2> DEFINE none == <<>>
             base == [page EXCEPT !.ends = none]
             s == page.ends
             N == Len(s)
             same == {t \in TipStates : t.scripted}
  <2>1. page \in TipStates /\ s \in Seq(Ends)
    BY DEF TipInv, TipStates
  <2>2. page' = Fadings!Folded(base, s)
    <3>1. page' = Tooltips!FoldLeft(Tooltips!Complete, base, s)
      BY DEF Tooltips!FadingEnd
    <3> HIDE DEF base, s
    <3> QED
      BY <3>1, FadingsFold
  <2>3. N \in Nat /\ DOMAIN s = 1 .. N /\ \A n \in 1 .. N : s[n] \in Ends
    BY <2>1, ElementOf
  <2>4. none \in Seq(Ends)
    OBVIOUS
  <2> HIDE DEF none, s, N
  <2>5. base \in same
    <3>1. base \in TipStates /\ base.scripted = page.scripted
      BY <2>1, <2>4 DEF TipStates
    <3> QED
      BY <1>2, <3>1
  <2>6. \A t \in same, n \in 1 .. N : Tooltips!Complete(t, s[n]) \in same
    BY <2>3, CompleteTyped
  <2> HIDE DEF same, base
  <2>7. page' \in same
    BY <2>2, <2>3, <2>5, <2>6, Fadings!FoldStays
  <2> QED
    BY <2>7 DEF same, TipInv
<1> QED
  BY <1>1, <1>2 DEF TipInv

\* Whatever happens keeps the invariant of a tip.
LEMMA TipKeeps ==
    ASSUME TipInv(page), Tooltips!TooltipNext
    PROVE  TipInv(page')
<1>1. "click" \in Tooltips!Reasons
  BY DEF Tooltips!Reasons
<1> QED
  BY <1>1, ReasonsKeep, CallsKeep, TipTimeoutKeeps, TipFadingKeeps
  DEF Tooltips!TooltipNext, Tooltips!TooltipRuns

\* The invariant of a tip has what the runs check of it.
LEMMA TipSafe ==
    ASSUME TipInv(page)
    PROVE  Tooltips!TipAgrees
<1> SUFFICES ASSUME page.timer = "none", page.ends = <<>>, ~page.scripted
             PROVE  /\ page.state = {} => ~page.in /\ ~page.inserted /\ ~page.described
                    /\ page.state # {} /\ ~page.hurried => page.in /\ page.inserted
  BY DEF Tooltips!TipAgrees, Tooltips!TooltipQuiet
<1>1. Unscripted(page)
  BY DEF TipInv
<1>2. page.state = {} => ~page.in /\ ~page.inserted /\ ~page.described
  BY <1>1 DEF Unscripted, Leaving, LastHidden, TipInv, TipStates
<1>3. page.state # {} /\ ~page.hurried => page.in /\ page.inserted
  BY <1>1 DEF Unscripted, Calm
<1> QED
  BY <1>2, <1>3

\* The invariant has the tips' type.
LEMMA TipTypes ==
    ASSUME TipInv(page)
    PROVE  Tooltips!TooltipTypeOK
BY DEF TipInv, TipStates, Ends, Tooltips!TooltipTypeOK

Hidings == INSTANCE Folding WITH Op <- ModalBoxes!HideModal
Callings == INSTANCE Folding WITH Op <- ModalBoxes!CalledBack

(***************************************************************************)
(* Dialogs that cover the page: the types.                                 *)
(***************************************************************************)
Whats == {"appear", "release", "remove"}
Drops == [of : Pair, there : BOOLEAN, ends : Seq(Whats)]
Callbacks == [of : Pair, what : Whats]
ModalStates ==
    [shown : SUBSET Pair, seen : SUBSET Pair, backdrop : [Pair -> Nat], drops : Seq(Drops),
     leaving : [Pair -> Nat], entering : [Pair -> Nat], original : [Pair -> Nat],
     pad : Nat, open : BOOLEAN, trap : Pair \cup {0}, resized : SUBSET Pair, ignore : SUBSET Pair,
     fade : BOOLEAN, covers : BOOLEAN, calls : Nat, hurried : BOOLEAN, stacked : BOOLEAN]

\* A backdrop is one of those made.
ModalTyped(s) == s \in ModalStates /\ \A m \in Pair : s.backdrop[m] \in 0 .. Len(s.drops)

\* What no operation on the dialogs touches.
Follows(s, t) ==
    /\ ModalTyped(t) /\ t.fade = s.fade /\ t.covers = s.covers
    /\ t.calls = s.calls /\ t.hurried = s.hurried /\ t.stacked = s.stacked /\ t.ignore = s.ignore

\* What was kept step by step is kept.
LEMMA FollowsOn ==
    ASSUME NEW s, NEW t, NEW u, Follows(s, t), Follows(t, u)
    PROVE  Follows(s, u)
BY DEF Follows

\* The dialogs are numbered, and 0 is none of them.
LEMMA PairIn == Pair \subseteq Nat /\ 0 \notin Pair
BY PairAssumption

\* Everything but the backdrops that may change.
LEMMA FieldsTyped ==
    ASSUME NEW s, ModalTyped(s), NEW t \in ModalStates,
           t.drops = s.drops, t.backdrop = s.backdrop, t.fade = s.fade, t.covers = s.covers,
           t.calls = s.calls, t.hurried = s.hurried, t.stacked = s.stacked, t.ignore = s.ignore
    PROVE  Follows(s, t)
BY DEF Follows, ModalTyped

\* The dialog is shown at last.
Appears(s, m, t) ==
    /\ Follows(s, t) /\ t.shown = s.shown /\ t.seen = s.seen \cup {m}
    /\ t.backdrop = s.backdrop /\ t.drops = s.drops /\ t.leaving = s.leaving
    /\ t.entering[m] = IF s.fade THEN s.entering[m] + 1 ELSE s.entering[m]
    /\ \A n \in Pair \ {m} : t.entering[n] = s.entering[n]
    /\ t.original = s.original /\ t.pad = s.pad /\ t.open = s.open /\ t.trap = m
    /\ t.resized = s.resized

\* What the callback that lets a dialog appear changes.
LEMMA AppearIs ==
    ASSUME NEW s, ModalTyped(s), NEW m \in Pair
    PROVE  Appears(s, m, ModalBoxes!Appear(s, m))
<1> DEFINE t == ModalBoxes!Appear(s, m)
           more == IF s.fade THEN s.entering[m] + 1 ELSE s.entering[m]
           entering == [s.entering EXCEPT ![m] = more]
           seen == s.seen \cup {m}
<1>1. s \in ModalStates /\ s.entering \in [Pair -> Nat] /\ s.seen \in SUBSET Pair
  BY DEF ModalTyped, ModalStates
<1>2. t = [s EXCEPT !.seen = seen, !.trap = m, !.entering = entering]
  BY <1>1 DEF ModalBoxes!Appear, ModalStates
<1>3. more \in Nat /\ seen \in SUBSET Pair /\ m \in Nat
  BY <1>1, PairIn
<1> HIDE DEF more, seen, t
<1>4. /\ entering \in [Pair -> Nat] /\ entering[m] = more
      /\ \A n \in Pair \ {m} : entering[n] = s.entering[n]
  BY <1>1, <1>3
<1> HIDE DEF entering
<1>5. /\ t \in ModalStates /\ t.shown = s.shown /\ t.seen = seen /\ t.backdrop = s.backdrop
      /\ t.drops = s.drops /\ t.leaving = s.leaving /\ t.entering = entering
      /\ t.original = s.original /\ t.pad = s.pad /\ t.open = s.open /\ t.trap = m
      /\ t.resized = s.resized /\ t.ignore = s.ignore /\ t.fade = s.fade /\ t.covers = s.covers
      /\ t.calls = s.calls /\ t.hurried = s.hurried /\ t.stacked = s.stacked
  BY <1>1, <1>2, <1>3, <1>4 DEF ModalStates
<1>6. Follows(s, t)
  BY <1>5, FieldsTyped
<1> QED
  BY <1>4, <1>5, <1>6 DEF Appears, seen, more, t

\* The page is given back.
Releases(s, m, t) ==
    /\ Follows(s, t) /\ t.shown = s.shown /\ t.seen = s.seen
    /\ t.backdrop = s.backdrop /\ t.drops = s.drops /\ t.leaving = s.leaving
    /\ t.entering = s.entering /\ t.original = s.original /\ t.pad = s.original[m]
    /\ t.open = FALSE /\ t.trap = s.trap /\ t.resized = s.resized

\* What the callback that releases the page changes.
LEMMA ReleaseIs ==
    ASSUME NEW s, ModalTyped(s), NEW m \in Pair
    PROVE  Releases(s, m, ModalBoxes!Release(s, m))
<1> DEFINE t == ModalBoxes!Release(s, m)
           pad == s.original[m]
<1>1. s \in ModalStates /\ pad \in Nat
  BY DEF ModalTyped, ModalStates
<1>2. t = [s EXCEPT !.open = FALSE, !.pad = pad]
  BY DEF ModalBoxes!Release
<1> HIDE DEF t, pad
<1>3. /\ t \in ModalStates /\ t.shown = s.shown /\ t.seen = s.seen /\ t.backdrop = s.backdrop
      /\ t.drops = s.drops /\ t.leaving = s.leaving /\ t.entering = s.entering
      /\ t.original = s.original /\ t.pad = pad /\ t.open = FALSE /\ t.trap = s.trap
      /\ t.resized = s.resized /\ t.ignore = s.ignore /\ t.fade = s.fade /\ t.covers = s.covers
      /\ t.calls = s.calls /\ t.hurried = s.hurried /\ t.stacked = s.stacked
  BY <1>1, <1>2 DEF ModalStates
<1>4. Follows(s, t)
  BY <1>3, FieldsTyped
<1> QED
  BY <1>3, <1>4 DEF Releases, pad, t


\* A sequence one element of which is replaced, or that one is appended to.
LEMMA Replaced ==
    ASSUME NEW T, NEW q \in Seq(T), NEW k \in 1 .. Len(q), NEW v \in T
    PROVE  /\ [q EXCEPT ![k] = v] \in Seq(T) /\ Len([q EXCEPT ![k] = v]) = Len(q)
           /\ [q EXCEPT ![k] = v][k] = v
           /\ \A i \in 1 .. Len(q) : i # k => [q EXCEPT ![k] = v][i] = q[i]
OBVIOUS

\* The backdrop of a modal is taken away, if it has one, and the page given back.
Removes(s, m, t) ==
    /\ Follows(s, t) /\ t.shown = s.shown /\ t.seen = s.seen
    /\ t.leaving = s.leaving /\ t.entering = s.entering /\ t.original = s.original
    /\ t.pad = s.original[m] /\ t.open = FALSE /\ t.trap = s.trap /\ t.resized = s.resized
    /\ t.backdrop[m] = 0 /\ \A n \in Pair \ {m} : t.backdrop[n] = s.backdrop[n]
    /\ Len(t.drops) = Len(s.drops)
    /\ \A i \in 1 .. Len(s.drops) : /\ i # s.backdrop[m] => t.drops[i] = s.drops[i]
                                    /\ t.drops[i].of = s.drops[i].of
                                    /\ t.drops[i].ends = s.drops[i].ends
                                    /\ i = s.backdrop[m] => t.drops[i].there = FALSE

\* What the callback that removes the backdrop changes.
LEMMA RemoveIs ==
    ASSUME NEW s, ModalTyped(s), NEW m \in Pair
    PROVE  Removes(s, m, ModalBoxes!Callback(s, m, "remove"))
<1> DEFINE k == s.backdrop[m]
           gone == IF k = 0 THEN s
                   ELSE [s EXCEPT !.drops[k].there = FALSE, !.backdrop[m] = 0]
           t == ModalBoxes!Callback(s, m, "remove")
<1>1. t = ModalBoxes!Release(gone, m)
  BY DEF ModalBoxes!Callback, ModalBoxes!Nobody
<1>2. /\ s \in ModalStates /\ s.drops \in Seq(Drops) /\ s.backdrop \in [Pair -> Nat]
      /\ k \in 0 .. Len(s.drops)
  BY DEF ModalTyped, ModalStates
<1> HIDE DEF t
<1>3. CASE k = 0
  <2>1. Releases(s, m, t)
    BY <1>1, <1>3, ReleaseIs
  <2> QED
    BY <1>2, <1>3, <2>1 DEF Releases, Removes, t
<1>4. CASE k # 0
  <2> DEFINE drop == [s.drops[k] EXCEPT !.there = FALSE]
             drops == [s.drops EXCEPT ![k] = drop]
             backdrop == [s.backdrop EXCEPT ![m] = 0]
  <2>1. k \in 1 .. Len(s.drops)
    BY <1>2, <1>4
  <2>2. s.drops[k] \in Drops
    BY <1>2, <2>1
  <2>3. drop \in Drops /\ drop.there = FALSE /\ drop.of = s.drops[k].of /\ drop.ends = s.drops[k].ends
    BY <2>2 DEF Drops
  <2>4. gone = [s EXCEPT !.drops = drops, !.backdrop = backdrop]
    BY <1>2, <1>4 DEF ModalStates
  <2> HIDE DEF drop, k
  <2>5. /\ drops \in Seq(Drops) /\ Len(drops) = Len(s.drops) /\ drops[k] = drop
        /\ \A i \in 1 .. Len(s.drops) : i # k => drops[i] = s.drops[i]
    BY <1>2, <2>1, <2>3, Replaced
  <2>6. /\ backdrop \in [Pair -> Nat] /\ backdrop[m] = 0
        /\ \A n \in Pair \ {m} : backdrop[n] = s.backdrop[n]
    BY <1>2
  <2> HIDE DEF drops, backdrop, gone
  <2>7. /\ gone \in ModalStates /\ gone.drops = drops /\ gone.backdrop = backdrop
        /\ gone.shown = s.shown /\ gone.seen = s.seen /\ gone.leaving = s.leaving
        /\ gone.entering = s.entering /\ gone.original = s.original /\ gone.trap = s.trap
        /\ gone.resized = s.resized /\ gone.ignore = s.ignore /\ gone.fade = s.fade
        /\ gone.covers = s.covers /\ gone.calls = s.calls /\ gone.hurried = s.hurried
        /\ gone.stacked = s.stacked
    BY <1>2, <2>4, <2>5, <2>6 DEF ModalStates
  <2>8. ModalTyped(gone)
    <3>1. ASSUME NEW n \in Pair PROVE backdrop[n] \in 0 .. Len(drops)
      <4>1. CASE n = m
        BY <2>5, <2>6, <4>1, <1>2
      <4>2. CASE n # m
        BY <2>5, <2>6, <4>2 DEF ModalTyped
      <4> QED
        BY <4>1, <4>2
    <3> QED
      BY <2>7, <3>1 DEF ModalTyped
  <2>9. Releases(gone, m, t)
    BY <1>1, <2>8, ReleaseIs
  <2>10. Follows(s, t)
    BY <2>7, <2>9 DEF Releases, Follows
  <2>11. \A i \in 1 .. Len(s.drops) : /\ i # k => drops[i] = s.drops[i]
                                      /\ drops[i].of = s.drops[i].of
                                      /\ drops[i].ends = s.drops[i].ends
                                      /\ i = k => drops[i].there = FALSE
    BY <2>3, <2>5
  <2>12. Removes(s, m, t)
    BY <2>5, <2>6, <2>7, <2>9, <2>10, <2>11 DEF Releases, Removes, k
  <2> QED
    BY <2>12 DEF t
<1> QED
  BY <1>3, <1>4

\* A callback keeps the types, and what no callback changes.
LEMMA CallbackFollows ==
    ASSUME NEW s, ModalTyped(s), NEW m \in Pair, NEW what \in Whats
    PROVE  Follows(s, ModalBoxes!Callback(s, m, what))
<1>1. CASE what = "appear"
  BY <1>1, AppearIs DEF ModalBoxes!Callback, Appears
<1>2. CASE what = "release"
  BY <1>2, ReleaseIs DEF ModalBoxes!Callback, Releases
<1>3. CASE what = "remove"
  BY <1>3, RemoveIs DEF Removes
<1> QED
  BY <1>1, <1>2, <1>3 DEF Whats


\* All but the backdrops is as it was.
SameDialogs(s, t) ==
    /\ t.shown = s.shown /\ t.seen = s.seen /\ t.leaving = s.leaving /\ t.entering = s.entering
    /\ t.original = s.original /\ t.pad = s.pad /\ t.open = s.open /\ t.trap = s.trap
    /\ t.resized = s.resized

\* A backdrop is made, on which the callbacks of ends wait.
Makes(s, m, ends, t) ==
    /\ Follows(s, t) /\ SameDialogs(s, t)
    /\ t.backdrop[m] = Len(s.drops) + 1 /\ \A n \in Pair \ {m} : t.backdrop[n] = s.backdrop[n]
    /\ Len(t.drops) = Len(s.drops) + 1
    /\ t.drops[Len(s.drops) + 1] = [of |-> m, there |-> TRUE, ends |-> ends]
    /\ \A i \in 1 .. Len(s.drops) : t.drops[i] = s.drops[i]

\* What making a backdrop changes.
LEMMA MakeIs ==
    ASSUME NEW s, ModalTyped(s), NEW m \in Pair, NEW ends \in Seq(Whats)
    PROVE  Makes(s, m, ends,
                 [s EXCEPT !.drops = Append(@, [of |-> m, there |-> TRUE, ends |-> ends]),
                           !.backdrop[m] = Len(s.drops) + 1])
<1> DEFINE drop == [of |-> m, there |-> TRUE, ends |-> ends]
           drops == Append(s.drops, drop)
           k == Len(s.drops) + 1
           backdrop == [s.backdrop EXCEPT ![m] = k]
           t == [s EXCEPT !.drops = Append(@, drop), !.backdrop[m] = Len(s.drops) + 1]
<1>1. s \in ModalStates /\ s.drops \in Seq(Drops) /\ s.backdrop \in [Pair -> Nat]
  BY DEF ModalTyped, ModalStates
<1>2. drop \in Drops
  BY DEF Drops
<1>3. t = [s EXCEPT !.drops = drops, !.backdrop = backdrop]
  BY <1>1 DEF ModalStates
<1>4. Len(s.drops) \in Nat /\ k \in Nat
  BY <1>1
<1> HIDE DEF drop, t
<1>5. /\ drops \in Seq(Drops) /\ Len(drops) = k /\ drops[k] = drop
      /\ \A i \in 1 .. Len(s.drops) : drops[i] = s.drops[i]
  BY <1>1, <1>2, Lengthened
<1>6. /\ backdrop \in [Pair -> Nat] /\ backdrop[m] = k
      /\ \A n \in Pair \ {m} : backdrop[n] = s.backdrop[n]
  BY <1>1, <1>4
<1> HIDE DEF drops, backdrop
<1>7. /\ t \in ModalStates /\ t.drops = drops /\ t.backdrop = backdrop
      /\ t.shown = s.shown /\ t.seen = s.seen /\ t.leaving = s.leaving
      /\ t.entering = s.entering /\ t.original = s.original /\ t.trap = s.trap
      /\ t.pad = s.pad /\ t.open = s.open
      /\ t.resized = s.resized /\ t.ignore = s.ignore /\ t.fade = s.fade
      /\ t.covers = s.covers /\ t.calls = s.calls /\ t.hurried = s.hurried
      /\ t.stacked = s.stacked
  BY <1>1, <1>3, <1>5, <1>6 DEF ModalStates
<1>8. ModalTyped(t)
  <2>1. ASSUME NEW n \in Pair PROVE backdrop[n] \in 0 .. Len(drops)
    <3>1. CASE n = m
      BY <1>4, <1>5, <1>6, <3>1
    <3>2. CASE n # m
      BY <1>4, <1>5, <1>6, <3>2 DEF ModalTyped
    <3> QED
      BY <3>1, <3>2
  <2> QED
    BY <1>7, <2>1 DEF ModalTyped
<1>9. Follows(s, t)
  BY <1>7, <1>8 DEF Follows
<1>10. Makes(s, m, ends, t)
  BY <1>5, <1>6, <1>7, <1>9 DEF Makes, SameDialogs, drop
<1> QED
  BY <1>10 DEF t, drop

\* Something waits for the backdrop k of the state.
Waits(s, k, ends, t) ==
    /\ Follows(s, t) /\ SameDialogs(s, t) /\ t.backdrop = s.backdrop
    /\ Len(t.drops) = Len(s.drops) /\ t.drops[k] = [s.drops[k] EXCEPT !.ends = ends]
    /\ \A i \in 1 .. Len(s.drops) : i # k => t.drops[i] = s.drops[i]

\* What waiting for a backdrop's transition changes.
LEMMA WaitIs ==
    ASSUME NEW s, ModalTyped(s), NEW k \in 1 .. Len(s.drops), NEW ends \in Seq(Whats)
    PROVE  Waits(s, k, ends, [s EXCEPT !.drops[k].ends = ends])
<1> DEFINE drop == [s.drops[k] EXCEPT !.ends = ends]
           drops == [s.drops EXCEPT ![k] = drop]
           t == [s EXCEPT !.drops[k].ends = ends]
<1>1. s \in ModalStates /\ s.drops \in Seq(Drops)
  BY DEF ModalTyped, ModalStates
<1>2. drop \in Drops
  <2>1. s.drops[k] \in Drops
    BY <1>1
  <2> QED
    BY <2>1 DEF Drops
<1>3. t = [s EXCEPT !.drops = drops]
  BY <1>1 DEF ModalStates
<1> HIDE DEF drop, t
<1>4. /\ drops \in Seq(Drops) /\ Len(drops) = Len(s.drops) /\ drops[k] = drop
      /\ \A i \in 1 .. Len(s.drops) : i # k => drops[i] = s.drops[i]
  BY <1>1, <1>2, Replaced
<1> HIDE DEF drops
<1>5. /\ t \in ModalStates /\ t.drops = drops /\ t.backdrop = s.backdrop
      /\ t.shown = s.shown /\ t.seen = s.seen /\ t.leaving = s.leaving
      /\ t.entering = s.entering /\ t.original = s.original /\ t.trap = s.trap
      /\ t.pad = s.pad /\ t.open = s.open
      /\ t.resized = s.resized /\ t.ignore = s.ignore /\ t.fade = s.fade
      /\ t.covers = s.covers /\ t.calls = s.calls /\ t.hurried = s.hurried
      /\ t.stacked = s.stacked
  BY <1>1, <1>3, <1>4 DEF ModalStates
<1>6. Follows(s, t)
  BY <1>4, <1>5 DEF Follows, ModalTyped
<1>7. Waits(s, k, ends, t)
  BY <1>4, <1>5, <1>6 DEF Waits, SameDialogs, drop
<1> QED
  BY <1>7 DEF t

\* What backdrop() does: a backdrop is made, or its removal is asked for, or the
\* callback runs at once.
LEMMA BackdropIs ==
    ASSUME NEW s, ModalTyped(s), NEW m \in Pair, NEW what \in Whats
    PROVE  LET t == ModalBoxes!Backdrop(s, m, what) IN
           /\ Follows(s, t)
           /\ m \in s.shown /\ s.covers =>
                \E made : /\ Makes(s, m, IF s.fade THEN <<what>> ELSE <<>>, made)
                          /\ t = IF s.fade THEN made ELSE ModalBoxes!Callback(made, m, what)
           /\ m \notin s.shown /\ s.backdrop[m] # 0 =>
                IF s.fade THEN Waits(s, s.backdrop[m],
                                     Append(s.drops[s.backdrop[m]].ends, "remove"), t)
                ELSE Removes(s, m, t)
           /\ ~(m \in s.shown /\ s.covers) /\ ~(m \notin s.shown /\ s.backdrop[m] # 0) =>
                t = ModalBoxes!Callback(s, m, what)
<1> DEFINE t == ModalBoxes!Backdrop(s, m, what)
           ends == IF s.fade THEN <<what>> ELSE <<>>
           made == [s EXCEPT !.drops = Append(@, [of |-> m, there |-> TRUE, ends |-> ends]),
                             !.backdrop[m] = Len(s.drops) + 1]
<1>1. CASE m \in s.shown /\ s.covers
  <2>1. t = IF s.fade THEN made ELSE ModalBoxes!Callback(made, m, what)
    BY <1>1, Zenon DEF ModalBoxes!Backdrop
  <2>2. ends \in Seq(Whats)
    OBVIOUS
  <2> HIDE DEF ends, t
  <2>3. Makes(s, m, ends, made)
    BY <2>2, MakeIs
  <2> HIDE DEF made
  <2>4. Follows(s, made) /\ ModalTyped(made)
    BY <2>3 DEF Makes, Follows
  <2>5. Follows(s, t)
    <3>1. CASE s.fade
      BY <2>1, <2>4, <3>1
    <3>2. CASE ~s.fade
      <4>1. Follows(made, t)
        BY <2>1, <2>4, <3>2, CallbackFollows
      <4> QED
        BY <2>4, <4>1, FollowsOn
    <3> QED
      BY <3>1, <3>2
  <2> QED
    BY <1>1, <2>1, <2>3, <2>5 DEF t, ends
<1>2. CASE m \notin s.shown /\ s.backdrop[m] # 0
  <2> DEFINE k == s.backdrop[m]
             after == Append(s.drops[k].ends, "remove")
  <2>1. t = IF s.fade THEN [s EXCEPT !.drops[k].ends = after]
            ELSE ModalBoxes!Callback(s, m, "remove")
    <3>1. CASE s.fade
      <4>1. t = [s EXCEPT !.drops[s.backdrop[m]].ends = Append(@, "remove")]
        BY <1>2, <3>1, Zenon DEF ModalBoxes!Backdrop, ModalBoxes!Nobody
      <4>2. s.drops \in Seq(Drops) /\ k \in 1 .. Len(s.drops) /\ s \in ModalStates
        BY <1>2 DEF ModalTyped, ModalStates
      <4>3. s.drops[k] \in Drops
        BY <4>2
      <4>4. [s EXCEPT !.drops[k].ends = Append(@, "remove")] = [s EXCEPT !.drops[k].ends = after]
        BY <4>2, <4>3 DEF ModalStates, Drops
      <4> QED
        BY <3>1, <4>1, <4>4
    <3>2. CASE ~s.fade
      BY <1>2, <3>2, Zenon DEF ModalBoxes!Backdrop, ModalBoxes!Nobody
    <3> QED
      BY <3>1, <3>2
  <2>2. k \in 1 .. Len(s.drops) /\ s.drops \in Seq(Drops)
    BY <1>2 DEF ModalTyped, ModalStates
  <2>3. after \in Seq(Whats)
    <3>1. s.drops[k] \in Drops
      BY <2>2
    <3>2. s.drops[k].ends \in Seq(Whats) /\ "remove" \in Whats
      BY <3>1 DEF Drops, Whats
    <3> QED
      BY <3>2
  <2> HIDE DEF t, after, k
  <2>4. CASE s.fade
    <3>1. Waits(s, k, after, t)
      BY <2>1, <2>2, <2>3, <2>4, WaitIs
    <3> QED
      BY <1>2, <2>4, <3>1 DEF Waits, t, after, k
  <2>5. CASE ~s.fade
    <3>1. Removes(s, m, t)
      BY <2>1, <2>5, RemoveIs
    <3> QED
      BY <1>2, <2>5, <3>1 DEF Removes, t
  <2> QED
    BY <2>4, <2>5
<1>3. CASE ~(m \in s.shown /\ s.covers) /\ ~(m \notin s.shown /\ s.backdrop[m] # 0)
  <2>1. t = ModalBoxes!Callback(s, m, what)
    BY <1>3, Zenon DEF ModalBoxes!Backdrop, ModalBoxes!Nobody
  <2> QED
    BY <1>3, <2>1, CallbackFollows
<1> QED
  BY <1>1, <1>2, <1>3


(***************************************************************************)
(* The course of a dialog, when none is called during its own transitions. *)
(***************************************************************************)
EndsOf(s, m) == IF s.backdrop[m] = 0 THEN <<>> ELSE s.drops[s.backdrop[m]].ends

\* Every backdrop is its modal's, or gone.
DropsOK(s) ==
    /\ \A m \in Pair : s.backdrop[m] # 0 => s.drops[s.backdrop[m]].of = m
    /\ \A i \in 1 .. Len(s.drops) :
          \/ s.backdrop[s.drops[i].of] = i
          \/ ~s.drops[i].there /\ s.drops[i].ends = <<>>

Still(s, m) == s.leaving[m] = 0 /\ s.entering[m] = 0
AtRest(s, m) == m \notin s.shown /\ m \notin s.seen /\ Still(s, m) /\ s.backdrop[m] = 0
Opening(s, m) ==
    /\ m \in s.shown /\ m \notin s.seen /\ Still(s, m)
    /\ s.fade /\ s.covers /\ s.backdrop[m] # 0 /\ EndsOf(s, m) = <<"appear">>
Backed(s, m) == (s.backdrop[m] # 0) = s.covers /\ EndsOf(s, m) = <<>>
Up(s, m) ==
    /\ m \in s.shown /\ m \in s.seen /\ s.leaving[m] = 0 /\ s.entering[m] \in {0, 1}
    /\ Backed(s, m)
Parting(s, m) ==
    /\ m \notin s.shown /\ m \in s.seen /\ s.leaving[m] = 1 /\ s.entering[m] = 0
    /\ s.fade /\ Backed(s, m)
Clearing(s, m) ==
    /\ m \notin s.shown /\ m \notin s.seen /\ Still(s, m)
    /\ s.fade /\ s.covers /\ s.backdrop[m] # 0 /\ EndsOf(s, m) = <<"remove">>

InCourse(s, m) ==
    AtRest(s, m) \/ Opening(s, m) \/ Up(s, m) \/ Parting(s, m) \/ Clearing(s, m)

\* The others' backdrops are as they were; and all that is theirs.
BackdropsApart(s, m, t) ==
    \A n \in Pair \ {m} : t.backdrop[n] = s.backdrop[n] /\ EndsOf(t, n) = EndsOf(s, n)
Apart(s, m, t) ==
    /\ BackdropsApart(s, m, t) /\ t.fade = s.fade /\ t.covers = s.covers
    /\ \A n \in Pair \ {m} : /\ n \in t.shown <=> n \in s.shown
                             /\ n \in t.seen <=> n \in s.seen
                             /\ t.leaving[n] = s.leaving[n] /\ t.entering[n] = s.entering[n]
                             /\ t.original[n] = s.original[n]

\* Removing a backdrop leaves the other dialogs' backdrops as they were.
LEMMA ApartRemoved ==
    ASSUME NEW s, ModalTyped(s), NEW m \in Pair, NEW t, Removes(s, m, t), DropsOK(s),
           EndsOf(s, m) = <<>>
    PROVE  BackdropsApart(s, m, t) /\ DropsOK(t)
<1> DEFINE N == Len(s.drops)
<1>1. /\ N \in Nat /\ Len(t.drops) = N /\ \A n \in Pair : s.backdrop[n] \in 0 .. N
      /\ \A i \in 1 .. N : s.drops[i].of \in Pair
  <2>1. s.drops \in Seq(Drops)
    BY DEF ModalTyped, ModalStates
  <2>2. \A i \in 1 .. N : s.drops[i] \in Drops
    BY <2>1
  <2> QED
    BY <2>1, <2>2 DEF ModalTyped, Removes, Drops
<1> HIDE DEF N
<1>2. /\ t.backdrop[m] = 0 /\ \A n \in Pair \ {m} : t.backdrop[n] = s.backdrop[n]
      /\ \A i \in 1 .. N : /\ i # s.backdrop[m] => t.drops[i] = s.drops[i]
                           /\ t.drops[i].of = s.drops[i].of
                           /\ t.drops[i].ends = s.drops[i].ends
                           /\ i = s.backdrop[m] => t.drops[i].there = FALSE
  BY DEF Removes, N
<1>3. \A n \in Pair : s.backdrop[n] # 0 => s.backdrop[n] \in 1 .. N
  BY <1>1
<1>4. BackdropsApart(s, m, t)
  BY <1>2, <1>3 DEF BackdropsApart, EndsOf
<1>5. \A n \in Pair : t.backdrop[n] # 0 => t.drops[t.backdrop[n]].of = n
  BY <1>2, <1>3 DEF DropsOK
<1>6. ASSUME NEW i \in 1 .. N
      PROVE  t.backdrop[t.drops[i].of] = i \/ (~t.drops[i].there /\ t.drops[i].ends = <<>>)
  <2>1. s.backdrop[s.drops[i].of] = i \/ (~s.drops[i].there /\ s.drops[i].ends = <<>>)
    BY DEF DropsOK, N
  <2>2. CASE i = s.backdrop[m]
    BY <1>2, <2>2 DEF EndsOf
  <2>3. CASE i # s.backdrop[m]
    <3>1. t.drops[i] = s.drops[i] /\ s.drops[i].of \in Pair
      BY <1>1, <1>2, <2>3
    <3> QED
      BY <1>2, <2>1, <2>3, <3>1
  <2> QED
    BY <2>2, <2>3
<1> QED
  BY <1>1, <1>4, <1>5, <1>6 DEF DropsOK

\* So does waiting for its transition.
LEMMA ApartWaiting ==
    ASSUME NEW s, ModalTyped(s), NEW m \in Pair, NEW ends, NEW t,
           s.backdrop[m] # 0, Waits(s, s.backdrop[m], ends, t), DropsOK(s)
    PROVE  BackdropsApart(s, m, t) /\ DropsOK(t) /\ EndsOf(t, m) = ends
<1> DEFINE N == Len(s.drops)
           k == s.backdrop[m]
<1>1. /\ N \in Nat /\ Len(t.drops) = N /\ k \in 1 .. N
      /\ \A n \in Pair : s.backdrop[n] # 0 => s.backdrop[n] \in 1 .. N
      /\ s.drops[k] \in Drops
  <2>1. s.drops \in Seq(Drops) /\ k \in 1 .. N
    BY DEF ModalTyped, ModalStates
  <2> QED
    BY <2>1 DEF ModalTyped, Waits
<1>2. /\ t.backdrop = s.backdrop /\ t.drops[k] = [s.drops[k] EXCEPT !.ends = ends]
      /\ \A i \in 1 .. N : i # k => t.drops[i] = s.drops[i]
  BY DEF Waits
<1>3. t.drops[k].of = s.drops[k].of /\ t.drops[k].ends = ends /\ s.drops[k].of = m
  BY <1>1, <1>2 DEF Drops, DropsOK
<1> HIDE DEF N, k
<1>4. \A n \in Pair \ {m} : s.backdrop[n] # k
  BY <1>1, <1>3 DEF DropsOK, k
<1>5. BackdropsApart(s, m, t)
  BY <1>1, <1>2, <1>4 DEF BackdropsApart, EndsOf
<1>6. ASSUME NEW n \in Pair, t.backdrop[n] # 0 PROVE t.drops[t.backdrop[n]].of = n
  <2>1. s.backdrop[n] \in 1 .. N /\ s.drops[s.backdrop[n]].of = n
    BY <1>1, <1>2, <1>6 DEF DropsOK
  <2> QED
    BY <1>2, <1>3, <2>1
<1>7. ASSUME NEW i \in 1 .. N
      PROVE  t.backdrop[t.drops[i].of] = i \/ (~t.drops[i].there /\ t.drops[i].ends = <<>>)
  <2>1. CASE i = k
    BY <1>2, <1>3, <2>1 DEF k
  <2>2. CASE i # k
    BY <1>2, <2>2 DEF DropsOK, N
  <2> QED
    BY <2>1, <2>2
<1>8. EndsOf(t, m) = ends
  BY <1>1, <1>2, <1>3 DEF EndsOf, k
<1> QED
  BY <1>1, <1>5, <1>6, <1>7, <1>8 DEF DropsOK

\* So does making one.
LEMMA ApartMade ==
    ASSUME NEW s, ModalTyped(s), NEW m \in Pair, NEW ends, NEW t,
           s.backdrop[m] = 0, Makes(s, m, ends, t), DropsOK(s)
    PROVE  BackdropsApart(s, m, t) /\ DropsOK(t) /\ EndsOf(t, m) = ends /\ t.backdrop[m] # 0
<1> DEFINE N == Len(s.drops)
<1>1. /\ N \in Nat /\ Len(t.drops) = N + 1
      /\ \A n \in Pair : s.backdrop[n] # 0 => s.backdrop[n] \in 1 .. N
      /\ \A i \in 1 .. N : s.drops[i].of \in Pair
  <2>1. s.drops \in Seq(Drops)
    BY DEF ModalTyped, ModalStates
  <2>2. \A i \in 1 .. N : s.drops[i] \in Drops
    BY <2>1
  <2> QED
    BY <2>1, <2>2 DEF ModalTyped, Makes, Drops
<1>2. /\ t.backdrop[m] = N + 1 /\ \A n \in Pair \ {m} : t.backdrop[n] = s.backdrop[n]
      /\ t.drops[N + 1] = [of |-> m, there |-> TRUE, ends |-> ends]
      /\ \A i \in 1 .. N : t.drops[i] = s.drops[i]
  BY DEF Makes
<1> HIDE DEF N
<1>3. BackdropsApart(s, m, t)
  BY <1>1, <1>2 DEF BackdropsApart, EndsOf
<1>4. \A n \in Pair : t.backdrop[n] # 0 => t.drops[t.backdrop[n]].of = n
  BY <1>1, <1>2 DEF DropsOK
<1>5. ASSUME NEW i \in 1 .. N + 1
      PROVE  t.backdrop[t.drops[i].of] = i \/ (~t.drops[i].there /\ t.drops[i].ends = <<>>)
  <2>1. CASE i = N + 1
    BY <1>2, <2>1
  <2>2. CASE i # N + 1
    <3>1. i \in 1 .. N /\ i # 0
      BY <1>1, <2>2
    <3>2. s.backdrop[s.drops[i].of] = i \/ (~s.drops[i].there /\ s.drops[i].ends = <<>>)
      BY <3>1 DEF DropsOK, N
    <3> QED
      BY <1>1, <1>2, <3>1, <3>2
  <2> QED
    BY <2>1, <2>2
<1>6. EndsOf(t, m) = ends /\ t.backdrop[m] # 0
  BY <1>1, <1>2 DEF EndsOf
<1> QED
  BY <1>1, <1>3, <1>4, <1>5, <1>6 DEF DropsOK


\* The dialog is no longer seen.
Unseen(s, m, t) ==
    /\ Follows(s, t) /\ t.shown = s.shown /\ t.seen = s.seen \ {m}
    /\ t.backdrop = s.backdrop /\ t.drops = s.drops /\ t.leaving = s.leaving
    /\ t.entering = s.entering /\ t.original = s.original /\ t.pad = s.pad
    /\ t.open = s.open /\ t.trap = s.trap /\ t.resized = s.resized

\* What taking a dialog out of sight changes.
LEMMA UnseenIs ==
    ASSUME NEW s, ModalTyped(s), NEW m \in Pair
    PROVE  Unseen(s, m, [s EXCEPT !.seen = @ \ {m}])
<1> DEFINE seen == s.seen \ {m}
           t == [s EXCEPT !.seen = seen]
<1>1. s \in ModalStates /\ seen \in SUBSET Pair
  BY DEF ModalTyped, ModalStates
<1>2. t = [s EXCEPT !.seen = @ \ {m}]
  BY <1>1 DEF ModalStates
<1> HIDE DEF seen
<1>3. /\ t \in ModalStates /\ t.shown = s.shown /\ t.seen = seen /\ t.backdrop = s.backdrop
      /\ t.drops = s.drops /\ t.leaving = s.leaving /\ t.entering = s.entering
      /\ t.original = s.original /\ t.pad = s.pad /\ t.open = s.open /\ t.trap = s.trap
      /\ t.resized = s.resized /\ t.ignore = s.ignore /\ t.fade = s.fade /\ t.covers = s.covers
      /\ t.calls = s.calls /\ t.hurried = s.hurried /\ t.stacked = s.stacked
  BY <1>1 DEF ModalStates
<1> HIDE DEF t
<1>4. Follows(s, t)
  BY <1>3, FieldsTyped
<1>5. Unseen(s, m, t)
  BY <1>3, <1>4 DEF Unseen, seen
<1> QED
  BY <1>2, <1>5

\* hideModal keeps the types, and what it does not change.
LEMMA HideModalFollows ==
    ASSUME NEW s, ModalTyped(s), NEW m \in Pair
    PROVE  Follows(s, ModalBoxes!HideModal(s, m))
<1> DEFINE b == [s EXCEPT !.seen = @ \ {m}]
           t == ModalBoxes!Backdrop(b, m, "release")
<1>1. t = ModalBoxes!HideModal(s, m)
  BY Zenon DEF ModalBoxes!HideModal
<1>2. Unseen(s, m, b)
  BY UnseenIs
<1> HIDE DEF b
<1>3. Follows(s, b) /\ ModalTyped(b)
  BY <1>2 DEF Unseen, Follows
<1>4. Follows(b, t)
  <2>1. "release" \in Whats
    BY DEF Whats
  <2> QED
    BY <1>3, <2>1, BackdropIs
<1> HIDE DEF t
<1> QED
  BY <1>1, <1>3, <1>4, FollowsOn

\* The dialog goes, and its backdrop with it.
Goes(s, m, t) ==
    /\ Follows(s, t) /\ Apart(s, m, t) /\ DropsOK(t)
    /\ t.shown = s.shown /\ t.resized = s.resized /\ t.trap = s.trap /\ t.original = s.original
    /\ IF s.fade /\ s.covers THEN Clearing(t, m) /\ t.pad = s.pad /\ t.open = s.open
       ELSE AtRest(t, m) /\ t.pad = s.original[m] /\ ~t.open

\* hideModal, of a dialog that stands with its backdrop: it goes with it.
LEMMA HideModalIs ==
    ASSUME NEW s, ModalTyped(s), NEW m \in Pair, DropsOK(s),
           m \notin s.shown, Still(s, m), Backed(s, m)
    PROVE  Goes(s, m, ModalBoxes!HideModal(s, m))
<1> DEFINE b == [s EXCEPT !.seen = @ \ {m}]
           t == ModalBoxes!Backdrop(b, m, "release")
<1>1. t = ModalBoxes!HideModal(s, m)
  BY Zenon DEF ModalBoxes!HideModal
<1>2. Unseen(s, m, b)
  BY UnseenIs
<1> HIDE DEF b
<1>3. Follows(s, b) /\ ModalTyped(b)
  BY <1>2 DEF Unseen, Follows
<1>4. /\ b.shown = s.shown /\ b.seen = s.seen \ {m} /\ b.backdrop = s.backdrop
      /\ b.drops = s.drops /\ b.leaving = s.leaving /\ b.entering = s.entering
      /\ b.original = s.original /\ b.pad = s.pad /\ b.open = s.open /\ b.trap = s.trap
      /\ b.resized = s.resized /\ b.fade = s.fade /\ b.covers = s.covers
  BY <1>2 DEF Unseen, Follows
<1>5. DropsOK(b) /\ EndsOf(b, m) = <<>> /\ (b.backdrop[m] # 0) = b.covers
  BY <1>4 DEF DropsOK, Backed, EndsOf
<1>6. /\ Follows(b, t)
      /\ m \notin b.shown /\ b.backdrop[m] # 0 =>
           IF b.fade THEN Waits(b, b.backdrop[m], Append(b.drops[b.backdrop[m]].ends, "remove"), t)
           ELSE Removes(b, m, t)
      /\ ~(m \in b.shown /\ b.covers) /\ ~(m \notin b.shown /\ b.backdrop[m] # 0) =>
           t = ModalBoxes!Callback(b, m, "release")
  <2>1. "release" \in Whats
    BY DEF Whats
  <2> QED
    BY <1>3, <2>1, BackdropIs
<1> HIDE DEF t
<1>7. Follows(s, t)
  BY <1>3, <1>6, FollowsOn
<1>8. m \notin b.shown /\ m \notin b.seen /\ Still(b, m)
  BY <1>4 DEF Still
<1>9. ASSUME BackdropsApart(b, m, t), t.shown = b.shown, t.seen = b.seen,
             t.leaving = b.leaving, t.entering = b.entering, t.original = b.original
      PROVE  Apart(s, m, t)
  <2>1. BackdropsApart(s, m, t)
    BY <1>4, <1>9 DEF BackdropsApart, EndsOf
  <2> QED
    BY <1>4, <1>7, <1>9, <2>1 DEF Apart, Follows
<1>10. CASE s.fade /\ s.covers
  <2>1. Waits(b, b.backdrop[m], Append(b.drops[b.backdrop[m]].ends, "remove"), t)
        /\ b.backdrop[m] # 0
    BY <1>4, <1>5, <1>6, <1>8, <1>10
  <2>2. Append(b.drops[b.backdrop[m]].ends, "remove") = <<"remove">>
    <3>1. b.drops[b.backdrop[m]].ends = <<>>
      BY <1>5, <2>1 DEF EndsOf
    <3>2. Append(<<>>, "remove") = <<"remove">>
      OBVIOUS
    <3> QED
      BY <3>1, <3>2
  <2>3. Waits(b, b.backdrop[m], <<"remove">>, t)
    BY <2>1, <2>2
  <2>4. BackdropsApart(b, m, t) /\ DropsOK(t) /\ EndsOf(t, m) = <<"remove">>
    BY <1>3, <1>5, <2>1, <2>3, ApartWaiting
  <2>5. SameDialogs(b, t) /\ t.backdrop = b.backdrop
    BY <2>3 DEF Waits
  <2>6. Apart(s, m, t)
    BY <1>9, <2>4, <2>5 DEF SameDialogs
  <2>7. Clearing(t, m)
    BY <1>7, <1>8, <1>10, <2>1, <2>4, <2>5 DEF Clearing, Still, SameDialogs, Follows
  <2>8. Goes(s, m, t)
    BY <1>4, <1>7, <1>10, <2>4, <2>5, <2>6, <2>7 DEF Goes, SameDialogs
  <2> QED
    BY <1>1, <2>8
<1>11. CASE ~s.fade /\ s.covers
  <2>1. Removes(b, m, t)
    BY <1>4, <1>5, <1>6, <1>8, <1>11
  <2>2. BackdropsApart(b, m, t) /\ DropsOK(t)
    BY <1>3, <1>5, <2>1, ApartRemoved
  <2>3. Apart(s, m, t)
    BY <1>9, <2>1, <2>2 DEF Removes
  <2>4. AtRest(t, m)
    BY <1>8, <2>1 DEF AtRest, Still, Removes
  <2>5. Goes(s, m, t)
    BY <1>4, <1>7, <1>11, <2>1, <2>2, <2>3, <2>4 DEF Goes, Removes
  <2> QED
    BY <1>1, <2>5
<1>12. CASE ~s.covers
  <2>1. b.backdrop[m] = 0 /\ t = ModalBoxes!Callback(b, m, "release")
    BY <1>4, <1>5, <1>6, <1>12
  <2>2. Releases(b, m, t)
    BY <1>3, <2>1, ReleaseIs DEF ModalBoxes!Callback
  <2>3. BackdropsApart(b, m, t) /\ DropsOK(t)
    BY <1>5, <2>2 DEF Releases, BackdropsApart, DropsOK, EndsOf
  <2>4. Apart(s, m, t)
    BY <1>9, <2>2, <2>3 DEF Releases
  <2>5. AtRest(t, m)
    BY <1>8, <2>1, <2>2 DEF AtRest, Still, Releases
  <2>6. Goes(s, m, t)
    BY <1>4, <1>7, <1>12, <2>2, <2>3, <2>4, <2>5 DEF Goes, Releases
  <2> QED
    BY <1>1, <2>6
<1> QED
  <2>1. s.fade \in BOOLEAN /\ s.covers \in BOOLEAN
    BY DEF ModalTyped, ModalStates
  <2> QED
    BY <1>10, <1>11, <1>12, <2>1


\* hide() begins.
HideBegins(s, m, t) ==
    /\ Follows(s, t) /\ t.shown = s.shown \ {m} /\ t.seen = s.seen
    /\ t.backdrop = s.backdrop /\ t.drops = s.drops
    /\ t.leaving[m] = IF s.fade THEN s.leaving[m] + 1 ELSE s.leaving[m]
    /\ \A n \in Pair \ {m} : t.leaving[n] = s.leaving[n]
    /\ t.entering = s.entering /\ t.original = s.original /\ t.pad = s.pad
    /\ t.open = s.open /\ t.trap = 0 /\ t.resized = {}

HideBegun(s, m) ==
    LET hid == [s EXCEPT !.shown = @ \ {m}, !.resized = {}, !.trap = ModalBoxes!Nobody]
    IN  IF s.fade THEN [hid EXCEPT !.leaving[m] = @ + 1] ELSE hid

\* What the beginning of a hiding changes.
LEMMA HideBeginIs ==
    ASSUME NEW s, ModalTyped(s), NEW m \in Pair
    PROVE  HideBegins(s, m, HideBegun(s, m))
<1> DEFINE shown == s.shown \ {m}
           more == IF s.fade THEN s.leaving[m] + 1 ELSE s.leaving[m]
           leaving == [s.leaving EXCEPT ![m] = more]
           t == HideBegun(s, m)
<1>1. s \in ModalStates /\ shown \in SUBSET Pair /\ s.leaving \in [Pair -> Nat] /\ {} \in SUBSET Pair
  BY DEF ModalTyped, ModalStates
<1>2. t = [s EXCEPT !.shown = shown, !.resized = {}, !.trap = 0, !.leaving = leaving]
  <2>1. CASE s.fade
    BY <1>1, <2>1 DEF HideBegun, ModalBoxes!Nobody, ModalStates
  <2>2. CASE ~s.fade
    <3>1. leaving = s.leaving
      BY <1>1, <2>2
    <3>2. t = [s EXCEPT !.shown = shown, !.resized = {}, !.trap = 0]
      BY <2>2 DEF HideBegun, ModalBoxes!Nobody
    <3> HIDE DEF leaving, shown, t
    <3>3. [s EXCEPT !.shown = shown, !.resized = {}, !.trap = 0]
          = [s EXCEPT !.shown = shown, !.resized = {}, !.trap = 0, !.leaving = s.leaving]
      BY <1>1 DEF ModalStates
    <3> QED
      BY <3>1, <3>2, <3>3
  <2> QED
    BY <2>1, <2>2
<1>3. more \in Nat
  BY <1>1
<1> HIDE DEF shown, more, t
<1>4. /\ leaving \in [Pair -> Nat] /\ leaving[m] = more
      /\ \A n \in Pair \ {m} : leaving[n] = s.leaving[n]
  BY <1>1, <1>3
<1> HIDE DEF leaving
<1>5. /\ t \in ModalStates /\ t.shown = shown /\ t.seen = s.seen /\ t.backdrop = s.backdrop
      /\ t.drops = s.drops /\ t.leaving = leaving /\ t.entering = s.entering
      /\ t.original = s.original /\ t.pad = s.pad /\ t.open = s.open /\ t.trap = 0
      /\ t.resized = {} /\ t.ignore = s.ignore /\ t.fade = s.fade /\ t.covers = s.covers
      /\ t.calls = s.calls /\ t.hurried = s.hurried /\ t.stacked = s.stacked
  BY <1>1, <1>2, <1>4 DEF ModalStates
<1>6. Follows(s, t)
  BY <1>5, FieldsTyped
<1>7. HideBegins(s, m, t)
  BY <1>4, <1>5, <1>6 DEF HideBegins, shown, more
<1> QED
  BY <1>7 DEF t

\* Hiding begins, and goes on at once without a fade.
LEMMA HideIs ==
    ASSUME NEW s, NEW m, m \in s.shown
    PROVE  ModalBoxes!Hide(s, m) = IF s.fade THEN HideBegun(s, m)
                                   ELSE ModalBoxes!HideModal(HideBegun(s, m), m)
BY Zenon DEF ModalBoxes!Hide, HideBegun

\* Hiding keeps the types, and what it does not change.
LEMMA HideFollows ==
    ASSUME NEW s, ModalTyped(s), NEW m \in Pair
    PROVE  Follows(s, ModalBoxes!Hide(s, m))
<1> DEFINE b == HideBegun(s, m)
<1>1. CASE m \notin s.shown
  BY <1>1 DEF ModalBoxes!Hide, Follows
<1>2. CASE m \in s.shown
  <2>1. Follows(s, b) /\ ModalTyped(b)
    BY HideBeginIs DEF HideBegins, Follows
  <2>2. ModalBoxes!Hide(s, m) = IF s.fade THEN b ELSE ModalBoxes!HideModal(b, m)
    BY <1>2, HideIs
  <2> HIDE DEF b
  <2>3. Follows(b, ModalBoxes!HideModal(b, m))
    BY <2>1, HideModalFollows
  <2>4. Follows(s, ModalBoxes!HideModal(b, m))
    BY <2>1, <2>3, FollowsOn
  <2> QED
    BY <2>1, <2>2, <2>4
<1> QED
  BY <1>1, <1>2

\* It hides a dialog that is up.
Hidden(s, m, t) ==
    /\ Follows(s, t) /\ Apart(s, m, t) /\ DropsOK(t)
    /\ t.shown = s.shown \ {m} /\ t.resized = {} /\ t.trap = 0 /\ t.original = s.original
    /\ IF s.fade THEN Parting(t, m) /\ t.pad = s.pad /\ t.open = s.open
       ELSE AtRest(t, m) /\ t.pad = s.original[m] /\ ~t.open

\* Hiding a dialog that is up starts it on its way out.
LEMMA HiddenIs ==
    ASSUME NEW s, ModalTyped(s), NEW m \in Pair, DropsOK(s), Up(s, m), s.entering[m] = 0
    PROVE  Hidden(s, m, ModalBoxes!Hide(s, m))
<1> DEFINE b == HideBegun(s, m)
<1>1. HideBegins(s, m, b)
  BY HideBeginIs
<1>2. ModalBoxes!Hide(s, m) = IF s.fade THEN b ELSE ModalBoxes!HideModal(b, m)
  BY HideIs DEF Up
<1> HIDE DEF b
<1>3. Follows(s, b) /\ ModalTyped(b) /\ b.fade = s.fade /\ b.covers = s.covers
  BY <1>1 DEF HideBegins, Follows
<1>4. DropsOK(b) /\ Backed(b, m) /\ BackdropsApart(s, m, b)
  BY <1>1, <1>3 DEF HideBegins, DropsOK, Backed, EndsOf, BackdropsApart, Up
<1>5. Apart(s, m, b)
  BY <1>1, <1>3, <1>4 DEF HideBegins, Apart
<1>6. CASE s.fade
  <2>1. Parting(b, m)
    BY <1>1, <1>3, <1>4, <1>6 DEF HideBegins, Parting, Up
  <2> QED
    BY <1>1, <1>2, <1>3, <1>4, <1>5, <1>6, <2>1 DEF Hidden, HideBegins
<1>7. CASE ~s.fade
  <2> DEFINE t == ModalBoxes!HideModal(b, m)
  <2>1. m \notin b.shown /\ Still(b, m)
    BY <1>1, <1>7 DEF HideBegins, Still, Up
  <2>2. Goes(b, m, t)
    BY <1>3, <1>4, <2>1, HideModalIs
  <2> HIDE DEF t
  <2>3. Follows(s, t)
    BY <1>3, <2>2, FollowsOn DEF Goes
  <2>4. Apart(s, m, t)
    BY <1>5, <2>2 DEF Goes, Apart, BackdropsApart
  <2>5. AtRest(t, m) /\ t.pad = s.original[m] /\ ~t.open /\ t.original = s.original
    BY <1>1, <1>3, <1>7, <2>2 DEF Goes, HideBegins
  <2>6. t.shown = s.shown \ {m} /\ t.resized = {} /\ t.trap = 0 /\ DropsOK(t)
    BY <1>1, <2>2 DEF Goes, HideBegins
  <2>7. Hidden(s, m, t)
    BY <1>7, <2>3, <2>4, <2>5, <2>6 DEF Hidden
  <2> QED
    BY <1>2, <1>7, <2>7 DEF t
<1> QED
  BY <1>6, <1>7

\* show() locks the page's scrolling.
ShowBegins(s, m, t) ==
    /\ Follows(s, t) /\ t.shown = s.shown \cup {m} /\ t.seen = s.seen
    /\ t.backdrop = s.backdrop /\ t.drops = s.drops
    /\ t.leaving = s.leaving /\ t.entering = s.entering
    /\ t.original[m] = s.pad /\ \A n \in Pair \ {m} : t.original[n] = s.original[n]
    /\ t.pad = (IF s.open THEN s.pad ELSE s.pad + 1) /\ t.open = TRUE
    /\ t.trap = s.trap /\ t.resized = s.resized \cup {m}

ShowBegun(s, m) ==
    [ModalBoxes!Lock(s, m) EXCEPT !.shown = @ \cup {m}, !.resized = @ \cup {m}]

\* What the beginning of a showing changes.
LEMMA ShowBeginIs ==
    ASSUME NEW s, ModalTyped(s), NEW m \in Pair
    PROVE  ShowBegins(s, m, ShowBegun(s, m))
<1> DEFINE shown == s.shown \cup {m}
           resized == s.resized \cup {m}
           pad == IF s.open THEN s.pad ELSE s.pad + 1
           original == [s.original EXCEPT ![m] = s.pad]
           t == ShowBegun(s, m)
<1>1. /\ s \in ModalStates /\ shown \in SUBSET Pair /\ resized \in SUBSET Pair
      /\ s.original \in [Pair -> Nat] /\ s.pad \in Nat
  BY DEF ModalTyped, ModalStates
<1>2. t = [s EXCEPT !.shown = shown, !.resized = resized, !.original = original,
                    !.pad = pad, !.open = TRUE]
  BY <1>1 DEF ShowBegun, ModalBoxes!Lock, ModalStates
<1>3. pad \in Nat
  BY <1>1
<1> HIDE DEF shown, resized, pad, t
<1>4. /\ original \in [Pair -> Nat] /\ original[m] = s.pad
      /\ \A n \in Pair \ {m} : original[n] = s.original[n]
  BY <1>1
<1> HIDE DEF original
<1>5. /\ t \in ModalStates /\ t.shown = shown /\ t.seen = s.seen /\ t.backdrop = s.backdrop
      /\ t.drops = s.drops /\ t.leaving = s.leaving /\ t.entering = s.entering
      /\ t.original = original /\ t.pad = pad /\ t.open = TRUE /\ t.trap = s.trap
      /\ t.resized = resized /\ t.ignore = s.ignore /\ t.fade = s.fade /\ t.covers = s.covers
      /\ t.calls = s.calls /\ t.hurried = s.hurried /\ t.stacked = s.stacked
  BY <1>1, <1>2, <1>3, <1>4 DEF ModalStates
<1>6. Follows(s, t)
  BY <1>5, FieldsTyped
<1>7. ShowBegins(s, m, t)
  BY <1>4, <1>5, <1>6 DEF ShowBegins, shown, resized, pad
<1> QED
  BY <1>7 DEF t

\* Showing begins, and goes on with the backdrop.
LEMMA ShowIs ==
    ASSUME NEW s, NEW m, m \notin s.shown
    PROVE  ModalBoxes!Show(s, m) = ModalBoxes!Backdrop(ShowBegun(s, m), m, "appear")
BY Zenon DEF ModalBoxes!Show, ShowBegun

\* Showing keeps the types, and what it does not change.
LEMMA ShowFollows ==
    ASSUME NEW s, ModalTyped(s), NEW m \in Pair
    PROVE  Follows(s, ModalBoxes!Show(s, m))
<1> DEFINE b == ShowBegun(s, m)
<1>1. CASE m \in s.shown
  BY <1>1 DEF ModalBoxes!Show, Follows
<1>2. CASE m \notin s.shown
  <2>1. Follows(s, b) /\ ModalTyped(b)
    BY ShowBeginIs DEF ShowBegins, Follows
  <2>2. ModalBoxes!Show(s, m) = ModalBoxes!Backdrop(b, m, "appear")
    BY <1>2, ShowIs
  <2> HIDE DEF b
  <2>3. Follows(b, ModalBoxes!Backdrop(b, m, "appear"))
    <3>1. "appear" \in Whats
      BY DEF Whats
    <3> QED
      BY <2>1, <3>1, BackdropIs
  <2> QED
    BY <2>1, <2>2, <2>3, FollowsOn
<1> QED
  BY <1>1, <1>2

\* It shows a dialog that rests.
Shown(s, m, t) ==
    /\ Follows(s, t) /\ Apart(s, m, t) /\ DropsOK(t)
    /\ t.shown = s.shown \cup {m} /\ t.resized = s.resized \cup {m} /\ t.trap \in {s.trap, m}
    /\ t.original[m] = s.pad /\ t.pad = (IF s.open THEN s.pad ELSE s.pad + 1) /\ t.open = TRUE
    /\ Opening(t, m) \/ Up(t, m)

\* Showing a dialog that is at rest starts it on its way in.
LEMMA ShownIs ==
    ASSUME NEW s, ModalTyped(s), NEW m \in Pair, DropsOK(s), AtRest(s, m)
    PROVE  Shown(s, m, ModalBoxes!Show(s, m))
<1> DEFINE b == ShowBegun(s, m)
           t == ModalBoxes!Show(s, m)
<1>1. ShowBegins(s, m, b)
  BY ShowBeginIs
<1>2. t = ModalBoxes!Backdrop(b, m, "appear")
  BY ShowIs DEF AtRest
<1> HIDE DEF b, t
<1>3. Follows(s, b) /\ ModalTyped(b) /\ b.fade = s.fade /\ b.covers = s.covers
  BY <1>1 DEF ShowBegins, Follows
<1>4. DropsOK(b) /\ BackdropsApart(s, m, b) /\ b.backdrop[m] = 0
  BY <1>1 DEF ShowBegins, DropsOK, EndsOf, BackdropsApart, AtRest
<1>5. Apart(s, m, b)
  BY <1>1, <1>3, <1>4 DEF ShowBegins, Apart
<1>6. /\ Follows(b, t)
      /\ m \in b.shown /\ b.covers =>
           \E made : /\ Makes(b, m, IF b.fade THEN <<"appear">> ELSE <<>>, made)
                     /\ t = IF b.fade THEN made ELSE ModalBoxes!Callback(made, m, "appear")
      /\ ~(m \in b.shown /\ b.covers) /\ ~(m \notin b.shown /\ b.backdrop[m] # 0) =>
           t = ModalBoxes!Callback(b, m, "appear")
  <2>1. "appear" \in Whats
    BY DEF Whats
  <2> QED
    BY <1>2, <1>3, <2>1, BackdropIs
<1>7. Follows(s, t)
  BY <1>3, <1>6, FollowsOn
<1>8. /\ m \in b.shown /\ m \notin b.seen /\ Still(b, m) /\ b.shown = s.shown \cup {m}
      /\ b.resized = s.resized \cup {m} /\ b.trap = s.trap /\ b.original[m] = s.pad
      /\ b.pad = (IF s.open THEN s.pad ELSE s.pad + 1) /\ b.open = TRUE
  BY <1>1 DEF ShowBegins, AtRest, Still
<1>9. ASSUME BackdropsApart(b, m, t), t.shown = b.shown,
             \A n \in Pair \ {m} : n \in t.seen <=> n \in b.seen,
             t.leaving = b.leaving, \A n \in Pair \ {m} : t.entering[n] = b.entering[n],
             t.original = b.original
      PROVE  Apart(s, m, t)
  <2>1. BackdropsApart(s, m, t)
    BY <1>4, <1>9 DEF BackdropsApart
  <2> QED
    BY <1>1, <1>7, <1>9, <2>1 DEF Apart, Follows, ShowBegins
<1>10. ASSUME DropsOK(t), Apart(s, m, t), t.shown = b.shown, t.resized = b.resized,
              t.trap \in {b.trap, m}, t.original = b.original, t.pad = b.pad, t.open = b.open,
              Opening(t, m) \/ Up(t, m)
       PROVE  Shown(s, m, t)
  BY <1>7, <1>8, <1>10 DEF Shown
<1>11. ASSUME NEW u, Follows(b, u), SameDialogs(b, u), DropsOK(u), BackdropsApart(b, m, u),
              EndsOf(u, m) = <<>>, (u.backdrop[m] # 0) = u.covers,
              Appears(u, m, t)
       PROVE  Shown(s, m, t)
  <2>1. /\ t.backdrop = u.backdrop /\ t.drops = u.drops /\ t.covers = u.covers
        /\ t.shown = b.shown /\ t.seen = b.seen \cup {m} /\ t.leaving = b.leaving
        /\ t.entering[m] = (IF u.fade THEN b.entering[m] + 1 ELSE b.entering[m])
        /\ \A n \in Pair \ {m} : t.entering[n] = b.entering[n]
        /\ t.original = b.original /\ t.pad = b.pad /\ t.open = b.open /\ t.trap = m
        /\ t.resized = b.resized
    BY <1>11 DEF Appears, SameDialogs, Follows
  <2>2. DropsOK(t) /\ BackdropsApart(b, m, t) /\ Backed(t, m)
    BY <1>11, <2>1 DEF DropsOK, BackdropsApart, EndsOf, Backed
  <2>3. Apart(s, m, t)
    BY <1>9, <2>1, <2>2
  <2>4. t.entering[m] \in {0, 1} /\ t.leaving[m] = 0
    BY <1>8, <2>1 DEF Still
  <2>5. Up(t, m)
    BY <1>8, <2>1, <2>2, <2>4 DEF Up
  <2> QED
    BY <1>10, <2>1, <2>2, <2>3, <2>5
<1>12. CASE s.covers /\ s.fade
  <2>1. Makes(b, m, <<"appear">>, t)
    BY <1>3, <1>6, <1>8, <1>12
  <2>2. BackdropsApart(b, m, t) /\ DropsOK(t) /\ EndsOf(t, m) = <<"appear">> /\ t.backdrop[m] # 0
    BY <1>3, <1>4, <2>1, ApartMade
  <2>3. SameDialogs(b, t) /\ t.fade = s.fade /\ t.covers = s.covers
    BY <1>3, <2>1 DEF Makes, Follows
  <2>4. Opening(t, m)
    BY <1>8, <1>12, <2>2, <2>3 DEF Opening, Still, SameDialogs
  <2>5. Apart(s, m, t)
    BY <1>9, <2>2, <2>3 DEF SameDialogs
  <2> QED
    BY <1>2, <1>10, <2>2, <2>3, <2>4, <2>5 DEF SameDialogs, t
<1>13. CASE s.covers /\ ~s.fade
  <2>1. PICK made : Makes(b, m, <<>>, made) /\ t = ModalBoxes!Callback(made, m, "appear")
    BY <1>3, <1>6, <1>8, <1>13
  <2>2. /\ BackdropsApart(b, m, made) /\ DropsOK(made) /\ EndsOf(made, m) = <<>>
        /\ made.backdrop[m] # 0
    BY <1>3, <1>4, <2>1, ApartMade
  <2>3. Follows(b, made) /\ SameDialogs(b, made) /\ ModalTyped(made) /\ made.covers = s.covers
    BY <1>3, <2>1 DEF Makes, Follows
  <2>4. Appears(made, m, t)
    BY <2>1, <2>3, AppearIs DEF ModalBoxes!Callback
  <2>5. (made.backdrop[m] # 0) = made.covers
    <3>1. made.covers = TRUE
      BY <1>13, <2>3 DEF ModalTyped, ModalStates
    <3> QED
      BY <2>2, <3>1
  <2> QED
    BY <1>11, <2>2, <2>3, <2>4, <2>5 DEF t
<1>14. CASE ~s.covers
  <2>1. t = ModalBoxes!Callback(b, m, "appear")
    BY <1>3, <1>4, <1>6, <1>14
  <2>2. Appears(b, m, t)
    BY <1>3, <2>1, AppearIs DEF ModalBoxes!Callback
  <2>3. /\ Follows(b, b) /\ SameDialogs(b, b) /\ BackdropsApart(b, m, b) /\ EndsOf(b, m) = <<>>
    BY <1>3, <1>4 DEF Follows, SameDialogs, BackdropsApart, EndsOf
  <2>4. (b.backdrop[m] # 0) = b.covers
    <3>1. b.covers = FALSE
      BY <1>3, <1>14 DEF ModalTyped, ModalStates
    <3> QED
      BY <1>4, <3>1
  <2> QED
    BY <1>4, <1>11, <2>2, <2>3, <2>4 DEF t
<1> QED
  <2>1. s.fade \in BOOLEAN /\ s.covers \in BOOLEAN
    BY DEF ModalTyped, ModalStates
  <2> QED
    BY <1>12, <1>13, <1>14, <2>1

(***************************************************************************)
(* The invariant.                                                          *)
(***************************************************************************)
\* Every dialog is on its course; who keeps the focus is shown; only a dialog that
\* does not rest locks the page.
Good(s) ==
    /\ \A m \in Pair : InCourse(s, m)
    /\ DropsOK(s) /\ s.trap \in s.shown \cup {0}
    /\ s.open => \E m \in Pair : ~AtRest(s, m)

\* While no two were up at once, the page is locked and padded for the one that is.
Alone(s) ==
    /\ \A m, n \in Pair : ~AtRest(s, m) /\ ~AtRest(s, n) => m = n
    /\ s.resized = s.shown
    /\ \A m \in Pair : ~AtRest(s, m) => s.open /\ s.original[m] = 0
    /\ s.pad = IF s.open THEN 1 ELSE 0

ModalGood(s) == Good(s) /\ (~s.stacked => Alone(s))
ModalInv(s) == ModalTyped(s) /\ (~s.hurried => ModalGood(s))

\* Nothing of it is in the counters of the calls.
Alike(s, t) ==
    /\ SameDialogs(s, t) /\ t.backdrop = s.backdrop /\ t.drops = s.drops
    /\ t.fade = s.fade /\ t.covers = s.covers

\* Two states alike have each dialog on the same course.
LEMMA AlikeCourses ==
    ASSUME NEW s, NEW t, Alike(s, t), NEW m
    PROVE  /\ AtRest(t, m) <=> AtRest(s, m)
           /\ InCourse(t, m) <=> InCourse(s, m)
<1>1. EndsOf(t, m) = EndsOf(s, m)
  BY DEF EndsOf, Alike
<1>2. Still(t, m) <=> Still(s, m)
  BY DEF Still, Alike, SameDialogs
<1>3. Backed(t, m) <=> Backed(s, m)
  BY <1>1 DEF Backed, Alike
<1>4. AtRest(t, m) <=> AtRest(s, m)
  BY <1>2 DEF AtRest, Alike, SameDialogs
<1>5. Opening(t, m) <=> Opening(s, m)
  BY <1>1, <1>2 DEF Opening, Alike, SameDialogs
<1>6. Up(t, m) <=> Up(s, m)
  BY <1>3 DEF Up, Alike, SameDialogs
<1>7. Parting(t, m) <=> Parting(s, m)
  BY <1>3 DEF Parting, Alike, SameDialogs
<1>8. Clearing(t, m) <=> Clearing(s, m)
  BY <1>1, <1>2 DEF Clearing, Alike, SameDialogs
<1> QED
  BY <1>4, <1>5, <1>6, <1>7, <1>8 DEF InCourse

\* Two states alike are good together.
LEMMA AlikeGood ==
    ASSUME NEW s, NEW t, Alike(s, t)
    PROVE  (Good(s) => Good(t)) /\ (Alone(s) => Alone(t))
<1>1. \A m : (AtRest(t, m) <=> AtRest(s, m)) /\ (InCourse(t, m) <=> InCourse(s, m))
  BY AlikeCourses
<1>2. DropsOK(s) => DropsOK(t)
  BY DEF DropsOK, Alike
<1>3. Good(s) => Good(t)
  BY <1>1, <1>2 DEF Good, Alike, SameDialogs
<1>4. Alone(s) => Alone(t)
  BY <1>1 DEF Alone, Alike, SameDialogs
<1> QED
  BY <1>3, <1>4

\* What happens to one dialog leaves the others on their courses.
LEMMA ApartCourses ==
    ASSUME NEW s, NEW m \in Pair, NEW t, Apart(s, m, t), NEW n \in Pair \ {m}
    PROVE  /\ AtRest(t, n) <=> AtRest(s, n)
           /\ InCourse(t, n) <=> InCourse(s, n)
           /\ t.original[n] = s.original[n]
<1>1. EndsOf(t, n) = EndsOf(s, n) /\ t.backdrop[n] = s.backdrop[n]
  BY DEF Apart, BackdropsApart
<1>9. /\ n \in t.shown <=> n \in s.shown
      /\ n \in t.seen <=> n \in s.seen
      /\ t.leaving[n] = s.leaving[n] /\ t.entering[n] = s.entering[n]
      /\ t.original[n] = s.original[n] /\ t.fade = s.fade /\ t.covers = s.covers
  BY DEF Apart
<1>2. Still(t, n) <=> Still(s, n)
  BY <1>9 DEF Still
<1>3. Backed(t, n) <=> Backed(s, n)
  BY <1>1, <1>9 DEF Backed
<1>4. AtRest(t, n) <=> AtRest(s, n)
  BY <1>1, <1>2, <1>9 DEF AtRest
<1>5. Opening(t, n) <=> Opening(s, n)
  BY <1>1, <1>2, <1>9 DEF Opening
<1>6. Up(t, n) <=> Up(s, n)
  BY <1>3, <1>9 DEF Up
<1>7. Parting(t, n) <=> Parting(s, n)
  BY <1>3, <1>9 DEF Parting
<1>8. Clearing(t, n) <=> Clearing(s, n)
  BY <1>1, <1>2, <1>9 DEF Clearing
<1> QED
  BY <1>4, <1>5, <1>6, <1>7, <1>8, <1>9 DEF InCourse

\* A dialog that is shown or waits for something does not rest; one that is not
\* and waits for nothing does, and one shown that waits for nothing is up.
LEMMA NotPending ==
    ASSUME NEW s, ModalTyped(s), DropsOK(s), NEW m \in Pair, InCourse(s, m),
           ~ModalBoxes!Pending(s, m)
    PROVE  /\ m \in s.shown => Up(s, m) /\ s.entering[m] = 0
           /\ m \notin s.shown => AtRest(s, m)
<1>1. s \in ModalStates /\ s.drops \in Seq(Drops)
  BY DEF ModalTyped, ModalStates
<1>2. s.leaving[m] \in Nat /\ s.entering[m] \in Nat
  BY <1>1 DEF ModalStates
<1>3. s.leaving[m] = 0 /\ s.entering[m] = 0
  BY <1>2 DEF ModalBoxes!Pending
<1>4. EndsOf(s, m) = <<>>
  <2>1. CASE s.backdrop[m] = 0
    BY <2>1 DEF EndsOf
  <2>2. CASE s.backdrop[m] # 0
    <3>1. s.backdrop[m] \in DOMAIN s.drops
      BY <1>1, <2>2 DEF ModalTyped
    <3>2. s.drops[s.backdrop[m]].of = m
      BY <2>2 DEF DropsOK
    <3> QED
      BY <2>2, <3>1, <3>2 DEF ModalBoxes!Pending, EndsOf
  <2> QED
    BY <2>1, <2>2
<1>5. ~Opening(s, m) /\ ~Clearing(s, m)
  BY <1>4 DEF Opening, Clearing
<1>6. ~Parting(s, m)
  BY <1>3 DEF Parting
<1>7. AtRest(s, m) \/ Up(s, m)
  BY <1>5, <1>6 DEF InCourse
<1> QED
  BY <1>3, <1>7 DEF AtRest, Up

\* A dialog that does not rest goes on.
GoesOn(s, m, t) ==
    /\ Apart(s, m, t) /\ DropsOK(t) /\ ~AtRest(s, m) /\ ~AtRest(t, m) /\ InCourse(t, m)
    /\ t.shown = s.shown /\ t.resized = s.resized /\ t.trap \in t.shown \cup {0}
    /\ t.original = s.original /\ t.pad = s.pad /\ t.open = s.open /\ t.stacked = s.stacked

\* A dialog that goes on in its course leaves the page good.
LEMMA GoesOnGood ==
    ASSUME NEW s, NEW m \in Pair, NEW t, ModalGood(s), GoesOn(s, m, t)
    PROVE  ModalGood(t)
<1>1. \A n \in Pair \ {m} : (AtRest(t, n) <=> AtRest(s, n)) /\ (InCourse(t, n) <=> InCourse(s, n))
  BY ApartCourses DEF GoesOn
<1>2. ~AtRest(s, m) /\ ~AtRest(t, m) /\ InCourse(t, m)
  BY DEF GoesOn
<1>3. \A n \in Pair : (AtRest(t, n) <=> AtRest(s, n)) /\ InCourse(t, n)
  BY <1>1, <1>2 DEF ModalGood, Good
<1>4. Good(t)
  BY <1>3 DEF ModalGood, Good, GoesOn
<1>5. ASSUME ~t.stacked PROVE Alone(t)
  <2>1. Alone(s)
    BY <1>5 DEF ModalGood, GoesOn
  <2> QED
    BY <1>3, <2>1 DEF Alone, GoesOn
<1> QED
  BY <1>4, <1>5 DEF ModalGood

\* A dialog that was hidden comes to rest, and the page is given back.
ComesToRest(s, m, t) ==
    /\ Apart(s, m, t) /\ DropsOK(t) /\ ~AtRest(s, m) /\ AtRest(t, m)
    /\ t.shown = s.shown /\ t.resized = s.resized /\ t.trap = s.trap
    /\ t.original = s.original /\ t.pad = s.original[m] /\ t.open = FALSE
    /\ t.stacked = s.stacked

\* So does one that comes to rest.
LEMMA ComesToRestGood ==
    ASSUME NEW s, NEW m \in Pair, NEW t, ModalGood(s), ComesToRest(s, m, t)
    PROVE  ModalGood(t)
<1>1. \A n \in Pair \ {m} : (AtRest(t, n) <=> AtRest(s, n)) /\ (InCourse(t, n) <=> InCourse(s, n))
  BY ApartCourses DEF ComesToRest
<1>2. ~AtRest(s, m) /\ AtRest(t, m) /\ InCourse(t, m)
  BY DEF ComesToRest, InCourse
<1>3. \A n \in Pair : InCourse(t, n)
  BY <1>1, <1>2 DEF ModalGood, Good
<1>4. Good(t)
  BY <1>3 DEF ModalGood, Good, ComesToRest
<1>5. ASSUME ~t.stacked PROVE Alone(t)
  <2>1. Alone(s)
    BY <1>5 DEF ModalGood, ComesToRest
  <2>2. \A n \in Pair : AtRest(t, n)
    BY <1>1, <1>2, <2>1 DEF Alone
  <2>3. t.pad = 0 /\ t.open = FALSE /\ t.resized = t.shown
    BY <1>2, <2>1 DEF Alone, ComesToRest
  <2> QED
    BY <2>2, <2>3 DEF Alone
<1> QED
  BY <1>4, <1>5 DEF ModalGood

\* A dialog that is up is hidden.
LEMMA HiddenGood ==
    ASSUME NEW s, ModalTyped(s), NEW m \in Pair, NEW t, Good(s), Up(s, m), Hidden(s, m, t)
    PROVE  Good(t) /\ (Alone(s) => Alone(t))
<1>1. \A n \in Pair \ {m} : /\ AtRest(t, n) <=> AtRest(s, n)
                            /\ InCourse(t, n) <=> InCourse(s, n)
                            /\ t.original[n] = s.original[n]
  BY ApartCourses DEF Hidden
<1>2. /\ t.shown = s.shown \ {m} /\ t.resized = {} /\ t.trap = 0 /\ t.original = s.original
      /\ DropsOK(t) /\ s.fade \in BOOLEAN /\ t.open \in BOOLEAN
      /\ s.fade => Parting(t, m) /\ t.pad = s.pad /\ t.open = s.open
      /\ ~s.fade => AtRest(t, m) /\ t.pad = s.original[m] /\ ~t.open
  BY DEF Hidden, Follows, ModalTyped, ModalStates
<1>3. ~AtRest(s, m) /\ m \in s.shown
  BY DEF Up, AtRest
<1>4. Parting(t, m) => ~AtRest(t, m)
  BY DEF Parting, AtRest
<1>5. \A n \in Pair : InCourse(t, n)
  <2>1. InCourse(t, m)
    BY <1>2 DEF InCourse
  <2> QED
    BY <1>1, <2>1 DEF Good
<1>6. Good(t)
  BY <1>2, <1>4, <1>5 DEF Good
<1>7. ASSUME Alone(s) PROVE Alone(t)
  <2>1. s.open /\ s.original[m] = 0 /\ s.pad = 1 /\ \A n \in Pair \ {m} : AtRest(s, n)
    BY <1>3, <1>7 DEF Alone
  <2>2. t.shown = {}
    <3>1. \A n \in s.shown : n \in Pair /\ ~AtRest(s, n)
      BY DEF AtRest, ModalTyped, ModalStates
    <3> QED
      BY <1>2, <2>1, <3>1
  <2>3. CASE s.fade
    <3>1. \A n \in Pair : ~AtRest(t, n) => n = m
      BY <1>1, <2>1
    <3>2. t.pad = 1 /\ t.open /\ t.original[m] = 0 /\ t.resized = t.shown
      BY <1>2, <2>1, <2>2, <2>3
    <3> QED
      BY <3>1, <3>2 DEF Alone
  <2>4. CASE ~s.fade
    <3>1. \A n \in Pair : AtRest(t, n)
      BY <1>1, <1>2, <2>1, <2>4
    <3>2. t.pad = 0 /\ ~t.open
      BY <1>2, <2>1, <2>4
    <3> QED
      BY <1>2, <2>2, <3>1, <3>2 DEF Alone
  <2> QED
    BY <1>2, <2>3, <2>4
<1> QED
  BY <1>6, <1>7

\* A dialog that rests is shown.
LEMMA ShownGood ==
    ASSUME NEW s, ModalTyped(s), NEW m \in Pair, NEW t, Good(s), AtRest(s, m), Shown(s, m, t)
    PROVE  /\ Good(t)
           /\ Alone(s) /\ (\A n \in Pair \ {m} : AtRest(s, n)) => Alone(t)
<1>1. \A n \in Pair \ {m} : /\ AtRest(t, n) <=> AtRest(s, n)
                            /\ InCourse(t, n) <=> InCourse(s, n)
                            /\ t.original[n] = s.original[n]
  BY ApartCourses DEF Shown
<1>2. /\ t.shown = s.shown \cup {m} /\ t.resized = s.resized \cup {m} /\ t.trap \in {s.trap, m}
      /\ t.original[m] = s.pad /\ t.pad = (IF s.open THEN s.pad ELSE s.pad + 1)
      /\ t.open = TRUE /\ DropsOK(t) /\ (Opening(t, m) \/ Up(t, m))
  BY DEF Shown
<1>3. ~AtRest(t, m) /\ InCourse(t, m)
  BY <1>2 DEF Opening, Up, AtRest, InCourse
<1>4. Good(t)
  <2>1. \A n \in Pair : InCourse(t, n)
    BY <1>1, <1>3 DEF Good
  <2>2. t.trap \in t.shown \cup {0}
    BY <1>2 DEF Good
  <2> QED
    BY <1>2, <1>3, <2>1, <2>2 DEF Good
<1>5. ASSUME Alone(s), \A n \in Pair \ {m} : AtRest(s, n) PROVE Alone(t)
  <2>1. \A n \in Pair : AtRest(s, n)
    BY <1>5
  <2>2. s.open = FALSE
    BY <2>1 DEF Good, ModalTyped, ModalStates
  <2>3. s.pad = 0
    BY <1>5, <2>2 DEF Alone
  <2>4. t.original[m] = 0 /\ t.pad = 1
    BY <1>2, <2>2, <2>3
  <2> QED
    BY <1>1, <1>2, <1>3, <1>5, <2>4 DEF Alone
<1> QED
  BY <1>4, <1>5

(***************************************************************************)
(* The calls, and the ends of the transitions.                             *)
(***************************************************************************)
\* A call is counted, and whether it came during a transition or beside another.
Called(s, m, t, u) ==
    /\ ModalTyped(u) /\ Alike(t, u)
    /\ u.hurried <=> s.hurried \/ ModalBoxes!Pending(s, m)
    /\ u.stacked <=> \/ s.stacked
                     \/ \E n \in Pair \ {m} : n \in s.shown \/ ModalBoxes!Pending(s, n)

\* What the counting of a call changes.
LEMMA CallIs ==
    ASSUME ModalTyped(page), NEW m \in Pair, NEW t, Follows(page, t), ModalBoxes!Calls(t, m)
    PROVE  Called(page, m, t, page')
<1> DEFINE calls == t.calls + 1
           hurried == t.hurried \/ ModalBoxes!Pending(page, m)
           stacked == t.stacked \/ \E n \in Pair \ {m} : n \in page.shown \/ ModalBoxes!Pending(page, n)
<1>1. page' = [t EXCEPT !.calls = calls, !.hurried = hurried, !.stacked = stacked]
  BY Zenon DEF ModalBoxes!Calls
<1>2. t \in ModalStates /\ t.hurried = page.hurried /\ t.stacked = page.stacked
  BY DEF Follows, ModalTyped
<1>3. calls \in Nat /\ hurried \in BOOLEAN /\ stacked \in BOOLEAN
  <2>1. calls \in Nat
    BY <1>2 DEF ModalStates
  <2> QED
    BY <2>1
<1>4. /\ hurried <=> page.hurried \/ ModalBoxes!Pending(page, m)
      /\ stacked <=> \/ page.stacked
                     \/ \E n \in Pair \ {m} : n \in page.shown \/ ModalBoxes!Pending(page, n)
  BY <1>2
<1> HIDE DEF calls, hurried, stacked
<1>5. /\ page' \in ModalStates /\ page'.hurried = hurried /\ page'.stacked = stacked
      /\ page'.shown = t.shown /\ page'.seen = t.seen /\ page'.backdrop = t.backdrop
      /\ page'.drops = t.drops /\ page'.leaving = t.leaving /\ page'.entering = t.entering
      /\ page'.original = t.original /\ page'.pad = t.pad /\ page'.open = t.open
      /\ page'.trap = t.trap /\ page'.resized = t.resized /\ page'.fade = t.fade
      /\ page'.covers = t.covers
  BY <1>1, <1>2, <1>3 DEF ModalStates
<1>6. ModalTyped(page')
  BY <1>5 DEF ModalTyped, Follows
<1>7. Alike(t, page')
  BY <1>5 DEF Alike, SameDialogs
<1> QED
  BY <1>4, <1>5, <1>6, <1>7 DEF Called

\* A call keeps the invariant if it keeps the page good when nothing was pending.
LEMMA CallKeeps ==
    ASSUME NEW s, ModalInv(s), NEW m \in Pair, NEW t, NEW u, Called(s, m, t, u),
           ModalGood(s) /\ ~ModalBoxes!Pending(s, m) =>
               /\ Good(t)
               /\ Alone(s) /\ (\A n \in Pair \ {m} : AtRest(s, n)) => Alone(t)
    PROVE  ModalInv(u)
<1>1. ASSUME ~u.hurried PROVE ModalGood(u)
  <2>1. ModalTyped(s) /\ ModalGood(s) /\ ~ModalBoxes!Pending(s, m)
    BY <1>1 DEF Called, ModalInv
  <2>2. Good(t) /\ (Alone(s) /\ (\A n \in Pair \ {m} : AtRest(s, n)) => Alone(t))
    BY <2>1
  <2>3. Good(u) /\ (Alone(t) => Alone(u))
    BY <2>2, AlikeGood DEF Called
  <2>4. ASSUME ~u.stacked PROVE Alone(u)
    <3>1. ~s.stacked /\ \A n \in Pair \ {m} : n \notin s.shown /\ ~ModalBoxes!Pending(s, n)
      BY <2>4 DEF Called
    <3>2. Alone(s)
      BY <2>1, <3>1 DEF ModalGood
    <3>3. ASSUME NEW n \in Pair \ {m} PROVE AtRest(s, n)
      <4>1. DropsOK(s) /\ InCourse(s, n)
        BY <2>1 DEF ModalGood, Good
      <4> QED
        BY <2>1, <3>1, <4>1, NotPending
    <3> QED
      BY <2>2, <2>3, <3>2, <3>3
  <2> QED
    BY <2>3, <2>4 DEF ModalGood
<1> QED
  BY <1>1 DEF ModalInv, Called

\* show, where it does something.
LEMMA ShowKeeps ==
    ASSUME ModalInv(page), NEW m \in Pair, m \notin page.shown,
           ModalBoxes!Calls(ModalBoxes!Show(page, m), m)
    PROVE  ModalInv(page')
<1> DEFINE t == ModalBoxes!Show(page, m)
<1>1. ModalTyped(page)
  BY DEF ModalInv
<1>2. Called(page, m, t, page')
  BY <1>1, CallIs, ShowFollows
<1>3. ASSUME ModalGood(page), ~ModalBoxes!Pending(page, m)
      PROVE  /\ Good(t)
             /\ Alone(page) /\ (\A n \in Pair \ {m} : AtRest(page, n)) => Alone(t)
  <2>1. Good(page) /\ DropsOK(page) /\ InCourse(page, m)
    BY <1>3 DEF ModalGood, Good
  <2>2. AtRest(page, m)
    BY <1>1, <1>3, <2>1, NotPending
  <2>3. Shown(page, m, t)
    BY <1>1, <2>1, <2>2, ShownIs
  <2> HIDE DEF t
  <2> QED
    BY <1>1, <2>1, <2>2, <2>3, ShownGood
<1> HIDE DEF t
<1> QED
  BY <1>2, <1>3, CallKeeps

\* hide, where it does something.
LEMMA HideKeeps ==
    ASSUME ModalInv(page), NEW m \in Pair, m \in page.shown,
           ModalBoxes!Calls(ModalBoxes!Hide(page, m), m)
    PROVE  ModalInv(page')
<1> DEFINE t == ModalBoxes!Hide(page, m)
<1>1. ModalTyped(page)
  BY DEF ModalInv
<1>2. Called(page, m, t, page')
  BY <1>1, CallIs, HideFollows
<1>3. ASSUME ModalGood(page), ~ModalBoxes!Pending(page, m)
      PROVE  /\ Good(t)
             /\ Alone(page) /\ (\A n \in Pair \ {m} : AtRest(page, n)) => Alone(t)
  <2>1. Good(page) /\ DropsOK(page) /\ InCourse(page, m)
    BY <1>3 DEF ModalGood, Good
  <2>2. Up(page, m) /\ page.entering[m] = 0
    BY <1>1, <1>3, <2>1, NotPending
  <2>3. Hidden(page, m, t)
    BY <1>1, <2>1, <2>2, HiddenIs
  <2> HIDE DEF t
  <2> QED
    BY <1>1, <2>1, <2>2, <2>3, HiddenGood
<1> HIDE DEF t
<1> QED
  BY <1>2, <1>3, CallKeeps

\* A press in the dialog only says what click to ignore.
LEMMA IgnoreKeeps ==
    ASSUME ModalInv(page), NEW ignore \in SUBSET Pair,
           page' = [page EXCEPT !.ignore = ignore]
    PROVE  ModalInv(page')
<1>1. page \in ModalStates /\ ModalTyped(page)
  BY DEF ModalInv, ModalTyped
<1>2. /\ page' \in ModalStates /\ page'.hurried = page.hurried /\ page'.stacked = page.stacked
      /\ page'.shown = page.shown /\ page'.seen = page.seen /\ page'.backdrop = page.backdrop
      /\ page'.drops = page.drops /\ page'.leaving = page.leaving
      /\ page'.entering = page.entering /\ page'.original = page.original
      /\ page'.pad = page.pad /\ page'.open = page.open /\ page'.trap = page.trap
      /\ page'.resized = page.resized /\ page'.fade = page.fade /\ page'.covers = page.covers
  BY <1>1 DEF ModalStates
<1>3. ModalTyped(page')
  BY <1>1, <1>2 DEF ModalTyped
<1>4. Alike(page, page')
  BY <1>2 DEF Alike, SameDialogs
<1>5. (Good(page) => Good(page')) /\ (Alone(page) => Alone(page'))
  BY <1>4, AlikeGood
<1> QED
  BY <1>2, <1>3, <1>5 DEF ModalInv, ModalGood

\* The fold of the waiting hideModals is the one of Folding.
LEMMA HidingsFold ==
    ASSUME NEW base, NEW s
    PROVE  ModalBoxes!FoldLeft(ModalBoxes!HideModal, base, s) = Hidings!Folded(base, s)
BY Zenon DEF ModalBoxes!FoldLeft, ModalBoxes!MapThenFoldSet, ModalBoxes!Max,
             Hidings!Folded, Hidings!Greatest

\* The fold of the waiting callbacks is the one of Folding.
LEMMA CallingsFold ==
    ASSUME NEW base, NEW s
    PROVE  ModalBoxes!FoldLeft(ModalBoxes!CalledBack, base, s) = Callings!Folded(base, s)
BY Zenon DEF ModalBoxes!FoldLeft, ModalBoxes!MapThenFoldSet, ModalBoxes!Max,
             Callings!Folded, Callings!Greatest

\* All that waits on the element runs; once, it is one hideModal.
LEMMA HidingsRun ==
    ASSUME NEW base, ModalTyped(base), NEW m \in Pair, NEW n \in Nat
    PROVE  LET t == ModalBoxes!FoldLeft(ModalBoxes!HideModal, base, [i \in 1 .. n |-> m])
           IN  Follows(base, t) /\ (n = 1 => t = ModalBoxes!HideModal(base, m))
<1> DEFINE S == {t \in ModalStates : Follows(base, t)}
           q == [i \in 1 .. n |-> m]
           t == ModalBoxes!FoldLeft(ModalBoxes!HideModal, base, q)
<1>1. t = Hidings!Folded(base, q)
  BY HidingsFold
<1>2. base \in S
  BY DEF Follows, ModalTyped
<1>3. ASSUME NEW x \in S PROVE ModalBoxes!HideModal(x, m) \in S
  <2> DEFINE y == ModalBoxes!HideModal(x, m)
  <2>1. Follows(base, x) /\ ModalTyped(x)
    BY <1>3 DEF Follows
  <2>2. Follows(x, y)
    BY <2>1, HideModalFollows
  <2> HIDE DEF y
  <2>3. Follows(base, y) /\ y \in ModalStates
    BY <2>1, <2>2, FollowsOn DEF Follows, ModalTyped
  <2> QED
    BY <2>3 DEF y
<1>4. DOMAIN q = 1 .. n /\ \A i \in 1 .. n : q[i] = m
  OBVIOUS
<1> HIDE DEF S, q, t
<1>5. \A x \in S, i \in 1 .. n : ModalBoxes!HideModal(x, q[i]) \in S
  BY <1>3, <1>4
<1>6. t \in S
  BY <1>1, <1>2, <1>4, <1>5, Hidings!FoldStays
<1>7. ASSUME n = 1 PROVE t = ModalBoxes!HideModal(base, m)
  <2>1. DOMAIN q = {1} /\ q[1] = m
    BY <1>4, <1>7
  <2>2. \A x \in S : ModalBoxes!HideModal(x, q[1]) \in S
    BY <1>3, <2>1
  <2>3. Hidings!Folded(base, q) = ModalBoxes!HideModal(base, q[1])
    BY <1>2, <2>1, <2>2, Hidings!FoldOnce
  <2> QED
    BY <1>1, <2>1, <2>3
<1> QED
  BY <1>6, <1>7 DEF S, t, q

\* All that waits on the backdrop runs; if one does, it is its callback.
LEMMA CallingsRun ==
    ASSUME NEW base, ModalTyped(base), NEW m \in Pair, NEW ends \in Seq(Whats)
    PROVE  LET t == ModalBoxes!FoldLeft(ModalBoxes!CalledBack, base,
                                        [k \in DOMAIN ends |-> [of |-> m, what |-> ends[k]]])
           IN  /\ Follows(base, t)
               /\ Len(ends) = 1 => t = ModalBoxes!Callback(base, m, ends[1])
<1> DEFINE S == {t \in ModalStates : Follows(base, t)}
           q == [k \in DOMAIN ends |-> [of |-> m, what |-> ends[k]]]
           n == Len(ends)
           t == ModalBoxes!FoldLeft(ModalBoxes!CalledBack, base, q)
<1>1. t = Callings!Folded(base, q)
  BY CallingsFold
<1>2. base \in S
  BY DEF Follows, ModalTyped
<1>3. ASSUME NEW x \in S, NEW what \in Whats PROVE ModalBoxes!Callback(x, m, what) \in S
  <2> DEFINE y == ModalBoxes!Callback(x, m, what)
  <2>1. Follows(base, x) /\ ModalTyped(x)
    BY <1>3 DEF Follows
  <2>2. Follows(x, y)
    BY <2>1, CallbackFollows
  <2> HIDE DEF y
  <2>3. Follows(base, y) /\ y \in ModalStates
    BY <2>1, <2>2, FollowsOn DEF Follows, ModalTyped
  <2> QED
    BY <2>3 DEF y
<1>4. /\ DOMAIN q = 1 .. n /\ n \in Nat
      /\ \A i \in 1 .. n : q[i].of = m /\ q[i].what = ends[i] /\ ends[i] \in Whats
  OBVIOUS
<1> HIDE DEF S, q, t, n
<1>5. ASSUME NEW x \in S, NEW i \in 1 .. n PROVE ModalBoxes!CalledBack(x, q[i]) \in S
  <2>1. ModalBoxes!CalledBack(x, q[i]) = ModalBoxes!Callback(x, m, ends[i])
    BY <1>4 DEF ModalBoxes!CalledBack
  <2> QED
    BY <1>3, <1>4, <2>1
<1>6. t \in S
  BY <1>1, <1>2, <1>4, <1>5, Callings!FoldStays
<1>7. ASSUME n = 1 PROVE t = ModalBoxes!Callback(base, m, ends[1])
  <2>1. DOMAIN q = {1} /\ q[1].of = m /\ q[1].what = ends[1] /\ 1 \in 1 .. n
    BY <1>4, <1>7
  <2>2. \A x \in S : ModalBoxes!CalledBack(x, q[1]) \in S
    BY <1>5, <2>1
  <2>3. Callings!Folded(base, q) = ModalBoxes!CalledBack(base, q[1])
    BY <1>2, <2>1, <2>2, Callings!FoldOnce
  <2> QED
    BY <1>1, <2>1, <2>3 DEF ModalBoxes!CalledBack
<1> QED
  BY <1>6, <1>7 DEF S, t, q, n

\* The dialog has slid in.
LEMMA DialogEndKeeps ==
    ASSUME ModalInv(page), NEW m \in Pair, ModalBoxes!DialogEnd(m)
    PROVE  ModalInv(page')
<1> DEFINE entering == [page.entering EXCEPT ![m] = 0]
<1>1. page \in ModalStates /\ ModalTyped(page) /\ page.entering \in [Pair -> Nat]
  BY DEF ModalInv, ModalTyped, ModalStates
<1>2. page' = [page EXCEPT !.entering = entering] /\ page.entering[m] > 0
  BY <1>1 DEF ModalBoxes!DialogEnd, ModalStates
<1>3. /\ entering \in [Pair -> Nat] /\ entering[m] = 0
      /\ \A n \in Pair \ {m} : entering[n] = page.entering[n]
  BY <1>1
<1> HIDE DEF entering
<1>4. /\ page' \in ModalStates /\ page'.hurried = page.hurried /\ page'.stacked = page.stacked
      /\ page'.shown = page.shown /\ page'.seen = page.seen /\ page'.backdrop = page.backdrop
      /\ page'.drops = page.drops /\ page'.leaving = page.leaving
      /\ page'.entering = entering /\ page'.original = page.original
      /\ page'.pad = page.pad /\ page'.open = page.open /\ page'.trap = page.trap
      /\ page'.resized = page.resized /\ page'.fade = page.fade /\ page'.covers = page.covers
  BY <1>1, <1>2, <1>3 DEF ModalStates
<1>5. ModalTyped(page')
  BY <1>1, <1>4 DEF ModalTyped
<1>6. ASSUME ModalGood(page) PROVE ModalGood(page')
  <2>1. Up(page, m)
    <3>1. ~Still(page, m) /\ page.entering[m] # 0
      BY <1>1, <1>2 DEF Still
    <3> QED
      BY <1>6, <3>1 DEF ModalGood, Good, InCourse, AtRest, Opening, Parting, Clearing
  <2>2. \A n : EndsOf(page', n) = EndsOf(page, n)
    BY <1>4 DEF EndsOf
  <2>3. Up(page', m)
    BY <1>3, <1>4, <2>1, <2>2 DEF Up, Backed
  <2>4. DropsOK(page') /\ BackdropsApart(page, m, page')
    BY <1>4, <1>6, <2>2 DEF DropsOK, BackdropsApart, ModalGood, Good
  <2>5. Apart(page, m, page')
    BY <1>3, <1>4, <2>4 DEF Apart
  <2>6. ~AtRest(page, m) /\ ~AtRest(page', m) /\ InCourse(page', m)
    BY <2>1, <2>3 DEF Up, AtRest, InCourse
  <2>7. page'.trap \in page'.shown \cup {0}
    BY <1>4, <1>6 DEF ModalGood, Good
  <2>8. GoesOn(page, m, page')
    BY <1>4, <2>4, <2>5, <2>6, <2>7 DEF GoesOn
  <2> QED
    BY <1>6, <2>8, GoesOnGood
<1> QED
  BY <1>4, <1>5, <1>6 DEF ModalInv

\* The dialog has slid out.
LEMMA ElementEndKeeps ==
    ASSUME ModalInv(page), NEW m \in Pair, ModalBoxes!ElementEnd(m)
    PROVE  ModalInv(page')
<1> DEFINE leaving == [page.leaving EXCEPT ![m] = 0]
           base == [page EXCEPT !.leaving = leaving]
           n == page.leaving[m]
<1>1. page \in ModalStates /\ ModalTyped(page) /\ page.leaving \in [Pair -> Nat] /\ n \in Nat
  BY DEF ModalInv, ModalTyped, ModalStates
<1>2. n > 0 /\ page' = ModalBoxes!FoldLeft(ModalBoxes!HideModal, base, [i \in 1 .. n |-> m])
  <2>1. base = [page EXCEPT !.leaving[m] = 0]
    BY <1>1 DEF ModalStates
  <2> QED
    BY <2>1, Zenon DEF ModalBoxes!ElementEnd
<1>3. /\ leaving \in [Pair -> Nat] /\ leaving[m] = 0
      /\ \A k \in Pair \ {m} : leaving[k] = page.leaving[k]
  BY <1>1
<1> HIDE DEF leaving
<1>4. /\ base \in ModalStates /\ base.hurried = page.hurried /\ base.stacked = page.stacked
      /\ base.shown = page.shown /\ base.seen = page.seen /\ base.backdrop = page.backdrop
      /\ base.drops = page.drops /\ base.leaving = leaving
      /\ base.entering = page.entering /\ base.original = page.original
      /\ base.pad = page.pad /\ base.open = page.open /\ base.trap = page.trap
      /\ base.resized = page.resized /\ base.fade = page.fade /\ base.covers = page.covers
  BY <1>1, <1>3 DEF ModalStates
<1> HIDE DEF base
<1>5. ModalTyped(base)
  BY <1>1, <1>4 DEF ModalTyped
<1>6. Follows(base, page') /\ (n = 1 => page' = ModalBoxes!HideModal(base, m))
  <2> HIDE DEF n
  <2> QED
    BY <1>1, <1>2, <1>5, HidingsRun
<1>7. ModalTyped(page') /\ page'.hurried = page.hurried /\ page'.stacked = page.stacked
  BY <1>4, <1>6 DEF Follows
<1>8. ASSUME ModalGood(page) PROVE ModalGood(page')
  <2>1. Parting(page, m) /\ n = 1
    <3>1. ~Still(page, m) /\ n # 0
      BY <1>1, <1>2 DEF Still
    <3> QED
      BY <1>8, <3>1 DEF ModalGood, Good, InCourse, AtRest, Opening, Up, Parting, Clearing
  <2>2. \A k : EndsOf(base, k) = EndsOf(page, k)
    BY <1>4 DEF EndsOf
  <2>3. DropsOK(base) /\ BackdropsApart(page, m, base)
    BY <1>4, <1>8, <2>2 DEF DropsOK, BackdropsApart, ModalGood, Good
  <2>4. Apart(page, m, base)
    BY <1>3, <1>4, <2>3 DEF Apart
  <2>5. m \notin base.shown /\ Still(base, m) /\ Backed(base, m)
    BY <1>3, <1>4, <2>1, <2>2 DEF Parting, Still, Backed
  <2>6. Goes(base, m, page')
    BY <1>5, <1>6, <2>1, <2>3, <2>5, HideModalIs
  <2>7. Apart(page, m, page')
    BY <2>4, <2>6 DEF Goes, Apart, BackdropsApart
  <2>8. ~AtRest(page, m)
    BY <2>1 DEF Parting, AtRest
  <2>9. /\ DropsOK(page') /\ page'.shown = page.shown /\ page'.resized = page.resized
        /\ page'.trap = page.trap /\ page'.original = page.original
        /\ IF base.fade /\ base.covers
           THEN Clearing(page', m) /\ page'.pad = page.pad /\ page'.open = page.open
           ELSE AtRest(page', m) /\ page'.pad = page.original[m] /\ ~page'.open
    BY <1>4, <2>6 DEF Goes
  <2>10. page'.trap \in page'.shown \cup {0} /\ page'.open \in BOOLEAN
    BY <1>7, <1>8, <2>9 DEF ModalGood, Good, ModalTyped, ModalStates
  <2>11. CASE base.fade /\ base.covers
    <3>1. Clearing(page', m) /\ page'.pad = page.pad /\ page'.open = page.open
      BY <2>9, <2>11
    <3>2. ~AtRest(page', m) /\ InCourse(page', m)
      BY <3>1 DEF Clearing, AtRest, InCourse
    <3>3. GoesOn(page, m, page')
      BY <1>7, <2>7, <2>8, <2>9, <2>10, <3>1, <3>2 DEF GoesOn
    <3> QED
      BY <1>8, <3>3, GoesOnGood
  <2>12. CASE ~(base.fade /\ base.covers)
    <3>1. AtRest(page', m) /\ page'.pad = page.original[m] /\ page'.open = FALSE
      BY <2>9, <2>10, <2>12
    <3>2. ComesToRest(page, m, page')
      BY <1>7, <2>7, <2>8, <2>9, <3>1 DEF ComesToRest
    <3> QED
      BY <1>8, <3>2, ComesToRestGood
  <2> QED
    BY <2>11, <2>12
<1> QED
  BY <1>7, <1>8 DEF ModalInv

\* The backdrop has faded in, or out.
LEMMA BackdropEndKeeps ==
    ASSUME ModalInv(page), NEW i \in DOMAIN page.drops, ModalBoxes!BackdropEnd(i)
    PROVE  ModalInv(page')
<1> DEFINE base == [page EXCEPT !.drops[i].ends = <<>>]
           m == page.drops[i].of
           ends == page.drops[i].ends
<1>1. page \in ModalStates /\ ModalTyped(page) /\ page.drops \in Seq(Drops)
  BY DEF ModalInv, ModalTyped, ModalStates
<1>2. i \in 1 .. Len(page.drops) /\ page.drops[i] \in Drops
  BY <1>1
<1>3. m \in Pair /\ ends \in Seq(Whats)
  BY <1>2 DEF Drops
<1>4. /\ ends # <<>>
      /\ page' = ModalBoxes!FoldLeft(ModalBoxes!CalledBack, base,
                                     [k \in DOMAIN ends |-> [of |-> m, what |-> ends[k]]])
  BY Zenon DEF ModalBoxes!BackdropEnd
<1>5. Waits(page, i, <<>>, base)
  <2>1. <<>> \in Seq(Whats)
    OBVIOUS
  <2> QED
    BY <1>1, <1>2, <2>1, WaitIs
<1> HIDE DEF base
<1>6. ModalTyped(base) /\ Follows(page, base) /\ SameDialogs(page, base)
  BY <1>5 DEF Waits, Follows
<1>7. Follows(base, page') /\ (Len(ends) = 1 => page' = ModalBoxes!Callback(base, m, ends[1]))
  <2> HIDE DEF m, ends
  <2> QED
    BY <1>3, <1>4, <1>6, CallingsRun
<1>8. /\ ModalTyped(page') /\ page'.hurried = page.hurried /\ page'.stacked = page.stacked
      /\ page'.fade = page.fade /\ page'.covers = page.covers
      /\ base.fade = page.fade /\ base.covers = page.covers
  BY <1>6, <1>7 DEF Follows
<1>9. ASSUME ModalGood(page) PROVE ModalGood(page')
  <2>1. DropsOK(page) /\ InCourse(page, m) /\ page.trap \in page.shown \cup {0}
    BY <1>3, <1>9 DEF ModalGood, Good
  <2>2. page.backdrop[m] = i /\ i # 0
    BY <1>2, <1>4, <2>1 DEF DropsOK
  <2>3. EndsOf(page, m) = ends
    BY <2>2 DEF EndsOf
  <2>4. Opening(page, m) \/ Clearing(page, m)
    BY <1>4, <2>1, <2>2, <2>3 DEF InCourse, AtRest, Up, Parting, Backed
  <2>5. /\ base.shown = page.shown /\ base.seen = page.seen /\ base.leaving = page.leaving
        /\ base.entering = page.entering /\ base.original = page.original
        /\ base.pad = page.pad /\ base.open = page.open /\ base.trap = page.trap
        /\ base.resized = page.resized /\ base.backdrop = page.backdrop
    BY <1>5 DEF Waits, SameDialogs
  <2>6. BackdropsApart(page, m, base) /\ DropsOK(base) /\ EndsOf(base, m) = <<>>
    <3> HIDE DEF m
    <3> QED
      BY <1>1, <1>3, <1>5, <2>1, <2>2, ApartWaiting
  <2>7. ~AtRest(page, m)
    BY <2>2 DEF AtRest
  <2> HIDE DEF m, ends
  <2>8. ASSUME BackdropsApart(base, m, page'), page'.shown = base.shown,
               \A k \in Pair \ {m} : k \in page'.seen <=> k \in base.seen,
               page'.leaving = base.leaving,
               \A k \in Pair \ {m} : page'.entering[k] = base.entering[k],
               page'.original = base.original
        PROVE  Apart(page, m, page')
    <3>1. BackdropsApart(page, m, page')
      BY <2>6, <2>8 DEF BackdropsApart
    <3> QED
      BY <1>8, <2>5, <2>8, <3>1 DEF Apart
  <2>9. CASE Opening(page, m)
    <3>1. Len(ends) = 1 /\ ends[1] = "appear"
      BY <2>3, <2>9 DEF Opening
    <3>2. Appears(base, m, page')
      BY <1>3, <1>6, <1>7, <3>1, AppearIs DEF ModalBoxes!Callback
    <3>3. /\ page'.backdrop = base.backdrop /\ page'.drops = base.drops
          /\ page'.shown = base.shown /\ page'.seen = base.seen \cup {m}
          /\ page'.leaving = base.leaving
          /\ page'.entering[m] = (IF base.fade THEN base.entering[m] + 1 ELSE base.entering[m])
          /\ \A k \in Pair \ {m} : page'.entering[k] = base.entering[k]
          /\ page'.original = base.original /\ page'.pad = base.pad /\ page'.open = base.open
          /\ page'.trap = m /\ page'.resized = base.resized
      BY <3>2 DEF Appears
    <3>4. DropsOK(page') /\ BackdropsApart(base, m, page') /\ EndsOf(page', m) = <<>>
      BY <2>6, <3>3 DEF DropsOK, BackdropsApart, EndsOf
    <3>5. Apart(page, m, page')
      BY <2>8, <3>3, <3>4
    <3>6. (page'.backdrop[m] # 0) = page'.covers
      <4>1. page'.covers = TRUE
        BY <1>8, <2>9 DEF Opening, ModalTyped, ModalStates
      <4> QED
        BY <2>2, <2>5, <3>3, <4>1
    <3>7. page'.entering[m] \in {0, 1} /\ page'.leaving[m] = 0 /\ m \in page'.shown
      BY <2>5, <2>9, <3>3 DEF Opening, Still
    <3>8. Up(page', m)
      BY <3>3, <3>4, <3>6, <3>7 DEF Up, Backed
    <3>9. ~AtRest(page', m) /\ InCourse(page', m) /\ page'.trap \in page'.shown \cup {0}
      BY <3>3, <3>7, <3>8 DEF AtRest, InCourse
    <3>10. GoesOn(page, m, page')
      BY <1>8, <2>5, <2>7, <3>3, <3>4, <3>5, <3>9 DEF GoesOn
    <3> QED
      BY <1>3, <1>9, <3>10, GoesOnGood
  <2>10. CASE Clearing(page, m)
    <3>1. Len(ends) = 1 /\ ends[1] = "remove"
      BY <2>3, <2>10 DEF Clearing
    <3>2. Removes(base, m, page')
      BY <1>3, <1>6, <1>7, <3>1, RemoveIs
    <3>3. DropsOK(page') /\ BackdropsApart(base, m, page')
      BY <1>3, <1>6, <2>6, <3>2, ApartRemoved
    <3>4. /\ page'.shown = base.shown /\ page'.seen = base.seen
          /\ page'.leaving = base.leaving /\ page'.entering = base.entering
          /\ page'.original = base.original /\ page'.pad = base.original[m]
          /\ page'.open = FALSE /\ page'.trap = base.trap /\ page'.resized = base.resized
          /\ page'.backdrop[m] = 0
      BY <3>2 DEF Removes
    <3>5. Apart(page, m, page')
      BY <2>8, <3>3, <3>4
    <3>6. AtRest(page', m)
      BY <2>5, <2>10, <3>4 DEF AtRest, Clearing, Still
    <3>7. ComesToRest(page, m, page')
      BY <1>8, <2>5, <2>7, <3>3, <3>4, <3>5, <3>6 DEF ComesToRest
    <3> QED
      BY <1>3, <1>9, <3>7, ComesToRestGood
  <2> QED
    BY <2>4, <2>9, <2>10
<1> QED
  BY <1>8, <1>9 DEF ModalInv

\* The dialogs begin in their invariant.
LEMMA ModalStarts ==
    ASSUME ModalBoxes!ModalInit
    PROVE  ModalInv(page)
<1>1. PICK fade \in BOOLEAN, covers \in BOOLEAN :
        page = [shown    |-> {}, seen |-> {},
                backdrop |-> [m \in Pair |-> ModalBoxes!Nobody],
                drops    |-> <<>>,
                leaving  |-> [m \in Pair |-> 0], entering |-> [m \in Pair |-> 0],
                original |-> [m \in Pair |-> 0],
                pad |-> 0, open |-> FALSE,
                trap |-> ModalBoxes!Nobody, resized |-> {}, ignore |-> {},
                fade |-> fade, covers |-> covers,
                calls |-> 0, hurried |-> FALSE, stacked |-> FALSE]
  BY Zenon DEF ModalBoxes!ModalInit
<1> DEFINE none == [m \in Pair |-> 0]
<1>2. none \in [Pair -> Nat] /\ \A m \in Pair : none[m] = 0
  OBVIOUS
<1>3. page = [shown |-> {}, seen |-> {}, backdrop |-> none, drops |-> <<>>,
              leaving |-> none, entering |-> none, original |-> none,
              pad |-> 0, open |-> FALSE, trap |-> 0, resized |-> {}, ignore |-> {},
              fade |-> fade, covers |-> covers,
              calls |-> 0, hurried |-> FALSE, stacked |-> FALSE]
  BY <1>1 DEF ModalBoxes!Nobody
<1> HIDE DEF none
<1>4. <<>> \in Seq(Drops) /\ Len(<<>>) = 0 /\ {} \in SUBSET Pair
  OBVIOUS
<1>5. page \in ModalStates
  BY <1>2, <1>3, <1>4 DEF ModalStates
<1>6. /\ page.shown = {} /\ page.seen = {} /\ page.backdrop = none /\ page.drops = <<>>
      /\ page.leaving = none /\ page.entering = none /\ page.original = none
      /\ page.pad = 0 /\ page.open = FALSE /\ page.trap = 0 /\ page.resized = {}
  BY <1>3
<1>7. ModalTyped(page)
  BY <1>2, <1>4, <1>5, <1>6 DEF ModalTyped
<1>8. \A m \in Pair : AtRest(page, m)
  BY <1>2, <1>6 DEF AtRest, Still
<1>9. DropsOK(page)
  BY <1>2, <1>4, <1>6 DEF DropsOK
<1>10. Good(page)
  BY <1>6, <1>8, <1>9 DEF Good, InCourse
<1>11. Alone(page)
  BY <1>6, <1>8 DEF Alone
<1> QED
  BY <1>7, <1>10, <1>11 DEF ModalInv, ModalGood

\* Whatever happens keeps the invariant of the dialogs.
LEMMA ModalKeeps ==
    ASSUME ModalInv(page), ModalBoxes!ModalNext
    PROVE  ModalInv(page')
<1>0. page \in ModalStates
  BY DEF ModalInv, ModalTyped
<1>1. ASSUME NEW m \in Pair, ModalBoxes!Open(m) PROVE ModalInv(page')
  BY <1>1, ShowKeeps DEF ModalBoxes!Open
<1>2. ASSUME NEW m \in Pair, ModalBoxes!Trigger(m) PROVE ModalInv(page')
  <2>1. ModalBoxes!Calls(ModalBoxes!Toggle(page, m), m)
    BY <1>2 DEF ModalBoxes!Trigger
  <2>2. CASE m \in page.shown
    <3>1. ModalBoxes!Toggle(page, m) = ModalBoxes!Hide(page, m)
      BY <2>2, Zenon DEF ModalBoxes!Toggle
    <3>2. ModalBoxes!Calls(ModalBoxes!Hide(page, m), m)
      BY <2>1, <3>1
    <3> QED
      BY <2>2, <3>2, HideKeeps
  <2>3. CASE m \notin page.shown
    <3>1. ModalBoxes!Toggle(page, m) = ModalBoxes!Show(page, m)
      BY <2>3, Zenon DEF ModalBoxes!Toggle
    <3>2. ModalBoxes!Calls(ModalBoxes!Show(page, m), m)
      BY <2>1, <3>1
    <3> QED
      BY <2>3, <3>2, ShowKeeps
  <2> QED
    BY <2>2, <2>3
<1>3. ASSUME NEW m \in Pair, ModalBoxes!Dismiss(m) PROVE ModalInv(page')
  BY <1>3, HideKeeps DEF ModalBoxes!Dismiss
<1>4. ASSUME NEW m \in Pair, ModalBoxes!ClickBeside(m) PROVE ModalInv(page')
  <2>1. CASE m \in page.ignore
    <3>1. page' = [page EXCEPT !.ignore = page.ignore \ {m}]
      BY <1>0, <1>4, <2>1 DEF ModalBoxes!ClickBeside, ModalStates
    <3>2. page.ignore \ {m} \in SUBSET Pair
      BY <1>0 DEF ModalStates
    <3> QED
      BY <3>1, <3>2, IgnoreKeeps
  <2>2. CASE m \notin page.ignore
    BY <1>4, <2>2, HideKeeps DEF ModalBoxes!ClickBeside
  <2> QED
    BY <2>1, <2>2
<1>5. ASSUME NEW m \in Pair, ModalBoxes!DragOut(m) PROVE ModalInv(page')
  <2>1. page' = [page EXCEPT !.ignore = page.ignore \cup {m}]
    BY <1>0, <1>5 DEF ModalBoxes!DragOut, ModalStates
  <2>2. page.ignore \cup {m} \in SUBSET Pair
    BY <1>0 DEF ModalStates
  <2> QED
    BY <2>1, <2>2, IgnoreKeeps
<1> QED
  BY <1>1, <1>2, <1>3, <1>4, <1>5, DialogEndKeeps, ElementEndKeeps, BackdropEndKeeps
     DEF ModalBoxes!ModalNext, ModalBoxes!ModalRuns

\* The invariant of the dialogs has what the runs check of them.
LEMMA ModalSafe ==
    ASSUME ModalInv(page)
    PROVE  ModalBoxes!ModalAgrees
<1> SUFFICES ASSUME ModalBoxes!ModalQuiet, ~page.hurried
             PROVE  /\ page.seen = page.shown
                    /\ \A m \in Pair :
                          (page.backdrop[m] # 0) = (m \in page.shown /\ page.covers)
                    /\ \A i \in DOMAIN page.drops :
                          page.drops[i].there => page.backdrop[page.drops[i].of] = i
                    /\ page.shown = {} => ~page.open /\ page.trap = 0
                    /\ ~page.stacked => /\ page.open = (page.shown # {})
                                        /\ page.pad = IF page.open THEN 1 ELSE 0
                                        /\ page.resized = page.shown
  BY DEF ModalBoxes!ModalAgrees, ModalBoxes!Nobody
<1>1. /\ ModalTyped(page) /\ Good(page) /\ DropsOK(page) /\ (~page.stacked => Alone(page))
      /\ page \in ModalStates
  BY DEF ModalInv, ModalGood, Good, ModalTyped
<1>2. \A m \in Pair : IF m \in page.shown THEN Up(page, m) ELSE AtRest(page, m)
  BY <1>1, NotPending DEF ModalBoxes!ModalQuiet, Good
<1>3. page.seen = page.shown
  <2>1. page.seen \subseteq Pair /\ page.shown \subseteq Pair
    BY <1>1 DEF ModalStates
  <2> QED
    BY <1>2, <2>1 DEF Up, AtRest
<1>4. ASSUME NEW m \in Pair PROVE (page.backdrop[m] # 0) = (m \in page.shown /\ page.covers)
  <2>1. CASE m \in page.shown
    <3>1. (page.backdrop[m] # 0) = page.covers /\ page.covers \in BOOLEAN
      BY <1>1, <1>2, <2>1 DEF Up, Backed, ModalStates
    <3> QED
      BY <2>1, <3>1
  <2>2. CASE m \notin page.shown
    BY <1>2, <2>2 DEF AtRest
  <2> QED
    BY <2>1, <2>2
<1>5. ASSUME NEW i \in DOMAIN page.drops, page.drops[i].there
      PROVE  page.backdrop[page.drops[i].of] = i
  <2>1. i \in 1 .. Len(page.drops)
    BY <1>1 DEF ModalStates
  <2> QED
    BY <1>1, <1>5, <2>1 DEF DropsOK
<1>6. ASSUME page.shown = {} PROVE ~page.open /\ page.trap = 0
  BY <1>1, <1>2, <1>6 DEF Good
<1>7. ASSUME ~page.stacked
      PROVE  /\ page.open = (page.shown # {})
             /\ page.pad = IF page.open THEN 1 ELSE 0
             /\ page.resized = page.shown
  <2>1. Alone(page) /\ page.open \in BOOLEAN
    BY <1>1, <1>7 DEF ModalStates
  <2>2. CASE page.shown = {}
    BY <1>6, <2>1, <2>2 DEF Alone
  <2>3. CASE page.shown # {}
    <3>1. PICK m \in page.shown : m \in Pair
      BY <1>1, <2>3 DEF ModalStates
    <3>2. ~AtRest(page, m)
      BY <3>1 DEF AtRest
    <3>3. page.open = TRUE
      BY <2>1, <3>1, <3>2 DEF Alone
    <3> QED
      BY <2>1, <2>3, <3>3 DEF Alone
  <2> QED
    BY <2>2, <2>3
<1> QED
  BY <1>3, <1>4, <1>5, <1>6, <1>7

\* The invariant has the dialogs' type.
LEMMA ModalTypes ==
    ASSUME ModalInv(page)
    PROVE  ModalBoxes!ModalTypeOK
<1>1. page \in ModalStates /\ \A m \in Pair : page.backdrop[m] \in 0 .. Len(page.drops)
  BY DEF ModalInv, ModalTyped
<1> QED
  BY <1>1 DEF ModalStates, Drops, Whats, ModalBoxes!ModalTypeOK, ModalBoxes!Nobody
================================================================================
