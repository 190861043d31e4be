------------------------------ MODULE Progress ------------------------------
(***************************************************************************)
(* The bar at the top of a page that is loading (nprogress.js): set from   *)
(* 1 to Full, trickling on by itself, and faded out when it is full.  It   *)
(* can follow several promises.  The queue that is to keep one animation   *)
(* from starting before the last has ended takes the running one off first *)
(* and so never holds any: every animation starts when it is called for,   *)
(* and the two timeouts of each fading run whatever is set meanwhile.      *)
(* Colours, easing and the spinner are left out.                           *)
(***************************************************************************)
EXTENDS Naturals, FiniteSetsExt

CONSTANTS Full,        \* steps of the bar
          MaxCalls     \* bound on the calls of a behaviour

VARIABLE progress

None == 0              \* status null: not started

ProgressInit ==
    \E trickle \in BOOLEAN :
        progress = [status |-> None, rendered |-> FALSE, opaque |-> FALSE,
                    works |-> 0,                   \* trickling timeouts
                    waits |-> 0, fades |-> 0,      \* timeouts of the fading
                    initial |-> 0, current |-> 0,  \* of the promises
                    trickle |-> trickle, calls |-> 0,
                    byHand |-> FALSE, hurried |-> FALSE, again |-> FALSE]

Between(n, low, high) == Min({Max({n, low}), high})

\* set: a full bar waits and fades, and is not the started one any more.
Set(p, n) ==
    LET s == Between(n, 1, Full) IN
    [p EXCEPT !.status = IF s = Full THEN None ELSE s,
              !.rendered = TRUE, !.opaque = IF p.rendered /\ s < Full THEN @ ELSE TRUE,
              !.waits = IF s = Full THEN @ + 1 ELSE @,
              !.hurried = @ \/ (s < Full /\ p.waits + p.fades > 0)]

Start(p) ==
    LET shown == IF p.status = None THEN Set(p, 0) ELSE p IN
    IF ~p.trickle THEN shown
    ELSE [shown EXCEPT !.works = @ + 1, !.again = @ \/ p.works > 0]

\* inc: by a random amount, never to the end.
Increments(p) == IF p.status = None THEN {Start(p)}
                 ELSE {Set(p, n) : n \in p.status .. Full - 1}

Done(p, force) ==
    IF ~force /\ p.status = None THEN {p} ELSE {Set(q, Full) : q \in Increments(p)}

Calls(results) ==
    /\ progress.calls < MaxCalls
    /\ \E p \in results : progress' = [p EXCEPT !.calls = @ + 1]
ByHand(results) == Calls({[p EXCEPT !.byHand = TRUE] : p \in results})

CallSet(n) == ByHand({Set(progress, n)})
CallStart == ByHand({Start(progress)})
CallInc == ByHand(Increments(progress))
CallDone(force) == ByHand(Done(progress, force))

\* promise: of one that is not resolved yet.
Follow ==
    LET p == IF progress.current = 0 THEN Start(progress) ELSE progress IN
    Calls({[p EXCEPT !.initial = @ + 1, !.current = @ + 1]})

\* One of the promises is settled.
Settle ==
    /\ progress.current > 0
    /\ LET left == progress.current - 1
           p == [progress EXCEPT !.current = left, !.initial = IF left = 0 THEN 0 ELSE @]
       IN  \E q \in (IF left = 0 THEN Done(p, FALSE)
                     ELSE {Set(p, (Full * (p.initial - left)) \div p.initial)}) : progress' = q

\* work: ends at the first timeout that finds the bar not started.
Work ==
    /\ progress.works > 0
    /\ IF progress.status = None THEN progress' = [progress EXCEPT !.works = @ - 1]
       ELSE \E p \in Increments(progress) : progress' = p

Faint ==
    /\ progress.waits > 0
    /\ progress' = [progress EXCEPT !.waits = @ - 1, !.fades = @ + 1, !.opaque = FALSE]

Remove ==
    /\ progress.fades > 0
    /\ progress' = [progress EXCEPT !.fades = @ - 1, !.rendered = FALSE, !.opaque = FALSE]

ProgressRuns == Faint \/ Remove \/ (progress.status = None /\ Work)
ProgressNext ==
    \/ ProgressRuns \/ Work \/ Settle
    \/ CallStart \/ CallInc \/ Follow
    \/ \E n \in 0 .. Full : CallSet(n)
    \/ \E force \in BOOLEAN : CallDone(force)

-----------------------------------------------------------------------------
ProgressTypeOK ==
    /\ progress.status \in 0 .. Full - 1 /\ progress.works \in 0 .. MaxCalls
    /\ progress.current \in 0 .. progress.initial /\ progress.initial <= MaxCalls

ProgressQuiet == progress.waits + progress.fades = 0

\* At rest the bar is there when it is started and gone when it is not, unless
\* it was started again while it faded, and then no timeout is left that would
\* bring a bar back that is done.  Promises alone keep it there until the last
\* one is settled, and one trickling goes on unless it was started twice.
BarFollowsStatus ==
    /\ progress.rendered => progress.status # None \/ ~ProgressQuiet
    /\ progress.status # None /\ ~progress.hurried => progress.rendered /\ progress.opaque
    /\ ~progress.byHand => (progress.status # None) = (progress.current > 0)
    /\ ~progress.again => progress.works <= 1
=============================================================================
