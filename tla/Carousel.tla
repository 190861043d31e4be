------------------------------- MODULE Carousel -------------------------------
(***************************************************************************)
(* A carousel (carousel.js of Bootstrap).  One item is active; a slide     *)
(* makes another one active at the end of a transition, and announces it   *)
(* in a timeout of its own.  An item asked for during a slide is shown     *)
(* after that announcement.  The carousel advances by itself while its     *)
(* interval runs: the pointer stops it, and a slide stops and restarts it. *)
(***************************************************************************)
EXTENDS Integers, Sequences, SequencesExt

CONSTANTS Items,      \* the number of items, shown as 0 .. Items - 1
          MaxEvents   \* bound on the clicks, keys and ticks of a behaviour

VARIABLE carousel

Shows == 0 .. Items - 1
None == -1

CarouselInit ==
    \E wrap \in BOOLEAN :
        carousel = [active |-> 0, indicator |-> 0, coming |-> None, sliding |-> FALSE,
                    cycling |-> TRUE, paused |-> FALSE, hovered |-> FALSE, chosen |-> FALSE,
                    announced |-> 0, waiting |-> <<>>, wrap |-> wrap,
                    wanted |-> None, between |-> FALSE, events |-> 0]

\* pause and cycle, as a slide calls them: paused, then running again.
PauseCycle(c) == [c EXCEPT !.paused = FALSE, !.cycling = TRUE]

\* Bug seed for the mutants: nothing comes around.
ItemForUnwrapped(c, delta) == c.active + delta

\* getItemForDirection; beyond an end without wrap it is the active item.
ItemFor(c, delta) ==
    LET i == c.active + delta IN
    IF i \notin Shows /\ ~c.wrap THEN c.active ELSE i % Items

\* slide: the indicator moves at once, the item at the end of the transition.
Slide(c, next) ==
    IF next = c.active THEN [c EXCEPT !.sliding = FALSE]
    ELSE LET begun == [c EXCEPT !.sliding = TRUE, !.indicator = next, !.coming = next]
         IN  IF c.cycling THEN PauseCycle(begun) ELSE begun

\* next and prev do nothing during a slide.
Advance(c, delta) == IF c.sliding THEN c ELSE Slide(c, ItemFor(c, delta))

\* Bug seed for the mutants: it waits in any case.
ToLater(c, item) == [c EXCEPT !.waiting = Append(@, item)]

\* to: an item asked for during a slide waits for its announcement.
To(c, item) ==
    IF c.sliding THEN [c EXCEPT !.waiting = Append(@, item)]
    ELSE IF item = c.active THEN [PauseCycle(c) EXCEPT !.chosen = TRUE]
    ELSE Slide(c, item)

Happens(c) ==
    /\ carousel.events < MaxEvents
    /\ carousel' = [c EXCEPT !.events = @ + 1]

\* What the reader asked for last is forgotten when something else begins.
Moved(delta) ==
    IF carousel.sliding \/ carousel.waiting # <<>> THEN Advance(carousel, delta)
    ELSE Advance([carousel EXCEPT !.wanted = None], delta)

\* The controls and the arrow keys.
Control(delta) == Happens(Moved(delta))

\* The interval.
Tick == carousel.cycling /\ Happens(Moved(1))

\* An indicator: data-slide-to.
Indicator(item) ==
    Happens(To([carousel EXCEPT !.wanted = item,
                 !.between = @ \/ (~carousel.sliding /\ carousel.waiting # <<>>)], item))

\* The pointer stops the interval without marking the carousel as paused, so
\* that it runs again when the pointer leaves.
Enter ==
    /\ ~carousel.hovered
    /\ Happens([carousel EXCEPT !.hovered = TRUE, !.cycling = FALSE, !.chosen = FALSE])

Leave ==
    /\ carousel.hovered
    /\ Happens([carousel EXCEPT !.hovered = FALSE, !.cycling = ~carousel.paused])

\* The active item's transition ends: the coming one takes its place, and a
\* timeout will announce it.
TransitionEnd ==
    /\ carousel.coming # None
    /\ carousel' = [carousel EXCEPT !.active = carousel.coming, !.coming = None,
                                    !.sliding = FALSE, !.announced = @ + 1]

\* The announcement serves the items asked for, in their order; the first
\* that slides makes the rest wait for the next one.
Announce ==
    /\ carousel.announced > 0
    /\ carousel' = FoldLeft(To, [carousel EXCEPT !.announced = @ - 1, !.waiting = <<>>],
                            carousel.waiting)

CarouselRuns == TransitionEnd \/ Announce
CarouselNext ==
    \/ CarouselRuns \/ Tick \/ Enter \/ Leave
    \/ \E delta \in {-1, 1} : Control(delta)
    \/ \E item \in Shows : Indicator(item)

-----------------------------------------------------------------------------
CarouselTypeOK ==
    carousel \in [active : Shows, indicator : Shows, coming : Shows \cup {None},
                  sliding : BOOLEAN, cycling : BOOLEAN, paused : BOOLEAN, hovered : BOOLEAN,
                  chosen : BOOLEAN, announced : Nat, waiting : Seq(Shows), wrap : BOOLEAN,
                  wanted : Shows \cup {None}, between : BOOLEAN, events : Nat]

CarouselQuiet == ~carousel.sliding /\ carousel.announced = 0 /\ carousel.waiting = <<>>

\* At rest the indicator is that of the active item; while a slide is under
\* way exactly one item is coming.
CarouselAgrees ==
    /\ carousel.sliding = (carousel.coming # None)
    /\ ~carousel.sliding => carousel.indicator = carousel.active
    /\ carousel.waiting # <<>> => carousel.sliding \/ carousel.announced > 0

\* The interval runs under the pointer only when the reader chose the item
\* that was already there.
CyclesUnhovered == carousel.cycling /\ carousel.hovered => carousel.chosen

\* The item last asked for is the one shown in the end, unless it was asked
\* for between the end of a slide and its announcement, which then shows the
\* one that was waiting.
LastChosenShown ==
    CarouselQuiet /\ carousel.wanted # None /\ ~carousel.between =>
        carousel.active = carousel.wanted
=============================================================================
