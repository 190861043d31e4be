-------------------------------- MODULE Dialog --------------------------------
(***************************************************************************)
(* Dialogs of jQuery UI (jquery-ui.js, Dialog): opened and closed by       *)
(* scripts, some with an animation, some over an overlay that keeps the    *)
(* focus inside.  The document keeps the dialogs in the order they had the *)
(* focus, the number of overlays, and one handler, of the dialog that made *)
(* the first overlay, that sends the focus back from the page.  A          *)
(* beforeClose that refuses, sizes, dragging, titles and buttons are left  *)
(* out; within a dialog any element stands for it.                         *)
(***************************************************************************)
EXTENDS Integers, Sequences, FiniteSets, SequencesExt

CONSTANTS Dialogs, Animated,   \* 1 .. n; those shown and hidden by an animation
          MaxEvents            \* bound on the calls and the reader's events

VARIABLE dialogs

Page == 0      \* places for the focus, besides the dialogs
Nowhere == -1
Nobody == 0    \* no dialog

Created(modal) ==
    [modal |-> modal, open |-> FALSE, shown |-> FALSE, z |-> 1, overlay |-> 0,
     opener |-> Nowhere, queue |-> <<>>]

DialogInit ==
    \E modal \in [Dialogs -> BOOLEAN] :
        dialogs = [on |-> [d \in Dialogs |-> Created(modal[d])],
                   created |-> Dialogs,
                   instances |-> <<>>,      \* by their last focus
                   overlays |-> 0,
                   handler |-> Nobody, isOpening |-> FALSE,
                   focus |-> Page,
                   checks |-> {},           \* delayed checks of the focus
                   left |-> MaxEvents,
                   \* history: dialogs that had the focus while closed; whether
                   \* the handler let the focus pass; whether it was unbound with
                   \* its dialog, or an option changed under an overlay
                   stale |-> {}, passed |-> FALSE, undone |-> FALSE]

UntrackInstance(s, d) == [s EXCEPT !.instances = SelectSeq(@, LAMBDA e : e # d)]
MakeFocusTarget(s, d) ==
    [UntrackInstance(s, d) EXCEPT !.instances = <<d>> \o @,
                                  !.stale = IF s.on[d].open THEN @ \ {d} ELSE @ \cup {d}]

\* A dialog that is hidden does not take it; on the page the handler sends it to
\* the dialog that had it last.
FocusIn(s, d) ==
    IF d \in s.created /\ s.on[d].shown /\ s.focus # d
    THEN MakeFocusTarget([s EXCEPT !.focus = d, !.passed = FALSE], d) ELSE s
FocusPage(s) ==
    LET top == Head(s.instances)
        t == [s EXCEPT !.focus = Page] IN
    IF s.focus = Page THEN s
    ELSE IF s.handler = Nobody \/ s.instances = <<>> THEN t
    ELSE IF s.isOpening THEN [t EXCEPT !.passed = TRUE]
    ELSE FocusIn([t EXCEPT !.passed = top \in s.stale], top)

MoveToTop(s, d) ==
    LET others == {s.on[e].z : e \in {e \in s.created \ {d} : s.on[e].shown}}
                  \cup {s.on[e].overlay : e \in Dialogs}
        higher == {z \in others : z >= s.on[d].z}
    IN  IF higher = {} THEN s
        ELSE [s EXCEPT !.on[d].z = 1 + CHOOSE z \in higher : \A y \in higher : y <= z]

CreateOverlay(s, d) ==
    IF ~s.on[d].modal THEN s
    ELSE [s EXCEPT !.handler = IF s.overlays = 0 THEN d ELSE @,
                   !.isOpening = (s.overlays = 0) \/ @,
                   !.overlays = @ + 1, !.on[d].overlay = 1,
                   !.undone = @ \/ s.on[d].overlay > 0]

DestroyOverlay(s, d) ==
    IF ~s.on[d].modal \/ s.on[d].overlay = 0 THEN s
    ELSE [s EXCEPT !.overlays = @ - 1, !.on[d].overlay = 0,
                   !.handler = IF s.overlays = 1 THEN Nobody ELSE @]

\* The animations of a dialog: each waits for the one before it.
Hidden(s, d) ==
    [s EXCEPT !.on[d].shown = FALSE, !.focus = IF @ = d THEN Nowhere ELSE @]
Shown(s, d) == FocusIn([s EXCEPT !.on[d].shown = TRUE], d)
Begin(s, d) ==
    IF s.on[d].queue # <<>> /\ Head(s.on[d].queue) = "show"
    THEN [s EXCEPT !.on[d].shown = TRUE] ELSE s
Finish(s, d) ==
    LET t == IF Head(s.on[d].queue) = "show" THEN Shown(s, d) ELSE Hidden(s, d)
    IN  Begin([t EXCEPT !.on[d].queue = Tail(@)], d)
Enqueue(s, d, what) ==
    LET t == [s EXCEPT !.on[d].queue = Append(@, what)] IN
    IF d \notin Animated THEN Finish(t, d)
    ELSE IF Len(t.on[d].queue) = 1 THEN Begin(t, d) ELSE t

-----------------------------------------------------------------------------
\* What scripts call.
Within(s) == [s EXCEPT !.left = @ - 1]

Open(d) ==
    LET s == Within(dialogs)
        opened == [s EXCEPT !.on[d].open = TRUE, !.on[d].opener = s.focus]
        top == MoveToTop(CreateOverlay(opened, d), d)
        over == IF top.on[d].overlay = 0 THEN top
                ELSE [top EXCEPT !.on[d].overlay = top.on[d].z - 1]
    IN  /\ d \in s.created
        /\ dialogs' = IF ~s.on[d].open THEN MakeFocusTarget(Enqueue(over, d, "show"), d)
                      ELSE LET t == MoveToTop(s, d) IN IF t = s THEN s ELSE FocusIn(t, d)

Focusable(s, place) ==
    place # Nowhere /\ (place # Page => place \in s.created /\ s.on[place].shown)

CloseDialog(s, d) ==
    LET closed == UntrackInstance(DestroyOverlay([s EXCEPT !.on[d].open = FALSE], d), d)
        back == IF ~Focusable(closed, s.on[d].opener) THEN [closed EXCEPT !.focus = Nowhere]
                ELSE IF s.on[d].opener = Page THEN FocusPage(closed)
                ELSE FocusIn(closed, s.on[d].opener)
    IN  IF s.on[d].open THEN Enqueue(back, d, "hide") ELSE s

Close(d) == d \in dialogs.created /\ dialogs' = CloseDialog(Within(dialogs), d)

\* Animations are ended first, and what is bound for the dialog is unbound last.
Destroy(d) ==
    LET s == Within(dialogs)
        t == DestroyOverlay(UntrackInstance([s EXCEPT !.on[d].open = FALSE], d), d)
        ended == IF t.on[d].queue # <<>> /\ Head(t.on[d].queue) = "show" THEN Shown(t, d) ELSE t
        removed == Hidden([ended EXCEPT !.created = @ \ {d}, !.on[d].queue = <<>>,
                                        !.checks = @ \ {d}], d)
    IN  /\ d \in s.created
        /\ dialogs' = IF removed.handler # d THEN removed
                      ELSE [removed EXCEPT !.handler = Nobody, !.undone = TRUE]

SetModal(d) ==
    /\ d \in dialogs.created
    /\ dialogs' = [Within(dialogs) EXCEPT !.on[d].modal = ~@,
                                          !.undone = @ \/ dialogs.on[d].overlay > 0]

-----------------------------------------------------------------------------
\* What the reader does, once timers of no time have run.
Overlays == {e \in Dialogs : dialogs.on[e].overlay > 0}
InReach(d) ==
    /\ d \in dialogs.created /\ dialogs.on[d].shown
    /\ \A e \in Overlays : dialogs.on[e].overlay < dialogs.on[d].z
Idle == ~dialogs.isOpening /\ dialogs.checks = {}

FocusOn(place) ==
    /\ Idle
    /\ dialogs' = LET s == Within(dialogs) IN
                  IF place = Page THEN FocusPage(s) ELSE FocusIn(s, place)

Press(d) ==
    /\ Idle /\ InReach(d)
    /\ dialogs' = FocusIn(MoveToTop(Within(dialogs), d), d)

Escape ==
    /\ Idle /\ dialogs.focus \in Dialogs
    /\ dialogs' = CloseDialog(Within(dialogs), dialogs.focus)

\* An overlay keeps the focus in its dialog, and checks that again later.
KeepFocus(d) ==
    /\ Idle /\ d \in Overlays \cap dialogs.created
    /\ \A e \in Overlays : dialogs.on[e].overlay <= dialogs.on[d].overlay
    /\ dialogs' = FocusIn([Within(dialogs) EXCEPT !.checks = @ \cup {d}], d)

-----------------------------------------------------------------------------
Check(d) == d \in dialogs.checks /\ dialogs' = FocusIn([dialogs EXCEPT !.checks = @ \ {d}], d)
Opened == dialogs.isOpening /\ dialogs' = [dialogs EXCEPT !.isOpening = FALSE]
Step(d) == dialogs.on[d].queue # <<>> /\ dialogs' = Finish(dialogs, d)

DialogRuns == Opened \/ \E d \in Dialogs : Check(d) \/ Step(d)

DialogNext ==
    \/ DialogRuns
    \/ /\ dialogs.left > 0
       /\ \/ \E d \in Dialogs : Open(d) \/ Close(d) \/ Destroy(d) \/ SetModal(d)
                                \/ Press(d) \/ KeepFocus(d)
          \/ \E place \in Dialogs \cup {Page} : FocusOn(place)
          \/ Escape

-----------------------------------------------------------------------------
DialogTypeOK ==
    /\ dialogs.focus \in Dialogs \cup {Page, Nowhere}
    /\ dialogs.handler \in Dialogs \cup {Nobody}
    /\ dialogs.overlays \in Nat /\ dialogs.left \in 0 .. MaxEvents
    /\ ToSet(dialogs.instances) \subseteq Dialogs

DialogQuiet == Idle /\ \A d \in Dialogs : dialogs.on[d].queue = <<>>

\* At rest a dialog is in the page exactly while it is open.  The document's list
\* holds every open dialog once, and a closed one only if it was given the focus
\* while it was going (or coming, when it was closed before it was there).
\* Unless a dialog was destroyed that had the handler, or an option changed
\* under an overlay: the overlays are those counted, and while there is one the
\* handler is bound, one dialog lies above them all, and the focus is not on the
\* page, except where it passed before the handler started or when a closed
\* dialog was the one to take it.
DialogsAgree ==
    LET opened == {d \in dialogs.created : dialogs.on[d].open} IN
    DialogQuiet =>
        /\ \A d \in dialogs.created : dialogs.on[d].shown <=> dialogs.on[d].open
        /\ opened \subseteq ToSet(dialogs.instances)
        /\ ToSet(dialogs.instances) \subseteq opened \cup dialogs.stale
        /\ Len(dialogs.instances) = Cardinality(ToSet(dialogs.instances))
        /\ ~dialogs.undone =>
              /\ dialogs.overlays = Cardinality(Overlays)
              /\ Overlays \subseteq opened
              /\ (dialogs.handler = Nobody) <=> (Overlays = {})
              /\ Overlays # {} =>
                    /\ \E d \in opened : InReach(d)
                    /\ dialogs.focus = Page => dialogs.passed
===============================================================================
