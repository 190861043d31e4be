------------------------------- MODULE Accordion -------------------------------
(***************************************************************************)
(* An accordion (jquery-ui.js, Accordion): of its panels one is open, or   *)
(* none if it is collapsible; one opens while another one closes, and      *)
(* panels may be put in and taken out between two calls of refresh.        *)
(* Heights, icons, corners and other events than clicks are left out.      *)
(***************************************************************************)
EXTENDS Integers, Sequences, FiniteSets, SequencesExt

CONSTANTS Panels,     \* each with its header
          AtFirst,    \* panels, a sequence
          Vetoed,     \* panels that a handler of beforeActivate refuses
          MaxEvents   \* bound on what the reader and scripts do

VARIABLE accordion

None == 0      \* no panel
False == 0     \* the option active: no position

-----------------------------------------------------------------------------
PositionOf(p, panels) == IF p \in ToSet(panels) THEN CHOOSE n \in DOMAIN panels : panels[n] = p
                         ELSE -1

\* -1 counts from the end, and what is out of range is nothing.
FindActive(s, n) ==
    IF n = -1 /\ s.headers # <<>> THEN s.headers[Len(s.headers)]
    ELSE IF n \in DOMAIN s.headers THEN s.headers[n] ELSE None

ToggleComplete(s, old) == [s EXCEPT !.content = @ \ {old}]

Ended(s, a) ==
    LET shown == [s EXCEPT !.anims = @ \ {a},
                           !.shown = IF a.show THEN @ \cup {a.panel} ELSE @ \ {a.panel}]
    IN  IF a.completes THEN ToggleComplete(shown, a.old) ELSE shown

\* Bug seed for the mutants: they go on.
StopNone(s, panels) == s

\* Their animations jump to their ends.
Stop(s, panels) ==
    FoldLeft(Ended, s, SetToSeq({a \in s.anims : a.panel \in panels}))

Animate(s, show, hide, old) ==
    LET begin(panel, opens, completes) ==
            [panel |-> panel, show |-> opens, completes |-> completes, old |-> old]
        anims == IF hide = None THEN {begin(show, TRUE, TRUE)}
                 ELSE IF show = None THEN {begin(hide, FALSE, TRUE)}
                 ELSE {begin(hide, FALSE, FALSE), begin(show, TRUE, TRUE)}
    IN  [s EXCEPT !.anims = @ \cup anims, !.shown = (@ \cup {show}) \ {None}]

\* What was shown last is what is hidden.
Toggle(s, show, old) ==
    LET hide == IF s.prevShow # None THEN s.prevShow ELSE old
        still == [Stop(s, {s.prevShow, s.prevHide}) EXCEPT !.prevShow = show, !.prevHide = hide]
        moved == IF s.animated THEN Animate(still, show, hide, old)
                 ELSE ToggleComplete([still EXCEPT !.shown = ((@ \ {hide}) \cup {show}) \ {None}],
                                     old)
        tab == IF show # None /\ hide # None THEN s.tab \ {hide}
               ELSE IF show # None THEN s.tab \ ToSet(s.headers) ELSE s.tab
    IN  [moved EXCEPT !.expanded = ((@ \ {hide}) \cup {show}) \ {None},
                      !.tab = (tab \cup {show}) \ {None}]

EventHandler(s, clicked) ==
    LET same == clicked = s.active
        collapsing == same /\ s.collapsible
        chosen == [s EXCEPT !.option = IF collapsing THEN False ELSE PositionOf(clicked, s.headers),
                            !.active = IF same THEN None ELSE clicked]
        toggled == Toggle(chosen, chosen.active, s.active)
    IN  IF same /\ ~s.collapsible THEN s
        ELSE IF clicked \in Vetoed THEN [s EXCEPT !.vetoed = TRUE]
        ELSE [toggled EXCEPT !.marked = ((@ \ {s.active}) \cup {chosen.active}) \ {None},
                             !.content = (@ \cup {chosen.active}) \ {None}]

\* No panel at the position is the active one, clicked at to close it.
Activate(s, n) ==
    LET found == FindActive(s, n) IN
    IF found = s.active THEN s
    ELSE EventHandler(s, IF found = None THEN s.active ELSE found)

ProcessPanels(s) ==
    [s EXCEPT !.headers = s.inPage, !.shown = @ \ (ToSet(s.inPage) \ s.content)]

Refreshed(s) ==
    LET active == FindActive(s, s.option)
        others == ToSet(s.headers) \ {active}
        open == {active} \ {None}
    IN  [s EXCEPT !.active = active, !.marked = @ \cup open, !.content = @ \cup open,
                  !.shown = (@ \ others) \cup open, !.expanded = (@ \ others) \cup open,
                  !.tab = (@ \ others) \cup IF active # None THEN open
                                            ELSE IF s.headers = <<>> THEN {} ELSE {s.headers[1]}]

AccordionInit ==
    \E animated, collapsible \in BOOLEAN, n \in 0 .. Len(AtFirst) :
        /\ collapsible \/ n # False
        /\ accordion = Refreshed(ProcessPanels(
            [animated |-> animated, collapsible |-> collapsible,
             disabled |-> FALSE, destroyed |-> FALSE,
             inPage |-> AtFirst, removed |-> {},      \* in the page, and taken out of it
             headers |-> <<>>, active |-> None,       \* as it knows them
             option |-> n,                            \* of the active one, its position
             prevShow |-> None, prevHide |-> None,
             shown |-> ToSet(AtFirst), content |-> {}, marked |-> {},
             expanded |-> {}, tab |-> {}, anims |-> {},
             vetoed |-> FALSE, moved |-> FALSE,       \* history, missed: more panels
             missed |-> FALSE, torn |-> FALSE,        \* were taken out than before one
             left |-> MaxEvents]))

Within == [accordion EXCEPT !.left = @ - 1]
Known == ToSet(accordion.headers) \cap ToSet(accordion.inPage)
Listens == ~accordion.disabled /\ ~accordion.destroyed

-----------------------------------------------------------------------------
Click(p) == Listens /\ p \in Known /\ accordion' = EventHandler(Within, p)

\* The focus goes from a header to the next or the previous one.
Arrow(p, next) ==
    LET headers == accordion.headers
        n == PositionOf(p, headers)
        to == IF next THEN (n % Len(headers)) + 1
              ELSE ((n - 2) % Len(headers)) + 1
    IN  /\ Listens /\ p \in Known
        /\ accordion' = [Within EXCEPT !.tab = (@ \ {p}) \cup {headers[to]}, !.moved = TRUE]

CallActivate(n) == ~accordion.destroyed /\ accordion' = Activate(Within, n)

SetCollapsible(collapsible) ==
    LET s == [Within EXCEPT !.collapsible = collapsible] IN
    /\ ~accordion.destroyed /\ accordion.collapsible # collapsible
    /\ accordion' = IF ~collapsible /\ s.option = False THEN Activate(s, 1) ELSE s

SetDisabled(disabled) ==
    /\ ~accordion.destroyed /\ accordion.disabled # disabled
    /\ accordion' = [Within EXCEPT !.disabled = disabled]

Refresh ==
    LET s == ProcessPanels(Within)
        before == IF s.option > 2 THEN s.option - 1 ELSE 1
        updated ==
            IF (s.option = False /\ s.collapsible) \/ s.headers = <<>>
            THEN [s EXCEPT !.option = False, !.active = None]
            ELSE IF s.option = False THEN Activate(s, 1)
            ELSE IF s.active # None /\ s.active \notin ToSet(s.inPage)
            THEN [Activate(s, before) EXCEPT !.missed = @ \/ FindActive(s, before) = None]
            ELSE [s EXCEPT !.option = PositionOf(s.active, s.headers)]
    IN  ~accordion.destroyed /\ accordion' = Refreshed(updated)

\* An animation that runs goes on.
Destroy ==
    /\ ~accordion.destroyed
    /\ accordion' = [Within EXCEPT !.destroyed = TRUE, !.marked = @ \ ToSet(accordion.headers),
                                   !.content = @ \ ToSet(accordion.headers),
                                   !.shown = @ \cup ToSet(accordion.headers),
                                   !.expanded = @ \ ToSet(accordion.headers),
                                   !.tab = @ \ ToSet(accordion.headers),
                                   !.torn = accordion.anims # {}]

-----------------------------------------------------------------------------
\* The page.
PutIn(p) ==
    /\ p \notin ToSet(accordion.inPage) \cup accordion.removed
    /\ accordion' = [Within EXCEPT !.inPage = <<p>> \o @, !.shown = @ \cup {p}]

TakeOut(p) ==
    /\ p \in ToSet(accordion.inPage)
    /\ accordion' = [Within EXCEPT !.inPage = SelectSeq(@, LAMBDA q : q # p),
                                   !.removed = @ \cup {p}]

\* An animation ends, what closes before what opens.
End ==
    \E a \in accordion.anims :
        /\ a.show => \A b \in accordion.anims : b.show
        /\ accordion' = Ended(accordion, a)

AccordionRuns == End

AccordionNext ==
    \/ AccordionRuns
    \/ /\ accordion.left > 0
       /\ \/ Refresh \/ Destroy
          \/ \E p \in Panels : Click(p) \/ PutIn(p) \/ TakeOut(p)
          \/ \E p \in Panels, next \in BOOLEAN : Arrow(p, next)
          \/ \E n \in 0 .. Len(AtFirst) + 1 : CallActivate(n)
          \/ \E b \in BOOLEAN : SetCollapsible(b) \/ SetDisabled(b)

-----------------------------------------------------------------------------
AccordionTypeOK ==
    /\ ToSet(accordion.headers) \cup ToSet(accordion.inPage) \subseteq Panels
    /\ {accordion.active, accordion.prevShow, accordion.prevHide} \subseteq Panels \cup {None}
    /\ accordion.option \in -1 .. Cardinality(Panels)
    /\ accordion.shown \cup accordion.content \cup accordion.marked \subseteq Panels

AccordionQuiet == accordion.anims = {}

\* What the accordion knows of is open or closed as a whole: at rest its active
\* panel is the one that is shown, marked and told to be expanded, at the position
\* that the option has, and there is one unless it is collapsible; but not after a
\* handler refused the panel that was to be opened instead of one taken out, nor if
\* there was none before it.  Destroyed at rest, it leaves every panel to be seen.
OpenAsAWhole ==
    LET here == Known
        open == {accordion.active} \ {None}
    IN  ~accordion.vetoed /\ ~accordion.missed /\ ~accordion.destroyed =>
        /\ accordion.expanded \cap here = open \cap here
        /\ accordion.marked \cap here = open \cap here
        /\ accordion.active = FindActive(accordion, accordion.option)
        /\ ~accordion.collapsible /\ accordion.headers # <<>> => accordion.active # None
        /\ here # {} /\ accordion.headers = accordion.inPage => accordion.tab \cap here # {}
        /\ ~accordion.moved => Cardinality(accordion.tab \cap here) <= 1
        /\ AccordionQuiet => /\ accordion.shown \cap here = open \cap here
                             /\ accordion.content \cap here = open \cap here

AccordionAgrees ==
    /\ OpenAsAWhole
    /\ accordion.destroyed /\ ~accordion.torn =>
           Known \subseteq accordion.shown /\ accordion.marked \cap Known = {}
===============================================================================
