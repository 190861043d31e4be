------------------------------- MODULE Collapse -------------------------------
(***************************************************************************)
(* Panels that open and close (collapse.js of Bootstrap) and the carets    *)
(* beside them (accordion_collapse.js).  A panel moves between open and    *)
(* closed by a CSS transition; its end runs every callback waiting on the  *)
(* panel, and a timer sends the end when the browser does not              *)
(* (emulateTransitionEnd).  Clicks that arrive meanwhile are ignored by    *)
(* the panel, but not by its caret.                                        *)
(*                                                                         *)
(* A panel's data is the Collapse object kept with the element: whether it *)
(* is transitioning and whether it was built from a trigger with           *)
(* data-parent, in which case opening it closes the others of the parent.  *)
(***************************************************************************)
EXTENDS Integers, Sequences, FiniteSetsExt, SequencesExt

CONSTANTS Panels,      \* numbers, in the order of the page
          MaxClicks    \* bound on the clicks of a behaviour

VARIABLE collapse

NoData == [made |-> FALSE, transitioning |-> FALSE, grouped |-> FALSE]
Data(group) == [made |-> TRUE, transitioning |-> FALSE, grouped |-> group]

\* The sidebar opens the panel of the page's project, with its caret down; the
\* list of all projects opens every panel (project = p), carets to the right.
CollapseInit ==
    \E group, list \in BOOLEAN, opened \in SUBSET Panels :
        /\ IF list THEN opened = Panels /\ ~group ELSE Cardinality(opened) <= 1
        /\ collapse = [shape |-> [p \in Panels |-> IF p \in opened THEN "in" ELSE "out"],
                       data  |-> [p \in Panels |-> NoData],
                       ends  |-> [p \in Panels |-> <<>>],
                       aria  |-> [p \in Panels |-> p \in opened],
                       caret |-> [p \in Panels |-> IF p \in opened /\ ~list THEN "down" ELSE "right"],
                       group |-> group, list |-> list, clicks |-> 0,
                       ignored |-> [p \in Panels |-> FALSE], overtaken |-> FALSE]

Moving(c, p) == c.ends[p] # <<>>

\* The open or moving panels of the parent.
Actives(c) == {p \in Panels : c.shape[p] \in {"in", "collapsing"}}

\* The object of the first of them, the one jQuery's data() returns.
ActivesData(c) == c.data[Min(Actives(c))]

\* Hiding panel p through the object d, its own or a new one.
HidePanel(c, p, d) ==
    IF d.transitioning \/ c.shape[p] # "in"
    THEN [c EXCEPT !.data[p] = d]
    ELSE [c EXCEPT !.shape[p] = "collapsing", !.aria[p] = FALSE,
                   !.data[p] = [d EXCEPT !.transitioning = TRUE],
                   !.ends[p] = Append(@, "hide")]

\* A new object brings aria-expanded in line with the panels: with all of the
\* parent, or with its own.
Aligned(c, p, group) ==
    [c EXCEPT !.aria = [q \in Panels |-> IF group \/ q = p THEN c.shape[q] = "in" ELSE @[q]]]

\* collapse('hide') on an element: without an object one is made, that is
\* not told to toggle and has no parent, the panel having no data-parent.
PluginHide(c, p) ==
    IF c.data[p].made THEN HidePanel(c, p, c.data[p])
    ELSE HidePanel(Aligned(c, p, FALSE), p, Data(FALSE))

\* Each active panel is hidden, which touches no other; the first one's object
\* decides whether the objects are kept.
HideActives(c) ==
    LET after(p) == IF p \in Actives(c) THEN PluginHide(c, p) ELSE c
        kept(p)  == p \notin Actives(c) \/ ActivesData(c).made
    IN  [c EXCEPT !.shape = [p \in Panels |-> after(p).shape[p]],
                  !.aria  = [p \in Panels |-> after(p).aria[p]],
                  !.ends  = [p \in Panels |-> after(p).ends[p]],
                  !.data  = [p \in Panels |-> IF kept(p) THEN after(p).data[p] ELSE NoData]]

ShowPanel(c, p, d) ==
    LET others == d.grouped /\ Actives(c) # {} IN
    IF \/ d.transitioning \/ c.shape[p] = "in"
       \/ others /\ ActivesData(c).transitioning
    THEN [c EXCEPT !.data[p] = d]
    ELSE LET cleared == IF others THEN HideActives(c) ELSE c IN
         [cleared EXCEPT !.shape[p] = "collapsing", !.aria[p] = TRUE,
                         !.data[p] = [d EXCEPT !.transitioning = TRUE],
                         !.ends[p] = Append(@, "show")]

Toggle(c, p, d) ==
    IF c.shape[p] = "in" THEN HidePanel(c, p, d) ELSE ShowPanel(c, p, d)

\* The first click makes the object, which toggles; a later one toggles.
ClickToggles(c, p) ==
    IF c.data[p].made THEN Toggle(c, p, c.data[p])
    ELSE Toggle(Aligned(c, p, c.group), p, Data(c.group))

\* A panel is clicked that has no object, or moves and has lost it, while one
\* moves: the objects do not know of all that moves.
Unaware(c, p) ==
    \E q \in Panels : Moving(c, q) /\ (~c.data[p].made \/ ~c.data[q].transitioning)

\* The caret's own listener: it changes on every click.
ToggleCaret(caret) == IF caret = "down" THEN "right" ELSE "down"

Click(p) ==
    LET clicked == ClickToggles(collapse, p) IN
    /\ collapse.clicks < MaxClicks
    /\ collapse' = [clicked EXCEPT !.caret[p] = ToggleCaret(@), !.clicks = @ + 1,
         !.ignored[p] = IF clicked.ends = collapse.ends THEN ~@ ELSE @,
         !.overtaken = @ \/ Unaware(collapse, p)]

Completed(shape, end) ==
    IF end = "show" THEN "in" ELSE IF shape = "in" THEN "in" ELSE "out"

\* The end of the transition of p, sent by the browser or the timer.
TransitionEnd(p) ==
    /\ Moving(collapse, p)
    /\ collapse' = [collapse EXCEPT
         !.shape[p] = FoldLeft(Completed, @, collapse.ends[p]),
         !.data[p].transitioning = FALSE, !.ends[p] = <<>>]

CollapseRuns == \E p \in Panels : TransitionEnd(p)
CollapseNext == CollapseRuns \/ \E p \in Panels : Click(p)

-----------------------------------------------------------------------------
CollapseTypeOK ==
    collapse \in [shape : [Panels -> {"in", "out", "collapsing"}],
                  data : [Panels -> [made : BOOLEAN, transitioning : BOOLEAN, grouped : BOOLEAN]],
                  ends : [Panels -> Seq({"show", "hide"})], aria : [Panels -> BOOLEAN],
                  caret : [Panels -> {"down", "right"}], group : BOOLEAN, list : BOOLEAN,
                  clicks : Nat, ignored : [Panels -> BOOLEAN], overtaken : BOOLEAN]

CollapseQuiet == \A p \in Panels : ~Moving(collapse, p)

\* A resting panel is open or closed, its triggers say which, and its object
\* takes the next click.  With a parent a new object overwrites what the
\* triggers of a panel that opens say.
CollapseAgrees ==
    \A p \in Panels : ~Moving(collapse, p) =>
        /\ collapse.shape[p] # "collapsing"
        /\ ~(collapse.group /\ collapse.overtaken) =>
              collapse.aria[p] = (collapse.shape[p] = "in")
        /\ ~collapse.data[p].transitioning

\* Apart from clicks ignored during a transition, the caret of a resting
\* panel tells whether it is open (the opposite in the list of projects).
CaretFollowsPanel ==
    ~collapse.group => \A p \in Panels : ~Moving(collapse, p) =>
        (collapse.caret[p] = "down") =
            ((collapse.shape[p] = "in") # (collapse.ignored[p] # collapse.list))

\* With a parent, no two panels are open at rest, unless one was clicked whose
\* object did not know of all that moved.
OneOpenPanel ==
    collapse.group /\ CollapseQuiet /\ ~collapse.overtaken =>
        Cardinality(Actives(collapse)) <= 1
=============================================================================
