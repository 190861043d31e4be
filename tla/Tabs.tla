--------------------------------- MODULE Tabs ---------------------------------
(***************************************************************************)
(* The tabs of a project, a profile and the dashboard (tab.js of           *)
(* Bootstrap).  The tab changes at once; its pane too, or, where panes     *)
(* fade, when the pane before it has faded out.  A click on a profile's    *)
(* tab is heard by users.js and by the document: the second call finds     *)
(* the tab active.                                                         *)
(***************************************************************************)
EXTENDS Naturals, Sequences, SequencesExt, FiniteSets

CONSTANTS Panes,      \* the tabs, each with its pane
          MaxEvents   \* bound on the clicks

VARIABLE tabs

TabsInit ==
    \E fade \in BOOLEAN, first \in Panes :
        tabs = [tab |-> first, active |-> {first}, in |-> {first}, expanded |-> {first},
                next |-> [p \in Panes |-> <<>>],   \* what waits for a pane to fade
                fade |-> fade, events |-> 0, hurried |-> FALSE]

\* next(): the panes that were active when it was asked for leave, one enters.
Next(t, move) ==
    [t EXCEPT !.active = (@ \ move.from) \cup {move.to},
              !.in = IF t.fade THEN @ \cup {move.to} ELSE {move.to}]

\* activate for the tab, at once, and for its pane; next waits on each of the
\* panes that are active.
Activate(t, p) ==
    LET move == [from |-> t.active, to |-> p]
        turned == [t EXCEPT !.tab = p, !.expanded = (@ \ {t.tab}) \cup {p}]
    IN  IF t.fade
        THEN [turned EXCEPT !.in = @ \ t.active, !.next = [q \in Panes |->
                IF q \in t.active THEN Append(t.next[q], move) ELSE t.next[q]]]
        ELSE Next(turned, move)

\* show: nothing for the tab that is active.
Show(t, p) == IF t.tab = p THEN t ELSE Activate(t, p)

Waiting(t) == \E p \in Panes : t.next[p] # <<>>

\* The listeners: of users.js and of the document.
Click(p) ==
    /\ tabs.events < MaxEvents
    /\ tabs' = [Show(Show(tabs, p), p) EXCEPT
                  !.events = @ + 1, !.hurried = @ \/ Waiting(tabs)]

\* The fading of pane p ends and runs what waited for it.
FadingEnd(p) ==
    /\ tabs.next[p] # <<>>
    /\ tabs' = FoldLeft(Next, [tabs EXCEPT !.next[p] = <<>>], tabs.next[p])

TabsRuns == \E p \in Panes : FadingEnd(p)
TabsNext == TabsRuns \/ \E p \in Panes : Click(p)

-----------------------------------------------------------------------------
TabsTypeOK ==
    /\ tabs.tab \in Panes /\ tabs.active \subseteq Panes /\ tabs.active # {}
    /\ tabs.in \subseteq Panes

TabsQuiet == ~Waiting(tabs)

\* The one pane that is shown at rest is the active tab's, unless a tab was
\* clicked while a pane was fading.
PaneFollowsTab ==
    TabsQuiet /\ ~tabs.hurried =>
        /\ tabs.active = {tabs.tab} /\ tabs.in = {tabs.tab} /\ tabs.expanded = {tabs.tab}
=============================================================================
