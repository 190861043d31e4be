-------------------------------- MODULE UiTabs --------------------------------
(***************************************************************************)
(* Tabs (jquery-ui.js, Tabs): each with its panel, which for some comes    *)
(* from the server each time.  A tab is chosen by a click or, after a      *)
(* delay, by the arrows; nothing is chosen while panels are animated.      *)
(* Heights, other events than clicks, what gives the first active tab but  *)
(* the option, and vetoes are left out.                                    *)
(***************************************************************************)
EXTENDS Integers, Sequences, FiniteSets, SequencesExt

CONSTANTS Tabs,       \* numbers, in the order of their panels in the page
          AtFirst,    \* tabs, a sequence
          Remote,     \* tabs
          Kinds,      \* [animated |-> [hide, show |-> BOOLEAN], collapsible |-> BOOLEAN]
          MaxEvents   \* bound on what the reader and scripts do

VARIABLE tabs

None == 0        \* no tab
False == 0       \* the options active and, of no position, disabled
NoRequest == 0
Still == [phase |-> "none", old |-> None, new |-> None]

FindActive(s, n) == IF n \in DOMAIN s.tabs THEN s.tabs[n] ELSE None
PositionOf(s, t) == IF t \in ToSet(s.tabs) THEN CHOOSE n \in DOMAIN s.tabs : s.tabs[n] = t ELSE -1
Odd(s, what) == [s EXCEPT !.odd = @ \cup {what}]
HasPanel(s, t) == t # None /\ t \notin s.removed

Load(s, t) ==
    LET id == Max({r.id : r \in s.requests} \cup {NoRequest}) + 1 IN
    IF t \notin Remote THEN s
    ELSE [s EXCEPT !.xhr = id, !.loading = @ \cup {t}, !.answered = @ \ {t},
                   !.requests = @ \cup {[id |-> id, tab |-> t, state |-> "sent"]}]

\* What has come, or failed, is not aborted any more.
Abort(s) ==
    [s EXCEPT !.requests =
        {IF r.id = s.xhr /\ r.state = "sent" THEN [r EXCEPT !.state = "aborted"] ELSE r : r \in @}]

\* First the old panel is hidden, then the new one shown.
Shown(s, old, new) ==
    LET marked == [s EXCEPT !.marked = (@ \cup {new}) \ {None}]
        panel == IF HasPanel(s, new) THEN {new} ELSE {}
    IN  IF panel # {} /\ s.animated.show
        THEN [marked EXCEPT !.anim = [phase |-> "show", old |-> old, new |-> new],
                            !.shown = @ \cup panel]
        ELSE [marked EXCEPT !.anim = Still, !.running = FALSE, !.shown = @ \cup panel]

Hidden(s, old, new) == Shown([s EXCEPT !.marked = @ \ {old}, !.shown = @ \ {old}], old, new)

\* Of the tabs that could be reached before the first is opened none is taken out
\* of the order: the number 0 is compared with a text.
Toggle(s, old, new) ==
    LET runs == [s EXCEPT !.running = TRUE]
        moved == IF HasPanel(s, old) /\ s.animated.hide
                 THEN [runs EXCEPT !.anim = [phase |-> "hide", old |-> old, new |-> new]]
                 ELSE Hidden(runs, old, new)
        both == HasPanel(s, old) /\ HasPanel(s, new)
    IN  [moved EXCEPT !.selected = ((@ \ {old}) \cup {new}) \ {None},
                      !.expanded = ((@ \ {old}) \cup {new}) \ {None},
                      !.order = ((IF both THEN @ \ {old} ELSE @) \cup {new}) \ {None},
                      !.odd = IF ~both /\ new # None THEN @ \cup {"opened"} ELSE @]

EventHandler(s, t) ==
    LET same == t = s.active
        collapsing == same /\ s.collapsible
        chosen == Abort([s EXCEPT !.option = IF collapsing THEN False ELSE PositionOf(s, t),
                                  !.active = IF same THEN None ELSE t])
    IN  IF t \in s.disabled \cup s.loading \/ s.running \/ (same /\ ~s.collapsible)
        THEN Odd(s, "refused")
        ELSE IF ~HasPanel(s, s.active) /\ (collapsing \/ ~HasPanel(s, t))
        THEN Odd(chosen, "error")
        ELSE Toggle(IF collapsing THEN chosen ELSE Load(chosen, t), s.active, chosen.active)

Activate(s, n) ==
    LET found == FindActive(s, n) IN
    IF found = s.active THEN s ELSE EventHandler(s, IF found = None THEN s.active ELSE found)

\* All disabled is an option of its own, for which none is passed over.
FindNextTab(s, n, forward) ==
    LET size == Len(s.tabs)
        start == IF n > size THEN 1 ELSE IF n < 1 THEN size ELSE n
        Nth(k) == ((start - 1 + (IF forward THEN k ELSE size - k)) % size) + 1
        free == {k \in 0 .. size - 1 : s.tabs[Nth(k)] \notin s.disabled}
    IN  IF free = {} THEN start ELSE Nth(CHOOSE k \in free : \A j \in free : k <= j)

ProcessTabs(s) ==
    [s EXCEPT !.tabs = s.inPage, !.order = @ \ ToSet(s.inPage)]

Refreshed(s) ==
    LET others == ToSet(s.tabs) \ {s.active}
        open == {s.active} \ {None}
    IN  [s EXCEPT !.selected = (@ \ others) \cup open, !.expanded = (@ \ others) \cup open,
                  !.marked = @ \cup open,
                  !.shown = (@ \ others) \cup {t \in open : HasPanel(s, t)},
                  !.order = (@ \ others) \cup IF open # {} THEN open
                                              ELSE IF s.tabs = <<>> THEN {} ELSE {s.tabs[1]}]

InitialActive(n, collapsible) ==
    LET known == IF n \in DOMAIN AtFirst THEN n ELSE IF collapsible THEN False ELSE 1 IN
    IF AtFirst = <<>> THEN False ELSE known

UiTabsInit ==
    \E kind \in Kinds, n \in 0 .. Len(AtFirst) + 1 :
    LET option == InitialActive(n, kind.collapsible)
        made == ProcessTabs(
            [animated |-> kind.animated, collapsible |-> kind.collapsible, destroyed |-> FALSE,
             inPage |-> AtFirst, removed |-> {},      \* tabs of the page, and taken out
             tabs |-> <<>>, active |-> None,          \* as it knows them
             option |-> option, disabled |-> {},
             running |-> FALSE, anim |-> Still,
             shown |-> ToSet(AtFirst),                \* panels
             marked |-> {}, selected |-> {}, expanded |-> {}, order |-> {},    \* tabs
             activating |-> None,                     \* a position waits for its delay
             xhr |-> NoRequest, requests |-> {}, loading |-> {},
             answered |-> {}, odd |-> {},             \* history
             left |-> MaxEvents])
        first == Refreshed([made EXCEPT !.active = FindActive(made, option)])
    IN  tabs = Load(first, first.active)

Within == [tabs EXCEPT !.left = @ - 1]
Known == ToSet(tabs.tabs) \cap ToSet(tabs.inPage)
AllDisabled == tabs.tabs # <<>> /\ ToSet(tabs.tabs) \subseteq tabs.disabled
Listens == ~AllDisabled /\ ~tabs.destroyed

-----------------------------------------------------------------------------
Click(t) ==
    /\ Listens /\ t \in Known
    /\ tabs' = EventHandler(IF tabs.activating # None THEN Odd(Within, "raced") ELSE Within, t)

\* A key on another tab than the one that waits forgets it.
Overtake(n) ==
    LET s == [Within EXCEPT !.activating = None] IN
    IF tabs.activating \in {None, n} THEN s ELSE Odd(s, "overtaken")

\* What the arrows reach is told to be selected before it is; with the control key
\* they only move.
Arrow(t, forward, control) ==
    LET at == PositionOf(tabs, t)
        s == Overtake(IF control THEN None ELSE at)
        n == FindNextTab(s, IF forward THEN at + 1 ELSE at - 1, forward)
    IN  /\ Listens /\ t \in Known \ tabs.disabled
        /\ tabs' = IF control THEN s ELSE [s EXCEPT !.selected = (@ \ {t}) \cup {s.tabs[n]}, !.activating = n]

Space(t) ==
    /\ Listens /\ t \in Known \ tabs.disabled
    /\ tabs' = LET n == PositionOf(tabs, t) IN Activate(Overtake(n), n)

Enter(t) ==
    LET n == PositionOf(tabs, t) IN
    /\ Listens /\ t \in Known \ tabs.disabled
    /\ tabs' = Activate(Overtake(n), IF n = tabs.option THEN False ELSE n)

\* A page up or down; from none it goes to the second tab, false being 0.
HandlePageNav(forward) ==
    LET at == IF tabs.option = False THEN 1 ELSE tabs.option IN
    /\ Listens /\ Known # {}
    /\ tabs' = Activate(Within,
                        FindNextTab(tabs, IF forward THEN at + 1 ELSE at - 1, forward))

-----------------------------------------------------------------------------
\* Scripts.
CallActivate(n) == ~tabs.destroyed /\ tabs' = Activate(Within, n)

CallLoad(t) ==
    ~tabs.destroyed /\ t \in Known \cap Remote /\ tabs' = Odd(Load(Within, t), "load")

SetCollapsible(collapsible) ==
    LET s == [Within EXCEPT !.collapsible = collapsible] IN
    /\ ~tabs.destroyed /\ tabs.collapsible # collapsible
    /\ tabs' = IF ~collapsible /\ s.option = False THEN Activate(s, 1) ELSE s

Disable(t) ==
    /\ ~tabs.destroyed /\ t \in ToSet(tabs.tabs) \ tabs.disabled
    /\ tabs' = [Within EXCEPT !.disabled = @ \cup {t}]
Enable(t) ==
    /\ ~tabs.destroyed /\ t \in tabs.disabled
    /\ tabs' = [Within EXCEPT !.disabled = @ \ {t}]

Refresh ==
    LET s == ProcessTabs([Within EXCEPT !.disabled = @ \cap ToSet(tabs.inPage)])
        updated ==
            IF s.option = False \/ s.tabs = <<>>
            THEN [Odd(s, "emptied") EXCEPT !.option = False, !.active = None]
            ELSE IF s.active # None /\ s.active \notin ToSet(s.inPage)
            THEN IF ToSet(s.tabs) \subseteq s.disabled
                 THEN [Odd(s, "emptied") EXCEPT !.option = False, !.active = None]
                 ELSE Activate(s, FindNextTab(s, IF s.option > 2 THEN s.option - 1 ELSE 1, FALSE))
            ELSE [s EXCEPT !.option = PositionOf(s, s.active)]
    IN  ~tabs.destroyed /\ tabs' = Refreshed(updated)

\* An animation goes on, and the arrows' delay.
Destroy ==
    LET known == ToSet(tabs.tabs) IN
    /\ ~tabs.destroyed
    /\ tabs' = [Abort(Within) EXCEPT !.destroyed = TRUE, !.shown = @ \cup (known \ tabs.removed),
                                     !.marked = @ \ known, !.selected = @ \ known,
                                     !.expanded = @ \ known, !.order = @ \ known,
                                     !.odd = IF tabs.anim # Still \/ tabs.activating # None
                                             THEN @ \cup {"torn"} ELSE @]

PutIn(t) ==
    /\ t \notin ToSet(tabs.inPage) \cup tabs.removed
    /\ tabs' = [Within EXCEPT !.inPage = <<t>> \o @, !.shown = @ \cup {t}]

TakeOut(t) ==
    /\ t \in ToSet(tabs.inPage)
    /\ tabs' = [Within EXCEPT !.inPage = SelectSeq(@, LAMBDA u : u # t),
                              !.removed = @ \cup {t}, !.shown = @ \ {t}]

-----------------------------------------------------------------------------
Finished(s) ==
    CASE s.anim.phase = "hide" -> Hidden(s, s.anim.old, s.anim.new)
      [] s.anim.phase = "show" -> [s EXCEPT !.anim = Still, !.running = FALSE]
      [] OTHER -> s

End == tabs.anim # Still /\ tabs' = Finished(tabs)

Answer ==
    \E r \in tabs.requests :
        /\ r.state = "sent"
        /\ tabs' = [tabs EXCEPT !.requests = (@ \ {r}) \cup {[r EXCEPT !.state = "come"]}]

\* After an abort the panels' animations jump to their ends, one after the other.
StopAll(s) ==
    LET once == Finished(s) IN
    IF s.anim.phase = "hide" /\ once.anim # Still /\ s.anim.new > s.anim.old
    THEN Finished(once) ELSE once

\* A little after the answer.
Complete ==
    \E r \in tabs.requests :
        /\ r.state # "sent"
        /\ LET stopped == IF r.state = "aborted" THEN StopAll(tabs) ELSE tabs IN
           tabs' = [stopped EXCEPT !.requests = @ \ {r}, !.loading = @ \ {r.tab},
                                   !.xhr = IF @ = r.id THEN NoRequest ELSE @,
                                   !.answered = IF r.state = "aborted" THEN @ ELSE @ \cup {r.tab}]

\* The arrows' delay is over.
Activating ==
    /\ tabs.activating # None
    /\ tabs' = Activate([tabs EXCEPT !.activating = None], tabs.activating)

UiTabsRuns == End \/ Answer \/ Complete \/ Activating

UiTabsNext ==
    \/ UiTabsRuns
    \/ /\ tabs.left > 0
       /\ \/ Refresh \/ Destroy
          \/ \E t \in Tabs : \/ Click(t) \/ Space(t) \/ Enter(t) \/ CallLoad(t)
                             \/ Disable(t) \/ Enable(t) \/ PutIn(t) \/ TakeOut(t)
                             \/ \E f, c \in BOOLEAN : Arrow(t, f, c)
          \/ \E n \in 0 .. Len(AtFirst) : CallActivate(n)
          \/ \E b \in BOOLEAN : HandlePageNav(b) \/ SetCollapsible(b)

-----------------------------------------------------------------------------
UiTabsTypeOK ==
    /\ ToSet(tabs.tabs) \cup ToSet(tabs.inPage) \subseteq Tabs
    /\ tabs.active \in Tabs \cup {None} /\ tabs.option \in -1 .. Cardinality(Tabs)
    /\ tabs.shown \cup tabs.marked \cup tabs.selected \cup tabs.loading \subseteq Tabs

UiTabsQuiet == tabs.anim = Still /\ tabs.requests = {} /\ tabs.activating = None

But(exceptions) == tabs.odd \cap exceptions = {}

\* The active tab is open as a whole, and at rest shown and selected alone, the
\* server having been heard for it.
OpenAsAWhole ==
    LET here == Known
        open == {tabs.active} \ {None}
    IN  But({"error"}) /\ ~tabs.destroyed =>
        /\ tabs.expanded \cap here = open \cap here
        /\ But({"refused"}) => tabs.active = FindActive(tabs, tabs.option)
        /\ tabs.tabs # <<>> /\ But({"refused", "emptied"}) =>
               tabs.collapsible \/ tabs.active # None
        /\ here # {} /\ tabs.tabs = tabs.inPage /\ But({"refused"}) => tabs.order \cap here # {}
        /\ But({"opened"}) => Cardinality(tabs.order \cap here) <= 1
        /\ UiTabsQuiet =>
               /\ tabs.shown \cap here = open \cap here
               /\ tabs.marked \cap here = open \cap here
               /\ But({"refused", "overtaken", "raced"}) => tabs.selected \cap here = open \cap here
               /\ open \cap here \cap Remote \subseteq tabs.answered

\* Waiting ends, at most one request is under way for a tab, and destroyed at rest
\* the tabs leave every panel to be seen.
UiTabsAgree ==
    /\ OpenAsAWhole
    /\ tabs.running = (tabs.anim # Still)
    /\ But({"load"}) =>
           /\ tabs.loading = {r.tab : r \in tabs.requests}
           /\ Cardinality({r \in tabs.requests : r.state = "sent"}) <= 1
    /\ UiTabsQuiet => tabs.loading = {} /\ tabs.xhr = NoRequest
    /\ tabs.destroyed /\ But({"torn"}) => Known \subseteq tabs.shown
===============================================================================
