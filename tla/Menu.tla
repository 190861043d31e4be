--------------------------------- MODULE Menu ---------------------------------
(***************************************************************************)
(* Menus with submenus (jquery-ui.js, Menu): one item is active, by the    *)
(* mouse or the keyboard; submenus open and close after a delay, for which *)
(* the menu keeps one timer.  Scrolling, pages, icons, dividers and        *)
(* destroying are left out.                                                *)
(***************************************************************************)
EXTENDS Naturals, Sequences, FiniteSets, SequencesExt

CONSTANTS Items,      \* 1 .. n, in the order of their menu
          Parent,     \* the item whose submenu an item is in, or Root
          Text,       \* of an item, its letters
          Disabled,   \* items
          MaxEvents   \* bound on what the reader does

VARIABLE menu

Root == 0
None == 0    \* no item
NoTimer == [kind |-> "none", of |-> Root]
ItemsOf(m) == SetToSortSeq({i \in Items : Parent[i] = m}, <)
Submenus == {Parent[i] : i \in Items} \ {Root}
Chain[i \in Items] == IF Parent[i] = Root THEN {Root} ELSE {Parent[i]} \cup Chain[Parent[i]]

MenuInit ==
    menu = [active |-> None, activeMenu |-> Root,
            shown |-> {}, expanded |-> {},      \* submenus: in the page, aria-expanded
            marked |-> {},                      \* items with the class of an active parent
            timer |-> NoTimer, lost |-> {},     \* lost: timers no longer known
            focusing |-> {},                    \* items to be given the focus
            filter |-> <<>>, filterTimer |-> FALSE,
            focused |-> FALSE, leaving |-> FALSE,
            over |-> None, chosen |-> None,
            stray |-> FALSE, beside |-> FALSE,  \* history: a lost timer ran out; the
                                                \* click was not on the active item
            left |-> MaxEvents]

Visible(i) == \A m \in Chain[i] \ {Root} : m \in menu.shown
Within(s) == [s EXCEPT !.left = @ - 1]

SetTimer(s, kind, m) ==
    [s EXCEPT !.timer = [kind |-> kind, of |-> m],
              !.lost = IF s.timer = NoTimer THEN @ ELSE @ \cup {s.timer}]
ClearTimer(s) == [s EXCEPT !.timer = NoTimer]

Blur(s, fromFocus) ==
    LET t == IF fromFocus THEN s ELSE ClearTimer(s) IN [t EXCEPT !.active = None]

\* What is below a menu is hidden.
CloseBelow(s, m) ==
    LET below == {i \in Items : m \in Chain[i]} IN
    [s EXCEPT !.shown = @ \ below, !.expanded = @ \ below,
              !.marked = {i \in @ : i \notin below \/ i = s.active}]
Close(s) == CloseBelow(s, IF s.active = None THEN Root ELSE Parent[s.active])

\* All but the menus it is in are hidden, though aria-expanded stays.
OpenSubmenu(s, m) ==
    [ClearTimer(s) EXCEPT !.shown = (@ \cap Chain[m]) \cup {m}, !.expanded = @ \cup {m}]

StartOpening(s, m) ==
    LET t == ClearTimer(s) IN IF m \in s.shown THEN t ELSE SetTimer(t, "open", m)

CollapseAll(s, m) == SetTimer(ClearTimer(s), "collapse", m)

FocusItem(s, kind, i) ==
    LET a == [Blur(s, kind = "focus") EXCEPT !.active = i,
                                             !.marked = (@ \ {i}) \cup ({Parent[i]} \ {Root})]
        b == IF kind = "keydown" THEN Close(a) ELSE SetTimer(a, "close", Root)
        c == IF kind = "mouse" /\ i \in Submenus THEN StartOpening(b, i) ELSE b
    IN  [c EXCEPT !.activeMenu = Parent[i]]

Expand(s, kind) ==
    IF s.active \notin Submenus THEN s
    ELSE [OpenSubmenu(s, s.active) EXCEPT
             !.focusing = @ \cup {[item |-> ItemsOf(s.active)[1], kind |-> kind]}]

\* The active item is selected, or the one clicked if there is none.
Select(s, i) ==
    LET t == [s EXCEPT !.active = IF @ = None THEN i ELSE @] IN
    [(IF t.active \in Submenus THEN t ELSE CollapseAll(t, Root)) EXCEPT !.chosen = t.active]

-----------------------------------------------------------------------------
\* The mouse.  It enters an item and those around it, the innermost first.
Enter(i) ==
    LET inside == {i} \cup Chain[i]
        before == IF menu.over = None THEN {Root} ELSE {menu.over} \cup Chain[menu.over]
        left == IF before \ {menu.over} \subseteq Chain[i] THEN Within(menu)
                ELSE CollapseAll(Within(menu), Parent[menu.over])
        entered == SetToSortSeq(inside \ (before \cup {Root}),
                                LAMBDA j, k : k \in Chain[j])
        Focus(s, j) ==
            FocusItem([s EXCEPT !.marked = {k \in @ : k = j \/ Parent[k] # Parent[j]}], "mouse", j)
        there == [left EXCEPT !.over = i]
    IN  /\ Visible(i) /\ menu.over # i
        /\ menu' = IF menu.filter # <<>> THEN there ELSE FoldLeft(Focus, there, entered)

Leave ==
    /\ menu.over # None
    /\ menu' = [CollapseAll(Within(menu), Parent[menu.over]) EXCEPT !.over = None]

\* The focus stays where it is.
Click ==
    LET i == menu.over
        s == [Select(Within(menu), i) EXCEPT !.beside = menu.active \notin {None, i}]
    IN  /\ i # None /\ Visible(i)
        /\ menu' = IF i \in Disabled THEN Within(menu)
                   ELSE IF i \in Submenus THEN Expand(s, "click") ELSE s

ClickOutside == menu' = [CollapseAll(Within(menu), Root) EXCEPT !.over = None]

Focus ==
    /\ ~menu.focused
    /\ menu' = LET s == [Within(menu) EXCEPT !.focused = TRUE] IN
               FocusItem(s, "focus", IF s.active = None THEN ItemsOf(Root)[1] ELSE s.active)

LoseFocus ==
    /\ menu.focused
    /\ menu' = [Within(menu) EXCEPT !.focused = FALSE, !.leaving = TRUE]

-----------------------------------------------------------------------------
\* The keyboard.
Among(m, i, next) ==
    LET items == ItemsOf(m)
        at == CHOOSE n \in DOMAIN items : items[n] = i
        n == IF next THEN at + 1 ELSE at - 1
    IN  IF n \in DOMAIN items THEN items[n] ELSE None

Arrow(next) ==
    LET here == ItemsOf(menu.activeMenu)
        beside == IF menu.active = None THEN None ELSE Among(Parent[menu.active], menu.active, next)
        first == IF next THEN here[1] ELSE here[Len(here)]
    IN  /\ menu.focused
        /\ menu' = FocusItem(Within(menu), "keydown", IF beside = None THEN first ELSE beside)

Collapse ==
    /\ menu.focused
    /\ menu' = IF menu.active = None \/ Parent[menu.active] = Root THEN Within(menu)
               ELSE FocusItem(Close(Within(menu)), "keydown", Parent[menu.active])

ExpandByKey ==
    /\ menu.focused /\ menu.active \notin Disabled
    /\ menu' = Expand(Within(menu), "keydown")

\* Without an active item it throws.
Activate ==
    /\ menu.focused /\ menu.active # None /\ menu.active \notin Disabled
    /\ menu' = IF menu.active \in Submenus THEN Expand(Within(menu), "keydown")
               ELSE [Select(Within(menu), menu.active) EXCEPT !.beside = FALSE]

\* What is typed within a second selects by the beginning of the text; the same
\* letter again goes on to the next item, if that begins with it.
FilterMenuItems(text) == SelectSeq(ItemsOf(menu.activeMenu), LAMBDA i : IsPrefix(text, Text[i]))
Type(letter) ==
    LET skip == menu.filter = <<letter>>
        text == IF skip THEN menu.filter ELSE Append(menu.filter, letter)
        after == IF menu.active = None THEN None ELSE Among(Parent[menu.active], menu.active, TRUE)
        all == FilterMenuItems(text)
        match == IF skip /\ after \in ToSet(all) THEN <<after>> ELSE all
        found == IF match = <<>> THEN FilterMenuItems(<<letter>>) ELSE match
        cleared == [Within(menu) EXCEPT !.filter = <<>>, !.filterTimer = FALSE]
    IN  /\ menu.focused /\ (skip => menu.active # None)
        /\ menu' = IF found = <<>> THEN cleared
                   ELSE [FocusItem(cleared, "keydown", found[1]) EXCEPT
                            !.filter = IF match = <<>> THEN <<letter>> ELSE text,
                            !.filterTimer = TRUE]

-----------------------------------------------------------------------------
\* Timers run out.
Expired(s, timer) ==
    CASE timer.kind = "close" -> Close(s)
      [] timer.kind = "open" -> OpenSubmenu(Close(s), timer.of)
      [] OTHER -> [Blur(CloseBelow(s, timer.of), FALSE) EXCEPT !.activeMenu = timer.of]

Timeout == menu.timer # NoTimer /\ menu' = Expired(ClearTimer(menu), menu.timer)
LostTimeout ==
    \E timer \in menu.lost : 
        menu' = Expired([menu EXCEPT !.lost = @ \ {timer}, !.stray = TRUE], timer)
FocusLater ==
    \E f \in menu.focusing :
        menu' = FocusItem([menu EXCEPT !.focusing = @ \ {f}], f.kind, f.item)
Forget == menu.filterTimer /\ menu' = [menu EXCEPT !.filterTimer = FALSE, !.filter = <<>>]
Gone ==
    /\ menu.leaving
    /\ menu' = LET s == [menu EXCEPT !.leaving = FALSE] IN
               IF s.focused THEN s ELSE CollapseAll(s, Root)

MenuRuns == Timeout \/ LostTimeout \/ FocusLater \/ Forget \/ Gone

MenuNext ==
    \/ MenuRuns
    \/ /\ menu.left > 0 /\ menu.focusing = {} /\ ~menu.leaving   \* which take no time
       /\ \/ Leave \/ Click \/ ClickOutside \/ Focus \/ LoseFocus
          \/ Collapse \/ ExpandByKey \/ Activate
          \/ \E i \in Items : Enter(i)
          \/ \E next \in BOOLEAN : Arrow(next)
          \/ \E letter \in UNION {ToSet(Text[i]) : i \in Items} : Type(letter)

-----------------------------------------------------------------------------
MenuTypeOK ==
    /\ {menu.active, menu.over, menu.chosen} \subseteq Items \cup {None}
    /\ menu.activeMenu \in Submenus \cup {Root}
    /\ menu.shown \cup menu.expanded \subseteq Submenus

MenuQuiet ==
    /\ menu.timer = NoTimer /\ menu.lost = {} /\ menu.focusing = {}
    /\ ~menu.filterTimer /\ ~menu.leaving

\* At rest the active item is to be seen, the open menus lie one in the other, and
\* around the active item or within it; but a timer that is no longer known may
\* have opened or closed another one.  A disabled item is selected only by a click
\* on another, while it is the active one.
Around(m, n) == m = n \/ n \in Chain[m]
MenuAgrees ==
    /\ menu.chosen \in Disabled => menu.beside
    /\ MenuQuiet /\ ~menu.stray =>
           /\ menu.active # None => Visible(menu.active)
           /\ \A m \in menu.shown : Visible(m)
           /\ \A m, n \in menu.shown \cup ({menu.active} \ {None}) : Around(m, n) \/ Around(n, m)
           /\ menu.shown \subseteq menu.expanded
           /\ menu.filter = <<>>
===============================================================================
