------------------------------- MODULE Dropdown -------------------------------
(***************************************************************************)
(* The drop-down menus of the page (dropdown.js of Bootstrap) and the icon *)
(* of the search menu, which turns into a cross while that menu is open    *)
(* (search_toggle.js).  The document's click listener closes menus; the    *)
(* toggles stop the click before it gets there.  On touch screens a        *)
(* backdrop under the open menu takes the clicks of the rest of the page.  *)
(***************************************************************************)
EXTENDS Integers, FiniteSetsExt

CONSTANTS Menus,       \* numbers, in the order of the page
          SearchMenu,  \* the one of the search
          Links,       \* the number of links of a menu
          MaxEvents    \* bound on the clicks and keys of a behaviour

VARIABLE dropdown

Page == [menu |-> 0, link |-> 0]      \* the focus is elsewhere
Toggler(m) == [menu |-> m, link |-> 0]
Link(m, i) == [menu |-> m, link |-> i]

DropdownInit ==
    \E touch \in BOOLEAN, disabled \in SUBSET Menus :
        /\ Cardinality(disabled) <= 1 /\ SearchMenu \notin disabled
        /\ dropdown = [open |-> {}, expanded |-> {}, backdrops |-> {}, icon |-> "search",
                       focus |-> Page, touch |-> touch, disabled |-> disabled, events |-> 0]

\* The search menu's events change its icon; closing it does not move the
\* focus, opening it focuses the search field, which is a link of the menu here.
Shown(d, m) == IF m = SearchMenu THEN [d EXCEPT !.icon = "times", !.focus = Link(m, 1)] ELSE d
Hidden(d, closed) == IF SearchMenu \in closed THEN [d EXCEPT !.icon = "search"] ELSE d

\* clearMenus: the backdrops go, the open menus close, but for the one whose
\* field was clicked.
ClearMenus(d, field) ==
    LET closed == d.open \ {field} IN
    Hidden([d EXCEPT !.backdrops = {}, !.open = @ \ closed, !.expanded = @ \ closed], closed)

\* The toggle of menu m: every menu closes, m opens unless it was open.
Toggled(d, m) ==
    LET cleared == ClearMenus(d, 0)
        opened == [cleared EXCEPT !.open = @ \cup {m}, !.expanded = @ \cup {m},
                     !.backdrops = IF d.touch THEN @ \cup {m} ELSE @, !.focus = Toggler(m)]
    IN  IF m \in d.open THEN cleared ELSE Shown(opened, m)

\* A disabled toggle lets the click through to the document.
ClickOn(d, m) == IF m \in d.disabled THEN ClearMenus(d, 0) ELSE Toggled(d, m)

Happens(d) ==
    /\ dropdown.events < MaxEvents
    /\ dropdown' = [d EXCEPT !.events = @ + 1]

\* With the mouse a browser focuses what is clicked.
ClickToggle(m) ==
    /\ dropdown.backdrops = {}
    /\ Happens(ClickOn([dropdown EXCEPT !.focus = Toggler(m)], m))

ClickPage == Happens(ClearMenus([dropdown EXCEPT !.focus = Page], 0))

\* The secondary button reaches the document with which = 3: nothing closes.
SecondaryClick == Happens([dropdown EXCEPT !.focus = Page])

\* A field of an open menu, or one in a form, whose clicks go no further.
ClickField(m, inForm) ==
    /\ m \in dropdown.open
    /\ LET focused == [dropdown EXCEPT !.focus = Link(m, 1)] IN
       Happens(IF inForm THEN focused ELSE ClearMenus(focused, m))

\* The arrows, the space bar and Escape, on a toggle or in its menu, but not
\* in the search field; the search menu has no links to move to.
KeyInMenu(d, m, key) ==
    LET at == IF d.focus.menu = m THEN d.focus.link ELSE 0
        moved == CASE key = "up" /\ at > 1 -> at - 1
                   [] key = "down" /\ at < Links -> at + 1
                   [] OTHER -> IF at = 0 THEN 1 ELSE at
    IN  IF m \in d.disabled THEN d
        ELSE IF key = "escape" /\ m \in d.open
             THEN ClickOn([d EXCEPT !.focus = Toggler(m)], m)
        ELSE IF key # "escape" /\ m \notin d.open THEN ClickOn(d, m)
        ELSE IF m \in d.open /\ m # SearchMenu THEN [d EXCEPT !.focus = Link(m, moved)]
        ELSE d

Key(key) ==
    /\ dropdown.focus.menu # 0 /\ dropdown.focus # Link(SearchMenu, 1)
    /\ Happens(KeyInMenu(dropdown, dropdown.focus.menu, key))

DropdownNext ==
    \/ \E m \in Menus : ClickToggle(m) \/ \E inForm \in BOOLEAN : ClickField(m, inForm)
    \/ ClickPage \/ SecondaryClick
    \/ \E key \in {"up", "down", "space", "escape"} : Key(key)

-----------------------------------------------------------------------------
DropdownTypeOK ==
    /\ dropdown.open \subseteq Menus /\ dropdown.backdrops \subseteq Menus
    /\ dropdown.focus.link \in 0 .. Links

\* What a menu's toggle, the search icon and the backdrop say is so.
DropdownAgrees ==
    /\ dropdown.expanded = dropdown.open
    /\ dropdown.backdrops \subseteq dropdown.open
    /\ (dropdown.icon = "times") = (SearchMenu \in dropdown.open)

OneOpenMenu == Cardinality(dropdown.open) <= 1
=============================================================================
