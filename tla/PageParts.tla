------------------------------- MODULE PageParts -------------------------------
(***************************************************************************)
(* The parts of a page that the site's own scripts and Bootstrap make, as  *)
(* they are put on one page: the variable page holds the record of one.    *)
(***************************************************************************)
EXTENDS Integers, FiniteSets

CONSTANTS Few, Several, Many,      \* bounds on the events of a behaviour
          Pair, Trio,              \* menus, modals and the like; panels and panes
          Tags, Coded, Beginning,
          Modules, EventTimes, EventMinutes, MaxTime, MaxVisits,
          PerPage, RowsAtFirst, MaxRows

VARIABLES part, page

Suggestions == <<"s", "a">>

ASSUME SiteAssumption ==
    /\ EventTimes \subseteq Nat /\ EventMinutes \in Nat
    /\ MaxTime \in Nat /\ MaxVisits \in Nat \ {0}

\* Menus, panels and modals are numbered; 0 is none of them.
ASSUME PairAssumption == IsFiniteSet(Pair) /\ Pair \subseteq Nat \ {0}
ASSUME TrioAssumption == IsFiniteSet(Trio) /\ Trio \subseteq Nat \ {0}

ASSUME ListAssumption ==
    PerPage \in Nat \ {0} /\ MaxRows \in Nat /\ RowsAtFirst \in 1 .. MaxRows

\* What is suggested can be typed.
ASSUME TagsAssumption == \A i \in DOMAIN Suggestions : Suggestions[i] \in Tags

Collapses == INSTANCE Collapse
    WITH collapse <- page, Panels <- Trio, MaxClicks <- Many
Dropdowns == INSTANCE Dropdown
    WITH dropdown <- page, Menus <- Pair, SearchMenu <- 2, Links <- 2, MaxEvents <- Several
Carousels == INSTANCE Carousel
    WITH carousel <- page, Items <- 3, MaxEvents <- Few
ModalBoxes == INSTANCE Modal
    WITH modal <- page, Modals <- Pair, MaxCalls <- Few
Messages == INSTANCE Alerts
    WITH alerts <- page, Messages <- Pair, MaxCloses <- 2
ButtonGroups == INSTANCE Buttons
    WITH buttons <- page, Inputs <- Pair, MaxEvents <- Few
Tooltips == INSTANCE Tooltip
    WITH tooltip <- page, MaxEvents <- Many
TabLists == INSTANCE Tabs
    WITH tabs <- page, Panes <- Trio, MaxEvents <- Few
Scrolling == INSTANCE ScrollSpy
    WITH page <- page, Rows <- 9, View <- 2, HeaderRows <- 2, FooterRows <- 2,
         ElementRows <- 2, MaxEvents <- Few
Skills == INSTANCE TagsInput
    WITH field <- page, MaxKeys <- Few
Pages == INSTANCE Site
    WITH site <- page, Duration <- EventMinutes
Lists == INSTANCE ScrollList
    WITH list <- page, Per <- PerPage, AtFirst <- RowsAtFirst
================================================================================
