------------------------------- MODULE ScrollSpy -------------------------------
(***************************************************************************)
(* What follows the scrolling of the page: the links of the sections of a  *)
(* page (scrollspy.js of Bootstrap), an element that sticks between the    *)
(* header and the footer (affix.js) and the site's own navigation bar      *)
(* (affix_navbar.js).  The page has rows; content that arrives late makes  *)
(* it longer, and no event says so.                                        *)
(***************************************************************************)
EXTENDS Integers, FiniteSetsExt

CONSTANTS Rows,        \* the rows the page may have: the window and the footer at least
          View,        \* the rows of the window
          HeaderRows,  \* those of the header, where an element sticks
          FooterRows,  \* those of the footer
          ElementRows, \* those of the element that sticks
          MaxEvents    \* bound on the events

VARIABLE page

\* Sections 1 and 2 begin after the header and where the page was cut.
Sections == 1 .. 2
Offsets(p) == [s \in Sections |-> IF s = 1 THEN HeaderRows ELSE HeaderRows + p.first]
MaxScroll(p) == p.height - View

\* The section process() makes active: with the offsets of before a refresh.
Lowest == 1
Highest == 2
SectionAt(p, offsets) ==
    IF p.top >= MaxScroll(p) THEN Highest
    ELSE IF p.section # 0 /\ p.top < offsets[Lowest] THEN 0
    ELSE LET passed == {s \in Sections : offsets[s] <= p.top}
         IN  IF passed = {} THEN p.section ELSE Max(passed)

\* process and, when the height changed, refresh.
Process(p) ==
    [p EXCEPT !.section = SectionAt(p, p.known),
              !.fresh = p.known = Offsets(p),
              !.known = IF p.knownHeight # p.height THEN Offsets(p) ELSE @,
              !.knownHeight = p.height]

\* Where the element is: below the header, at the top of the window, or where
\* the last check put it above the footer.
Bottom(p) == p.height - FooterRows
Position(p) ==
    CASE p.affixed = "no" -> p.top
      [] p.affixed = "bottom" -> p.at
      [] OTHER -> HeaderRows

\* getState.  Pinned to the window's top, unpin is 0.
AffixState(p) ==
    LET top == IF p.affixed = "null" THEN p.top ELSE Position(p)
        rows == IF p.affixed = "null" THEN View ELSE ElementRows
    IN  CASE p.affixed = "top" -> IF p.top < HeaderRows THEN "top" ELSE "no"
          [] p.affixed = "bottom" -> IF p.top <= Position(p) THEN "no" ELSE "bottom"
          [] OTHER -> IF p.top <= HeaderRows THEN "top"
                      ELSE IF top + rows >= Bottom(p) THEN "bottom" ELSE "no"

\* checkPosition; checks counts those since the page last changed.
CheckPosition(p) ==
    [p EXCEPT !.affixed = AffixState(p),
              !.at = IF AffixState(p) = "bottom" THEN Bottom(p) - ElementRows ELSE @,
              !.checks = IF @ = 2 THEN 2 ELSE @ + 1]

\* onScroll of the bar, which leaves it as it is on the header's last row.
MoveBar(p) ==
    [p EXCEPT !.bar = IF p.top > HeaderRows THEN TRUE
                      ELSE IF p.top < HeaderRows THEN FALSE ELSE @]

Listeners(p) == MoveBar(CheckPosition(Process(p)))

\* The objects look at the page when they are made.
ScrollSpyInit ==
    \E height \in View + FooterRows .. Rows, top \in 0 .. Rows :
        LET loaded == [height |-> height, first |-> 2, top |-> top,
                       known |-> <<0, 0>>, knownHeight |-> height, section |-> 0,
                       fresh |-> TRUE, affixed |-> "null", at |-> 0, checks |-> 0,
                       click |-> FALSE, bar |-> FALSE, events |-> 0]
        IN  /\ top <= MaxScroll(loaded)
            /\ page = Listeners([loaded EXCEPT !.known = Offsets(loaded)])

Happens(p) ==
    /\ page.events < MaxEvents
    /\ page' = [p EXCEPT !.events = @ + 1]

\* A scroll event, to another row or within the same one.
Scroll(row) ==
    /\ row <= MaxScroll(page)
    /\ Happens(Listeners([page EXCEPT !.top = row, !.checks = IF row = page.top THEN @ ELSE 0]))

\* Content arrives in the first section.
Grow ==
    /\ page.height < Rows
    /\ Happens([page EXCEPT !.height = @ + 1, !.first = @ + 1, !.checks = 0, !.fresh = FALSE])

\* A click checks the position of the element a millisecond later.
Click == ~page.click /\ Happens([page EXCEPT !.click = TRUE])
AfterClick == page.click /\ page' = CheckPosition([page EXCEPT !.click = FALSE])

ScrollSpyRuns == AfterClick
ScrollSpyNext ==
    \/ ScrollSpyRuns \/ Grow \/ Click
    \/ \E row \in 0 .. Rows : Scroll(row)

-----------------------------------------------------------------------------
ScrollSpyTypeOK ==
    /\ page.section \in {0} \cup Sections /\ page.top \in 0 .. Rows
    /\ page.affixed \in {"null", "top", "no", "bottom"}

ScrollSpyQuiet == ~page.click

\* When the last scroll event was processed with the offsets of the page as it
\* is, the active link is that of the section at the top, or the last section's
\* at the end of the page.
LinkFollowsSection ==
    page.fresh =>
        page.section = CASE page.top >= MaxScroll(page) -> Highest
                         [] page.top < HeaderRows -> 0
                         [] OTHER -> Max({s \in Sections : Offsets(page)[s] <= page.top})

\* Two checks after the page last changed the element is where it belongs: at
\* the header, in the window, above the footer, unless it is on an edge.
ElementSticks ==
    page.checks = 2 /\ page.top # HeaderRows /\ page.top # Bottom(page) - ElementRows =>
        page.affixed = IF page.top < HeaderRows THEN "top"
                       ELSE IF page.top + ElementRows > Bottom(page) THEN "bottom"
                       ELSE "no"

\* The bar sticks once the page was scrolled beyond its header.
BarSticks ==
    page.checks > 0 /\ page.top # HeaderRows => page.bar = (page.top > HeaderRows)
=============================================================================
