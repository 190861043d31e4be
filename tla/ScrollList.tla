------------------------------ MODULE ScrollList ------------------------------
(***************************************************************************)
(* The lists of members and of hangouts, which grow while the reader       *)
(* scrolls (users.js, users/index.js.erb, event_instances/index.js.erb).   *)
(* The scroll listener takes the link to the next page out of the page and *)
(* fetches a script, which appends that page of the list and puts the next *)
(* link back.  The listener stays on the window from page to page, until   *)
(* the script of the last members takes it off; an answer may come when    *)
(* the reader is already on another page, or never.                        *)
(***************************************************************************)
EXTENDS Integers, Sequences, SequencesExt

CONSTANTS Per,        \* rows of a page: 15 members, 6 hangouts
          AtFirst,    \* rows there are at first
          MaxRows,    \* bound on the rows
          MaxVisits   \* bound on the pages of the reader

VARIABLE list

Filters == {"all", "some"}

\* The rows a filter lets through, in the order of the list.
Matching(rows, filter) ==
    LET through == {row \in ToSet(rows) : filter = "some" => row % 3 # 0}
        kept[n \in 0 .. Len(rows)] ==
            IF n = 0 THEN <<>>
            ELSE IF rows[n] \in through THEN Append(kept[n - 1], rows[n]) ELSE kept[n - 1]
    IN  kept[Len(rows)]

\* paginate: page n of them, and whether it is the last.
PageOf(rows, filter, n) ==
    LET all == Matching(rows, filter)
        to == IF n * Per < Len(all) THEN n * Per ELSE Len(all)
    IN  SubSeq(all, (n - 1) * Per + 1, to)
IsLast(rows, filter, n) == n * Per >= Len(Matching(rows, filter))

NoLink == 0
Wait == -1      \* "Please Wait..."
Gone == -2      \* no pagination in the page

Opened(l, filter) ==
    [l EXCEPT !.filter = filter, !.shown = PageOf(l.rows, filter, 1),
              !.next = IF IsLast(l.rows, filter, 1) THEN NoLink ELSE 2,
              !.visit = @ + 1, !.moved = FALSE, !.mixed = FALSE, !.failed = FALSE]

ListInit ==
    \E members \in BOOLEAN, n \in 1 .. AtFirst :
        list = Opened([members |-> members, rows |-> [i \in 1 .. n |-> i],
                       filter |-> "all", shown |-> <<>>, next |-> NoLink,
                       listening |-> TRUE, requests |-> <<>>, visit |-> 0,
                       moved |-> FALSE, mixed |-> FALSE, failed |-> FALSE], "all")

\* The listener, near the bottom of the page.
Request(l) == Append(l.requests, [page |-> l.next, filter |-> l.filter, visit |-> l.visit])
Near == list.listening /\ list.next > 0

\* Bug seed for the mutants: the link stays until the answer.
ScrollKeepingLink ==
    /\ Near /\ Len(list.requests) < 2
    /\ list' = [list EXCEPT !.requests = Request(list)]

Scroll == Near /\ list' = [list EXCEPT !.next = Wait, !.requests = Request(list)]

\* The script that was asked for: the last page takes the link away, that of
\* the members the window's scroll listeners too.
Script(l, r) ==
    LET last == IsLast(l.rows, r.filter, r.page)
        appended == [l EXCEPT !.shown = @ \o PageOf(l.rows, r.filter, r.page),
                              !.mixed = @ \/ r.visit # l.visit]
    IN  IF last THEN [appended EXCEPT !.next = Gone, !.listening = @ /\ ~l.members]
        ELSE [appended EXCEPT !.next = IF @ \in {NoLink, Gone} THEN @ ELSE r.page + 1]

\* Answers come in any order.
Answer(i) ==
    list' = Script([list EXCEPT !.requests = RemoveAt(@, i)], list.requests[i])

\* No answer, or an error.
Fail(i) ==
    list' = [list EXCEPT !.requests = RemoveAt(@, i),
                         !.failed = @ \/ list.requests[i].visit = list.visit]

\* The form that filters, or a link: Turbo replaces the page.
Visit(filter) ==
    /\ list.visit < MaxVisits
    /\ list' = Opened(list, filter)

\* A new hangout, or a member with more karma, comes first.
Arrive ==
    /\ Len(list.rows) < MaxRows
    /\ list' = [list EXCEPT !.rows = <<Len(@) + 1>> \o @, !.moved = TRUE]

ListRuns == \E i \in DOMAIN list.requests : Answer(i) \/ Fail(i)
ListNext ==
    \/ ListRuns \/ Scroll \/ Arrive
    \/ \E filter \in Filters : Visit(filter)

-----------------------------------------------------------------------------
ListTypeOK ==
    /\ list.next \in {NoLink, Wait, Gone} \cup 1 .. MaxRows
    /\ ToSet(list.shown) \subseteq 1 .. MaxRows

ListQuiet == list.requests = <<>>

\* Unless rows came in before those shown, or the answer to another page's
\* request, the list is the beginning of what the filter lets through, without
\* gaps or repetitions; the link is there until all of it is, unless a request
\* failed.
ListedInOrder ==
    ~list.moved /\ ~list.mixed =>
        LET all == Matching(list.rows, list.filter) IN
        /\ IsPrefix(list.shown, all)
        /\ list.next > 0 => Len(list.shown) = (list.next - 1) * Per
        /\ ListQuiet /\ ~list.failed => list.next > 0 \/ list.shown = all
=============================================================================
