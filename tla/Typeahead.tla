------------------------------ MODULE Typeahead ------------------------------
(***************************************************************************)
(* A text field that suggests (typeahead.jquery.js), over one dataset that *)
(* has some suggestions at hand and asks a server for more.  Answers come  *)
(* late, in any order, or never: one that was overtaken by another query   *)
(* is canceled, one that arrives in a closed menu is put into it unseen.   *)
(* White space in queries, the right-to-left layout, templates and the     *)
(* positions on the page are left out.                                     *)
(***************************************************************************)
EXTENDS Naturals, Sequences, SequencesExt

CONSTANTS Texts,       \* what the field may hold, "" among them
          Continues,   \* for each text, those it begins with
          Local,       \* for each query, the suggestions at hand
          Remote,      \* and the server's
          Limit,       \* suggestions shown at most
          MaxEvents    \* bound on the events of a behaviour

VARIABLE typeahead

NoQuery == "no query"  \* menu.query after empty

FirstOf(suggestions, n) ==
    SubSeq(suggestions, 1, IF n < Len(suggestions) THEN n ELSE Len(suggestions))

TypeaheadInit ==
    typeahead = [enabled |-> TRUE, focused |-> FALSE, active |-> FALSE,
                 open |-> FALSE, seen |-> FALSE,          \* tt-open; displayed
                 value |-> "", query |-> "", hint |-> "",
                 asked |-> NoQuery,                       \* menu.query
                 items |-> <<>>, cursor |-> 0,            \* 0: on none
                 requests |-> <<>>,                       \* not yet answered
                 events |-> 0, lost |-> FALSE,
                 unseen |-> FALSE]                        \* history: rendered while closed

\* The hint is behind the field's text and completes it.
ClearHintIfInvalid(t) ==
    IF t.hint # "" /\ t.value # "" /\ t.value \in Continues[t.hint] THEN t
    ELSE [t EXCEPT !.hint = ""]

SetInputValue(t, text) == ClearHintIfInvalid([t EXCEPT !.value = text])

UpdateHint(t) ==
    IF t.items = <<>> \/ t.value = "" THEN [t EXCEPT !.hint = ""]
    ELSE IF t.value \in Continues[t.items[1]] THEN [t EXCEPT !.hint = t.items[1]]
    ELSE t

\* Dataset.clear and Menu.empty cancel what was asked.
Cancel(t) ==
    [t EXCEPT !.requests = [i \in DOMAIN t.requests |-> [t.requests[i] EXCEPT !.live = FALSE]]]

Rendered(t) ==
    UpdateHint([t EXCEPT !.seen = t.open /\ t.items # <<>>, !.unseen = @ \/ ~t.open])

\* Dataset: the suggestions in place of the old ones, or after them.
Render(t, suggestions) == Rendered([t EXCEPT !.items = suggestions])

\* Dataset.update: what is at hand is shown at once, the server is asked.
UpdateDataset(t) ==
    Render([Cancel(t) EXCEPT !.cursor = 0,
               !.requests = Append(@, [query |-> t.asked, live |-> TRUE])],
           FirstOf(Local[t.asked], Limit))

UpdateMenu(t) ==
    IF t.query = t.asked THEN t ELSE UpdateDataset([t EXCEPT !.asked = t.query])

EmptyMenu(t) ==
    UpdateHint([Cancel(t) EXCEPT !.items = <<>>, !.cursor = 0, !.asked = NoQuery, !.seen = FALSE])

Open(t) ==
    IF t.open THEN t
    ELSE UpdateHint([t EXCEPT !.open = TRUE, !.seen = t.items # <<>>])

Close(t) ==
    IF ~t.open THEN t
    ELSE [t EXCEPT !.open = FALSE, !.seen = FALSE, !.cursor = 0, !.hint = "",
                   !.value = t.query, !.unseen = FALSE]

\* Input.setQuery and what follows a changed query.
SetQuery(t, text) ==
    IF text = t.query THEN t
    ELSE LET changed == [t EXCEPT !.query = text]
             ready   == IF t.active THEN Open(changed) ELSE changed
         IN  IF text = "" THEN EmptyMenu(ready) ELSE UpdateMenu(ready)

\* The menu goes on showing what was asked before.
Select(t, i) == Close([SetInputValue(t, t.items[i]) EXCEPT !.query = t.items[i]])

Autocomplete(t, i) ==
    IF t.items[i] = t.query THEN t
    ELSE SetQuery(SetInputValue(t, t.items[i]), t.items[i])

\* Past the last one the cursor is on none, and from there on the first.
Relative(t, steps) == (t.cursor + steps) % (Len(t.items) + 1)

\* A cursor that moves over a menu of another query updates it instead.
MoveCursor(t, steps) ==
    LET i == Relative(t, steps) IN
    IF t.query # "" /\ t.query # t.asked THEN UpdateMenu(t)
    ELSE IF i > 0 THEN SetInputValue([t EXCEPT !.cursor = i], t.items[i])
    ELSE UpdateHint(SetInputValue([t EXCEPT !.cursor = 0], t.query))

Happens(t) ==
    /\ typeahead.events < MaxEvents
    /\ typeahead' = [t EXCEPT !.events = @ + 1]

Focus ==
    /\ ~typeahead.focused
    /\ LET t == [typeahead EXCEPT !.focused = TRUE]
           ready == Open([t EXCEPT !.active = TRUE])
       IN  Happens(IF ~(t.active \/ t.enabled) THEN t
                   ELSE IF t.query = "" THEN ready ELSE UpdateMenu(ready))

Blur ==
    /\ typeahead.focused
    /\ LET t == SetInputValue([typeahead EXCEPT !.focused = FALSE], typeahead.query) IN
       Happens(IF t.active THEN Close([t EXCEPT !.active = FALSE]) ELSE t)

Type(text) ==
    /\ typeahead.focused /\ text # typeahead.value
    /\ Happens(ClearHintIfInvalid(SetQuery([typeahead EXCEPT !.value = text], text)))

\* Enter and Tab choose; a Tab that chooses nothing leaves the field.
Choose ==
    /\ typeahead.focused /\ typeahead.active /\ typeahead.open /\ typeahead.cursor > 0
    /\ Happens(Select(typeahead, typeahead.cursor))

Escape ==
    /\ typeahead.focused /\ typeahead.active
    /\ Happens(Close(typeahead))

Arrow(steps) ==
    /\ typeahead.focused /\ typeahead.active
    /\ Happens(MoveCursor(Open(typeahead), steps))

Right ==
    /\ typeahead.focused /\ typeahead.active /\ typeahead.open /\ typeahead.items # <<>>
    /\ Happens(Autocomplete(typeahead, IF typeahead.cursor > 0 THEN typeahead.cursor ELSE 1))

\* The mouse, over a menu that is seen; 0 when it leaves.
Over(i) == typeahead.seen /\ i # typeahead.cursor /\ Happens([typeahead EXCEPT !.cursor = i])
Click(i) == typeahead.seen /\ Happens(Select(typeahead, i))

\* Called by a script.
Val(text) == Happens(SetQuery(SetInputValue(typeahead, text), text))
Enable(on) == on # typeahead.enabled /\ Happens([typeahead EXCEPT !.enabled = on])

Answer(i) ==
    LET request == typeahead.requests[i]
        t == [typeahead EXCEPT !.requests = RemoveAt(@, i)]
        more == FirstOf(Remote[request.query], Limit - Len(t.items))
    IN  typeahead' =
          IF ~request.live \/ Len(t.items) = Limit THEN t
          ELSE Render(t, t.items \o more)

Lose(i) ==
    typeahead' = [typeahead EXCEPT !.requests = RemoveAt(@, i), !.lost = TRUE]

TypeaheadRuns == \E i \in DOMAIN typeahead.requests : Answer(i) \/ Lose(i)
TypeaheadNext ==
    \/ TypeaheadRuns \/ Focus \/ Blur \/ Choose \/ Escape \/ Right
    \/ \E text \in Texts : Type(text) \/ Val(text)
    \/ \E steps \in {1, -1} : Arrow(steps)
    \/ \E i \in 0 .. Len(typeahead.items) : Over(i) \/ (i > 0 /\ Click(i))
    \/ \E on \in BOOLEAN : Enable(on)

-----------------------------------------------------------------------------
TypeaheadTypeOK ==
    /\ {typeahead.value, typeahead.query, typeahead.hint} \subseteq Texts
    /\ typeahead.asked \in Texts \cup {NoQuery}
    /\ typeahead.cursor \in 0 .. Len(typeahead.items) /\ Len(typeahead.items) <= Limit

TypeaheadQuiet == typeahead.requests = <<>>

\* An open menu is the query's, whatever answers were overtaken, and at rest
\* complete unless one was lost; a closed one leaves the field its query.  The
\* hint goes on from the field's text, and is there without the menu only where
\* suggestions were rendered into a closed one.
SuggestionsOfQuery ==
    /\ typeahead.seen = (typeahead.open /\ typeahead.items # <<>>)
    /\ typeahead.open =>
          /\ typeahead.active
          /\ IF typeahead.query = "" THEN typeahead.items = <<>>
             ELSE typeahead.asked = typeahead.query
    /\ TypeaheadQuiet /\ ~typeahead.lost /\ typeahead.asked # NoQuery =>
          typeahead.items = FirstOf(Local[typeahead.asked] \o Remote[typeahead.asked], Limit)
    /\ ~typeahead.open => typeahead.value = typeahead.query
    /\ typeahead.hint # "" => /\ typeahead.value \in Continues[typeahead.hint]
                              /\ typeahead.open \/ typeahead.unseen
=============================================================================
