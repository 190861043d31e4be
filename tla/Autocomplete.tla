----------------------------- MODULE Autocomplete -----------------------------
(***************************************************************************)
(* A field with suggestions (jquery-ui.js, Autocomplete): a search waits   *)
(* for a pause in the typing, its answer for the source, and the menu of   *)
(* what it answered follows the keys and the mouse.  The live region, the  *)
(* repetition of a held key, fields that may not be edited and destroying  *)
(* are left out.                                                           *)
(***************************************************************************)
EXTENDS Naturals, Sequences, FiniteSets

CONSTANTS Values,     \* texts, "" among them
          Answers,    \* of the source to a text, texts in the order of the menu
          Vetoed,     \* texts that a handler of the search event refuses
          Kinds,      \* of fields, [remote, multi, autoFocus |-> BOOLEAN]
          MaxEvents   \* bound on what the reader and scripts do

VARIABLE field

None == 0             \* no item
Gone == 9             \* an item that the menu no longer has
Nothing == "nothing"  \* no value

AutocompleteInit ==
    \E kind \in Kinds :
    field = [kind |-> kind, value |-> "", term |-> Nothing,
             previous |-> Nothing, selected |-> Nothing,
             focused |-> FALSE, disabled |-> FALSE,
             timer |-> "none",                      \* a search waits: "plain", "modified"
             sent |-> {}, index |-> 0, pending |-> 0, loading |-> FALSE,
             cancelSearch |-> FALSE,
             visible |-> FALSE, items |-> <<>>, isNewMenu |-> TRUE,
             active |-> None, strayed |-> FALSE,    \* the menu's activeMenu is not it
             collapsing |-> FALSE,                  \* the menu's timer
             over |-> None, moves |-> <<>>,         \* items for the mouse's next move
             watching |-> FALSE, later |-> {},
             asked |-> Nothing, reported |-> Nothing, odd |-> {},    \* history
             left |-> MaxEvents]

Within(s) == [s EXCEPT !.left = @ - 1]
Odd(s, what) == [s EXCEPT !.odd = @ \cup {what}]

MenuBlur(s) == [s EXCEPT !.active = None, !.collapsing = FALSE]
CollapseAll(s) == [s EXCEPT !.collapsing = TRUE]

Hide(s) ==
    IF s.visible THEN [MenuBlur(s) EXCEPT !.visible = FALSE, !.isNewMenu = TRUE] ELSE s
Close(s) == Hide([s EXCEPT !.cancelSearch = TRUE])

\* A menu that opens below the mouse waits for the mouse to move.  There is no
\* data of an item that is gone, for which it throws.
MenuFocus(s, how, i) ==
    IF s.disabled THEN s
    ELSE IF s.isNewMenu /\ how = "mouse"
    THEN [MenuBlur(s) EXCEPT !.isNewMenu = FALSE, !.moves = Append(@, i)]
    ELSE [s EXCEPT !.isNewMenu = FALSE,
                   !.value = IF how = "key" /\ i # Gone THEN s.items[i] ELSE @]

FocusItem(s, how, i) ==
    MenuFocus([MenuBlur(s) EXCEPT !.active = i, !.strayed = (i = Gone)], how, i)

First(s, next) == IF s.strayed THEN Gone ELSE IF next THEN 1 ELSE Len(s.items)

Suggest(s, items) ==
    LET shown == [MenuBlur(s) EXCEPT !.items = items, !.visible = TRUE, !.isNewMenu = TRUE,
                                     !.over = None, !.moves = [n \in DOMAIN @ |-> Gone]]
    IN  IF s.kind.autoFocus THEN FocusItem(shown, "script", First(shown, TRUE)) ELSE shown

Respond(s, content) ==
    IF s.disabled \/ content = <<>> \/ s.cancelSearch THEN Hide(s) ELSE Suggest(s, content)

\* Only the answer to the last request is looked at.
Response(s, request, content) ==
    LET answered == IF request.index = s.index THEN Respond(s, content) ELSE s IN
    [answered EXCEPT !.sent = @ \ {request}, !.pending = @ - 1, !.loading = s.pending > 1]

\* What a remote source is still asked is aborted, which answers it with nothing.
Abort(s, index) ==
    LET others == {r \in s.sent : r.index # index} IN
    IF s.kind.remote /\ others # {} THEN Response(s, CHOOSE r \in others : TRUE, <<>>) ELSE s

Search(s, value) ==
    LET named == [s EXCEPT !.term = s.value]
        request == [index |-> s.index + 1, of |-> value]
        sent == [named EXCEPT !.pending = @ + 1, !.loading = TRUE, !.cancelSearch = FALSE,
                              !.index = @ + 1, !.sent = @ \cup {request}, !.asked = value]
    IN  IF value = "" THEN Close(named)
        ELSE IF value \in Vetoed THEN Odd(named, "vetoed")
        ELSE Abort(sent, request.index)

\* An item that is gone has no value, and the handler throws.
MenuSelect(s, i) ==
    LET item == s.items[i]
        there == IF s.focused THEN s
                 ELSE [s EXCEPT !.focused = TRUE,
                                !.later = @ \cup {[previous |-> s.previous, item |-> item]}]
    IN  IF s.disabled THEN s
        ELSE IF i = Gone THEN [s EXCEPT !.focused = TRUE]
        ELSE [Close([there EXCEPT !.value = item, !.term = item]) EXCEPT !.selected = item]

\* The active item, or the one clicked if there is none.
Select(s, i) ==
    LET chosen == IF s.active = None THEN i ELSE s.active IN
    MenuSelect(CollapseAll([s EXCEPT !.active = chosen]), chosen)

-----------------------------------------------------------------------------
\* The field.
Focus ==
    /\ ~field.focused
    /\ field' = LET s == [Within(field) EXCEPT !.focused = TRUE, !.reported = Nothing] IN
                IF s.disabled THEN s
                ELSE [s EXCEPT !.selected = Nothing, !.previous = s.value]

Left(s) ==
    LET t == Close([s EXCEPT !.focused = FALSE, !.timer = "none"])
        hasty == IF s.timer = "none" THEN t ELSE Odd(t, "hasty")
    IN  IF s.disabled THEN Odd([s EXCEPT !.focused = FALSE], "disabled")
        ELSE [hasty EXCEPT !.reported = IF s.previous = s.value THEN Nothing ELSE s.selected]

Blur == field.focused /\ field' = Left(Within(field))

\* A key with or without a modifier, which may leave the text as it is.
Type(value, modified) ==
    LET s == [Within(field) EXCEPT !.value = value] IN
    /\ field.focused
    /\ field' = IF s.disabled THEN s
                ELSE [s EXCEPT !.timer = IF modified /\ value = field.value THEN "modified"
                                         ELSE "plain"]

KeyPressed == field.focused /\ ~field.disabled

\* Up and down; a closed menu is searched for at once.
Move(next) ==
    LET s == Within(field)
        edge == IF next THEN Len(s.items) ELSE 1
        other == IF s.active = None THEN First(s, next)
                 ELSE IF next THEN s.active + 1 ELSE s.active - 1
    IN  /\ KeyPressed
        /\ \/ ~s.visible /\ ~s.kind.multi /\ field' = Odd(Search(s, s.value), "at once")
           \/ /\ s.visible /\ s.active \in {edge, Gone}
              /\ field' = MenuBlur([s EXCEPT !.value = IF s.kind.multi THEN @ ELSE s.term])
           \/ /\ s.visible /\ s.active \notin {edge, Gone}
              /\ field' = Odd(FocusItem(s, "key", other), IF s.sent = {} THEN "arrow" ELSE "overtaken")

Enter == KeyPressed /\ field.active # None /\ field' = Select(Within(field), None)

Tab ==
    /\ KeyPressed
    /\ field' = Left(IF field.active = None THEN Within(field) ELSE Select(Within(field), None))

Escape ==
    /\ KeyPressed /\ field.visible
    /\ field' = Close([Within(field) EXCEPT !.value = IF field.kind.multi THEN @ ELSE field.term])

-----------------------------------------------------------------------------
\* The mouse.
Over(i) ==
    /\ field.visible /\ field.over # i
    /\ field' = FocusItem([Within(field) EXCEPT !.over = i], "mouse", i)

Leave ==
    /\ field.over # None
    /\ field' = Odd(CollapseAll([Within(field) EXCEPT !.over = None]), "left")

\* It moves: items are entered again for which the menu was too new.
MouseMove ==
    LET Again[n \in 0 .. Len(field.moves)] ==
            IF n = 0 THEN [Within(field) EXCEPT !.moves = <<>>]
            ELSE FocusItem(Again[n - 1], "mouse", field.moves[n])
    IN  /\ field.moves # <<>>
        /\ field' = IF field.visible /\ Gone \notin {field.moves[n] : n \in DOMAIN field.moves}
                    THEN Again[Len(field.moves)] ELSE Odd(Again[Len(field.moves)], "moved")

Click ==
    /\ field.visible /\ field.over # None
    /\ field' = Select(Within(field), field.over)

\* On the menu the field keeps the focus, but for an old browser's, whose blur is
\* not looked at; on its scrollbar the next press elsewhere closes it.
Press(scrollbar, keeps) ==
    /\ field.visible /\ ~field.disabled
    /\ LET s == IF keeps \/ ~field.focused THEN Within(field)
                ELSE Odd([Within(field) EXCEPT !.focused = FALSE], "pressed")
       IN  field' = [s EXCEPT !.watching = scrollbar]

PressElsewhere ==
    /\ field.watching
    /\ field' = LET s == [Within(field) EXCEPT !.watching = FALSE] IN
                Close(IF s.focused THEN Left(s) ELSE s)

-----------------------------------------------------------------------------
\* Scripts.
CallSearch(value) == field' = Odd(Search(Within(field), value), "script")
CallClose == field' = Close(Within(field))

SetDisabled(disabled) ==
    LET s == [Within(field) EXCEPT !.disabled = disabled] IN
    /\ field.disabled # disabled
    /\ field' = Odd(IF disabled THEN Abort(s, None) ELSE s, "disabled")

-----------------------------------------------------------------------------
\* The pause is over.
Pause ==
    /\ field.timer # "none"
    /\ field' = LET s == [field EXCEPT !.timer = "none"]
                    again == ~s.visible /\ field.timer = "plain"
                IN  IF s.term # s.value \/ again
                    THEN Search([s EXCEPT !.selected = Nothing], s.value) ELSE s

\* An answer, or none after an error.
Answer ==
    \E request \in field.sent : \E content \in {Answers[request.of], <<>>} :
        field' = Response(field, request, content)

Collapse ==
    /\ field.collapsing
    /\ field' = [MenuBlur(field) EXCEPT !.strayed = FALSE]

Later ==
    \E l \in field.later :
        field' = [field EXCEPT !.later = @ \ {l}, !.previous = l.previous, !.selected = l.item]

AutocompleteRuns == Pause \/ Answer \/ Collapse \/ Later

AutocompleteNext ==
    \/ AutocompleteRuns
    \/ /\ field.left > 0 /\ field.later = {}    \* which takes no time
       /\ \/ Focus \/ Blur \/ Enter \/ Tab \/ Escape
          \/ Leave \/ MouseMove \/ Click \/ PressElsewhere \/ CallClose
          \/ \E value \in Values, modified \in BOOLEAN : Type(value, modified)
          \/ \E b \in BOOLEAN : Move(b) \/ SetDisabled(b)
          \/ \E b, c \in BOOLEAN : Press(b, c)
          \/ \E i \in DOMAIN field.items : Over(i)
          \/ \E value \in Values : CallSearch(value)

-----------------------------------------------------------------------------
AutocompleteTypeOK ==
    /\ field.value \in Values /\ field.kind \in Kinds
    /\ {field.term, field.previous, field.selected, field.reported} \subseteq Values \cup {Nothing}
    /\ field.active \in {None, Gone} \cup DOMAIN field.items
    /\ field.timer \in {"none", "plain", "modified"} /\ field.pending \in Nat

AutocompleteQuiet ==
    field.timer = "none" /\ field.sent = {} /\ ~field.collapsing /\ field.later = {}

\* The field shows that it waits for as long as it does, and an answer that comes
\* late shows nothing: not to a field that was left, nor in place of a later one.
\* What is active is in the menu, the text without an active item is what was
\* searched for, and a change is told with the item chosen for it.
But(exceptions) == field.odd \cap exceptions = {}
AutocompleteAgrees ==
    /\ field.pending = Cardinality(field.sent) /\ field.loading = (field.pending > 0)
    /\ field.visible => ~field.cancelSearch
    /\ field.visible /\ But({"script", "disabled", "pressed"}) => field.focused
    /\ field.active # None /\ But({"moved"}) => field.visible /\ field.active # Gone
    /\ field.reported # Nothing /\ ~field.focused /\ But({"hasty", "arrow", "overtaken", "at once", "script"})
           => field.reported = field.value
    /\ AutocompleteQuiet /\ field.visible =>
           /\ field.items = Answers[field.asked]
           /\ But({"script", "vetoed"}) => field.term = field.asked
           /\ field.active = None /\ ~field.kind.multi
                  /\ But({"left", "script", "disabled", "overtaken"}) => field.value = field.term
===============================================================================
