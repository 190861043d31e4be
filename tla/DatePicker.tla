----------------------------- MODULE DatePicker -----------------------------
(***************************************************************************)
(* The calendar under a date field (bootstrap-datepicker.js): shown with   *)
(* the focus, used by mouse, keys and typing, hidden by a click beside it. *)
(* Days are numbered, months equally long, and there are two views, of     *)
(* days and of months.  A Date is an object: the one the calendar shows    *)
(* can be the chosen one itself, or the default, and a month picked in the *)
(* view of months then changes it too.  Formats, languages, weeks' numbers *)
(* and placement are left out, as are inline calendars.                    *)
(***************************************************************************)
EXTENDS Integers, Sequences, SequencesExt

CONSTANTS Days, PerMonth, Week,   \* how many; the first days of months are Week apart too
          Today, EndDate,            \* the current day; endDate
          Starts,                 \* values of startDate
          Disabled,               \* datesDisabled
          Options,                \* records of several (multidate of two), autoclose,
                                  \* toggleActive and todayButton ("view", "linked")
          Texts,                  \* what is typed, days or Unreadable
          MaxEvents               \* bound on the events of a behaviour

VARIABLE picker

None == 0                         \* no focusDate
Unreadable == 0                   \* a text that is no date

Month(day) == (day - 1) \div PerMonth
Within(p, day) == day \in p.start .. EndDate
Selectable(p, day) == Within(p, day) /\ day \notin Disabled

\* getClassNames: what is drawn depends on these.
Drawing(p) == [month |-> Month(p.view), dates |-> p.dates, focus |-> p.focus]
Fill(p) == [p EXCEPT !.drawn = Drawing(p), !.dimmed = FALSE]
SetValue(p) == [p EXCEPT !.value = p.dates, !.unread = FALSE]

PickerInit ==
    \E options \in Options, start \in Starts :
        LET view == IF Today < start THEN start ELSE Today
            blank == [value |-> <<>>, dates |-> <<>>, view |-> view, focus |-> None,
                      default |-> Today, same |-> IF view = Today THEN {"default"} ELSE {},
                      mode |-> 0, visible |-> FALSE, focused |-> FALSE,
                      start |-> start, options |-> options,
                      events |-> 0, dimmed |-> FALSE, unread |-> FALSE, stepped |-> FALSE,
                      typed |-> {}, odd |-> {}, drawn |-> None]
        IN  picker = Fill(blank)

\* parseDate: what cannot be read is today.
Parsed(text) == [i \in DOMAIN text |-> IF text[i] = Unreadable THEN Today ELSE text[i]]

\* update: days out of range are dropped, disabled ones are not.
Update(p, text) ==
    LET dates == SelectSeq(Parsed(text), LAMBDA day : Within(p, day)) IN
    Fill([p EXCEPT
        !.dates = dates,
        !.view = IF dates # <<>> THEN Last(dates)
                 ELSE IF p.view < p.start THEN p.start
                 ELSE IF p.view > EndDate THEN EndDate ELSE p.default,
        !.same = IF dates = <<>> /\ p.view \in p.start .. EndDate THEN {"default"} ELSE {}])

Show(p) == [p EXCEPT !.visible = TRUE]

\* hide: the focused day is forgotten and not drawn again.
Hide(p) ==
    LET hidden == [p EXCEPT !.visible = FALSE, !.mode = 0, !.focus = None, !.stepped = FALSE,
                            !.dimmed = @ \/ p.drawn.focus # None]
    IN  IF ~p.visible THEN p ELSE IF p.value = <<>> THEN hidden ELSE SetValue(hidden)

\* _toggle_multidate.
Toggle(p, day) ==
    LET chosen == SelectInSeq(p.dates, LAMBDA d : d = day)
        added  == IF p.options.several THEN Append(p.dates, day) ELSE <<day>>
    IN  [p EXCEPT !.dates =
            IF chosen # 0 THEN (IF p.options.several \/ p.options.toggleActive THEN RemoveAt(@, chosen) ELSE @)
            ELSE IF Len(added) > 2 THEN Tail(added) ELSE added]

\* _setDate: both dates are copies.
SetDate(p, day) ==
    LET set == SetValue(Fill([Toggle(p, day) EXCEPT !.view = day, !.same = {}])) IN
    IF p.options.autoclose THEN Hide(set) ELSE set

\* Escape, Enter and Tab go back to the last chosen day, its object.
ToChosen(p) ==
    LET q == [p EXCEPT !.focus = None] IN
    IF q.dates = <<>> THEN [q EXCEPT !.same = @ \ {"focus", "date"}]
    ELSE [q EXCEPT !.view = Last(q.dates),
                   !.same = IF "date" \in @ THEN @ \ {"focus"} ELSE {"date"}]

Happens(p) ==
    /\ picker.events < MaxEvents
    /\ picker' = [p EXCEPT !.events = @ + 1]

Focus == ~picker.focused /\ Happens(Show([picker EXCEPT !.focused = TRUE]))

ClickBeside == picker.focused /\ Happens(Hide([picker EXCEPT !.focused = FALSE]))

\* A key that is not one of the calendar's.
Type(text) ==
    /\ picker.focused /\ text # picker.value /\ Len(text) <= (IF picker.options.several THEN 2 ELSE 1)
    /\ Happens([Update([picker EXCEPT !.value = text], text) EXCEPT
                   !.unread = ~picker.visible,
                   !.typed = @ \cup ToSet(Parsed(text))])

\* A calendar that is not shown comes back with Escape as well as with Down.
ShowByKey == picker.focused /\ ~picker.visible /\ Happens(Show(picker))

\* moveAvailableDate: a step, and then day by day past the disabled ones.
Available(p, from, steps) ==
    LET ahead(day) == (day - (from + steps)) * steps
        choosable == {day \in p.start .. EndDate \ Disabled : ahead(day) >= 0}
    IN  IF ~Within(p, from + steps) THEN {}
        ELSE {day \in choosable : \A other \in choosable : ahead(day) <= ahead(other)}

Arrow(steps) ==
    /\ picker.focused /\ picker.visible
    /\ picker.mode = 1 => steps \in {PerMonth, -PerMonth}
    /\ \E day \in Available(picker, IF picker.focus # None THEN picker.focus ELSE picker.view, steps) :
          Happens(Fill(SetValue([picker EXCEPT !.focus = day, !.view = day, !.same = {"focus"},
                                               !.stepped = TRUE])))

Escape ==
    /\ picker.focused /\ picker.visible
    /\ Happens(IF picker.focus # None THEN Fill(ToChosen(picker)) ELSE Hide(picker))

\* Enter takes the day that the arrows went to, or else the last chosen one, or
\* else the one the calendar shows, whether or not it may be chosen.
Enter ==
    /\ picker.focused /\ picker.visible
    /\ LET day == IF picker.focus # None THEN picker.focus
                  ELSE IF picker.dates # <<>> THEN Last(picker.dates) ELSE picker.view
           shown == picker.focus = None /\ picker.dates = <<>>
           toggled == Toggle(picker, day)
           p == [toggled EXCEPT
                    !.same = IF shown THEN @ \cup {"date"}
                             ELSE IF toggled.dates \in {picker.dates, <<>>} THEN @ ELSE {},
                    !.odd = IF picker.stepped /\ picker.focus # None THEN @ ELSE @ \cup {day}]
           set == Fill(SetValue(ToChosen(p)))
       IN  Happens(IF picker.options.autoclose THEN Hide(set) ELSE set)

Tab ==
    /\ picker.focused /\ picker.visible
    /\ Happens(Hide(Fill(ToChosen([picker EXCEPT !.focused = FALSE]))))

ClickDay(day) ==
    /\ picker.visible /\ picker.mode = 0 /\ Selectable(picker, day)
    /\ day \in picker.drawn.month * PerMonth - Week .. (picker.drawn.month + 1) * PerMonth + Week
    /\ Happens(SetDate(picker, day))

\* The arrows that are not hidden; a year has all the months there are.
NavArrow(direction) ==
    IF direction < 0 THEN Month(picker.view) > Month(picker.start)
    ELSE Month(picker.view) < Month(EndDate)

Navigate(direction) ==
    /\ picker.visible /\ picker.mode = 0 /\ NavArrow(direction)
    /\ Happens(Fill([picker EXCEPT !.view = @ + direction * PerMonth, !.same = {}]))

ShowMonths == picker.visible /\ picker.mode = 0 /\ Happens([picker EXCEPT !.mode = 1])

\* The month is set in the object shown.
ClickMonth(month) ==
    /\ picker.visible /\ picker.mode = 1
    /\ month \in Month(picker.start) .. Month(EndDate)
    /\ LET first == month * PerMonth + 1
           chosen == "date" \in picker.same
       IN  Happens(Fill([picker EXCEPT
              !.view = first, !.mode = 0, !.stepped = FALSE,
              !.default = IF "default" \in picker.same THEN first ELSE @,
              !.focus = IF "focus" \in picker.same THEN first ELSE @,
              !.dates = IF chosen THEN [@ EXCEPT ![Len(picker.dates)] = first] ELSE @,
              !.odd = IF chosen THEN @ \cup {first} ELSE @]))

ClickToday ==
    /\ picker.visible /\ Within(picker, Today)
    /\ LET p == [picker EXCEPT !.mode = 0, !.odd = @ \cup {Today}] IN
       Happens(IF picker.options.todayButton = "linked" THEN SetDate(p, Today)
               ELSE SetValue(Fill([p EXCEPT !.view = Today, !.same = {}])))

Clear ==
    /\ picker.visible
    /\ LET p == Update([picker EXCEPT !.value = <<>>, !.unread = FALSE], <<>>) IN
       Happens(IF picker.options.autoclose THEN Hide(p) ELSE p)

\* setDate and setStartDate, called by a script; the options are read anew.
CallSetDate(text) ==
    Happens(SetValue(Update([picker EXCEPT !.typed = @ \cup ToSet(Parsed(text))], text)))
ProcessOptions(p, start) == [p EXCEPT !.start = start, !.default = Today]
SetStartDate(start) ==
    /\ start # picker.start
    /\ Happens([Update(ProcessOptions(picker, start), picker.value) EXCEPT
                   !.unread = @ \/ ~picker.visible, !.stepped = FALSE])

PickerNext ==
    \/ Focus \/ ClickBeside \/ ShowByKey \/ Escape \/ Enter \/ Tab
    \/ ShowMonths \/ ClickToday \/ Clear
    \/ \E text \in Texts : Type(text) \/ CallSetDate(text)
    \/ \E steps \in {1, Week, PerMonth} : Arrow(steps) \/ Arrow(- steps)
    \/ \E day \in 1 .. Days : ClickDay(day)
    \/ \E direction \in {1, -1} : Navigate(direction)
    \/ \E month \in 0 .. Month(Days) : ClickMonth(month)
    \/ \E start \in Starts : SetStartDate(start)

-----------------------------------------------------------------------------
PickerTypeOK ==
    /\ picker.view \in 1 .. Days /\ picker.focus \in 0 .. Days /\ picker.default \in 1 .. Days
    /\ \A i \in DOMAIN picker.dates : picker.dates[i] \in 1 .. Days
    /\ picker.same \subseteq {"default", "focus", "date"}

\* A calendar that is shown shows the chosen days of its month; only a focused
\* day may be left over from the time it was hidden.  The field of one that is
\* hidden has the chosen days, unless it was typed into, or its range was
\* changed, while hidden.
PickerAgrees ==
    /\ [picker.drawn EXCEPT !.focus = None] = [Drawing(picker) EXCEPT !.focus = None]
    /\ ~picker.dimmed => picker.drawn.focus = picker.focus
    /\ ~picker.visible /\ ~picker.unread => picker.value = picker.dates

\* Chosen days are in range and not disabled ones, unless Enter took a day that
\* no arrow went to, or a month was set in the chosen day itself; days that were
\* typed or set are in range, and today's button looks at the range only.
ChosenSelectable ==
    \A i \in DOMAIN picker.dates : picker.dates[i] \notin picker.odd =>
        /\ Within(picker, picker.dates[i])
        /\ picker.dates[i] \in picker.typed \/ picker.dates[i] \notin Disabled
=============================================================================
