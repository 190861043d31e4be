---------------------------- MODULE EventSchedule ----------------------------
(***************************************************************************)
(* The schedule of one event: a single date or a weekly or biweekly series *)
(* on some days of the week, perhaps until an end date, from which single  *)
(* occurrences can be removed.  Members edit it through a form shown in    *)
(* their own time zone; the event's page, the events index and             *)
(* remove_from_schedule each compute occurrences of their own.             *)
(*                                                                         *)
(* Time is counted in ticks, Day of them a day, from a Monday 00:00 UTC.   *)
(* The occurrences are those of the ice_cube gem, whose weeks begin on     *)
(* Sunday.                                                                 *)
(***************************************************************************)
EXTENDS Integers, FiniteSets, FiniteSetsExt

CONSTANTS
    Members,
    NULL,
    Day,        \* ticks in a day
    Past,       \* COLLECTION_TIME_PAST, 300 minutes, in ticks
    Soon,       \* the 8 days of next_event_occurrence_with_time
    Window,     \* COLLECTION_TIME_FUTURE, 10 days
    Final,      \* two months, in days
    Duration,   \* of an occurrence, in ticks
    Starts,     \* the start_datetimes members enter
    DaySets,    \* the sets of weekdays they tick, Monday being 0
    EndDays,    \* the repeat_ends_on dates they enter, as day numbers
    Offsets,    \* of their time zones from UTC, in ticks
    MaxOpen,    \* bound: edit pages open at the same time
    MaxRemoved, \* bound: removed occurrences
    MaxTime     \* bound on the clock and on the times removed

Weekdays == 0..6

ASSUME EventScheduleAssumption ==
    /\ {Day, Soon, Window, Final, Duration, MaxOpen} \subseteq Nat \ {0}
    /\ {Past, MaxRemoved, MaxTime} \subseteq Nat
    /\ Soon < Final /\ Window <= Final
    /\ NULL \notin Int
    /\ Starts \subseteq Nat /\ EndDays \subseteq Nat
    /\ DaySets \subseteq SUBSET Weekdays
    /\ \A offset \in Offsets : offset \in Int /\ offset < Day /\ -offset < Day

VARIABLES
    now,
    event,   \* [start, repeats, every, mask, ends, ends_on, exclusions]
    form     \* the edit page each member has open, NULL without one

vars == <<now, event, form>>

Weekday(t) == (t \div Day) % 7
Week(t) == ((t \div Day) + 1) \div 7

(***************************************************************************)
(* repeats_weekly_each_days_of_the_week: one bit of the mask per day.      *)
(***************************************************************************)
EncodeFrom(first, days) ==
    LET bit(d) == IF d \in days THEN 2 ^ (first + d) ELSE 0
    IN  bit(0) + bit(1) + bit(2) + bit(3) + bit(4) + bit(5) + bit(6)

\* Variant: the first day has bit 1.
EncodeFromOne(days) == EncodeFrom(1, days)
Encode(days) == EncodeFrom(0, days)
Decode(mask) == {d \in Weekdays : (mask \div 2 ^ d) % 2 = 1}

(***************************************************************************)
(* Event#schedule: the occurrences of event e.  The end date is not part   *)
(* of the rule; the methods below bound their ranges by it.                *)
(***************************************************************************)
Occurs(e, t) ==
    /\ t >= e.start
    /\ t \notin e.exclusions
    /\ \/ e.repeats = "never" /\ t = e.start
       \/ /\ e.repeats \in {"weekly", "biweekly"}
          /\ t % Day = e.start % Day
          /\ Weekday(t) \in Decode(e.mask)
          /\ (Week(t) - Week(e.start)) % e.every = 0

\* occurrences_between
Occurrences(e, from, to) ==
    LET days == (from \div Day)..(to \div Day)
        times == {d * Day + (e.start % Day) : d \in days}
    IN  {t \in times : from <= t /\ t <= to /\ Occurs(e, t)}

Repeating_and_ends(e) == e.repeats # "never" /\ e.ends

\* next_event_occurrence_with_time, NULL if there is none.  Each turn of its
\* loop asks for the same range; the first turn needs the end to be more than
\* eight days away.
NextOccurrence(e, time) ==
    LET final == IF Repeating_and_ends(e) THEN e.ends_on * Day ELSE time + Final * Day
        found == Occurrences(e, time, final)
    IN  IF found # {} /\ (e.repeats = "never" \/ time + Soon * Day < final)
        THEN Min(found) ELSE NULL

\* next_occurrences: the dates the index lists
Start_datetime_for_collection(e, time) == Max({e.start, time - Past})
Final_datetime_for_collection(e, time) ==
    IF Repeating_and_ends(e) THEN e.ends_on * Day ELSE time + Window * Day

NextOccurrences(e, time) ==
    Occurrences(e, Start_datetime_for_collection(e, time), Final_datetime_for_collection(e, time))

\* future_events, and upcoming_events' remove_past_events for an event that
\* has no live hangout.  Variant: an end date counts whether or not it is used.
FutureEventByEndDate(e, time) == e.start > time - Day \/ e.ends_on * Day > time - Day
FutureEvent(e, time) ==
    /\ \/ e.start > time - Day
       \/ ~e.ends /\ e.repeats # "never"
       \/ e.ends_on * Day > time - Day
    /\ ~(e.repeats = "never" /\ e.start < time - Day)

UpcomingEvents(e, time) ==
    IF FutureEvent(e, time)
    THEN {t \in NextOccurrences(e, time) : t + Duration >= time}
    ELSE {}

-----------------------------------------------------------------------------
Fields == [start : Starts, repeats : {"never", "weekly", "biweekly"},
           days : DaySets, ends : BOOLEAN, ends_on : EndDays]

Valid(fields) == fields.repeats # "never" => fields.days # {}

\* transform_params: what is stored of the fields a form sends
Stored(fields, offset, exclusions) ==
    [start |-> fields.start - offset,
     repeats |-> fields.repeats,
     every |-> IF fields.repeats = "biweekly" THEN 2 ELSE 1,
     mask |-> Encode(fields.days),
     ends |-> fields.ends,
     ends_on |-> fields.ends_on,
     exclusions |-> exclusions]

Init ==
    /\ now = 0
    /\ \E fields \in Fields : Valid(fields) /\ event = Stored(fields, 0, {})
    /\ form = [m \in Members |-> NULL]

Tick ==
    /\ now < MaxTime
    /\ now' = now + 1
    /\ UNCHANGED <<event, form>>

(***************************************************************************)
(* The edit page: the form holds everything, the start in the member's     *)
(* time zone, and events_form_controller.js moves the ticked days by one   *)
(* when the start falls on another date there.                             *)
(***************************************************************************)
LocalDays(days, start, offset) ==
    LET shift == ((start + offset) \div Day) - (start \div Day)
    IN  {(d + shift) % 7 : d \in days}

EditPage(e, offset) ==
    [offset |-> offset,
     fields |-> [start |-> e.start + offset,
                 repeats |-> e.repeats,
                 days |-> LocalDays(Decode(e.mask), e.start, offset),
                 ends |-> e.ends,
                 ends_on |-> e.ends_on]]

OpenEdit(m) ==
    /\ form[m] = NULL
    /\ Cardinality({o \in Members : form[o] # NULL}) < MaxOpen
    /\ \E offset \in Offsets : form' = [form EXCEPT ![m] = EditPage(event, offset)]
    /\ UNCHANGED <<now, event>>

(***************************************************************************)
(* EventsController#update.  The start is converted to UTC; the days are   *)
(* stored as they are ticked, check_days_of_week being commented out.      *)
(***************************************************************************)
Update(m, fields) ==
    /\ event' = IF Valid(fields) THEN Stored(fields, form[m].offset, event.exclusions) ELSE event
    /\ form' = [form EXCEPT ![m] = NULL]
    /\ UNCHANGED now

\* Variant: the time entered is taken for UTC.
SaveUnchangedAsUtc(m) ==
    /\ form[m] # NULL
    /\ Update(m, [form[m].fields EXCEPT !.start = @ + form[m].offset])

SaveUnchanged(m) ==
    /\ form[m] # NULL
    /\ Update(m, form[m].fields)

SaveChanged(m) ==
    /\ form[m] # NULL
    /\ \/ \E start \in Starts : Update(m, [form[m].fields EXCEPT !.start = start + form[m].offset])
       \/ \E days \in DaySets : Update(m, [form[m].fields EXCEPT !.days = days])
       \/ \E repeats \in {"never", "weekly", "biweekly"} :
              Update(m, [form[m].fields EXCEPT !.repeats = repeats])
       \/ \E day \in EndDays : Update(m, [form[m].fields EXCEPT !.ends = TRUE, !.ends_on = day])
       \/ Update(m, [form[m].fields EXCEPT !.ends = FALSE])

(***************************************************************************)
(* remove_from_schedule: the next occurrence is removed by moving the      *)
(* start to the one after it, a later one by an exclusion.                 *)
(***************************************************************************)
RemoveFromScheduleTo(t, later) ==
    /\ t <= MaxTime
    /\ Cardinality(event.exclusions) < MaxRemoved
    /\ \/ /\ t >= now /\ t = NextOccurrence(event, now)
          /\ event' = [event EXCEPT !.start = later]
       \/ /\ t >= now /\ t # NextOccurrence(event, now)
          /\ event' = [event EXCEPT !.exclusions = @ \cup {t}]
       \/ /\ t < now
          /\ UNCHANGED event
    /\ UNCHANGED <<now, form>>

\* Variant: a week later, whatever comes next.
RemoveAWeekOn(t) == RemoveFromScheduleTo(t, t + 7 * Day)

RemoveFromSchedule(t) ==
    LET next == NextOccurrences(event, now) IN
      RemoveFromScheduleTo(t, IF Cardinality(next) > 1 THEN Min(next \ {Min(next)}) ELSE t + Day)

Removable == Occurrences(event, event.start, MaxTime)

Next ==
    \/ Tick
    \/ \E m \in Members : OpenEdit(m) \/ SaveUnchanged(m) \/ SaveChanged(m)
    \/ \E t \in Removable : RemoveFromSchedule(t)

Spec == Init /\ [][Next]_vars

-----------------------------------------------------------------------------
\* Every variable holds a value of the kind the code stores in it; the mask
\* stays within seven bits.
TypeOK ==
    /\ now \in 0..MaxTime
    /\ event.start \in Int
    /\ event.repeats \in {"never", "weekly", "biweekly"}
    /\ event.every \in {1, 2}
    /\ event.mask \in 0..127
    /\ event.ends \in BOOLEAN
    /\ event.ends_on \in EndDays
    /\ event.exclusions \subseteq 0..MaxTime
    /\ \A m \in Members : form[m] # NULL =>
           form[m].offset \in Offsets /\ form[m].fields.days \subseteq Weekdays

\* Saving an edit page that shows the event as it is, without a change, has no
\* side effect (features/events/edit_future_event.feature, "User in non-UTC
\* timezone edits but makes no changes to an existing event, and has no
\* side-effects").
UnchangedSaveChangesNothing ==
    [][\A m \in Members :
          SaveUnchanged(m) /\ form[m] = EditPage(event, form[m].offset) => event' = event]_vars

\* The next occurrence the event's page shows is the first one of the index,
\* if it is within the index's window.
PageAgreesWithIndex ==
    LET next == NextOccurrence(event, now)
        listed == {t \in UpcomingEvents(event, now) : t >= now}
    IN  /\ next # NULL /\ next <= now + Window * Day => listed # {} /\ next = Min(listed)
        /\ next = NULL /\ listed # {} => Repeating_and_ends(event)

\* Removing an occurrence of a weekly series removes it and no other one, if
\* none has begun within the last 300 minutes: the later ones stay what they
\* were (spec/models/event_spec.rb, "should move the start date forward when
\* the event instance to be removed is the first in the series").
Later(e, t) == Occurrences(e, t + 1, t + 28 * Day)
WeeklyRemovalSkipsOne ==
    [][\A t \in Removable :
          /\ RemoveFromSchedule(t) /\ t >= now
          /\ event.repeats = "weekly"
          /\ Occurrences(event, now - Past, now - 1) = {}
          => ~Occurs(event', t) /\ Later(event', t) = Later(event, t)]_vars
=============================================================================
