------------------------- MODULE EventScheduleProofs -------------------------
(***************************************************************************)
(* Proofs about EventSchedule, for days of any length, any time zones and  *)
(* any dates: the event's page and the index agree, removing from a weekly *)
(* series removes one occurrence, and saving an unchanged edit page        *)
(* changes nothing where the date is that of UTC.                          *)
(***************************************************************************)
EXTENDS EventSchedule, FiniteSetTheorems, WellFoundedInduction, TLAPS

(***************************************************************************)
(* Numbers: days and times of day, least and greatest elements.            *)
(***************************************************************************)
LEMMA DayAndTime ==
    ASSUME NEW t \in Int, NEW n \in Nat \ {0}
    PROVE  /\ t \div n \in Int /\ t % n \in 0..(n - 1)
           /\ t = (t \div n) * n + (t % n)
OBVIOUS

\* A number of days and a time of day give both back.
LEMMA TimeOfDay ==
    ASSUME NEW k \in Int, NEW n \in Nat \ {0}, NEW x \in 0..(n - 1)
    PROVE  k * n + x \in Int /\ (k * n + x) \div n = k /\ (k * n + x) % n = x
OBVIOUS

\* A later time is of the same day or a later one.
LEMMA DayOrder ==
    ASSUME NEW s \in Int, NEW t \in Int, NEW n \in Nat \ {0}, s <= t
    PROVE  s \div n <= t \div n
<1> DEFINE p == s \div n
           q == t \div n
<1>1. p \in Int /\ q \in Int /\ s = p * n + (s % n) /\ t = q * n + (t % n)
      /\ s % n \in 0..(n - 1) /\ t % n \in 0..(n - 1)
  BY DayAndTime
<1> HIDE DEF p, q
<1> SUFFICES ASSUME q <= p - 1 PROVE FALSE
  BY <1>1 DEF p, q
<1>2. q * n <= (p - 1) * n
  BY <1>1
<1>3. (p - 1) * n = p * n - n
  BY <1>1
<1> QED
  BY <1>1, <1>2, <1>3

\* Two times of the same hour are whole days apart.
LEMMA WholeDays ==
    ASSUME NEW s \in Int, NEW t \in Int, NEW n \in Nat \ {0}, s < t, s % n = t % n
    PROVE  s + n <= t
<1> DEFINE p == s \div n
           q == t \div n
<1>1. p \in Int /\ q \in Int /\ s = p * n + (s % n) /\ t = q * n + (t % n)
      /\ s % n \in Int /\ t % n \in Int
  BY DayAndTime
<1> HIDE DEF p, q
<1>2. p < q
  <2> SUFFICES ASSUME q <= p PROVE FALSE
    BY <1>1
  <2>1. q * n <= p * n
    BY <1>1
  <2> QED
    BY <1>1, <2>1
<1>3. (p + 1) * n <= q * n /\ (p + 1) * n = p * n + n
  BY <1>1, <1>2
<1> QED
  BY <1>1, <1>3

\* A day later it is the same time of day.
LEMMA NextDay ==
    ASSUME NEW t \in Int, NEW n \in Nat \ {0}
    PROVE  (t + n) % n = t % n
<1>1. t \div n \in Int /\ t % n \in 0..(n - 1) /\ t = (t \div n) * n + (t % n)
  BY DayAndTime
<1>2. t + n = ((t \div n) + 1) * n + (t % n)
  BY <1>1
<1>3. (t \div n) + 1 \in Int
  BY <1>1
<1>4. (((t \div n) + 1) * n + (t % n)) % n = t % n
  BY <1>1, <1>3, TimeOfDay
<1> QED
  BY <1>2, <1>4

\* A set of times with a lower bound has a least one.
LEMMA LeastOf ==
    ASSUME NEW S \in SUBSET Int, S # {}, NEW b \in Int, \A t \in S : b <= t
    PROVE  Min(S) \in S /\ \A t \in S : Min(S) <= t
<1> DEFINE T == {t - b : t \in S}
           less == {ss \in Nat \X Nat : ss[1] < ss[2]}
<1>1. IsWellFoundedOn(less, Nat)
  <2>1. OpToRel(<, Nat) = less
    BY Zenon DEF OpToRel
  <2> QED
    BY <2>1, NatLessThanWellFounded
<1>2. T \subseteq Nat /\ T # {}
  <2>1. PICK t \in S : TRUE
    OBVIOUS
  <2>2. t - b \in T
    BY <2>1
  <2>3. \A s \in S : s - b \in Nat
    OBVIOUS
  <2> QED
    BY <2>2, <2>3
<1>3. PICK n \in T : \A m \in T : <<m, n>> \notin less
  <2> HIDE DEF T, less
  <2> QED
    BY <1>1, <1>2, WFMin
<1>4. \A m \in T : n <= m
  <2> SUFFICES ASSUME NEW m \in T PROVE n <= m
    OBVIOUS
  <2>1. <<m, n>> \in less <=> m < n
    BY <1>2
  <2> QED
    BY <1>2, <1>3, <2>1
<1>5. PICK s \in S : n = s - b
  OBVIOUS
<1>6. \A t \in S : s <= t
  <2> SUFFICES ASSUME NEW t \in S PROVE s <= t
    OBVIOUS
  <2>1. s - b <= t - b
    BY <1>4, <1>5
  <2>2. s \in Int /\ t \in Int
    BY <1>5
  <2> HIDE DEF T, less
  <2> QED
    BY <2>1, <2>2
<1>7. s \in S /\ \A t \in S : s =< t
  BY <1>5, <1>6
<1> HIDE DEF T, less
<1> QED
  BY <1>7 DEF Min

\* The later of two times.
LEMMA LaterOf ==
    ASSUME NEW x \in Int, NEW y \in Int
    PROVE  Max({x, y}) = IF x <= y THEN y ELSE x
<1>1. \E z \in {x, y} : \A w \in {x, y} : z >= w
  OBVIOUS
<1> QED
  BY <1>1 DEF Max

(***************************************************************************)
(* The mask of weekdays.                                                   *)
(***************************************************************************)
LEMMA MaskIsByte == \A days : Encode(days) \in 0..127
BY DEF Encode, EncodeFrom

\* What is ticked is what is read back, whichever days it is.
LEMMA MaskKeepsDays ==
    ASSUME NEW days \in SUBSET Weekdays
    PROVE  Decode(Encode(days)) = days
<1>1. \A d \in Weekdays : (Encode(days) \div 2 ^ d) % 2 = 1 <=> d \in days
  <2>1. (Encode(days) \div 2 ^ 0) % 2 = 1 <=> 0 \in days
    BY DEF Encode, EncodeFrom
  <2>2. (Encode(days) \div 2 ^ 1) % 2 = 1 <=> 1 \in days
    BY DEF Encode, EncodeFrom
  <2>3. (Encode(days) \div 2 ^ 2) % 2 = 1 <=> 2 \in days
    BY DEF Encode, EncodeFrom
  <2>4. (Encode(days) \div 2 ^ 3) % 2 = 1 <=> 3 \in days
    BY DEF Encode, EncodeFrom
  <2>5. (Encode(days) \div 2 ^ 4) % 2 = 1 <=> 4 \in days
    BY DEF Encode, EncodeFrom
  <2>6. (Encode(days) \div 2 ^ 5) % 2 = 1 <=> 5 \in days
    BY DEF Encode, EncodeFrom
  <2>7. (Encode(days) \div 2 ^ 6) % 2 = 1 <=> 6 \in days
    BY DEF Encode, EncodeFrom
  <2>8. \A d \in Weekdays : d \in {0, 1, 2, 3, 4, 5, 6}
    BY DEF Weekdays
  <2> HIDE DEF Encode
  <2> QED
    BY Zenon, <2>1, <2>2, <2>3, <2>4, <2>5, <2>6, <2>7, <2>8
<1> QED
  BY <1>1 DEF Decode

(***************************************************************************)
(* The inductive invariant: the fields of the event and of the open forms, *)
(* the mask being one of some days and the interval that of the rule.      *)
(***************************************************************************)
Rules == {"never", "weekly", "biweekly"}
EventOK(e) ==
    /\ e = [start |-> e.start, repeats |-> e.repeats, every |-> e.every, mask |-> e.mask,
            ends |-> e.ends, ends_on |-> e.ends_on, exclusions |-> e.exclusions]
    /\ e.start \in Int /\ e.repeats \in Rules
    /\ e.every = IF e.repeats = "biweekly" THEN 2 ELSE 1
    /\ \E days \in SUBSET Weekdays : e.mask = Encode(days)
    /\ e.ends \in BOOLEAN /\ e.ends_on \in EndDays /\ e.exclusions \subseteq 0..MaxTime
FieldsOK(fields) ==
    /\ fields = [start |-> fields.start, repeats |-> fields.repeats, days |-> fields.days,
                 ends |-> fields.ends, ends_on |-> fields.ends_on]
    /\ fields.start \in Int /\ fields.repeats \in Rules /\ fields.days \subseteq Weekdays
    /\ fields.ends \in BOOLEAN /\ fields.ends_on \in EndDays
ScheduleInv ==
    /\ now \in 0..MaxTime /\ EventOK(event) /\ DOMAIN form = Members
    /\ \A m \in Members : form[m] # NULL => form[m].offset \in Offsets /\ FieldsOK(form[m].fields)

\* What is stored of legal fields is a legal event.
LEMMA StoredIsOK ==
    ASSUME NEW fields, FieldsOK(fields), NEW offset \in Int, NEW exclusions \in SUBSET (0..MaxTime)
    PROVE  EventOK(Stored(fields, offset, exclusions))
<1> DEFINE e == Stored(fields, offset, exclusions)
<1>1. /\ e = [start |-> fields.start - offset, repeats |-> fields.repeats,
              every |-> IF fields.repeats = "biweekly" THEN 2 ELSE 1,
              mask |-> Encode(fields.days), ends |-> fields.ends, ends_on |-> fields.ends_on,
              exclusions |-> exclusions]
  BY DEF Stored
<1> HIDE DEF e
<1> QED
  BY <1>1 DEF EventOK, FieldsOK, e

\* What can be entered are legal fields.
LEMMA EnteredIsOK ==
    ASSUME NEW fields \in Fields
    PROVE  FieldsOK(fields)
<1>1. /\ fields = [start |-> fields.start, repeats |-> fields.repeats, days |-> fields.days,
                     ends |-> fields.ends, ends_on |-> fields.ends_on]
      /\ fields.start \in Starts /\ fields.repeats \in Rules /\ fields.days \in DaySets
      /\ fields.ends \in BOOLEAN /\ fields.ends_on \in EndDays
  BY DEF Fields, Rules
<1>2. Starts \subseteq Int /\ DaySets \subseteq SUBSET Weekdays
  BY EventScheduleAssumption DEF EventScheduleAssumption
<1> QED
  BY <1>1, <1>2 DEF FieldsOK

\* The event begins in the invariant.
LEMMA InitInvariant == Init => ScheduleInv
<1> SUFFICES ASSUME Init PROVE ScheduleInv
  OBVIOUS
<1>1. PICK fields \in Fields : event = Stored(fields, 0, {})
  BY DEF Init
<1>2. EventOK(event)
  BY <1>1, EnteredIsOK, StoredIsOK
<1>3. now \in 0..MaxTime /\ form = [m \in Members |-> NULL]
  BY EventScheduleAssumption DEF Init, EventScheduleAssumption
<1> QED
  BY <1>2, <1>3 DEF ScheduleInv

\* The occurrences in a range are those times in it at which the event occurs.
LEMMA OccurrencesAre ==
    ASSUME NEW e, EventOK(e), NEW from \in Int, NEW to \in Int
    PROVE  /\ \A t : t \in Occurrences(e, from, to) <=>
                       t \in Int /\ from <= t /\ t <= to /\ Occurs(e, t)
           /\ IsFiniteSet(Occurrences(e, from, to))
<1> DEFINE time == e.start % Day
           days == (from \div Day)..(to \div Day)
           times == {d * Day + time : d \in days}
<1>1. Day \in Nat \ {0} /\ e.start \in Int
  BY EventScheduleAssumption DEF EventScheduleAssumption, EventOK
<1>2. time \in 0..(Day - 1)
  BY <1>1, DayAndTime
<1>3. Occurrences(e, from, to) = {t \in times : from <= t /\ t <= to /\ Occurs(e, t)}
  BY DEF Occurrences
<1> HIDE DEF time
<1>4. times \subseteq Int
  BY <1>1, <1>2
<1>5. ASSUME NEW t \in Int, from <= t, t <= to, Occurs(e, t) PROVE t \in times
  <2>1. t % Day = time
    BY <1>5 DEF Occurs, time
  <2>2. t \div Day \in Int /\ t = (t \div Day) * Day + time
    BY <1>1, <2>1, DayAndTime
  <2>3. from \div Day <= t \div Day /\ t \div Day <= to \div Day
    BY <1>1, <1>5, DayOrder
  <2>4. from \div Day \in Int /\ to \div Day \in Int
    BY <1>1, DayAndTime
  <2> QED
    BY <2>2, <2>3, <2>4
<1>6. \A t : t \in Occurrences(e, from, to) <=>
               t \in Int /\ from <= t /\ t <= to /\ Occurs(e, t)
  BY <1>3, <1>4, <1>5
<1>7. IsFiniteSet(from..to) /\ Occurrences(e, from, to) \subseteq from..to
  BY <1>6, FS_Interval
<1> QED
  BY <1>6, <1>7, FS_Subset

(***************************************************************************)
(* The steps.                                                              *)
(***************************************************************************)
\* What a removal makes of the event: another start, one more exclusion, or
\* nothing.
LEMMA MovedIsOK ==
    ASSUME EventOK(event), NEW later \in Int
    PROVE  EventOK([event EXCEPT !.start = later])
<1> DEFINE e == [event EXCEPT !.start = later]
<1>1. e = [start |-> later, repeats |-> event.repeats, every |-> event.every, mask |-> event.mask,
           ends |-> event.ends, ends_on |-> event.ends_on, exclusions |-> event.exclusions]
  BY DEF EventOK
<1> HIDE DEF e
<1>2. EventOK(e)
  BY <1>1 DEF EventOK
<1> QED
  BY <1>2 DEF e

\* Excluding an occurrence leaves the event legal.
LEMMA ExcludedIsOK ==
    ASSUME EventOK(event), NEW t \in 0..MaxTime
    PROVE  EventOK([event EXCEPT !.exclusions = @ \cup {t}])
<1> DEFINE e == [event EXCEPT !.exclusions = @ \cup {t}]
<1>1. e = [start |-> event.start, repeats |-> event.repeats, every |-> event.every,
           mask |-> event.mask, ends |-> event.ends, ends_on |-> event.ends_on,
           exclusions |-> event.exclusions \cup {t}]
  BY DEF EventOK
<1> HIDE DEF e
<1>2. EventOK(e)
  BY <1>1 DEF EventOK
<1> QED
  BY <1>2 DEF e

\* Weekdays moved to a time zone are weekdays.
LEMMA LocalDaysAreDays ==
    ASSUME NEW days \in SUBSET Weekdays, NEW start \in Int, NEW offset \in Int
    PROVE  LocalDays(days, start, offset) \subseteq Weekdays
<1> DEFINE shift == ((start + offset) \div Day) - (start \div Day)
<1>1. shift \in Int
  <2>1. Day \in Nat \ {0} /\ start + offset \in Int
    BY EventScheduleAssumption DEF EventScheduleAssumption
  <2>2. (start + offset) \div Day \in Int /\ start \div Day \in Int
    BY <2>1, DayAndTime
  <2> QED
    BY <2>2
<1> HIDE DEF shift
<1>2. \A d \in days : (d + shift) % 7 \in Weekdays
  BY <1>1 DEF Weekdays
<1>3. LocalDays(days, start, offset) = {(d + shift) % 7 : d \in days}
  BY DEF LocalDays, shift
<1> QED
  BY <1>2, <1>3

\* The edit page shows legal fields.
LEMMA EditPageIsOK ==
    ASSUME EventOK(event), NEW offset \in Offsets
    PROVE  /\ EditPage(event, offset).offset = offset
           /\ FieldsOK(EditPage(event, offset).fields)
<1> DEFINE fields == EditPage(event, offset).fields
           days == LocalDays(Decode(event.mask), event.start, offset)
<1>1. offset \in Int
  BY EventScheduleAssumption DEF EventScheduleAssumption
<1>2. days \subseteq Weekdays
  BY <1>1, LocalDaysAreDays DEF EventOK, Decode
<1> HIDE DEF days
<1>3. /\ EditPage(event, offset).offset = offset
      /\ fields = [start |-> event.start + offset, repeats |-> event.repeats, days |-> days,
                   ends |-> event.ends, ends_on |-> event.ends_on]
  BY DEF EditPage, days
<1> HIDE DEF fields
<1>4. FieldsOK(fields)
  BY <1>1, <1>2, <1>3 DEF FieldsOK, EventOK
<1> QED
  BY <1>3, <1>4 DEF fields

\* An update with legal fields keeps the invariant.
LEMMA UpdateStep ==
    ASSUME ScheduleInv, NEW m \in Members, form[m] # NULL,
           NEW fields, FieldsOK(fields), Update(m, fields)
    PROVE  ScheduleInv'
<1>1. form[m].offset \in Int /\ event.exclusions \in SUBSET (0..MaxTime)
  BY EventScheduleAssumption DEF ScheduleInv, EventOK, EventScheduleAssumption
<1>2. EventOK(event')
  BY <1>1, StoredIsOK DEF Update, ScheduleInv
<1>3. now' = now /\ form' = [form EXCEPT ![m] = NULL]
  BY DEF Update
<1> QED
  BY <1>2, <1>3 DEF ScheduleInv

\* A form with one field changed is a form.
LEMMA ChangedIsOK ==
    ASSUME NEW fields, FieldsOK(fields)
    PROVE  /\ \A start \in Int : FieldsOK([fields EXCEPT !.start = start])
           /\ \A days \in SUBSET Weekdays : FieldsOK([fields EXCEPT !.days = days])
           /\ \A repeats \in Rules : FieldsOK([fields EXCEPT !.repeats = repeats])
           /\ \A ends \in BOOLEAN, day \in EndDays :
                FieldsOK([fields EXCEPT !.ends = ends, !.ends_on = day])
           /\ \A ends \in BOOLEAN : FieldsOK([fields EXCEPT !.ends = ends])
<1> DEFINE With(start, repeats, days, ends, ends_on) ==
             [start |-> start, repeats |-> repeats, days |-> days, ends |-> ends, ends_on |-> ends_on]
<1>1. fields = With(fields.start, fields.repeats, fields.days, fields.ends, fields.ends_on)
  BY DEF FieldsOK
<1>2. \A start \in Int, repeats \in Rules, days \in SUBSET Weekdays, ends \in BOOLEAN, ends_on \in EndDays :
        FieldsOK(With(start, repeats, days, ends, ends_on))
  BY DEF FieldsOK
<1>3. /\ fields.start \in Int /\ fields.repeats \in Rules /\ fields.days \in SUBSET Weekdays
      /\ fields.ends \in BOOLEAN /\ fields.ends_on \in EndDays
  BY DEF FieldsOK
<1>4. ASSUME NEW start \in Int PROVE FieldsOK([fields EXCEPT !.start = start])
  <2>1. [fields EXCEPT !.start = start] =
          With(start, fields.repeats, fields.days, fields.ends, fields.ends_on)
    BY <1>1
  <2> HIDE DEF With
  <2> QED
    BY <1>2, <1>3, <2>1
<1>5. ASSUME NEW days \in SUBSET Weekdays PROVE FieldsOK([fields EXCEPT !.days = days])
  <2>1. [fields EXCEPT !.days = days] =
          With(fields.start, fields.repeats, days, fields.ends, fields.ends_on)
    BY <1>1
  <2> HIDE DEF With
  <2> QED
    BY <1>2, <1>3, <2>1
<1>6. ASSUME NEW repeats \in Rules PROVE FieldsOK([fields EXCEPT !.repeats = repeats])
  <2>1. [fields EXCEPT !.repeats = repeats] =
          With(fields.start, repeats, fields.days, fields.ends, fields.ends_on)
    BY <1>1
  <2> HIDE DEF With
  <2> QED
    BY <1>2, <1>3, <2>1
<1>7. ASSUME NEW ends \in BOOLEAN, NEW day \in EndDays
      PROVE  FieldsOK([fields EXCEPT !.ends = ends, !.ends_on = day])
  <2>1. [fields EXCEPT !.ends = ends, !.ends_on = day] =
          With(fields.start, fields.repeats, fields.days, ends, day)
    <3> DEFINE other == [fields EXCEPT !.ends = ends]
    <3>1. other = With(fields.start, fields.repeats, fields.days, ends, fields.ends_on)
      BY <1>1
    <3>2. [fields EXCEPT !.ends = ends, !.ends_on = day] = [other EXCEPT !.ends_on = day]
      OBVIOUS
    <3> HIDE DEF other
    <3>3. [other EXCEPT !.ends_on = day] = With(fields.start, fields.repeats, fields.days, ends, day)
      BY <3>1
    <3> QED
      BY <3>2, <3>3
  <2> HIDE DEF With
  <2> QED
    BY <1>2, <1>3, <2>1
<1>8. ASSUME NEW ends \in BOOLEAN PROVE FieldsOK([fields EXCEPT !.ends = ends])
  <2>1. [fields EXCEPT !.ends = ends] =
          With(fields.start, fields.repeats, fields.days, ends, fields.ends_on)
    BY <1>1
  <2> HIDE DEF With
  <2> QED
    BY <1>2, <1>3, <2>1
<1> QED
  BY <1>4, <1>5, <1>6, <1>7, <1>8

\* The start after the removal of the next occurrence.
LaterStart(t) ==
    LET next == NextOccurrences(event, now)
    IN  IF Cardinality(next) > 1 THEN Min(next \ {Min(next)}) ELSE t + Day

\* The ends of the range in which occurrences are looked for.
LEMMA RangeBounds ==
    ASSUME ScheduleInv
    PROVE  /\ Start_datetime_for_collection(event, now) \in Int
           /\ Start_datetime_for_collection(event, now) =
                IF event.start <= now - Past THEN now - Past ELSE event.start
           /\ Final_datetime_for_collection(event, now) \in Int
<1>1. event.start \in Int /\ now \in Int /\ now - Past \in Int /\ event.ends_on \in Nat
      /\ Day \in Nat /\ Window \in Nat
  BY EventScheduleAssumption DEF ScheduleInv, EventOK, EventScheduleAssumption
<1> QED
  BY <1>1, LaterOf DEF Start_datetime_for_collection, Final_datetime_for_collection

\* Of several occurrences the first, the second, and none between.
LEMMA FirstTwo ==
    ASSUME NEW S, IsFiniteSet(S), S \subseteq Int, NEW b \in Int, \A t \in S : b <= t
    PROVE  /\ S # {} => Min(S) \in S /\ \A t \in S : Min(S) <= t
           /\ Cardinality(S) > 1 =>
                /\ Min(S \ {Min(S)}) \in S /\ Min(S) < Min(S \ {Min(S)})
                /\ \A t \in S : t = Min(S) \/ Min(S \ {Min(S)}) <= t
<1>1. S # {} => Min(S) \in S /\ \A t \in S : Min(S) <= t
  BY LeastOf
<1>2. ASSUME Cardinality(S) > 1
      PROVE  /\ Min(S \ {Min(S)}) \in S /\ Min(S) < Min(S \ {Min(S)})
             /\ \A t \in S : t = Min(S) \/ Min(S \ {Min(S)}) <= t
  <2> DEFINE x == Min(S)
  <2>1. S # {} /\ S # {x}
    BY <1>2, FS_EmptySet, FS_Singleton
  <2>2. S \ {x} # {} /\ S \ {x} \subseteq Int /\ \A t \in S \ {x} : b <= t
    BY <1>1, <2>1
  <2>3. Min(S \ {x}) \in S \ {x} /\ \A t \in S \ {x} : Min(S \ {x}) <= t
    BY <2>2, LeastOf
  <2>4. x \in S /\ \A t \in S : x <= t
    BY <1>1, <2>1
  <2> HIDE DEF x
  <2>5. Min(S \ {x}) \in S /\ x < Min(S \ {x}) /\ \A t \in S : t = x \/ Min(S \ {x}) <= t
    <3>1. Min(S \ {x}) \in S /\ Min(S \ {x}) # x /\ x \in Int /\ Min(S \ {x}) \in Int
      BY <2>3, <2>4
    <3>2. \A t \in S : t = x \/ Min(S \ {x}) <= t
      BY <2>3
    <3>3. x <= Min(S \ {x})
      BY <2>4, <3>1
    <3> QED
      BY <3>1, <3>2, <3>3
  <2> QED
    BY <2>5 DEF x
<1> QED
  BY <1>1, <1>2

\* The next occurrences are the occurrences of that range.
LEMMA NextAre ==
    ASSUME ScheduleInv
    PROVE  /\ IsFiniteSet(NextOccurrences(event, now)) /\ NextOccurrences(event, now) \subseteq Int
           /\ \A t : t \in NextOccurrences(event, now) <=>
                       /\ t \in Int /\ Occurs(event, t) /\ now - Past <= t
                       /\ t <= Final_datetime_for_collection(event, now)
<1> DEFINE from == Start_datetime_for_collection(event, now)
           to == Final_datetime_for_collection(event, now)
<1>1. /\ from \in Int /\ to \in Int /\ EventOK(event)
      /\ from = IF event.start <= now - Past THEN now - Past ELSE event.start
  BY RangeBounds DEF ScheduleInv
<1>2. NextOccurrences(event, now) = Occurrences(event, from, to)
  BY DEF NextOccurrences
<1>3. now - Past \in Int /\ event.start \in Int
  BY EventScheduleAssumption DEF ScheduleInv, EventOK, EventScheduleAssumption
<1> HIDE DEF from, to
<1>4. /\ \A t : t \in Occurrences(event, from, to) <=>
                  t \in Int /\ from <= t /\ t <= to /\ Occurs(event, t)
      /\ IsFiniteSet(Occurrences(event, from, to))
  BY <1>1, OccurrencesAre
<1>5. \A t \in Int : Occurs(event, t) => (from <= t <=> now - Past <= t)
  BY <1>1, <1>3 DEF Occurs
<1> QED
  BY <1>2, <1>4, <1>5 DEF to

\* The later of the times of start is a time.
LEMMA LaterStartIsInt ==
    ASSUME ScheduleInv, NEW t \in Int
    PROVE  LaterStart(t) \in Int
<1> DEFINE next == NextOccurrences(event, now)
<1>1. IsFiniteSet(next) /\ next \subseteq Int /\ \A x \in next : now - Past <= x
  BY NextAre
<1>2. now - Past \in Int /\ Day \in Int
  BY EventScheduleAssumption DEF ScheduleInv, EventScheduleAssumption
<1> HIDE DEF next
<1>3. Cardinality(next) > 1 => Min(next \ {Min(next)}) \in Int
  BY <1>1, <1>2, FirstTwo
<1> QED
  BY <1>2, <1>3 DEF LaterStart, next

\* Every step keeps the invariant.
LEMMA ScheduleStep == ScheduleInv /\ [Next]_vars => ScheduleInv'
<1> SUFFICES ASSUME ScheduleInv, [Next]_vars PROVE ScheduleInv'
  OBVIOUS
<1>1. /\ now \in 0..MaxTime /\ EventOK(event) /\ DOMAIN form = Members /\ MaxTime \in Nat
      /\ \A m \in Members : form[m] # NULL => form[m].offset \in Offsets /\ FieldsOK(form[m].fields)
  BY EventScheduleAssumption DEF ScheduleInv, EventScheduleAssumption
<1>2. CASE UNCHANGED vars
  BY <1>1, <1>2 DEF vars, ScheduleInv
<1>3. CASE Tick
  BY <1>1, <1>3 DEF Tick, ScheduleInv
<1>4. ASSUME NEW m \in Members, OpenEdit(m) PROVE ScheduleInv'
  <2>1. PICK offset \in Offsets : form' = [form EXCEPT ![m] = EditPage(event, offset)]
    BY <1>4 DEF OpenEdit
  <2>2. UNCHANGED <<now, event>>
    BY <1>4 DEF OpenEdit
  <2> QED
    BY <1>1, <2>1, <2>2, EditPageIsOK DEF ScheduleInv
<1>5. ASSUME NEW m \in Members, SaveUnchanged(m) PROVE ScheduleInv'
  BY <1>1, <1>5, UpdateStep DEF SaveUnchanged
<1>6. ASSUME NEW m \in Members, SaveChanged(m) PROVE ScheduleInv'
  <2>1. form[m] # NULL /\ FieldsOK(form[m].fields) /\ form[m].offset \in Int
    BY <1>1, <1>6, EventScheduleAssumption DEF SaveChanged, EventScheduleAssumption
  <2>2. PICK fields : FieldsOK(fields) /\ Update(m, fields)
    <3>1. \A start \in Starts : start + form[m].offset \in Int
      BY <2>1, EventScheduleAssumption DEF EventScheduleAssumption
    <3>2. DaySets \subseteq SUBSET Weekdays
      BY EventScheduleAssumption DEF EventScheduleAssumption
    <3>3. TRUE \in BOOLEAN /\ FALSE \in BOOLEAN
      OBVIOUS
    <3>4. /\ \A start \in Starts : FieldsOK([form[m].fields EXCEPT !.start = start + form[m].offset])
          /\ \A days \in DaySets : FieldsOK([form[m].fields EXCEPT !.days = days])
          /\ \A repeats \in Rules : FieldsOK([form[m].fields EXCEPT !.repeats = repeats])
      BY <2>1, <3>1, <3>2, ChangedIsOK
    <3>5. /\ \A day \in EndDays : FieldsOK([form[m].fields EXCEPT !.ends = TRUE, !.ends_on = day])
          /\ FieldsOK([form[m].fields EXCEPT !.ends = FALSE])
      BY Zenon, <2>1, <3>3, ChangedIsOK
    <3> QED
      BY <1>6, <3>4, <3>5 DEF SaveChanged, Rules
  <2> QED
    BY <2>1, <2>2, UpdateStep
<1>7. ASSUME NEW t \in Removable, RemoveFromSchedule(t) PROVE ScheduleInv'
  <2>1. t \in Int
    BY <1>1, OccurrencesAre DEF Removable, EventOK
  <2>2. /\ t <= MaxTime /\ UNCHANGED <<now, form>>
        /\ \/ event' = [event EXCEPT !.start = LaterStart(t)]
           \/ t >= now /\ event' = [event EXCEPT !.exclusions = @ \cup {t}]
           \/ UNCHANGED event
    BY <1>7 DEF RemoveFromSchedule, RemoveFromScheduleTo, LaterStart
  <2>3. EventOK(event')
    <3>1. t >= now => t \in 0..MaxTime
      BY <1>1, <2>1, <2>2
    <3> QED
      BY <1>1, <2>1, <2>2, <3>1, LaterStartIsInt, MovedIsOK, ExcludedIsOK
  <2> QED
    BY <1>1, <2>2, <2>3 DEF ScheduleInv
<1> QED
  BY <1>2, <1>3, <1>4, <1>5, <1>6, <1>7 DEF Next

\* Whatever is edited and removed, the event stays legal (models/event.rb).
THEOREM Invariant == Spec => []ScheduleInv
BY InitInvariant, ScheduleStep, PTL DEF Spec

\* Every variable keeps its type, for any dates, zones and weekdays: the mask
\* stays within seven bits.
THEOREM TypeCorrect == Spec => []TypeOK
<1>1. ScheduleInv => TypeOK
  BY MaskIsByte DEF ScheduleInv, EventOK, FieldsOK, Rules, TypeOK
<1> QED
  BY <1>1, Invariant, PTL

(***************************************************************************)
(* The event's page and the index.                                         *)
(***************************************************************************)
\* Up to where the page looks for the next occurrence.
PageEnd == IF Repeating_and_ends(event) THEN event.ends_on * Day ELSE now + Final * Day

\* What the event's page looks through, and that it finds the first.
LEMMA PageFinds ==
    ASSUME ScheduleInv
    PROVE  /\ PageEnd \in Int
           /\ \A t : t \in Occurrences(event, now, PageEnd) <=>
                       t \in Int /\ now <= t /\ t <= PageEnd /\ Occurs(event, t)
           /\ IF /\ Occurrences(event, now, PageEnd) # {}
                 /\ event.repeats = "never" \/ now + Soon * Day < PageEnd
              THEN /\ NextOccurrence(event, now) \in Occurrences(event, now, PageEnd)
                   /\ \A t \in Occurrences(event, now, PageEnd) : NextOccurrence(event, now) <= t
              ELSE NextOccurrence(event, now) = NULL
<1> DEFINE found == Occurrences(event, now, PageEnd)
<1>1. now \in Int /\ EventOK(event)
  BY DEF ScheduleInv
<1>2. PageEnd \in Int
  BY <1>1, EventScheduleAssumption DEF PageEnd, EventOK, EventScheduleAssumption
<1>3. \A t : t \in found <=> t \in Int /\ now <= t /\ t <= PageEnd /\ Occurs(event, t)
  BY <1>1, <1>2, OccurrencesAre
<1>4. NextOccurrence(event, now) =
        IF found # {} /\ (event.repeats = "never" \/ now + Soon * Day < PageEnd)
        THEN Min(found) ELSE NULL
  BY DEF NextOccurrence, PageEnd
<1> HIDE DEF found
<1>5. found # {} => Min(found) \in found /\ \A t \in found : Min(found) <= t
  <2>1. found \subseteq Int /\ \A t \in found : now <= t
    BY <1>3
  <2> QED
    BY <1>1, <2>1, LeastOf
<1> QED
  BY <1>2, <1>3, <1>4, <1>5 DEF found

\* What the index lists from now on.
LEMMA IndexLists ==
    ASSUME ScheduleInv
    PROVE  \A t : t \in UpcomingEvents(event, now) /\ t >= now <=>
                    /\ t \in Int /\ now <= t /\ Occurs(event, t)
                    /\ t <= Final_datetime_for_collection(event, now)
<1> DEFINE to == Final_datetime_for_collection(event, now)
<1>1. /\ now \in Int /\ event.start \in Int /\ event.ends_on \in Nat /\ event.repeats \in Rules
      /\ event.ends \in BOOLEAN
      /\ Day \in Nat \ {0} /\ Past \in Nat /\ Duration \in Nat
  BY EventScheduleAssumption DEF ScheduleInv, EventOK, EventScheduleAssumption
<1>2. \A t : t \in NextOccurrences(event, now) <=>
               t \in Int /\ Occurs(event, t) /\ now - Past <= t /\ t <= to
  BY NextAre
<1>3. ASSUME NEW t \in Int, now <= t, Occurs(event, t), t <= to
      PROVE  FutureEvent(event, now) /\ t + Duration >= now /\ now - Past <= t
  <2>1. CASE event.repeats = "never"
    BY <1>1, <1>3, <2>1 DEF Occurs, FutureEvent
  <2>2. CASE event.repeats # "never" /\ ~ event.ends
    BY <1>1, <1>3, <2>2 DEF FutureEvent
  <2>3. CASE event.repeats # "never" /\ event.ends
    <3>1. t <= event.ends_on * Day /\ event.ends_on * Day \in Int
      BY <1>1, <1>3, <2>3 DEF Final_datetime_for_collection, Repeating_and_ends
    <3>2. event.ends_on * Day > now - Day
      BY <1>1, <1>3, <3>1
    <3> QED
      BY <1>1, <1>3, <2>3, <3>2 DEF FutureEvent
  <2> QED
    BY <2>1, <2>2, <2>3
<1> HIDE DEF to
<1>4. \A t : t \in UpcomingEvents(event, now) <=>
               FutureEvent(event, now) /\ t \in NextOccurrences(event, now) /\ t + Duration >= now
  BY DEF UpcomingEvents
<1> QED
  BY <1>1, <1>2, <1>3, <1>4 DEF to

\* Of any event, at any time: the page's next occurrence, if it is within the
\* index's window, is the first one the index lists from now on, and where the
\* page has none but the index lists some, the series is one that ends.
THEOREM PageAndIndexAgree == Spec => []PageAgreesWithIndex
<1>1. ASSUME ScheduleInv PROVE PageAgreesWithIndex
  <2> DEFINE next == NextOccurrence(event, now)
             listed == {t \in UpcomingEvents(event, now) : t >= now}
             to == Final_datetime_for_collection(event, now)
             found == Occurrences(event, now, PageEnd)
  <2>1. \A t : t \in listed <=> t \in Int /\ now <= t /\ Occurs(event, t) /\ t <= to
    BY <1>1, IndexLists
  <2>2. /\ PageEnd \in Int
        /\ \A t : t \in found <=> t \in Int /\ now <= t /\ t <= PageEnd /\ Occurs(event, t)
        /\ IF found # {} /\ (event.repeats = "never" \/ now + Soon * Day < PageEnd)
           THEN next \in found /\ \A t \in found : next <= t
           ELSE next = NULL
    BY <1>1, PageFinds
  <2>3. IF Repeating_and_ends(event) THEN to = PageEnd
        ELSE to = now + Window * Day /\ PageEnd = now + Final * Day
    BY DEF PageEnd, Final_datetime_for_collection
  <2>4. /\ now \in Int /\ Window * Day \in Int /\ Final * Day \in Int /\ Soon * Day \in Int
        /\ Window * Day <= Final * Day /\ Soon * Day < Final * Day
    <3>1. /\ now \in Int /\ Day \in Nat \ {0} /\ {Window, Final, Soon} \subseteq Nat
          /\ Soon + 1 <= Final /\ Window <= Final
      BY <1>1, EventScheduleAssumption DEF ScheduleInv, EventScheduleAssumption
    <3>2. Window * Day <= Final * Day /\ (Soon + 1) * Day <= Final * Day
          /\ (Soon + 1) * Day = Soon * Day + Day
      BY <3>1
    <3> QED
      BY <3>1, <3>2
  <2>5. \A t \in listed : t \in found
    BY <2>1, <2>2, <2>3, <2>4
  <2> HIDE DEF next, listed, to, found
  <2>6. ASSUME next # NULL, next <= now + Window * Day PROVE listed # {} /\ next = Min(listed)
    <3>1. next \in found /\ \A t \in found : next <= t
      BY <2>2, <2>6
    <3>2. next \in listed
      BY <2>1, <2>2, <2>3, <2>6, <3>1
    <3>3. listed \subseteq Int /\ \A t \in listed : now <= t
      BY <2>1
    <3>4. Min(listed) \in listed /\ \A t \in listed : Min(listed) <= t
      BY <2>4, <3>2, <3>3, LeastOf
    <3>5. next <= Min(listed) /\ Min(listed) <= next /\ next \in Int /\ Min(listed) \in Int
      BY <2>5, <3>1, <3>2, <3>3, <3>4
    <3> QED
      BY <3>2, <3>5
  <2>7. ASSUME next = NULL, listed # {} PROVE Repeating_and_ends(event)
    <3>1. found # {}
      BY <2>5, <2>7
    <3>2. NULL \notin Int
      BY EventScheduleAssumption DEF EventScheduleAssumption
    <3>3. ~ (event.repeats = "never" \/ now + Soon * Day < PageEnd)
      BY <2>2, <2>7, <3>1, <3>2
    <3> QED
      BY <2>3, <2>4, <3>3
  <2> QED
    BY <2>6, <2>7 DEF PageAgreesWithIndex, next, listed
<1> QED
  BY <1>1, Invariant, PTL

(***************************************************************************)
(* Removing an occurrence.                                                 *)
(***************************************************************************)
\* A weekly event that is moved to a later occurrence, or to a later day before
\* the next one, keeps the occurrences after it.
LEMMA MovedKeepsLater ==
    ASSUME EventOK(event), event.repeats = "weekly", NEW t \in Int, Occurs(event, t),
           NEW later \in Int, t < later, later % Day = event.start % Day,
           \A x \in Int : Occurs(event, x) /\ t < x => later <= x,
           EventOK(event'), event' = [event EXCEPT !.start = later]
    PROVE  ~ Occurs(event', t) /\ \A x \in Int : t < x => (Occurs(event', x) <=> Occurs(event, x))
<1>1. /\ event'.start = later /\ event'.repeats = "weekly" /\ event'.mask = event.mask
      /\ event'.exclusions = event.exclusions /\ event'.every = 1 /\ event.every = 1
      /\ event.start \in Int /\ event.start <= t
  BY DEF EventOK, Occurs
<1>2. \A x \in Int : (Week(x) - Week(event.start)) % 1 = 0 /\ (Week(x) - Week(later)) % 1 = 0
  <2>1. \A x \in Int : Week(x) \in Int
    BY EventScheduleAssumption, DayAndTime DEF EventScheduleAssumption, Week
  <2> QED
    BY <1>1, <2>1
<1>3. \A x \in Int :
        /\ Occurs(event, x) <=> /\ x >= event.start /\ x \notin event.exclusions
                                /\ x % Day = event.start % Day /\ Weekday(x) \in Decode(event.mask)
        /\ Occurs(event', x) <=> /\ x >= later /\ x \notin event.exclusions
                                 /\ x % Day = event.start % Day /\ Weekday(x) \in Decode(event.mask)
  BY <1>1, <1>2 DEF Occurs
<1> QED
  BY <1>1, <1>3

\* An event without t has its other occurrences.
LEMMA ExcludedKeepsOthers ==
    ASSUME EventOK(event), NEW t, event' = [event EXCEPT !.exclusions = @ \cup {t}]
    PROVE  ~ Occurs(event', t) /\ \A x \in Int : x # t => (Occurs(event', x) <=> Occurs(event, x))
<1>1. /\ event'.start = event.start /\ event'.repeats = event.repeats /\ event'.mask = event.mask
      /\ event'.every = event.every /\ event'.exclusions = event.exclusions \cup {t}
  BY DEF EventOK
<1> QED
  BY <1>1 DEF Occurs

\* The start after the removal of the next occurrence t of a series that had
\* none in the last 300 minutes: the first occurrence after t, or the next day
\* when the index lists t alone or not even t.
LEMMA LaterStartIsNext ==
    ASSUME ScheduleInv, event.repeats = "weekly", NEW t \in Int, t = NextOccurrence(event, now),
           Occurrences(event, now - Past, now - 1) = {}
    PROVE  /\ t < LaterStart(t) /\ LaterStart(t) % Day = event.start % Day /\ Occurs(event, t)
           /\ \A x \in Int : Occurs(event, x) /\ t < x => LaterStart(t) <= x
<1> DEFINE next == NextOccurrences(event, now)
           to == Final_datetime_for_collection(event, now)
<1>1. /\ now \in Int /\ EventOK(event) /\ Past \in Nat /\ Day \in Nat \ {0} /\ NULL \notin Int
      /\ now - Past \in Int /\ now - 1 \in Int
  BY EventScheduleAssumption DEF ScheduleInv, EventScheduleAssumption
<1>2. /\ Occurs(event, t) /\ now <= t /\ t <= PageEnd
      /\ \A x \in Int : Occurs(event, x) /\ now <= x /\ x <= PageEnd => t <= x
  BY <1>1, PageFinds
<1>3. \A x \in Int : Occurs(event, x) => x % Day = event.start % Day
  BY DEF Occurs
<1>4. \A x \in Int : Occurs(event, x) /\ now - Past <= x => now <= x
  <2>1. \A x : x \in Occurrences(event, now - Past, now - 1) <=>
                 x \in Int /\ now - Past <= x /\ x <= now - 1 /\ Occurs(event, x)
    BY <1>1, OccurrencesAre
  <2> QED
    BY <1>1, <2>1
<1>5. /\ IsFiniteSet(next) /\ next \subseteq Int
      /\ \A x : x \in next <=> x \in Int /\ Occurs(event, x) /\ now - Past <= x /\ x <= to
  BY NextAre
<1>6. to \in Int /\ PageEnd \in Int /\ to <= PageEnd
  <2>1. to \in Int /\ PageEnd \in Int
    BY RangeBounds, PageFinds
  <2>2. Window * Day <= Final * Day /\ Window * Day \in Int /\ Final * Day \in Int
    <3>1. Window \in Nat /\ Final \in Nat /\ Window <= Final
      BY EventScheduleAssumption DEF EventScheduleAssumption
    <3> QED
      BY <1>1, <3>1
  <2> QED
    BY <1>1, <2>1, <2>2 DEF PageEnd, Final_datetime_for_collection
<1> HIDE DEF next, to
<1>7. \A x \in next : t <= x
  BY <1>2, <1>4, <1>5, <1>6
<1>8. LaterStart(t) = IF Cardinality(next) > 1 THEN Min(next \ {Min(next)}) ELSE t + Day
  BY DEF LaterStart, next
<1>9. CASE Cardinality(next) > 1
  <2> DEFINE first == Min(next)
             second == Min(next \ {first})
  <2>1. next # {}
    BY <1>9, FS_EmptySet
  <2>2. /\ first \in next /\ \A x \in next : first <= x
        /\ second \in next /\ first < second /\ \A x \in next : x = first \/ second <= x
    BY <1>5, <1>7, <1>9, <2>1, FirstTwo
  <2> HIDE DEF first, second
  <2>3. t \in next
    BY <1>1, <1>2, <1>5, <1>6, <1>7, <2>2
  <2>4. t = first
    BY <1>5, <1>7, <2>2, <2>3
  <2>5. second \in Int /\ Occurs(event, second) /\ second <= to /\ t < second
    BY <1>5, <2>2, <2>4
  <2>6. \A x \in Int : Occurs(event, x) /\ t < x => second <= x
    <3> SUFFICES ASSUME NEW x \in Int, Occurs(event, x), t < x, x < second PROVE FALSE
      BY <2>5
    <3>1. x \in next
      BY <1>1, <1>2, <1>5, <1>6, <2>5
    <3> QED
      BY <2>2, <2>4, <2>5, <3>1
  <2>7. LaterStart(t) = second
    BY <1>8, <1>9 DEF first, second
  <2> QED
    BY <1>2, <1>3, <2>5, <2>6, <2>7
<1>10. CASE ~ Cardinality(next) > 1
  <2>1. LaterStart(t) = t + Day
    BY <1>8, <1>10
  <2>2. (t + Day) % Day = event.start % Day
    BY <1>1, <1>2, <1>3, NextDay
  <2>3. \A x \in Int : Occurs(event, x) /\ t < x => t + Day <= x
    BY <1>1, <1>2, <1>3, WholeDays
  <2> QED
    BY <1>1, <1>2, <2>1, <2>2, <2>3
<1> QED
  BY <1>9, <1>10

\* Removing an occurrence to come of a weekly event takes that one only.
LEMMA RemovalStep ==
    ASSUME ScheduleInv, ScheduleInv', NEW t \in Removable, RemoveFromSchedule(t), t >= now,
           event.repeats = "weekly", Occurrences(event, now - Past, now - 1) = {}
    PROVE  ~ Occurs(event', t) /\ Later(event', t) = Later(event, t)
<1>1. /\ now \in Int /\ EventOK(event) /\ EventOK(event') /\ Day \in Nat /\ MaxTime \in Int
  BY EventScheduleAssumption DEF ScheduleInv, EventScheduleAssumption
<1>2. t \in Int /\ Occurs(event, t)
  BY <1>1, OccurrencesAre DEF Removable, EventOK
<1>3. ~ Occurs(event', t) /\ \A x \in Int : t < x => (Occurs(event', x) <=> Occurs(event, x))
  <2>1. CASE t = NextOccurrence(event, now) /\ event' = [event EXCEPT !.start = LaterStart(t)]
    <3>1. LaterStart(t) \in Int
      BY <1>2, LaterStartIsInt
    <3>2. /\ t < LaterStart(t) /\ LaterStart(t) % Day = event.start % Day
          /\ \A x \in Int : Occurs(event, x) /\ t < x => LaterStart(t) <= x
      BY <1>2, <2>1, LaterStartIsNext
    <3> HIDE DEF LaterStart
    <3> QED
      BY <1>1, <1>2, <2>1, <3>1, <3>2, MovedKeepsLater
  <2>2. CASE event' = [event EXCEPT !.exclusions = @ \cup {t}]
    <3>1. \A x \in Int : t < x => x # t
      BY <1>2
    <3> QED
      BY <1>1, <2>2, <3>1, ExcludedKeepsOthers
  <2> QED
    BY <1>1, <1>2, <2>1, <2>2 DEF RemoveFromSchedule, RemoveFromScheduleTo, LaterStart
<1>4. t + 1 \in Int /\ t + 28 * Day \in Int /\ \A x \in Int : t + 1 <= x => t < x
  BY <1>1, <1>2
<1>5. \A x : x \in Occurrences(event', t + 1, t + 28 * Day) <=>
               x \in Occurrences(event, t + 1, t + 28 * Day)
  <2>1. \A x : x \in Occurrences(event, t + 1, t + 28 * Day) <=>
                 x \in Int /\ t + 1 <= x /\ x <= t + 28 * Day /\ Occurs(event, x)
    BY <1>1, <1>4, OccurrencesAre
  <2>2. \A x : x \in Occurrences(event', t + 1, t + 28 * Day) <=>
                 x \in Int /\ t + 1 <= x /\ x <= t + 28 * Day /\ Occurs(event', x)
    BY <1>1, <1>4, OccurrencesAre
  <2> QED
    BY <1>3, <1>4, <2>1, <2>2
<1> QED
  BY <1>3, <1>5 DEF Later

\* Removing an occurrence of a weekly series, none of which has begun within
\* the last 300 minutes, removes it and no later one, whether it is the next
\* one, which moves the start, or a later one.
THEOREM RemovalSkipsOne == Spec => WeeklyRemovalSkipsOne
<1> DEFINE SkipsOne ==
             \A t \in Removable :
                /\ RemoveFromSchedule(t) /\ t >= now
                /\ event.repeats = "weekly"
                /\ Occurrences(event, now - Past, now - 1) = {}
                => ~Occurs(event', t) /\ Later(event', t) = Later(event, t)
<1>1. ScheduleInv /\ [Next]_vars => [SkipsOne]_vars
  <2>1. ScheduleInv /\ ScheduleInv' => SkipsOne
    BY RemovalStep
  <2> HIDE DEF SkipsOne
  <2> QED
    BY <2>1, ScheduleStep
<1>2. Spec => [][SkipsOne]_vars
  BY <1>1, Invariant, PTL DEF Spec
<1> QED
  BY <1>2 DEF WeeklyRemovalSkipsOne

(***************************************************************************)
(* Saving an edit page that was not changed.                               *)
(***************************************************************************)
\* Where the event starts on the same date as in UTC, saving the edit page of
\* the event as it is changes nothing, for any zone.
SameDateSaveChangesNothing ==
    [][\A m \in Members :
          /\ SaveUnchanged(m) /\ form[m] = EditPage(event, form[m].offset)
          /\ (event.start + form[m].offset) \div Day = event.start \div Day
          => event' = event]_vars

\* Where the date is the same as in UTC, so are the weekdays.
LEMMA SameDateDays ==
    ASSUME NEW days \in SUBSET Weekdays, NEW start \in Int, NEW offset \in Int,
           (start + offset) \div Day = start \div Day
    PROVE  LocalDays(days, start, offset) = days
<1>1. start \div Day \in Int
  BY EventScheduleAssumption, DayAndTime DEF EventScheduleAssumption
<1>2. LocalDays(days, start, offset) = {(d + 0) % 7 : d \in days}
  BY <1>1 DEF LocalDays
<1>3. \A d \in days : (d + 0) % 7 = d
  BY DEF Weekdays
<1> QED
  BY <1>2, <1>3

\* A member whose date is the one in UTC at the event's start changes nothing by
\* saving the edit page unchanged (events_form_controller.js, models/event.rb).
THEOREM SameDateSaves == Spec => SameDateSaveChangesNothing
<1> DEFINE Unchanged ==
             \A m \in Members :
                /\ SaveUnchanged(m) /\ form[m] = EditPage(event, form[m].offset)
                /\ (event.start + form[m].offset) \div Day = event.start \div Day
                => event' = event
<1>1. ASSUME ScheduleInv, NEW m \in Members, SaveUnchanged(m),
             form[m] = EditPage(event, form[m].offset),
             (event.start + form[m].offset) \div Day = event.start \div Day
      PROVE  event' = event
  <2> DEFINE offset == form[m].offset
             fields == form[m].fields
  <2>1. EventOK(event) /\ offset \in Int
    BY <1>1, EventScheduleAssumption DEF ScheduleInv, SaveUnchanged, EventScheduleAssumption
  <2>2. PICK days \in SUBSET Weekdays : event.mask = Encode(days)
    BY <2>1 DEF EventOK
  <2>3. Decode(event.mask) = days /\ event.start \in Int
    BY <2>1, <2>2, MaskKeepsDays DEF EventOK
  <2>4. LocalDays(Decode(event.mask), event.start, offset) = days
    BY <1>1, <2>1, <2>3, SameDateDays
  <2>5. fields = [start |-> event.start + offset, repeats |-> event.repeats, days |-> days,
                  ends |-> event.ends, ends_on |-> event.ends_on]
    BY <1>1, <2>4 DEF EditPage
  <2> HIDE DEF fields, offset
  <2>6. /\ fields.start = event.start + offset /\ fields.repeats = event.repeats
        /\ fields.days = days /\ fields.ends = event.ends /\ fields.ends_on = event.ends_on
    BY <2>5
  <2>7. event.start + offset - offset = event.start
    BY <2>1, <2>3
  <2>8. Stored(fields, offset, event.exclusions) = event
    <3> DEFINE start == fields.start - offset
               every == IF fields.repeats = "biweekly" THEN 2 ELSE 1
               mask == Encode(fields.days)
    <3>1. start = event.start /\ every = event.every /\ mask = event.mask
      BY <2>1, <2>2, <2>6, <2>7 DEF EventOK
    <3>2. Stored(fields, offset, event.exclusions) =
            [start |-> start, repeats |-> fields.repeats, every |-> every, mask |-> mask,
             ends |-> fields.ends, ends_on |-> fields.ends_on, exclusions |-> event.exclusions]
      BY DEF Stored
    <3> HIDE DEF start, every, mask
    <3> QED
      BY <2>1, <2>6, <3>1, <3>2 DEF EventOK
  <2>9. event' = IF Valid(fields) THEN Stored(fields, offset, event.exclusions) ELSE event
    BY <1>1 DEF SaveUnchanged, Update, fields, offset
  <2> QED
    BY <2>8, <2>9
<1>2. ScheduleInv /\ [Next]_vars => [Unchanged]_vars
  BY <1>1
<1>3. Spec => [][Unchanged]_vars
  BY <1>2, Invariant, PTL DEF Spec
<1> QED
  BY <1>3 DEF SameDateSaveChangesNothing
=============================================================================
