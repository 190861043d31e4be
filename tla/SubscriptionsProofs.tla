-------------------------- MODULE SubscriptionsProofs --------------------------
(***************************************************************************)
(* Proofs about Subscriptions, for any set of requests, users and plans,   *)
(* any number of threads and any number of faults: nobody loses a          *)
(* membership, two open subscriptions and lost titles need overlapping     *)
(* requests, periods join, Membership is implemented; a membership Stripe  *)
(* pays for is paid before it is granted, a payment source stays with the  *)
(* user whose payment created it, and Stripe bills for the plan that is    *)
(* open.                                                                   *)
(***************************************************************************)
EXTENDS Subscriptions, TLAPS

\* Statements a request has still to reach when its subscription is not in.
BeforeInsert == {"idle", "charge", "replan", "stamp", "load", "insert"}
AfterInsert == {"titles", "save", "mail", "done"}

\* A request has its parameters once it was accepted, and what it looked up
\* before the statement that uses it.
MemoryInv ==
    \A r \in Requests :
        /\ pc[r] # "idle" => job[r] \in Job
        /\ pc[r] = "idle" => seen[r] = {} /\ prior[r] = {}
        /\ pc[r] \in {"load", "insert", "titles", "save"} => at[r] \in Time
        /\ pc[r] \in {"replan", "insert", "titles", "save"} => source[r] \in Requests
        /\ pc[r] # "idle" /\ pc[r] # "failed" /\ job[r].op = "update" =>
             source[r] \in Requests /\ paying[r] \in Requests

\* Which rows exist: a request's own from its insert on, and those it loaded.
RowInv ==
    /\ \A r \in Requests :
         /\ pc[r] \in BeforeInsert => subs[r] = NULL
         /\ pc[r] \in AfterInsert => subs[r] # NULL
         /\ subs[r] # NULL => subs[r].user = job[r].user
    /\ \A r \in Requests : \A s \in seen[r] \cup prior[r] : subs[s] # NULL
    /\ \A r \in Requests : \A s \in seen[r] : subs[s].user = job[r].user

\* The last subscription inserted for a user is open, and no request that is
\* about to end subscriptions has loaded it.
LatestInv ==
    /\ \A u \in Users : latest[u] # NULL =>
         latest[u] \in OpenSubs(u)
    /\ \A s \in Requests : subs[s] # NULL => latest[subs[s].user] # NULL
    /\ \A r \in Requests : pc[r] \in {"titles", "save"} =>
         latest[job[r].user] \notin seen[r]

\* What was complete when a request loaded its user is either ended already
\* or among what the request is going to end.
PriorInv ==
    \A r \in Requests : \A q \in prior[r] :
        job[q].user = job[r].user => q \in seen[r] \/ subs[q].ended # NULL

\* A request that has saved its user ended all it had loaded.
SeenEndedInv ==
    \A r \in Saved : \A s \in seen[r] : subs[s].ended # NULL

IInv == TypeOK /\ MemoryInv /\ RowInv /\ LatestInv /\ PriorInv /\ SeenEndedInv

-----------------------------------------------------------------------------
\* The sets the code reads are sets of requests.
LEMMA LoadedSets ==
    /\ \A u : OpenSubs(u) \in SUBSET Requests
    /\ Saved \in SUBSET Requests
BY DEF OpenSubs, Saved

\* Ending a row in memory changes its ended_at only.
LEMMA EndingARow ==
    ASSUME NEW row \in SubRow, NEW t \in Time
    PROVE  LET e == [row EXCEPT !.ended = t] IN
             /\ e \in SubRow /\ e # NULL
             /\ e.user = row.user /\ e.ended = t /\ e.ended # NULL
BY ConstantsAssumption DEF SubRow, Time

\* What user.save! does to the subscriptions: it ends the loaded ones.
LEMMA SaveEffect ==
    ASSUME IInv, NEW r \in Requests, SaveUser(r)
    PROVE  /\ subs' \in [Requests -> SubRow \cup {NULL}]
           /\ \A s \in Requests :
                /\ s \in seen[r] => /\ subs'[s] # NULL
                                     /\ subs'[s].user = subs[s].user
                                     /\ subs'[s].ended # NULL
                /\ s \notin seen[r] => subs'[s] = subs[s]
           /\ pc[r] = "save"
           /\ \E label \in {"mail", "done"} : pc' = [pc EXCEPT ![r] = label]
           /\ UNCHANGED <<job, at, seen, paying, source, latest, prior>>
<1>1. at[r] \in Time
  BY DEF IInv, MemoryInv, SaveUser, SaveUserEnding
<1>2. \A s \in seen[r] : s \in Requests /\ subs[s] \in SubRow
  BY DEF IInv, TypeOK, RowInv
<1>3. subs' = [s \in Requests |->
                 IF s \in seen[r] THEN [subs[s] EXCEPT !.ended = at[r]] ELSE subs[s]]
  BY DEF SaveUser, SaveUserEnding
<1>4. \A s \in seen[r] : /\ subs'[s] \in SubRow /\ subs'[s] # NULL
                          /\ subs'[s].user = subs[s].user
                          /\ subs'[s].ended # NULL
  <2> TAKE s \in seen[r]
  <2>1. subs'[s] = [subs[s] EXCEPT !.ended = at[r]]
    BY <1>2, <1>3
  <2> QED
    BY <1>1, <1>2, <2>1, EndingARow
<1>5. \A s \in Requests : s \notin seen[r] => subs'[s] = subs[s]
  BY <1>3
<1>6. \A s \in Requests : subs'[s] \in SubRow \cup {NULL}
  BY <1>4, <1>5 DEF IInv, TypeOK
<1>7. /\ pc[r] = "save"
      /\ \E label \in {"mail", "done"} : pc' = [pc EXCEPT ![r] = label]
      /\ UNCHANGED <<job, at, seen, paying, source, latest, prior>>
  BY DEF SaveUser, SaveUserEnding, Goto, history
<1> QED
  BY <1>3, <1>4, <1>5, <1>6, <1>7

\* Every step keeps the types.
LEMMA TypeStep == IInv /\ [Next]_vars => TypeOK'
<1> SUFFICES ASSUME IInv, [Next]_vars PROVE TypeOK'
  OBVIOUS
<1> USE ConstantsAssumption DEF IInv, TypeOK, MemoryInv, Ended, SubRow, Job
<1>1. CASE UNCHANGED vars
  BY <1>1 DEF vars, memory, tables, history, Time
<1>2. CASE Tick
  BY <1>2 DEF Tick, memory, tables, history, Time
<1>3. ASSUME NEW r \in Requests, Step(r) PROVE TypeOK'
  <2>1. CASE StartCreate(r)
    BY <2>1 DEF StartCreate, StartCreateWith, Recipient, Goto, memory, tables, history, Accept, Time
  <2>2. CASE Charge(r)
    BY <2>2 DEF Charge, Goto, memory, tables, history, Time
  <2>3. CASE StartUpdate(r)
    <3>1. PICK u \in Users, p \in Plans :
            /\ job' = [job EXCEPT ![r] = [op |-> "update", user |-> u, payer |-> u,
                                          plan |-> p, via |-> "stripe"]]
            /\ seen' = [seen EXCEPT ![r] = OpenSubs(u)]
            /\ prior' = [prior EXCEPT ![r] = Saved]
      BY <2>3 DEF StartUpdate, StartUpdateWith
    <3>2. job' \in [Requests -> Job \cup {NULL}]
      BY <3>1
    <3>3. seen' \in [Requests -> SUBSET Requests] /\ prior' \in [Requests -> SUBSET Requests]
      BY <3>1, LoadedSets
    <3>4. /\ \E label \in {"replan", "failed"} : pc' = [pc EXCEPT ![r] = label]
          /\ \E s \in Requests \cup {paying[r]} : paying' = [paying EXCEPT ![r] = s]
          /\ \E c \in Requests \cup {source[r]} : source' = [source EXCEPT ![r] = c]
          /\ UNCHANGED <<now, faults, at, tags, subs, owner, titles, billed, latest>>
      BY <2>3 DEF StartUpdate, StartUpdateWith, SourcesOf, Goto, tables, OpenSubs
    <3> QED
      BY <3>2, <3>3, <3>4
  <2>4. CASE Replan(r)
    <3>1. job[r].plan \in Plans
      BY <2>4 DEF Replan, ReplanTo
    <3>2. /\ billed' = billed \/ billed' = [billed EXCEPT ![source[r]] = job[r].plan]
          /\ \E label \in {"stamp", "failed"} : pc' = [pc EXCEPT ![r] = label]
          /\ UNCHANGED <<now, faults, job, at, seen, paying, source, tags, subs, owner,
                         titles, latest, prior>>
      BY <2>4 DEF Replan, ReplanTo, Goto, tables, history
    <3> QED
      BY <3>1, <3>2
  <2>5. CASE Stamp(r)
    BY <2>5 DEF Stamp, StampAs, Goto, memory, tables, history, Time
  <2>6. CASE LoadSubscriptions(r)
    BY <2>6, LoadedSets DEF LoadSubscriptions, Goto, tables, Time
  <2>7. CASE InsertSubscription(r)
    BY <2>7 DEF InsertSubscription, Goto, memory, tables, history, Time
  <2>8. CASE LoadTitles(r)
    BY <2>8 DEF LoadTitles, LoadTitlesOnto, Goto, memory, tables, history, Time
  <2>9. CASE SaveUser(r)
    <3> HIDE DEF IInv
    <3>1. /\ subs' \in [Requests -> SubRow \cup {NULL}]
          /\ \E label \in {"mail", "done"} : pc' = [pc EXCEPT ![r] = label]
          /\ UNCHANGED <<job, at, seen, paying, source, latest, prior>>
      BY <2>9, SaveEffect
    <3>2. /\ owner' = owner \/ owner' = [owner EXCEPT ![source[r]] = paying[r]]
          /\ titles' = [titles EXCEPT ![job[r].user] = tags[r]]
          /\ UNCHANGED <<now, faults, tags, billed>>
      BY <2>9 DEF SaveUser, SaveUserEnding
    <3>3. TypeOK
      BY DEF IInv
    <3>4. owner' \in [Requests -> Requests \cup {NULL}]
      BY <3>2, <3>3
    <3>5. titles' \in [Users -> SUBSET Plans]
      BY <3>2, <3>3
    <3>6. pc' \in [Requests -> {"idle", "charge", "replan", "stamp", "load", "insert",
                               "titles", "save", "mail"} \cup Ended]
      BY <3>1, <3>3
    <3> QED
      BY <3>1, <3>2, <3>3, <3>4, <3>5, <3>6
  <2>10. CASE SendMail(r)
    BY <2>10 DEF SendMail, Goto, memory, tables, history, Time
  <2>11. CASE Raise(r)
    BY <2>11 DEF Raise, Goto, memory, tables, history, InFlight, Time
  <2>12. CASE LoseAnswer(r)
    BY <2>12 DEF LoseAnswer, Goto, memory, tables, history, Time
  <2> QED
    BY <1>3, <2>1, <2>2, <2>3, <2>4, <2>5, <2>6, <2>7, <2>8, <2>9, <2>10, <2>11, <2>12 DEF Step
<1> QED
  BY <1>1, <1>2, <1>3 DEF Next

\* Every step keeps what requests remember.
LEMMA MemoryStep == IInv /\ [Next]_vars => MemoryInv'
<1> SUFFICES ASSUME IInv, [Next]_vars PROVE MemoryInv'
  OBVIOUS
<1> USE ConstantsAssumption DEF IInv, TypeOK, MemoryInv, Job
<1>1. CASE UNCHANGED vars
  BY <1>1 DEF vars, memory, tables, history, Time
<1>2. CASE Tick
  BY <1>2 DEF Tick, memory, tables, history, Time
<1>3. ASSUME NEW r \in Requests, Step(r) PROVE MemoryInv'
  <2>1. CASE StartCreate(r)
    BY <2>1 DEF StartCreate, StartCreateWith, Recipient, Goto, memory, tables, history, Accept, Time
  <2>2. CASE Charge(r)
    BY <2>2 DEF Charge, Goto, memory, tables, history, Time
  <2>3. CASE StartUpdate(r)
    BY <2>3 DEF StartUpdate, StartUpdateWith, SourcesOf, Goto, memory, tables, history, Accept, OpenSubs, Time
  <2>4. CASE Replan(r)
    BY <2>4 DEF Replan, ReplanTo, Goto, memory, tables, history, Time
  <2>5. CASE Stamp(r)
    BY <2>5 DEF Stamp, StampAs, Goto, memory, tables, history, Time
  <2>6. CASE LoadSubscriptions(r)
    BY <2>6 DEF LoadSubscriptions, Goto, memory, tables, history, Time
  <2>7. CASE InsertSubscription(r)
    BY <2>7 DEF InsertSubscription, Goto, memory, tables, history, Time
  <2>8. CASE LoadTitles(r)
    BY <2>8 DEF LoadTitles, LoadTitlesOnto, Goto, memory, tables, history, Time
  <2>9. CASE SaveUser(r)
    BY <2>9 DEF SaveUser, SaveUserEnding, Goto, memory, tables, history, Time
  <2>10. CASE SendMail(r)
    BY <2>10 DEF SendMail, Goto, memory, tables, history, Time
  <2>11. CASE Raise(r)
    BY <2>11 DEF Raise, Goto, memory, tables, history, InFlight, Time
  <2>12. CASE LoseAnswer(r)
    BY <2>12 DEF LoseAnswer, Goto, memory, tables, history, Time
  <2> QED
    BY <1>3, <2>1, <2>2, <2>3, <2>4, <2>5, <2>6, <2>7, <2>8, <2>9, <2>10, <2>11, <2>12 DEF Step
<1> QED
  BY <1>1, <1>2, <1>3 DEF Next

\* Every step keeps the correspondence of rows and requests.
LEMMA RowStep == IInv /\ [Next]_vars => RowInv'
<1> SUFFICES ASSUME IInv, [Next]_vars PROVE RowInv'
  OBVIOUS
<1> USE ConstantsAssumption DEF IInv, TypeOK, MemoryInv, RowInv, SubRow, Job
<1>1. CASE UNCHANGED vars
  BY <1>1 DEF vars, memory, tables, history, OpenSubs, Saved, BeforeInsert, AfterInsert
<1>2. CASE Tick
  BY <1>2 DEF Tick, memory, tables, history, OpenSubs, Saved, BeforeInsert, AfterInsert
<1>3. ASSUME NEW r \in Requests, Step(r) PROVE RowInv'
  <2>1. CASE StartCreate(r)
    BY <2>1 DEF StartCreate, StartCreateWith, Recipient, Goto, memory, tables, history, Accept, OpenSubs, Saved, BeforeInsert, AfterInsert
  <2>2. CASE Charge(r)
    BY <2>2 DEF Charge, Goto, memory, tables, history, OpenSubs, Saved, BeforeInsert, AfterInsert
  <2>3. CASE StartUpdate(r)
    BY <2>3 DEF StartUpdate, StartUpdateWith, SourcesOf, Goto, memory, tables, history, Accept, OpenSubs, Saved, BeforeInsert, AfterInsert
  <2>4. CASE Replan(r)
    BY <2>4 DEF Replan, ReplanTo, Goto, memory, tables, history, OpenSubs, Saved, BeforeInsert, AfterInsert
  <2>5. CASE Stamp(r)
    BY <2>5 DEF Stamp, StampAs, Goto, memory, tables, history, OpenSubs, Saved, BeforeInsert, AfterInsert
  <2>6. CASE LoadSubscriptions(r)
    BY <2>6 DEF LoadSubscriptions, Goto, memory, tables, history, OpenSubs, Saved, BeforeInsert, AfterInsert
  <2>7. CASE InsertSubscription(r)
    BY <2>7 DEF InsertSubscription, Goto, memory, tables, history, OpenSubs, Saved, BeforeInsert, AfterInsert
  <2>8. CASE LoadTitles(r)
    BY <2>8 DEF LoadTitles, LoadTitlesOnto, Goto, memory, tables, history, OpenSubs, Saved, BeforeInsert, AfterInsert
  <2>9. CASE SaveUser(r)
    <3> HIDE DEF IInv
    <3>1. /\ \A s \in Requests :
               /\ s \in seen[r] => subs'[s] # NULL /\ subs'[s].user = subs[s].user
               /\ s \notin seen[r] => subs'[s] = subs[s]
          /\ pc[r] = "save"
          /\ \E label \in {"mail", "done"} : pc' = [pc EXCEPT ![r] = label]
          /\ UNCHANGED <<job, seen, prior>>
      BY <2>9, SaveEffect
    <3>2. TypeOK /\ RowInv
      BY DEF IInv
    <3>3. subs[r] # NULL
      BY <2>9, <3>2 DEF SaveUser, SaveUserEnding, AfterInsert
    <3>4. \A s \in Requests : /\ subs'[s] = NULL <=> subs[s] = NULL
                              /\ subs[s] # NULL => subs'[s].user = subs[s].user
      BY <3>1, <3>2
    <3>5. \A q \in Requests : pc'[q] # pc[q] => q = r /\ pc'[q] \in {"mail", "done"}
      BY <3>1, <3>2
    <3> QED
      BY <3>1, <3>2, <3>3, <3>4, <3>5 DEF Saved, BeforeInsert, AfterInsert
  <2>10. CASE SendMail(r)
    BY <2>10 DEF SendMail, Goto, memory, tables, history, OpenSubs, Saved, BeforeInsert, AfterInsert
  <2>11. CASE Raise(r)
    BY <2>11 DEF Raise, Goto, memory, tables, history, InFlight, OpenSubs, Saved, BeforeInsert, AfterInsert
  <2>12. CASE LoseAnswer(r)
    BY <2>12 DEF LoseAnswer, Goto, memory, tables, history, OpenSubs, Saved, BeforeInsert, AfterInsert
  <2> QED
    BY <1>3, <2>1, <2>2, <2>3, <2>4, <2>5, <2>6, <2>7, <2>8, <2>9, <2>10, <2>11, <2>12 DEF Step
<1> QED
  BY <1>1, <1>2, <1>3 DEF Next

\* No step ends or overlooks the last subscription of a user.
LEMMA LatestStep == IInv /\ [Next]_vars => LatestInv'
<1> SUFFICES ASSUME IInv, [Next]_vars PROVE LatestInv'
  OBVIOUS
<1> USE ConstantsAssumption DEF IInv, TypeOK, MemoryInv, RowInv, LatestInv, SubRow, Job
<1>1. CASE UNCHANGED vars
  BY <1>1 DEF vars, memory, tables, history, OpenSubs, BeforeInsert, AfterInsert
<1>2. CASE Tick
  BY <1>2 DEF Tick, memory, tables, history, OpenSubs, BeforeInsert, AfterInsert
<1>3. ASSUME NEW r \in Requests, Step(r) PROVE LatestInv'
  <2>1. CASE StartCreate(r)
    BY <2>1 DEF StartCreate, StartCreateWith, Recipient, Goto, memory, tables, history, Accept, OpenSubs, BeforeInsert, AfterInsert
  <2>2. CASE Charge(r)
    BY <2>2 DEF Charge, Goto, memory, tables, history, OpenSubs, BeforeInsert, AfterInsert
  <2>3. CASE StartUpdate(r)
    BY <2>3 DEF StartUpdate, StartUpdateWith, SourcesOf, Goto, memory, tables, history, Accept, OpenSubs, BeforeInsert, AfterInsert
  <2>4. CASE Replan(r)
    BY <2>4 DEF Replan, ReplanTo, Goto, memory, tables, history, OpenSubs, BeforeInsert, AfterInsert
  <2>5. CASE Stamp(r)
    BY <2>5 DEF Stamp, StampAs, Goto, memory, tables, history, OpenSubs, BeforeInsert, AfterInsert
  <2>6. CASE LoadSubscriptions(r)
    BY <2>6 DEF LoadSubscriptions, Goto, memory, tables, history, OpenSubs, BeforeInsert, AfterInsert
  <2>7. CASE InsertSubscription(r)
    BY <2>7 DEF InsertSubscription, Goto, memory, tables, history, OpenSubs, BeforeInsert, AfterInsert
  <2>8. CASE LoadTitles(r)
    BY <2>8 DEF LoadTitles, LoadTitlesOnto, Goto, memory, tables, history, OpenSubs, BeforeInsert, AfterInsert
  <2>9. CASE SaveUser(r)
    <3> HIDE DEF IInv
    <3>1. /\ \A s \in Requests :
               /\ s \in seen[r] => subs'[s] # NULL /\ subs'[s].user = subs[s].user
               /\ s \notin seen[r] => subs'[s] = subs[s]
          /\ pc[r] = "save"
          /\ \E label \in {"mail", "done"} : pc' = [pc EXCEPT ![r] = label]
          /\ UNCHANGED <<job, seen, latest>>
      BY <2>9, SaveEffect
    <3>2. TypeOK /\ RowInv /\ LatestInv /\ MemoryInv
      BY DEF IInv
    <3>3. ASSUME NEW u \in Users, latest[u] # NULL
          PROVE  latest[u] \in OpenSubs(u)'
      <4>1. latest[u] \in Requests /\ subs[latest[u]] # NULL
            /\ subs[latest[u]].user = u /\ subs[latest[u]].ended = NULL
        BY <3>2, <3>3 DEF OpenSubs
      <4>2. latest[u] \notin seen[r]
        BY <3>1, <3>2, <4>1
      <4> QED
        BY <3>1, <4>1, <4>2 DEF OpenSubs
    <3>4. \A s \in Requests : subs'[s] # NULL => subs[s] # NULL /\ subs'[s].user = subs[s].user
      BY <3>1, <3>2
    <3>5. \A q \in Requests : pc'[q] \in {"titles", "save"} => pc[q] \in {"titles", "save"}
      BY <3>1, <3>2
    <3> QED
      BY <3>1, <3>2, <3>3, <3>4, <3>5
  <2>10. CASE SendMail(r)
    BY <2>10 DEF SendMail, Goto, memory, tables, history, OpenSubs, BeforeInsert, AfterInsert
  <2>11. CASE Raise(r)
    BY <2>11 DEF Raise, Goto, memory, tables, history, InFlight, OpenSubs, BeforeInsert, AfterInsert
  <2>12. CASE LoseAnswer(r)
    BY <2>12 DEF LoseAnswer, Goto, memory, tables, history, OpenSubs, BeforeInsert, AfterInsert
  <2> QED
    BY <1>3, <2>1, <2>2, <2>3, <2>4, <2>5, <2>6, <2>7, <2>8, <2>9, <2>10, <2>11, <2>12 DEF Step
<1> QED
  BY <1>1, <1>2, <1>3 DEF Next

\* No step loses sight of what was complete at loading.
LEMMA PriorStep == IInv /\ [Next]_vars => PriorInv'
<1> SUFFICES ASSUME IInv, [Next]_vars PROVE PriorInv'
  OBVIOUS
<1> USE ConstantsAssumption DEF IInv, TypeOK, MemoryInv, RowInv, PriorInv, SubRow, Job
<1>1. CASE UNCHANGED vars
  BY <1>1 DEF vars, memory, tables, history, OpenSubs, Saved, BeforeInsert, AfterInsert
<1>2. CASE Tick
  BY <1>2 DEF Tick, memory, tables, history, OpenSubs, Saved, BeforeInsert, AfterInsert
<1>3. ASSUME NEW r \in Requests, Step(r) PROVE PriorInv'
  <2>1. CASE StartCreate(r)
    BY <2>1 DEF StartCreate, StartCreateWith, Recipient, Goto, memory, tables, history, Accept, OpenSubs, Saved, BeforeInsert, AfterInsert
  <2>2. CASE Charge(r)
    BY <2>2 DEF Charge, Goto, memory, tables, history, OpenSubs, Saved, BeforeInsert, AfterInsert
  <2>3. CASE StartUpdate(r)
    BY <2>3 DEF StartUpdate, StartUpdateWith, SourcesOf, Goto, memory, tables, history, Accept, OpenSubs, Saved, BeforeInsert, AfterInsert
  <2>4. CASE Replan(r)
    BY <2>4 DEF Replan, ReplanTo, Goto, memory, tables, history, OpenSubs, Saved, BeforeInsert, AfterInsert
  <2>5. CASE Stamp(r)
    BY <2>5 DEF Stamp, StampAs, Goto, memory, tables, history, OpenSubs, Saved, BeforeInsert, AfterInsert
  <2>6. CASE LoadSubscriptions(r)
    BY <2>6 DEF LoadSubscriptions, Goto, memory, tables, history, OpenSubs, Saved, BeforeInsert, AfterInsert
  <2>7. CASE InsertSubscription(r)
    BY <2>7 DEF InsertSubscription, Goto, memory, tables, history, OpenSubs, Saved, BeforeInsert, AfterInsert
  <2>8. CASE LoadTitles(r)
    BY <2>8 DEF LoadTitles, LoadTitlesOnto, Goto, memory, tables, history, OpenSubs, Saved, BeforeInsert, AfterInsert
  <2>9. CASE SaveUser(r)
    BY <2>9, SaveEffect DEF BeforeInsert, AfterInsert
  <2>10. CASE SendMail(r)
    BY <2>10 DEF SendMail, Goto, memory, tables, history, OpenSubs, Saved, BeforeInsert, AfterInsert
  <2>11. CASE Raise(r)
    BY <2>11 DEF Raise, Goto, memory, tables, history, InFlight, OpenSubs, Saved, BeforeInsert, AfterInsert
  <2>12. CASE LoseAnswer(r)
    BY <2>12 DEF LoseAnswer, Goto, memory, tables, history, OpenSubs, Saved, BeforeInsert, AfterInsert
  <2> QED
    BY <1>3, <2>1, <2>2, <2>3, <2>4, <2>5, <2>6, <2>7, <2>8, <2>9, <2>10, <2>11, <2>12 DEF Step
<1> QED
  BY <1>1, <1>2, <1>3 DEF Next

\* Loaded subscriptions are ended by the save and stay so.
LEMMA SeenEndedStep == IInv /\ [Next]_vars => SeenEndedInv'
<1> SUFFICES ASSUME IInv, [Next]_vars PROVE SeenEndedInv'
  OBVIOUS
<1> USE ConstantsAssumption DEF IInv, TypeOK, MemoryInv, RowInv, SeenEndedInv, SubRow, Job
<1>1. CASE UNCHANGED vars
  BY <1>1 DEF vars, memory, tables, history, OpenSubs, Saved, BeforeInsert, AfterInsert
<1>2. CASE Tick
  BY <1>2 DEF Tick, memory, tables, history, OpenSubs, Saved, BeforeInsert, AfterInsert
<1>3. ASSUME NEW r \in Requests, Step(r) PROVE SeenEndedInv'
  <2>1. CASE StartCreate(r)
    BY <2>1 DEF StartCreate, StartCreateWith, Recipient, Goto, memory, tables, history, Accept, OpenSubs, Saved, BeforeInsert, AfterInsert
  <2>2. CASE Charge(r)
    BY <2>2 DEF Charge, Goto, memory, tables, history, OpenSubs, Saved, BeforeInsert, AfterInsert
  <2>3. CASE StartUpdate(r)
    BY <2>3 DEF StartUpdate, StartUpdateWith, SourcesOf, Goto, memory, tables, history, Accept, OpenSubs, Saved, BeforeInsert, AfterInsert
  <2>4. CASE Replan(r)
    BY <2>4 DEF Replan, ReplanTo, Goto, memory, tables, history, OpenSubs, Saved, BeforeInsert, AfterInsert
  <2>5. CASE Stamp(r)
    BY <2>5 DEF Stamp, StampAs, Goto, memory, tables, history, OpenSubs, Saved, BeforeInsert, AfterInsert
  <2>6. CASE LoadSubscriptions(r)
    BY <2>6 DEF LoadSubscriptions, Goto, memory, tables, history, OpenSubs, Saved, BeforeInsert, AfterInsert
  <2>7. CASE InsertSubscription(r)
    BY <2>7 DEF InsertSubscription, Goto, memory, tables, history, OpenSubs, Saved, BeforeInsert, AfterInsert
  <2>8. CASE LoadTitles(r)
    BY <2>8 DEF LoadTitles, LoadTitlesOnto, Goto, memory, tables, history, OpenSubs, Saved, BeforeInsert, AfterInsert
  <2>9. CASE SaveUser(r)
    <3>1. /\ \A s \in seen[r] : subs'[s].ended # NULL
          /\ \A s \in Requests \ seen[r] : subs'[s] = subs[s]
          /\ seen' = seen /\ Saved' \subseteq Saved \cup {r}
      BY <2>9, SaveEffect DEF Saved
    <3>2. \A p \in Requests : seen[p] \subseteq Requests
      BY DEF TypeOK
    <3> HIDE DEF IInv, TypeOK, MemoryInv, RowInv
    <3> QED
      BY <3>1, <3>2 DEF IInv, Saved
  <2>10. CASE SendMail(r)
    BY <2>10 DEF SendMail, Goto, memory, tables, history, OpenSubs, Saved, BeforeInsert, AfterInsert
  <2>11. CASE Raise(r)
    BY <2>11 DEF Raise, Goto, memory, tables, history, InFlight, OpenSubs, Saved, BeforeInsert, AfterInsert
  <2>12. CASE LoseAnswer(r)
    BY <2>12 DEF LoseAnswer, Goto, memory, tables, history, OpenSubs, Saved, BeforeInsert, AfterInsert
  <2> QED
    BY <1>3, <2>1, <2>2, <2>3, <2>4, <2>5, <2>6, <2>7, <2>8, <2>9, <2>10, <2>11, <2>12 DEF Step
<1> QED
  BY <1>1, <1>2, <1>3 DEF Next

-----------------------------------------------------------------------------
\* The subscriptions begin in the invariant.
LEMMA InitInvariant == Init => IInv
BY ConstantsAssumption
   DEF Init, IInv, TypeOK, MemoryInv, RowInv, LatestInv, PriorInv, SeenEndedInv,
       BeforeInsert, AfterInsert, OpenSubs, Saved, Ended, Time

\* IInv is an inductive invariant of the specification.
THEOREM Invariant == Spec => []IInv
<1>1. IInv /\ [Next]_vars => IInv'
  BY TypeStep, MemoryStep, RowStep, LatestStep, PriorStep, SeenEndedStep DEF IInv
<1> QED
  BY <1>1, InitInvariant, PTL DEF Spec

\* Every variable always has the type TypeOK gives it.
THEOREM TypeCorrect == Spec => []TypeOK
<1>1. IInv => TypeOK
  BY DEF IInv
<1> QED
  BY <1>1, Invariant, PTL

\* However requests overlap and fail, nobody who was given a subscription is
\* left without an open one: the last one inserted is never ended.
THEOREM NobodyLosesMembership == Spec => []MembershipNeverLost
<1>1. IInv => MembershipNeverLost
  <2> SUFFICES ASSUME IInv, NEW s \in Requests, subs[s] # NULL
               PROVE  latest[subs[s].user] \in OpenSubs(subs[s].user)
    BY DEF MembershipNeverLost
  <2>1. subs[s].user \in Users
    BY DEF IInv, TypeOK, SubRow
  <2> QED
    BY <2>1 DEF IInv, LatestInv
<1> QED
  BY <1>1, Invariant, PTL

\* A completed request has ended everything granted before it loaded its
\* user, so only overlap or a failure leaves two subscriptions open.
THEOREM TwoOpenNeedOverlap == Spec => []OnlyOverlapsLeaveTwoOpen
<1>1. IInv => OnlyOverlapsLeaveTwoOpen
  BY DEF IInv, PriorInv, SeenEndedInv, OnlyOverlapsLeaveTwoOpen, Saved
<1> QED
  BY <1>1, Invariant, PTL

-----------------------------------------------------------------------------
(***************************************************************************)
(* Titles are lost by overlapping requests only: what a request writes     *)
(* back is what it has loaded, and what it has loaded holds the title of   *)
(* whoever was complete before.                                            *)
(***************************************************************************)
\* Another request for the user of r has loaded titles, neither after r was
\* complete nor complete when r loaded its user.
Overlapped(r) ==
    \E q \in Requests \ {r} :
        tags[q] # {} /\ job[q].user = job[r].user /\ ~InSequence(q, r)

TitleKept(r) == job[r].plan \in titles[job[r].user] \/ Overlapped(r)

\* Labels behind which a request has loaded all it will load.
Behind == {"save", "mail", "done", "failed"}
Over == {"mail", "done", "failed"}

\* Requests that were complete at some time, as others have noticed.
Noticed == Saved \cup {r \in Requests : \E q \in Requests : r \in prior[q]}

TitlesInv ==
    /\ \A q \in Requests : tags[q] # {} => pc[q] \in Behind
    /\ \A r \in Noticed : pc[r] \in Over /\ TitleKept(r)
    /\ \A q \in Requests : pc[q] = "save" =>
         /\ job[q].plan \in tags[q]
         /\ \A r \in prior[q] : job[r].user = job[q].user =>
              job[r].plan \in tags[q] \/ Overlapped(r)

-----------------------------------------------------------------------------
\* An overlap stays one as long as nothing loaded is loaded again.
LEMMA OverlapStays ==
    ASSUME TitlesInv,
           \A q \in Requests : pc[q] \in Behind => prior'[q] = prior[q] /\ job'[q] = job[q],
           \A q \in Requests : tags[q] # {} => tags'[q] # {},
           NEW r \in Requests, pc[r] \in Behind, Overlapped(r)
    PROVE  Overlapped(r)'
<1>1. PICK q \in Requests \ {r} :
         tags[q] # {} /\ job[q].user = job[r].user /\ ~InSequence(q, r)
  BY DEF Overlapped
<1>2. pc[q] \in Behind
  BY <1>1 DEF TitlesInv
<1>3. /\ prior'[q] = prior[q] /\ job'[q] = job[q] /\ tags'[q] # {}
      /\ prior'[r] = prior[r] /\ job'[r] = job[r]
  BY <1>1, <1>2
<1> QED
  BY <1>1, <1>3 DEF Overlapped, InSequence

\* A step of a request that is not behind its titles, nor goes there.
LEMMA TitlesFrame ==
    ASSUME TitlesInv, IInv, NEW r \in Requests,
           UNCHANGED <<tags, titles>>,
           \A q \in Requests : q # r =>
               pc'[q] = pc[q] /\ prior'[q] = prior[q] /\ job'[q] = job[q],
           pc[r] \in Behind => prior'[r] = prior[r] /\ job'[r] = job[r] /\ pc'[r] \in Over,
           prior'[r] = prior[r] \/ prior'[r] = Saved,
           pc'[r] \in {"mail", "done"} => pc[r] \in {"mail", "done"},
           pc'[r] # "save",
           pc[r] = "idle" \/ job'[r] = job[r]
    PROVE  TitlesInv'
<1>1. \A q \in Requests : pc[q] \in Behind => prior'[q] = prior[q] /\ job'[q] = job[q]
  OBVIOUS
<1>2. \A q \in Requests : pc[q] \in Behind /\ Overlapped(q) => Overlapped(q)'
  BY <1>1, OverlapStays
<1>3. Noticed' \subseteq Noticed
  BY DEF Noticed, Saved
<1>4. \A q \in Requests : tags'[q] # {} => pc'[q] \in Behind
  BY DEF TitlesInv, Behind, Over
<1>5. ASSUME NEW q \in Noticed' PROVE pc'[q] \in Over /\ TitleKept(q)'
  <2>1. q \in Noticed /\ q \in Requests
    BY <1>3 DEF Noticed, Saved
  <2>2. pc[q] \in Over /\ pc[q] \in Behind /\ TitleKept(q)
    BY <2>1 DEF TitlesInv, Over, Behind
  <2>3. pc'[q] \in Over /\ job'[q] = job[q]
    BY <1>1, <2>1, <2>2
  <2> QED
    BY <1>2, <2>1, <2>2, <2>3 DEF TitleKept
<1>6. ASSUME NEW q \in Requests, pc'[q] = "save"
      PROVE  /\ job'[q].plan \in tags'[q]
             /\ \A s \in prior'[q] : job'[s].user = job'[q].user =>
                  job'[s].plan \in tags'[q] \/ Overlapped(s)'
  <2>1. q # r /\ pc[q] = "save"
    BY <1>6
  <2>2. job'[q] = job[q] /\ prior'[q] = prior[q]
    BY <2>1
  <2>3. ASSUME NEW s \in prior[q] PROVE s \in Requests /\ pc[s] \in Behind /\ job'[s] = job[s]
    <3>1. s \in Noticed /\ s \in Requests
      BY DEF Noticed, IInv, TypeOK
    <3> QED
      BY <1>1, <3>1 DEF TitlesInv, Over, Behind
  <2> QED
    BY <1>2, <2>1, <2>2, <2>3 DEF TitlesInv
<1> QED
  BY <1>4, <1>5, <1>6 DEF TitlesInv

\* What is loaded holds the titles of those who were complete before.
LEMMA LoadKeeps ==
    ASSUME TitlesInv, IInv, NEW r \in Requests, LoadTitles(r)
    PROVE  TitlesInv'
<1>1. /\ pc[r] = "titles" /\ pc' = [pc EXCEPT ![r] = "save"]
      /\ tags' = [tags EXCEPT ![r] = titles[job[r].user] \cup {job[r].plan}]
      /\ UNCHANGED <<job, titles, prior>>
  BY DEF LoadTitles, LoadTitlesOnto, Goto, tables, history
<1>2. tags \in [Requests -> SUBSET Plans] /\ DOMAIN pc = Requests
      /\ prior \in [Requests -> SUBSET Requests]
  BY DEF IInv, TypeOK
<1>3. \A q \in Requests : pc[q] \in Behind /\ Overlapped(q) => Overlapped(q)'
  <2>1. \A q \in Requests : tags[q] # {} => tags'[q] # {}
    BY <1>1, <1>2
  <2> QED
    BY <1>1, <2>1, OverlapStays
<1>4. r \notin Noticed /\ Noticed' = Noticed
  BY <1>1, <1>2 DEF TitlesInv, Over, Noticed, Saved
<1>5. \A q \in Noticed : q \in Requests /\ pc[q] \in Over /\ pc[q] \in Behind /\ TitleKept(q)
  BY DEF TitlesInv, Noticed, Saved, Over, Behind
<1>6. \A q \in Requests : tags'[q] # {} => pc'[q] \in Behind
  BY <1>1, <1>2 DEF TitlesInv, Behind
<1>7. \A q \in Noticed' : pc'[q] \in Over /\ TitleKept(q)'
  BY <1>1, <1>2, <1>3, <1>4, <1>5 DEF TitleKept
<1>8. ASSUME NEW q \in Requests, pc'[q] = "save"
      PROVE  /\ job[q].plan \in tags'[q]
             /\ \A s \in prior[q] : job[s].user = job[q].user =>
                  job[s].plan \in tags'[q] \/ Overlapped(s)'
  <2>1. \A s \in prior[q] : s \in Noticed
    BY <1>2 DEF Noticed
  <2>2. CASE q = r
    <3>1. tags'[r] = titles[job[r].user] \cup {job[r].plan}
      BY <1>1, <1>2
    <3> QED
      BY <1>3, <1>5, <2>1, <2>2, <3>1 DEF TitleKept
  <2>3. CASE q # r
    <3>1. pc[q] = "save" /\ tags'[q] = tags[q]
      BY <1>1, <1>2, <1>8, <2>3
    <3> QED
      BY <1>3, <1>5, <2>1, <3>1 DEF TitlesInv
  <2> QED
    BY <2>2, <2>3
<1> QED
  BY <1>1, <1>6, <1>7, <1>8 DEF TitlesInv

\* user.save! writes back what was loaded: who was complete before is in it,
\* anyone else who is complete has been overlapped.
LEMMA SaveKeeps ==
    ASSUME TitlesInv, IInv, NEW r \in Requests, SaveUser(r)
    PROVE  TitlesInv'
<1>1. /\ pc[r] = "save"
      /\ \E label \in {"mail", "done"} : pc' = [pc EXCEPT ![r] = label]
      /\ titles' = [titles EXCEPT ![job[r].user] = tags[r]]
      /\ UNCHANGED <<job, tags, prior>>
  BY DEF SaveUser, SaveUserEnding, Goto, history
<1>2. /\ DOMAIN pc = Requests /\ prior \in [Requests -> SUBSET Requests]
      /\ titles \in [Users -> SUBSET Plans] /\ job[r] \in Job /\ job[r].user \in Users
  BY <1>1 DEF IInv, TypeOK, MemoryInv, Job
<1>3. \A q \in Requests : Overlapped(q)' <=> Overlapped(q)
  BY <1>1 DEF Overlapped, InSequence
<1>4. r \notin Noticed /\ Noticed' = Noticed \cup {r}
  BY <1>1, <1>2 DEF TitlesInv, Over, Noticed, Saved
<1>5. pc'[r] \in Over /\ pc'[r] # "save" /\ \A q \in Requests : q # r => pc'[q] = pc[q]
  BY <1>1, <1>2 DEF Over
<1>6. titles'[job[r].user] = tags[r] /\ job[r].plan \in tags[r]
  BY <1>1, <1>2 DEF TitlesInv
<1>7. ASSUME NEW q \in Noticed' PROVE pc'[q] \in Over /\ TitleKept(q)'
  <2>1. CASE q = r
    BY <1>1, <1>5, <1>6, <2>1 DEF TitleKept
  <2>2. CASE q # r
    <3>1. q \in Noticed /\ q \in Requests
      BY <1>4, <2>2 DEF Noticed, Saved
    <3>2. pc[q] \in Over /\ TitleKept(q)
      BY <3>1 DEF TitlesInv
    <3>3. CASE job[q].user # job[r].user
      BY <1>1, <1>2, <1>3, <1>5, <2>2, <3>1, <3>2, <3>3 DEF TitleKept
    <3>4. CASE job[q].user = job[r].user /\ q \in prior[r]
      <4>1. job[q].plan \in tags[r] \/ Overlapped(q)
        BY <1>1, <3>4 DEF TitlesInv
      <4> QED
        BY <1>1, <1>3, <1>5, <1>6, <2>2, <3>1, <3>2, <3>4, <4>1 DEF TitleKept
    <3>5. CASE job[q].user = job[r].user /\ q \notin prior[r]
      <4>1. r \notin prior[q]
        BY <1>4, <3>1 DEF Noticed
      <4>2. Overlapped(q)
        BY <1>6, <2>2, <3>5, <4>1 DEF Overlapped, InSequence
      <4> QED
        BY <1>3, <1>5, <2>2, <3>1, <3>2, <4>2 DEF TitleKept
    <3> QED
      BY <3>3, <3>4, <3>5
  <2> QED
    BY <2>1, <2>2
<1>8. \A q \in Requests : tags'[q] # {} => pc'[q] \in Behind
  BY <1>1, <1>5 DEF TitlesInv, Behind, Over
<1>9. ASSUME NEW q \in Requests, pc'[q] = "save"
      PROVE  /\ job'[q].plan \in tags'[q]
             /\ \A s \in prior'[q] : job'[s].user = job'[q].user =>
                  job'[s].plan \in tags'[q] \/ Overlapped(s)'
  <2>1. pc[q] = "save"
    BY <1>5, <1>9
  <2>2. \A s \in prior[q] : s \in Requests
    BY <1>2
  <2> QED
    BY <1>1, <1>3, <2>1, <2>2 DEF TitlesInv
<1> QED
  BY <1>7, <1>8, <1>9 DEF TitlesInv

\* Every step keeps what is known of the titles.
LEMMA TitlesStep == TitlesInv /\ IInv /\ [Next]_vars => TitlesInv'
<1> SUFFICES ASSUME TitlesInv, IInv, [Next]_vars PROVE TitlesInv'
  OBVIOUS
<1>1. CASE UNCHANGED vars \/ Tick
  BY <1>1 DEF vars, Tick, memory, tables, history, TitlesInv, Noticed, Saved, TitleKept,
              Overlapped, InSequence
<1>2. ASSUME NEW r \in Requests, Step(r) PROVE TitlesInv'
  <2>0. /\ DOMAIN pc = Requests /\ DOMAIN job = Requests /\ DOMAIN prior = Requests
    BY DEF IInv, TypeOK
  <2>1. CASE StartCreate(r) \/ StartUpdate(r)
    <3>1. /\ pc[r] = "idle" /\ UNCHANGED <<tags, titles>>
          /\ \E j : job' = [job EXCEPT ![r] = j]
      BY <2>1 DEF StartCreate, StartCreateWith, StartUpdate, StartUpdateWith, Accept, tables
    <3>2. CASE StartCreate(r)
      <4> DEFINE first == [stripe |-> "charge", paypal |-> "stamp"]
      <4>1. first["stripe"] = "charge" /\ first["paypal"] = "stamp"
        OBVIOUS
      <4>2. \E label \in {"charge", "stamp"} : pc' = [pc EXCEPT ![r] = label]
        <5>1. StartCreateWith(r, first)
          BY <3>2 DEF StartCreate
        <5> HIDE DEF first
        <5>2. PICK v \in {"stripe", "paypal"} : Goto(r, first[v])
          BY <5>1 DEF StartCreateWith
        <5> QED
          BY <4>1, <5>2 DEF Goto
      <4>3. prior' = prior
        BY <3>2 DEF StartCreate, StartCreateWith, history
      <4> QED
        BY <2>0, <3>1, <4>2, <4>3, TitlesFrame DEF Behind, Over
    <3>3. CASE StartUpdate(r)
      <4>1. /\ \E label \in {"replan", "failed"} : pc' = [pc EXCEPT ![r] = label]
            /\ prior' = [prior EXCEPT ![r] = Saved]
        BY <3>3 DEF StartUpdate, StartUpdateWith, Goto
      <4> QED
        BY <2>0, <3>1, <4>1, TitlesFrame DEF Behind, Over
    <3> QED
      BY <2>1, <3>2, <3>3
  <2>2. CASE LoadSubscriptions(r)
    <3>1. /\ pc[r] = "load" /\ pc' = [pc EXCEPT ![r] = "insert"]
          /\ prior' = [prior EXCEPT ![r] = Saved]
          /\ UNCHANGED <<job, tags, titles>>
      BY <2>2 DEF LoadSubscriptions, Goto, tables
    <3> QED
      BY <2>0, <3>1, TitlesFrame DEF Behind, Over
  <2>3. CASE LoadTitles(r)
    BY <2>3, LoadKeeps
  <2>4. CASE SaveUser(r)
    BY <2>4, SaveKeeps
  <2>5. CASE Charge(r) \/ Replan(r) \/ Stamp(r) \/ InsertSubscription(r) \/ LoseAnswer(r)
    <3>1. /\ pc[r] \in {"charge", "replan", "stamp", "insert"}
          /\ \E label \in {"stamp", "failed", "load", "insert", "titles"} :
               pc' = [pc EXCEPT ![r] = label]
          /\ UNCHANGED <<job, prior, tags, titles>>
      BY <2>5 DEF Charge, Replan, ReplanTo, Stamp, StampAs, InsertSubscription, LoseAnswer, Goto,
                  tables, history
    <3> QED
      BY <2>0, <3>1, TitlesFrame DEF Behind, Over
  <2>6. CASE SendMail(r)
    BY <2>0, <2>6, TitlesFrame DEF SendMail, Goto, tables, history, Behind, Over
  <2>7. CASE Raise(r)
    BY <2>0, <2>7, TitlesFrame DEF Raise, Goto, tables, history, Behind, Over
  <2> QED
    BY <1>2, <2>1, <2>2, <2>3, <2>4, <2>5, <2>6, <2>7 DEF Step
<1> QED
  BY <1>1, <1>2 DEF Next

\* A title that a completed request granted is lost only if another request
\* for the user overlapped it, whatever else overlaps and fails.
THEOREM TitlesLostByOverlapOnly == Spec => []OnlyOverlapsLoseTitles
<1>1. Init => TitlesInv
  BY DEF Init, TitlesInv, Noticed, Saved
<1>2. TitlesInv => OnlyOverlapsLoseTitles
  BY DEF TitlesInv, Noticed, TitleKept, Overlapped, OnlyOverlapsLoseTitles
<1> QED
  BY <1>1, <1>2, TitlesStep, Invariant, PTL DEF Spec

(***************************************************************************)
(* Subscriptions implements Membership, for any set of requests, users and *)
(* plans: the initial states map to its initial state, the insertion of a  *)
(* row is a Grant, user.save! a Supersede, any other step a stutter.       *)
(***************************************************************************)
Held == [u \in Users |-> OpenSubs(u)]

\* The mapping is a function of the subscriptions alone.
LEMMA HeldBySubs ==
    ASSUME subs' = subs
    PROVE  Held' = Held
BY DEF Held, OpenSubs

\* A step that leaves the rows and the history of grants is a stutter.
LEMMA StutterStep ==
    ASSUME subs' = subs, latest' = latest
    PROVE  UNCHANGED Promise!vars
<1>1. Held' = Held
  BY HeldBySubs
<1> QED
  BY <1>1 DEF Promise!vars, Held

\* The insertion of a row is a Grant.
LEMMA InsertGrants ==
    ASSUME IInv, NEW r \in Requests, InsertSubscription(r)
    PROVE  Promise!Next
<1> DEFINE u == job[r].user
<1>1. u \in Users /\ at[r] \in Time /\ subs[r] = NULL
      /\ subs \in [Requests -> SubRow \cup {NULL}]
  BY DEF IInv, TypeOK, MemoryInv, RowInv, BeforeInsert, InsertSubscription, Job
<1>2. /\ subs' = [subs EXCEPT ![r] =
           [user |-> u, sponsor |-> job[r].payer, plan |-> job[r].plan,
            started |-> at[r], ended |-> NULL]]
      /\ latest' = [latest EXCEPT ![u] = r]
  BY DEF InsertSubscription
<1>3. subs'[r] # NULL /\ subs'[r].user = u /\ subs'[r].ended = NULL
  <2>1. job[r] \in Job
    BY DEF IInv, MemoryInv, InsertSubscription
  <2>2. subs'[r] = [user |-> u, sponsor |-> job[r].payer, plan |-> job[r].plan,
                    started |-> at[r], ended |-> NULL]
    BY <1>1, <1>2
  <2>3. subs'[r] \in SubRow
    BY <1>1, <2>1, <2>2 DEF SubRow, Job
  <2> QED
    BY <2>2, <2>3, ConstantsAssumption
<1>4. \A s \in Requests \ {r} : subs'[s] = subs[s]
  BY <1>1, <1>2
<1>5. \A v \in Users : OpenSubs(v)' = IF v = u THEN OpenSubs(v) \cup {r} ELSE OpenSubs(v)
  BY <1>1, <1>3, <1>4 DEF OpenSubs
<1>6. Held' = [Held EXCEPT ![u] = Held[u] \cup {r}]
  BY <1>1, <1>5 DEF Held
<1>7. \A v \in Users : r \notin Held[v]
  BY <1>1 DEF Held, OpenSubs
<1>8. Promise!Grant(u, r)
  BY <1>2, <1>6, <1>7 DEF Promise!Grant, Held
<1> QED
  BY <1>1, <1>8 DEF Promise!Next

\* user.save! ends loaded subscriptions of its user; the newest is none of
\* them.
LEMMA SaveSupersedes ==
    ASSUME IInv, NEW r \in Requests, SaveUser(r)
    PROVE  Promise!Next
<1> DEFINE u == job[r].user
           old == seen[r] \cap OpenSubs(u)
<1>1. /\ u \in Users /\ subs[r] # NULL /\ subs[r].user = u
      /\ pc[r] = "save"
      /\ seen[r] \in SUBSET Requests
      /\ \A s \in seen[r] : subs[s].user = u
  BY SaveEffect DEF IInv, TypeOK, MemoryInv, RowInv, AfterInsert, Job
<1>2. /\ \A s \in Requests :
           /\ s \in seen[r] => /\ subs'[s] # NULL
                               /\ subs'[s].user = subs[s].user
                               /\ subs'[s].ended # NULL
           /\ s \notin seen[r] => subs'[s] = subs[s]
      /\ latest' = latest
  BY SaveEffect
<1>3. \A v \in Users : OpenSubs(v)' = IF v = u THEN OpenSubs(v) \ old ELSE OpenSubs(v)
  BY <1>1, <1>2 DEF OpenSubs
<1>4. Held' = [Held EXCEPT ![u] = Held[u] \ old]
  BY <1>1, <1>3 DEF Held
<1>5. latest[u] \in Held[u] \ old
  BY <1>1 DEF IInv, LatestInv, Held
<1>6. old \in SUBSET Held[u]
  BY <1>1 DEF Held
<1>7. Promise!Supersede(u, old)
  BY <1>2, <1>4, <1>5 DEF Promise!Supersede, Held
<1> QED
  BY <1>1, <1>6, <1>7 DEF Promise!Next, Held

\* Every step of a request is a step of Membership, or none.
LEMMA StepRefines == IInv /\ [Next]_vars => [Promise!Next]_(Promise!vars)
<1> SUFFICES ASSUME IInv, [Next]_vars PROVE [Promise!Next]_(Promise!vars)
  OBVIOUS
<1>1. CASE UNCHANGED vars
  BY <1>1, StutterStep DEF vars, tables, history
<1>2. CASE Tick
  BY <1>2, StutterStep DEF Tick, tables, history
<1>3. ASSUME NEW r \in Requests, Step(r) PROVE [Promise!Next]_(Promise!vars)
  <2>1. CASE InsertSubscription(r)
    BY <2>1, InsertGrants
  <2>2. CASE SaveUser(r)
    BY <2>2, SaveSupersedes
  <2>3. CASE \/ StartCreate(r) \/ Charge(r) \/ StartUpdate(r) \/ Replan(r)
    BY <2>3, StutterStep
       DEF StartCreate, StartCreateWith, Charge, StartUpdate, StartUpdateWith,
           Replan, ReplanTo, tables, history
  <2>4. CASE \/ Stamp(r) \/ LoadSubscriptions(r) \/ LoadTitles(r) \/ SendMail(r)
             \/ Raise(r) \/ LoseAnswer(r)
    BY <2>4, StutterStep
       DEF Stamp, StampAs, LoadSubscriptions, LoadTitles, LoadTitlesOnto,
           SendMail, Raise, LoseAnswer, tables, history
  <2> QED
    BY <1>3, <2>1, <2>2, <2>3, <2>4 DEF Step
<1> QED
  BY <1>1, <1>2, <1>3 DEF Next

\* However requests overlap and fail, the application carries out
\* Membership: a grant in force ends only because a later one is in force.
THEOREM MembershipImplemented == Spec => ImplementsMembership
<1>1. Init => Promise!Init
  <2> SUFFICES ASSUME Init PROVE Promise!Init
    OBVIOUS
  <2>1. Held = [u \in Users |-> {}]
    BY DEF Init, OpenSubs, Held
  <2> QED
    BY <2>1 DEF Promise!Init, Init, Held
<1> QED
  BY <1>1, StepRefines, Invariant, PTL DEF Spec, ImplementsMembership, Promise!Spec

-----------------------------------------------------------------------------
(***************************************************************************)
(* The periods of a user join.                                             *)
(***************************************************************************)
\* A row inserted starts at the time its request holds; a request never
\* loads its own row.
StartInv ==
    \A r \in Requests :
        /\ pc[r] \in {"titles", "save"} => subs[r] # NULL /\ subs[r].started = at[r]
        /\ r \notin seen[r]

JoinInv == StartInv /\ PeriodsJoin

Labels == {"idle", "charge", "replan", "stamp", "load", "insert",
           "titles", "save", "mail"} \cup Ended

\* What user.save! writes, in full.
LEMMA SaveWrites ==
    ASSUME IInv, NEW r \in Requests, SaveUser(r)
    PROVE  \A s \in Requests :
             /\ s \notin seen[r] => subs'[s] = subs[s]
             /\ s \in seen[r] => /\ subs[s] # NULL /\ subs'[s] # NULL
                                 /\ subs'[s].user = subs[s].user
                                 /\ subs'[s].started = subs[s].started
                                 /\ subs'[s].ended = at[r]
<1>1. at[r] \in Time /\ \A s \in seen[r] : s \in Requests /\ subs[s] # NULL /\ subs[s] \in SubRow
  BY DEF IInv, TypeOK, MemoryInv, RowInv, SaveUser, SaveUserEnding
<1>2. subs' = [s \in Requests |->
                 IF s \in seen[r] THEN [subs[s] EXCEPT !.ended = at[r]] ELSE subs[s]]
  BY DEF SaveUser, SaveUserEnding
<1> SUFFICES ASSUME NEW s \in seen[r]
             PROVE  /\ subs'[s] # NULL
                    /\ subs'[s].user = subs[s].user
                    /\ subs'[s].started = subs[s].started
                    /\ subs'[s].ended = at[r]
  BY <1>1, <1>2
<1>3. subs'[s] = [subs[s] EXCEPT !.ended = at[r]]
  BY <1>1, <1>2
<1>4. subs'[s] # NULL
  BY <1>1, <1>3, EndingARow
<1> QED
  BY <1>1, <1>3, <1>4 DEF SubRow

\* A step that changes no row, no time and no loaded set keeps JoinInv, if
\* it does not lead to a statement behind the insertion.
LEMMA JoinFrame ==
    ASSUME JoinInv, IInv, NEW r \in Requests,
           subs' = subs, seen' = seen,
           \A q \in Requests : q # r => pc'[q] = pc[q] /\ at'[q] = at[q],
           pc'[r] \in {"titles", "save"} => pc[r] \in {"titles", "save"} /\ at'[r] = at[r]
    PROVE  JoinInv'
BY DEF JoinInv, StartInv, PeriodsJoin

\* Loading comes before the insertion: who loads has ended nothing yet.
LEMMA JoinLoad ==
    ASSUME JoinInv, IInv, NEW r \in Requests,
           subs[r] = NULL, subs' = subs, at' = at,
           \E u : seen' = [seen EXCEPT ![r] = OpenSubs(u)],
           \A q \in Requests : q # r => pc'[q] = pc[q],
           pc'[r] \notin {"titles", "save"}
    PROVE  JoinInv'
<1>1. PICK u : seen' = [seen EXCEPT ![r] = OpenSubs(u)]
  OBVIOUS
<1>2. seen \in [Requests -> SUBSET Requests]
  BY DEF IInv, TypeOK
<1>3. \A q \in Requests : q # r => seen'[q] = seen[q]
  BY <1>1, <1>2
<1>4. r \notin seen'[r]
  BY <1>1, <1>2 DEF OpenSubs
<1>5. StartInv'
  BY <1>3, <1>4 DEF JoinInv, StartInv
<1>6. PeriodsJoin'
  BY <1>3 DEF JoinInv, PeriodsJoin
<1> QED
  BY <1>5, <1>6 DEF JoinInv

\* An insert keeps the periods joined.
LEMMA JoinInsert ==
    ASSUME JoinInv, IInv, NEW r \in Requests, InsertSubscription(r)
    PROVE  JoinInv'
<1>1. /\ subs[r] = NULL /\ subs \in [Requests -> SubRow \cup {NULL}]
      /\ job[r] \in Job /\ at[r] \in Time /\ pc \in [Requests -> Labels]
  BY DEF IInv, TypeOK, MemoryInv, RowInv, BeforeInsert, InsertSubscription, Labels
<1>2. subs'[r] = [user |-> job[r].user, sponsor |-> job[r].payer, plan |-> job[r].plan,
                  started |-> at[r], ended |-> NULL]
      /\ \A s \in Requests \ {r} : subs'[s] = subs[s]
  BY <1>1 DEF InsertSubscription
<1>3. subs'[r] # NULL /\ subs'[r].started = at[r] /\ subs'[r].ended = NULL
  <2>1. subs'[r] \in SubRow
    BY <1>1, <1>2 DEF SubRow, Job
  <2> QED
    BY <1>2, <2>1, ConstantsAssumption
<1>4. UNCHANGED <<at, seen>> /\ pc' = [pc EXCEPT ![r] = "titles"]
  BY DEF InsertSubscription, Goto
<1>5. StartInv'
  BY <1>1, <1>2, <1>3, <1>4 DEF JoinInv, StartInv
<1>6. PeriodsJoin'
  BY <1>1, <1>2, <1>3, <1>4 DEF JoinInv, PeriodsJoin
<1> QED
  BY <1>5, <1>6 DEF JoinInv

\* So does the save of the user, which ends the earlier ones.
LEMMA JoinSave ==
    ASSUME JoinInv, IInv, NEW r \in Requests, SaveUser(r)
    PROVE  JoinInv'
<1>1. /\ r \notin seen[r] /\ subs[r] # NULL /\ subs[r].started = at[r]
      /\ subs[r].user = job[r].user
      /\ \A s \in seen[r] : s \in Requests /\ subs[s].user = job[r].user
  BY SaveEffect DEF JoinInv, StartInv, IInv, TypeOK, RowInv
<1>2. \E label \in {"mail", "done"} : pc' = [pc EXCEPT ![r] = label]
  BY SaveEffect
<1>3. UNCHANGED <<at, seen>> /\ pc \in [Requests -> Labels]
  BY SaveEffect DEF IInv, TypeOK, Labels
<1>4. \A q \in Requests : subs[q] # NULL =>
         subs'[q] # NULL /\ subs'[q].user = subs[q].user /\ subs'[q].started = subs[q].started
  BY SaveWrites
<1>5. StartInv'
  BY <1>2, <1>3, <1>4 DEF JoinInv, StartInv
<1>6. ASSUME NEW s \in Requests, subs'[s] # NULL, subs'[s].ended # NULL
      PROVE  \E q \in Requests \ {s} :
                /\ subs'[q] # NULL /\ subs'[q].user = subs'[s].user
                /\ s \in seen'[q] /\ subs'[q].started = subs'[s].ended
  <2>1. CASE s \in seen[r]
    <3>1. subs'[s].ended = at[r] /\ subs'[s].user = job[r].user /\ subs'[r] = subs[r]
      BY <1>1, <2>1, SaveWrites
    <3> QED
      BY <1>1, <1>3, <2>1, <3>1
  <2>2. CASE s \notin seen[r]
    <3>1. subs'[s] = subs[s]
      BY <2>2, SaveWrites
    <3>2. PICK q \in Requests \ {s} :
             /\ subs[q] # NULL /\ subs[q].user = subs[s].user
             /\ s \in seen[q] /\ subs[q].started = subs[s].ended
      BY <1>6, <3>1 DEF JoinInv, PeriodsJoin
    <3> QED
      BY <1>3, <1>4, <3>1, <3>2
  <2> QED
    BY <2>1, <2>2
<1> QED
  BY <1>5, <1>6 DEF JoinInv, PeriodsJoin

\* So does every step.
LEMMA JoinStep == JoinInv /\ IInv /\ [Next]_vars => JoinInv'
<1> SUFFICES ASSUME JoinInv, IInv, [Next]_vars PROVE JoinInv'
  OBVIOUS
<1>1. CASE UNCHANGED vars
  BY <1>1 DEF vars, memory, tables, JoinInv, StartInv, PeriodsJoin
<1>2. CASE Tick
  BY <1>2 DEF Tick, memory, tables, JoinInv, StartInv, PeriodsJoin
<1>3. ASSUME NEW r \in Requests, Step(r) PROVE JoinInv'
  <2>0. pc \in [Requests -> Labels] /\ at \in [Requests -> Time \cup {NULL}]
    BY DEF IInv, TypeOK, Labels
  <2>1. CASE StartUpdate(r)
    <3>1. pc[r] = "idle" /\ subs[r] = NULL
      BY <2>1 DEF StartUpdate, StartUpdateWith, Accept, IInv, RowInv, BeforeInsert
    <3>2. /\ \E u : seen' = [seen EXCEPT ![r] = OpenSubs(u)]
          /\ \E label \in {"replan", "failed"} : pc' = [pc EXCEPT ![r] = label]
          /\ UNCHANGED <<subs, at>>
      BY <2>1 DEF StartUpdate, StartUpdateWith, Goto, tables
    <3> QED
      BY <2>0, <3>1, <3>2, JoinLoad
  <2>2. CASE LoadSubscriptions(r)
    <3>1. subs[r] = NULL
      BY <2>2 DEF LoadSubscriptions, IInv, RowInv, BeforeInsert
    <3>2. /\ \E u : seen' = [seen EXCEPT ![r] = OpenSubs(u)]
          /\ pc' = [pc EXCEPT ![r] = "insert"]
          /\ UNCHANGED <<subs, at>>
      BY <2>2 DEF LoadSubscriptions, Goto, tables
    <3> QED
      BY <2>0, <3>1, <3>2, JoinLoad
  <2>3. CASE InsertSubscription(r)
    BY <2>3, JoinInsert
  <2>4. CASE SaveUser(r)
    BY <2>4, JoinSave
  <2>5. CASE Stamp(r)
    BY <2>0, <2>5, JoinFrame DEF Stamp, StampAs, Goto, tables
  <2>6. CASE LoadTitles(r)
    BY <2>0, <2>6, JoinFrame DEF LoadTitles, LoadTitlesOnto, Goto, tables
  <2>7. CASE StartCreate(r) \/ Charge(r) \/ Replan(r) \/ SendMail(r) \/ Raise(r) \/ LoseAnswer(r)
    <3>1. /\ UNCHANGED <<subs, seen, at>>
          /\ \E label : label \notin {"titles", "save"} /\ pc' = [pc EXCEPT ![r] = label]
      BY <2>7 DEF StartCreate, StartCreateWith, Charge, Replan, ReplanTo, SendMail,
                  Raise, LoseAnswer, Goto, tables
    <3> QED
      BY <2>0, <3>1, JoinFrame
  <2> QED
    BY <1>3, <2>1, <2>2, <2>3, <2>4, <2>5, <2>6, <2>7 DEF Step
<1> QED
  BY <1>1, <1>2, <1>3 DEF Next

\* A subscription ends at the instant another one of its user starts, of a
\* request that had loaded it, however requests overlap and fail.
THEOREM PeriodsAlwaysJoin == Spec => []PeriodsJoin
<1>1. Init => JoinInv
  BY DEF Init, JoinInv, StartInv, PeriodsJoin
<1>2. JoinInv => PeriodsJoin
  BY DEF JoinInv
<1> QED
  BY <1>1, <1>2, JoinStep, Invariant, PTL DEF Spec

(***************************************************************************)
(* Payments: what is paid, and by whom.                                    *)
(***************************************************************************)
\* Which customer pays for a request on its way to the insert.
PaidInv ==
    /\ \A r \in Requests :
         /\ pc[r] \in {"charge", "load"} => job[r].op = "create"
         /\ pc[r] = "replan" => job[r].op = "update"
         /\ pc[r] = "insert" /\ job[r].op = "create" => source[r] = r
         /\ pc[r] \in {"stamp", "load", "insert"} /\ job[r].via = "stripe" =>
              billed[IF job[r].op = "create" THEN r ELSE source[r]] # NULL
         /\ subs[r] # NULL => source[r] \in Requests
    /\ GrantedOnlyAfterPayment

\* The payment source and the subscription a request has in memory are those
\* of the user it is for.
SourceInv ==
    /\ \A r \in Requests :
         /\ pc[r] = "idle" => source[r] = NULL /\ paying[r] = NULL
         /\ source[r] # NULL =>
              pc[source[r]] # "idle" /\ job[source[r]].user = job[r].user
         /\ paying[r] # NULL =>
              subs[paying[r]] # NULL /\ subs[paying[r]].user = job[r].user
    /\ \A c \in Requests : owner[c] # NULL => pc[c] # "idle"
    /\ SourceStaysWithItsUser

-----------------------------------------------------------------------------
\* Nothing is billed at first.
LEMMA InitPayment == Init => PaidInv /\ SourceInv
BY ConstantsAssumption
   DEF Init, PaidInv, SourceInv, GrantedOnlyAfterPayment, SourceStaysWithItsUser

\* Every step keeps the customers of the requests.
LEMMA PaidStep == IInv /\ PaidInv /\ [Next]_vars => PaidInv'
<1> SUFFICES ASSUME IInv, PaidInv, [Next]_vars PROVE PaidInv'
  OBVIOUS
<1> USE ConstantsAssumption DEF IInv, TypeOK, MemoryInv, RowInv, Job, PaidInv, GrantedOnlyAfterPayment
<1>1. CASE UNCHANGED vars
  BY <1>1 DEF vars, memory, tables, history
<1>2. CASE Tick
  BY <1>2 DEF Tick, memory, tables, history
<1>3. ASSUME NEW r \in Requests, Step(r) PROVE PaidInv'
  <2>1. CASE StartCreate(r)
    <3>1. PICK payer \in Users, sponsee \in Users \cup {NULL}, p \in Plans, v \in {"stripe", "paypal"} :
            /\ job' = [job EXCEPT ![r] =
                 [op |-> "create", user |-> Recipient(payer, sponsee),
                  payer |-> payer, plan |-> p, via |-> v]]
            /\ pc' = [pc EXCEPT ![r] = [stripe |-> "charge", paypal |-> "stamp"][v]]
      BY <2>1 DEF StartCreate, StartCreateWith, Goto
    <3>2. /\ pc'[r] \in {"charge", "stamp"}
          /\ job'[r].op = "create"
          /\ job'[r].via = "stripe" => pc'[r] = "charge"
      BY <3>1
    <3>3. \A q \in Requests \ {r} : pc'[q] = pc[q] /\ job'[q] = job[q]
      BY <3>1
    <3>4. pc[r] = "idle" /\ UNCHANGED <<source, subs, billed>>
      BY <2>1 DEF StartCreate, StartCreateWith, Accept, tables
    <3> QED
      BY <3>2, <3>3, <3>4 DEF BeforeInsert
  <2>2. CASE Charge(r)
    BY <2>2 DEF Charge, Goto, tables, history, BeforeInsert
  <2>3. CASE StartUpdate(r)
    <3>1. pc[r] = "idle" /\ UNCHANGED <<subs, billed>>
      BY <2>3 DEF StartUpdate, StartUpdateWith, Accept, tables
    <3>2. PICK u \in Users, p \in Plans :
            job' = [job EXCEPT ![r] =
              [op |-> "update", user |-> u, payer |-> u, plan |-> p, via |-> "stripe"]]
      BY <2>3 DEF StartUpdate, StartUpdateWith
    <3>3. \E label \in {"replan", "failed"} : pc' = [pc EXCEPT ![r] = label]
      BY <2>3 DEF StartUpdate, StartUpdateWith, Goto
    <3>4. source' = source \/ \E c \in Requests : source' = [source EXCEPT ![r] = c]
      BY <2>3 DEF StartUpdate, StartUpdateWith
    <3> QED
      BY <3>1, <3>2, <3>3, <3>4 DEF BeforeInsert
  <2>4. CASE Replan(r)
    BY <2>4 DEF Replan, ReplanTo, Goto, tables, history
  <2>5. CASE Stamp(r)
    BY <2>5 DEF Stamp, StampAs, Goto, tables, history
  <2>6. CASE LoadSubscriptions(r)
    BY <2>6 DEF LoadSubscriptions, Goto, tables, BeforeInsert
  <2>7. CASE InsertSubscription(r)
    BY <2>7 DEF InsertSubscription, Goto
  <2>8. CASE LoadTitles(r)
    BY <2>8 DEF LoadTitles, LoadTitlesOnto, Goto, tables, history
  <2>9. CASE SaveUser(r)
    <3> HIDE DEF IInv
    <3>1. /\ \A s \in Requests : s \notin seen[r] => subs'[s] = subs[s]
          /\ \E label \in {"mail", "done"} : pc' = [pc EXCEPT ![r] = label]
          /\ UNCHANGED <<job, source, billed>>
      BY <2>9, SaveEffect DEF SaveUser, SaveUserEnding
    <3>2. TypeOK /\ \A s \in seen[r] : subs[s] # NULL
      BY DEF IInv
    <3>3. \A s \in Requests : subs'[s] # NULL => subs[s] # NULL
      BY <3>1, <3>2
    <3> QED
      BY <3>1, <3>2, <3>3
  <2>10. CASE SendMail(r)
    BY <2>10 DEF SendMail, Goto, tables, history
  <2>11. CASE Raise(r)
    BY <2>11 DEF Raise, Goto, tables, history
  <2>12. CASE LoseAnswer(r)
    BY <2>12 DEF LoseAnswer, Goto, tables, history
  <2> QED
    BY <1>3, <2>1, <2>2, <2>3, <2>4, <2>5, <2>6, <2>7, <2>8, <2>9, <2>10, <2>11, <2>12 DEF Step
<1> QED
  BY <1>1, <1>2, <1>3 DEF Next

\* Every step keeps sources and subscriptions with their users.
LEMMA SourceStep == IInv /\ SourceInv /\ [Next]_vars => SourceInv'
<1> SUFFICES ASSUME IInv, SourceInv, [Next]_vars PROVE SourceInv'
  OBVIOUS
<1> USE ConstantsAssumption DEF IInv, TypeOK, MemoryInv, RowInv, Job, SubRow, SourceInv, SourceStaysWithItsUser
<1>1. CASE UNCHANGED vars
  BY <1>1 DEF vars, memory, tables, history
<1>2. CASE Tick
  BY <1>2 DEF Tick, memory, tables, history
<1>3. ASSUME NEW r \in Requests, Step(r) PROVE SourceInv'
  <2>1. CASE StartCreate(r)
    BY <2>1 DEF StartCreate, StartCreateWith, Accept, Goto, tables, history, BeforeInsert
  <2>2. CASE Charge(r)
    BY <2>2 DEF Charge, Goto, tables, history
  <2>3. CASE StartUpdate(r)
    BY <2>3 DEF StartUpdate, StartUpdateWith, SourcesOf, OpenSubs, Accept, Goto, tables, BeforeInsert
  <2>4. CASE Replan(r)
    BY <2>4 DEF Replan, ReplanTo, Goto, tables, history
  <2>5. CASE Stamp(r)
    BY <2>5 DEF Stamp, StampAs, Goto, tables, history
  <2>6. CASE LoadSubscriptions(r)
    BY <2>6 DEF LoadSubscriptions, Goto, tables
  <2>7. CASE InsertSubscription(r)
    BY <2>7 DEF InsertSubscription, Goto, BeforeInsert
  <2>8. CASE LoadTitles(r)
    BY <2>8 DEF LoadTitles, LoadTitlesOnto, Goto, tables, history
  <2>9. CASE SaveUser(r)
    <3> HIDE DEF IInv
    <3>1. /\ \A s \in Requests :
               /\ s \in seen[r] => subs'[s] # NULL /\ subs'[s].user = subs[s].user
               /\ s \notin seen[r] => subs'[s] = subs[s]
          /\ pc[r] = "save"
          /\ \E label \in {"mail", "done"} : pc' = [pc EXCEPT ![r] = label]
          /\ UNCHANGED <<job, source, paying>>
      BY <2>9, SaveEffect
    <3>2. /\ owner' = owner \/ owner' = [owner EXCEPT ![source[r]] = paying[r]]
          /\ owner' # owner => job[r].op = "update"
      BY <2>9 DEF SaveUser, SaveUserEnding
    <3>3. TypeOK /\ MemoryInv
      BY DEF IInv
    <3>4. \A s \in Requests : subs[s] # NULL => subs'[s] # NULL /\ subs'[s].user = subs[s].user
      BY <3>1
    <3>5. owner' # owner => source[r] \in Requests /\ paying[r] \in Requests
      BY <3>1, <3>2, <3>3
    <3>6. \A c \in Requests : pc'[c] = "idle" <=> pc[c] = "idle"
      BY <3>1, <3>3
    <3> QED
      BY <3>1, <3>2, <3>3, <3>4, <3>5, <3>6
  <2>10. CASE SendMail(r)
    BY <2>10 DEF SendMail, Goto, tables, history
  <2>11. CASE Raise(r)
    BY <2>11 DEF Raise, InFlight, Goto, tables, history
  <2>12. CASE LoseAnswer(r)
    BY <2>12 DEF LoseAnswer, Goto, tables, history
  <2> QED
    BY <1>3, <2>1, <2>2, <2>3, <2>4, <2>5, <2>6, <2>7, <2>8, <2>9, <2>10, <2>11, <2>12 DEF Step
<1> QED
  BY <1>1, <1>2, <1>3 DEF Next

\* No subscription that Stripe pays for is inserted before its customer is
\* billed, whatever overlaps and whatever raises.
THEOREM PaymentBeforeGrant == Spec => []GrantedOnlyAfterPayment
<1>1. PaidInv => GrantedOnlyAfterPayment
  BY DEF PaidInv
<1> QED
  BY <1>1, Invariant, InitPayment, PaidStep, PTL DEF Spec

\* However updates move it, a payment source belongs to a subscription of the
\* user whose payment created it.
THEOREM SourcesKeepTheirUsers == Spec => []SourceStaysWithItsUser
<1>1. SourceInv => SourceStaysWithItsUser
  BY DEF SourceInv
<1> QED
  BY <1>1, Invariant, InitPayment, SourceStep, PTL DEF Spec
-----------------------------------------------------------------------------
\* Requests past their call to Stripe, and the customer the call is about.
AtStripe == {"stamp", "load", "insert"} \cup AfterInsert
Customer(r) == IF job[r].op = "create" THEN r ELSE source[r]

\* As long as nothing was raised: who was complete stays so, who failed has no
\* row, and the sources of rows and updates have their subscription.
BookInv ==
    /\ \A r \in Requests : prior[r] \subseteq Saved
    /\ \A r \in Requests : pc[r] = "failed" => subs[r] = NULL
    /\ \A r \in Requests : subs[r] # NULL => subs[r].plan = job[r].plan
    /\ \A r \in Requests : pc[r] \in AfterInsert /\ job[r].op = "create" => source[r] = r
    /\ \A c \in Requests : owner[c] # NULL => subs[c] # NULL
    /\ \A r \in Requests : pc[r] \in {"replan"} \cup AtStripe /\ job[r].op = "update" =>
         subs[source[r]] # NULL

\* A customer is billed for the plan of the request that called Stripe about
\* it, or else another has called since, and had not been complete when the
\* first loaded its user.
Superseded(s) ==
    \E r \in Requests \ {s} :
        /\ pc[r] \in AtStripe /\ job[r].op = "update"
        /\ source[r] = Customer(s) /\ r \notin prior[s]

CustomerInv ==
    \A s \in Requests : pc[s] \in AtStripe /\ job[s].via = "stripe" =>
        billed[Customer(s)] = job[s].plan \/ Superseded(s)

\* What user.save! leaves of the rows: all of them, and their plans.
LEMMA SavedPlans ==
    ASSUME IInv, NEW r \in Requests, SaveUser(r)
    PROVE  \A s \in Requests : /\ subs'[s] = NULL <=> subs[s] = NULL
                               /\ subs'[s] # NULL => subs'[s].plan = subs[s].plan
<1>1. at[r] \in Time /\ \A s \in seen[r] : s \in Requests /\ subs[s] \in SubRow
  BY DEF IInv, TypeOK, MemoryInv, RowInv, SaveUser, SaveUserEnding
<1>2. \A s \in Requests : subs'[s] =
         IF s \in seen[r] THEN [subs[s] EXCEPT !.ended = at[r]] ELSE subs[s]
  BY DEF SaveUser, SaveUserEnding
<1>3. ASSUME NEW s \in seen[r]
      PROVE  subs[s] # NULL /\ subs'[s] # NULL /\ subs'[s].plan = subs[s].plan
  <2>1. subs[s] \in SubRow /\ subs'[s] = [subs[s] EXCEPT !.ended = at[r]]
    BY <1>1, <1>2
  <2>2. [subs[s] EXCEPT !.ended = at[r]].plan = subs[s].plan
    BY <2>1 DEF SubRow
  <2> QED
    BY <1>1, <2>1, <2>2, EndingARow, ConstantsAssumption
<1> QED
  BY <1>2, <1>3

\* Every step that does not raise keeps the books.
LEMMA BookStep ==
    ASSUME IInv, PaidInv, BookInv, NEW r \in Requests, Step(r), faults' = faults
    PROVE  BookInv'
<1>1. /\ pc \in [Requests -> {"idle", "charge", "replan", "stamp", "load", "insert",
                              "titles", "save", "mail"} \cup Ended]
      /\ DOMAIN job = Requests /\ DOMAIN source = Requests /\ DOMAIN subs = Requests
      /\ DOMAIN owner = Requests /\ DOMAIN prior = Requests /\ faults \in Nat
      /\ owner \in [Requests -> Requests \cup {NULL}]
      /\ pc[r] \in {"insert", "titles", "save"} => source[r] \in Requests
      /\ pc[r] \in BeforeInsert => subs[r] = NULL
      /\ pc[r] # "idle" => job[r] \in Job
  BY ConstantsAssumption DEF IInv, TypeOK, MemoryInv, RowInv
<1>2. CASE StartCreate(r)
  <2>1. PICK payer \in Users, sponsee \in Users \cup {NULL}, p \in Plans, v \in {"stripe", "paypal"} :
          /\ job' = [job EXCEPT ![r] =
               [op |-> "create", user |-> Recipient(payer, sponsee),
                payer |-> payer, plan |-> p, via |-> v]]
          /\ pc' = [pc EXCEPT ![r] = [stripe |-> "charge", paypal |-> "stamp"][v]]
    BY <1>2 DEF StartCreate, StartCreateWith, Goto
  <2>2. /\ pc'[r] \in {"charge", "stamp"} /\ job'[r].op = "create"
        /\ \A q \in Requests \ {r} : pc'[q] = pc[q] /\ job'[q] = job[q]
    BY <1>1, <2>1
  <2>3. pc[r] = "idle" /\ UNCHANGED <<source, subs, owner, prior>>
    BY <1>2 DEF StartCreate, StartCreateWith, Accept, tables, history
  <2> QED
    BY <1>1, <2>2, <2>3 DEF BookInv, Saved, AtStripe, AfterInsert, BeforeInsert
<1>3. CASE StartUpdate(r)
  <2>1. /\ pc[r] = "idle" /\ prior' = [prior EXCEPT ![r] = Saved]
        /\ UNCHANGED <<subs, owner>>
    BY <1>3 DEF StartUpdate, StartUpdateWith, Accept, tables
  <2>2. \E j : job' = [job EXCEPT ![r] = j]
    BY <1>3 DEF StartUpdate, StartUpdateWith
  <2>3. \/ pc' = [pc EXCEPT ![r] = "failed"] /\ source' = source
        \/ /\ pc' = [pc EXCEPT ![r] = "replan"]
           /\ \E c \in Requests : owner[c] # NULL /\ source' = [source EXCEPT ![r] = c]
    <3> DEFINE sources == [s \in Requests |-> SourcesOf(s)]
    <3>1. /\ \A u : OpenSubs(u) \subseteq Requests
          /\ \A s \in Requests : sources[s] = {c \in Requests : owner[c] = s}
      BY DEF OpenSubs, SourcesOf
    <3> HIDE DEF sources
    <3>2. \/ pc' = [pc EXCEPT ![r] = "failed"] /\ source' = source
          \/ /\ pc' = [pc EXCEPT ![r] = "replan"]
             /\ \E u : \E s \in OpenSubs(u), c \in Requests :
                  c \in sources[s] /\ source' = [source EXCEPT ![r] = c]
      BY <1>3 DEF StartUpdate, StartUpdateWith, Goto, sources
    <3> QED
      BY <3>1, <3>2, ConstantsAssumption
  <2>4. \A q \in Requests \ {r} : /\ pc'[q] = pc[q] /\ job'[q] = job[q]
                                  /\ source'[q] = source[q] /\ prior'[q] = prior[q]
    BY <1>1, <2>1, <2>2, <2>3
  <2>5. /\ prior'[r] = Saved /\ pc'[r] \in {"replan", "failed"}
        /\ pc'[r] = "replan" => subs[source'[r]] # NULL
    BY <1>1, <2>1, <2>3 DEF BookInv
  <2> QED
    BY <1>1, <2>1, <2>4, <2>5 DEF BookInv, Saved, AtStripe, AfterInsert, BeforeInsert
<1>4. CASE Charge(r) \/ Replan(r) \/ Stamp(r) \/ LoadTitles(r) \/ SendMail(r)
  <2>1. /\ UNCHANGED <<job, source, subs, owner, prior>>
        /\ \/ pc[r] = "charge" /\ pc' = [pc EXCEPT ![r] = "stamp"]
           \/ pc[r] = "replan" /\ \E label \in {"stamp", "failed"} : pc' = [pc EXCEPT ![r] = label]
           \/ pc[r] = "stamp" /\ \E label \in {"load", "insert"} : pc' = [pc EXCEPT ![r] = label]
           \/ pc[r] = "titles" /\ pc' = [pc EXCEPT ![r] = "save"]
           \/ pc[r] = "mail" /\ pc' = [pc EXCEPT ![r] = "done"]
    BY <1>4 DEF Charge, Replan, ReplanTo, Stamp, StampAs, LoadTitles, LoadTitlesOnto, SendMail,
                Goto, tables, history
  <2>2. pc[r] = "charge" => job[r].op = "create"
    BY DEF PaidInv
  <2> QED
    BY <1>1, <2>1, <2>2 DEF BookInv, Saved, AtStripe, AfterInsert, BeforeInsert, Job
<1>5. CASE LoadSubscriptions(r)
  <2>1. /\ pc[r] = "load" /\ job[r].op = "create"
        /\ pc' = [pc EXCEPT ![r] = "insert"] /\ source' = [source EXCEPT ![r] = r]
        /\ prior' = [prior EXCEPT ![r] = Saved]
        /\ UNCHANGED <<job, subs, owner>>
    BY <1>5 DEF LoadSubscriptions, Goto, tables, PaidInv
  <2> QED
    BY <1>1, <2>1 DEF BookInv, Saved, AtStripe, AfterInsert, BeforeInsert
<1>6. CASE InsertSubscription(r)
  <2>1. /\ pc[r] = "insert" /\ pc' = [pc EXCEPT ![r] = "titles"]
        /\ \E row : /\ row # NULL /\ row.plan = job[r].plan
                    /\ subs' = [subs EXCEPT ![r] = row]
        /\ owner' = [owner EXCEPT ![source[r]] = r]
        /\ UNCHANGED <<job, source, prior>>
    <3>1. /\ job[r] \in Job /\ at[r] \in Time /\ pc[r] = "insert"
      BY <1>6 DEF InsertSubscription, IInv, MemoryInv
    <3> DEFINE row == [user |-> job[r].user, sponsor |-> job[r].payer, plan |-> job[r].plan,
                       started |-> at[r], ended |-> NULL]
    <3>2. row \in SubRow /\ row.plan = job[r].plan
      BY <3>1 DEF Job, SubRow
    <3>3. row # NULL
      BY <3>2, ConstantsAssumption
    <3> QED
      BY <1>6, <3>2, <3>3 DEF InsertSubscription, Goto
  <2>2. job[r].op = "create" => source[r] = r
    BY <2>1 DEF PaidInv
  <2>3. \A q \in Requests : subs[q] # NULL \/ q = r => subs'[q] # NULL
    BY <1>1, <2>1
  <2>4. source[r] \in Requests /\ subs'[source[r]] # NULL
    BY <1>1, <2>1, <2>2, <2>3 DEF BookInv, AtStripe, Job
  <2> QED
    BY <1>1, <2>1, <2>2, <2>3, <2>4 DEF BookInv, Saved, AtStripe, AfterInsert, BeforeInsert
<1>7. CASE SaveUser(r)
  <2>1. /\ pc[r] = "save" /\ \E label \in {"mail", "done"} : pc' = [pc EXCEPT ![r] = label]
        /\ UNCHANGED <<job, source, prior>>
        /\ \/ owner' = owner
           \/ job[r].op = "update" /\ owner' = [owner EXCEPT ![source[r]] = paying[r]]
    <3>1. /\ pc[r] = "save" /\ \E label \in {"mail", "done"} : pc' = [pc EXCEPT ![r] = label]
          /\ UNCHANGED <<job, source, prior>>
      BY <1>7, SaveEffect
    <3>2. \/ owner' = owner
          \/ job[r].op = "update" /\ owner' = [owner EXCEPT ![source[r]] = paying[r]]
      BY <1>7 DEF SaveUser, SaveUserEnding
    <3> QED
      BY <3>1, <3>2
  <2>2. \A s \in Requests : /\ subs'[s] = NULL <=> subs[s] = NULL
                            /\ subs'[s] # NULL => subs'[s].plan = subs[s].plan
    BY <1>7, SavedPlans
  <2>3. \A c \in Requests : owner'[c] # NULL => subs'[c] # NULL
    BY <1>1, <2>1, <2>2 DEF BookInv, AtStripe, AfterInsert
  <2>4. source[r] \in Requests /\ \A q \in Requests :
          pc'[q] \in {"replan"} \cup AtStripe /\ job[q].op = "update" => source[q] \in Requests
    BY <1>1, <2>1 DEF IInv, MemoryInv, AtStripe, AfterInsert
  <2> QED
    BY <1>1, <2>1, <2>2, <2>3, <2>4 DEF BookInv, Saved, AtStripe, AfterInsert
<1>8. CASE Raise(r) \/ LoseAnswer(r)
  BY <1>1, <1>8 DEF Raise, LoseAnswer
<1> QED
  BY <1>2, <1>3, <1>4, <1>5, <1>6, <1>7, <1>8 DEF Step

\* A step that leaves the calls to Stripe made before it as they are.
LEMMA CustomerFrame ==
    ASSUME CustomerInv,
           \A q \in Requests : pc[q] \in AtStripe =>
             /\ pc'[q] \in AtStripe /\ job'[q] = job[q] /\ source'[q] = source[q]
             /\ prior'[q] = prior[q] /\ billed'[Customer(q)] = billed[Customer(q)],
           \A q \in Requests : pc'[q] \in AtStripe /\ pc[q] \notin AtStripe =>
             \/ job'[q].via # "stripe"
             \/ job'[q].op = "create" /\ billed'[q] = job'[q].plan
    PROVE  CustomerInv'
<1> SUFFICES ASSUME NEW s \in Requests, pc'[s] \in AtStripe, job'[s].via = "stripe"
             PROVE  billed'[Customer(s)'] = job'[s].plan \/ Superseded(s)'
  BY DEF CustomerInv
<1>1. CASE pc[s] \notin AtStripe
  BY <1>1 DEF Customer
<1>2. CASE pc[s] \in AtStripe
  <2>1. Customer(s)' = Customer(s) /\ billed'[Customer(s)] = billed[Customer(s)] /\ job'[s] = job[s]
    BY <1>2 DEF Customer
  <2>2. Superseded(s) => Superseded(s)'
    BY <1>2, <2>1 DEF Superseded
  <2> QED
    BY <1>2, <2>1, <2>2 DEF CustomerInv
<1> QED
  BY <1>1, <1>2

\* Every step that does not raise keeps what is billed.
LEMMA CustomerStep ==
    ASSUME IInv, PaidInv, BookInv, CustomerInv, NEW r \in Requests, Step(r), faults' = faults
    PROVE  CustomerInv'
<1>1. /\ pc \in [Requests -> {"idle", "charge", "replan", "stamp", "load", "insert",
                              "titles", "save", "mail"} \cup Ended]
      /\ DOMAIN job = Requests /\ DOMAIN source = Requests
      /\ DOMAIN billed = Requests /\ DOMAIN prior = Requests /\ faults \in Nat
      /\ pc[r] = "replan" => source[r] \in Requests
      /\ \A q \in Requests : pc[q] \in BeforeInsert => subs[q] = NULL
      /\ \A q \in Requests : pc[q] \in AtStripe => job[q].op \in {"create", "update"}
  BY DEF IInv, TypeOK, MemoryInv, RowInv, AtStripe, AfterInsert, Job
<1>2. CASE StartCreate(r)
  <2>1. PICK payer \in Users, sponsee \in Users \cup {NULL}, p \in Plans, v \in {"stripe", "paypal"} :
          /\ job' = [job EXCEPT ![r] =
               [op |-> "create", user |-> Recipient(payer, sponsee),
                payer |-> payer, plan |-> p, via |-> v]]
          /\ pc' = [pc EXCEPT ![r] = [stripe |-> "charge", paypal |-> "stamp"][v]]
    BY <1>2 DEF StartCreate, StartCreateWith, Goto
  <2>2. /\ pc'[r] \in AtStripe => job'[r].via # "stripe"
        /\ \A q \in Requests \ {r} : pc'[q] = pc[q] /\ job'[q] = job[q]
    BY <1>1, <2>1 DEF AtStripe, AfterInsert
  <2>3. pc[r] \notin AtStripe /\ UNCHANGED <<source, billed, prior>>
    BY <1>2 DEF StartCreate, StartCreateWith, Accept, history, AtStripe, AfterInsert
  <2>4. \A q \in Requests : pc[q] \in AtStripe => q # r
    BY <2>3
  <2>5. \A q \in Requests : pc'[q] \in AtStripe /\ pc[q] \notin AtStripe =>
          job'[q].via # "stripe"
    BY <2>2
  <2> QED
    BY <2>2, <2>3, <2>4, <2>5, CustomerFrame
<1>3. CASE StartUpdate(r)
  <2>1. /\ pc[r] \notin AtStripe /\ billed' = billed
        /\ \E label \in {"replan", "failed"} : pc' = [pc EXCEPT ![r] = label]
    BY <1>3 DEF StartUpdate, StartUpdateWith, Accept, Goto, AtStripe, AfterInsert
  <2>2. /\ \E j : job' = [job EXCEPT ![r] = j]
        /\ \E old : prior' = [prior EXCEPT ![r] = old]
        /\ source' = source \/ \E c : source' = [source EXCEPT ![r] = c]
    BY <1>3 DEF StartUpdate, StartUpdateWith
  <2>3. pc'[r] \notin AtStripe
    BY <1>1, <2>1 DEF AtStripe, AfterInsert
  <2>4. \A q \in Requests \ {r} : /\ pc'[q] = pc[q] /\ job'[q] = job[q]
                                  /\ source'[q] = source[q] /\ prior'[q] = prior[q]
    BY <1>1, <2>1, <2>2
  <2> QED
    BY <2>1, <2>3, <2>4, CustomerFrame
<1>4. CASE Charge(r)
  <2>1. /\ pc[r] = "charge" /\ pc' = [pc EXCEPT ![r] = "stamp"]
        /\ billed' = [billed EXCEPT ![r] = job[r].plan]
        /\ UNCHANGED <<job, source, prior>> /\ job[r].op = "create"
    BY <1>4 DEF Charge, Goto, history, PaidInv
  <2>2. pc[r] \notin AtStripe /\ billed'[r] = job[r].plan
    BY <1>1, <2>1 DEF AtStripe, AfterInsert
  <2>3. \A q \in Requests : pc[q] \in AtStripe => Customer(q) # r
    <3>1. subs[r] = NULL
      BY <1>1, <2>1 DEF BeforeInsert
    <3> QED
      BY <1>1, <2>2, <3>1 DEF BookInv, Customer
  <2>4. /\ \A q \in Requests \ {r} : pc'[q] = pc[q]
        /\ \A c : c # r => billed'[c] = billed[c]
        /\ pc'[r] = "stamp"
    BY <1>1, <2>1
  <2> QED
    BY <2>1, <2>2, <2>3, <2>4, CustomerFrame
<1>5. CASE Replan(r)
  <2>1. /\ pc[r] = "replan" /\ job[r].op = "update" /\ source[r] \in Requests
        /\ UNCHANGED <<job, source, prior>>
    BY <1>1, <1>5 DEF Replan, ReplanTo, history, PaidInv
  <2>2. pc[r] \notin AtStripe /\ r \notin Saved
    BY <2>1 DEF AtStripe, AfterInsert, Saved
  <2>3. CASE pc' = [pc EXCEPT ![r] = "failed"] /\ billed' = billed
    <3>1. pc'[r] \notin AtStripe /\ \A q \in Requests \ {r} : pc'[q] = pc[q]
      BY <1>1, <2>3 DEF AtStripe, AfterInsert
    <3> QED
      BY <2>1, <2>2, <2>3, <3>1, CustomerFrame
  <2>4. CASE /\ pc' = [pc EXCEPT ![r] = "stamp"]
             /\ billed' = [billed EXCEPT ![source[r]] = job[r].plan]
    <3> SUFFICES ASSUME NEW s \in Requests, pc'[s] \in AtStripe, job'[s].via = "stripe"
                 PROVE  billed'[Customer(s)'] = job'[s].plan \/ Superseded(s)'
      BY DEF CustomerInv
    <3>1. /\ pc'[r] \in AtStripe /\ \A q \in Requests \ {r} : pc'[q] = pc[q]
          /\ billed'[source[r]] = job[r].plan
          /\ \A c : c # source[r] => billed'[c] = billed[c]
          /\ Customer(s)' = Customer(s)
      BY <1>1, <2>1, <2>4 DEF AtStripe, Customer
    <3>2. CASE s = r
      BY <2>1, <3>1, <3>2 DEF Customer
    <3>3. CASE s # r /\ Customer(s) = source[r]
      <4>1. r \notin prior[s]
        BY <2>2 DEF BookInv
      <4> QED
        BY <2>1, <3>1, <3>3, <4>1 DEF Superseded
    <3>4. CASE s # r /\ Customer(s) # source[r]
      <4>1. Superseded(s) => Superseded(s)'
        BY <2>1, <2>2, <3>1 DEF Superseded
      <4> QED
        BY <2>1, <3>1, <3>4, <4>1 DEF CustomerInv
    <3> QED
      BY <3>2, <3>3, <3>4
  <2> QED
    BY <1>5, <2>3, <2>4 DEF Replan, ReplanTo, Goto
<1>6. CASE LoadSubscriptions(r)
  <2>1. /\ pc[r] = "load" /\ job[r].op = "create"
        /\ pc' = [pc EXCEPT ![r] = "insert"] /\ source' = [source EXCEPT ![r] = r]
        /\ prior' = [prior EXCEPT ![r] = Saved]
        /\ UNCHANGED <<job, billed>>
    BY <1>6 DEF LoadSubscriptions, Goto, PaidInv
  <2> SUFFICES ASSUME NEW s \in Requests, pc'[s] \in AtStripe, job'[s].via = "stripe"
               PROVE  billed'[Customer(s)'] = job'[s].plan \/ Superseded(s)'
    BY DEF CustomerInv
  <2>2. /\ \A q \in Requests : pc'[q] \in AtStripe <=> pc[q] \in AtStripe
        /\ \A q \in Requests \ {r} : source'[q] = source[q] /\ prior'[q] = prior[q]
        /\ Customer(s)' = Customer(s)
    BY <1>1, <2>1 DEF AtStripe, AfterInsert, Customer
  <2>3. CASE s = r
    <3>1. subs[r] = NULL /\ Customer(r) = r
      BY <1>1, <2>1 DEF BeforeInsert, Customer
    <3>2. ~Superseded(r)
      BY <3>1 DEF Superseded, BookInv
    <3> QED
      BY <2>1, <2>2, <2>3, <3>2 DEF CustomerInv
  <2>4. CASE s # r
    <3>1. Superseded(s) => Superseded(s)'
      BY <2>1, <2>2, <2>4 DEF Superseded
    <3> QED
      BY <2>1, <2>2, <2>4, <3>1 DEF CustomerInv
  <2> QED
    BY <2>3, <2>4
<1>7. CASE Stamp(r) \/ InsertSubscription(r) \/ LoadTitles(r) \/ SaveUser(r) \/ SendMail(r)
  <2>1. /\ UNCHANGED <<job, source, billed, prior>> /\ pc[r] \in AtStripe
        /\ \E label \in AtStripe : pc' = [pc EXCEPT ![r] = label]
    BY <1>7 DEF Stamp, StampAs, InsertSubscription, LoadTitles, LoadTitlesOnto, SaveUser,
                SaveUserEnding, SendMail, Goto, history, AtStripe, AfterInsert
  <2>2. \A q \in Requests : pc'[q] \in AtStripe <=> pc[q] \in AtStripe
    BY <1>1, <2>1
  <2> QED
    BY <2>1, <2>2, CustomerFrame
<1>8. CASE Raise(r) \/ LoseAnswer(r)
  BY <1>1, <1>8 DEF Raise, LoseAnswer
<1> QED
  BY <1>2, <1>3, <1>4, <1>5, <1>6, <1>7, <1>8 DEF Step

\* Exceptions are counted.
LEMMA BilledStep ==
    IInv /\ PaidInv /\ (faults = 0 => BookInv /\ CustomerInv) /\ [Next]_vars =>
        (faults' = 0 => BookInv' /\ CustomerInv')
<1> SUFFICES ASSUME IInv, PaidInv, faults = 0 => BookInv /\ CustomerInv, [Next]_vars, faults' = 0
             PROVE  BookInv' /\ CustomerInv'
  OBVIOUS
<1>1. CASE UNCHANGED vars \/ Tick
  <2>1. UNCHANGED <<faults, pc, job, source, subs, owner, billed, prior>>
    BY <1>1 DEF vars, Tick, memory, tables, history
  <2> QED
    BY <2>1 DEF BookInv, CustomerInv, Saved, Superseded, Customer
<1>2. ASSUME NEW r \in Requests, Step(r) PROVE BookInv' /\ CustomerInv'
  <2>1. faults \in Nat /\ (faults' = faults \/ faults' = faults + 1)
    BY <1>2, ConstantsAssumption
       DEF IInv, TypeOK, Step, StartCreate, StartCreateWith, Charge, StartUpdate, StartUpdateWith,
           Replan, ReplanTo, Stamp, StampAs, LoadSubscriptions, InsertSubscription, LoadTitles,
           LoadTitlesOnto, SaveUser, SaveUserEnding, SendMail, Raise, LoseAnswer
  <2>2. faults' = faults
    BY <2>1
  <2> QED
    BY <1>2, <2>2, BookStep, CustomerStep
<1> QED
  BY <1>1, <1>2 DEF Next

\* With no request under way, none that failed and none that overlapped another
\* of the same user, Stripe bills what the open subscription says.
THEOREM BillsWhatIsOpen == Spec => []BilledForOpenPlan
<1> DEFINE BilledInv == faults = 0 => BookInv /\ CustomerInv
<1>1. Init => BilledInv
  BY ConstantsAssumption DEF Init, BookInv, CustomerInv, AtStripe, AfterInsert, Saved
<1>2. IInv /\ PaidInv /\ BilledInv /\ [Next]_vars => BilledInv'
  BY BilledStep
<1>3. IInv /\ PaidInv /\ SourceInv /\ BilledInv => BilledForOpenPlan
  <2> SUFFICES ASSUME IInv, PaidInv, SourceInv, BookInv, CustomerInv, InFlight = {}, NEW u \in Users,
                      ~ \E q, r \in {s \in Saved : job[s].user = u} : q # r /\ ~InSequence(q, r),
                      NEW s \in OpenSubs(u), job[s].via = "stripe"
               PROVE  billed[source[s]] = subs[s].plan
    BY DEF BilledForOpenPlan
  <2>1. /\ s \in Requests /\ subs[s] # NULL /\ subs[s].ended = NULL /\ subs[s].user = u
        /\ job[s].user = u /\ subs[s].plan = job[s].plan
    BY DEF OpenSubs, IInv, RowInv, BookInv
  <2>2. pc[s] = "done" /\ s \in Saved
    BY <2>1 DEF IInv, TypeOK, RowInv, BeforeInsert, BookInv, InFlight, Ended, Saved
  <2>3. job[s] \in Job
    BY <2>1, <2>2 DEF IInv, MemoryInv
  <2>4. Customer(s) = source[s] /\ source[s] \in Requests
    BY <2>1, <2>2 DEF Customer, BookInv, AfterInsert, PaidInv
  <2>5. CASE billed[Customer(s)] = job[s].plan
    BY <2>1, <2>4, <2>5
  <2>6. ASSUME NEW r \in Requests \ {s}, pc[r] \in AtStripe, source[r] = Customer(s), r \notin prior[s]
        PROVE  FALSE
    <3>1. pc[r] = "done" /\ r \in Saved
      BY <2>6 DEF InFlight, Ended, AtStripe, AfterInsert, Saved
    <3>2. job[r].user = u
      BY <2>1, <2>4, <2>6, ConstantsAssumption DEF SourceInv
    <3>3. s \in prior[r]
      BY <2>1, <2>2, <2>6, <3>1, <3>2 DEF InSequence
    <3> QED
      BY <2>1, <3>1, <3>2, <3>3 DEF IInv, PriorInv, SeenEndedInv
  <2> QED
    BY <2>1, <2>2, <2>5, <2>6 DEF CustomerInv, Superseded, AtStripe, AfterInsert
<1> HIDE DEF BilledInv
<1> QED
  BY <1>1, <1>2, <1>3, Invariant, InitPayment, PaidStep, SourceStep, PTL DEF Spec
=============================================================================
