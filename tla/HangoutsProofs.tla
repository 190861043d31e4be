---------------------------- MODULE HangoutsProofs ----------------------------
(***************************************************************************)
(* Proofs about Hangouts, for any finite set of requests and any links,    *)
(* videos, events and bounds: types, that a premium hangout is never       *)
(* announced in a public channel, that every link a hangout shows was      *)
(* announced, that the Gitter room gets a message again only when two      *)
(* requests raced, and what holds while requests come one at a time.       *)
(***************************************************************************)
EXTENDS MCHangouts, FiniteSetTheorems, SequenceTheorems, TLAPS

\* What a request has looked up before the statement that uses it.
MemoryInv ==
    \A r \in Requests :
        /\ pc[r] # "idle" => form[r] \in Form
        /\ pc[r] \notin {"idle", "page"} => kind[r] \in Kinds \cup {"edit"}
        /\ pc[r] = "save" => found[r] \in Requests /\ loaded[r] \in Row
        /\ pc[r] = "save" => rows[found[r]] \in Row

\* What may be posted: nothing public about a premium event, and only links in
\* the Gitter room.
Allowed ==
    {m \in [to : Channels, what : Links \cup Videos] :
        /\ event.premium => m.to \in Private
        /\ m.to = "gitter" => m.what \in Links}

QueueInv ==
    /\ todo \in [Requests -> Seq(Allowed)]
    /\ \A r \in Requests :
         pc[r] = "gitter" => todo[r] # <<>> /\ Head(todo[r]).to = "gitter"

\* A request that has not inserted its row has none, and one of the event's
\* rows is the last one.
Past == {"save", "post", "gitter", "done"}
OrderInv ==
    /\ \A r \in Requests : pc[r] \notin Past => rows[r] = NULL
    /\ Recent # {} =>
         \E i \in Recent : \A j \in Recent : rows[j].created <= rows[i].created

IInv == TypeOK /\ MemoryInv /\ OrderInv /\ QueueInv /\ PremiumStaysPrivate

-----------------------------------------------------------------------------
Labels == {"idle", "page", "find", "create", "save", "post", "gitter", "done"}

\* A step moves one request, and in one direction only.
LEMMA StepLabels ==
    ASSUME TypeOK, NEW r \in Requests, Step(r)
    PROVE  /\ \A q \in Requests \ {r} : pc'[q] = pc[q]
           /\ pc[r] # "done"
           /\ pc[r] = "idle" => pc'[r] \notin {"idle", "done"}
           /\ pc[r] \in Past => pc'[r] \in Past
<1>1. pc \in [Requests -> Labels] /\ pc[r] \in Labels
  BY DEF TypeOK, Labels
<1>2. CASE OpenPage(r) \/ Resend(r) \/ FindForEdit(r)
  BY <1>1, <1>2 DEF OpenPage, OpenPageWith, Resend, FindForEdit, Goto, Past
<1>3. CASE Submit(r) \/ Find(r) \/ Create(r)
  BY <1>1, <1>3 DEF Submit, Find, FindAmong, Create, CreateAt, Goto, Past
<1>4. CASE Save(r) \/ SaveEdit(r) \/ PostToSlack(r) \/ ReadGitter(r)
  BY <1>1, <1>4 DEF Save, SaveAnnouncing, SaveEdit, PostToSlack, ReadGitter, ReadGitterSeeing,
                    Goto, Past
<1>5. CASE SendToGitter(r) \/ RaisePosting(r) \/ Respond(r)
  BY <1>1, <1>5 DEF SendToGitter, RaisePosting, Respond, Goto, Past
<1> QED
  BY <1>2, <1>3, <1>4, <1>5 DEF Step

\* ... and leaves the fields and the messages of the others alone.
LEMMA StepOthers ==
    ASSUME TypeOK, NEW r \in Requests, Step(r)
    PROVE  \A q \in Requests \ {r} :
             pc'[q] = pc[q] /\ form'[q] = form[q] /\ todo'[q] = todo[q]
<1>1. DOMAIN form = Requests /\ DOMAIN todo = Requests
  BY DEF TypeOK
<1>2. CASE OpenPage(r) \/ Resend(r) \/ Submit(r) \/ FindForEdit(r)
  BY <1>1, <1>2, StepLabels DEF OpenPage, OpenPageWith, Resend, Submit, FindForEdit
<1>3. CASE Find(r) \/ Create(r) \/ Save(r) \/ SaveEdit(r)
  BY <1>1, <1>3, StepLabels DEF Find, FindAmong, Create, CreateAt, Save, SaveAnnouncing, SaveEdit
<1>4. CASE PostToSlack(r) \/ ReadGitter(r) \/ SendToGitter(r) \/ RaisePosting(r) \/ Respond(r)
  BY <1>1, <1>4, StepLabels
     DEF PostToSlack, ReadGitter, ReadGitterSeeing, SendToGitter, Posted, RaisePosting, Respond
<1> QED
  BY <1>2, <1>3, <1>4 DEF Step

-----------------------------------------------------------------------------
\* The channels of the two services.
LEMMA OwnChannelsType ==
    ASSUME NEW e \in Event
    PROVE  e.channels \in Seq(Channels \ {"gitter"}) /\ e.channels \in Seq(Channels)
<1>1. e.channels \in {<<>>, <<"project">>, <<"cs169">>}
  BY DEF Event
<1>2. <<>> \in Seq(Channels \ {"gitter"}) /\ <<>> \in Seq(Channels)
  OBVIOUS
<1>3. "project" \in Channels \ {"gitter"} /\ "cs169" \in Channels \ {"gitter"}
  BY DEF Channels
<1>4. \A c \in Channels \ {"gitter"} : <<c>> \in Seq(Channels \ {"gitter"}) /\ <<c>> \in Seq(Channels)
  OBVIOUS
<1> QED
  BY <1>1, <1>2, <1>3, <1>4

\* The channels of an event's category are channels.
LEMMA CategoryChannelsType ==
    ASSUME NEW e \in Event
    PROVE  CategoryChannels(e) \in Seq(Channels)
<1>1. \A c, d \in Channels : <<c, d>> \in Seq(Channels)
  OBVIOUS
<1>2. {"general", "standup_notifications", "gitter", "pairing_notifications"} \subseteq Channels
  BY DEF Channels
<1> DEFINE first ==
      CASE e.category = "Scrum" -> <<"general", "standup_notifications">>
        [] e.category = "PairProgramming" ->
             <<IF Contains(e.channels, "cs169") THEN "gitter" ELSE "general",
               "pairing_notifications">>
        [] OTHER -> <<>>
<1>3. first \in Seq(Channels)
  <2>1. CASE e.category = "Scrum"
    <3>1. first = <<"general", "standup_notifications">>
      BY <2>1
    <3> QED
      BY <1>1, <1>2, <3>1
  <2>2. CASE e.category = "PairProgramming"
    <3>1. PICK c \in {"gitter", "general"} : first = <<c, "pairing_notifications">>
      BY <2>2
    <3> QED
      BY <1>1, <1>2, <3>1
  <2>3. CASE e.category \notin {"Scrum", "PairProgramming"}
    <3>1. first = <<>>
      BY <2>3
    <3> QED
      BY <3>1
  <2> QED
    BY <2>1, <2>2, <2>3
<1>4. CategoryChannels(e) = first \o e.channels
  BY DEF CategoryChannels
<1> HIDE DEF first
<1> QED
  BY <1>3, <1>4, OwnChannelsType, ConcatProperties

\* Of a premium event's hangout only private channels are told.
LEMMA HangoutChannelsType ==
    ASSUME NEW e \in Event
    PROVE  /\ HangoutChannels(e) \in Seq(Channels)
           /\ e.premium => HangoutChannels(e) \in Seq(Private)
<1>1. PremiumMobChannels \in Seq(Private) /\ PremiumMobChannels \in Seq(Channels)
  BY DEF PremiumMobChannels, Private, Channels
<1> QED
  BY <1>1, CategoryChannelsType DEF HangoutChannels

\* So of its video, which is not told in Gitter.
LEMMA YoutubeChannelsType ==
    ASSUME NEW e \in Event
    PROVE  /\ YoutubeChannels(e) \in Seq(Channels \ {"gitter"})
           /\ e.premium => YoutubeChannels(e) \in Seq(Private)
<1> DEFINE first ==
      IF \/ e.category = "Scrum"
         \/ e.category = "PairProgramming" /\ ~Contains(e.channels, "cs169")
      THEN <<"general">> ELSE <<>>
<1>1. first \in Seq(Channels \ {"gitter"})
  <2>1. <<"general">> \in Seq(Channels \ {"gitter"})
    BY DEF Channels
  <2>2. first = <<"general">> \/ first = <<>>
    OBVIOUS
  <2>3. <<>> \in Seq(Channels \ {"gitter"})
    OBVIOUS
  <2> HIDE DEF first
  <2> QED
    BY <2>1, <2>2, <2>3
<1>2. <<"premium_extra">> \in Seq(Private) /\ <<"premium_extra">> \in Seq(Channels \ {"gitter"})
  BY DEF Private, Channels
<1>3. YoutubeChannels(e) = IF e.premium THEN <<"premium_extra">> ELSE first \o e.channels
  BY DEF YoutubeChannels
<1> HIDE DEF first
<1> QED
  BY <1>1, <1>2, <1>3, OwnChannelsType, ConcatProperties

\* One message to each channel.
LEMMA MessagesType ==
    ASSUME NEW S, NEW channels \in Seq(S), NEW what
    PROVE  Messages(channels, what) \in Seq([to : S, what : {what}])
BY DEF Messages

-----------------------------------------------------------------------------
\* Saving: what is assigned, what is written.
LEMMA AssignedType ==
    ASSUME TypeOK, MemoryInv, NEW r \in Requests, pc[r] = "save"
    PROVE  /\ Assigned(r) \in Row
           /\ Assigned(r).url = form[r].url /\ Assigned(r).yt = form[r].yt
           /\ Assigned(r).updated = now
<1>1. form[r] \in Form /\ loaded[r] \in Row
  BY DEF MemoryInv
<1>2. (kind[r] # "callback") \in BOOLEAN /\ now \in 0..MaxTime
  BY DEF TypeOK
<1> QED
  BY <1>1, <1>2 DEF Assigned, Form, Row

\* A save writes the row that was found, and no other.
LEMMA WriteEffect ==
    ASSUME TypeOK, MemoryInv, NEW r \in Requests, pc[r] = "save",
           NEW mem \in Row, mem.updated = now, Write(r, mem)
    PROVE  /\ rows' \in [Requests -> Row \cup {NULL}]
           /\ rows'[found[r]] \in Row /\ rows'[found[r]].updated = now
           /\ rows[found[r]] \in Row /\ rows'[found[r]].created = rows[found[r]].created
           /\ \A i \in Requests : i # found[r] => rows'[i] = rows[i]
<1>1. found[r] \in Requests /\ loaded[r] \in Row /\ rows[found[r]] \in Row
  BY DEF MemoryInv
<1> DEFINE new == Merged(r, mem, rows[found[r]])
<1>2. new \in Row /\ new.updated = now /\ new.created = rows[found[r]].created
  <2> DEFINE old == rows[found[r]]
             url == Dirty(mem.url, loaded[r].url, old.url)
             yt == Dirty(mem.yt, loaded[r].yt, old.yt)
             status == Dirty(mem.status, loaded[r].status, old.status)
             direct == Dirty(mem.direct, loaded[r].direct, old.direct)
             event_id == Dirty(mem.event_id, loaded[r].event_id, old.event_id)
  <2>1. /\ url \in Links \cup {NULL} /\ yt \in Videos \cup {NULL}
        /\ status \in {NULL, "live", "finished"} /\ direct \in BOOLEAN /\ event_id \in BOOLEAN
    BY <1>1 DEF Row, Dirty
  <2>2. new = [old EXCEPT !.url = url, !.yt = yt, !.status = status,
                          !.direct = direct, !.event_id = event_id, !.updated = mem.updated]
    BY DEF Merged
  <2> HIDE DEF new, url, yt, status, direct, event_id
  <2> QED
    BY <1>1, <2>1, <2>2 DEF Row
<1>3. rows' = [rows EXCEPT ![found[r]] = new]
  BY DEF Write
<1> HIDE DEF new
<1> QED
  BY <1>1, <1>2, <1>3 DEF TypeOK

\* What a request has to post after a save may be posted.
LEMMA AnnouncementsAllowed ==
    ASSUME TypeOK, MemoryInv, NEW r \in Requests, Save(r)
    PROVE  \E messages \in Seq(Allowed) : todo' = [todo EXCEPT ![r] = messages]
<1> DEFINE mem == Assigned(r)
           hangout == IF HangoutDue(r, mem)
                      THEN Messages(HangoutChannels(event), mem.url) ELSE <<>>
           youtube == IF YoutubeDue(r, mem)
                      THEN Messages(YoutubeChannels(event), mem.yt) ELSE <<>>
<1>1. todo' = [todo EXCEPT ![r] = hangout \o youtube] /\ pc[r] = "save"
  BY DEF Save, SaveAnnouncing
<1>2. mem \in Row
  BY <1>1, AssignedType
<1>3. event \in Event
  BY DEF TypeOK
<1>4. hangout \in Seq(Allowed)
  <2>1. CASE HangoutDue(r, mem)
    <3>1. mem.url \in Links
      BY <1>2, <2>1 DEF HangoutDue, Row
    <3> DEFINE S == IF event.premium THEN Private ELSE Channels
    <3>2. HangoutChannels(event) \in Seq(S)
      BY <1>3, HangoutChannelsType
    <3>3. [to : S, what : {mem.url}] \subseteq Allowed
      BY <3>1 DEF Allowed, Private, Channels
    <3> HIDE DEF S
    <3>4. hangout \in Seq([to : S, what : {mem.url}])
      BY <2>1, <3>2, MessagesType
    <3> QED
      BY <3>3, <3>4, SeqMonotonic
  <2>2. CASE ~HangoutDue(r, mem)
    BY <2>2
  <2> QED
    BY <2>1, <2>2
<1>5. youtube \in Seq(Allowed)
  <2>1. CASE YoutubeDue(r, mem)
    <3>1. mem.yt \in Videos
      BY <1>2, <2>1 DEF YoutubeDue, Row
    <3> DEFINE S == IF event.premium THEN Private ELSE Channels \ {"gitter"}
    <3>2. YoutubeChannels(event) \in Seq(S)
      BY <1>3, YoutubeChannelsType
    <3>3. [to : S, what : {mem.yt}] \subseteq Allowed
      BY <3>1 DEF Allowed, Private, Channels
    <3> HIDE DEF S
    <3>4. youtube \in Seq([to : S, what : {mem.yt}])
      BY <2>1, <3>2, MessagesType
    <3> QED
      BY <3>3, <3>4, SeqMonotonic
  <2>2. CASE ~YoutubeDue(r, mem)
    BY <2>2
  <2> QED
    BY <2>1, <2>2
<1> HIDE DEF hangout, youtube
<1> QED
  BY <1>1, <1>4, <1>5, ConcatProperties

-----------------------------------------------------------------------------
\* The messages: those still to be posted, those posted, those in the room.
MessagesInv ==
    /\ QueueInv
    /\ log \subseteq (Requests \X Channels \X (Links \cup Videos))
    /\ gitter \in Seq(GitterMessage \cup {NULL})
    /\ PremiumStaysPrivate

\* Posting the next message.
LEMMA PostedEffect ==
    ASSUME MessagesInv, NEW r \in Requests, todo[r] # <<>>, Posted(r), event' = event
    PROVE  /\ todo' \in [Requests -> Seq(Allowed)]
           /\ \A q \in Requests : q # r => todo'[q] = todo[q]
           /\ log' \subseteq (Requests \X Channels \X (Links \cup Videos))
           /\ PremiumStaysPrivate'
           /\ Head(todo[r]).to = "gitter" => Head(todo[r]).what \in Links
<1>1. todo[r] \in Seq(Allowed)
  BY DEF MessagesInv, QueueInv
<1>2. Head(todo[r]) \in Allowed /\ Tail(todo[r]) \in Seq(Allowed)
  BY <1>1, HeadTailProperties
<1>3. log' = log \cup {<<r, Head(todo[r]).to, Head(todo[r]).what>>}
  BY DEF Posted
<1>4. /\ Head(todo[r]).to \in Channels /\ Head(todo[r]).what \in Links \cup Videos
      /\ event.premium => Head(todo[r]).to \in Private
      /\ Head(todo[r]).to = "gitter" => Head(todo[r]).what \in Links
  BY <1>2 DEF Allowed
<1>5. /\ todo' \in [Requests -> Seq(Allowed)]
      /\ \A q \in Requests : q # r => todo'[q] = todo[q]
  BY <1>2 DEF Posted, MessagesInv, QueueInv
<1>6. PremiumStaysPrivate'
  BY <1>3, <1>4 DEF MessagesInv, PremiumStaysPrivate
<1> QED
  BY <1>3, <1>4, <1>5, <1>6 DEF MessagesInv

\* Every step keeps the messages allowed.
LEMMA MessagesStep == IInv /\ [Next]_vars => MessagesInv'
<1> SUFFICES ASSUME IInv, [Next]_vars PROVE MessagesInv'
  OBVIOUS
<1>0. MessagesInv
  BY DEF IInv, MessagesInv, TypeOK
<1>1. event' = event
  BY DEF Next, vars, Tick, Chat, Step, OpenPage, OpenPageWith, Resend, Submit, Find, FindAmong,
         Create, CreateAt, Save, SaveAnnouncing, FindForEdit, SaveEdit, PostToSlack,
         ReadGitter, ReadGitterSeeing, SendToGitter, RaisePosting, Respond
<1>2. Allowed' = Allowed
  BY <1>1 DEF Allowed
<1>3. pc \in [Requests -> {"idle", "page", "find", "create", "save", "post", "gitter", "done"}]
  BY DEF IInv, TypeOK
<1> DEFINE Quiet(r) ==
      /\ UNCHANGED <<todo, log, gitter>>
      /\ \E label : label # "gitter" /\ pc' = [pc EXCEPT ![r] = label]
<1>4. ASSUME NEW r \in Requests, Quiet(r) PROVE MessagesInv'
  BY <1>0, <1>1, <1>2, <1>3, <1>4 DEF MessagesInv, QueueInv, PremiumStaysPrivate
<1>5. CASE UNCHANGED vars \/ Tick
  BY <1>0, <1>2, <1>5 DEF vars, Tick, MessagesInv, QueueInv, PremiumStaysPrivate
<1>7. CASE Chat
  <2>1. gitter' \in Seq(GitterMessage \cup {NULL})
    BY <1>0, <1>7 DEF Chat, MessagesInv
  <2> QED
    BY <1>0, <1>2, <1>7, <2>1 DEF Chat, MessagesInv, QueueInv, PremiumStaysPrivate
<1>6. ASSUME NEW r \in Requests, Step(r) PROVE MessagesInv'
  <2>1. CASE OpenPage(r) \/ Resend(r) \/ Submit(r) \/ Find(r) \/ Create(r)
             \/ FindForEdit(r) \/ SaveEdit(r) \/ Respond(r)
    <3>1. Quiet(r)
      BY <2>1 DEF OpenPage, OpenPageWith, Resend, Submit, Find, FindAmong, Create, CreateAt,
                  FindForEdit, SaveEdit, Respond, Goto
    <3> QED
      BY <3>1, <1>4
  <2>2. CASE Save(r)
    <3>1. PICK messages \in Seq(Allowed) : todo' = [todo EXCEPT ![r] = messages]
      BY <2>2, AnnouncementsAllowed DEF IInv
    <3>2. pc' = [pc EXCEPT ![r] = "post"] /\ UNCHANGED <<log, gitter>>
      BY <2>2 DEF Save, SaveAnnouncing, Goto
    <3> QED
      BY <1>0, <1>1, <1>2, <1>3, <3>1, <3>2 DEF MessagesInv, QueueInv, PremiumStaysPrivate
  <2>3. CASE PostToSlack(r)
    <3>1. todo[r] # <<>> /\ Posted(r) /\ pc[r] = "post" /\ UNCHANGED <<pc, gitter>>
      BY <2>3 DEF PostToSlack
    <3> QED
      BY <1>0, <1>1, <1>2, <1>3, <3>1, PostedEffect DEF MessagesInv, QueueInv
  <2>4. CASE ReadGitter(r)
    <3>1. todo[r] # <<>> /\ Head(todo[r]).to = "gitter" /\ pc[r] = "post"
          /\ UNCHANGED <<log, gitter>>
      BY <2>4 DEF ReadGitter, ReadGitterSeeing
    <3>2. CASE todo' = [todo EXCEPT ![r] = Tail(@)] /\ UNCHANGED pc
      <4>1. Tail(todo[r]) \in Seq(Allowed)
        BY <1>0, <3>1, HeadTailProperties DEF MessagesInv, QueueInv
      <4> QED
        BY <1>0, <1>1, <1>2, <1>3, <3>1, <3>2, <4>1 DEF MessagesInv, QueueInv, PremiumStaysPrivate
    <3>3. CASE pc' = [pc EXCEPT ![r] = "gitter"] /\ UNCHANGED todo
      BY <1>0, <1>1, <1>2, <1>3, <3>1, <3>3 DEF MessagesInv, QueueInv, PremiumStaysPrivate
    <3> QED
      BY <2>4, <3>2, <3>3 DEF ReadGitter, ReadGitterSeeing, Goto
  <2>5. CASE SendToGitter(r)
    <3>1. /\ pc[r] = "gitter" /\ Posted(r)
          /\ gitter' = Append(gitter, StartingNow(r))
          /\ pc' = [pc EXCEPT ![r] = "post"]
      BY <2>5 DEF SendToGitter, Goto
    <3>2. todo[r] # <<>> /\ Head(todo[r]).to = "gitter"
      BY <1>0, <3>1 DEF MessagesInv, QueueInv
    <3>3. gitter' \in Seq(GitterMessage \cup {NULL})
      <4>1. Head(todo[r]).what \in Links
        BY <1>0, <1>1, <3>1, <3>2, PostedEffect
      <4>2. form[r] \in Form
        BY <3>1 DEF IInv, MemoryInv
      <4>3. StartingNow(r) \in GitterMessage
        BY <4>1, <4>2 DEF StartingNow, Form, GitterMessage
      <4> QED
        BY <1>0, <3>1, <4>3 DEF MessagesInv
    <3> QED
      BY <1>0, <1>1, <1>2, <1>3, <3>1, <3>2, <3>3, PostedEffect DEF MessagesInv, QueueInv
  <2>6. CASE RaisePosting(r)
    <3>1. /\ todo' = [todo EXCEPT ![r] = <<>>] /\ pc' = [pc EXCEPT ![r] = "done"]
          /\ UNCHANGED <<log, gitter>>
      BY <2>6 DEF RaisePosting, Goto
    <3>2. <<>> \in Seq(Allowed)
      OBVIOUS
    <3> QED
      BY <1>0, <1>1, <1>2, <1>3, <3>1, <3>2 DEF MessagesInv, QueueInv, PremiumStaysPrivate
  <2> QED
    BY <1>6, <2>1, <2>2, <2>3, <2>4, <2>5, <2>6 DEF Step
<1> QED
  BY <1>5, <1>6, <1>7 DEF Next

-----------------------------------------------------------------------------
\* A page's form holds what was stored.
LEMMA FormForType ==
    ASSUME TypeOK, OrderInv, NEW r \in Requests, NEW byline \in Bylines
    PROVE  FormFor(r, byline) \in Form
<1>1. LastHangout = NULL \/ (LastHangout \in Stored /\ rows[LastHangout] \in Row)
  <2>1. CASE Recent = {}
    BY <2>1 DEF LastHangout
  <2>2. CASE Recent # {}
    <3>1. LastHangout \in Recent
      BY <2>2 DEF LastHangout, OrderInv
    <3> QED
      BY <3>1 DEF Recent, Stored, TypeOK
  <2> QED
    BY <2>1, <2>2
<1> QED
  BY <1>1 DEF FormFor, Form, Row, Uids

\* Nothing but an insert and a save touches the rows; both leave rows of the
\* right kind, stamped with the present.
LEMMA RowsStep == IInv /\ [Next]_vars =>
    /\ rows' \in [Requests -> Row \cup {NULL}]
    /\ \A i \in Stored' : rows'[i].updated <= now'
    /\ \A i \in Requests : rows[i] \in Row => rows'[i] \in Row
<1> SUFFICES ASSUME IInv, [Next]_vars
             PROVE  /\ rows' \in [Requests -> Row \cup {NULL}]
                    /\ \A i \in Stored' : rows'[i].updated <= now'
                    /\ \A i \in Requests : rows[i] \in Row => rows'[i] \in Row
  OBVIOUS
<1> USE DEF Stored
<1>1. /\ TypeOK /\ MemoryInv
      /\ rows \in [Requests -> Row \cup {NULL}]
      /\ \A i \in Stored : rows[i].updated <= now
      /\ now \in 0..MaxTime /\ MaxTime \in Nat
  BY HangoutsAssumption DEF IInv, TypeOK
<1>2. CASE UNCHANGED vars \/ Chat
  BY <1>1, <1>2 DEF vars, Chat
<1>3. CASE Tick
  <2>1. \A i \in Stored : rows[i].updated \in 0..MaxTime
    BY <1>1 DEF Row
  <2> QED
    BY <1>1, <1>3, <2>1 DEF Tick
<1>4. ASSUME NEW r \in Requests, Step(r)
      PROVE  /\ rows' \in [Requests -> Row \cup {NULL}]
             /\ \A i \in Stored' : rows'[i].updated <= now'
             /\ \A i \in Requests : rows[i] \in Row => rows'[i] \in Row
  <2>1. CASE UNCHANGED <<rows, now>>
    BY <1>1, <2>1
  <2>2. CASE Create(r)
    <3> DEFINE row == [uid |-> form[r].uid, url |-> NULL, yt |-> NULL, status |-> NULL,
                       direct |-> FALSE, event_id |-> FALSE,
                       created |-> Cardinality(Stored), updated |-> now]
    <3>1. pc[r] = "create" /\ rows' = [rows EXCEPT ![r] = row] /\ now' = now
      BY <2>2 DEF Create, CreateAt
    <3>2. Cardinality(Stored) \in Nat
      BY HangoutsAssumption, FS_Subset, FS_CardinalityType
    <3>3. form[r].uid \in Uids
      BY <1>1, <3>1 DEF MemoryInv, Form
    <3>4. row \in Row /\ row.updated = now
      BY <1>1, <3>2, <3>3 DEF Row
    <3> HIDE DEF row
    <3> QED
      BY <1>1, <3>1, <3>4
  <2>3. ASSUME pc[r] = "save", NEW mem \in Row, mem.updated = now, Write(r, mem), now' = now
        PROVE  /\ rows' \in [Requests -> Row \cup {NULL}]
               /\ \A i \in Stored' : rows'[i].updated <= now'
               /\ \A i \in Requests : rows[i] \in Row => rows'[i] \in Row
    <3>1. /\ rows' \in [Requests -> Row \cup {NULL}]
          /\ rows'[found[r]] \in Row /\ rows'[found[r]].updated = now
          /\ \A i \in Requests : i # found[r] => rows'[i] = rows[i]
      BY <1>1, <2>3, WriteEffect
    <3> QED
      BY <1>1, <2>3, <3>1
  <2>4. CASE Save(r)
    <3>1. pc[r] = "save" /\ Write(r, Assigned(r)) /\ now' = now
      BY <2>4 DEF Save, SaveAnnouncing
    <3> QED
      BY <1>1, <2>3, <3>1, AssignedType
  <2>5. CASE SaveEdit(r)
    <3> DEFINE mem == [loaded[r] EXCEPT !.yt = form[r].yt, !.status = form[r].status]
    <3>1. pc[r] = "save" /\ now' = now
          /\ (UNCHANGED rows \/ Write(r, [mem EXCEPT !.updated = now]))
      BY <2>5 DEF SaveEdit
    <3>2. [mem EXCEPT !.updated = now] \in Row /\ [mem EXCEPT !.updated = now].updated = now
      <4>1. loaded[r] \in Row /\ form[r] \in Form /\ now \in 0..MaxTime
        BY <1>1, <3>1 DEF MemoryInv, TypeOK
      <4> HIDE DEF IInv, MemoryInv, TypeOK
      <4> QED
        BY <4>1 DEF Form, Row
    <3> HIDE DEF mem
    <3> QED
      BY <2>1, <2>3, <3>1, <3>2
  <2>6. Step(r) => UNCHANGED <<rows, now>> \/ Create(r) \/ Save(r) \/ SaveEdit(r)
    BY DEF Step, OpenPage, OpenPageWith, Resend, Submit, Find, FindAmong, FindForEdit,
           PostToSlack, ReadGitter, ReadGitterSeeing, SendToGitter, RaisePosting, Respond
  <2> QED
    BY <1>4, <2>1, <2>2, <2>4, <2>5, <2>6
<1> QED
  BY <1>2, <1>3, <1>4 DEF Next

\* Rows are inserted in an order, which nothing changes later, and become the
\* event's one by one.
LEMMA OrderStep == IInv /\ [Next]_vars => OrderInv'
<1> SUFFICES ASSUME IInv, [Next]_vars PROVE OrderInv'
  OBVIOUS
<1>1. /\ TypeOK /\ MemoryInv /\ OrderInv
      /\ rows \in [Requests -> Row \cup {NULL}] /\ NULL \notin Row
      /\ rows' \in [Requests -> Row \cup {NULL}]
  BY HangoutsAssumption, RowsStep DEF IInv, TypeOK
<1>2. /\ Recent \subseteq Requests /\ \A i \in Recent : rows[i] \in Row /\ rows[i].created \in Nat
      /\ \A i \in Recent' : rows'[i] \in Row /\ rows'[i].created \in Nat
  BY <1>1 DEF Recent, Stored, Row
<1>3. ASSUME NEW k \in Requests, \A i \in Requests \ {k} : rows'[i] = rows[i],
             k \in Recent => k \in Recent' /\ rows'[k].created = rows[k].created
      PROVE  Recent' # {} =>
               \E i \in Recent' : \A j \in Recent' : rows'[j].created <= rows'[i].created
  <2>1. /\ \A i \in Recent : i \in Recent' /\ rows'[i].created = rows[i].created
        /\ \A i \in Recent' : i \in Recent \/ i = k
    BY <1>2, <1>3 DEF Recent, Stored
  <2>2. CASE Recent' = Recent
    BY <1>1, <2>1, <2>2 DEF OrderInv
  <2>3. CASE Recent' # Recent
    <3>1. k \in Recent' /\ \A i \in Recent' : i \in Recent \/ i = k
      BY <2>1, <2>3
    <3>2. CASE Recent = {}
      BY <1>2, <3>1, <3>2
    <3>3. CASE Recent # {}
      <4>1. PICK m \in Recent : \A j \in Recent : rows[j].created <= rows[m].created
        BY <1>1, <3>3 DEF OrderInv
      <4>2. /\ m \in Recent' /\ rows'[m].created \in Nat /\ rows'[k].created \in Nat
            /\ \A j \in Recent : rows'[j].created <= rows'[m].created
        BY <1>2, <2>1, <3>1, <4>1
      <4>3. CASE rows'[k].created <= rows'[m].created
        BY <3>1, <4>2, <4>3
      <4>4. CASE ~(rows'[k].created <= rows'[m].created)
        <5>1. ASSUME NEW j \in Recent' PROVE rows'[j].created <= rows'[k].created
          <6>1. rows'[j].created \in Nat
            BY <1>2
          <6>2. j = k \/ rows'[j].created <= rows'[m].created
            BY <3>1, <4>2
          <6> QED
            BY <4>2, <4>4, <6>1, <6>2
        <5> QED
          BY <3>1, <5>1
      <4> QED
        BY <4>3, <4>4
    <3> QED
      BY <3>2, <3>3
  <2> QED
    BY <2>2, <2>3
<1>4. ASSUME UNCHANGED <<rows, pc>> PROVE OrderInv'
  BY <1>1, <1>4 DEF OrderInv, Recent, Stored
<1>5. ASSUME NEW r \in Requests, Step(r) PROVE OrderInv'
  <2>0. \A q \in Requests : pc'[q] \notin Past => pc[q] \notin Past
    BY <1>1, <1>5, StepLabels
  <2>1. CASE Create(r)
    <3> DEFINE row == [uid |-> form[r].uid, url |-> NULL, yt |-> NULL, status |-> NULL,
                       direct |-> FALSE, event_id |-> FALSE,
                       created |-> Cardinality(Stored), updated |-> now]
    <3>1. pc[r] = "create" /\ rows' = [rows EXCEPT ![r] = row] /\ pc' = [pc EXCEPT ![r] = "save"]
      BY <2>1 DEF Create, CreateAt, Goto
    <3> HIDE DEF row
    <3>2. \A i \in Requests \ {r} : rows'[i] = rows[i]
      BY <1>1, <3>1
    <3>3. rows[r] = NULL
      BY <1>1, <3>1 DEF OrderInv, Past
    <3>4. r \notin Recent
      BY <3>3 DEF Recent, Stored
    <3>5. pc'[r] \in Past
      BY <1>1, <3>1 DEF TypeOK, Past
    <3> QED
      BY <1>1, <1>3, <2>0, <3>2, <3>4, <3>5 DEF OrderInv
  <2>2. ASSUME pc[r] = "save", NEW mem \in Row, mem.updated = now, Write(r, mem),
               mem.event_id = TRUE \/ mem.event_id = loaded[r].event_id
        PROVE  OrderInv'
    <3>1. /\ rows[found[r]] \in Row /\ rows'[found[r]].created = rows[found[r]].created
          /\ rows'[found[r]] \in Row
          /\ \A i \in Requests \ {found[r]} : rows'[i] = rows[i]
      BY <1>1, <2>2, WriteEffect
    <3>2. found[r] \in Requests /\ loaded[r] \in Row
      BY <1>1, <2>2 DEF MemoryInv
    <3>3. found[r] \in Recent => rows'[found[r]].event_id
      <4>1. rows'[found[r]] = Merged(r, mem, rows[found[r]])
        BY <1>1, <2>2, <3>2 DEF Write
      <4>2. Merged(r, mem, rows[found[r]]).event_id =
              Dirty(mem.event_id, loaded[r].event_id, rows[found[r]].event_id)
        BY <3>1 DEF Merged, Row
      <4>3. found[r] \in Recent => rows[found[r]].event_id
        BY DEF Recent
      <4> QED
        BY <2>2, <4>1, <4>2, <4>3 DEF Dirty
    <3>4. found[r] \in Recent => found[r] \in Recent'
      BY <1>1, <3>1, <3>2, <3>3 DEF Recent, Stored
    <3>5. \A q \in Requests : pc'[q] \notin Past => rows'[q] = NULL
      BY <1>1, <2>0, <3>1 DEF OrderInv
    <3> QED
      BY <1>3, <3>1, <3>2, <3>4, <3>5 DEF OrderInv
  <2>3. CASE Save(r)
    <3>1. pc[r] = "save" /\ Write(r, Assigned(r))
      BY <2>3 DEF Save, SaveAnnouncing
    <3>2. Assigned(r) \in Row /\ Assigned(r).updated = now
      BY <1>1, <3>1, AssignedType
    <3>3. Assigned(r).event_id = TRUE
      <4>1. loaded[r] \in Row
        BY <1>1, <3>1 DEF MemoryInv
      <4> QED
        BY <4>1 DEF Assigned, Row
    <3> QED
      BY <2>2, <3>1, <3>2, <3>3
  <2>4. CASE rows' = rows
    BY <1>1, <2>0, <2>4 DEF OrderInv, Recent, Stored
  <2>5. CASE SaveEdit(r)
    <3> DEFINE mem == [[loaded[r] EXCEPT !.yt = form[r].yt, !.status = form[r].status]
                         EXCEPT !.updated = now]
    <3>1. pc[r] = "save" /\ (UNCHANGED rows \/ Write(r, mem))
      BY <2>5 DEF SaveEdit
    <3>2. mem \in Row /\ mem.updated = now /\ mem.event_id = loaded[r].event_id
      <4>1. loaded[r] \in Row /\ form[r] \in Form /\ now \in 0..MaxTime
        BY <1>1, <3>1 DEF MemoryInv, TypeOK
      <4> HIDE DEF IInv, MemoryInv, TypeOK
      <4> QED
        BY <4>1 DEF Form, Row
    <3> HIDE DEF mem
    <3> QED
      BY <2>2, <2>4, <3>1, <3>2
  <2>6. Step(r) => UNCHANGED rows \/ Create(r) \/ Save(r) \/ SaveEdit(r)
    BY DEF Step, OpenPage, OpenPageWith, Resend, Submit, Find, FindAmong, FindForEdit,
           PostToSlack, ReadGitter, ReadGitterSeeing, SendToGitter, RaisePosting, Respond
  <2> QED
    BY <1>5, <2>1, <2>3, <2>4, <2>5, <2>6
<1> QED
  BY <1>4, <1>5 DEF Next, Tick, Chat, vars

-----------------------------------------------------------------------------
\* Every step keeps what the requests remember.
LEMMA MemoryStep == IInv /\ [Next]_vars => MemoryInv'
<1> SUFFICES ASSUME IInv, [Next]_vars PROVE MemoryInv'
  OBVIOUS
<1>1. TypeOK /\ MemoryInv /\ OrderInv
  BY DEF IInv
<1>2. \A i \in Requests : rows[i] \in Row => rows'[i] \in Row
  BY RowsStep
<1> USE <1>1 DEF TypeOK, MemoryInv
<1>3. CASE UNCHANGED vars \/ Tick \/ Chat
  BY <1>2, <1>3 DEF vars, Tick, Chat
<1>4. ASSUME NEW r \in Requests, Step(r) PROVE MemoryInv'
  <2>1. CASE OpenPage(r)
    <3>1. PICK byline \in Bylines : OpenPageWith(r, FormFor(r, byline))
      BY <2>1 DEF OpenPage
    <3>2. FormFor(r, byline) \in Form
      BY FormForType
    <3> QED
      BY <1>2, <3>1, <3>2 DEF OpenPageWith, Goto
  <2>2. CASE Resend(r)
    <3>1. PICK q \in Requests : /\ pc[q] \notin {"idle", "page", "done"}
                                /\ form' = [form EXCEPT ![r] = form[q]]
                                /\ kind' = [kind EXCEPT ![r] = kind[q]]
      BY <2>2 DEF Resend
    <3> QED
      BY <1>2, <2>2, <3>1 DEF Resend, Goto
  <2>3. CASE Submit(r)
    <3>1. form[r] \in Form /\ pc' = [pc EXCEPT ![r] = "find"]
          /\ UNCHANGED <<rows, found, loaded>>
      BY <2>3 DEF Submit, Goto
    <3>2. \E f \in Form : form' = [form EXCEPT ![r] = f]
      <4>1. CASE \E link \in Links : form' = [form EXCEPT ![r].url = link]
        <5>1. PICK link \in Links : form' = [form EXCEPT ![r].url = link]
          BY <4>1
        <5>2. [form[r] EXCEPT !.url = link] \in Form
          BY <3>1 DEF Form
        <5> QED
          BY <5>1, <5>2
      <4>2. CASE \E video \in Videos : form' = [form EXCEPT ![r].yt = video]
        <5>1. PICK video \in Videos : form' = [form EXCEPT ![r].yt = video]
          BY <4>2
        <5>2. [form[r] EXCEPT !.yt = video] \in Form
          BY <3>1 DEF Form
        <5> QED
          BY <5>1, <5>2
      <4>3. CASE \E link \in Links, video \in Videos \cup {NULL}, s \in {"live", "finished"} :
                   form' = [form EXCEPT ![r].url = link, ![r].yt = video, ![r].status = s]
        <5>1. PICK link \in Links, video \in Videos \cup {NULL}, s \in {"live", "finished"} :
                form' = [form EXCEPT ![r].url = link, ![r].yt = video, ![r].status = s]
          BY <4>3
        <5>2. [form[r] EXCEPT !.url = link, !.yt = video, !.status = s] \in Form
          BY <3>1 DEF Form
        <5>3. form' = [form EXCEPT ![r] = [form[r] EXCEPT !.url = link, !.yt = video, !.status = s]]
          BY <5>1
        <5> QED
          BY <5>2, <5>3
      <4> QED
        BY <2>3, <4>1, <4>2, <4>3 DEF Submit
    <3>3. \E k \in Kinds : kind' = [kind EXCEPT ![r] = k]
      BY <2>3 DEF Submit
    <3> QED
      BY <1>2, <3>1, <3>2, <3>3
  <2>4. CASE Find(r)
    <3>1. /\ pc[r] = "find" /\ UNCHANGED <<rows, form, kind>>
          /\ \/ pc' = [pc EXCEPT ![r] = "create"] /\ UNCHANGED <<found, loaded>>
             \/ \E i \in Stored : /\ found' = [found EXCEPT ![r] = i]
                                  /\ loaded' = [loaded EXCEPT ![r] = rows[i]]
                                  /\ pc' = [pc EXCEPT ![r] = "save"]
      BY <2>4 DEF Find, FindAmong, Goto
    <3> QED
      BY <1>2, <3>1 DEF Stored
  <2>5. CASE Create(r)
    <3> DEFINE row == [uid |-> form[r].uid, url |-> NULL, yt |-> NULL, status |-> NULL,
                       direct |-> FALSE, event_id |-> FALSE,
                       created |-> Cardinality(Stored), updated |-> now]
    <3>1. /\ pc[r] = "create" /\ pc' = [pc EXCEPT ![r] = "save"]
          /\ rows' = [rows EXCEPT ![r] = row] /\ loaded' = [loaded EXCEPT ![r] = row]
          /\ found' = [found EXCEPT ![r] = r] /\ UNCHANGED <<form, kind>>
      BY <2>5 DEF Create, CreateAt, Goto
    <3>2. Stored \in SUBSET Requests
      BY DEF Stored
    <3>3. Cardinality(Stored) \in Nat
      BY <3>2, HangoutsAssumption, FS_Subset, FS_CardinalityType
    <3>4. row \in Row
      BY <3>1, <3>3 DEF Form, Row
    <3> HIDE DEF row
    <3> QED
      BY <1>2, <3>1, <3>4
  <2>6. CASE FindForEdit(r)
    <3>1. PICK i \in Stored, video \in Videos, s \in {NULL, "live", "finished"} :
            /\ found' = [found EXCEPT ![r] = i]
            /\ loaded' = [loaded EXCEPT ![r] = rows[i]]
            /\ form' = [form EXCEPT ![r] =
                 [uid |-> rows[i].uid, url |-> rows[i].url, yt |-> video, status |-> s,
                  byline |-> NULL]]
      BY <2>6 DEF FindForEdit
    <3>2. i \in Requests /\ rows[i] \in Row
      BY DEF Stored
    <3>3. [uid |-> rows[i].uid, url |-> rows[i].url, yt |-> video, status |-> s,
           byline |-> NULL] \in Form
      BY <3>2 DEF Row, Form
    <3> QED
      BY <1>2, <2>6, <3>1, <3>2, <3>3 DEF FindForEdit, Goto
  <2>7. CASE Save(r) \/ SaveEdit(r) \/ PostToSlack(r) \/ ReadGitter(r) \/ SendToGitter(r)
             \/ RaisePosting(r) \/ Respond(r)
    <3>1. /\ UNCHANGED <<form, kind, found, loaded>>
          /\ pc[r] \in {"save", "post", "gitter"}
          /\ \E label \in {"post", "gitter", "done", pc[r]} :
               pc' = [pc EXCEPT ![r] = label]
      BY <2>7 DEF Save, SaveAnnouncing, SaveEdit, PostToSlack, ReadGitter, ReadGitterSeeing,
                  SendToGitter, RaisePosting, Respond, Goto
    <3> QED
      BY <1>2, <3>1
  <2> QED
    BY <1>4, <2>1, <2>2, <2>3, <2>4, <2>5, <2>6, <2>7 DEF Step
<1> QED
  BY <1>3, <1>4 DEF Next

-----------------------------------------------------------------------------
\* Every step keeps the types.
LEMMA TypeStep == IInv /\ [Next]_vars => TypeOK'
<1> SUFFICES ASSUME IInv, [Next]_vars PROVE TypeOK'
  OBVIOUS
<1>1. /\ TypeOK /\ OrderInv /\ MemoryInv /\ MemoryInv' /\ MessagesInv'
      /\ rows' \in [Requests -> Row \cup {NULL}]
      /\ \A i \in Stored' : rows'[i].updated <= now'
  BY MemoryStep, MessagesStep, RowsStep DEF IInv
<1>2. todo' \in [Requests -> Seq([to : Channels, what : Links \cup Videos])]
  <2>1. Allowed' \subseteq [to : Channels, what : Links \cup Videos]
    BY DEF Allowed
  <2>2. \A r \in Requests : todo'[r] \in Seq([to : Channels, what : Links \cup Videos])
    BY <1>1, <2>1, SeqMonotonic DEF MessagesInv, QueueInv
  <2> QED
    BY <1>1, <2>2 DEF MessagesInv, QueueInv
<1> DEFINE Simple ==
      /\ now' \in 0..MaxTime
      /\ faults' \in 0..MaxFaults
      /\ event' \in Event
      /\ pc' \in [Requests -> {"idle", "page", "find", "create", "save", "post", "gitter", "done"}]
      /\ form' \in [Requests -> Form \cup {NULL}]
      /\ kind' \in [Requests -> Kinds \cup {"edit", NULL}]
      /\ found' \in [Requests -> Requests \cup {NULL}]
      /\ loaded' \in [Requests -> Row \cup {NULL}]
<1>3. ASSUME Simple PROVE TypeOK'
  BY <1>1, <1>2, <1>3 DEF MessagesInv, TypeOK
<1> HIDE DEF Simple
<1>4. CASE UNCHANGED vars \/ Chat
  BY <1>1, <1>3, <1>4 DEF Simple, TypeOK, vars, Chat
<1>5. CASE Tick
  <2>1. now' \in 0..MaxTime
    BY <1>1, <1>5, HangoutsAssumption DEF TypeOK, Tick
  <2> QED
    BY <1>1, <1>3, <1>5, <2>1 DEF Simple, TypeOK, Tick
<1>6. ASSUME NEW r \in Requests, Step(r) PROVE TypeOK'
  <2>1. UNCHANGED <<now, event>>
    BY <1>6 DEF Step, OpenPage, OpenPageWith, Resend, Submit, Find, FindAmong, Create, CreateAt,
                Save, SaveAnnouncing, FindForEdit, SaveEdit, PostToSlack, ReadGitter,
                ReadGitterSeeing, SendToGitter, RaisePosting, Respond
  <2>2. faults' \in 0..MaxFaults
    <3>1. faults' = faults \/ (faults < MaxFaults /\ faults' = faults + 1)
      BY <1>6
         DEF Step, OpenPage, OpenPageWith, Resend, Submit, Find, FindAmong, Create,
             CreateAt, Save, SaveAnnouncing, FindForEdit, SaveEdit, PostToSlack, ReadGitter,
             ReadGitterSeeing, SendToGitter, RaisePosting, Respond
    <3>2. faults \in 0..MaxFaults /\ MaxFaults \in Nat
      BY <1>1, HangoutsAssumption DEF TypeOK
    <3> QED
      BY <3>1, <3>2
  <2>3. pc' = [pc EXCEPT ![r] = pc'[r]]
        /\ pc'[r] \in {"idle", "page", "find", "create", "save", "post", "gitter", "done"}
    BY <1>1, <1>6
       DEF TypeOK, Step, OpenPage, OpenPageWith, Resend, Submit, Find, FindAmong, Create,
           CreateAt, Save, SaveAnnouncing, FindForEdit, SaveEdit, PostToSlack, ReadGitter,
           ReadGitterSeeing, SendToGitter, RaisePosting, Respond, Goto
  <2>4. pc'[r] # "idle" /\ form' = [form EXCEPT ![r] = form'[r]]
    BY <1>1, <1>6
       DEF TypeOK, Step, OpenPage, OpenPageWith, Resend, Submit, Find, FindAmong, Create,
           CreateAt, Save, SaveAnnouncing, FindForEdit, SaveEdit, PostToSlack, ReadGitter,
           ReadGitterSeeing, SendToGitter, RaisePosting, Respond, Goto
  <2>5. \/ UNCHANGED kind
        \/ pc'[r] \notin {"idle", "page"} /\ kind' = [kind EXCEPT ![r] = kind'[r]]
    BY <1>1, <1>6
       DEF TypeOK, Step, OpenPage, OpenPageWith, Resend, Submit, Find, FindAmong, Create,
           CreateAt, Save, SaveAnnouncing, FindForEdit, SaveEdit, PostToSlack, ReadGitter,
           ReadGitterSeeing, SendToGitter, RaisePosting, Respond, Goto
  <2>6. \/ UNCHANGED <<found, loaded>>
        \/ /\ pc'[r] = "save"
           /\ found' = [found EXCEPT ![r] = found'[r]]
           /\ loaded' = [loaded EXCEPT ![r] = loaded'[r]]
    BY <1>1, <1>6
       DEF TypeOK, Step, OpenPage, OpenPageWith, Resend, Submit, Find, FindAmong, Create,
           CreateAt, Save, SaveAnnouncing, FindForEdit, SaveEdit, PostToSlack, ReadGitter,
           ReadGitterSeeing, SendToGitter, RaisePosting, Respond, Goto
  <2>7. form'[r] \in Form /\ form' \in [Requests -> Form \cup {NULL}]
    BY <1>1, <2>4 DEF TypeOK, MemoryInv
  <2>8. kind' \in [Requests -> Kinds \cup {"edit", NULL}]
    BY <1>1, <2>5 DEF TypeOK, MemoryInv
  <2>9. found' \in [Requests -> Requests \cup {NULL}] /\ loaded' \in [Requests -> Row \cup {NULL}]
    BY <1>1, <2>6 DEF TypeOK, MemoryInv
  <2> QED
    BY <1>1, <1>3, <2>1, <2>2, <2>3, <2>7, <2>8, <2>9 DEF Simple, TypeOK
<1> QED
  BY <1>4, <1>5, <1>6 DEF Next

\* It holds initially.
LEMMA InitInvariant == Init => IInv
<1> SUFFICES ASSUME Init PROVE IInv
  OBVIOUS
<1>1. event \in Event /\ 0 \in 0..MaxTime /\ 0 \in 0..MaxFaults
  BY HangoutsAssumption DEF Init
<1>2. Stored = {} /\ Recent = {}
  BY DEF Init, Stored, Recent
<1>3. <<>> \in Seq([to : Channels, what : Links \cup Videos])
      /\ <<>> \in Seq(GitterMessage \cup {NULL}) /\ <<>> \in Seq(Allowed)
  OBVIOUS
<1>4. TypeOK
  BY <1>1, <1>2, <1>3 DEF Init, TypeOK
<1> QED
  BY <1>2, <1>3, <1>4 DEF Init, IInv, MemoryInv, OrderInv, QueueInv, PremiumStaysPrivate

\* The invariant is inductive.
THEOREM Invariant == Spec => []IInv
<1>1. IInv /\ [Next]_vars => IInv'
  BY TypeStep, MemoryStep, OrderStep, MessagesStep DEF IInv, MessagesInv
<1> QED
  BY <1>1, InitInvariant, PTL DEF Spec

\* Every variable always has the type TypeOK gives it; no row is stamped with
\* a time that has not come.
THEOREM TypeCorrect == Spec => []TypeOK
<1>1. IInv => TypeOK
  BY DEF IInv
<1> QED
  BY <1>1, Invariant, PTL

\* However pages, updates, edits and failing posts overlap, nothing about a
\* hangout for premium members is posted in a public channel.
THEOREM PremiumNeverPublic == Spec => []PremiumStaysPrivate
<1>1. IInv => PremiumStaysPrivate
  BY DEF IInv
<1> QED
  BY <1>1, Invariant, PTL

(***************************************************************************)
(* Every link that a hangout shows was announced: what the video form      *)
(* repeats of a hangout's link, and what is written of it, has been        *)
(* announced before or is about to be.                                     *)
(***************************************************************************)
\* A link was posted in a channel, or a request is about to.
Pending(r, c, link) ==
    \E n \in 1..Len(todo[r]) : todo[r][n].to = c /\ todo[r][n].what = link
Told(c, link) ==
    \E r \in Requests : <<r, c, link>> \in log \/ Pending(r, c, link)

Covered(link) ==
    \/ Reported(link)
    \/ \A c \in ToSet(HangoutChannels(event)) : Told(c, link)

\* Only a request past its save has messages, only one that was sent a kind,
\* and the room has what was sent to it.
SendersInv ==
    /\ \A r \in Requests : pc[r] \notin {"post", "gitter"} => todo[r] = <<>>
    /\ \A r \in Requests : pc[r] \in {"idle", "page"} => kind[r] = NULL
    /\ \A n \in 1..Len(gitter) : gitter[n] # NULL =>
         \E r \in Requests : <<r, "gitter", gitter[n].link>> \in log

\* The links in the rows, and those that pages and video forms repeat.
CoveredInv ==
    /\ \A i \in Stored : rows[i].url # NULL => Covered(rows[i].url)
    /\ \A r \in Requests :
         (pc[r] = "page" \/ kind[r] = "youtube") /\ form[r].url # NULL => Covered(form[r].url)

AnnouncedInv == SendersInv /\ (faults = 0 => CoveredInv)

-----------------------------------------------------------------------------
\* What was told or is about to be stays so, as long as messages are not
\* dropped but posted.
LEMMA CoverStays ==
    ASSUME event' = event,
           \A r \in Requests : kind[r] = "callback" => kind'[r] = kind[r] /\ form'[r] = form[r],
           \A c, link : Told(c, link) => Told(c, link)'
    PROVE  \A link : Covered(link) => Covered(link)'
<1> SUFFICES ASSUME NEW link, Covered(link) PROVE Covered(link)'
  OBVIOUS
<1>1. HangoutChannels(event)' = HangoutChannels(event)
  OBVIOUS
<1>2. CASE Reported(link)
  BY <1>2 DEF Reported, Covered
<1>3. CASE \A c \in ToSet(HangoutChannels(event)) : Told(c, link)
  BY <1>1, <1>3 DEF Covered
<1> QED
  BY <1>2, <1>3 DEF Covered

\* A step that leaves the messages alone.
LEMMA ToldSame ==
    ASSUME log' = log, todo' = todo
    PROVE  \A c, link : Told(c, link) => Told(c, link)'
BY DEF Told, Pending

\* One message to each channel, about the link.
Message == [to : Channels, what : Links \cup Videos]

\* One message to each channel, with the link.
LEMMA MessagesAre ==
    ASSUME NEW channels \in Seq(Channels), NEW link \in Links \cup Videos
    PROVE  /\ Messages(channels, link) \in Seq(Message)
           /\ Len(Messages(channels, link)) = Len(channels)
           /\ \A n \in 1..Len(channels) :
                Messages(channels, link)[n].to = channels[n]
                /\ Messages(channels, link)[n].what = link
<1>1. Len(channels) \in Nat /\ \A n \in 1..Len(channels) : channels[n] \in Channels
  OBVIOUS
<1>2. \A n \in 1..Len(channels) : [to |-> channels[n], what |-> link] \in Message
  BY <1>1 DEF Message
<1> HIDE DEF Message
<1>3. Messages(channels, link) = [n \in 1..Len(channels) |-> [to |-> channels[n], what |-> link]]
  BY DEF Messages
<1>4. Messages(channels, link) \in Seq(Message) /\ Len(Messages(channels, link)) = Len(channels)
  BY <1>1, <1>2, <1>3
<1> QED
  BY <1>3, <1>4

\* The next message is posted.
LEMMA ToldPosted ==
    ASSUME IInv, NEW r \in Requests, todo[r] # <<>>,
           \/ Posted(r)
           \/ /\ \E q \in Requests : <<q, Head(todo[r]).to, Head(todo[r]).what>> \in log
              /\ log' = log /\ todo' = [todo EXCEPT ![r] = Tail(@)]
    PROVE  \A c, link : Told(c, link) => Told(c, link)'
<1> SUFFICES ASSUME NEW c, NEW link, Told(c, link) PROVE Told(c, link)'
  OBVIOUS
<1>1. /\ todo \in [Requests -> Seq(Allowed)] /\ todo[r] \in Seq(Allowed)
      /\ todo' = [todo EXCEPT ![r] = Tail(todo[r])]
      /\ \A e \in log : e \in log'
  BY DEF IInv, QueueInv, Posted
<1>2. \E q \in Requests : <<q, Head(todo[r]).to, Head(todo[r]).what>> \in log'
  BY <1>1 DEF Posted
<1>3. PICK q \in Requests : <<q, c, link>> \in log \/ Pending(q, c, link)
  BY DEF Told
<1>4. CASE <<q, c, link>> \in log
  BY <1>1, <1>4 DEF Told
<1>5. CASE Pending(q, c, link) /\ q # r
  BY <1>1, <1>5 DEF Told, Pending
<1>6. CASE Pending(q, c, link) /\ q = r
  <2>1. PICK n \in 1..Len(todo[r]) : todo[r][n].to = c /\ todo[r][n].what = link
    BY <1>6 DEF Pending
  <2>2. CASE n = 1
    <3>1. Head(todo[r]) = todo[r][1]
      BY <1>1, HeadTailProperties
    <3> QED
      BY <1>2, <2>1, <2>2, <3>1 DEF Told
  <2>3. CASE n # 1
    <3>1. /\ Len(Tail(todo[r])) = Len(todo[r]) - 1 /\ Len(todo[r]) \in Nat
          /\ \A k \in 1..Len(Tail(todo[r])) : Tail(todo[r])[k] = todo[r][k + 1]
      BY <1>1, HeadTailProperties
    <3>2. n - 1 \in 1..Len(Tail(todo[r])) /\ (n - 1) + 1 = n
      BY <2>3, <3>1
    <3>3. Tail(todo[r])[n - 1] = todo[r][n]
      BY <3>1, <3>2
    <3>4. todo'[r] = Tail(todo[r])
      BY <1>1
    <3>5. Pending(r, c, link)'
      BY <2>1, <3>2, <3>3, <3>4 DEF Pending
    <3> QED
      BY <3>5 DEF Told
  <2> QED
    BY <2>2, <2>3
<1> QED
  BY <1>3, <1>4, <1>5, <1>6

\* A step that leaves the rows alone and gives the forms nothing new.
LEMMA CoveredFrame ==
    ASSUME CoveredInv,
           \A link : Covered(link) => Covered(link)',
           rows' = rows,
           \A r \in Requests : pc'[r] = "page" \/ kind'[r] = "youtube" =>
             \/ form'[r].url = NULL \/ Covered(form'[r].url)
             \/ (pc[r] = "page" \/ kind[r] = "youtube") /\ form'[r].url = form[r].url
    PROVE  CoveredInv'
BY DEF CoveredInv, Stored

\* The link written by a save is its form's or what was stored.
LEMMA SavedLink ==
    ASSUME IInv, NEW r \in Requests, Save(r)
    PROVE  /\ \A i \in Requests : i # found[r] => rows'[i] = rows[i]
           /\ found[r] \in Requests /\ rows[found[r]] \in Row
           /\ rows'[found[r]].url \in {form[r].url, rows[found[r]].url}
<1>1. pc[r] = "save" /\ Write(r, Assigned(r)) /\ TypeOK /\ MemoryInv
  BY DEF Save, SaveAnnouncing, IInv
<1>2. found[r] \in Requests /\ rows[found[r]] \in Row
  BY <1>1 DEF MemoryInv
<1>3. Assigned(r) \in Row /\ Assigned(r).url = form[r].url
  BY <1>1, AssignedType
<1>4. rows' = [rows EXCEPT ![found[r]] = Merged(r, Assigned(r), rows[found[r]])]
      /\ DOMAIN rows = Requests
  BY <1>1 DEF Write, TypeOK
<1>5. rows'[found[r]] = Merged(r, Assigned(r), rows[found[r]])
  BY <1>2, <1>4
<1>6. Merged(r, Assigned(r), rows[found[r]]).url \in {form[r].url, rows[found[r]].url}
  BY <1>2, <1>3 DEF Merged, Dirty, Row
<1> QED
  BY <1>2, <1>4, <1>5, <1>6

\* The link in the form of a request that saves is announced, was announced or
\* was reported.
LEMMA SaveCovers ==
    ASSUME IInv, AnnouncedInv, faults = 0, NEW r \in Requests, Save(r)
    PROVE  CoveredInv'
<1>1. /\ pc[r] = "save" /\ kind[r] # "edit" /\ todo[r] = <<>> /\ CoveredInv
      /\ TypeOK /\ MemoryInv /\ kind[r] \in Kinds /\ form[r] \in Form
      /\ UNCHANGED <<event, form, kind, log>>
      /\ pc' = [pc EXCEPT ![r] = "post"] /\ DOMAIN pc = Requests
  BY DEF Save, SaveAnnouncing, AnnouncedInv, SendersInv, IInv, MemoryInv, Goto, TypeOK
<1> DEFINE mem == Assigned(r)
           hangout == IF HangoutDue(r, mem)
                      THEN Messages(HangoutChannels(event), mem.url) ELSE <<>>
           youtube == IF YoutubeDue(r, mem)
                      THEN Messages(YoutubeChannels(event), mem.yt) ELSE <<>>
<1>2. todo' = [todo EXCEPT ![r] = hangout \o youtube] /\ DOMAIN todo = Requests
  BY DEF Save, SaveAnnouncing, IInv, TypeOK
<1>3. \A c, link : Told(c, link) => Told(c, link)'
  <2> HIDE DEF hangout, youtube
  <2>1. \A q \in Requests : \A c, link : Pending(q, c, link) => q # r
    BY <1>1 DEF Pending
  <2> QED
    BY <1>1, <1>2, <2>1 DEF Told, Pending
<1>4. \A link : Covered(link) => Covered(link)'
  BY <1>1, <1>3, CoverStays
<1>5. ASSUME NEW link, link = form[r].url, link # NULL PROVE Covered(link)'
  <2>0. kind[r] \in {"hangout", "youtube", "callback"}
    BY <1>1, HangoutsAssumption
  <2>1. CASE kind[r] = "youtube"
    BY <1>1, <1>4, <1>5, <2>1 DEF CoveredInv
  <2>2. CASE kind[r] = "callback"
    BY <1>1, <1>5, <2>2 DEF Covered, Reported
  <2>3. CASE kind[r] = "hangout"
    <3>1. mem \in Row /\ mem.url = link
      BY <1>1, <1>5, AssignedType
    <3> DEFINE channels == HangoutChannels(event)
    <3>2. hangout = Messages(channels, link)
      <4> HIDE DEF mem
      <4> QED
        BY <1>5, <2>3, <3>1 DEF HangoutDue
    <3>3. channels \in Seq(Channels) /\ HangoutChannels(event)' = channels
      BY <1>1, HangoutChannelsType DEF TypeOK
    <3>4. youtube \in Seq(Message)
      <4> HIDE DEF mem
      <4>1. CASE YoutubeDue(r, mem)
        <5>1. mem.yt \in Videos
          BY <3>1, <4>1 DEF YoutubeDue, Row
        <5>2. YoutubeChannels(event) \in Seq(Channels \ {"gitter"}) /\ Channels \ {"gitter"} \subseteq Channels
          BY <1>1, YoutubeChannelsType DEF TypeOK
        <5>3. YoutubeChannels(event) \in Seq(Channels)
          BY <5>2, SeqMonotonic
        <5> QED
          BY <4>1, <5>1, <5>3, MessagesAre
      <4>2. CASE ~YoutubeDue(r, mem)
        BY <4>2
      <4> QED
        BY <4>1, <4>2
    <3>5. link \in Links
      BY <1>1, <1>5 DEF Form
    <3> HIDE DEF channels, mem, youtube, hangout
    <3>6. /\ hangout \in Seq(Message)
          /\ Len(hangout) = Len(channels)
          /\ \A n \in 1..Len(channels) :
               hangout[n].to = channels[n] /\ hangout[n].what = link
      BY <3>2, <3>3, <3>5, MessagesAre
    <3>7. \A n \in 1..Len(channels) :
             /\ n \in 1..Len(hangout \o youtube)
             /\ (hangout \o youtube)[n] = hangout[n]
      BY <3>3, <3>4, <3>6, ConcatProperties
    <3>8. ASSUME NEW n \in 1..Len(channels) PROVE Pending(r, channels[n], link)'
      <4>1. todo'[r] = hangout \o youtube
        BY <1>2
      <4>2. n \in 1..Len(todo'[r]) /\ todo'[r][n].to = channels[n] /\ todo'[r][n].what = link
        BY <3>6, <3>7, <4>1
      <4>3. \A c : c = channels[n] => Pending(r, c, link)'
        BY <4>2 DEF Pending
      <4>4. channels' = channels
        BY <1>1 DEF channels
      <4> QED
        BY <4>3, <4>4
    <3>9. ASSUME NEW c \in ToSet(channels) PROVE Told(c, link)'
      <4>1. PICK n \in 1..Len(channels) : c = channels[n]
        BY <3>3 DEF ToSet
      <4>2. Pending(r, c, link)'
        <5>1. channels' = channels
          BY <1>1 DEF channels
        <5> QED
          BY <3>8, <4>1, <5>1
      <4> QED
        BY <4>2 DEF Told
    <3> QED
      BY <1>1, <3>3, <3>9 DEF Covered, channels
  <2> QED
    BY <2>0, <2>1, <2>2, <2>3
<1>6. ASSUME NEW i \in Stored', NEW link, link = rows'[i].url, link # NULL
      PROVE  Covered(link)'
  <2>1. /\ \A j \in Requests : j # found[r] => rows'[j] = rows[j]
        /\ found[r] \in Stored
        /\ rows'[found[r]].url \in {form[r].url, rows[found[r]].url}
    BY SavedLink, HangoutsAssumption DEF Stored
  <2>2. i \in Stored /\ link \in {form[r].url, rows[i].url}
    BY <1>6, <2>1 DEF Stored
  <2>3. CASE link = form[r].url
    BY <1>5, <1>6, <2>3
  <2>4. CASE link = rows[i].url
    BY <1>1, <1>4, <1>6, <2>2, <2>4 DEF CoveredInv
  <2> QED
    BY <2>2, <2>3, <2>4
<1>7. \A q \in Requests : \A link :
         (pc'[q] = "page" \/ kind'[q] = "youtube") /\ link = form'[q].url /\ link # NULL
           => Covered(link)'
  BY <1>1, <1>4 DEF CoveredInv
<1> HIDE DEF hangout, youtube, mem
<1> QED
  BY <1>6, <1>7 DEF CoveredInv

-----------------------------------------------------------------------------
\* What a request is about to send to Gitter.
LEMMA StartingNowType ==
    ASSUME IInv, NEW r \in Requests, pc[r] \in {"post", "gitter"}, todo[r] # <<>>,
           Head(todo[r]).to = "gitter"
    PROVE  StartingNow(r) \in GitterMessage
<1>1. todo[r] \in Seq(Allowed) /\ form[r] \in Form
  BY DEF IInv, QueueInv, MemoryInv
<1>2. Head(todo[r]) \in Allowed
  BY <1>1, HeadTailProperties
<1>3. Head(todo[r]).what \in Links
  BY <1>2 DEF Allowed
<1> QED
  BY <1>1, <1>3 DEF StartingNow, Form, GitterMessage

\* Every step keeps to the senders.
LEMMA SendersStep == IInv /\ AnnouncedInv /\ [Next]_vars => SendersInv'
<1> SUFFICES ASSUME IInv, AnnouncedInv, [Next]_vars PROVE SendersInv'
  OBVIOUS
<1>1. /\ SendersInv
      /\ pc \in [Requests -> Labels] /\ DOMAIN kind = Requests /\ DOMAIN todo = Requests
      /\ gitter \in Seq(GitterMessage \cup {NULL})
  BY DEF IInv, TypeOK, AnnouncedInv, Labels
<1>2. CASE UNCHANGED vars \/ Tick
  BY <1>1, <1>2 DEF vars, Tick, SendersInv
<1>4. CASE Chat
  <2>1. /\ UNCHANGED <<pc, kind, todo, log>>
        /\ \A n \in 1..Len(gitter') :
             \/ n \in 1..Len(gitter) /\ gitter'[n] = gitter[n]
             \/ gitter'[n] = NULL
    BY <1>1, <1>4 DEF Chat
  <2> QED
    BY <1>1, <2>1 DEF SendersInv
<1>3. ASSUME NEW r \in Requests, Step(r) PROVE SendersInv'
  <2>1. CASE OpenPage(r)
    BY <1>1, <2>1 DEF OpenPage, OpenPageWith, Goto, SendersInv, Labels
  <2>2. CASE Resend(r) \/ Submit(r) \/ Find(r) \/ Create(r) \/ FindForEdit(r)
    <3>1. /\ pc[r] \notin {"post", "gitter"} /\ UNCHANGED <<todo, log, gitter>>
          /\ \E label \in {"find", "create", "save"} : pc' = [pc EXCEPT ![r] = label]
      BY <2>2 DEF Resend, Submit, Find, FindAmong, Create, CreateAt, FindForEdit, Goto
    <3>2. \A q \in Requests : q # r => kind'[q] = kind[q]
      BY <1>1, <2>2 DEF Resend, Submit, Find, FindAmong, Create, CreateAt, FindForEdit
    <3> QED
      BY <1>1, <3>1, <3>2 DEF SendersInv
  <2>3. CASE Save(r)
    <3>1. /\ pc' = [pc EXCEPT ![r] = "post"] /\ UNCHANGED <<kind, log, gitter>>
          /\ \E messages : todo' = [todo EXCEPT ![r] = messages]
      BY <2>3 DEF Save, SaveAnnouncing, Goto
    <3> QED
      BY <1>1, <3>1 DEF SendersInv
  <2>4. CASE SaveEdit(r) \/ Respond(r)
    <3>1. /\ pc' = [pc EXCEPT ![r] = "done"] /\ todo[r] = <<>>
          /\ UNCHANGED <<kind, todo, log, gitter>>
      BY <1>1, <2>4 DEF SaveEdit, Respond, Goto, SendersInv
    <3> QED
      BY <1>1, <3>1 DEF SendersInv
  <2>5. CASE PostToSlack(r)
    BY <1>1, <2>5 DEF PostToSlack, Posted, SendersInv
  <2>6. CASE ReadGitter(r)
    <3>1. /\ pc[r] = "post" /\ (pc' = pc \/ pc' = [pc EXCEPT ![r] = "gitter"])
          /\ \A q \in Requests : q # r => todo'[q] = todo[q]
          /\ UNCHANGED <<kind, log, gitter>>
      BY <1>1, <2>6 DEF ReadGitter, ReadGitterSeeing, Goto
    <3> QED
      BY <1>1, <3>1 DEF SendersInv
  <2>7. CASE SendToGitter(r)
    <3>1. /\ pc[r] = "gitter" /\ pc' = [pc EXCEPT ![r] = "post"] /\ kind' = kind
          /\ todo' = [todo EXCEPT ![r] = Tail(@)]
          /\ gitter' = Append(gitter, StartingNow(r))
          /\ log' = log \cup {<<r, Head(todo[r]).to, Head(todo[r]).what>>}
      BY <2>7 DEF SendToGitter, Posted, Goto
    <3>2. todo[r] # <<>> /\ Head(todo[r]).to = "gitter"
      BY <3>1 DEF IInv, QueueInv
    <3>3. StartingNow(r).link = Head(todo[r]).what
      BY DEF StartingNow
    <3>4. ASSUME NEW n \in 1..Len(gitter'), gitter'[n] # NULL
          PROVE  \E q \in Requests : <<q, "gitter", gitter'[n].link>> \in log'
      <4>1. StartingNow(r) \in GitterMessage
        BY <3>1, <3>2, StartingNowType
      <4>2. \/ n \in 1..Len(gitter) /\ gitter'[n] = gitter[n]
            \/ gitter'[n] = StartingNow(r)
        BY <1>1, <3>1, <4>1
      <4> QED
        BY <1>1, <3>1, <3>2, <3>3, <3>4, <4>2 DEF SendersInv
    <3> QED
      BY <1>1, <3>1, <3>4 DEF SendersInv
  <2>8. CASE RaisePosting(r)
    BY <1>1, <2>8 DEF RaisePosting, Goto, SendersInv
  <2> QED
    BY <1>3, <2>1, <2>2, <2>3, <2>4, <2>5, <2>6, <2>7, <2>8 DEF Step
<1> QED
  BY <1>2, <1>3, <1>4 DEF Next

\* A page repeats the link of the last row.
LEMMA PageCovered ==
    ASSUME IInv, CoveredInv, NEW r \in Requests, NEW byline \in Bylines
    PROVE  FormFor(r, byline).url # NULL => Covered(FormFor(r, byline).url)
<1>1. CASE LastHangout = NULL
  BY <1>1 DEF FormFor
<1>2. CASE LastHangout # NULL
  <2>1. LastHangout \in Stored
    BY <1>2 DEF LastHangout, IInv, OrderInv, Recent
  <2> QED
    BY <1>2, <2>1 DEF FormFor, CoveredInv
<1> QED
  BY <1>1, <1>2

\* Every step leaves what is shown announced, unless a post has raised.
LEMMA CoveredStep ==
    IInv /\ AnnouncedInv /\ [Next]_vars => (faults' = 0 => CoveredInv')
<1> SUFFICES ASSUME IInv, AnnouncedInv, [Next]_vars, faults' = 0 PROVE CoveredInv'
  OBVIOUS
<1>1. /\ SendersInv /\ TypeOK /\ MemoryInv
      /\ pc \in [Requests -> Labels] /\ DOMAIN kind = Requests /\ DOMAIN form = Requests
      /\ DOMAIN todo = Requests /\ DOMAIN rows = Requests
      /\ NULL # "callback"
  BY HangoutsAssumption DEF IInv, TypeOK, AnnouncedInv, Labels
<1>2. CASE UNCHANGED vars \/ Tick \/ Chat
  <2>1. UNCHANGED <<faults, event, rows, pc, form, kind, todo, log>>
    BY <1>2 DEF vars, Tick, Chat
  <2>2. CoveredInv
    BY <2>1 DEF AnnouncedInv
  <2>3. \A link : Covered(link) => Covered(link)'
    BY <2>1, ToldSame, CoverStays
  <2> QED
    BY <2>1, <2>2, <2>3, CoveredFrame
<1>3. ASSUME NEW r \in Requests, Step(r) PROVE CoveredInv'
  <2>0. event' = event
    BY <1>3 DEF Step, OpenPage, OpenPageWith, Resend, Submit, Find, FindAmong, Create, CreateAt,
                Save, SaveAnnouncing, FindForEdit, SaveEdit, PostToSlack, ReadGitter,
                ReadGitterSeeing, SendToGitter, RaisePosting, Respond
  <2>1. CASE OpenPage(r)
    <3>1. PICK byline \in Bylines :
            /\ pc[r] = "idle" /\ pc' = [pc EXCEPT ![r] = "page"]
            /\ form' = [form EXCEPT ![r] = FormFor(r, byline)]
            /\ UNCHANGED <<faults, rows, kind, todo, log>>
      BY <2>1 DEF OpenPage, OpenPageWith, Goto
    <3>2. kind[r] = NULL /\ CoveredInv
      BY <1>1, <3>1 DEF SendersInv, AnnouncedInv
    <3>3. \A link : Covered(link) => Covered(link)'
      BY <1>1, <2>0, <3>1, <3>2, ToldSame, CoverStays
    <3>4. form'[r].url = NULL \/ Covered(form'[r].url)
      BY <1>1, <3>1, <3>2, PageCovered
    <3>5. \A q \in Requests : q # r => pc'[q] = pc[q] /\ kind'[q] = kind[q] /\ form'[q] = form[q]
      BY <1>1, <3>1
    <3> QED
      BY <3>1, <3>2, <3>3, <3>4, <3>5, CoveredFrame
  <2>2. CASE Resend(r)
    <3>1. PICK q \in Requests : /\ form' = [form EXCEPT ![r] = form[q]]
                                /\ kind' = [kind EXCEPT ![r] = kind[q]]
      BY <2>2 DEF Resend
    <3>2. /\ pc[r] = "idle" /\ pc' = [pc EXCEPT ![r] = "find"]
          /\ UNCHANGED <<faults, rows, todo, log>>
      BY <2>2 DEF Resend, Goto
    <3>3. kind[r] = NULL /\ CoveredInv
      BY <1>1, <3>2 DEF SendersInv, AnnouncedInv
    <3>4. \A link : Covered(link) => Covered(link)'
      BY <1>1, <2>0, <3>1, <3>2, <3>3, ToldSame, CoverStays
    <3>5. kind'[r] = "youtube" =>
            form'[r].url = NULL \/ Covered(form'[r].url)
      BY <1>1, <3>1, <3>3 DEF CoveredInv
    <3>6. pc'[r] # "page"
          /\ \A s \in Requests : s # r => pc'[s] = pc[s] /\ kind'[s] = kind[s] /\ form'[s] = form[s]
      BY <1>1, <3>1, <3>2
    <3> QED
      BY <3>2, <3>3, <3>4, <3>5, <3>6, CoveredFrame
  <2>3. CASE Submit(r)
    <3>1. /\ pc[r] = "page" /\ pc' = [pc EXCEPT ![r] = "find"]
          /\ UNCHANGED <<faults, rows, todo, log>>
      BY <2>3 DEF Submit, Goto
    <3>2. /\ \A q \in Requests : q # r => kind'[q] = kind[q] /\ form'[q] = form[q]
          /\ kind'[r] = "youtube" => form'[r].url = form[r].url
      <4>1. form[r] \in Form
        BY <1>1, <3>1 DEF MemoryInv
      <4>2. CASE kind' = [kind EXCEPT ![r] = "youtube"]
                 /\ \E video \in Videos : form' = [form EXCEPT ![r].yt = video]
        BY <1>1, <4>1, <4>2 DEF Form
      <4>3. CASE kind' = [kind EXCEPT ![r] = "hangout"]
                 /\ \E link \in Links : form' = [form EXCEPT ![r].url = link]
        BY <1>1, <4>3
      <4>4. CASE kind' = [kind EXCEPT ![r] = "callback"]
                 /\ \E link \in Links, video \in Videos \cup {NULL}, s \in {"live", "finished"} :
                      form' = [form EXCEPT ![r].url = link, ![r].yt = video, ![r].status = s]
        BY <1>1, <4>4
      <4> QED
        BY <2>3, <4>2, <4>3, <4>4 DEF Submit
    <3>3. kind[r] = NULL /\ CoveredInv
      BY <1>1, <3>1 DEF SendersInv, AnnouncedInv
    <3>4. \A link : Covered(link) => Covered(link)'
      BY <1>1, <2>0, <3>1, <3>2, <3>3, ToldSame, CoverStays
    <3>5. pc'[r] # "page" /\ \A q \in Requests : q # r => pc'[q] = pc[q]
      BY <1>1, <3>1
    <3> QED
      BY <3>1, <3>2, <3>3, <3>4, <3>5, CoveredFrame
  <2>4. CASE Find(r) \/ Respond(r)
    <3>1. /\ UNCHANGED <<faults, rows, form, kind, todo, log>>
          /\ \E label \in {"create", "save", "done"} : pc' = [pc EXCEPT ![r] = label]
      BY <2>4 DEF Find, FindAmong, Respond, Goto
    <3>2. CoveredInv /\ \A q \in Requests : pc'[q] = "page" => pc[q] = "page"
      BY <1>1, <3>1 DEF AnnouncedInv
    <3>3. \A link : Covered(link) => Covered(link)'
      BY <2>0, <3>1, ToldSame, CoverStays
    <3> QED
      BY <3>1, <3>2, <3>3, CoveredFrame
  <2>5. CASE Create(r)
    <3>1. /\ UNCHANGED <<faults, form, kind, todo, log>> /\ pc' = [pc EXCEPT ![r] = "save"]
          /\ \E row : row.url = NULL /\ rows' = [rows EXCEPT ![r] = row]
      BY <2>5 DEF Create, CreateAt, Goto
    <3>2. CoveredInv /\ \A q \in Requests : pc'[q] = "page" => pc[q] = "page"
      BY <1>1, <3>1 DEF AnnouncedInv
    <3>3. \A link : Covered(link) => Covered(link)'
      BY <2>0, <3>1, ToldSame, CoverStays
    <3>4. \A i \in Stored' : \A link : link = rows'[i].url /\ link # NULL => Covered(link)'
      BY <1>1, <3>1, <3>2, <3>3 DEF CoveredInv, Stored
    <3>5. \A q \in Requests : \A link :
             (pc'[q] = "page" \/ kind'[q] = "youtube") /\ link = form'[q].url /\ link # NULL
               => Covered(link)'
      BY <3>1, <3>2, <3>3 DEF CoveredInv
    <3> QED
      BY <3>4, <3>5 DEF CoveredInv
  <2>6. CASE Save(r)
    <3>1. faults' = faults
      BY <2>6 DEF Save, SaveAnnouncing
    <3> QED
      BY <2>6, <3>1, SaveCovers
  <2>7. CASE FindForEdit(r)
    <3>1. /\ pc[r] = "idle" /\ pc' = [pc EXCEPT ![r] = "save"]
          /\ kind' = [kind EXCEPT ![r] = "edit"] /\ \E f : form' = [form EXCEPT ![r] = f]
          /\ UNCHANGED <<faults, rows, todo, log>>
      BY <2>7 DEF FindForEdit, Goto
    <3>2. kind[r] = NULL /\ CoveredInv
      BY <1>1, <3>1 DEF SendersInv, AnnouncedInv
    <3>3. \A link : Covered(link) => Covered(link)'
      BY <1>1, <2>0, <3>1, <3>2, ToldSame, CoverStays
    <3>4. /\ pc'[r] # "page" /\ kind'[r] # "youtube"
          /\ \A q \in Requests : q # r => pc'[q] = pc[q] /\ kind'[q] = kind[q] /\ form'[q] = form[q]
      BY <1>1, <3>1
    <3> QED
      BY <3>1, <3>2, <3>3, <3>4, CoveredFrame
  <2>8. CASE SaveEdit(r)
    <3>1. /\ pc[r] = "save" /\ UNCHANGED <<faults, form, kind, todo, log>>
          /\ pc' = [pc EXCEPT ![r] = "done"]
      BY <2>8 DEF SaveEdit, Goto
    <3>2. CoveredInv /\ \A q \in Requests : pc'[q] = "page" => pc[q] = "page"
      BY <1>1, <3>1 DEF AnnouncedInv
    <3>3. \A link : Covered(link) => Covered(link)'
      BY <2>0, <3>1, ToldSame, CoverStays
    <3>4. \A i \in Stored' : i \in Stored /\ rows'[i].url = rows[i].url
      <4> DEFINE mem == [[loaded[r] EXCEPT !.yt = form[r].yt, !.status = form[r].status]
                           EXCEPT !.updated = now]
      <4>1. UNCHANGED rows \/ rows' = [rows EXCEPT ![found[r]] = Merged(r, mem, @)]
        BY <2>8 DEF SaveEdit, Write
      <4>2. /\ found[r] \in Requests /\ loaded[r] \in Row /\ rows[found[r]] \in Row
        BY <1>1, <3>1 DEF MemoryInv
      <4>3. found[r] \in Stored
        BY <4>2, HangoutsAssumption DEF Stored
      <4>4. mem.url = loaded[r].url
        BY <4>2 DEF Row
      <4> HIDE DEF mem
      <4>5. Merged(r, mem, rows[found[r]]).url = rows[found[r]].url
        BY <4>2, <4>4 DEF Merged, Dirty, Row
      <4> QED
        BY <1>1, <4>1, <4>2, <4>3, <4>5 DEF Stored
    <3>5. \A i \in Stored' : \A link : link = rows'[i].url /\ link # NULL => Covered(link)'
      BY <3>2, <3>3, <3>4 DEF CoveredInv
    <3>6. \A q \in Requests : \A link :
             (pc'[q] = "page" \/ kind'[q] = "youtube") /\ link = form'[q].url /\ link # NULL
               => Covered(link)'
      BY <3>1, <3>2, <3>3 DEF CoveredInv
    <3> QED
      BY <3>5, <3>6 DEF CoveredInv
  <2>9. CASE PostToSlack(r) \/ ReadGitter(r) \/ SendToGitter(r)
    <3>1. /\ UNCHANGED <<faults, rows, form, kind>>
          /\ \A q \in Requests : pc'[q] = "page" => pc[q] = "page"
      BY <1>1, <2>9 DEF PostToSlack, ReadGitter, ReadGitterSeeing, SendToGitter, Goto
    <3>2. CoveredInv
      BY <3>1 DEF AnnouncedInv
    <3>3. \A c, link : Told(c, link) => Told(c, link)'
      <4>1. CASE PostToSlack(r)
        BY <4>1, ToldPosted DEF PostToSlack
      <4>2. CASE SendToGitter(r)
        <5>1. todo[r] # <<>> /\ Posted(r)
          BY <4>2 DEF SendToGitter, IInv, QueueInv
        <5> QED
          BY <5>1, ToldPosted
      <4>3. CASE ReadGitter(r)
        <5>1. CASE todo' = todo
          BY <4>3, <5>1, ToldSame DEF ReadGitter, ReadGitterSeeing
        <5>2. CASE /\ \E n \in 1..Len(gitter) : StartingNow(r) = gitter[n]
                   /\ todo' = [todo EXCEPT ![r] = Tail(@)]
          <6>1. /\ todo[r] # <<>> /\ Head(todo[r]).to = "gitter" /\ log' = log
                /\ pc[r] = "post"
            BY <4>3 DEF ReadGitter, ReadGitterSeeing
          <6>2. StartingNow(r) # NULL /\ StartingNow(r).link = Head(todo[r]).what
            BY <6>1, StartingNowType, HangoutsAssumption DEF StartingNow
          <6>3. \E q \in Requests : <<q, "gitter", Head(todo[r]).what>> \in log
            BY <1>1, <5>2, <6>2 DEF SendersInv
          <6> QED
            BY <5>2, <6>1, <6>3, ToldPosted
        <5> QED
          BY <4>3, <5>1, <5>2 DEF ReadGitter, ReadGitterSeeing, InRoom
      <4> QED
        BY <2>9, <4>1, <4>2, <4>3
    <3>4. \A link : Covered(link) => Covered(link)'
      BY <2>0, <3>1, <3>3, CoverStays
    <3> QED
      BY <3>1, <3>2, <3>4, CoveredFrame
  <2>10. CASE RaisePosting(r)
    <3>1. faults' = faults + 1 /\ faults \in Nat
      BY <1>1, <2>10, HangoutsAssumption DEF RaisePosting, TypeOK
    <3> QED
      BY <3>1
  <2> QED
    BY <1>3, <2>1, <2>2, <2>3, <2>4, <2>5, <2>6, <2>7, <2>8, <2>9, <2>10 DEF Step
<1> QED
  BY <1>2, <1>3 DEF Next

\* When all requests have been answered and no post raised, every link that a
\* hangout shows was announced in every channel of its category, but for those
\* the hangout application reported, however requests overlap.
THEOREM EveryLinkAnnounced == Spec => []EveryStoredLinkAnnounced
<1>1. Init => AnnouncedInv
  <2> SUFFICES ASSUME Init PROVE AnnouncedInv
    OBVIOUS
  <2>1. /\ \A r \in Requests : rows[r] = NULL /\ pc[r] = "idle" /\ kind[r] = NULL /\ todo[r] = <<>>
        /\ Len(gitter) = 0
    BY DEF Init
  <2>2. Stored = {} /\ NULL # "youtube"
    BY <2>1, HangoutsAssumption DEF Stored
  <2> QED
    BY <2>1, <2>2 DEF AnnouncedInv, SendersInv, CoveredInv
<1>2. AnnouncedInv /\ IInv /\ [Next]_vars => AnnouncedInv'
  BY SendersStep, CoveredStep DEF AnnouncedInv
<1>3. AnnouncedInv => EveryStoredLinkAnnounced
  <2> SUFFICES ASSUME AnnouncedInv, Open = {}, faults = 0,
                      NEW i \in Stored, rows[i].url # NULL, ~Reported(rows[i].url),
                      NEW c \in ToSet(HangoutChannels(event))
               PROVE  \E r \in Requests : <<r, c, rows[i].url>> \in log
    BY DEF EveryStoredLinkAnnounced
  <2>1. Told(c, rows[i].url)
    BY DEF AnnouncedInv, CoveredInv, Covered
  <2>2. \A r \in Requests : todo[r] = <<>>
    BY DEF AnnouncedInv, SendersInv, Open
  <2> QED
    BY <2>1, <2>2 DEF Told, Pending
<1> QED
  BY <1>1, <1>2, <1>3, Invariant, PTL DEF Spec

(***************************************************************************)
(* The Gitter room: whoever has read it and not sent yet will send nothing *)
(* that is among the latest messages, unless that was sent since.          *)
(***************************************************************************)
RoomInv ==
    /\ sent \in Seq([by : SUBSET Requests, rivals : SUBSET Requests])
    /\ Len(sent) = Len(gitter)
    /\ \A r \in Requests : \A n \in 1..Len(gitter) :
         pc[r] = "gitter" /\ Len(gitter) < n + Limit /\ gitter[n] = StartingNow(r)
           => r \in sent[n].rivals
    /\ GitterRepeatsOnlyRaced

\* A step that leaves the room alone, and nobody who has just read it.
LEMMA RoomFrame ==
    ASSUME RoomInv, gitter' = gitter, sent' = sent,
           \A r \in Requests : pc'[r] = "gitter" =>
             pc[r] = "gitter" /\ form'[r] = form[r] /\ todo'[r] = todo[r]
    PROVE  RoomInv'
BY DEF RoomInv, GitterRepeatsOnlyRaced, StartingNow

\* A message comes.
LEMMA RoomGrows ==
    ASSUME RoomInv, NEW m, gitter' = Append(gitter, m), sent' = Append(sent, Sending),
           gitter \in Seq(GitterMessage \cup {NULL}), m \in GitterMessage \cup {NULL},
           \A r \in Requests : pc'[r] = "gitter" =>
             pc[r] = "gitter" /\ form'[r] = form[r] /\ todo'[r] = todo[r],
           m # NULL =>
             \E r \in Requests : /\ pc[r] = "gitter" /\ pc'[r] = "post" /\ m = StartingNow(r)
                                 /\ \A q \in Requests \ {r} : pc'[q] = pc[q]
    PROVE  RoomInv'
<1> DEFINE N == Len(gitter)
<1>1. /\ Sending \in [by : SUBSET Requests, rivals : SUBSET Requests]
      /\ N \in Nat /\ Limit \in Nat
  BY HangoutsAssumption DEF Sending
<1>2. /\ Len(gitter') = N + 1 /\ gitter'[N + 1] = m
      /\ \A n \in 1..N : gitter'[n] = gitter[n]
  BY AppendProperties
<1>3. /\ sent' \in Seq([by : SUBSET Requests, rivals : SUBSET Requests])
      /\ Len(sent') = N + 1 /\ sent'[N + 1] = Sending
      /\ \A n \in 1..N : sent'[n] = sent[n]
  BY <1>1, AppendProperties DEF RoomInv
<1>4. \A n \in 1..(N + 1) : n \in 1..N \/ n = N + 1
  BY <1>1
<1>5. ASSUME NEW r \in Requests, NEW n \in 1..(N + 1), pc'[r] = "gitter",
             N + 1 < n + Limit, gitter'[n] = StartingNow(r)'
      PROVE  r \in sent'[n].rivals
  <2>1. StartingNow(r)' = StartingNow(r) /\ pc[r] = "gitter"
    BY <1>5 DEF StartingNow
  <2>2. CASE n \in 1..N
    <3>1. N < n + Limit
      BY <1>1, <1>5
    <3> QED
      BY <1>2, <1>3, <1>5, <2>1, <2>2, <3>1 DEF RoomInv
  <2>3. CASE n = N + 1
    BY <1>3, <1>5, <2>3 DEF Sending
  <2> QED
    BY <1>4, <2>2, <2>3
<1>6. ASSUME NEW i \in 1..(N + 1), NEW j \in 1..(N + 1), i < j, j <= i + Limit,
             gitter'[i] = gitter'[j], gitter'[j] # NULL
      PROVE  \E r \in sent'[i].rivals : sent'[j].by = {r}
  <2>1. i \in 1..N
    BY <1>1, <1>6
  <2>2. CASE j \in 1..N
    <3>1. gitter[i] = gitter[j] /\ gitter[j] # NULL
      BY <1>2, <1>6, <2>1, <2>2
    <3>2. \E r \in sent[i].rivals : sent[j].by = {r}
      BY <1>6, <2>1, <2>2, <3>1 DEF RoomInv, GitterRepeatsOnlyRaced
    <3> QED
      BY <1>3, <2>1, <2>2, <3>2
  <2>3. CASE j = N + 1
    <3>1. PICK r \in Requests : /\ pc[r] = "gitter" /\ pc'[r] = "post" /\ m = StartingNow(r)
                                /\ \A q \in Requests \ {r} : pc'[q] = pc[q]
      BY <1>2, <1>6, <2>3
    <3>2. N < i + Limit /\ gitter[i] = StartingNow(r)
      BY <1>1, <1>2, <1>6, <2>1, <2>3, <3>1
    <3>3. r \in sent'[i].rivals
      BY <1>3, <2>1, <3>1, <3>2 DEF RoomInv
    <3>4. \A q \in Requests : pc[q] = "gitter" /\ pc'[q] = "post" => q = r
      BY <3>1
    <3>5. Sending.by = {r}
      BY <3>1, <3>4 DEF Sending
    <3> QED
      BY <1>3, <2>3, <3>3, <3>5
  <2> QED
    BY <1>4, <2>2, <2>3
<1> HIDE DEF N
<1>7. GitterRepeatsOnlyRaced'
  <2> SUFFICES ASSUME NEW i \in 1..Len(gitter'), NEW j \in 1..Len(gitter'),
                      i < j, j <= i + Limit, gitter'[i] = gitter'[j], gitter'[j] # NULL
               PROVE  \E r \in sent'[i].rivals : sent'[j].by = {r}
    BY ZenonT(30) DEF GitterRepeatsOnlyRaced
  <2>1. i \in 1..(N + 1) /\ j \in 1..(N + 1)
    BY <1>2
  <2> QED
    BY <1>6, <2>1, ZenonT(30)
<1>8. \A r \in Requests : \A n \in 1..Len(gitter') :
         pc'[r] = "gitter" /\ Len(gitter') < n + Limit /\ gitter'[n] = StartingNow(r)'
           => r \in sent'[n].rivals
  BY <1>2, <1>5
<1> QED
  BY <1>2, <1>3, <1>7, <1>8 DEF RoomInv

\* Every step keeps to the room.
LEMMA RoomStep ==
    ASSUME IInv, RoomInv, [MCNext]_mcVars
    PROVE  RoomInv'
<1>1. /\ TypeOK /\ gitter \in Seq(GitterMessage \cup {NULL}) /\ DOMAIN pc = Requests
      /\ Len(gitter) \in Nat /\ Limit \in Nat
  <2>1. TypeOK /\ gitter \in Seq(GitterMessage \cup {NULL}) /\ DOMAIN pc = Requests
    BY DEF IInv, TypeOK
  <2> QED
    BY <2>1, HangoutsAssumption
<1>2. CASE UNCHANGED mcVars
  BY <1>2, RoomFrame DEF mcVars, vars
<1>3. ASSUME MCNext, gitter' = gitter PROVE sent' = sent
  BY <1>3 DEF MCNext
<1>4. ASSUME MCNext, NEW m, gitter' = Append(gitter, m) PROVE sent' = Append(sent, Sending)
  <2>1. gitter' # gitter
    BY <1>1, <1>4
  <2> QED
    BY <1>4, <2>1 DEF MCNext
<1>5. CASE MCNext /\ Tick
  BY <1>3, <1>5, RoomFrame DEF Tick
<1>6. CASE MCNext /\ Chat
  BY <1>1, <1>4, <1>6, RoomGrows DEF Chat
<1>7. ASSUME MCNext, NEW r \in Requests, Step(r) PROVE RoomInv'
  <2>1. \A q \in Requests \ {r} : pc'[q] = pc[q] /\ form'[q] = form[q] /\ todo'[q] = todo[q]
    BY <1>1, <1>7, StepOthers
  <2>2. CASE gitter' = gitter /\ pc'[r] # "gitter"
    BY <1>3, <1>7, <2>1, <2>2, RoomFrame
  <2>3. CASE ReadGitter(r) /\ pc'[r] = "gitter"
    <3>1. /\ gitter' = gitter /\ sent' = sent /\ form' = form /\ pc[r] = "post"
          /\ StartingNow(r) \notin InRoom({n \in 1..Len(gitter) : n > Len(gitter) - Limit})
          /\ todo' = todo
      BY <1>1, <1>3, <1>7, <2>3 DEF ReadGitter, ReadGitterSeeing
    <3>2. \A n \in 1..Len(gitter) : Len(gitter) < n + Limit => gitter[n] # StartingNow(r)
      BY <1>1, <3>1 DEF InRoom
    <3>3. \A q \in Requests : StartingNow(q)' = StartingNow(q)
      BY <3>1 DEF StartingNow
    <3> QED
      BY <2>1, <3>1, <3>2, <3>3 DEF RoomInv, GitterRepeatsOnlyRaced
  <2>4. CASE SendToGitter(r)
    <3>1. /\ pc[r] = "gitter" /\ pc'[r] = "post" /\ gitter' = Append(gitter, StartingNow(r))
      BY <1>1, <2>4 DEF SendToGitter, Goto
    <3>2. StartingNow(r) \in GitterMessage
      BY <3>1, StartingNowType DEF IInv, QueueInv
    <3>3. sent' = Append(sent, Sending)
      BY <1>4, <1>7, <3>1
    <3>4. \A q \in Requests : pc'[q] = "gitter" =>
            pc[q] = "gitter" /\ form'[q] = form[q] /\ todo'[q] = todo[q]
      BY <2>1, <3>1
    <3> QED
      BY <1>1, <2>1, <3>1, <3>2, <3>3, <3>4, RoomGrows
  <2>5. \/ gitter' = gitter /\ pc'[r] # "gitter"
        \/ ReadGitter(r) /\ pc'[r] = "gitter"
        \/ SendToGitter(r)
    <3>1. CASE OpenPage(r) \/ Resend(r) \/ Submit(r) \/ Find(r) \/ Create(r) \/ FindForEdit(r)
      BY <1>1, <3>1 DEF OpenPage, OpenPageWith, Resend, Submit, Find, FindAmong, Create,
                        CreateAt, FindForEdit, Goto
    <3>2. CASE Save(r) \/ SaveEdit(r) \/ PostToSlack(r) \/ RaisePosting(r) \/ Respond(r)
      BY <1>1, <3>2 DEF Save, SaveAnnouncing, SaveEdit, PostToSlack, RaisePosting, Respond, Goto
    <3>3. CASE ReadGitter(r)
      BY <3>3 DEF ReadGitter, ReadGitterSeeing
    <3> QED
      BY <1>7, <3>1, <3>2, <3>3 DEF Step
  <2> QED
    BY <2>2, <2>3, <2>4, <2>5
<1> QED
  BY <1>2, <1>5, <1>6, <1>7 DEF MCNext, Next

\* Within Limit messages, however requests overlap and whoever else writes in
\* the room, a message comes again only from a request that had read the room
\* before it came the first time.
THEOREM GitterRepeatsAreRaces == MCSpec => []GitterRepeatsOnlyRaced
<1>1. MCInit => IInv /\ RoomInv
  <2> SUFFICES ASSUME MCInit PROVE IInv /\ RoomInv
    OBVIOUS
  <2>1. gitter = <<>> /\ sent = <<>> /\ IInv
    BY InitInvariant DEF MCInit, Init
  <2>2. sent \in Seq([by : SUBSET Requests, rivals : SUBSET Requests])
    BY <2>1
  <2> QED
    BY <2>1, <2>2 DEF RoomInv, GitterRepeatsOnlyRaced
<1>2. IInv /\ RoomInv /\ [MCNext]_mcVars => IInv' /\ RoomInv'
  <2>1. [MCNext]_mcVars => [Next]_vars
    BY DEF MCNext, mcVars
  <2> QED
    BY <2>1, RoomStep, TypeStep, MemoryStep, OrderStep, MessagesStep DEF IInv, MessagesInv
<1>3. RoomInv => GitterRepeatsOnlyRaced
  BY DEF RoomInv
<1> QED
  BY <1>1, <1>2, <1>3, PTL DEF MCSpec

(***************************************************************************)
(* What holds while pages and requests come one at a time: a uid names one *)
(* hangout, each form changes its own link, and a finished hangout stays   *)
(* finished.                                                               *)
(***************************************************************************)
Alone == \A p, q \in Open : p = q

\* A row belongs to a request that has inserted it, and is named by its uid.
RowsInv == \A i \in Stored : rows[i].uid = i /\ pc[i] \in {"save", "post", "gitter", "done"}

\* What the fields of a request repeat of the row they address, while it is
\* the page's and when it is submitted from the other form; no form addresses
\* a finished hangout.
Repeats(r, i) ==
    /\ pc[r] = "page" \/ kind[r] = "youtube" => form[r].url = rows[i].url
    /\ pc[r] = "page" \/ kind[r] = "hangout" => form[r].yt = rows[i].yt

AddressInv ==
    \A r \in Requests :
        /\ pc[r] \in {"page", "find"} =>
             /\ form[r].uid \in Stored \cup {r}
             /\ form[r].uid \in Stored =>
                  rows[form[r].uid].status # "finished" /\ Repeats(r, form[r].uid)
        /\ pc[r] = "create" => form[r].uid = r
        /\ pc[r] = "save" =>
             /\ loaded[r] = rows[found[r]]
             /\ kind[r] # "edit" =>
                  /\ rows[found[r]].status # "finished"
                  /\ found[r] # r => Repeats(r, found[r])

SerialInv == Alone /\ RowsInv /\ AddressInv
SerialIInv == IInv /\ (~overlapped => SerialInv)

-----------------------------------------------------------------------------
\* A set of requests with two members counts more than one.
LEMMA AtMostOne ==
    ASSUME NEW S \in SUBSET Requests, ~(Cardinality(S) > 1)
    PROVE  \A p, q \in S : p = q
<1> SUFFICES ASSUME NEW p \in S, NEW q \in S, p # q PROVE FALSE
  OBVIOUS
<1>1. IsFiniteSet(S) /\ Cardinality(S) \in Nat
  BY HangoutsAssumption, FS_Subset, FS_CardinalityType
<1>2. Cardinality({p, q}) = 2
  <2>1. Cardinality({p}) = 1 /\ IsFiniteSet({p})
    BY FS_Singleton
  <2>2. Cardinality({p} \cup {q}) = Cardinality({p}) + 1
    BY <2>1, FS_AddElement
  <2>3. {p} \cup {q} = {p, q}
    OBVIOUS
  <2> QED
    BY <2>1, <2>2, <2>3
<1>3. Cardinality({p, q}) <= Cardinality(S)
  BY <1>1, FS_Subset
<1> QED
  BY <1>1, <1>2, <1>3

\* While requests come one at a time, whoever takes a step is alone, and does
\* not send a form again.
Only(r) == \A q \in Requests \ {r} : pc[q] \in {"idle", "done"} /\ pc'[q] = pc[q]

\* A step of the one request there is.
LEMMA StepsAlone ==
    ASSUME TypeOK, Alone, Alone', NEW r \in Requests, Step(r)
    PROVE  Only(r) /\ ~Resend(r)
<1>1. /\ \A q \in Requests \ {r} : pc'[q] = pc[q]
      /\ r \in Open \/ r \in Open'
  BY StepLabels DEF Open
<1>2. \A q \in Requests \ {r} : q \notin Open
  BY <1>1 DEF Alone, Open
<1>3. Only(r)
  BY <1>1, <1>2 DEF Only, Open
<1> QED
  BY <1>2, <1>3 DEF Resend, Open

-----------------------------------------------------------------------------
\* A write by the only request leaves the row as the request has it in memory.
LEMMA WriteAlone ==
    ASSUME TypeOK, MemoryInv, NEW r \in Requests, pc[r] = "save",
           loaded[r] = rows[found[r]], NEW mem \in Row, Write(r, mem)
    PROVE  /\ found[r] \in Stored
           /\ \A i \in Requests \ {found[r]} : rows'[i] = rows[i]
           /\ rows'[found[r]] # NULL
           /\ rows'[found[r]].uid = rows[found[r]].uid
           /\ rows'[found[r]].url = mem.url
           /\ rows'[found[r]].yt = mem.yt
           /\ rows'[found[r]].status = mem.status
<1>1. found[r] \in Requests /\ rows[found[r]] \in Row /\ NULL \notin Row
  BY HangoutsAssumption DEF MemoryInv
<1> DEFINE new == Merged(r, mem, rows[found[r]])
<1>2. new \in Row
  BY <1>1 DEF Row, Merged, Dirty
<1>3. /\ new.uid = rows[found[r]].uid /\ new.url = mem.url
      /\ new.yt = mem.yt /\ new.status = mem.status
  BY <1>1 DEF Row, Merged, Dirty
<1>4. rows' = [rows EXCEPT ![found[r]] = new] /\ DOMAIN rows = Requests
  BY DEF Write, TypeOK
<1> HIDE DEF new
<1> QED
  BY <1>1, <1>2, <1>3, <1>4 DEF Stored

\* An edit by the only request keeps all but the video and the status.
LEMMA EditAlone ==
    ASSUME TypeOK, MemoryInv, NEW r \in Requests, SaveEdit(r), loaded[r] = rows[found[r]]
    PROVE  /\ \A i \in Requests : (rows'[i] = NULL) = (rows[i] = NULL)
           /\ \A i \in Requests \ {found[r]} : rows'[i] = rows[i]
           /\ rows'[found[r]].uid = rows[found[r]].uid
           /\ rows'[found[r]].url = rows[found[r]].url
<1> DEFINE mem == [loaded[r] EXCEPT !.yt = form[r].yt, !.status = form[r].status]
           stamped == [mem EXCEPT !.updated = now]
<1>1. pc[r] = "save" /\ (UNCHANGED rows \/ Write(r, stamped))
  BY DEF SaveEdit
<1>2. /\ loaded[r] \in Row /\ form[r] \in Form /\ now \in 0..MaxTime
      /\ found[r] \in Requests
  BY <1>1 DEF MemoryInv, TypeOK
<1>3. stamped \in Row /\ stamped.url = rows[found[r]].url
  BY <1>2 DEF Row, Form
<1> HIDE DEF stamped
<1>4. CASE Write(r, stamped)
  BY <1>1, <1>2, <1>3, <1>4, WriteAlone DEF Stored
<1>5. CASE UNCHANGED rows
  BY <1>2, <1>5
<1> QED
  BY <1>1, <1>4, <1>5

\* A save of the one request there is writes what its form says.
LEMMA SaveAlone ==
    ASSUME TypeOK, MemoryInv, NEW r \in Requests, Save(r), loaded[r] = rows[found[r]]
    PROVE  /\ found[r] \in Stored /\ kind[r] \in {"hangout", "youtube", "callback"}
           /\ \A i \in Requests \ {found[r]} : rows'[i] = rows[i]
           /\ rows'[found[r]] # NULL
           /\ rows'[found[r]].uid = rows[found[r]].uid
           /\ rows'[found[r]].url = form[r].url
           /\ rows'[found[r]].yt = form[r].yt
<1>1. pc[r] = "save" /\ kind[r] # "edit" /\ Write(r, Assigned(r))
  BY DEF Save, SaveAnnouncing
<1>2. kind[r] \in {"hangout", "youtube", "callback"}
  BY <1>1, HangoutsAssumption DEF MemoryInv
<1>3. /\ Assigned(r) \in Row
      /\ Assigned(r).url = form[r].url /\ Assigned(r).yt = form[r].yt
  BY <1>1, AssignedType
<1> QED
  BY <1>1, <1>2, <1>3, WriteAlone

-----------------------------------------------------------------------------
\* The page's form repeats the last hangout, and addresses it only while it is
\* live, so not finished.
LEMMA FormForAddresses ==
    ASSUME TypeOK, OrderInv, RowsInv, NEW r \in Requests, NEW byline \in Bylines
    PROVE  /\ FormFor(r, byline).uid \in Stored \cup {r}
           /\ r \notin Stored /\ FormFor(r, byline).uid \in Stored =>
                /\ rows[FormFor(r, byline).uid].status # "finished"
                /\ FormFor(r, byline).url = rows[FormFor(r, byline).uid].url
                /\ FormFor(r, byline).yt = rows[FormFor(r, byline).uid].yt
<1> DEFINE i == LastHangout
<1>1. CASE Recent = {}
  <2>1. i = NULL
    BY <1>1 DEF LastHangout
  <2> QED
    BY <1>1, <2>1 DEF FormFor
<1>2. CASE Recent # {}
  <2>1. i \in Stored
    BY <1>2 DEF LastHangout, OrderInv, Recent
  <2>2. rows[i].uid = i /\ i # NULL
    BY <2>1, HangoutsAssumption DEF RowsInv, Stored
  <2>3. FormFor(r, byline).url = rows[i].url /\ FormFor(r, byline).yt = rows[i].yt
    BY <2>2 DEF FormFor
  <2>4. FormFor(r, byline).uid = IF Live(rows[i]) THEN i ELSE r
    BY <2>2 DEF FormFor
  <2>5. Live(rows[i]) => rows[i].status # "finished"
    BY DEF Live
  <2> HIDE DEF i
  <2> QED
    BY <2>1, <2>3, <2>4, <2>5
<1> QED
  BY <1>1, <1>2

\* The addresses after a step of r that leaves nobody else open.
LEMMA AddressFrame ==
    ASSUME NEW r \in Requests, Only(r),
           pc'[r] \notin {"page", "find", "create", "save"}
    PROVE  AddressInv'
<1>1. \A q \in Requests : pc'[q] \notin {"page", "find", "create", "save"}
  BY DEF Only
<1> QED
  BY <1>1 DEF AddressInv

\* Every step of a lone request keeps the rows to their uids.
LEMMA RowsAlone ==
    ASSUME IInv, SerialInv, NEW r \in Requests, Step(r), Only(r), ~Resend(r)
    PROVE  RowsInv'
<1>1. /\ TypeOK /\ MemoryInv /\ RowsInv /\ AddressInv
      /\ rows \in [Requests -> Row \cup {NULL}]
  BY DEF IInv, SerialInv, TypeOK
<1>2. \A i \in Requests : pc[i] \in Past => pc'[i] \in Past
  BY <1>1, StepLabels
<1>3. ASSUME rows' = rows PROVE RowsInv'
  BY <1>1, <1>2, <1>3 DEF RowsInv, Stored, Past
<1>4. CASE Create(r)
  <2>1. /\ pc[r] = "create" /\ pc' = [pc EXCEPT ![r] = "save"]
        /\ \E row : row.uid = form[r].uid /\ rows' = [rows EXCEPT ![r] = row]
    BY <1>4 DEF Create, CreateAt, Goto
  <2>2. form[r].uid = r
    BY <1>1, <2>1 DEF AddressInv
  <2>3. pc'[r] \in Past /\ rows'[r].uid = r
    BY <1>1, <2>1, <2>2 DEF TypeOK, Past
  <2>4. \A i \in Requests : i # r => rows'[i] = rows[i]
    BY <1>1, <2>1
  <2> QED
    BY <1>1, <1>2, <2>3, <2>4 DEF RowsInv, Stored, Past
<1>5. CASE Save(r)
  <2>1. pc[r] = "save"
    BY <1>5 DEF Save, SaveAnnouncing
  <2>2. loaded[r] = rows[found[r]]
    BY <1>1, <2>1 DEF AddressInv
  <2> QED
    BY <1>1, <1>2, <1>5, <2>2, SaveAlone DEF RowsInv, Stored, Past
<1>6. CASE SaveEdit(r)
  <2>1. pc[r] = "save"
    BY <1>6 DEF SaveEdit
  <2>2. loaded[r] = rows[found[r]]
    BY <1>1, <2>1 DEF AddressInv
  <2> QED
    BY <1>1, <1>2, <1>6, <2>2, EditAlone DEF RowsInv, Stored, Past
<1>7. Step(r) => rows' = rows \/ Create(r) \/ Save(r) \/ SaveEdit(r)
  BY DEF Step, OpenPage, OpenPageWith, Resend, Submit, Find, FindAmong, FindForEdit,
         PostToSlack, ReadGitter, ReadGitterSeeing, SendToGitter, RaisePosting, Respond
<1> QED
  BY <1>3, <1>4, <1>5, <1>6, <1>7

\* Every step of a lone request keeps its address.
LEMMA AddressAlone ==
    ASSUME IInv, SerialInv, NEW r \in Requests, Step(r), Only(r), ~Resend(r)
    PROVE  AddressInv'
<1>1. /\ TypeOK /\ MemoryInv /\ OrderInv /\ RowsInv /\ AddressInv
      /\ pc \in [Requests -> Labels] /\ rows \in [Requests -> Row \cup {NULL}]
      /\ DOMAIN form = Requests /\ DOMAIN kind = Requests
      /\ DOMAIN found = Requests /\ DOMAIN loaded = Requests
  BY DEF IInv, SerialInv, TypeOK, Labels
<1>2. \A q \in Requests \ {r} : pc'[q] \in {"idle", "done"}
  BY DEF Only
<1>3. r \in Stored => pc[r] \in Past
  BY <1>1 DEF RowsInv, Past
<1>4. CASE OpenPage(r)
  <2>1. PICK byline \in Bylines :
          /\ pc[r] = "idle" /\ pc' = [pc EXCEPT ![r] = "page"]
          /\ form' = [form EXCEPT ![r] = FormFor(r, byline)] /\ rows' = rows
    BY <1>4 DEF OpenPage, OpenPageWith, Goto
  <2>2. r \notin Stored /\ Stored' = Stored
    BY <1>3, <2>1 DEF Past, Stored
  <2>3. form'[r] = FormFor(r, byline) /\ pc'[r] = "page"
    BY <1>1, <2>1
  <2> QED
    BY <1>1, <1>2, <2>1, <2>2, <2>3, FormForAddresses DEF AddressInv, Repeats
<1>5. CASE Submit(r)
  <2>1. pc[r] = "page" /\ pc'[r] = "find" /\ rows' = rows /\ Stored' = Stored
    BY <1>1, <1>5 DEF Submit, Goto, Stored
  <2>2. /\ form'[r].uid = form[r].uid
        /\ kind'[r] = "youtube" => form'[r].url = form[r].url
        /\ kind'[r] = "hangout" => form'[r].yt = form[r].yt
    <3>1. form[r] \in Form /\ NULL \notin {"youtube", "callback"}
      BY <1>1, <2>1, HangoutsAssumption DEF MemoryInv
    <3>2. CASE kind'[r] = "hangout"
      <4>1. PICK link \in Links : form' = [form EXCEPT ![r].url = link]
        BY <1>1, <1>5, <3>2 DEF Submit
      <4> QED
        BY <1>1, <3>1, <3>2, <4>1 DEF Form
    <3>3. CASE kind'[r] = "youtube"
      <4>1. PICK video \in Videos : form' = [form EXCEPT ![r].yt = video]
        BY <1>1, <1>5, <3>3 DEF Submit
      <4> QED
        BY <1>1, <3>1, <3>3, <4>1 DEF Form
    <3>4. CASE kind'[r] = "callback"
      <4>1. PICK link \in Links, video \in Videos \cup {NULL}, s \in {"live", "finished"} :
              form' = [form EXCEPT ![r].url = link, ![r].yt = video, ![r].status = s]
        BY <1>1, <1>5, <3>4 DEF Submit
      <4>2. form'[r] = [form[r] EXCEPT !.url = link, !.yt = video, !.status = s]
        BY <1>1, <4>1
      <4> QED
        BY <3>1, <3>4, <4>2 DEF Form
    <3> QED
      BY <1>1, <1>5, <3>2, <3>3, <3>4 DEF Submit
  <2> QED
    BY <1>1, <1>2, <2>1, <2>2 DEF AddressInv, Repeats
<1>6. CASE Find(r)
  <2> DEFINE matching == {i \in Stored : rows[i].uid = form[r].uid}
  <2>1. /\ pc[r] = "find" /\ UNCHANGED <<rows, form, kind>>
        /\ \/ matching = {} /\ pc' = [pc EXCEPT ![r] = "create"]
           \/ \E i \in matching : /\ found' = [found EXCEPT ![r] = i]
                                  /\ loaded' = [loaded EXCEPT ![r] = rows[i]]
                                  /\ pc' = [pc EXCEPT ![r] = "save"]
    BY <1>6 DEF Find, FindAmong, Goto
  <2>2. \A i \in Stored : rows[i].uid = i
    BY <1>1 DEF RowsInv
  <2>3. /\ form[r].uid \in Stored \cup {r}
        /\ form[r].uid \in Stored =>
             rows[form[r].uid].status # "finished" /\ Repeats(r, form[r].uid)
    BY <1>1, <2>1 DEF AddressInv
  <2>4. CASE matching = {} /\ pc' = [pc EXCEPT ![r] = "create"]
    <3>1. form[r].uid = r
      BY <2>2, <2>3, <2>4
    <3> QED
      BY <1>1, <1>2, <2>1, <2>4, <3>1 DEF AddressInv
  <2>5. CASE \E i \in matching : /\ found' = [found EXCEPT ![r] = i]
                                /\ loaded' = [loaded EXCEPT ![r] = rows[i]]
                                /\ pc' = [pc EXCEPT ![r] = "save"]
    <3>1. PICK i \in Stored : /\ rows[i].uid = form[r].uid
                              /\ found' = [found EXCEPT ![r] = i]
                              /\ loaded' = [loaded EXCEPT ![r] = rows[i]]
                              /\ pc' = [pc EXCEPT ![r] = "save"]
      BY <2>5
    <3>2. i = form[r].uid /\ i \in Requests
      BY <2>2, <3>1 DEF Stored
    <3>3. pc'[r] = "save" /\ found'[r] = i /\ loaded'[r] = rows[i]
      BY <1>1, <3>1
    <3>4. rows[i].status # "finished" /\ Repeats(r, i)
      BY <2>3, <3>1, <3>2
    <3> QED
      BY <1>1, <1>2, <2>1, <3>3, <3>4 DEF AddressInv, Repeats
  <2> QED
    BY <2>1, <2>4, <2>5
<1>7. CASE Create(r)
  <2> DEFINE row == [uid |-> form[r].uid, url |-> NULL, yt |-> NULL, status |-> NULL,
                     direct |-> FALSE, event_id |-> FALSE,
                     created |-> Cardinality(Stored), updated |-> now]
  <2>1. /\ pc' = [pc EXCEPT ![r] = "save"] /\ found' = [found EXCEPT ![r] = r]
        /\ rows' = [rows EXCEPT ![r] = row] /\ loaded' = [loaded EXCEPT ![r] = row]
    BY <1>7 DEF Create, CreateAt, Goto
  <2>2. row.status # "finished"
    BY HangoutsAssumption
  <2> HIDE DEF row
  <2>3. pc'[r] = "save" /\ found'[r] = r /\ loaded'[r] = row /\ rows'[r] = row
    BY <1>1, <2>1
  <2> QED
    BY <1>2, <2>2, <2>3 DEF AddressInv
<1>8. CASE FindForEdit(r)
  <2>1. PICK i \in Stored : /\ found' = [found EXCEPT ![r] = i]
                            /\ loaded' = [loaded EXCEPT ![r] = rows[i]]
    BY <1>8 DEF FindForEdit
  <2>2. /\ pc' = [pc EXCEPT ![r] = "save"] /\ kind' = [kind EXCEPT ![r] = "edit"]
        /\ rows' = rows
    BY <1>8 DEF FindForEdit, Goto
  <2> QED
    BY <1>1, <1>2, <2>1, <2>2 DEF AddressInv
<1>9. CASE Save(r) \/ SaveEdit(r) \/ PostToSlack(r) \/ ReadGitter(r) \/ SendToGitter(r)
           \/ RaisePosting(r) \/ Respond(r)
  <2>1. pc'[r] \notin {"page", "find", "create", "save"}
    BY <1>1, <1>9 DEF Save, SaveAnnouncing, SaveEdit, PostToSlack, ReadGitter, ReadGitterSeeing,
                      SendToGitter, RaisePosting, Respond, Goto
  <2> QED
    BY <2>1, AddressFrame
<1> QED
  BY <1>4, <1>5, <1>6, <1>7, <1>8, <1>9 DEF Step

\* The invariant is inductive.
LEMMA SerialStep == SerialIInv /\ [MCNext]_mcVars => SerialIInv'
<1> SUFFICES ASSUME SerialIInv, [MCNext]_mcVars PROVE SerialIInv'
  OBVIOUS
<1>1. IInv /\ [Next]_vars
  BY DEF SerialIInv, MCNext, mcVars
<1>2. IInv' /\ TypeOK /\ TypeOK'
  BY <1>1, TypeStep, MemoryStep, OrderStep, MessagesStep DEF IInv, MessagesInv
<1>3. ASSUME ~overlapped' PROVE SerialInv'
  <2>1. CASE UNCHANGED mcVars
    BY <1>3, <2>1
       DEF SerialIInv, SerialInv, mcVars, vars, Alone, RowsInv, AddressInv, Repeats, Open, Stored
  <2>2. CASE MCNext
    <3>1. ~overlapped /\ ~(Cardinality(Open') > 1) /\ Next /\ SerialInv /\ Alone
      BY <1>3, <2>2 DEF MCNext, SerialIInv, SerialInv
    <3>2. Alone'
      <4>1. Open' \in SUBSET Requests
        BY DEF Open
      <4> QED
        BY <3>1, <4>1, AtMostOne DEF Alone
    <3>3. CASE Tick \/ Chat
      BY <3>1, <3>2, <3>3 DEF SerialInv, Tick, Chat, RowsInv, AddressInv, Repeats, Stored
    <3>4. CASE \E r \in Requests : Step(r)
      <4>1. PICK r \in Requests : Step(r)
        BY <3>4
      <4>2. Only(r) /\ ~Resend(r)
        BY <1>2, <3>1, <3>2, <4>1, StepsAlone
      <4> QED
        BY <1>1, <3>1, <3>2, <4>1, <4>2, RowsAlone, AddressAlone DEF SerialInv
    <3> QED
      BY <3>1, <3>3, <3>4 DEF Next
  <2> QED
    BY <2>1, <2>2
<1> QED
  BY <1>2, <1>3 DEF SerialIInv

\* The hangouts begin in the invariant of requests that come one at a time.
LEMMA SerialInit == MCInit => SerialIInv
<1> SUFFICES ASSUME MCInit PROVE SerialIInv
  OBVIOUS
<1>1. Init /\ IInv
  BY InitInvariant DEF MCInit
<1>2. Stored = {} /\ Open = {} /\ \A r \in Requests : pc[r] = "idle"
  BY <1>1 DEF Init, Stored, Open
<1> QED
  BY <1>1, <1>2 DEF SerialIInv, SerialInv, Alone, RowsInv, AddressInv

\* So it always holds.
LEMMA SerialInvariant == MCSpec => []SerialIInv
BY SerialInit, SerialStep, PTL DEF MCSpec

-----------------------------------------------------------------------------
\* While pages and requests come one at a time a uid names one hangout: the
\* row an update finds is the one it was meant for.
THEOREM UidsStayUnique == MCSpec => []SerialUidsUnique
<1>1. SerialIInv => SerialUidsUnique
  BY DEF SerialIInv, SerialInv, RowsInv, SerialUidsUnique, UidsUnique
<1> QED
  BY <1>1, SerialInvariant, PTL

\* What a lone request's save changes of a hangout stored before.
LEMMA SavesItsOwn ==
    ASSUME IInv, SerialInv, NEW r \in Requests, Step(r), ~Resend(r)
    PROVE  FormChangesItsOwn /\ FinishedStays
<1>1. /\ TypeOK /\ MemoryInv /\ RowsInv /\ AddressInv /\ DOMAIN pc = Requests
      /\ rows \in [Requests -> Row \cup {NULL}]
  BY DEF IInv, SerialInv, TypeOK
<1>2. CASE Save(r)
  <2>1. pc[r] = "save" /\ kind[r] # "edit" /\ pc'[r] = "post"
    BY <1>1, <1>2 DEF Save, SaveAnnouncing, Goto
  <2>2. /\ loaded[r] = rows[found[r]] /\ rows[found[r]].status # "finished"
        /\ found[r] # r => Repeats(r, found[r])
    BY <1>1, <2>1 DEF AddressInv
  <2>3. /\ kind[r] \in {"hangout", "youtube", "callback"}
        /\ \A i \in Requests \ {found[r]} : rows'[i] = rows[i]
        /\ rows'[found[r]].url = form[r].url /\ rows'[found[r]].yt = form[r].yt
    BY <1>1, <1>2, <2>2, SaveAlone
  <2>4. \A kinds : kind[r] \in kinds => SavedBy(found[r], kinds)
    BY <2>1 DEF SavedBy
  <2>5. ASSUME NEW i \in Filled
        PROVE  /\ rows'[i].url # rows[i].url => SavedBy(i, {"hangout", "callback"})
               /\ rows'[i].yt # rows[i].yt => SavedBy(i, {"youtube", "edit", "callback"})
    <3>1. CASE i = found[r]
      BY <2>1, <2>2, <2>3, <2>4, <3>1 DEF Filled, Repeats
    <3>2. CASE i # found[r]
      BY <2>3, <3>2 DEF Filled, Stored
    <3> QED
      BY <3>1, <3>2
  <2>6. \A i \in Stored : rows[i].status = "finished" => rows'[i] = rows[i]
    BY <2>2, <2>3 DEF Stored
  <2> QED
    BY <2>5, <2>6 DEF FormChangesItsOwn, FinishedStays
<1>3. CASE SaveEdit(r)
  <2>1. pc[r] = "save" /\ kind[r] = "edit" /\ pc'[r] = "done"
    BY <1>1, <1>3 DEF SaveEdit, Goto
  <2>2. loaded[r] = rows[found[r]]
    BY <1>1, <2>1 DEF AddressInv
  <2>3. /\ \A i \in Requests \ {found[r]} : rows'[i] = rows[i]
        /\ rows'[found[r]].url = rows[found[r]].url
    BY <1>1, <1>3, <2>2, EditAlone
  <2>4. \A kinds : "edit" \in kinds => SavedBy(found[r], kinds)
    BY <2>1 DEF SavedBy
  <2> QED
    BY <2>3, <2>4 DEF FormChangesItsOwn, FinishedStays, Filled, Stored
<1>4. CASE Create(r)
  <2>1. pc[r] = "create" /\ \A i \in Requests \ {r} : rows'[i] = rows[i]
    BY <1>1, <1>4 DEF Create, CreateAt
  <2>2. r \notin Stored
    BY <1>1, <2>1 DEF RowsInv
  <2> QED
    BY <2>1, <2>2 DEF FormChangesItsOwn, FinishedStays, Filled, Stored
<1>5. ASSUME rows' = rows PROVE FormChangesItsOwn /\ FinishedStays
  BY <1>5 DEF FormChangesItsOwn, FinishedStays, Filled, Stored
<1>6. Step(r) => rows' = rows \/ Create(r) \/ Save(r) \/ SaveEdit(r)
  BY DEF Step, OpenPage, OpenPageWith, Resend, Submit, Find, FindAmong, FindForEdit,
         PostToSlack, ReadGitter, ReadGitterSeeing, SendToGitter, RaisePosting, Respond
<1> QED
  BY <1>2, <1>3, <1>4, <1>5, <1>6

\* While requests come one at a time a form changes its own link, and what is finished
\* stays so.
LEMMA SerialSaves ==
    SerialIInv /\ [MCNext]_mcVars =>
        \/ UNCHANGED mcVars
        \/ ~overlapped' => FormChangesItsOwn /\ FinishedStays
<1> SUFFICES ASSUME SerialIInv, MCNext, ~overlapped'
             PROVE  FormChangesItsOwn /\ FinishedStays
  OBVIOUS
<1>1. ~overlapped /\ Next /\ IInv /\ SerialInv /\ Alone /\ TypeOK
  BY DEF MCNext, SerialIInv, SerialInv, IInv
<1>2. SerialIInv'
  BY SerialStep
<1>3. Alone'
  BY <1>2 DEF SerialIInv, SerialInv
<1>4. CASE Tick \/ Chat
  BY <1>4 DEF Tick, Chat, FormChangesItsOwn, FinishedStays, Filled, Stored
<1>5. CASE \E r \in Requests : Step(r)
  <2>1. PICK r \in Requests : Step(r)
    BY <1>5
  <2>2. ~Resend(r)
    BY <1>1, <1>3, <2>1, StepsAlone
  <2> QED
    BY <1>1, <2>1, <2>2, SavesItsOwn
<1> QED
  BY <1>1, <1>4, <1>5 DEF Next

\* While they come one at a time, the hangout form changes no video and the
\* video form no link of a hangout stored before.
THEOREM FormsChangeTheirOwn == MCSpec => SerialFormsChangeTheirOwn
<1>1. SerialIInv /\ [MCNext]_mcVars =>
        [~overlapped' => FormChangesItsOwn]_mcVars
  BY SerialSaves
<1> QED
  BY <1>1, SerialInvariant, PTL DEF MCSpec, SerialFormsChangeTheirOwn

\* While they come one at a time, nothing but an edit reopens a finished
\* hangout.
THEOREM FinishedStaysFinished == MCSpec => SerialFinishedStaysFinished
<1>1. SerialIInv /\ [MCNext]_mcVars =>
        [~overlapped' => FinishedStays]_mcVars
  BY SerialSaves
<1> QED
  BY <1>1, SerialInvariant, PTL DEF MCSpec, SerialFinishedStaysFinished
=============================================================================
