------------------------------ MODULE Hangouts ------------------------------
(***************************************************************************)
(* The hangouts of one event: members open the event page, paste the link  *)
(* of the hangout or of its video stream into one of the page's forms, and *)
(* EventInstancesController#update stores it and announces it in Slack and *)
(* Gitter.                                                                 *)
(*                                                                         *)
(* A request begins when its page is rendered: the form's hidden fields    *)
(* repeat what was stored then, and come back with the submission whatever *)
(* happened in between.  A row is named by the request that inserted it;   *)
(* the horizon is one day, so every row counts as recent.                  *)
(***************************************************************************)
EXTENDS Integers, FiniteSets, Sequences, SequencesExt

CONSTANTS
    Requests,
    Links,      \* addresses of hangouts, values of hangout_url
    Videos,     \* values of yt_video_id
    Kinds,      \* the ways in which an update is sent, see Submit
    Bylines,    \* titles with the names of the members who host
    NULL,
    MaxOpen,    \* bound: pages and requests open at the same time
    MaxFaults,  \* bound: calls to Slack or Gitter that raise
    MaxTime,    \* bound on the clock, in ticks
    LiveFor,    \* updated_within_last_two_minutes?, in ticks
    Start,      \* current_start_time of the event's occurrence
    Duration,   \* of the event
    Margin,     \* how early a link may be set for the occurrence
    Events,     \* the events looked at
    Limit,      \* messages of the Gitter room that are read, 50 in the code
    MaxRoom     \* bound: messages in the room while others write there

\* The event: its category, whether it is for 'Premium Mob Members', and the
\* Slack channels of its project and of its own.
Event == [category : {"Scrum", "PairProgramming", "ClientMeeting"},
          premium : BOOLEAN, channels : {<<>>, <<"project">>, <<"cs169">>}]

Uids == Requests  \* generate_event_instance_id: a page's fresh uid is its own
Channels == {"general", "standup_notifications", "pairing_notifications",
             "premium_extra", "premium_mob_trialists", "gitter", "cs169", "project"}
Private == {"premium_extra", "premium_mob_trialists"}

Row == [uid : Uids, url : Links \cup {NULL}, yt : Videos \cup {NULL},
        status : {NULL, "live", "finished"}, direct : BOOLEAN,
        event_id : BOOLEAN,  \* whether it is the event's yet
        created : Nat, updated : 0..MaxTime]

\* A message in the Gitter room: a hangout's title, its host and its link.
GitterMessage == [byline : Bylines \cup {NULL}, link : Links]

ASSUME HangoutsAssumption ==
    /\ Kinds \subseteq {"hangout", "youtube", "callback"}
    /\ {MaxOpen, LiveFor, Duration} \subseteq Nat \ {0}
    /\ {MaxFaults, MaxTime, Start, Margin, Limit, MaxRoom} \subseteq Nat
    /\ Events \subseteq Event
    /\ NULL \notin Requests \cup Links \cup Videos \cup Row \cup GitterMessage
    /\ NULL \notin {"youtube", "callback", "live", "finished"}
    /\ IsFiniteSet(Requests)

VARIABLES
    now, faults,
    event,
    rows,    \* event_instances; NULL where no row was inserted
    pc,      \* "idle", "page", "find", "create", "save", "post", "gitter", "done"
    form,    \* the fields the page holds and the request submits
    kind,    \* how it was submitted
    found,   \* the row find_or_create_by returned
    loaded,  \* its attributes when it was loaded
    todo,    \* the messages still to be posted: channel and link or video
    log,     \* what was posted: <<request, channel, link or video>>
    gitter   \* the messages in the Gitter room, oldest first; NULL for others'

vars == <<now, faults, event, rows, pc, form, kind, found, loaded, todo, log, gitter>>

Goto(r, label) == pc' = [pc EXCEPT ![r] = label]
Open == {r \in Requests : pc[r] \notin {"idle", "done"}}
Stored == {i \in Requests : rows[i] # NULL}

\* The event's instances: an update sets event_id, the insert before it does not.
Recent == {i \in Stored : rows[i].event_id}

\* recent_hangouts.first: the newest, NULL if there is none
LastHangout ==
    IF Recent = {} THEN NULL
    ELSE CHOOSE i \in Recent : \A j \in Recent : rows[j].created <= rows[i].created

\* Event#current_start_time is nil until the occurrence has started.
Before_current_end_time == Start <= now /\ now < Start + Duration
Updated_within_current_event_duration(row) ==
    /\ Start <= now
    /\ row.updated > Start - Margin
    /\ row.updated < Start + Duration

\* EventInstance#live?
Live(row) ==
    /\ row.url # NULL
    /\ row.status # "finished"
    /\ \/ row.updated > now - LiveFor
       \/ /\ row.direct
          /\ Updated_within_current_event_duration(row)
          /\ Before_current_end_time

(***************************************************************************)
(* The channels each service posts to, in order.                           *)
(***************************************************************************)
CategoryChannels(e) ==
    (CASE e.category = "Scrum" -> <<"general", "standup_notifications">>
       [] e.category = "PairProgramming" ->
            <<IF Contains(e.channels, "cs169") THEN "gitter" ELSE "general",
              "pairing_notifications">>
       [] OTHER -> <<>>)
    \o e.channels

PremiumMobChannels == <<"premium_extra", "premium_mob_trialists">>

\* Variant: the premium branch does not return.
HangoutChannelsFallingThrough(e) ==
    (IF e.premium THEN PremiumMobChannels ELSE <<>>) \o CategoryChannels(e)

HangoutChannels(e) == IF e.premium THEN PremiumMobChannels ELSE CategoryChannels(e)

YoutubeChannels(e) ==
    IF e.premium THEN <<"premium_extra">>
    ELSE (IF \/ e.category = "Scrum"
             \/ e.category = "PairProgramming" /\ ~Contains(e.channels, "cs169")
          THEN <<"general">> ELSE <<>>)
         \o e.channels

-----------------------------------------------------------------------------
Init ==
    /\ now = 0 /\ faults = 0
    /\ event \in Events
    /\ rows = [i \in Requests |-> NULL]
    /\ pc = [r \in Requests |-> "idle"]
    /\ form = [r \in Requests |-> NULL]
    /\ kind = [r \in Requests |-> NULL]
    /\ found = [r \in Requests |-> NULL]
    /\ loaded = [r \in Requests |-> NULL]
    /\ todo = [r \in Requests |-> <<>>]
    /\ log = {}
    /\ gitter = <<>>

Tick ==
    /\ now < MaxTime
    /\ now' = now + 1
    /\ UNCHANGED <<faults, event, rows, pc, form, kind, found, loaded, todo, log, gitter>>

\* The Gitter room is open to everybody.
Chat ==
    /\ Len(gitter) < MaxRoom
    /\ gitter' = Append(gitter, NULL)
    /\ UNCHANGED <<now, faults, event, rows, pc, form, kind, found, loaded, todo, log>>

(***************************************************************************)
(* EventsController#show: the forms address the recent hangout while it is *)
(* live and a fresh uid otherwise; their hidden fields carry its links     *)
(* either way, the title with the occurrence's time, and the member's id.  *)
(***************************************************************************)
FormFor(r, byline) ==
    LET i == LastHangout IN
      [status |-> NULL, byline |-> byline,
       uid |-> IF i # NULL /\ Live(rows[i]) THEN rows[i].uid ELSE r,
       url |-> IF i # NULL THEN rows[i].url ELSE NULL,
       yt  |-> IF i # NULL THEN rows[i].yt ELSE NULL]

OpenPageWith(r, fields) ==
    /\ pc[r] = "idle"
    /\ Cardinality(Open) < MaxOpen
    /\ form' = [form EXCEPT ![r] = fields]
    /\ Goto(r, "page")
    /\ UNCHANGED <<now, faults, event, rows, kind, found, loaded, todo, log, gitter>>

\* Variant: the forms always address the recent hangout.
OpenPageReusing(r) ==
    \E byline \in Bylines :
        OpenPageWith(r, IF LastHangout = NULL THEN FormFor(r, byline)
                        ELSE [FormFor(r, byline) EXCEPT !.uid = rows[LastHangout].uid])

OpenPage(r) == \E byline \in Bylines : OpenPageWith(r, FormFor(r, byline))

\* A second request from the same page: a double click, a resent form.
Resend(r) ==
    /\ \E q \in Requests \ {r} :
         /\ pc[q] \notin {"idle", "page", "done"}
         /\ kind[q] # "edit"
         /\ form' = [form EXCEPT ![r] = form[q]]
         /\ kind' = [kind EXCEPT ![r] = kind[q]]
    /\ pc[r] = "idle"
    /\ Cardinality(Open) < MaxOpen
    /\ Goto(r, "find")
    /\ UNCHANGED <<now, faults, event, rows, found, loaded, todo, log, gitter>>

(***************************************************************************)
(* PUT /hangouts/:uid.  "hangout" and "youtube" are the page's two forms,  *)
(* which ask for the notification; "callback" is the hangout application   *)
(* reporting to the callbackUrl the page gave it: a link, a status, perhaps  *)
(* the video, and no request to notify.                                    *)
(***************************************************************************)
Submit(r) ==
    /\ pc[r] = "page"
    /\ \/ /\ kind' = [kind EXCEPT ![r] = "hangout"]
          /\ \E link \in Links : form' = [form EXCEPT ![r].url = link]
       \/ /\ kind' = [kind EXCEPT ![r] = "youtube"]
          /\ \E video \in Videos : form' = [form EXCEPT ![r].yt = video]
       \/ /\ kind' = [kind EXCEPT ![r] = "callback"]
          /\ \E link \in Links, video \in Videos \cup {NULL}, s \in {"live", "finished"} :
               form' = [form EXCEPT ![r].url = link, ![r].yt = video, ![r].status = s]
    /\ kind'[r] \in Kinds
    /\ Goto(r, "find")
    /\ UNCHANGED <<now, faults, event, rows, found, loaded, todo, log, gitter>>

\* find_or_create_by(uid:): the SELECT, which promises no order
FindAmong(r, candidates) ==
    /\ pc[r] = "find"
    /\ LET matching == {i \in candidates : rows[i].uid = form[r].uid} IN
         \/ /\ matching = {}
            /\ Goto(r, "create")
            /\ UNCHANGED <<found, loaded>>
         \/ \E i \in matching :
              /\ found' = [found EXCEPT ![r] = i]
              /\ loaded' = [loaded EXCEPT ![r] = rows[i]]
              /\ Goto(r, "save")
    /\ UNCHANGED <<now, faults, event, rows, form, kind, todo, log, gitter>>

\* Variant: every update inserts.
FindNothing(r) == FindAmong(r, {})
Find(r) == FindAmong(r, Stored)

\* ... and the INSERT; uid has no unique index.
CreateAt(r, time) ==
    /\ pc[r] = "create"
    /\ LET row == [uid |-> form[r].uid, url |-> NULL, yt |-> NULL, status |-> NULL,
                   direct |-> FALSE, event_id |-> FALSE,
                   created |-> Cardinality(Stored), updated |-> time]
       IN  /\ rows' = [rows EXCEPT ![r] = row]
           /\ loaded' = [loaded EXCEPT ![r] = row]
    /\ found' = [found EXCEPT ![r] = r]
    /\ Goto(r, "save")
    /\ UNCHANGED <<now, faults, event, form, kind, todo, log, gitter>>

\* Variant: a timestamp that is not the present's.
CreateTomorrow(r) == CreateAt(r, now + 1)
Create(r) == CreateAt(r, now)

(***************************************************************************)
(* update(whitelist_params).  Every column is assigned, url_set_directly   *)
(* by the page's forms only, but ActiveRecord writes those that differ     *)
(* from what it loaded.                                                    *)
(***************************************************************************)
Dirty(new, old, stored) == IF new # old THEN new ELSE stored

Assigned(r) ==
    [loaded[r] EXCEPT !.url = form[r].url, !.yt = form[r].yt, !.status = form[r].status,
                      !.direct = kind[r] # "callback", !.event_id = TRUE, !.updated = now]

Merged(r, mem, stored) ==
    [stored EXCEPT !.url = Dirty(mem.url, loaded[r].url, @),
                   !.yt = Dirty(mem.yt, loaded[r].yt, @),
                   !.status = Dirty(mem.status, loaded[r].status, @),
                   !.direct = Dirty(mem.direct, loaded[r].direct, @),
                   !.event_id = Dirty(mem.event_id, loaded[r].event_id, @),
                   !.updated = mem.updated]

Write(r, mem) == rows' = [rows EXCEPT ![found[r]] = Merged(r, mem, @)]

Messages(channels, what) == [n \in 1..Len(channels) |-> [to |-> channels[n], what |-> what]]

\* updating_hangout_url?, updating_valid_yt_url?: both compare the request
\* with the attributes that have been assigned from it already.
HangoutDue(r, mem) ==
    mem.url # NULL /\ (kind[r] = "hangout" \/ mem.url # form[r].url)
YoutubeDue(r, mem) ==
    mem.yt # NULL /\ (kind[r] = "youtube" \/ mem.yt # form[r].yt)

SaveAnnouncing(r, mem, hangout, youtube) ==
    /\ pc[r] = "save" /\ kind[r] # "edit"
    /\ Write(r, mem)
    /\ todo' = [todo EXCEPT ![r] =
         (IF hangout THEN Messages(HangoutChannels(event), mem.url) ELSE <<>>) \o
         (IF youtube THEN Messages(YoutubeChannels(event), mem.yt) ELSE <<>>)]
    /\ Goto(r, "post")
    /\ UNCHANGED <<now, faults, event, form, kind, found, loaded, log, gitter>>

\* Variants: the video form has no hidden hangout link; a hangout is saved
\* without being announced.
SaveBlankLink(r) ==
    LET mem == [Assigned(r) EXCEPT !.url = IF kind[r] = "youtube" THEN NULL ELSE @]
    IN  SaveAnnouncing(r, mem, HangoutDue(r, mem), YoutubeDue(r, mem))
SaveSilently(r) == SaveAnnouncing(r, Assigned(r), FALSE, YoutubeDue(r, Assigned(r)))

Save(r) ==
    SaveAnnouncing(r, Assigned(r), HangoutDue(r, Assigned(r)), YoutubeDue(r, Assigned(r)))

(***************************************************************************)
(* EventInstancesController#update_link: the video and the status of an    *)
(* instance, new or old, are edited on a page of its own.                  *)
(***************************************************************************)
FindForEdit(r) ==
    /\ pc[r] = "idle"
    /\ Cardinality(Open) < MaxOpen
    /\ \E i \in Stored, video \in Videos, s \in {NULL, "live", "finished"} :
         /\ found' = [found EXCEPT ![r] = i]
         /\ loaded' = [loaded EXCEPT ![r] = rows[i]]
         /\ form' = [form EXCEPT ![r] =
              [uid |-> rows[i].uid, url |-> rows[i].url, yt |-> video, status |-> s,
               byline |-> NULL]]
    /\ kind' = [kind EXCEPT ![r] = "edit"]
    /\ Goto(r, "save")
    /\ UNCHANGED <<now, faults, event, rows, todo, log, gitter>>

SaveEdit(r) ==
    /\ pc[r] = "save" /\ kind[r] = "edit"
    /\ LET mem == [loaded[r] EXCEPT !.yt = form[r].yt, !.status = form[r].status] IN
         IF mem = loaded[r] THEN UNCHANGED rows ELSE Write(r, [mem EXCEPT !.updated = now])
    /\ Goto(r, "done")
    /\ UNCHANGED <<now, faults, event, form, kind, found, loaded, todo, log, gitter>>

(***************************************************************************)
(* HangoutNotificationService and YoutubeNotificationService: one message  *)
(* after the other.                                                        *)
(***************************************************************************)
Posted(r) ==
    /\ log' = log \cup {<<r, Head(todo[r]).to, Head(todo[r]).what>>}
    /\ todo' = [todo EXCEPT ![r] = Tail(@)]

PostToSlack(r) ==
    /\ pc[r] = "post"
    /\ todo[r] # <<>> /\ Head(todo[r]).to # "gitter"
    /\ Posted(r)
    /\ UNCHANGED <<now, faults, event, rows, pc, form, kind, found, loaded, gitter>>

\* "[title with name](link) is starting NOW!"
StartingNow(r) == [byline |-> form[r].byline, link |-> Head(todo[r]).what]
InRoom(positions) == {gitter[n] : n \in positions}

\* send_gitter_message_avoid_repeats: the room's messages are fetched ...
ReadGitterSeeing(r, messages) ==
    /\ pc[r] = "post"
    /\ todo[r] # <<>> /\ Head(todo[r]).to = "gitter"
    /\ \/ /\ StartingNow(r) \in messages
          /\ todo' = [todo EXCEPT ![r] = Tail(@)]
          /\ UNCHANGED pc
       \/ /\ StartingNow(r) \notin messages
          /\ Goto(r, "gitter")
          /\ UNCHANGED todo
    /\ UNCHANGED <<now, faults, event, rows, form, kind, found, loaded, log, gitter>>

\* Variant: the oldest messages instead of the newest.
ReadGitterOldest(r) == ReadGitterSeeing(r, InRoom({n \in 1..Len(gitter) : n <= Limit}))
ReadGitter(r) ==
    ReadGitterSeeing(r, InRoom({n \in 1..Len(gitter) : n > Len(gitter) - Limit}))

\* ... and the message is sent.
SendToGitter(r) ==
    /\ pc[r] = "gitter"
    /\ gitter' = Append(gitter, StartingNow(r))
    /\ Posted(r)
    /\ Goto(r, "post")
    /\ UNCHANGED <<now, faults, event, rows, form, kind, found, loaded>>

\* The rescue clause of send_messages_to_social_media: what has not been
\* posted is not, and the member is told so.
RaisePosting(r) ==
    /\ pc[r] \in {"post", "gitter"}
    /\ todo[r] # <<>>
    /\ faults < MaxFaults
    /\ faults' = faults + 1
    /\ todo' = [todo EXCEPT ![r] = <<>>]
    /\ Goto(r, "done")
    /\ UNCHANGED <<now, event, rows, form, kind, found, loaded, log, gitter>>

Respond(r) ==
    /\ pc[r] = "post"
    /\ todo[r] = <<>>
    /\ Goto(r, "done")
    /\ UNCHANGED <<now, faults, event, rows, form, kind, found, loaded, todo, log, gitter>>

Step(r) ==
    \/ OpenPage(r)
    \/ Resend(r)
    \/ Submit(r)
    \/ Find(r)
    \/ Create(r)
    \/ Save(r)
    \/ FindForEdit(r)
    \/ SaveEdit(r)
    \/ PostToSlack(r)
    \/ ReadGitter(r)
    \/ SendToGitter(r)
    \/ RaisePosting(r)
    \/ Respond(r)

Next == Tick \/ Chat \/ \E r \in Requests : Step(r)

Spec == Init /\ [][Next]_vars

-----------------------------------------------------------------------------
Form == [uid : Uids, url : Links \cup {NULL}, yt : Videos \cup {NULL},
         status : {NULL, "live", "finished"}, byline : Bylines \cup {NULL}]

\* Every variable holds a value of the kind the code stores in it; no row is
\* stamped with a time that has not come.
TypeOK ==
    /\ now \in 0..MaxTime
    /\ faults \in 0..MaxFaults
    /\ event \in Event
    /\ rows \in [Requests -> Row \cup {NULL}]
    /\ \A i \in Stored : rows[i].updated <= now
    /\ pc \in [Requests -> {"idle", "page", "find", "create", "save", "post", "gitter", "done"}]
    /\ form \in [Requests -> Form \cup {NULL}]
    /\ kind \in [Requests -> Kinds \cup {"edit", NULL}]
    /\ found \in [Requests -> Requests \cup {NULL}]
    /\ loaded \in [Requests -> Row \cup {NULL}]
    /\ todo \in [Requests -> Seq([to : Channels, what : Links \cup Videos])]
    /\ log \subseteq (Requests \X Channels \X (Links \cup Videos))
    /\ gitter \in Seq(GitterMessage \cup {NULL})

\* A hangout for Premium Mob Members is never announced in a public channel
\* (send_notifications returns after the premium post).
PremiumStaysPrivate ==
    event.premium => \A entry \in log : entry[2] \in Private

\* When all requests have been answered and no post raised, every link that a
\* hangout shows was announced in every channel of its category, also a link
\* a video form carried over or one of two competing forms wrote.  A link the
\* hangout application reported (callback) is not: it asks for no notification.
Reported(link) == \E r \in Requests : kind[r] = "callback" /\ form[r].url = link

EveryStoredLinkAnnounced ==
    Open = {} /\ faults = 0 =>
        \A i \in Stored : rows[i].url # NULL /\ ~Reported(rows[i].url) =>
            \A channel \in ToSet(HangoutChannels(event)) :
                \E r \in Requests : <<r, channel, rows[i].url>> \in log

\* One page at a time: a uid names one hangout, so that a later update finds
\* the one it is meant for.
UidsUnique ==
    \A i, j \in Stored : rows[i].uid = rows[j].uid => i = j

\* A save that changes the link of a hangout stored before is that of a hangout
\* form or of a callback, one that changes its video that of a video form, an
\* edit or a callback: features/hangouts/edit_youtube_url.feature, "Editing
\* Youtube URL has no effect on Hangout URL" and "Editing Hangout URL has no
\* effect on Youtube URL".
Filled == {i \in Stored : pc[i] # "save"}
SavedBy(i, kinds) ==
    \E r \in Requests : found[r] = i /\ pc[r] = "save" /\ pc'[r] # "save" /\ kind[r] \in kinds

FormChangesItsOwn ==
    \A i \in Filled :
        /\ rows'[i].url # rows[i].url => SavedBy(i, {"hangout", "callback"})
        /\ rows'[i].yt # rows[i].yt => SavedBy(i, {"youtube", "edit", "callback"})

\* One page at a time: a hangout that was finished stays so until a member
\* edits its status; no page offers a form that reopens it.
FinishedStays ==
    \A i \in Stored :
        rows[i].status = "finished" /\ rows'[i].status # "finished" => SavedBy(i, {"edit"})
=============================================================================
