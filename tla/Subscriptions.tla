--------------------------- MODULE Subscriptions ---------------------------
(***************************************************************************)
(* Paid membership: SubscriptionsController#create and #update with the    *)
(* service AddSubscriptionToUserForPlan, the tables they write and the     *)
(* Stripe account they charge.                                             *)
(*                                                                         *)
(* Every HTTP request is a process of its own (Puma serves MaxThreads of   *)
(* them at a time) with its own memory: the job it was given and the       *)
(* ActiveRecord objects it has loaded.  A statement that reaches the       *)
(* database, Stripe or the mail server is one step; between two steps any  *)
(* other request may run, and any step may raise instead.                  *)
(*                                                                         *)
(* A request inserts at most one subscription and one payment source and   *)
(* creates at most one Stripe customer, so each of those rows is named by  *)
(* the request that created it.                                            *)
(***************************************************************************)
EXTENDS Integers, FiniteSets

CONSTANTS
    Requests,    \* the HTTP requests the application may receive
    Users,
    Plans,
    NULL,        \* SQL NULL, Ruby nil
    MaxThreads,  \* Puma's thread limit: requests served at the same time
    MaxFaults,   \* bound: how many calls raise an exception
    MaxTime      \* bound on the clock

Time == 0..MaxTime

SubRow == [user : Users, sponsor : Users, plan : Plans,
           started : Time, ended : Time \cup {NULL}]

Job == [op : {"create", "update"}, user : Users, payer : Users,
        plan : Plans, via : {"stripe", "paypal"}]

ASSUME ConstantsAssumption ==
    /\ MaxThreads \in Nat \ {0}
    /\ MaxFaults \in Nat
    /\ MaxTime \in Nat
    /\ NULL \notin Nat \cup Requests \cup Plans \cup SubRow

VARIABLES
    now,     \* Time.now
    faults,  \* exceptions raised so far
    \* the memory of each request
    pc,      \* the next statement of the request
    job,     \* its parameters; NULL before it arrives
    at,      \* the time argument of AddSubscriptionToUserForPlan.with
    seen,    \* the unended subscriptions in the loaded user.subscriptions
    paying,  \* update: the subscription the payment source was read from
    source,  \* the payment source object it hands to the new subscription
    tags,    \* the user's title_list as loaded
    \* the database
    subs,    \* subscriptions; NULL where no row was inserted
    owner,   \* payment_sources.subscription_id; NULL where there is no row
    titles,  \* the titles (acts_as_taggable_on :titles) of each user
    \* Stripe
    billed,  \* the plan a Stripe customer is billed for; NULL: no customer
    \* history, read by no action
    latest,  \* the last subscription inserted for each user
    prior    \* the requests that were complete when this one loaded its user

memory  == <<pc, job, at, seen, paying, source, tags>>
tables  == <<subs, owner, titles>>
history == <<latest, prior>>
vars    == <<now, faults, memory, tables, billed, history>>

Ended == {"done", "failed"}
InFlight == {r \in Requests : pc[r] \notin {"idle"} \cup Ended}

\* subscriptions.select { |s| s.ended_at.nil? }
OpenSubs(u) ==
    {s \in Requests : subs[s] # NULL /\ subs[s].user = u /\ subs[s].ended = NULL}

\* The payment source row of a subscription, if it has one.
SourcesOf(s) == {c \in Requests : owner[c] = s}

\* Requests whose user.save! has committed.
Saved == {r \in Requests : pc[r] \in {"mail", "done"}}

Goto(r, label) == pc' = [pc EXCEPT ![r] = label]

-----------------------------------------------------------------------------
Init ==
    /\ now = 0
    /\ faults = 0
    /\ pc = [r \in Requests |-> "idle"]
    /\ job = [r \in Requests |-> NULL]
    /\ at = [r \in Requests |-> NULL]
    /\ seen = [r \in Requests |-> {}]
    /\ paying = [r \in Requests |-> NULL]
    /\ source = [r \in Requests |-> NULL]
    /\ tags = [r \in Requests |-> {}]
    /\ subs = [r \in Requests |-> NULL]
    /\ owner = [r \in Requests |-> NULL]
    /\ titles = [u \in Users |-> {}]
    /\ billed = [r \in Requests |-> NULL]
    /\ latest = [u \in Users |-> NULL]
    /\ prior = [r \in Requests |-> {}]

Tick ==
    /\ now < MaxTime
    /\ now' = now + 1
    /\ UNCHANGED <<faults, memory, tables, billed, history>>

\* A thread is free to take the request.
Accept(r) ==
    /\ pc[r] = "idle"
    /\ Cardinality(InFlight) < MaxThreads

\* detect_user: the sponsee params[:user] names, else the payer; a slug nobody
\* has (NULL) leaves the payer as the user, too.
Recipient(payer, sponsee) == IF sponsee = NULL THEN payer ELSE sponsee

(***************************************************************************)
(* POST /subscriptions, or the redirect PayPal's agreement ends in.  The   *)
(* plan has been looked up; PayPal has already taken the agreement.        *)
(***************************************************************************)
StartCreateWith(r, first) ==
    /\ Accept(r)
    /\ \E payer \in Users, sponsee \in Users \cup {NULL}, p \in Plans,
          v \in {"stripe", "paypal"} :
         /\ job' = [job EXCEPT ![r] =
              [op |-> "create", user |-> Recipient(payer, sponsee),
               payer |-> payer, plan |-> p, via |-> v]]
         /\ Goto(r, first[v])
    /\ UNCHANGED <<now, faults, at, seen, paying, source, tags, tables, billed, history>>

\* Variant: the membership is granted without creating the customer.
StartCreateUnpaid(r) == StartCreateWith(r, [v \in {"stripe", "paypal"} |-> "stamp"])

StartCreate(r) == StartCreateWith(r, [stripe |-> "charge", paypal |-> "stamp"])

\* create_stripe_customer
Charge(r) ==
    /\ pc[r] = "charge"
    /\ billed' = [billed EXCEPT ![r] = job[r].plan]
    /\ Goto(r, "stamp")
    /\ UNCHANGED <<now, faults, job, at, seen, paying, source, tags, tables, history>>

(***************************************************************************)
(* PUT /subscriptions/:id.  The user (current_user, or the user a          *)
(* privileged user names) has its subscriptions loaded here, by            *)
(* stripe_customer_id; current_subscription is any of the unended ones     *)
(* when there are several (the association has no order).                  *)
(***************************************************************************)
StartUpdateWith(r, sources) ==
    /\ Accept(r)
    /\ \E u \in Users, p \in Plans :
         /\ job' = [job EXCEPT ![r] =
              [op |-> "update", user |-> u, payer |-> u, plan |-> p, via |-> "stripe"]]
         /\ seen' = [seen EXCEPT ![r] = OpenSubs(u)]
         /\ prior' = [prior EXCEPT ![r] = Saved]
         /\ \/ \E s \in OpenSubs(u), c \in Requests :
                 /\ subs[s].started <= now
                 /\ c \in sources[s]
                 /\ paying' = [paying EXCEPT ![r] = s]
                 /\ source' = [source EXCEPT ![r] = c]
                 /\ Goto(r, "replan")
            \* no current subscription, or one without a payment source
            \/ /\ OpenSubs(u) = {} \/ \E s \in OpenSubs(u) : sources[s] = {}
               /\ Goto(r, "failed")
               /\ UNCHANGED <<paying, source>>
    /\ UNCHANGED <<now, faults, at, tags, tables, billed, latest>>

\* Variant: the source of whatever member, not of this subscription.
StartUpdateFromAnySource(r) ==
    StartUpdateWith(r, [s \in Requests |-> {c \in Requests : owner[c] # NULL}])

StartUpdate(r) == StartUpdateWith(r, [s \in Requests |-> SourcesOf(s)])

\* change_plan_through_stripe up to subscription.save: an identifier that is
\* no Stripe customer's (a PayPal payer id) is refused.
ReplanTo(r, plan) ==
    /\ pc[r] = "replan"
    /\ LET c == source[r] IN
         \/ /\ billed[c] # NULL
            /\ billed' = [billed EXCEPT ![c] = plan]
            /\ Goto(r, "stamp")
         \/ /\ billed[c] = NULL
            /\ Goto(r, "failed")
            /\ UNCHANGED billed
    /\ UNCHANGED <<now, faults, job, at, seen, paying, source, tags, tables, history>>

\* Variant: the new plan is never saved at Stripe.
ReplanUnsaved(r) == ReplanTo(r, billed[source[r]])

Replan(r) == ReplanTo(r, job[r].plan)

(***************************************************************************)
(* AddSubscriptionToUserForPlan.with(user, sponsor, Time.now, ...).        *)
(***************************************************************************)
\* Time.now is an argument: it is read before the subscriptions are.  In an
\* update they are loaded already.
StampAs(r, time) ==
    /\ pc[r] = "stamp"
    /\ at' = [at EXCEPT ![r] = time]
    /\ Goto(r, IF job[r].op = "create" THEN "load" ELSE "insert")
    /\ UNCHANGED <<now, faults, job, seen, paying, source, tags, tables, billed, history>>

\* Variant: a start that is not the present.
StampTomorrow(r) == StampAs(r, now + 1)

Stamp(r) == StampAs(r, now)

\* ensure_all_previous_subscriptions_are_ended: loads the subscriptions and
\* ends the unended ones, in memory only.
LoadSubscriptions(r) ==
    /\ pc[r] = "load"
    /\ seen' = [seen EXCEPT ![r] = OpenSubs(job[r].user)]
    /\ source' = [source EXCEPT ![r] = r]
    /\ prior' = [prior EXCEPT ![r] = Saved]
    /\ Goto(r, "insert")
    /\ UNCHANGED <<now, faults, job, at, paying, tags, tables, billed, latest>>

\* user.subscriptions << : the user is persisted, so the row and its payment
\* source are inserted (an update: the source is moved) in a transaction of
\* their own.
InsertSubscription(r) ==
    /\ pc[r] = "insert"
    /\ subs' = [subs EXCEPT ![r] =
         [user |-> job[r].user, sponsor |-> job[r].payer, plan |-> job[r].plan,
          started |-> at[r], ended |-> NULL]]
    /\ owner' = [owner EXCEPT ![source[r]] = r]
    /\ latest' = [latest EXCEPT ![job[r].user] = r]
    /\ Goto(r, "titles")
    /\ UNCHANGED <<now, faults, job, at, seen, paying, source, tags, titles, billed, prior>>

\* user.title_list << plan.name
LoadTitlesOnto(r, loaded) ==
    /\ pc[r] = "titles"
    /\ tags' = [tags EXCEPT ![r] = loaded \cup {job[r].plan}]
    /\ Goto(r, "save")
    /\ UNCHANGED <<now, faults, job, at, seen, paying, source, tables, billed, history>>

\* Variant: title_list = [plan.name].
LoadTitlesAfresh(r) == LoadTitlesOnto(r, {})

LoadTitles(r) == LoadTitlesOnto(r, titles[job[r].user])

(***************************************************************************)
(* user.save!, one transaction.  autosave writes ended_at of the loaded    *)
(* subscriptions that were ended in memory, whatever their row holds now;  *)
(* the taggings become those of the loaded title_list.  Saving an ended    *)
(* subscription runs the save callback of its loaded has_one               *)
(* :payment_source, which sets the foreign key back when it differs: an    *)
(* update's source returns to the subscription it was read from.           *)
(***************************************************************************)
SaveUserEnding(r, loaded, time) ==
    /\ pc[r] = "save"
    /\ subs' = [s \in Requests |->
                  IF s \in loaded THEN [subs[s] EXCEPT !.ended = time] ELSE subs[s]]
    /\ titles' = [titles EXCEPT ![job[r].user] = tags[r]]
    /\ \/ /\ job[r].op = "create"
          /\ Goto(r, "mail")
          /\ UNCHANGED owner
       \/ /\ job[r].op = "update"
          /\ owner' = [owner EXCEPT ![source[r]] = paying[r]]
          /\ Goto(r, "done")
    /\ UNCHANGED <<now, faults, job, at, seen, paying, source, tags, billed, history>>

\* Variants of the save: autosave missing, the subscriptions read again when
\* they are saved, the clock read again.
SaveUserWithoutAutosave(r) == SaveUserEnding(r, {}, at[r])
SaveUserReloaded(r) == SaveUserEnding(r, OpenSubs(job[r].user) \ {r}, at[r])
SaveUserAtNow(r) == SaveUserEnding(r, seen[r], now)

SaveUser(r) == SaveUserEnding(r, seen[r], at[r])

\* send_acknowledgement_email, deliver_now
SendMail(r) ==
    /\ pc[r] = "mail"
    /\ Goto(r, "done")
    /\ UNCHANGED <<now, faults, job, at, seen, paying, source, tags, tables, billed, history>>

-----------------------------------------------------------------------------
\* The statement raises before it has any effect (or the worker dies): the
\* rescue clause redirects, nothing that was done is undone.
Raise(r) ==
    /\ r \in InFlight
    /\ faults < MaxFaults
    /\ faults' = faults + 1
    /\ Goto(r, "failed")
    /\ UNCHANGED <<now, job, at, seen, paying, source, tags, tables, billed, history>>

\* Stripe has acted but its answer is lost (Stripe::APIConnectionError).
LoseAnswer(r) ==
    /\ pc[r] \in {"charge", "replan"}
    /\ faults < MaxFaults
    /\ faults' = faults + 1
    /\ LET c == IF pc[r] = "charge" THEN r ELSE source[r] IN
         /\ pc[r] = "charge" \/ billed[c] # NULL
         /\ billed' = [billed EXCEPT ![c] = job[r].plan]
    /\ Goto(r, "failed")
    /\ UNCHANGED <<now, job, at, seen, paying, source, tags, tables, history>>

Step(r) ==
    \/ StartCreate(r)
    \/ Charge(r)
    \/ StartUpdate(r)
    \/ Replan(r)
    \/ Stamp(r)
    \/ LoadSubscriptions(r)
    \/ InsertSubscription(r)
    \/ LoadTitles(r)
    \/ SaveUser(r)
    \/ SendMail(r)
    \/ Raise(r)
    \/ LoseAnswer(r)

Next == Tick \/ \E r \in Requests : Step(r)

Spec == Init /\ [][Next]_vars

-----------------------------------------------------------------------------
\* Every variable holds a value of the kind the code stores in it; a request
\* past "charge" has what its next statement dereferences.
TypeOK ==
    /\ now \in Time
    /\ faults \in 0..MaxFaults
    /\ pc \in [Requests -> {"idle", "charge", "replan", "stamp", "load", "insert",
                             "titles", "save", "mail"} \cup Ended]
    /\ job \in [Requests -> Job \cup {NULL}]
    /\ at \in [Requests -> Time \cup {NULL}]
    /\ seen \in [Requests -> SUBSET Requests]
    /\ paying \in [Requests -> Requests \cup {NULL}]
    /\ source \in [Requests -> Requests \cup {NULL}]
    /\ tags \in [Requests -> SUBSET Plans]
    /\ subs \in [Requests -> SubRow \cup {NULL}]
    /\ owner \in [Requests -> Requests \cup {NULL}]
    /\ titles \in [Users -> SUBSET Plans]
    /\ billed \in [Requests -> Plans \cup {NULL}]
    /\ latest \in [Users -> Requests \cup {NULL}]
    /\ prior \in [Requests -> SUBSET Requests]

\* Whatever overlaps and whatever raises, a user who was ever given a
\* subscription has one that is not ended: requests that end each other's
\* rows can leave two, never none (allowed_to_attend? stays meaningful).
MembershipNeverLost ==
    \A u \in Users :
        (\E s \in Requests : subs[s] # NULL /\ subs[s].user = u) => OpenSubs(u) # {}

\* A request that has saved its user ended every subscription granted by a
\* request that was complete when it loaded the user: two open
\* subscriptions come from overlapping or broken off requests only.
OnlyOverlapsLeaveTwoOpen ==
    \A r \in Saved : \A q \in prior[r] :
        job[q].user = job[r].user => subs[q].ended # NULL

\* No subscription that Stripe pays for is inserted before its customer
\* exists and is billed, in a create and in an upgrade alike.
GrantedOnlyAfterPayment ==
    \A s \in Requests :
        subs[s] # NULL /\ job[s].via = "stripe" => billed[source[s]] # NULL

\* A payment source always belongs to a subscription of the user whose
\* payment created it, also while updates move it to and fro.
SourceStaysWithItsUser ==
    \A c \in Requests :
        owner[c] # NULL => /\ subs[owner[c]] # NULL
                           /\ subs[owner[c]].user = job[c].user

\* Of two completed requests one had loaded the user's subscriptions only
\* after the other was complete.
InSequence(q, r) == q \in prior[r] \/ r \in prior[q]

\* A subscription only ever ends at the instant at which another one of the
\* same user starts, of a request that had loaded it: no gap is left between
\* two periods, however requests overlap and wherever they raise.
PeriodsJoin ==
    \A s \in Requests :
        subs[s] # NULL /\ subs[s].ended # NULL =>
            \E r \in Requests \ {s} :
                /\ subs[r] # NULL
                /\ subs[r].user = subs[s].user
                /\ s \in seen[r]
                /\ subs[r].started = subs[s].ended

\* The plan a completed request granted is among the user's titles
\* (title_list << plan.name), unless another request for that user
\* overlapped it (or broke off) and wrote back the list it had loaded.
OnlyOverlapsLoseTitles ==
    \A r \in Saved :
        \/ job[r].plan \in titles[job[r].user]
        \/ \E q \in Requests \ {r} :
               tags[q] # {} /\ job[q].user = job[r].user /\ ~InSequence(q, r)

\* With no request under way, none that failed and none that overlapped
\* another for the same user, Stripe bills the customer behind an open
\* subscription for the plan of that subscription.
BilledForOpenPlan ==
    InFlight = {} /\ faults = 0 =>
        \A u \in Users :
            \/ \A s \in OpenSubs(u) :
                   job[s].via = "stripe" => billed[source[s]] = subs[s].plan
            \/ \E q, r \in {s \in Saved : job[s].user = u} :
                   q # r /\ ~InSequence(q, r)

\* The requests carry out Membership: a grant is the insertion of a row, it
\* is in force until ended_at is set; every other step changes no
\* membership.
Promise == INSTANCE Membership WITH
    Grants <- Requests,
    held <- [u \in Users |-> OpenSubs(u)],
    newest <- latest

ImplementsMembership == Promise!Spec

\* What spec/services/add_subscription_to_user_for_plan_spec.rb says of the
\* service, "ensures all other existing subscriptions are ended": with no
\* request under way a user has one open subscription at most.
AtMostOneOpenSubscription ==
    InFlight = {} => \A u \in Users : Cardinality(OpenSubs(u)) <= 1
=============================================================================
