# WebsiteOne in TLA+

WebsiteOne is the Rails application of AgileVentures: members sign in with
GitHub or Google, buy memberships, schedule events, hold hangouts in them and
follow projects.  This directory holds TLA+ models of the parts in which the
order of things matters, on the server and in the page, the TLC runs that check
them on small instances, and TLAPS proofs of what matters most for every
instance.  Paths below are relative to the repository.

To check a module: `tlc -config Subscriptions.cfg MCSubscriptions`; to check the
proofs: `tlapm SubscriptionsProofs.tla`.  `PROJECT.json` lists the runs, their
properties, a mutant of the code for each property, the source lines of every
definition, the hazards and the theorems.

## 1. The system

On the server everything runs in Puma threads (`config/puma.rb`: five of them,
workers optional) and in tasks the Heroku scheduler starts
(`lib/tasks/scheduler.rake`).  There is no queue and no lock: mails, Slack posts
and Stripe calls are made within the request, `with_lock` and optimistic locking
are not used, and a transaction spans a single `save` and its callbacks.  So a
request is a process that shares the tables with all others, and a process can
stop between any two statements.

In the browser one thread runs the listeners of Bootstrap, of the site's scripts
(`app/assets/javascripts`) and of the libraries beside them; what is hard there is
not threads but what is pending: the end of a transition, a timer, an answer, a
page that Turbo has meanwhile replaced.

| Component | State | Operations | Talks to | Hard because | Correct when |
|---|---|---|---|---|---|
| Paid membership | `subscriptions`, `payment_sources`, a member's titles; customers at Stripe | `SubscriptionsController#create`, `#update`, `AddSubscriptionToUserForPlan` | Stripe, PayPal, mailer | read, call, write in separate transactions; answers get lost | nobody loses a membership; one open subscription; paid before granted; what is billed is what is open |
| Hangouts | `event_instances`; messages in Slack and Gitter | `EventsController#show` (forms), `EventInstancesController#update`, `#update_link`, both notification services | Slack, Gitter | forms carry state from the time they were rendered; find-or-create without index; posts that raise | premium hangouts stay private; stored links are announced, in Gitter once; forms change what they show |
| Event schedules | `events`: start, recurrence, bit mask of weekdays, end, exclusions | `Event` (schedule, next and listed occurrences, removal), `EventsController#edit`, `#update`, the form's Stimulus controller | ice_cube, browser | three computations of the same occurrences; two time zones; moving starts | page and index agree; an unchanged save changes nothing; a removal removes one occurrence |
| Accounts | `users` (deleted_at, encrypted_password, github_profile_url), `authentications`, the session's identity | OmniAuth callback, unlinking, sign-up, deactivation, password reset | GitHub, Google, Devise | uniqueness by validation only; counts before deletes | nobody is locked out; one row per provider; an identity signs in one account |
| Documents | `documents`, a tree per project | new, edit, update, change section, destroy | | pages that show what was stored when they were rendered; children destroyed with their parent | the documents of a project stay reachable from its categories |
| Projects, following, feed | `projects.status`, `follows`, `activities` | `ProjectsController`, leaving the site, `DashboardController#index` | mailers | a second follow is not forbidden; reading the feed deletes from it | an unfollow leaves no follow; no follow outlives its account; the dashboard answers |
| Karma, commit counts | `karmas`, `commit_counts` | tasks `karma_calculator`, `fetch_github_commits` | GitHub | find-or-initialize without index; components computed at different times | one row per member, equal to the sum of its columns |
| GitHub languages job | `languages`, `languages_projects` | `GithubLanguagesJob.run` | GitHub | overlapping runs; `retry` with stale data; one failure among many | every project it reaches is complete; it ends |
| Scripts' modules, countdown, banner | the registry of modules, the countdown's timer, the cookie | `websiteone.js`, `application.js`, `event_countdown.js`, `cookies_banner.js` | Turbo | scripts outlive pages; timers that nobody clears | modules start once per page; the clock tells the page's event |
| Growing lists | rows shown, requests under way | `users.js`, `users/index.js.erb`, `event_instances/index.js.erb` | server | listeners outlive pages; late answers | the list repeats and omits nothing |
| Skills field | tags, their popovers, the hidden field | `bootstrap-tags.js`, `users.js` | | two arrays to keep in step; tags found by their HTML | what is submitted is what is shown |
| Panels, menus, carousel, dialogs, messages, buttons, tips, tabs, scrolling | each its object's and its element's | `bootstrap.js`, `accordion_collapse.js`, `search_toggle.js`, `flash.js`, `affix_navbar.js` | | calls during transitions; several waits on one element | at rest the page shows the object's state |
| Completing field, progress bar, calendar, jQuery UI's effects, widget factory, dialogs, menu, suggestions, accordion, tabs | each its own | `typeahead.jquery.js`, `nprogress.js`, `bootstrap-datepicker.js`, `jquery-ui.js` | | queues of animations, delays, late answers | the same |
| Other import jobs; articles and votes; PayPal and card redirects; calendar, dashboards, visitors, static pages, legacy API, mailers, helpers | rows written one by one, or none | | | | |

How they interact: an event's page (`events/show.html.erb`) shows the schedule
and carries the hangout forms, so `Hangouts` takes from `Event` whether the
occurrence has started and `EventSchedule` everything else about occurrences; an
account's `stripe_customer_id` and `current_subscription` belong to paid
membership; the GitHub profile that accounts store is what the commits job and
Karma look members up by; deactivating an account hides its owner from the feed
and takes its follows with it.  The widgets of a page meet only in the document's
listeners (`Dropdown`, `Modal`, `Dialog` model theirs) and in the visits that replace
the body (`Site`, `ScrollList`).

## 2. The modules

| Module | Models | Theorems |
|---|---|---|
| `Subscriptions` | paid membership | `SubscriptionsProofs` |
| `Membership` | what paid membership promises, abstractly; `Subscriptions` implements it | `SubscriptionsProofs` |
| `Hangouts` | hangouts and their announcements | `HangoutsProofs` |
| `EventSchedule` | the schedule of an event, its edit form, removal | `EventScheduleProofs` |
| `Accounts` | accounts and identities | `AccountsProofs` |
| `Documents`, `Projects`, `Karma`, `GithubLanguages` | a project's documents; following, feed and dashboard; karma and commit counts; the languages job | `CommunityProofs` |
| `Site`, `ScrollList`, `TagsInput` | the site's own scripts | `PagePartsProofs`, `PageProofs` |
| `Collapse`, `Dropdown`, `Carousel`, `Modal`, `Alerts`, `Buttons`, `Tooltip`, `Tabs`, `ScrollSpy` | Bootstrap's plugins with the site's scripts around them | `PagePartsProofs`, `PageProofs` |
| `Typeahead`, `Progress`, `DatePicker` | the libraries of that purpose | |
| `Widget`, `Effects`, `Dialog`, `Menu`, `Autocomplete`, `Accordion`, `UiTabs` | parts of jQuery UI | |
| `MCSubscriptions`, `MCHangouts`, `MCEventSchedule`, `MCAccounts` | the instances for TLC | |
| `MCCommunity` | instances of `Documents`, `Projects`, `Karma`, `GithubLanguages` | |
| `PageParts` | instances of the site's own scripts and of Bootstrap's plugins | |
| `MCPage` | these, and instances of the libraries' parts | |
| `Folding` | what a fold over a sequence computes, for the proofs | itself |

In the server's modules a process is a request (or a run of a task) with a label
`pc` of its next statement and, as functions of the process, what it has loaded
into memory.  A step is one statement that reads or writes something shared: a
SELECT, an INSERT, a `save`, a call to another service.  What a process does
between two of these is part of the step before it.  A row is named by the process
that inserted it, which is enough because each inserts at most one per table
(languages: one per name).  Definitions named `...With`, `...As`, `...Onto`,
`...Among` take as a parameter what a defect would change; the operator without
the suffix is the code, the ones marked "Variant" are the mutants.

In the browser's modules a state is one record, a step one event with everything
its listeners do before the browser is asked again: a click or key, the end of a
transition, a timer, an answer.  Steps that need nobody (`...Runs`) are the fair
ones.  Fields called history record that the reader did one of the things after
which the code is known to go wrong; the property of the module excuses these and
nothing else, and section 5 lists them.

`MCCommunity` and `MCPage` compose by a variable `part`: a behaviour is of one part,
the others rest.  The parts of one of them share no table, and no element of the
page, that a property looks at, so that products of their states would show
nothing more.

### Subscriptions

`pc` follows `create` (charge, stamp, load, insert, titles, save, mail) and
`update` (replan, stamp, insert, titles, save).  `Charge` and `Replan` are the
calls to Stripe; `Stamp` is the `Time.now` passed to the service; `LoadSubscriptions`
is `ensure_all_previous_subscriptions_are_ended`, which ends in memory only;
`InsertSubscription` is `user.subscriptions <<`, a transaction of its own because the
user is persisted; `SaveUser` is `user.save!`, which autosaves what was loaded,
whatever the rows hold by then, replaces the titles by the loaded list plus one,
and, in an update, gives the payment source back to the subscription it was read
from (the ended subscription's loaded `has_one` writes its own id).  Any
statement can raise (`Raise`), and Stripe can act without its answer arriving
(`LoseAnswer`); the rescue clauses undo nothing.  `latest` and `prior` are history
variables no action reads.

### Hangouts

A request starts with its page: `FormFor` is what the hidden fields repeat, and
`Submit` is one of the page's two forms or the hangout application's callback.
`Find` and `Create` are the two statements of `find_or_create_by`; `Save` writes the
columns that differ from what was loaded, as ActiveRecord does, and decides what
to announce; the messages are then posted one by one, Gitter's in two calls.
`ReadGitter` compares the whole message, which has the hangout's title and its host
beside the link (`Bylines`), with the newest `Limit` messages of the room, 50 in the
code, and in the room `Chat` adds those of others.  A row counts among the event's
hangouts (`Recent`) once an update has set its `event_id`.
`FindForEdit` and `SaveEdit` are `update_link`.  `Resend` is a second submission of
the same page.  The channels of an event follow the services' branches.

### EventSchedule

`Occurs` is `Event#schedule`, over it are built `next_event_occurrence_with_time`
(`NextOccurrence`, with its loop as the interval it scans), `next_occurrences`,
`upcoming_events` and `remove_from_schedule`.  Weekdays are kept as the bit mask the
column holds, the sum of the bits of seven days (`EncodeFrom`) from which `Decode` takes
them back.  `OpenEdit` renders the form in the member's time zone, weekdays
moved by the Stimulus controller, and `Update` is the controller's conversion back.
ice_cube (external) is modelled by how `Event` uses it: weeks begin on Sunday, and
every second week is counted from the start's.

### Accounts

`Callback`, `ValidateLink`, `InsertLink`, `CreateWithAuthentication` and
`LinkGithubProfile` are the branches of `AuthenticationsController#create`, with
the validation apart from the INSERT; `CountForUnlink`, `Unlink` and
`ClearGithubProfile` are `#destroy`; `LoadDependents` and `Deactivate` are
`UsersController#destroy`, whose `dependent: :destroy` deletes what it has loaded.
`offered` holds the identities a session keeps for the sign-up form.  Devise's
password reset is external.  An account is named by its email address.

### GithubLanguages

`NextProject` is the loop of `run`, `GiveUp` its rescue, `Fetch` is `new_languages_for`,
`Find`, `Validate` and `Insert` are `find_or_create_by`, and `Link` is the INSERT into
`languages_projects`, whose unique index makes it raise RecordNotUnique, which is
retried from `Fetch`.  `project.languages` is read once and kept (`loaded`).  A
language that a run finds invalid is returned unsaved and raises RecordInvalid
when it is added, which is not retried.  What GitHub reports is a constant; two
repositories of a project may report the same language.

### Documents, Projects, Karma

`Documents`: a request starts with the form or list it was rendered from
(`OpenNew`, `OpenEdit`, `OpenSections`, `OpenToDestroy`) and reads in one step what it writes in the next;
`stale` records what was put below a document that was no category any more.
`Projects`: follow and unfollow statement by statement, leaving the site, and
`DashboardController#index`, which pages through the feed and, as long as a page holds
activities without an owner, destroys them one by one and reads again.  `Karma`: both tasks over
the members or projects with `find_or_initialize_by` apart from the `save`, the rescue
that raises included; the six components are two, one that the loaded user carries
and one that is counted in the database.

### Membership

Grants per user and which of them are in force: `Grant` adds one, `Supersede` ends
earlier ones while the newest is in force.  The mapping takes a subscription as its
grant and `latest` as the newest.

### The browser

`Site` counts time in half minutes and models full loads and Turbo's visits, which
keep the scripts and their timers.  `ScrollList` keeps rows by number, a listener that
stays from page to page, and answers that come late or never.  `TagsInput` keeps the
arrays of tags and popovers beside what `renderTags` drew.  In Bootstrap's modules
each element has what waits for the end of its transition, and `emulateTransitionEnd`
is an end that always comes; positions and sizes are rows, or left out.

`Typeahead`, `Progress`, `DatePicker` and the jQuery UI modules model libraries that are
in the bundle but that no script of the site calls: they are checked as what a
page that uses them would rest on, and nothing in them is reached by today's
pages.  `Effects` is the queue that elements have, with the animations that an effect
puts in front, and takes items from it until it is empty, a number of times that
`MaxItems` bounds (its type invariant says that none is left over); `Widget` the constructors, instances and handlers of `$.widget`; the
others are its widgets of these names, of which the animations and the
asynchronous sources are kept and the geometry is left out.

## 3. The runs

| Run | Instance | Shows |
|---|---|---|
| `subscriptions` | 3 requests, overlapping or not, 2 users, 2 plans, 1 fault | `OnlyOverlapsLeaveTwoOpen`, `GrantedOnlyAfterPayment`, `SourceStaysWithItsUser`, `PeriodsJoin`, `OnlyOverlapsLoseTitles`, `BilledForOpenPlan`; `ImplementsMembership`, the refinement |
| `subscriptions_two_open` | 2 overlapping requests | violates `AtMostOneOpenSubscription` |
| `hangouts` | 3 pages and requests, 2 links, 1 video, premium, pairing and scrum, before, in and after the occurrence, 1 post raising; 2 bylines, a room of which 1 message is read | `PremiumStaysPrivate`, `EveryStoredLinkAnnounced`, `GitterRepeatsOnlyRaced`, `SerialUidsUnique`, `SerialFormsChangeTheirOwn`, `SerialFinishedStaysFinished` |
| `schedule_edited` | a week in six-hour ticks, one-off, weekly and biweekly series, zones near UTC, 1 removal | `PageAgreesWithIndex`, `UnchangedSaveChangesNothing`, `WeeklyRemovalSkipsOne` |
| `schedule_time_zone` | a member in Hawaii | violates `UnchangedSaveChangesNothing` |
| `accounts` | 6 requests one after the other or 5 of which some overlap, 3 identities of 2 providers | `LockoutNeedsOverlap`, `SerialOneOfEachProvider`, `SerialRowsOfActiveAccounts`, `SerialCallbackLinksFreeIdentities` |
| `accounts_locked_out` | 4 requests, 2 at a time | violates `KeepsMeansOfSignIn` |
| `languages_retry` | `MCCommunity` with the languages only: 2 projects, 2 overlapping runs, no error | violates `EveryRunEnds` |
| `community` | documents: 3, with 4 requests, 2 at a time; following: 2 users, 1 project, 4 requests, a feed page of 1; karma: 3 runs of the tasks, 2 at a time; languages: 2 runs, 1 error of GitHub | `LostNeedsStalePage`, `FollowsAreOfMembers`, `UnfollowLeavesNone`, `DashboardAnswers`, `TotalIsSum`, `OneRowEach`, `EndedRunsComplete`, `EndsUnlessOvertaken` |
| `community_sections` | the same | violates `OnlyMovesChangeSection` |
| `page` | each widget with 2 or 3 of its elements and 4 to 6 events of the reader | `RestingPageAgrees`, `LibrariesAgree`, `SkillsSubmittedAsShown`, `ListedInOrder`, `ScriptsStartOnce`, `TransitionsSettle` |
| `page_visits` | the same | violates `InitOnEveryPage` |

The first run of each module also checks its `TypeOK` (of the page, that of the site's own
scripts and Bootstrap; the libraries' types are in `LibrariesAgree`).  Deadlock is not checked:
all requests are answered at last, and the site then waits for nothing.

**What is violated.**  Six statements of the repository's own tests and comments do
not hold of the code, and the counterexamples are short:

* two overlapping purchases leave two open subscriptions (the service's spec:
  "ensures all other existing subscriptions are ended");
* an unchanged save of an event moves its weekdays, for a member whose date
  differs from the UTC date (feature `edit_future_event`: "has no side-effects");
* two overlapping requests unlink the last two identities of an account without a
  password (controller spec: "should not be allowed for users without any other
  means of authentication");
* a run of the languages job that another overtook retries for ever (feature
  `github_languages`: "Update language field of all projects");
* saving an edit of a sub-document takes it out of its section, because the form
  sends `parent_id` from an address that has none (feature `project_documents`:
  sections change by "Change section");
* Turbo does not send `page:load`, so after a link is followed no module is
  initialised and the countdown stays empty (`websiteone.js`: "automatically be
  called on TurboLink's page:load or document ready event").

Beside most of these stands a property that holds and bounds the damage: a second
open subscription needs an overlap or a failure and never costs the membership; a
save from a near time zone is harmless; a lock-out needs two overlapping
unlinkings that counted each other's row; a run ends unless it is overtaken; a
document is lost only to an outdated page.  Likewise the Gitter room is read and
written in two calls: within the messages that are read, one comes a second time only
from a request that had read the room before the first was sent.

**Overlapping and serial.**  Much of the code is right for one request at a time
only.  One run checks both: history variables (`raced`, `together`, `overlapped`)
record that requests overlapped, and a property called `Serial...`, or with an
excuse such as `OnlyOverlaps...`, demands the rest of all other behaviours.

**Why the bounds are enough.**  The races found take two processes; the third of
`subscriptions` lets a completed request precede an overlap and an update follow a
create, or three requests follow one another (create, upgrade, upgrade); the fourth
to sixth of `accounts` build the account with its two identities before the overlap
or the deactivation.  One fault reaches every statement, in every order with the
others (in `hangouts`, one request at a time: with an overlap, a second byline or
others' messages no post raises, no callback comes and the clock stops at 1, and the
last two come one at a time, where Gitter is told).  With one message read
a room shows the three cases there are: the same message is still read, is there but no
longer read, or never came.  `MaxTime` is as large as the number of instants that can differ: two for
periods that touch; before, within and after for an occurrence; a whole week with
the Saturday and Sunday of its border for schedules.  Three documents are a
category, a child and one to move between them, or a chain.  Requests, users, plans
and links are interchangeable and treated as symmetric where no liveness is
checked.  In the page a second element is what another one's events can disturb,
a third (panels, tabs, accordion) a neighbour on either side, or a second one to hide; four events are two that
overlap an animation, one that resolves it and one more, and the history fields of
the browser's modules, each of which marks one of the disturbances in section 5,
come true within these bounds.  A list has up to five rows at first, in pages of
two, so that there are up to three pages and the last may be full or not, and rows come in
until there are six.

**Fairness.**  `MCCommunity`: `WF` of `GithubLanguages`' `Work(r)` for a run that has
started, because a task runs in its own process and no statement of it waits for another
run, and of `Projects`' `Serve(v)`, the next statement of a request that was accepted, which
its thread executes.  `MCPage`: `WF` of `Runs`, since timers run out, `emulateTransitionEnd` or jQuery's clock ends each
transition, and each request is answered or fails.  Nobody has to start a run, and
nothing obliges a member to submit a form or click, so the rest asserts safety only.

## 4. The proofs

TLAPS proves, for any sets of requests, users, plans, identities, links, events,
documents, projects, rows, runs and languages, for days of any length, any dates and
zones, for any menus, panels, dialogs, tabs, tags and pages of lists, and any bounds:

* `SubscriptionsProofs!TypeCorrect`, `NobodyLosesMembership`, `TwoOpenNeedOverlap`
  (`OnlyOverlapsLeaveTwoOpen`), `TitlesLostByOverlapOnly` (`OnlyOverlapsLoseTitles`),
  `MembershipImplemented` (`ImplementsMembership`), `PeriodsAlwaysJoin` (`PeriodsJoin`),
  `PaymentBeforeGrant` (`GrantedOnlyAfterPayment`), `SourcesKeepTheirUsers`
  (`SourceStaysWithItsUser`) and `BillsWhatIsOpen` (`BilledForOpenPlan`);
* `HangoutsProofs!TypeCorrect`, `PremiumNeverPublic` (`PremiumStaysPrivate`),
  `EveryLinkAnnounced` (`EveryStoredLinkAnnounced`), `UidsStayUnique`
  (`SerialUidsUnique`), `GitterRepeatsAreRaces` (`GitterRepeatsOnlyRaced`),
  `FormsChangeTheirOwn` (`SerialFormsChangeTheirOwn`) and `FinishedStaysFinished`
  (`SerialFinishedStaysFinished`);
* `EventScheduleProofs!TypeCorrect`, `PageAndIndexAgree` (`PageAgreesWithIndex`),
  `RemovalSkipsOne` (`WeeklyRemovalSkipsOne`) and `SameDateSaves`, the part of
  `UnchangedSaveChangesNothing` in which the member's date is that of UTC;
* `AccountsProofs!Invariant`, `TypeCorrect`, `LockoutTheorem` (`LockoutNeedsOverlap`),
  `OneOfEachTheorem` (`SerialOneOfEachProvider`), `ActiveRowsTheorem`
  (`SerialRowsOfActiveAccounts`) and `FreeIdentitiesTheorem`
  (`SerialCallbackLinksFreeIdentities`);
* `CommunityProofs!Invariant`, `TypeCorrect`, `NoDocumentIsLost` (`LostNeedsStalePage`),
  `NoFollowOutlivesItsAccount` (`FollowsAreOfMembers`), `UnfollowedIsGone`
  (`UnfollowLeavesNone`), `KarmaAddsUp` (`TotalIsSum`), `OneRowTheorem` (`OneRowEach`)
  and `LanguagesArrive` (`EndedRunsComplete`);
* `PageProofs!PageInvariant`, `TypeCorrect`, `BootstrapAgrees` (`RestingPageAgrees`),
  `StartedOnce` (`ScriptsStartOnce`), `GrowsInOrder` (`ListedInOrder`) and `SubmittedAreShown`
  (`SkillsSubmittedAsShown`).

They rest on `ASSUME`s, which TLC evaluates in the runs, and on the library's facts about
finite sets, sequences and the well-foundedness of the natural numbers.  Of
`Subscriptions`, `Hangouts` and `Accounts` it is assumed that bounds are natural numbers,
NULL is none of the data, and the requests of `Hangouts` are finitely many.  Of
`EventSchedule`, that lengths and horizons are positive, the horizons of eight and ten
days (`Soon`, `Window`) within the final one of two months (`Final`), no offset reaches a
day, and NULL is no time.  Of the community, that members and counts are numbers, the
absent document and the absent row are none of the documents and rows, there is a user,
and GitHub reports a list of languages of each project.  Of the page, that menus, panels
and dialogs are finitely many and numbered from 1, times and numbers of visits are
numbers, a page of a list has a row at least and a list begins with one, and what is
suggested as a skill can be typed.

*Subscriptions.*  That an open subscription always remains is not inductive: a
request ends what it has loaded, and only knows that its own row was not among
it.  `IInv` remembers, with the history variable `latest`, the last row inserted for
each user: that row is open (`LatestInv`), and no request between its insert and its
save has loaded it, because each request loads before it inserts and inserts
become the latest.  `RowInv` says which rows exist at which label and that a request
loads rows of its own user only, `MemoryInv` what is in memory at which label.  For
the second theorem `prior` remembers who was complete when a request loaded its
user; of those rows each is ended or loaded (`PriorInv`), and what was loaded is ended
at the save (`SeenEndedInv`).

*Payments.*  `PaidInv` says which customer pays for a request on its way to the
insert, and that this customer is billed from the charge on; `SourceInv` that the
source and the subscription a request has in memory are those of the user it is
for, also after an update has moved a source in between.  For `BilledForOpenPlan`,
`CustomerInv` says that a customer is billed for the plan of each request that called
Stripe about it, or another has called since (`Superseded`), which the first cannot
have known as complete, because it was calling then.  A subscription that is open in the
end was not loaded by the other either (`PriorInv`), so the two overlapped.  `BookInv`
holds what that needs of rows and sources; both hold as long as nothing was raised.

*Titles.*  `TitlesInv` says that the plan of a completed request is still a title or was
overlapped, and that a request which has loaded the titles holds those of all who were
complete when it loaded the user: what it writes back loses only titles of others.

*Hangouts.*  `QueueInv` restricts what is still to be posted: private channels for a
premium event, in the Gitter room links; a save fills the queue with allowed
messages only (`AnnouncementsAllowed`, from the channels of both services).
`MemoryInv` says what a request has looked up at each label, `OrderInv` that the event's
rows have a last one, which the page needs, and that no row comes before its insertion.

*Announcements.*  A link is `Covered` if it was posted in every channel, is about to be,
or was reported by the hangout application.  `CoveredInv` claims that of the links in
the rows and of those that pages and video forms carry along, since these can come back
into a row; it holds until a post raises.  A message that is among the newest of the
Gitter room is dropped, so `SendersInv` says that every link in the room was sent by a request.

*The Gitter room.*  `RoomInv`, with the history `sent` of `MCHangouts`, says that whoever
has read the room and not sent yet is a rival of each of the latest messages that
equals his own: it was not there when he read.  A message that comes pushes one
out of the latest, so the claim is kept, and what is sent twice within `Limit` messages is
sent by a rival.  It holds however requests overlap and others write.

*Accounts.*  A lock-out deletes the last row.  `OtherInv` says that whoever is
about to unlink one of several rows of an account without a password leaves one,
unless the overlap has happened.  That needs an order among the counts: of two
requests of one user, if one counted before the other's row was there, then what
it counted and is still there the other counted too (`OrderInv`).  `RowInv` ties the
rows a request has read to its user, `MemoryInv` the labels to the memory.  The step
lemmas go action by action; `ReaderStep`, `CallbackEffect`, `RegisterEffect` and
`UnlinkEffect` state once what an action does to the rows.

*Refinement.*  The mapping is a function of the subscriptions' rows and of `latest`.
The insertion of a row is a `Grant`, `user.save!` a `Supersede`, every other step a
stutter.  That a `Supersede` leaves the newest grant in force is what
`NobodyLosesMembership` rests on, so the invariant of that theorem is used again.
Periods join because the instant at which `SaveUser` ends what was loaded is the one
stamped before the insertion, and no row's start is written twice.

*Serial hangouts.*  While there has been one request at a time (`Alone`), a row is named
by the uid of the request that inserted it (`RowsInv`).  `AddressInv` says what a page
may rely on then: a form addresses a row that is there or the one its own request is to
insert, repeats the field of that row which it does not change, and never addresses a
finished hangout, so that what was loaded at the save is still the row (`SavesItsOwn`).

*Serial accounts.*  `FreshInv` says that what the one request has read is still so: the
account it found is active, nobody has taken the identity in between, the account has no
row of that provider after the validation, and the rows to be deleted with an account
are all it has.  Requests of one step (a sign-up, a new password) may come in between,
so it has to be shown of each of these that they take none of it back (`FreshBeside`).

*Schedules.*  `ScheduleInv` is the type of the event, of the form and of the loaded
values.  The work is arithmetic: a time is a day and a time of day (`DayAndTime`,
`DayOrder`, `WholeDays`), an occurrence is the day's time on a day that occurs
(`OccurrencesAre`), and the least one of an interval exists because a set of numbers
that is not empty has a least element (`LeastOf`).  The page scans up to two months and
the index its window, which lies within that, so that the least occurrence of the
one is that of the other.  When the next occurrence of a weekly series is removed the start
moves to the next one (`LaterStartIsNext`), and the series counted from there has the
same occurrences after it (`MovedKeepsLater`).  `MaskKeepsDays` is the conversion of
weekdays to the mask and back, on which `SameDateSaves` rests.

*Documents.*  Reachability is stated from the other side: a set of documents is `Astray`
if each of them hangs below another of the set or below a row that is gone, and none
of them is stale; `NoneAstray` says that only the empty set is.  `Below` is the least set
closed under children, so what no category and no stale document leads to would
be such a set.  A document whose parent is written is stale unless the new parent is none or a
category, what a destruction leaves below the destroyed is stale, and a category, which
has no parent, is in no such set.

*Following.*  `AloneInv` says that of a user whose requests never overlapped one at most
is on following, that the account is active until it leaves, that it then has all
the user's follows in memory, and that what a follow or unfollow has found is still so;
`SingleInv`, that such a user has one follow of a project at most, so that removing
it leaves none.  Ids are told apart because they are bounded (`Bounded`), so that the
greatest plus one is new (`GreatestOf`, `NextRowIsNew`).

*Karma.*  As long as two runs of a task have not overlapped, the run there is has
found the only row of its member or has found none (`KarmaAlone`, `CountAlone`), and
rows have different ids (`RowsInv`).  That a total is a number at all takes the
sum over a finite set of counts, which the library defines by a function on its subsets:
a smallest subset without such a function (`SmallestOf`) would have one after all
(`SumsExist`), and all such functions agree (`SumsAgree`), so that the sum
in the model is the number they give (`CommitsAddUp`).

*Languages.*  `RunInv` speaks of one run at a time: of the project it is at, it
remembers languages the project has, and what it neither remembers nor still wants GitHub
does not report; a project it is past is complete or given up for a reason.  The
other runs only add to the tables (`NamesGrow`), so that nothing of this is lost.

*The page.*  A behaviour is of one part, so that `PageInv` is a conjunction of twelve
invariants, each proved of its part's own steps: an operator on the part's record
(`SiteInv`, `ListInv`, `SkillInv`, `CollapseInv`, ...), a lemma for each event
(`...Keeps`), one that the invariant has what is checked (`...Safe`).  What the property
says of a page at rest, the invariant says of a page with what is still pending:

* *Scripts.*  `SiteInv`: the modules have been initialised once the page was ready, and
  not before; the clock that belongs to the page shown says what is so of its event,
  unless its update is due, and an update follows until the event has ended.
* *Lists.*  `ListInv`: the rows shown are the beginning of those the filter lets through,
  and the link leads to the page that follows them; a request of the page shown is the
  only one, and asks for that page.  Each half holds until what the property excuses.
* *Skills.*  `SkillInv`: the tags are drawn as they are, unless one was clicked away by
  its HTML; they are distinct; each has its popover; the suggestion selected is in
  the list shown, so that no key reads past its end.
* *Panels.*  `CollapseInv`: a panel has the class of a moving one exactly while something
  waits for its transition's end; `aria-expanded` says what it will be after that; of the
  panels of a parent one at most is open or will be.
* *Carousel.*  `CarouselInv`: the indicator is that of the item coming, or else of the
  active one; what was asked for last is the last that waits, or what comes, or what is
  active, except between a slide's end and its announcement.
* *Dialogs.*  `ModalInv`: each dialog is on its course (`InCourse`: at rest, opening, up,
  parting, clearing), which says what of it waits for which end and whether its backdrop
  is there; while no two are up at once, the lock and the padding are those of the one
  that is.
* *Menus, tips, tabs, buttons, messages, scrolling* likewise: what waits, for each state in
  between; where the navigation bar, the sticky element and the marked link belong, for
  each position.

What waits for one end is run in its order (a transition's callbacks, the calls that wait
for a slide), which the models compute by folds; `Folding` proves, by the
well-foundedness of the numbers and with the operator as a constant, that a fold keeps
what each of its steps keeps, and the parts take it as instances.
The proof of the panels failed at first, and
rightly: of three panels, the first open one decides whether the objects of the others are
kept, and a panel that is clicked while it moves without its object, or beside one that
does, is opened beside another (`Unaware`).  With two panels the run had never met that; it
now has three.

Only model-checked: `LibrariesAgree`.  The libraries' parts are reached by no page of today
(section 2), their invariants would be as long again as those of the rest of the page, and of
`Effects`, which takes as many items from a queue as `MaxItems` allows, the type is right
only where that bound is large enough for the calls that the instance makes.  Also only
model-checked: that in the zones of the
run no date differs from that of UTC, without which `UnchangedSaveChangesNothing` does not
hold (`schedule_time_zone`) and of which `SameDateSaves` is the part for every
instance; and `EndsUnlessOvertaken`, `DashboardAnswers` and `TransitionsSettle`, which
are liveness properties under fairness and which the prover does not handle.  What
recursive functions over data compute for every input would take induction with an
operator as a parameter, which the installed provers cannot instantiate; least and
greatest elements and sums are had from the well-foundedness of the numbers instead.

## 5. What is not modelled, and what the models know of

Within the modelled parts of the server: names, slugs, wording and layout (of an announcement its
title and host are told apart, of nothing else); the
participants' snapshots of a hangout; hookups and daylight saving in schedules, and
`next_occurrence` over several events; profile edits, statuses, captcha and contact
forms of accounts; sessions longer than a request; the mails of following, but as
statements that may raise.  Processes do not crash by themselves: a worker that dies
looks like a statement that raises, since nothing is kept but the tables.

Within the browser: geometry, easing, templates and languages everywhere; ranges,
inline calendars and further views of the date picker; right-to-left text and
highlighting of the completing field; resizing and dragging of jQuery UI's dialogs,
and destroying of its menu and suggestions.  Of `jquery-ui.js` the date picker, the
mouse interactions, select menu, slider, spinner, tooltip, progress bar, buttons and
positions have no module: no script of the site makes one of these widgets.

Not modelled at all, with the reason in `PROJECT.json`: articles and votes; the
other import jobs; pages without state of their own (calendar, visitors, scrums,
cookies, legacy API); the redirects to PayPal and the card form (their effect on
memberships is in `Subscriptions`); mailers and rendering; tasks run once by hand.

**On the server**, behaviour the models have and no property forbids: an upgraded
subscription is left without its payment source; overlapping requests lose a title;
a hangout link set before the start is live for two minutes only; a video form from
before a live hangout inserts an instance of its own, or puts an old link back; a
changed link in a callback is not announced; two overlapping updates both post to
Gitter, and an update does again once the room has moved on by 50 messages or the title or
the host is another; the page of a series in its last week shows no next occurrence; within 300
minutes after an occurrence began the wrong one is removed; removing a Saturday of a
biweekly series moves the others by a week; the sign-up form links an identity a
second time; a refused GitHub identity still gives its profile; a language gets two
rows.  The passing properties are stated so that they hold beside these, and the
hazards say where.

**In the site's own scripts**: the carets of the projects' list are inverted; a tag
with `&`, `<` or `>` that is clicked away stays submitted; Up and then Enter in the
suggestions of the skills throws; the countdown ends up to 59 seconds early, and its
`clearTimeout` clears nothing; the cookie banner binds the first `.close` of the page,
whichever it is; the script that brings the last members calls
`$(window).off('scroll')`, which also takes the navigation bar's listener away; the
filter form is a Turbo visit.

**In the libraries** (which today's pages do not call, see section 2):

* completing field: an answer rendered into a closed field leaves a hint;
* progress bar: its queue never queues, and a bar started again while it fades is
  removed;
* calendar: Enter takes a forbidden day; a click in the months' view changes the
  chosen or default date itself, which is the same object; the focused day stays drawn
  after hiding; an unreadable text is today; a text typed while it is closed is not
  normalised;
* effects: a pulsate that hides leaves opacity 0; puff on several elements writes into
  their common options; transfer ignores the mode; an unqueued bounce starts two
  animations at once;
* widget factory: a base defined again twice no longer reaches its children, a child
  defined again before its base goes back to its first prototype; options given to an
  instance that exists are shared; `_off` of one event forgets the element, so that its
  other handlers survive `destroy`; what `_delay` put off runs after `destroy`;
* dialogs: one closed while it appears takes the focus and stays first; the focus
  may pass to the page during `isOpening`; `modal` changed under an open overlay
  leaves the overlay; destroying the dialog that bound the document's handler unbinds it
  for the others;
* menu: Enter without an active item throws; a timer that was lost still opens or closes
  submenus; hidden submenus keep `aria-expanded`; a click selects the active item, not
  the one clicked;
* suggestions: a key typed less than the delay before a choice or Escape reopens the
  menu and forgets the chosen item; a field left within the delay reports the item
  chosen before; an answer while an arrow chose from the old menu leaves the old
  item's text; a mouse move replayed on a menu that was hidden or rendered again
  activates an item that is not there;
* accordion: several panels removed before one `refresh`, or a veto, leave one that is
  not collapsible with none open; the test that all remaining headers are disabled
  looks among their descendants and never holds; destroyed during an animation it
  leaves a panel hidden;
* tabs: `tabIndex` is compared with the number 0, so that opening from none leaves two
  tabs in the tab order; an arrow's delayed choice overrides a later click; arrows
  refused during an animation leave `aria-selected` on a tab that is not active; the
  active tab removed while its neighbour loads leaves none in the order; a second load
  by a script loses the mark of loading; destroyed within an animation it leaves a
  panel hidden.

## 6. What is left

In this order:

1. A specification of the announcements (each link to each channel at most once, none
   to the wrong one) that `Hangouts` implements.
2. Theorems of the libraries' parts: what `LibrariesAgree` says of the completing field,
   the progress bar, the widget factory and the dialogs first.
3. `Accounts` composed with `Projects`, so that a deactivation and its follows, feed and
   identities are one request.
4. Hookups and `next_occurrence` over several events in `EventSchedule`.
