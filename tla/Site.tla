--------------------------------- MODULE Site ---------------------------------
(***************************************************************************)
(* The scripts' own modules (websiteone.js, application.js), one of which  *)
(* counts down to the next event (event_countdown.js), and the banner on   *)
(* cookies (cookies_banner.js), from page to page.                         *)
(*                                                                         *)
(* A full load of a page starts the scripts anew.  Between pages Turbo     *)
(* keeps the scripts with their timers and variables, replaces the body,   *)
(* runs the scripts in it and does not send page:load.                     *)
(*                                                                         *)
(* Time is counted in half minutes; an update is due within one.           *)
(***************************************************************************)
EXTENDS Integers, FiniteSets

CONSTANTS Modules,    \* the modules of the bundle; "EventCountdown" is one
          Duration,   \* of an event, in minutes
          EventTimes, \* when the next event of a page may begin, 0 for none
          MaxTime,    \* bound on the clock
          MaxVisits   \* bound on the pages

VARIABLE site

NoEvent == 0

\* update: what the clock shows, the minutes being rounded down.
Says(event, now) ==
    LET left == event - now
        minutes == left \div 2
    IN  IF left > 0 THEN "countdown"
        ELSE IF minutes + Duration <= 0 THEN "ended" ELSE "live"

\* The clock written to is that of the page whose init found it; an event that
\* has ended is not looked at again.
Update(s) ==
    LET text == Says(s.event, s.now)
        shown == IF s.clockOf = s.visit THEN [s EXCEPT !.text = text] ELSE s
    IN  [shown EXCEPT !.timers = IF text = "ended" THEN @ ELSE @ + 1]

\* EventCountdown.init; clearTimeout is not given a timer and stops none.
CountdownInit(s) ==
    IF s.next = NoEvent THEN s
    ELSE Update([s EXCEPT !.event = s.next, !.clockOf = s.visit])

\* _init: every module, then what is to run once; from now on a module defined
\* is initialised at once.
InitModules(s) ==
    LET counted == [s EXCEPT !.inits = [m \in Modules |-> @[m] + 1], !.newPageLoaded = FALSE]
    IN  CountdownInit(counted)

\* Bug seed for the mutants: the module is initialised in any case.
DefineAndInit(s) == InitModules(s)

\* define, for every module of the bundle.
DefineModules(s) ==
    IF s.newPageLoaded THEN s ELSE InitModules(s)

\* cookies_banner.js, run wherever the banner is in the page: the first cross
\* of the page hides it, which is that of a message if there is one.
RunBannerScript(s) ==
    [s EXCEPT !.banner = @ /\ ~s.stored,
              !.hider = CASE s.stored -> "none" [] s.message -> "message" [] OTHER -> "banner"]

Body(s, next, message) ==
    RunBannerScript([s EXCEPT !.visit = @ + 1, !.next = next, !.message = message,
                              !.banner = TRUE, !.text = "empty"])

Started(now, visit, stored) ==
    [visit |-> visit, now |-> now, next |-> NoEvent, text |-> "empty",
     newPageLoaded |-> TRUE, ready |-> FALSE, inits |-> [m \in Modules |-> 0],
     event |-> NoEvent, clockOf |-> 0, timers |-> 0, due |-> FALSE,
     message |-> FALSE, banner |-> FALSE, hider |-> "none", stored |-> stored]

\* The bundle runs before the page, whose scripts run before it is ready.
Loaded(now, visit, stored, next, message) ==
    Body(DefineModules(Started(now, visit, stored)), next, message)

SiteInit == \E next \in EventTimes, message \in BOOLEAN :
                site = Loaded(0, 0, FALSE, next, message)

\* A full load; the session remembers the banner.
Load(next, message) ==
    /\ site.visit < MaxVisits
    /\ site' = Loaded(site.now, site.visit, site.stored, next, message)

\* application.js: once the page is ready the modules are initialised.
Ready == ~site.ready /\ site' = InitModules([site EXCEPT !.ready = TRUE])

\* A link, followed by Turbo.
Visit(next, message) ==
    /\ site.ready /\ site.visit < MaxVisits
    /\ site' = Body(site, next, message)

\* Half a minute; every timer runs within it.
Tick ==
    /\ site.now < MaxTime /\ ~site.due /\ site.ready
    /\ site' = [site EXCEPT !.now = @ + 1, !.due = site.timers > 0]

Timeout ==
    /\ site.due
    /\ site' = Update([site EXCEPT !.timers = @ - 1, !.due = FALSE])

\* The crosses; Bootstrap takes the message out of the page.
CloseMessage ==
    /\ site.message
    /\ site' = [site EXCEPT !.message = FALSE, !.banner = @ /\ site.hider # "message",
                            !.stored = @ \/ site.hider = "message"]
CloseBanner ==
    /\ site.banner
    /\ site' = [site EXCEPT !.banner = site.hider # "banner",
                            !.stored = @ \/ site.hider = "banner"]

SiteRuns == Ready \/ Timeout
SiteNext ==
    \/ SiteRuns \/ Tick \/ CloseMessage \/ CloseBanner
    \/ \E next \in EventTimes, message \in BOOLEAN : Load(next, message) \/ Visit(next, message)

-----------------------------------------------------------------------------
SiteTypeOK ==
    /\ site.text \in {"empty", "countdown", "live", "ended"}
    /\ site.timers \in 0 .. 1 /\ site.visit \in 1 .. MaxVisits

SiteQuiet == site.ready /\ ~site.due

\* Each module is initialised once after a full load, however many pages are
\* visited: a listener set twice would undo what it does.
InitOncePerDocument == site.ready => \A m \in Modules : site.inits[m] = 1

\* "The module's init method will automatically be called on TurboLink's
\* page:load or document ready event": the clock of a page is running.
InitOnEveryPage == SiteQuiet /\ site.next # NoEvent => site.clockOf = site.visit

\* A clock that runs says what is so of its page's event; in the last minute
\* of the event it may already say that it has ended.
ClockTellsTheEvent ==
    SiteQuiet /\ site.clockOf = site.visit =>
        LET left == site.next - site.now IN
        /\ (site.text = "countdown") = (left > 0)
        /\ site.text = "ended" => left < -2 * Duration + 2
        /\ left <= -2 * Duration => site.text = "ended"
        /\ site.text # "ended" => site.timers = 1

\* The banner is gone for the session once it was hidden, and its own cross
\* hides it unless a message came with the page.
BannerStaysHidden == site.stored => ~site.banner
=============================================================================
