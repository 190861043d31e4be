-------------------------------- MODULE Alerts --------------------------------
(***************************************************************************)
(* Messages that can be dismissed (alert.js of Bootstrap) and the          *)
(* container of the flash messages, which disappears by itself after five  *)
(* seconds (flash.js).  A message is closed by its cross: through the      *)
(* document's listener, and once more through its own when a script made   *)
(* an Alert of it.  The container goes in three steps, queued by jQuery.   *)
(***************************************************************************)
EXTENDS Naturals, Sequences, FiniteSets, SequencesExt

CONSTANTS Messages,    \* the messages; some are in the flash container
          MaxCloses    \* bound on the clicks on a message's cross

VARIABLE alerts

Steps == <<"wait", "fade", "slide", "removed">>

AlertsInit ==
    \E fading, owned, flash \in SUBSET Messages :
        /\ Cardinality(fading) <= 1 /\ Cardinality(flash) <= 1
        /\ alerts = [present |-> Messages, in |-> Messages, fading |-> fading,
                     owned |-> owned, flash |-> flash, step |-> 1,
                     waits |-> [m \in Messages |-> 0], closed |-> [m \in Messages |-> 0],
                     closes |-> [m \in Messages |-> 0]]

\* removeElement: detached, announced to the listeners it still has, removed
\* with them.
RemoveElement(a, m) ==
    [a EXCEPT !.present = @ \ {m}, !.closed[m] = IF m \in a.present THEN @ + 1 ELSE @]

\* close, run by each of the listeners.
CloseOnce(a, m) ==
    LET out == [a EXCEPT !.in = @ \ {m}] IN
    IF m \in a.fading THEN [out EXCEPT !.waits[m] = @ + 1] ELSE RemoveElement(out, m)

InPage(a, m) == m \in a.present /\ (m \in a.flash => a.step < Len(Steps))

Close(m) ==
    /\ InPage(alerts, m) /\ alerts.closes[m] < MaxCloses
    /\ LET once == CloseOnce([alerts EXCEPT !.closes[m] = @ + 1], m) IN
       alerts' = IF m \in alerts.owned THEN CloseOnce(once, m) ELSE once

\* The end of the fading runs every callback of it.
Faded(m) ==
    /\ alerts.waits[m] > 0
    /\ alerts' = FoldLeft(RemoveElement, [alerts EXCEPT !.waits[m] = 0],
                          [i \in 1 .. alerts.waits[m] |-> m])

\* The flash container: five seconds, fadeTo, slideUp, remove with all of its
\* messages.
FlashStep ==
    /\ alerts.step < Len(Steps)
    /\ alerts' = [alerts EXCEPT !.step = @ + 1,
                   !.present = IF alerts.step + 1 = Len(Steps) THEN @ \ alerts.flash ELSE @]

AlertsRuns == FlashStep \/ \E m \in Messages : Faded(m)
AlertsNext == AlertsRuns \/ \E m \in Messages : Close(m)

-----------------------------------------------------------------------------
AlertsTypeOK ==
    /\ alerts.present \subseteq Messages /\ alerts.in \subseteq Messages
    /\ alerts.step \in DOMAIN Steps

AlertsQuiet ==
    Steps[alerts.step] = "removed" /\ \A m \in Messages : alerts.waits[m] = 0

\* A dismissed message leaves the page, one that was not stays, and nobody
\* hears twice that it was closed.
AlertsAgree ==
    \A m \in Messages :
        /\ alerts.closed[m] <= 1
        /\ m \in alerts.present /\ alerts.waits[m] = 0 => m \in alerts.in
        /\ m \notin alerts.in /\ alerts.waits[m] = 0 => m \notin alerts.present
=============================================================================
