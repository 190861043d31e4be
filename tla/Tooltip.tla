------------------------------- MODULE Tooltip -------------------------------
(***************************************************************************)
(* The tip of an element, shown while the pointer is over it or the focus  *)
(* in it (tooltip.js of Bootstrap) or after a click (popover.js), at once  *)
(* or after a delay.  users.js gives the page's tips the delays of 500 and *)
(* 100 ms.  Tips fade: the end of a fading runs the callbacks of every     *)
(* show and hide that waits for it, in their order.                        *)
(***************************************************************************)
EXTENDS Naturals, Sequences, SequencesExt

CONSTANT MaxEvents    \* bound on the events of a behaviour

VARIABLE tooltip

Reasons == {"hover", "focus", "click"}

TooltipInit ==
    \E popover, delayed \in BOOLEAN :
        /\ popover => ~delayed
        /\ tooltip = [triggers |-> IF popover THEN {"click"} ELSE {"hover", "focus"},
                      delayed |-> delayed, enabled |-> TRUE, alive |-> TRUE,
                      state |-> {},              \* inState
                      hover |-> "none",          \* hoverState
                      timer |-> "none", in |-> FALSE, inserted |-> FALSE,
                      described |-> FALSE, ends |-> <<>>,
                      events |-> 0, hurried |-> FALSE, scripted |-> FALSE]

\* show; a tip that is off, or has nothing to say, is not shown.
Show(t) ==
    IF ~t.enabled THEN t
    ELSE [t EXCEPT !.in = TRUE, !.inserted = TRUE, !.described = TRUE,
                   !.ends = Append(@, "shown"), !.hurried = @ \/ t.ends # <<>>]

Hide(t, end) ==
    [t EXCEPT !.in = FALSE, !.hover = "none", !.ends = Append(@, end),
              !.hurried = @ \/ t.ends # <<>>]

\* enter: nothing more to do for a tip that is in or on its way in.
EnterTip(t) ==
    IF t.in \/ t.hover = "in" THEN [t EXCEPT !.hover = "in"]
    ELSE LET entering == [t EXCEPT !.hover = "in", !.timer = "none"] IN
         IF t.delayed THEN [entering EXCEPT !.timer = "show"] ELSE Show(entering)

\* leave: the tip stays while there is another reason for it.
LeaveTip(t) ==
    IF t.state # {} THEN t
    ELSE LET leaving == [t EXCEPT !.hover = "out", !.timer = "none"] IN
         IF t.delayed THEN [leaving EXCEPT !.timer = "hide"] ELSE Hide(leaving, "hidden")

Happens(t) ==
    /\ tooltip.alive /\ tooltip.events < MaxEvents
    /\ tooltip' = [t EXCEPT !.events = @ + 1]

Enter(reason) ==
    /\ reason \in tooltip.triggers \ (tooltip.state \cup {"click"})
    /\ Happens(EnterTip([tooltip EXCEPT !.state = @ \cup {reason}]))

Leave(reason) ==
    /\ reason \in tooltip.state \ {"click"}
    /\ Happens(LeaveTip([tooltip EXCEPT !.state = @ \ {reason}]))

\* A click, for a popover.
Click ==
    /\ "click" \in tooltip.triggers
    /\ Happens(IF "click" \in tooltip.state THEN LeaveTip([tooltip EXCEPT !.state = {}])
               ELSE EnterTip([tooltip EXCEPT !.state = {"click"}]))

\* toggle, enable and disable called by a script, which record no reason.
Called(t) == Happens([t EXCEPT !.scripted = TRUE])
ToggleCall == Called(IF tooltip.in THEN LeaveTip(tooltip) ELSE EnterTip(tooltip))
Enable(on) == tooltip.enabled # on /\ Called([tooltip EXCEPT !.enabled = on])

\* destroy lets go of the element at the end of the fading.
Destroy == Called(Hide([tooltip EXCEPT !.timer = "none"], "destroyed"))

Timeout ==
    /\ tooltip.timer # "none"
    /\ LET t == [tooltip EXCEPT !.timer = "none"] IN
       tooltip' = CASE tooltip.timer = "show" /\ t.hover = "in" -> Show(t)
                    [] tooltip.timer = "hide" /\ t.hover = "out" -> Hide(t, "hidden")
                    [] OTHER -> t

\* What waited for the fading: a show that was left meanwhile is hidden, a
\* hidden tip is taken out unless it is on its way in again.
Complete(t, end) ==
    IF end = "shown"
    THEN IF t.alive /\ t.hover = "out" THEN LeaveTip([t EXCEPT !.hover = "none"])
         ELSE [t EXCEPT !.hover = "none"]
    ELSE [t EXCEPT !.inserted = @ /\ t.hover = "in" /\ end = "hidden",
                   !.described = FALSE, !.alive = @ /\ end = "hidden"]

FadingEnd ==
    /\ tooltip.ends # <<>>
    /\ tooltip' = FoldLeft(Complete, [tooltip EXCEPT !.ends = <<>>], tooltip.ends)

TooltipRuns == Timeout \/ FadingEnd
TooltipNext ==
    \/ TooltipRuns \/ Click \/ ToggleCall \/ Destroy
    \/ \E reason \in Reasons : Enter(reason) \/ Leave(reason)
    \/ \E on \in BOOLEAN : Enable(on)

-----------------------------------------------------------------------------
TooltipTypeOK ==
    tooltip \in [triggers : SUBSET Reasons, delayed : BOOLEAN, enabled : BOOLEAN,
                 alive : BOOLEAN, state : SUBSET Reasons, hover : {"none", "in", "out"},
                 timer : {"none", "show", "hide"}, in : BOOLEAN, inserted : BOOLEAN,
                 described : BOOLEAN, ends : Seq({"shown", "hidden", "destroyed"}),
                 events : Nat, hurried : BOOLEAN, scripted : BOOLEAN]

TooltipQuiet == tooltip.timer = "none" /\ tooltip.ends = <<>>

\* At rest the tip is out of the page when there is no reason for it, and in it
\* when there is one, unless it was shown or hidden while it was still fading;
\* scripts that toggle it without a reason aside.
TipAgrees ==
    TooltipQuiet /\ ~tooltip.scripted =>
        /\ tooltip.state = {} => ~tooltip.in /\ ~tooltip.inserted /\ ~tooltip.described
        /\ tooltip.state # {} /\ ~tooltip.hurried => tooltip.in /\ tooltip.inserted
=============================================================================
