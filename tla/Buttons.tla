------------------------------- MODULE Buttons -------------------------------
(***************************************************************************)
(* Buttons with a state and buttons that stay pressed (button.js of        *)
(* Bootstrap).  button('loading') and button('reset') change the label and *)
(* the disabled state in a timeout; the label of before is kept by the     *)
(* first call.  A label around a check box or radio button is active when  *)
(* its input is checked; the browser may restore the inputs of a page      *)
(* without the labels, and checks a clicked input before the listener runs. *)
(***************************************************************************)
EXTENDS Naturals, Sequences, FiniteSets

CONSTANTS Inputs,    \* the inputs of a group
          MaxEvents   \* bound on the calls and clicks

VARIABLE buttons

ButtonsInit ==
    \E radio \in BOOLEAN, restored \in SUBSET Inputs :
        /\ radio => Cardinality(restored) <= 1
        /\ buttons = [text |-> "own", kept |-> "none", loading |-> FALSE, disabled |-> FALSE,
                      timers |-> <<>>, last |-> "reset",
                      radio |-> radio, checked |-> restored, active |-> {},
                      touched |-> {}, changed |-> {}, events |-> 0]

Happens(b) ==
    /\ buttons.events < MaxEvents
    /\ buttons' = [b EXCEPT !.events = @ + 1]

SetState(state) ==
    Happens([buttons EXCEPT !.kept = IF @ = "none" THEN buttons.text ELSE @,
                            !.timers = Append(@, state), !.last = state])

\* The timeout of the oldest call.
StateTimeout ==
    /\ buttons.timers # <<>>
    /\ LET state == Head(buttons.timers) IN
       buttons' = [buttons EXCEPT !.timers = Tail(@),
           !.text = IF state = "reset" THEN buttons.kept ELSE state,
           !.loading = state = "loading",
           !.disabled = IF state = "loading" THEN TRUE
                        ELSE IF buttons.loading THEN FALSE ELSE @]

\* What the browser does to the inputs when one itself is clicked.
Check(b, c) ==
    IF b.radio THEN {c}
    ELSE IF c \in b.checked THEN b.checked \ {c} ELSE b.checked \cup {c}

\* toggle: the label's class decides, the input follows.  A radio input takes
\* the check from the others.
ToggleChoice(b, c) ==
    LET active == IF b.radio THEN {c}
                  ELSE IF c \in b.active THEN b.active \ {c} ELSE b.active \cup {c}
        changed == IF b.radio THEN c \notin b.checked
                   ELSE (c \in b.checked) = (c \in b.active)
        others == IF b.radio THEN {} ELSE b.checked \ {c}
    IN  [b EXCEPT !.active = active,
                  !.touched = IF b.radio THEN Inputs ELSE @ \cup {c},
                  !.checked = IF c \in active THEN others \cup {c} ELSE others,
                  !.changed = IF changed THEN @ \cup {c} ELSE @]

\* A click on the label, whose default is prevented, or on the input itself.
ClickLabel(c) == Happens(ToggleChoice(buttons, c))
ClickInput(c) ==
    Happens(ToggleChoice([buttons EXCEPT !.checked = Check(buttons, c)], c))

ButtonsRuns == StateTimeout
ButtonsNext ==
    \/ ButtonsRuns
    \/ \E state \in {"loading", "reset"} : SetState(state)
    \/ \E c \in Inputs : ClickLabel(c) \/ ClickInput(c)

-----------------------------------------------------------------------------
ButtonsTypeOK ==
    buttons \in [text : {"own", "loading"}, kept : {"none", "own"}, loading : BOOLEAN,
                 disabled : BOOLEAN, timers : Seq({"loading", "reset"}),
                 last : {"loading", "reset"}, radio : BOOLEAN, checked : SUBSET Inputs,
                 active : SUBSET Inputs, touched : SUBSET Inputs, changed : SUBSET Inputs,
                 events : Nat]

ButtonsQuiet == buttons.timers = <<>>

\* At rest the button is disabled and says "loading" when that was the last
\* call, and is as it was when that was "reset".
ButtonAgrees ==
    ButtonsQuiet => /\ buttons.disabled = (buttons.last = "loading")
                    /\ buttons.text = IF buttons.disabled THEN "loading" ELSE "own"

\* A label that was clicked, or any of a group of radio buttons after the
\* first click, says whether its input is checked.
LabelsAgree ==
    /\ buttons.active \cap buttons.touched = buttons.checked \cap buttons.touched
    /\ buttons.radio => Cardinality(buttons.checked) <= 1
=============================================================================
