-------------------------------- MODULE Modal --------------------------------
(***************************************************************************)
(* The dialogs that cover the page (modal.js of Bootstrap): sign-up forms, *)
(* the members of a project, the reminder of an incomplete profile that    *)
(* users.js opens by itself.  Opening one locks the page's scrolling, puts *)
(* a backdrop over the page and, once that has faded in, shows the dialog  *)
(* and keeps the focus in it; hiding goes the other way.  Each of the      *)
(* backdrop, the dialog and the modal element has transitions of its own;  *)
(* the end of one runs all that waits on that element.                     *)
(***************************************************************************)
EXTENDS Integers, Sequences, FiniteSetsExt, SequencesExt

CONSTANTS Modals,      \* the modals of the page
          MaxCalls     \* bound on the calls of show, hide and toggle

VARIABLE modal

Nobody == 0            \* no backdrop; nobody traps the focus

ModalInit ==
    \E fade, covers \in BOOLEAN :
        modal = [shown    |-> {},                          \* isShown
                 seen     |-> {},                          \* displayed
                 backdrop |-> [m \in Modals |-> Nobody],   \* this.$backdrop
                 drops    |-> <<>>,                        \* every backdrop made
                 leaving  |-> [m \in Modals |-> 0],        \* waits on the element
                 entering |-> [m \in Modals |-> 0],        \* waits on the dialog
                 original |-> [m \in Modals |-> 0],        \* originalBodyPad
                 pad |-> 0, open |-> FALSE,                \* of the body
                 trap |-> Nobody, resized |-> {}, ignore |-> {},
                 fade |-> fade, covers |-> covers,
                 calls |-> 0, hurried |-> FALSE, stacked |-> FALSE]

\* Shown at last: the focus is kept in m from here on.
Appear(s, m) ==
    [s EXCEPT !.seen = @ \cup {m}, !.trap = m,
              !.entering[m] = IF s.fade THEN @ + 1 ELSE @]

\* Bug seed for the mutants: the scroll bar's padding is kept.
ReleaseUnpadded(s, m) == [s EXCEPT !.open = FALSE]

\* The page is given back.
Release(s, m) == [s EXCEPT !.open = FALSE, !.pad = s.original[m]]

Callback(s, m, what) ==
    CASE what = "appear" -> Appear(s, m)
      [] what = "release" -> Release(s, m)
      [] what = "remove" ->
            LET gone == IF s.backdrop[m] = Nobody THEN s
                        ELSE [s EXCEPT !.drops[s.backdrop[m]].there = FALSE,
                                       !.backdrop[m] = Nobody]
            IN  Release(gone, m)

\* backdrop(callback).
Backdrop(s, m, what) ==
    IF m \in s.shown /\ s.covers
    THEN LET made == [s EXCEPT !.drops = Append(@,
                        [of |-> m, there |-> TRUE, ends |-> IF s.fade THEN <<what>> ELSE <<>>]),
                        !.backdrop[m] = Len(s.drops) + 1]
         IN  IF s.fade THEN made ELSE Callback(made, m, what)
    ELSE IF m \notin s.shown /\ s.backdrop[m] # Nobody
    THEN IF s.fade THEN [s EXCEPT !.drops[s.backdrop[m]].ends = Append(@, "remove")]
         ELSE Callback(s, m, "remove")
    ELSE Callback(s, m, what)

\* checkScrollbar and setScrollbar: an unlocked page has a scroll bar, whose
\* width is added to its padding.
Lock(s, m) ==
    [s EXCEPT !.original[m] = s.pad, !.pad = IF s.open THEN @ ELSE @ + 1, !.open = TRUE]

Show(s, m) ==
    IF m \in s.shown THEN s
    ELSE Backdrop([Lock(s, m) EXCEPT !.shown = @ \cup {m}, !.resized = @ \cup {m}], m, "appear")

HideModal(s, m) == Backdrop([s EXCEPT !.seen = @ \ {m}], m, "release")

\* hide takes the listeners of every modal off the window and the document.
Hide(s, m) ==
    IF m \notin s.shown THEN s
    ELSE LET hid == [s EXCEPT !.shown = @ \ {m}, !.resized = {}, !.trap = Nobody]
         IN  IF s.fade THEN [hid EXCEPT !.leaving[m] = @ + 1] ELSE HideModal(hid, m)

Toggle(s, m) == IF m \in s.shown THEN Hide(s, m) ELSE Show(s, m)

Pending(s, m) ==
    \/ s.leaving[m] > 0 \/ s.entering[m] > 0
    \/ \E i \in DOMAIN s.drops : s.drops[i].of = m /\ s.drops[i].ends # <<>>

Calls(s, m) ==
    /\ modal.calls < MaxCalls
    /\ modal' = [s EXCEPT !.calls = @ + 1, !.hurried = @ \/ Pending(modal, m),
                          !.stacked = @ \/ \E n \in Modals \ {m} : n \in modal.shown \/ Pending(modal, n)]

There(s) == \E i \in DOMAIN s.drops : s.drops[i].there

\* A script opens it (users.js), or the reader does: with the mouse while no
\* backdrop is over the page, by the keyboard while no modal keeps the focus.
Open(m) == m \notin modal.shown /\ Calls(Show(modal, m), m)
Trigger(m) ==
    /\ ~There(modal) \/ modal.trap = Nobody
    /\ Calls(Toggle(modal, m), m)

\* Its close button, or Escape; a click beside the dialog, which a press that
\* began inside it may have told to be ignored.
Dismiss(m) == m \in modal.shown \cap modal.seen /\ Calls(Hide(modal, m), m)

ClickBeside(m) ==
    /\ m \in modal.shown \cap modal.seen /\ modal.covers
    /\ IF m \in modal.ignore THEN modal' = [modal EXCEPT !.ignore = @ \ {m}]
       ELSE Calls(Hide(modal, m), m)

\* A press in the dialog released beside it, where no click follows.
DragOut(m) ==
    /\ m \in modal.shown \cap modal.seen /\ m \notin modal.ignore
    /\ modal' = [modal EXCEPT !.ignore = @ \cup {m}]

\* The ends of the transitions.
DialogEnd(m) ==
    /\ modal.entering[m] > 0
    /\ modal' = [modal EXCEPT !.entering[m] = 0]

ElementEnd(m) ==
    /\ modal.leaving[m] > 0
    /\ modal' = FoldLeft(HideModal, [modal EXCEPT !.leaving[m] = 0],
                         [i \in 1 .. modal.leaving[m] |-> m])

CalledBack(s, call) == Callback(s, call.of, call.what)
BackdropEnd(i) ==
    LET drop == modal.drops[i] IN
    /\ drop.ends # <<>>
    /\ modal' = FoldLeft(CalledBack, [modal EXCEPT !.drops[i].ends = <<>>],
                         [k \in DOMAIN drop.ends |-> [of |-> drop.of, what |-> drop.ends[k]]])

ModalRuns ==
    \/ \E m \in Modals : DialogEnd(m) \/ ElementEnd(m)
    \/ \E i \in DOMAIN modal.drops : BackdropEnd(i)
ModalNext ==
    \/ ModalRuns
    \/ \E m \in Modals : Open(m) \/ Trigger(m) \/ Dismiss(m) \/ ClickBeside(m) \/ DragOut(m)

-----------------------------------------------------------------------------
ModalTypeOK ==
    /\ modal \in [shown : SUBSET Modals, seen : SUBSET Modals, backdrop : [Modals -> Nat],
                  drops : Seq([of : Modals, there : BOOLEAN,
                               ends : Seq({"appear", "release", "remove"})]),
                  leaving : [Modals -> Nat], entering : [Modals -> Nat],
                  original : [Modals -> Nat], pad : Nat, open : BOOLEAN,
                  trap : Modals \cup {Nobody}, resized : SUBSET Modals,
                  ignore : SUBSET Modals, fade : BOOLEAN, covers : BOOLEAN, calls : Nat,
                  hurried : BOOLEAN, stacked : BOOLEAN]
    /\ \A m \in Modals : modal.backdrop[m] \in 0 .. Len(modal.drops)

ModalQuiet == \A m \in Modals : ~Pending(modal, m)

\* At rest, when no modal was called during its own transitions, the shown
\* modals are the ones seen, over a backdrop each, and the page of which none
\* is shown is free: no backdrop, no lock, no trapped focus, no padding.
ModalAgrees ==
    ModalQuiet /\ ~modal.hurried =>
        /\ modal.seen = modal.shown
        /\ \A m \in Modals :
              (modal.backdrop[m] # Nobody) = (m \in modal.shown /\ modal.covers)
        /\ \A i \in DOMAIN modal.drops :
              modal.drops[i].there => modal.backdrop[modal.drops[i].of] = i
        /\ modal.shown = {} => ~modal.open /\ modal.trap = Nobody
        /\ ~modal.stacked => /\ modal.open = (modal.shown # {})
                             /\ modal.pad = IF modal.open THEN 1 ELSE 0
                             /\ modal.resized = modal.shown
=============================================================================
