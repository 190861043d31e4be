------------------------------- MODULE Effects -------------------------------
(***************************************************************************)
(* Effects on elements (jquery-ui.js, Effects): shown, hidden or just      *)
(* animated, one after the other in each element's queue, or at once if a  *)
(* call asks for that.  An effect saves the element's styles, wraps it,    *)
(* animates and puts everything back; some put a series of animations into *)
(* the queue, in front of what waits there.  A call is made for several    *)
(* elements with the same options, which puff writes into.  Sizes, easing, *)
(* colours and stopped animations are left out.                            *)
(***************************************************************************)
EXTENDS Naturals, Sequences, SequencesExt

CONSTANTS Elements,   \* 1 .. n
          Calls,      \* what may be called: records of effect, mode, queued
                      \* and on, the elements; the class effects are add,
                      \* remove and toggle
          Times,      \* repetitions of a bounce and the like
          Pieces,     \* of an explosion
          MaxCalls,   \* bound on the calls of a behaviour
          MaxItems    \* bound on the items taken from queues in one event

VARIABLE effects

ClassChanges == {"addClass", "removeClass", "toggleClass"}

EffectsInit ==
    effects = [on |-> [e \in Elements |->
                          [hidden |-> FALSE, class |-> FALSE, faint |-> FALSE,
                           wrapped |-> FALSE, clones |-> 0,
                           style |-> "own", saved |-> "own",
                           colour |-> "own", savedColour |-> "own",
                           busy |-> FALSE, queue |-> <<>>,
                           due |-> [hidden |-> FALSE, class |-> FALSE, style |-> "own"],
                           mixed |-> FALSE]],
               running |-> <<>>,     \* animations
               next |-> <<>>,        \* during an event: whose queues are to go on
               calls |-> <<>>,       \* with their options
               completed |-> <<>>]   \* history: callbacks

Save(s, e) == [s EXCEPT !.on[e].saved = s.on[e].style]
Restore(s, e) == [s EXCEPT !.on[e].style = s.on[e].saved]
CreateWrapper(s, e) == [s EXCEPT !.on[e].wrapped = TRUE, !.on[e].style = "moved"]
RemoveWrapper(s, e) == [s EXCEPT !.on[e].wrapped = FALSE]
Display(s, e, mode) == [s EXCEPT !.on[e].hidden = (mode = "hide")]
SaveAndWrap(s, e) == CreateWrapper(Display(Save(s, e), e, "show"), e)

\* The effect's own mode where the call gives none.
SetMode(s, e, r, default) ==
    LET mode == IF r.mode = "none" THEN default ELSE r.mode IN
    [r EXCEPT !.mode = IF mode # "toggle" THEN mode
                       ELSE IF s.on[e].hidden THEN "show" ELSE "hide"]

Animate(s, e, r, steps) ==
    [s EXCEPT !.running = Append(@, [on |-> e, kind |-> "effect", run |-> r, left |-> steps])]

\* The queue of e goes on, before those that are to go on already.
Dequeue(s, e) == [s EXCEPT !.next = <<e>> \o @]

\* The callback, of the first of the chain, and then the next in each queue.
Done(s, r) ==
    [s EXCEPT !.completed = Append(@, <<r.call, r.chain[1]>>),
              !.next = IF s.calls[r.call].queued THEN r.chain \o @ ELSE @]

\* A queued animation, and the function after the last one of a series.
Animation == [kind |-> "animation"]
Series(s, e, r, n) ==
    LET items == [i \in 1 .. n |-> Animation] \o <<[kind |-> "end", run |-> r]>>
    IN  IF s.on[e].busy THEN Dequeue([s EXCEPT !.on[e].queue = items \o @], e)
        ELSE Dequeue([s EXCEPT !.on[e].queue = Tail(items), !.on[e].busy = TRUE,
                               !.running = Append(@, [on |-> e, kind |-> "animation"])], e)

Finish(s, e, r) ==
    LET shown == IF r.mode = "hide" THEN Display(s, e, "hide") ELSE s
        back  == RemoveWrapper(Restore(shown, e), e)
    IN  CASE r.effect \in {"fade", "transfer", "explode"} -> [shown EXCEPT !.on[e].clones = 0]
          [] r.effect = "highlight" -> [shown EXCEPT !.on[e].colour = s.on[e].savedColour]
          [] r.effect = "pulsate" -> [shown EXCEPT !.on[e].faint = (r.mode = "hide")]
          [] r.effect = "size" /\ r.mode = "effect" -> [back EXCEPT !.on[e].style = "scaled"]
          [] OTHER -> back

-----------------------------------------------------------------------------
\* The effects: how each begins.

\* An element that is wrapped already has its styles saved.
Blind(s, e, r) ==
    LET t == IF s.on[e].wrapped THEN Display(s, e, "show") ELSE SaveAndWrap(s, e)
    IN  Animate(CreateWrapper(t, e), e, SetMode(s, e, r, "hide"), 1)

Bounce(s, e, r) ==
    LET m == SetMode(s, e, r, "effect") IN
    Series(SaveAndWrap(s, e), e, m, Times * 2 + (IF m.mode = "effect" THEN 0 ELSE 1))

Clip(s, e, r) == Animate(SaveAndWrap(s, e), e, SetMode(s, e, r, "hide"), 1)
Drop(s, e, r) == Animate(SaveAndWrap(s, e), e, SetMode(s, e, r, "hide"), 1)

Explode(s, e, r) ==
    Animate([Display(s, e, "show") EXCEPT !.on[e].clones = Pieces], e,
            SetMode(s, e, r, "hide"), Pieces)

Fade(s, e, r) == Animate(Display(s, e, "show"), e, SetMode(s, e, r, "toggle"), 1)

\* Of its height first, then of its width.
Fold(s, e, r) == Animate(SaveAndWrap(s, e), e, SetMode(s, e, r, "hide"), 2)

Highlight(s, e, r) ==
    Animate([Display(s, e, "show") EXCEPT !.on[e].savedColour = s.on[e].colour,
                                          !.on[e].colour = "lit"],
            e, SetMode(s, e, r, "show"), 1)

Size(s, e, r) == Animate(SaveAndWrap(s, e), e, SetMode(s, e, r, "effect"), 1)

\* The effect is done when what it delegates to is.
Already(s, e, mode) == mode = IF s.on[e].hidden THEN "hide" ELSE "show"
Scale(s, e, r) ==
    IF Already(s, e, r.mode) THEN Done(s, r) ELSE Size(s, e, [r EXCEPT !.effect = "size"])

\* Written into the options of the call.
Puff(s, e, r) ==
    LET m == SetMode(s, e, r, "hide") IN
    Scale([s EXCEPT !.calls[r.call].mode = m.mode, !.calls[r.call].complete = r.chain], e, m)

Pulsate(s, e, r) ==
    LET m == SetMode(s, e, r, "show")
        t == IF m.mode = "show" \/ s.on[e].hidden
             THEN [Display(s, e, "show") EXCEPT !.on[e].faint = TRUE] ELSE s
    IN  Series(t, e, m, Times * 2 + 1)

Shake(s, e, r) == Series(SaveAndWrap(s, e), e, SetMode(s, e, r, "effect"), Times * 2 + 1)
Slide(s, e, r) == Animate(SaveAndWrap(s, e), e, SetMode(s, e, r, "show"), 1)
Transfer(s, e, r) == Animate([s EXCEPT !.on[e].clones = 1], e, r, 1)

\* The class is changed when the animation is through.
AnimateClass(s, e, r) == Animate(s, e, r, 1)
ChangeClass(s, e, change) ==
    [s EXCEPT !.on[e].class = IF change = "toggleClass" THEN ~@ ELSE change = "addClass"]

Method(s, e, r) ==
    CASE r.effect = "blind" -> Blind(s, e, r)       [] r.effect = "bounce" -> Bounce(s, e, r)
      [] r.effect = "clip" -> Clip(s, e, r)         [] r.effect = "drop" -> Drop(s, e, r)
      [] r.effect = "explode" -> Explode(s, e, r)   [] r.effect = "fade" -> Fade(s, e, r)
      [] r.effect = "fold" -> Fold(s, e, r)         [] r.effect = "highlight" -> Highlight(s, e, r)
      [] r.effect = "size" -> Size(s, e, r)         [] r.effect = "scale" -> Scale(s, e, r)
      [] r.effect = "puff" -> Puff(s, e, r)         [] r.effect = "pulsate" -> Pulsate(s, e, r)
      [] r.effect = "shake" -> Shake(s, e, r)       [] r.effect = "slide" -> Slide(s, e, r)
      [] r.effect = "transfer" -> Transfer(s, e, r) [] OTHER -> AnimateClass(s, e, r)

-----------------------------------------------------------------------------
\* The options are read when the element's turn comes.
Run(s, e, c) ==
    LET call == s.calls[c]
        r == [call |-> c, effect |-> call.effect, mode |-> call.mode,
              chain |-> Append(call.complete, e)]
        t == [s EXCEPT !.on[e].mixed = @ \/ \E i \in DOMAIN s.running : s.running[i].on = e]
    IN  IF Already(s, e, r.mode) THEN Done(t, r) ELSE Method(t, e, r)

\* What the queue holds next begins; an empty one is no longer busy.
TakeItem(s, e) ==
    IF s.on[e].queue = <<>> THEN [s EXCEPT !.on[e].busy = FALSE]
    ELSE LET item == Head(s.on[e].queue)
             t == [s EXCEPT !.on[e].queue = Tail(@), !.on[e].busy = TRUE]
         IN  CASE item.kind = "animation" ->
                    [t EXCEPT !.running = Append(@, [on |-> e, kind |-> "animation"])]
               [] item.kind = "end" -> Done(Finish(t, e, item.run), item.run)
               [] OTHER -> Run(t, e, item.call)

\* Queues go on until each waits for an animation or is empty.
Settled(s) ==
    LET GoOn(t) == IF t.next = <<>> THEN t
                   ELSE TakeItem([t EXCEPT !.next = Tail(@)], Head(t.next))
        after[n \in 0 .. MaxItems] ==   \* (the one state after n items)
            IF n = 0 THEN {s} ELSE {GoOn(t) : t \in after[n - 1]}
    IN  CHOOSE t \in after[MaxItems] : TRUE

Ended(s, e, r) ==
    Done(IF r.effect \in ClassChanges THEN ChangeClass(s, e, r.effect) ELSE Finish(s, e, r), r)

\* What the elements are to be like once all that was called is through.
Due(on, call) ==
    IF call.effect \in ClassChanges
    THEN [on EXCEPT !.due.class = IF call.effect = "toggleClass" THEN ~@ ELSE call.effect = "addClass"]
    ELSE LET mode == IF call.mode # "none" THEN call.mode
                     ELSE CASE call.effect \in {"blind", "clip", "drop", "explode", "fold", "puff"} -> "hide"
                            [] call.effect = "fade" -> "toggle"
                            [] call.effect = "transfer" -> "same"
                            [] OTHER -> "show"
             scales == call.effect \in {"size", "scale"} /\ call.mode = "none"
         IN  [on EXCEPT !.due.hidden = CASE mode = "toggle" -> ~@ [] mode = "same" -> @
                                         [] OTHER -> mode = "hide",
                        !.due.style = IF scales THEN "scaled" ELSE @]

\* effect, show, hide, toggle and the class functions.
Call(call) ==
    LET n == Len(effects.calls) + 1
        noted == [effects EXCEPT
            !.calls = Append(@, [effect |-> call.effect, mode |-> call.mode,
                                 queued |-> call.queued, on |-> call.on, complete |-> <<>>]),
            !.on = [e \in Elements |-> IF e \in ToSet(call.on) THEN Due(@[e], call) ELSE @[e]]]
        Queue(s, e) ==
            LET t == [s EXCEPT !.on[e].queue = Append(@, [kind |-> "run", call |-> n])] IN
            IF t.on[e].busy THEN t ELSE Dequeue(t, e)
        Each(s, e) == Settled(IF call.queued THEN Queue(s, e) ELSE Run(s, e, n))
    IN  /\ Len(effects.calls) < MaxCalls
        /\ effects' = FoldLeft(Each, noted, call.on)

End(i) ==
    LET a == effects.running[i]
        s == [effects EXCEPT !.running = RemoveAt(@, i)]
    IN  effects' = IF a.kind = "animation" THEN Settled(Dequeue(s, a.on))
                   ELSE IF a.left > 1 THEN [effects EXCEPT !.running[i].left = @ - 1]
                   ELSE Settled(Ended(s, a.on, a.run))

EffectsRuns == \E i \in DOMAIN effects.running : End(i)
EffectsNext == EffectsRuns \/ \E call \in Calls : Call(call)

-----------------------------------------------------------------------------
EffectsTypeOK ==
    /\ Len(effects.calls) <= MaxCalls
    /\ effects.next = <<>>
    /\ \A e \in Elements :
          /\ {effects.on[e].style, effects.on[e].saved} \subseteq {"own", "moved", "scaled"}
          /\ effects.on[e].queue # <<>> => effects.on[e].busy

EffectsQuiet == effects.running = <<>>

Puffs(c) == effects.calls[c].effect = "puff" /\ Len(effects.calls[c].on) > 1
CompletedOf(e) == SelectSeq(effects.completed, LAMBDA d : d[2] = e)

\* At rest nothing waits in a queue, and no wrapper or clone is left.  An element
\* on which effects did not overlap looks the way its calls left it, one after
\* the other, and each call's callback was called for each element; only a puff
\* of several elements, which goes on with the options of the one before, may
\* miss that.
EffectsInOrder ==
    EffectsQuiet =>
        /\ \A e \in Elements :
              LET on == effects.on[e] IN
              /\ ~on.busy /\ ~on.wrapped /\ on.clones = 0
              /\ ~on.mixed => on.style = on.due.style /\ on.colour = "own"
              /\ ~on.mixed /\ (\A c \in DOMAIN effects.calls : ~Puffs(c)) =>
                    /\ on.hidden = on.due.hidden /\ on.class = on.due.class
                    /\ \A i, j \in DOMAIN CompletedOf(e) :
                          i < j => CompletedOf(e)[i][1] < CompletedOf(e)[j][1]
        /\ \A c \in DOMAIN effects.calls : ~Puffs(c) =>
              \A i \in DOMAIN effects.calls[c].on :
                  Len(SelectSeq(effects.completed,
                          LAMBDA d : d = <<c, effects.calls[c].on[i]>>)) = 1
=============================================================================
