-------------------------------- MODULE Widget --------------------------------
(***************************************************************************)
(* The widget factory of jQuery UI (jquery-ui.js, $.widget): a constructor *)
(* and one that inherits from it, both defined again while instances of    *)
(* the second are on elements of the page.  An instance binds handlers of  *)
(* two events, and hovering, on an element outside its own; it is          *)
(* disabled, given options, destroyed or removed with its element, and     *)
(* puts work off.  One option stands for those that are objects; others    *)
(* are shared with whoever gave them.                                      *)
(***************************************************************************)
EXTENDS Naturals, Sequences, FiniteSets, SequencesExt

CONSTANTS Elements, Events,   \* elements; the names of events on the part outside
          Values,             \* of the option
          MaxEvents           \* bound on what happens

VARIABLE widgets

None == 0

WidgetInit ==
    \E v \in Values :
        widgets = [base |-> 1, child |-> [proto |-> 1, base |-> 1],
                   childConstructors |-> <<1>>,     \* of the base: their prototypes
                   protos |-> 1,                    \* history: how many the child had
                   instances |-> <<>>,
                   data |-> [e \in Elements |-> None],
                   removed |-> {},                  \* elements
                   bound |-> {},                    \* instance, event
                   objects |-> <<v, v>>,            \* the prototype's option, the caller's
                   over |-> FALSE, hovered |-> FALSE,  \* mouse and class of the part
                   delayed |-> {},                  \* instances
                   left |-> MaxEvents]

Prototypes == 1
Callers == 2
Within(s) == [s EXCEPT !.left = @ - 1]
Ids == DOMAIN widgets.instances
Alive(s, i) == s.data[s.instances[i].on] = i

-----------------------------------------------------------------------------
\* $.widget of a name that is defined: children listed get the new base.
DefineBase ==
    LET s == Within(widgets)
        Redefined(child, proto) == [proto |-> proto, base |-> s.base + 1]
    IN  widgets' = [s EXCEPT !.base = @ + 1,
                             !.child = FoldLeft(Redefined, @, s.childConstructors),
                             !.childConstructors = <<>>]

DefineChild ==
    widgets' = [Within(widgets) EXCEPT !.protos = @ + 1,
                                       !.child = [proto |-> widgets.protos + 1,
                                                  base |-> widgets.base]]

\* An object that is extended is cloned.
Extend(s, i, from) ==
    [s EXCEPT !.objects = Append(@, s.objects[from]),
              !.instances[i].option = Len(s.objects) + 1,
              !.instances[i].given = s.objects[from]]

\* _createWidget, and a _create that binds what it needs.
CreateWidget(s, e, from) ==
    LET i == Len(s.instances) + 1
        made == [s EXCEPT !.instances = Append(@, [on |-> e, made |-> s.child, option |-> None,
                                                   given |-> None, disabled |-> FALSE, inits |-> 1,
                                                   bindings |-> TRUE, hoverable |-> TRUE,
                                                   cut |-> FALSE]),
                          !.data[e] = i,
                          !.bound = @ \cup ({i} \X (Events \cup {"hover"}))]
    IN  Extend(made, i, from)

\* The bridge: a call with options, theirs or none.
Call(e, from) ==
    LET s == Within(widgets)
        i == s.data[e]
        \* not cloned here
        optioned == IF from = Callers
                    THEN [s EXCEPT !.instances[i].option = Callers,
                                   !.instances[i].given = s.objects[Callers]]
                    ELSE s
    IN  /\ e \notin s.removed
        /\ widgets' = IF i = None THEN CreateWidget(s, e, from)
                      ELSE [optioned EXCEPT !.instances[i].inits = @ + 1]

\* A method needs an instance.
Method(e) == widgets.data[e] # None

\* A nested key: the object is copied, and the copy is the option.
Option(e, v) ==
    LET i == widgets.data[e]
        t == Extend(Within(widgets), i, widgets.instances[i].option)
    IN  /\ Method(e)
        /\ widgets' = [t EXCEPT !.objects[Len(t.objects)] = v, !.instances[i].given = v]

SetDisabled(e, value) ==
    LET i == widgets.data[e] IN
    /\ Method(e)
    /\ widgets' = [Within(widgets) EXCEPT
                      !.instances[i].disabled = value,
                      !.hovered = @ /\ ~(value /\ widgets.instances[i].hoverable)]

\* The events of the namespace, on the element and on what is in bindings.
DestroyWidget(s, i) ==
    [s EXCEPT !.data[s.instances[i].on] = None,
              !.bound = IF s.instances[i].bindings THEN {b \in @ : b[1] # i} ELSE @,
              !.hovered = @ /\ ~s.instances[i].hoverable]

Destroy(e) == Method(e) /\ widgets' = DestroyWidget(Within(widgets), widgets.data[e])

\* cleanData triggers remove, which even a disabled widget handles.
RemoveElement(e) ==
    LET s == [Within(widgets) EXCEPT !.removed = @ \cup {e}] IN
    /\ e \notin widgets.removed
    /\ widgets' = IF Method(e) THEN DestroyWidget(s, widgets.data[e]) ELSE s

\* All or one of the events of the part; the part is in bindings no more.
Off(e, events) ==
    LET i == widgets.data[e]
        gone == IF events = {} THEN Events \cup {"hover"} ELSE events
    IN  /\ Method(e)
        /\ widgets' = [Within(widgets) EXCEPT
                          !.bound = @ \ ({i} \X gone),
                          !.instances[i].bindings = FALSE, !.instances[i].hoverable = FALSE,
                          !.instances[i].cut = @ \/ events # {}]

Delay(e) == Method(e) /\ widgets' = [Within(widgets) EXCEPT !.delayed = @ \cup {widgets.data[e]}]

CallerWrites(v) ==
    widgets' = [Within(widgets) EXCEPT
                   !.objects[Callers] = v,
                   !.instances = [i \in Ids |-> IF @[i].option = Callers /\ @[i].inits > 1
                                                THEN [@[i] EXCEPT !.given = v] ELSE @[i]]]

-----------------------------------------------------------------------------
\* The handlers that _on bound.
Handling(event) == {i \in Ids : <<i, event>> \in widgets.bound /\ ~widgets.instances[i].disabled}

Hover ==
    widgets' = [Within(widgets) EXCEPT
                   !.over = ~@,
                   !.hovered = IF Handling("hover") = {} THEN @ ELSE ~widgets.over]

\* What was put off is done, whatever became of the widget.
Later(i) == i \in widgets.delayed /\ widgets' = [widgets EXCEPT !.delayed = @ \ {i}]

WidgetRuns == \E i \in Ids : Later(i)

WidgetNext ==
    \/ WidgetRuns
    \/ /\ widgets.left > 0
       /\ \/ DefineBase \/ DefineChild \/ Hover
          \/ \E e \in Elements :
                \/ Destroy(e) \/ RemoveElement(e) \/ Delay(e)
                \/ \E from \in {Prototypes, Callers} : Call(e, from)
                \/ \E v \in Values : Option(e, v)
                \/ \E value \in BOOLEAN : SetDisabled(e, value)
                \/ \E events \in {{}} \cup {{event} : event \in Events} : Off(e, events)
          \/ \E v \in Values : CallerWrites(v)

-----------------------------------------------------------------------------
WidgetTypeOK ==
    /\ widgets.bound \subseteq Ids \X (Events \cup {"hover"})
    /\ \A e \in Elements : widgets.data[e] \in Ids \cup {None}
    /\ widgets.delayed \subseteq Ids

WidgetQuiet == widgets.delayed = {}

\* A handler is bound only for the instance its element has, unless one event
\* was taken off its part, which then is forgotten when the widget is destroyed;
\* an element that left the page has no instance.  An option has the value it was
\* given last, whatever was written into the caller's object (if the widget was
\* made with it) or into another instance's option.  The class of the mouse is on
\* the part only under the mouse and by a widget that is not disabled, or if
\* hovering was given up there.  The child inherits from the base as it is now,
\* and is as defined last, if the base was defined again once at most, and the
\* child not before.
WidgetsAgree ==
    /\ \A b \in widgets.bound : Alive(widgets, b[1]) \/ widgets.instances[b[1]].cut
    /\ \A e \in widgets.removed : widgets.data[e] = None
    /\ \A e \in Elements : widgets.data[e] # None => widgets.instances[widgets.data[e]].on = e
    /\ \A i \in Ids : Alive(widgets, i) =>
          widgets.objects[widgets.instances[i].option] = widgets.instances[i].given
    /\ widgets.hovered =>
          \/ widgets.over /\ \E i \in Ids : /\ <<i, "hover">> \in widgets.bound
                                         /\ ~widgets.instances[i].disabled
          \/ \E i \in Ids : ~widgets.instances[i].hoverable
    /\ widgets.base <= 2 => widgets.child.base = widgets.base
    /\ widgets.base = 1 \/ widgets.protos = 1 => widgets.child.proto = widgets.protos
===============================================================================
