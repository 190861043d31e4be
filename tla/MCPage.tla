-------------------------------- MODULE MCPage --------------------------------
(***************************************************************************)
(* What happens in the browser, one part at a time: the parts share no     *)
(* element of the page that these properties look at, so that a behaviour  *)
(* is of one of them, whose record the variable page holds.                *)
(***************************************************************************)
EXTENDS PageParts, Sequences, TLC

\* A field that completes a, ab and b.
Completed == {"", "a", "ab", "b"}
Prefixes == "" :> {} @@ "a" :> {} @@ "ab" :> {"a"} @@ "b" :> {}
AtHand == "" :> <<>> @@ "a" :> <<"ab">> @@ "ab" :> <<"b", "ab">> @@ "b" :> <<>>
AtServer == "" :> <<>> @@ "a" :> <<"b", "a">> @@ "ab" :> <<"a">> @@ "b" :> <<"ab">>

CalendarOptions ==
    {[several |-> FALSE, autoclose |-> FALSE, toggleActive |-> TRUE, todayButton |-> "linked"],
     [several |-> TRUE, autoclose |-> FALSE, toggleActive |-> FALSE, todayButton |-> "view"],
     [several |-> FALSE, autoclose |-> TRUE, toggleActive |-> FALSE, todayButton |-> "linked"]}
\* Calls of effects: each of them, and those that make series, three in a row.
Effect(name, mode, queued, on) == [effect |-> name, mode |-> mode, queued |-> queued, on |-> on]
EffectNames == {"blind", "bounce", "clip", "drop", "explode", "fade", "fold",
                "highlight", "size", "scale", "puff", "pulsate", "shake", "slide"}
EachEffect ==
    {Effect(n, m, TRUE, <<1>>) : n \in EffectNames, m \in {"none", "toggle"}}
    \cup {Effect(n, m, TRUE, <<1, 2>>) : n \in {"puff", "pulsate"}, m \in {"show", "hide", "toggle"}}
    \cup {Effect(n, "none", FALSE, <<1>>) : n \in {"blind", "bounce", "highlight", "scale"}}
    \cup {Effect(n, "none", TRUE, <<1>>) : n \in {"transfer", "addClass", "toggleClass"}}
SeriesOfEffects ==
    {Effect(n, "none", TRUE, <<1>>) : n \in {"blind", "bounce", "fold", "pulsate"}}
    \cup {Effect(n, "toggle", TRUE, <<1, 2>>) : n \in {"bounce", "size", "toggleClass"}}
    \cup {Effect(n, "show", FALSE, <<2>>) : n \in {"bounce", "highlight"}}

\* Fields with suggestions: of a remote source, of a script's, on several lines.
FieldKinds ==
    {[remote |-> TRUE, multi |-> FALSE, autoFocus |-> FALSE],
     [remote |-> FALSE, multi |-> FALSE, autoFocus |-> TRUE],
     [remote |-> FALSE, multi |-> TRUE, autoFocus |-> FALSE]}
FirstPanels == <<1, 2, 3>>
FirstTabs == <<1, 2>>
TabKinds ==
    {[animated |-> [hide |-> TRUE, show |-> TRUE], collapsible |-> FALSE],
     [animated |-> [hide |-> FALSE, show |-> TRUE], collapsible |-> TRUE],
     [animated |-> [hide |-> FALSE, show |-> FALSE], collapsible |-> TRUE]}

Dates == {<<>>, <<0>>, <<6>>, <<8, 2>>}

Completions == INSTANCE Typeahead
    WITH typeahead <- page, Texts <- Completed, Continues <- Prefixes, Local <- AtHand,
         Remote <- AtServer, Limit <- 2, MaxEvents <- Few
Loading == INSTANCE Progress
    WITH progress <- page, Full <- 4, MaxCalls <- Few
Calendars == INSTANCE DatePicker
    WITH picker <- page, Days <- 8, PerMonth <- 4, Week <- 2, Today <- 3, EndDate <- 7,
         Starts <- {1, 4}, Disabled <- {3, 6}, Options <- CalendarOptions, Texts <- Dates,
         MaxEvents <- Few
Animations == INSTANCE Effects
    WITH effects <- page, Elements <- Pair, Calls <- EachEffect, Times <- 1, Pieces <- 2,
         MaxCalls <- 2, MaxItems <- 6
Series == INSTANCE Effects
    WITH effects <- page, Elements <- Pair, Calls <- SeriesOfEffects, Times <- 1, Pieces <- 2,
         MaxCalls <- 3, MaxItems <- 6
Factory == INSTANCE Widget
    WITH widgets <- page, Elements <- Pair, Events <- {"click"}, Values <- {"u", "v"}, MaxEvents <- Few
\* A menu of two items with submenus, one of them with a submenu of its own.
MenuParents == <<0, 0, 1, 1, 3, 2>>
MenuTexts == <<<<"a", "b">>, <<"a">>, <<"b">>, <<"a">>, <<"a">>, <<"a">>>>

UiDialogs == INSTANCE Dialog
    WITH dialogs <- page, Dialogs <- Pair, Animated <- {1}, MaxEvents <- Several
UiMenus == INSTANCE Menu
    WITH menu <- page, Items <- 1 .. 6, Parent <- MenuParents, Text <- MenuTexts, Disabled <- {4},
         MaxEvents <- Several
UiFields == INSTANCE Autocomplete
    WITH field <- page, Values <- Completed, Answers <- AtServer, Vetoed <- {"b"}, Kinds <- FieldKinds,
         MaxEvents <- Several
Accordions == INSTANCE Accordion
    WITH accordion <- page, Panels <- 1 .. 4, AtFirst <- FirstPanels, Vetoed <- {4},
         MaxEvents <- Few
TabWidgets == INSTANCE UiTabs
    WITH tabs <- page, Tabs <- Trio, AtFirst <- FirstTabs, Remote <- {2, 3}, Kinds <- TabKinds,
         MaxEvents <- Few

Init ==
    \/ part = "collapse" /\ Collapses!CollapseInit
    \/ part = "dropdown" /\ Dropdowns!DropdownInit
    \/ part = "carousel" /\ Carousels!CarouselInit
    \/ part = "modal" /\ ModalBoxes!ModalInit
    \/ part = "alerts" /\ Messages!AlertsInit
    \/ part = "buttons" /\ ButtonGroups!ButtonsInit
    \/ part = "tooltip" /\ Tooltips!TooltipInit
    \/ part = "tabs" /\ TabLists!TabsInit
    \/ part = "scrolling" /\ Scrolling!ScrollSpyInit
    \/ part = "skills" /\ Skills!TagsInit
    \/ part = "site" /\ Pages!SiteInit
    \/ part = "list" /\ Lists!ListInit
    \/ part = "completions" /\ Completions!TypeaheadInit
    \/ part = "loading" /\ Loading!ProgressInit
    \/ part = "calendar" /\ Calendars!PickerInit
    \/ part = "effects" /\ Animations!EffectsInit
    \/ part = "series" /\ Series!EffectsInit
    \/ part = "factory" /\ Factory!WidgetInit
    \/ part = "dialogs" /\ UiDialogs!DialogInit
    \/ part = "menu" /\ UiMenus!MenuInit
    \/ part = "field" /\ UiFields!AutocompleteInit
    \/ part = "accordion" /\ Accordions!AccordionInit
    \/ part = "uitabs" /\ TabWidgets!UiTabsInit

Next ==
    /\ UNCHANGED part
    /\ \/ part = "collapse" /\ Collapses!CollapseNext
       \/ part = "dropdown" /\ Dropdowns!DropdownNext
       \/ part = "carousel" /\ Carousels!CarouselNext
       \/ part = "modal" /\ ModalBoxes!ModalNext
       \/ part = "alerts" /\ Messages!AlertsNext
       \/ part = "buttons" /\ ButtonGroups!ButtonsNext
       \/ part = "tooltip" /\ Tooltips!TooltipNext
       \/ part = "tabs" /\ TabLists!TabsNext
       \/ part = "scrolling" /\ Scrolling!ScrollSpyNext
       \/ part = "skills" /\ Skills!TagsNext
       \/ part = "site" /\ Pages!SiteNext
       \/ part = "list" /\ Lists!ListNext
       \/ part = "completions" /\ Completions!TypeaheadNext
       \/ part = "loading" /\ Loading!ProgressNext
       \/ part = "calendar" /\ Calendars!PickerNext
       \/ part = "effects" /\ Animations!EffectsNext
       \/ part = "series" /\ Series!EffectsNext
       \/ part = "factory" /\ Factory!WidgetNext
       \/ part = "dialogs" /\ UiDialogs!DialogNext
       \/ part = "menu" /\ UiMenus!MenuNext
       \/ part = "field" /\ UiFields!AutocompleteNext
       \/ part = "accordion" /\ Accordions!AccordionNext
       \/ part = "uitabs" /\ TabWidgets!UiTabsNext

\* Timers run out, transitions end and answers come or fail.
Runs ==
    /\ UNCHANGED part
    /\ \/ part = "collapse" /\ Collapses!CollapseRuns
       \/ part = "carousel" /\ Carousels!CarouselRuns
       \/ part = "modal" /\ ModalBoxes!ModalRuns
       \/ part = "alerts" /\ Messages!AlertsRuns
       \/ part = "buttons" /\ ButtonGroups!ButtonsRuns
       \/ part = "tooltip" /\ Tooltips!TooltipRuns
       \/ part = "tabs" /\ TabLists!TabsRuns
       \/ part = "scrolling" /\ Scrolling!ScrollSpyRuns
       \/ part = "site" /\ Pages!SiteRuns
       \/ part = "list" /\ Lists!ListRuns
       \/ part = "completions" /\ Completions!TypeaheadRuns
       \/ part = "loading" /\ Loading!ProgressRuns
       \/ part = "effects" /\ Animations!EffectsRuns
       \/ part = "series" /\ Series!EffectsRuns
       \/ part = "factory" /\ Factory!WidgetRuns
       \/ part = "dialogs" /\ UiDialogs!DialogRuns
       \/ part = "menu" /\ UiMenus!MenuRuns
       \/ part = "field" /\ UiFields!AutocompleteRuns
       \/ part = "accordion" /\ Accordions!AccordionRuns
       \/ part = "uitabs" /\ TabWidgets!UiTabsRuns

pageVars == <<part, page>>
Spec == Init /\ [][Next]_pageVars /\ WF_pageVars(Runs)

-----------------------------------------------------------------------------
Quiet ==
    /\ part = "collapse" => Collapses!CollapseQuiet
    /\ part = "carousel" => Carousels!CarouselQuiet
    /\ part = "modal" => ModalBoxes!ModalQuiet
    /\ part = "alerts" => Messages!AlertsQuiet
    /\ part = "buttons" => ButtonGroups!ButtonsQuiet
    /\ part = "tooltip" => Tooltips!TooltipQuiet
    /\ part = "tabs" => TabLists!TabsQuiet
    /\ part = "scrolling" => Scrolling!ScrollSpyQuiet
    /\ part = "site" => Pages!SiteQuiet
    /\ part = "list" => Lists!ListQuiet
    /\ part = "completions" => Completions!TypeaheadQuiet
    /\ part = "loading" => Loading!ProgressQuiet
    /\ part = "effects" => Animations!EffectsQuiet
    /\ part = "series" => Series!EffectsQuiet
    /\ part = "factory" => Factory!WidgetQuiet
    /\ part = "dialogs" => UiDialogs!DialogQuiet
    /\ part = "menu" => UiMenus!MenuQuiet
    /\ part = "field" => UiFields!AutocompleteQuiet
    /\ part = "accordion" => Accordions!AccordionQuiet
    /\ part = "uitabs" => TabWidgets!UiTabsQuiet

\* The record of a part that the site's own scripts or Bootstrap make has its type.
TypeOK ==
    /\ part = "collapse" => Collapses!CollapseTypeOK
    /\ part = "dropdown" => Dropdowns!DropdownTypeOK
    /\ part = "carousel" => Carousels!CarouselTypeOK
    /\ part = "modal" => ModalBoxes!ModalTypeOK
    /\ part = "alerts" => Messages!AlertsTypeOK
    /\ part = "buttons" => ButtonGroups!ButtonsTypeOK
    /\ part = "tooltip" => Tooltips!TooltipTypeOK
    /\ part = "tabs" => TabLists!TabsTypeOK
    /\ part = "scrolling" => Scrolling!ScrollSpyTypeOK
    /\ part = "skills" => Skills!TagsTypeOK
    /\ part = "site" => Pages!SiteTypeOK
    /\ part = "list" => Lists!ListTypeOK

\* Whatever the reader does, callbacks that wait for a transition, a timeout or
\* an answer do not call for one another for ever: the page comes to rest.
TransitionsSettle == []<>Quiet

\* The widgets of Bootstrap.  At rest each shows the state its object is in:
\* panels, modals, messages and tips are in the page or out of it with their
\* backdrops, locks and aria attributes, and what follows the scrolling is where
\* the page was scrolled.  What the reader chose is what is chosen, and one at a
\* time where the page offers one: an open panel or menu, a carousel's item, a
\* pressed label.
RestingPageAgrees ==
    /\ part = "collapse" => /\ Collapses!CollapseAgrees
                            /\ Collapses!CaretFollowsPanel
                            /\ Collapses!OneOpenPanel
    /\ part = "dropdown" => Dropdowns!DropdownAgrees /\ Dropdowns!OneOpenMenu
    /\ part = "carousel" => /\ Carousels!CarouselAgrees
                            /\ Carousels!LastChosenShown
                            /\ Carousels!CyclesUnhovered
    /\ part = "modal" => ModalBoxes!ModalAgrees
    /\ part = "alerts" => Messages!AlertsAgree
    /\ part = "buttons" => ButtonGroups!ButtonAgrees /\ ButtonGroups!LabelsAgree
    /\ part = "tooltip" => Tooltips!TipAgrees
    /\ part = "tabs" => TabLists!PaneFollowsTab
    /\ part = "scrolling" => /\ Scrolling!LinkFollowsSection
                             /\ Scrolling!ElementSticks
                             /\ Scrolling!BarSticks

\* The widgets of the other libraries.  Each one's record has its type; at rest
\* suggestions, progress bar, calendar, effects, dialogs, menus, fields, accordions
\* and tabs show what their objects hold, and only what may be chosen is chosen.
LibrariesAgree ==
    /\ part = "completions" => Completions!TypeaheadTypeOK /\ Completions!SuggestionsOfQuery
    /\ part = "loading" => Loading!ProgressTypeOK /\ Loading!BarFollowsStatus
    /\ part = "calendar" => Calendars!PickerTypeOK /\ Calendars!PickerAgrees /\ Calendars!ChosenSelectable
    /\ part = "effects" => Animations!EffectsTypeOK /\ Animations!EffectsInOrder
    /\ part = "series" => Series!EffectsTypeOK /\ Series!EffectsInOrder
    /\ part = "factory" => Factory!WidgetTypeOK /\ Factory!WidgetsAgree
    /\ part = "dialogs" => UiDialogs!DialogTypeOK /\ UiDialogs!DialogsAgree
    /\ part = "menu" => UiMenus!MenuTypeOK /\ UiMenus!MenuAgrees
    /\ part = "field" => UiFields!AutocompleteTypeOK /\ UiFields!AutocompleteAgrees
    /\ part = "accordion" => Accordions!AccordionTypeOK /\ Accordions!AccordionAgrees
    /\ part = "uitabs" => TabWidgets!UiTabsTypeOK /\ TabWidgets!UiTabsAgree

\* The skills a member's form submits are the ones shown, each once, unless one
\* with a character that HTML encodes was clicked away.
SkillsSubmittedAsShown ==
    part = "skills" =>
        Skills!SubmittedAsShown /\ Skills!TagsOnce /\ Skills!SelectionListed

\* A list that grows with the scrolling repeats and omits nothing, unless its
\* rows moved or another page's answer came.
ListedInOrder == part = "list" => Lists!ListedInOrder

\* The modules are initialised once after a full load, and a clock that runs
\* tells the truth about its page's event.
ScriptsStartOnce ==
    part = "site" => /\ Pages!InitOncePerDocument
                     /\ Pages!ClockTellsTheEvent
                     /\ Pages!BannerStaysHidden

\* websiteone.js: modules are initialised on every page.
InitOnEveryPage == part = "site" => Pages!InitOnEveryPage
=============================================================================
