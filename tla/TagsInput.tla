------------------------------ MODULE TagsInput ------------------------------
(***************************************************************************)
(* The field of a member's skills: bootstrap-tags.js with the listeners    *)
(* users.js puts around it.  The object keeps an array of tags and, beside *)
(* it, an array of their popovers; the page shows what renderTags drew     *)
(* last, less what was clicked away.  A tag is clicked away by its HTML,   *)
(* which for a tag with &, < or > is not the tag.                          *)
(***************************************************************************)
EXTENDS Integers, Sequences, SequencesExt

CONSTANTS Tags,         \* what can be typed
          Coded,        \* those with a character that HTML encodes
          Suggestions,  \* the sequence of tags suggested
          Beginning,    \* what matches every suggestion
          MaxKeys       \* bound on the keys, clicks and calls

VARIABLE field

NoIndex == -1
Undefined == -2
Empty == "empty"
Nothing == "nothing"     \* the popover of a tag without one

TagsInit ==
    \E tags \in {<<>>} \cup {<<t>> : t \in Tags} :
        field = [tags |-> tags, popovers |-> [i \in DOMAIN tags |-> Nothing],
                 drawn |-> tags, input |-> Empty, index |-> Undefined, list |-> <<>>,
                 open |-> FALSE, submitted |-> tags, threw |-> FALSE,
                 kept |-> FALSE, renamed |-> FALSE, keys |-> 0]

RenderTags(f) == [f EXCEPT !.drawn = f.tags, !.kept = FALSE]

AddWithContent(f, tag, content) ==
    IF tag \in Range(f.tags) \cup {Empty} THEN f
    ELSE RenderTags([f EXCEPT !.tags = Append(@, tag), !.popovers = Append(@, content)])

\* addTag: with the popover definePopover gives it.
AddTag(f, tag) == AddWithContent(f, tag, tag)

\* removeTag: the first of that name, and its popover.
RemoveTag(f, tag) ==
    IF tag \notin Range(f.tags) THEN f
    ELSE LET i == SelectInSeq(f.tags, LAMBDA t : t = tag) IN
         RenderTags([f EXCEPT !.tags = RemoveAt(@, i), !.popovers = RemoveAt(@, i)])

\* The tags of a sequence that are in a set, in their order.
OnlyIn(tags, set) ==
    LET kept[n \in 0 .. Len(tags)] ==
            IF n = 0 THEN <<>>
            ELSE IF tags[n] \in set THEN Append(kept[n - 1], tags[n]) ELSE kept[n - 1]
    IN  kept[Len(tags)]

\* Bug seed for the mutants: it leaves the page only.
RemoveDrawn(f, tag) == [f EXCEPT !.drawn = OnlyIn(@, Range(@) \ {tag})]

\* removeTagClicked: by the HTML of the tag.  Where that is not the tag, only
\* the drawing of it goes.
RemoveClicked(f, tag) ==
    IF tag \notin Coded THEN RemoveTag(f, tag)
    ELSE [f EXCEPT !.kept = TRUE, !.drawn = OnlyIn(@, Range(@) \ {tag})]

\* getSuggestions and makeSuggestions, for what is in the input.
Suggest(f, all) ==
    LET fit == {s \in Range(Suggestions) \ Range(f.tags) :
                   f.input \in {Beginning, s} \/ (f.input = Empty /\ all)}
        list == OnlyIn(Suggestions, fit)
    IN  [f EXCEPT !.list = list, !.index = NoIndex, !.open = list # <<>>]

\* What Enter or a click on a suggestion adds: the suggestion selected, which
\* there is none of before the first keyup or beyond the list.
Chosen(f, typed) ==
    IF f.index = NoIndex THEN typed
    ELSE IF f.index + 1 \in DOMAIN f.list THEN f.list[f.index + 1] ELSE Nothing

\* Adding what is not there throws; the rest of the listener is not run.
AddChosen(f, typed) ==
    IF Chosen(f, typed) = Nothing THEN [f EXCEPT !.threw = TRUE]
    ELSE [RenderTags(AddTag(f, Chosen(f, typed))) EXCEPT !.input = Empty, !.open = FALSE]

Happens(f) ==
    /\ field.keys < MaxKeys
    /\ field' = [f EXCEPT !.keys = @ + 1]

\* Typing, by keys and by the mouse; a key's release suggests.
Type(tag) == field.input = Empty /\ Happens(Suggest([field EXCEPT !.input = tag], FALSE))
Paste(tag) == field.input = Empty /\ Happens([field EXCEPT !.input = tag])

Enter == Happens(Suggest(AddChosen(field, field.input), FALSE))

\* Tab and the comma: users.js adds what was typed and empties the input.
TabOrComma ==
    Happens(Suggest([AddTag(field, field.input) EXCEPT !.input = Empty], FALSE))

\* Backspace and Delete: the last tag goes when nothing is typed.
Backspace ==
    LET last == field.tags[Len(field.tags)] IN
    Happens(Suggest(
        IF field.input # Empty THEN [field EXCEPT !.input = Empty]
        ELSE IF field.tags = <<>> THEN field ELSE RemoveTag(field, last), FALSE))

\* The arrows select; Down in an empty input suggests everything.  Up selects
\* the first suggestion even when there is none.
Down ==
    LET f == IF field.input = Empty /\ field.index \in {NoIndex, Undefined}
             THEN Suggest(field, TRUE) ELSE field
        next == IF f.index < Len(f.list) - 1 THEN f.index + 1 ELSE Len(f.list) - 1
    IN  Happens([f EXCEPT !.index = next])
Up == Happens([field EXCEPT !.index = IF @ > 0 THEN @ - 1 ELSE 0])
Escape == Happens([field EXCEPT !.index = NoIndex, !.open = FALSE])

\* The mouse on a suggestion, and elsewhere.
ClickSuggestion(i) ==
    /\ field.open /\ i \in DOMAIN field.list
    /\ LET pointed == [field EXCEPT !.index = i - 1] IN
       Happens([Suggest(AddChosen(pointed, field.list[i]), FALSE) EXCEPT !.open = FALSE])
ClickElsewhere == field.open /\ Happens([field EXCEPT !.open = FALSE])
ClickAway(tag) == tag \in Range(field.drawn) /\ Happens(RemoveClicked(field, tag))

\* Calls of a script; a name that is not there renames nothing.
Rename(tag, name) ==
    LET renamed == [i \in DOMAIN field.tags |->
                      IF field.tags[i] = tag /\ \A j \in 1 .. i - 1 : field.tags[j] # tag
                      THEN name ELSE field.tags[i]]
    IN  Happens(RenderTags([field EXCEPT !.tags = renamed,
                                     !.renamed = @ \/ name \in Range(field.tags)]))

\* The form is sent with the array's tags.
Submit == Happens([field EXCEPT !.submitted = field.tags])

TagsNext ==
    \/ \E tag \in Tags \cup {Beginning} : Type(tag) \/ Paste(tag)
    \/ Enter \/ TabOrComma \/ Backspace \/ Down \/ Up \/ Escape
    \/ \E i \in DOMAIN field.list : ClickSuggestion(i)
    \/ ClickElsewhere \/ Submit
    \/ \E tag \in Tags : ClickAway(tag) \/ \E name \in Tags \ {tag} : Rename(tag, name)

-----------------------------------------------------------------------------
TagsTypeOK ==
    /\ Range(field.tags) \subseteq Tags \cup {Beginning}
    /\ field.index \in {Undefined, NoIndex} \cup 0 .. Len(Suggestions)

\* What would be submitted is what is shown, unless a tag that HTML encodes
\* was clicked away since the tags were drawn.
SubmittedAsShown == ~field.kept => field.drawn = field.tags

\* No tag is there twice, unless one was renamed to another, and each has a
\* popover.
TagsOnce ==
    /\ ~field.renamed => IsInjective(field.tags)
    /\ Len(field.popovers) = Len(field.tags)

\* While the list of suggestions is open, the one selected is in it.
SelectionListed == field.open => field.index < Len(field.list)
=============================================================================
