------------------------------- MODULE PageProofs ------------------------------
(***************************************************************************)
(* Proofs about the parts of a page, continued: the skills of a member,    *)
(* menus, buttons, messages and tabs; and what is so of every page.        *)
(***************************************************************************)
EXTENDS MCPage, PagePartsProofs

(***************************************************************************)
(* The field of a member's skills.                                         *)
(***************************************************************************)
Names == Tags \cup {Beginning}
Fields ==
    [tags : Seq(Names), popovers : Seq(Names \cup {Skills!Nothing}), drawn : Seq(Names),
     input : Names \cup {Skills!Empty},
     index : {Skills!Undefined, Skills!NoIndex} \cup 0 .. Len(Suggestions),
     list : Seq(Names), open : BOOLEAN, submitted : Seq(Names), threw : BOOLEAN,
     kept : BOOLEAN, renamed : BOOLEAN, keys : Nat]

\* The tags are drawn, once, each with its popover.
TagsInv(f) ==
    /\ f \in Fields
    /\ ~f.kept => f.drawn = f.tags
    /\ ~f.renamed => Skills!IsInjective(f.tags)
    /\ Len(f.popovers) = Len(f.tags)

\* While suggestions are shown there are some, and the one selected is of them.
ListInView(f) ==
    /\ Len(f.list) <= Len(Suggestions)
    /\ f.open => Len(f.list) > 0 /\ f.index < Len(f.list)

SkillInv(f) == TagsInv(f) /\ ListInView(f)

USE DEF Skills!NoIndex, Skills!Undefined

\* The suggestions are two tags.
LEMMA SuggestionsAre == Suggestions \in Seq(Names) /\ Len(Suggestions) = 2
BY TagsAssumption DEF Suggestions, Names

\* Drawing the tags draws what is kept.
LEMMA RenderedIs ==
    ASSUME NEW f \in Fields, Len(f.popovers) = Len(f.tags),
           ~f.renamed => Skills!IsInjective(f.tags)
    PROVE  TagsInv(Skills!RenderTags(f))
<1> DEFINE t == Skills!RenderTags(f)
<1>1. t = [f EXCEPT !.drawn = f.tags, !.kept = FALSE]
  BY DEF Skills!RenderTags
<1>2. f.tags \in Seq(Names)
  BY DEF Fields
<1> HIDE DEF t
<1>3. t \in Fields
  BY <1>1, <1>2 DEF Fields
<1>4. t.tags = f.tags /\ t.drawn = f.tags /\ t.popovers = f.popovers /\ t.renamed = f.renamed
  BY <1>1 DEF Fields
<1> QED
  BY <1>3, <1>4 DEF TagsInv, t

\* A tag added, unless it is there or there is none.
LEMMA AddedIs ==
    ASSUME NEW f, TagsInv(f), NEW tag \in Names \cup {Skills!Empty}
    PROVE  TagsInv(Skills!AddTag(f, tag))
<1> DEFINE tags == Append(f.tags, tag)
           popovers == Append(f.popovers, tag)
           g == [f EXCEPT !.tags = tags, !.popovers = popovers]
<1>1. CASE tag \in Skills!Range(f.tags) \cup {Skills!Empty}
  BY <1>1 DEF Skills!AddTag, Skills!AddWithContent
<1>2. CASE tag \notin Skills!Range(f.tags) \cup {Skills!Empty}
  <2>1. Skills!AddTag(f, tag) = Skills!RenderTags(g)
    <3>1. g = [f EXCEPT !.tags = Append(@, tag), !.popovers = Append(@, tag)]
      BY DEF TagsInv, Fields
    <3> HIDE DEF g
    <3> QED
      BY <1>2, <3>1 DEF Skills!AddTag, Skills!AddWithContent
  <2>2. /\ f \in Fields /\ tag \in Names /\ f.tags \in Seq(Names)
        /\ f.popovers \in Seq(Names \cup {Skills!Nothing}) /\ Len(f.popovers) = Len(f.tags)
    BY <1>2 DEF TagsInv, Fields
  <2>3. tags \in Seq(Names) /\ popovers \in Seq(Names \cup {Skills!Nothing})
        /\ Len(tags) = Len(f.tags) + 1 /\ Len(popovers) = Len(f.popovers) + 1
    BY <2>2
  <2>4. ~f.renamed => Skills!IsInjective(tags)
    <3>1. ASSUME Skills!IsInjective(f.tags) PROVE Skills!IsInjective(tags)
      <4> DEFINE n == Len(f.tags)
      <4>1. n \in Nat /\ DOMAIN f.tags = 1 .. n /\ DOMAIN tags = 1 .. n + 1 /\ tags[n + 1] = tag
            /\ \A i \in 1 .. n : tags[i] = f.tags[i]
        BY <2>2
      <4>2. \A i \in 1 .. n : f.tags[i] # tag
        BY <1>2, <4>1 DEF Skills!Range
      <4> HIDE DEF n, tags
      <4>3. ASSUME NEW i \in 1 .. n + 1, NEW j \in 1 .. n + 1, tags[i] = tags[j] PROVE i = j
        <5>1. (i \in 1 .. n \/ i = n + 1) /\ (j \in 1 .. n \/ j = n + 1)
          BY <4>1
        <5> QED
          BY <3>1, <4>1, <4>2, <4>3, <5>1 DEF Skills!IsInjective
      <4> QED
        BY <4>1, <4>3 DEF Skills!IsInjective
    <3> QED
      BY <3>1 DEF TagsInv
  <2> HIDE DEF tags, popovers
  <2>5. g \in Fields
    BY <2>2, <2>3 DEF Fields
  <2>6. g.tags = tags /\ g.popovers = popovers /\ g.renamed = f.renamed
    BY <2>2 DEF Fields
  <2> HIDE DEF g
  <2> QED
    BY <2>1, <2>2, <2>3, <2>4, <2>5, <2>6, RenderedIs
<1> QED
  BY <1>1, <1>2

\* A tag, and its popover, taken away.
LEMMA RemovedIs ==
    ASSUME NEW f, TagsInv(f), NEW tag
    PROVE  TagsInv(Skills!RemoveTag(f, tag))
<1> DEFINE i == Skills!SelectInSeq(f.tags, LAMBDA t : t = tag)
           tags == Skills!RemoveAt(f.tags, i)
           popovers == Skills!RemoveAt(f.popovers, i)
           g == [f EXCEPT !.tags = tags, !.popovers = popovers]
<1>1. CASE tag \notin Skills!Range(f.tags)
  BY <1>1 DEF Skills!RemoveTag
<1>2. CASE tag \in Skills!Range(f.tags)
  <2>1. Skills!RemoveTag(f, tag) = Skills!RenderTags(g)
    <3>1. g = [f EXCEPT !.tags = Skills!RemoveAt(@, i), !.popovers = Skills!RemoveAt(@, i)]
      BY DEF TagsInv, Fields
    <3> HIDE DEF g
    <3> QED
      BY <1>2, <3>1 DEF Skills!RemoveTag
  <2>2. /\ f \in Fields /\ f.tags \in Seq(Names)
        /\ f.popovers \in Seq(Names \cup {Skills!Nothing}) /\ Len(f.popovers) = Len(f.tags)
    BY <1>2 DEF TagsInv, Fields
  <2>3. i \in 1 .. Len(f.tags)
    <3> DEFINE with == {j \in 1 .. Len(f.tags) : f.tags[j] = tag}
    <3>1. with \in SUBSET Nat /\ with # {}
      BY <1>2, <2>2 DEF Skills!Range
    <3>2. i = Skills!Min(with)
      BY <3>1 DEF Skills!SelectInSeq
    <3>3. with \subseteq 1 .. Len(f.tags)
      OBVIOUS
    <3> HIDE DEF i, with
    <3>4. \E n \in with : \A m \in with : n <= m
      BY <3>1, Moves!LeastOf
    <3>5. i \in with
      BY <3>2, <3>4 DEF Skills!Min
    <3> QED
      BY <3>3, <3>5
  <2> HIDE DEF i
  <2>4. tags = Without(f.tags, i) /\ popovers = Without(f.popovers, i)
    BY DEF Skills!RemoveAt, Without
  <2> HIDE DEF tags, popovers
  <2>5. /\ tags \in Seq(Names) /\ Len(tags) = Len(f.tags) - 1
        /\ \A j \in 1 .. Len(tags) : tags[j] = f.tags[IF j < i THEN j ELSE j + 1]
    BY <2>2, <2>3, <2>4, RemovedFrom
  <2>6. popovers \in Seq(Names \cup {Skills!Nothing}) /\ Len(popovers) = Len(f.popovers) - 1
    BY <2>2, <2>3, <2>4, RemovedFrom
  <2>7. ~f.renamed => Skills!IsInjective(tags)
    <3>1. ASSUME Skills!IsInjective(f.tags) PROVE Skills!IsInjective(tags)
      <4> DEFINE n == Len(tags)
                 from(j) == IF j < i THEN j ELSE j + 1
      <4>1. n \in Nat /\ DOMAIN f.tags = 1 .. n + 1 /\ DOMAIN tags = 1 .. n /\ i \in 1 .. n + 1
            /\ \A j \in 1 .. n : tags[j] = f.tags[from(j)]
        BY <2>2, <2>3, <2>5
      <4>2. \A j \in 1 .. n : from(j) \in 1 .. n + 1
        BY <4>1
      <4>3. \A j, k \in 1 .. n : from(j) = from(k) => j = k
        BY <4>1
      <4> HIDE DEF n, from
      <4> QED
        BY <3>1, <4>1, <4>2, <4>3 DEF Skills!IsInjective
    <3> QED
      BY <3>1 DEF TagsInv
  <2>8. g \in Fields
    BY <2>2, <2>5, <2>6 DEF Fields
  <2>9. g.tags = tags /\ g.popovers = popovers /\ g.renamed = f.renamed
    BY <2>2 DEF Fields
  <2> HIDE DEF g
  <2> QED
    BY <2>1, <2>2, <2>5, <2>6, <2>7, <2>8, <2>9, RenderedIs
<1> QED
  BY <1>1, <1>2

\* What leaves the tags as they are.
SameTags(f, g) ==
    /\ g.tags = f.tags /\ g.popovers = f.popovers /\ g.drawn = f.drawn
    /\ g.kept = f.kept /\ g.renamed = f.renamed

\* A new list of suggestions keeps the invariant.
LEMMA SuggestedIs ==
    ASSUME NEW f, TagsInv(f), NEW all \in BOOLEAN
    PROVE  SkillInv(Skills!Suggest(f, all))
<1> DEFINE fit == {s \in Skills!Range(Suggestions) \ Skills!Range(f.tags) :
                      f.input \in {Beginning, s} \/ (f.input = Skills!Empty /\ all)}
           list == Skills!OnlyIn(Suggestions, fit)
           open == list # <<>>
           t == Skills!Suggest(f, all)
<1>1. t = [f EXCEPT !.list = list, !.index = Skills!NoIndex, !.open = open]
  BY DEF Skills!Suggest
<1>2. list = Kept(Suggestions, fit)
  BY DEF Skills!OnlyIn, Kept
<1>3. open \in BOOLEAN /\ (open => list # <<>>)
  OBVIOUS
<1> HIDE DEF t, fit, list, open
<1>4. list \in Seq(Names) /\ Len(list) <= Len(Suggestions)
  BY <1>2, SuggestionsAre, KeptIs
<1>5. open => Len(list) > 0
  BY <1>3, <1>4
<1>6. f \in Fields
  BY DEF TagsInv
<1>7. t \in Fields
  BY <1>1, <1>3, <1>4, <1>6 DEF Fields
<1>8. SameTags(f, t) /\ t.list = list /\ t.index = Skills!NoIndex /\ t.open = open
  BY <1>1, <1>6 DEF Fields, SameTags
<1>9. TagsInv(t)
  BY <1>7, <1>8 DEF TagsInv, SameTags
<1>10. ListInView(t)
  BY <1>4, <1>5, <1>8, SuggestionsAre DEF ListInView
<1> QED
  BY <1>9, <1>10 DEF SkillInv, t

\* An event is counted.
LEMMA HappensIs ==
    ASSUME NEW f, SkillInv(f), Skills!Happens(f)
    PROVE  SkillInv(page')
<1>1. f \in Fields /\ page' = [f EXCEPT !.keys = @ + 1]
  BY DEF SkillInv, TagsInv, Skills!Happens
<1>2. page' \in Fields
  <2> DEFINE keys == f.keys + 1
  <2>1. keys \in Nat /\ page' = [f EXCEPT !.keys = keys]
    BY <1>1 DEF Fields
  <2> HIDE DEF keys
  <2> QED
    BY <1>1, <2>1 DEF Fields
<1>3. /\ SameTags(f, page')
      /\ page'.list = f.list /\ page'.index = f.index /\ page'.open = f.open
  BY <1>1 DEF Fields, SameTags
<1> QED
  BY <1>2, <1>3 DEF SkillInv, TagsInv, ListInView, SameTags


\* What an input, a selection or the list is changed to.
LEMMA ChangedIs ==
    ASSUME NEW f, TagsInv(f), NEW g \in Fields, SameTags(f, g)
    PROVE  TagsInv(g)
BY DEF TagsInv, SameTags

\* What is in the input changes nothing of the tags.
LEMMA InputIs ==
    ASSUME NEW f, TagsInv(f), NEW input \in Names \cup {Skills!Empty}
    PROVE  /\ TagsInv([f EXCEPT !.input = input])
           /\ ListInView(f) => ListInView([f EXCEPT !.input = input])
<1> DEFINE g == [f EXCEPT !.input = input]
<1>1. /\ g \in Fields /\ SameTags(f, g)
      /\ g.list = f.list /\ g.open = f.open /\ g.index = f.index
  BY DEF TagsInv, Fields, SameTags
<1> HIDE DEF g
<1>2. TagsInv(g) /\ (ListInView(f) => ListInView(g))
  BY <1>1, ChangedIs DEF ListInView
<1> QED
  BY <1>2 DEF g

\* An open list with a selection of its own keeps the invariant.
LEMMA OpenIs ==
    ASSUME NEW f, TagsInv(f), NEW open \in BOOLEAN,
           NEW index \in {Skills!Undefined, Skills!NoIndex} \cup 0 .. Len(Suggestions),
           Len(f.list) <= Len(Suggestions), open => Len(f.list) > 0 /\ index < Len(f.list)
    PROVE  SkillInv([f EXCEPT !.open = open, !.index = index])
<1> DEFINE g == [f EXCEPT !.open = open, !.index = index]
<1>1. /\ g \in Fields /\ SameTags(f, g)
      /\ g.list = f.list /\ g.open = open /\ g.index = index
  BY DEF TagsInv, Fields, SameTags
<1> HIDE DEF g
<1>2. TagsInv(g) /\ ListInView(g)
  BY <1>1, ChangedIs DEF ListInView
<1> QED
  BY <1>2 DEF g, SkillInv

\* A closed list keeps the invariant.
LEMMA ClosedIs ==
    ASSUME NEW f, SkillInv(f)
    PROVE  SkillInv([f EXCEPT !.open = FALSE])
<1>1. /\ TagsInv(f) /\ f.index \in {Skills!Undefined, Skills!NoIndex} \cup 0 .. Len(Suggestions)
      /\ Len(f.list) <= Len(Suggestions)
  BY DEF SkillInv, TagsInv, Fields, ListInView
<1>2. [f EXCEPT !.open = FALSE] = [f EXCEPT !.open = FALSE, !.index = f.index]
  BY <1>1 DEF TagsInv, Fields
<1>3. SkillInv([f EXCEPT !.open = FALSE, !.index = f.index])
  BY <1>1, OpenIs
<1> QED
  BY <1>2, <1>3

\* Enter, or a click on what is suggested.
LEMMA ChosenIs ==
    ASSUME NEW f, TagsInv(f), NEW typed \in Names \cup {Skills!Empty}
    PROVE  TagsInv(Skills!AddChosen(f, typed))
<1> DEFINE chosen == Skills!Chosen(f, typed)
           g == Skills!AddTag(f, chosen)
           h == Skills!RenderTags(g)
<1>1. f \in Fields /\ f.list \in Seq(Names)
  BY DEF TagsInv, Fields
<1>2. CASE chosen = Skills!Nothing
  <2> DEFINE u == [f EXCEPT !.threw = TRUE]
  <2>1. Skills!AddChosen(f, typed) = u
    BY <1>2 DEF Skills!AddChosen
  <2>2. u \in Fields /\ SameTags(f, u)
    BY <1>1 DEF Fields, SameTags
  <2> QED
    BY <2>1, <2>2, ChangedIs
<1>3. CASE chosen # Skills!Nothing
  <2> DEFINE u == [h EXCEPT !.input = Skills!Empty]
  <2>1. Skills!AddChosen(f, typed) = [h EXCEPT !.input = Skills!Empty, !.open = FALSE]
    BY <1>3 DEF Skills!AddChosen
  <2>2. chosen \in Names \cup {Skills!Empty}
    <3>1. CASE f.index = Skills!NoIndex
      BY <3>1 DEF Skills!Chosen
    <3>2. CASE f.index # Skills!NoIndex
      <4>1. f.index + 1 \in DOMAIN f.list /\ chosen = f.list[f.index + 1]
        BY <1>3, <3>2 DEF Skills!Chosen
      <4>2. f.index + 1 \in 1 .. Len(f.list)
        BY <1>1, <4>1
      <4>3. f.list[f.index + 1] \in Names
        BY <1>1, <4>2, ElementOf
      <4> QED
        BY <4>1, <4>3
    <3> QED
      BY <3>1, <3>2
  <2> HIDE DEF chosen
  <2>3. TagsInv(g)
    BY <2>2, AddedIs
  <2> HIDE DEF g
  <2>4. TagsInv(h)
    BY <2>3, RenderedIs DEF TagsInv
  <2> HIDE DEF h
  <2>5. TagsInv(u)
    BY <2>4, InputIs
  <2>6. [h EXCEPT !.input = Skills!Empty, !.open = FALSE] = [u EXCEPT !.open = FALSE]
    BY <2>4 DEF TagsInv, Fields
  <2> HIDE DEF u
  <2>7. [u EXCEPT !.open = FALSE] \in Fields /\ SameTags(u, [u EXCEPT !.open = FALSE])
    BY <2>5 DEF TagsInv, Fields, SameTags
  <2> QED
    BY <2>1, <2>5, <2>6, <2>7, ChangedIs
<1> QED
  BY <1>2, <1>3

\* The field begins in its invariant.
LEMMA SkillsStart ==
    ASSUME Skills!TagsInit
    PROVE  SkillInv(page)
<1>1. PICK tags \in {<<>>} \cup {<<t>> : t \in Tags} :
        page = [tags |-> tags, popovers |-> [i \in DOMAIN tags |-> Skills!Nothing],
                 drawn |-> tags, input |-> Skills!Empty, index |-> Skills!Undefined, list |-> <<>>,
                 open |-> FALSE, submitted |-> tags, threw |-> FALSE,
                 kept |-> FALSE, renamed |-> FALSE, keys |-> 0]
  BY DEF Skills!TagsInit
<1> DEFINE popovers == [i \in DOMAIN tags |-> Skills!Nothing]
<1>2. tags \in Seq(Names) /\ Len(tags) \in 0 .. 1
  <2>1. CASE tags = <<>>
    BY <2>1
  <2>2. ASSUME NEW t \in Tags, tags = <<t>> PROVE tags \in Seq(Names) /\ Len(tags) \in 0 .. 1
    <3>1. t \in Names
      BY DEF Names
    <3> QED
      BY <2>2, <3>1
  <2> QED
    BY <2>1, <2>2
<1>3. /\ popovers \in Seq(Names \cup {Skills!Nothing}) /\ Len(popovers) = Len(tags)
  BY <1>2
<1>4. Skills!IsInjective(tags)
  BY <1>2 DEF Skills!IsInjective
<1>5. <<>> \in Seq(Names)
  OBVIOUS
<1> HIDE DEF popovers
<1>6. page \in Fields
  BY <1>1, <1>2, <1>3, <1>5 DEF Fields, popovers
<1>7. /\ page.tags = tags /\ page.drawn = tags /\ page.popovers = popovers /\ page.open = FALSE
      /\ page.list = <<>>
  BY <1>1 DEF popovers
<1> QED
  BY <1>3, <1>4, <1>6, <1>7, SuggestionsAre DEF SkillInv, TagsInv, ListInView

\* Typing and pasting keep the invariant.
LEMMA TypingKeeps ==
    ASSUME SkillInv(page), NEW tag \in Names, Skills!Type(tag) \/ Skills!Paste(tag)
    PROVE  SkillInv(page')
<1> DEFINE f == [page EXCEPT !.input = tag]
<1>1. TagsInv(f) /\ ListInView(f)
  BY InputIs DEF SkillInv
<1>2. SkillInv(f) /\ SkillInv(Skills!Suggest(f, FALSE))
  <2> HIDE DEF f
  <2> QED
    BY <1>1, SuggestedIs DEF SkillInv
<1> QED
  BY <1>2, HappensIs DEF Skills!Type, Skills!Paste

\* Enter, which adds the selection or what was typed, keeps the invariant.
LEMMA EnterKeyKeeps ==
    ASSUME SkillInv(page), Skills!Enter
    PROVE  SkillInv(page')
<1> DEFINE f == Skills!AddChosen(page, page.input)
<1>1. TagsInv(f)
  BY ChosenIs DEF SkillInv, TagsInv, Fields
<1>2. Skills!Happens(Skills!Suggest(f, FALSE))
  BY DEF Skills!Enter
<1> HIDE DEF f
<1> QED
  BY <1>1, <1>2, SuggestedIs, HappensIs

\* Tab and comma, which add what was typed, keep the invariant.
LEMMA TabOrCommaKeeps ==
    ASSUME SkillInv(page), Skills!TabOrComma
    PROVE  SkillInv(page')
<1> DEFINE f == Skills!AddTag(page, page.input)
           g == [f EXCEPT !.input = Skills!Empty]
<1>1. TagsInv(f)
  BY AddedIs DEF SkillInv, TagsInv, Fields
<1>2. Skills!Happens(Skills!Suggest(g, FALSE))
  BY DEF Skills!TabOrComma
<1> HIDE DEF f
<1>3. TagsInv(g)
  BY <1>1, InputIs
<1> HIDE DEF g
<1> QED
  BY <1>2, <1>3, SuggestedIs, HappensIs

\* Backspace, which may remove the last tag, keeps the invariant.
LEMMA BackspaceKeeps ==
    ASSUME SkillInv(page), Skills!Backspace
    PROVE  SkillInv(page')
<1> DEFINE last == page.tags[Len(page.tags)]
           cleared == [page EXCEPT !.input = Skills!Empty]
           removed == Skills!RemoveTag(page, last)
           f == IF page.input # Skills!Empty THEN cleared
                ELSE IF page.tags = <<>> THEN page ELSE removed
<1>1. TagsInv(page) /\ TagsInv(cleared) /\ TagsInv(removed)
  BY InputIs, RemovedIs DEF SkillInv
<1>2. Skills!Happens(Skills!Suggest(f, FALSE))
  BY DEF Skills!Backspace
<1> HIDE DEF cleared, removed
<1>3. TagsInv(f)
  BY <1>1
<1> HIDE DEF f
<1> QED
  BY <1>2, <1>3, SuggestedIs, HappensIs

\* The down key keeps the invariant: the selection stays in the list.
LEMMA DownKeeps ==
    ASSUME SkillInv(page), Skills!Down
    PROVE  SkillInv(page')
<1> DEFINE suggested == Skills!Suggest(page, TRUE)
           f == IF page.input = Skills!Empty /\ page.index \in {Skills!NoIndex, Skills!Undefined}
                THEN suggested ELSE page
           next == IF f.index < Len(f.list) - 1 THEN f.index + 1 ELSE Len(f.list) - 1
<1>1. SkillInv(suggested)
  BY SuggestedIs DEF SkillInv
<1>2. Skills!Happens([f EXCEPT !.index = next])
  BY DEF Skills!Down
<1> HIDE DEF suggested
<1>3. SkillInv(f)
  BY <1>1
<1> HIDE DEF f
<1>4. /\ f \in Fields /\ f.list \in Seq(Names) /\ Len(f.list) <= Len(Suggestions)
      /\ f.open \in BOOLEAN
      /\ f.open => Len(f.list) > 0
      /\ f.index \in {Skills!Undefined, Skills!NoIndex} \cup 0 .. Len(Suggestions)
  BY <1>3 DEF SkillInv, TagsInv, Fields, ListInView
<1>5. /\ next \in {Skills!Undefined, Skills!NoIndex} \cup 0 .. Len(Suggestions)
      /\ next < Len(f.list)
  <2> DEFINE i == f.index
             n == Len(f.list)
  <2>0. Len(Suggestions) = 2
    BY SuggestionsAre
  <2>1. n \in 0 .. 2 /\ Len(Suggestions) = 2
    <3>1. f.list \in Seq(Names) /\ Len(f.list) <= 2
      BY <1>4, <2>0
    <3>2. n \in Nat
      BY <3>1
    <3>3. n <= 2
      BY <3>1
    <3> HIDE DEF n
    <3>4. n \in 0 .. 2
      BY <3>2, <3>3
    <3> QED
      BY <2>0, <3>4
  <2>2. i \in {Skills!Undefined, Skills!NoIndex} \cup 0 .. 2
    BY <1>4, SuggestionsAre
  <2>3. next = IF i < n - 1 THEN i + 1 ELSE n - 1
    OBVIOUS
  <2> HIDE DEF next, i, n
  <2>4. i \in Int /\ -2 <= i /\ i <= 2
    BY <2>2
  <2>5. next \in Int /\ -1 <= next /\ next <= 2 /\ next < n
    BY <2>1, <2>3, <2>4
  <2>6. next \in {Skills!Undefined, Skills!NoIndex} \cup 0 .. 2
    BY <2>5
  <2> QED
    BY <2>1, <2>5, <2>6 DEF n
<1> HIDE DEF next
<1>6. [f EXCEPT !.index = next] = [f EXCEPT !.open = f.open, !.index = next]
  BY <1>4 DEF Fields
<1>7. SkillInv([f EXCEPT !.open = f.open, !.index = next])
  BY <1>3, <1>4, <1>5, OpenIs DEF SkillInv
<1> QED
  BY <1>2, <1>6, <1>7, HappensIs

\* So does the up key.
LEMMA UpKeeps ==
    ASSUME SkillInv(page), Skills!Up
    PROVE  SkillInv(page')
<1> DEFINE next == IF page.index > 0 THEN page.index - 1 ELSE 0
           f == [page EXCEPT !.index = next]
<1>1. /\ page \in Fields /\ page.list \in Seq(Names) /\ Len(page.list) <= Len(Suggestions)
      /\ page.open \in BOOLEAN
      /\ page.open => Len(page.list) > 0 /\ page.index < Len(page.list)
      /\ page.index \in {Skills!Undefined, Skills!NoIndex} \cup 0 .. Len(Suggestions)
  BY DEF SkillInv, TagsInv, Fields, ListInView
<1>2. Skills!Happens(f)
  BY <1>1 DEF Skills!Up, Fields
<1>3. /\ next \in {Skills!Undefined, Skills!NoIndex} \cup 0 .. Len(Suggestions)
      /\ page.open => next < Len(page.list)
  BY <1>1, SuggestionsAre
<1> HIDE DEF next
<1>4. f = [page EXCEPT !.open = page.open, !.index = next]
  BY <1>1 DEF Fields
<1> HIDE DEF f
<1>5. SkillInv(f)
  BY <1>1, <1>3, <1>4, OpenIs DEF SkillInv
<1> QED
  BY <1>2, <1>5, HappensIs

\* Escape and a click elsewhere, which close the list, keep the invariant.
LEMMA ListClosedKeeps ==
    ASSUME SkillInv(page), Skills!Escape \/ Skills!ClickElsewhere
    PROVE  SkillInv(page')
<1> DEFINE f == [page EXCEPT !.open = FALSE, !.index = Skills!NoIndex]
           g == [page EXCEPT !.open = FALSE]
<1>1. page \in Fields /\ TagsInv(page) /\ Len(page.list) <= Len(Suggestions)
  BY DEF SkillInv, TagsInv, ListInView
<1>2. SkillInv(f) /\ SkillInv(g)
  BY <1>1, OpenIs, ClosedIs
<1>3. Skills!Happens(f) \/ Skills!Happens(g)
  <2>1. [page EXCEPT !.index = Skills!NoIndex, !.open = FALSE] = f
    BY <1>1 DEF Fields
  <2> QED
    BY <2>1 DEF Skills!Escape, Skills!ClickElsewhere
<1> HIDE DEF f, g
<1> QED
  BY <1>2, <1>3, HappensIs

\* A click on a suggestion keeps the invariant.
LEMMA ClickSuggestionKeeps ==
    ASSUME SkillInv(page), NEW i \in DOMAIN page.list, Skills!ClickSuggestion(i)
    PROVE  SkillInv(page')
<1> DEFINE index == i - 1
           pointed == [page EXCEPT !.index = index]
           typed == page.list[i]
           f == Skills!AddChosen(pointed, typed)
           g == Skills!Suggest(f, FALSE)
<1>1. /\ page \in Fields /\ page.list \in Seq(Names) /\ Len(page.list) <= Len(Suggestions)
      /\ TagsInv(page)
  BY DEF SkillInv, TagsInv, Fields, ListInView
<1>2. i \in 1 .. Len(page.list) /\ index \in 0 .. Len(Suggestions)
  BY <1>1, SuggestionsAre
<1>3. typed \in Names
  BY <1>1, <1>2, ElementOf
<1>4. Skills!Happens([g EXCEPT !.open = FALSE])
  BY DEF Skills!ClickSuggestion
<1> HIDE DEF index, typed
<1>5. pointed \in Fields /\ SameTags(page, pointed)
  BY <1>1, <1>2 DEF Fields, SameTags
<1> HIDE DEF pointed
<1>6. TagsInv(pointed)
  BY <1>1, <1>5, ChangedIs
<1>7. TagsInv(f)
  BY <1>3, <1>6, ChosenIs
<1> HIDE DEF f
<1>8. SkillInv(g)
  BY <1>7, SuggestedIs
<1> HIDE DEF g
<1> QED
  BY <1>4, <1>8, ClosedIs, HappensIs

\* What changes the tags and not the list of suggestions.
LEMMA SameList ==
    ASSUME SkillInv(page), NEW f, TagsInv(f), f.list = page.list, f.open = page.open,
           f.index = page.index, Skills!Happens(f)
    PROVE  SkillInv(page')
BY HappensIs DEF SkillInv, ListInView

\* Clicking a tag away keeps the invariant; one that HTML encodes is excepted.
LEMMA ClickAwayKeeps ==
    ASSUME SkillInv(page), NEW tag \in Tags, Skills!ClickAway(tag)
    PROVE  SkillInv(page')
<1> DEFINE f == Skills!RemoveTag(page, tag)
           drawn == Skills!OnlyIn(page.drawn, Skills!Range(page.drawn) \ {tag})
           g == [page EXCEPT !.kept = TRUE, !.drawn = drawn]
<1>1. TagsInv(page) /\ page \in Fields /\ page.drawn \in Seq(Names)
  BY DEF SkillInv, TagsInv, Fields
<1>2. Skills!Happens(f) \/ Skills!Happens(g)
  <2>1. g = [page EXCEPT !.kept = TRUE, !.drawn = Skills!OnlyIn(@, Skills!Range(@) \ {tag})]
    BY <1>1 DEF Fields
  <2> HIDE DEF f, g
  <2> QED
    BY <2>1 DEF Skills!ClickAway, Skills!RemoveClicked, f
<1>3. ASSUME Skills!Happens(f) PROVE SkillInv(page')
  <2>1. TagsInv(f)
    BY <1>1, RemovedIs
  <2>2. f.list = page.list /\ f.open = page.open /\ f.index = page.index
    BY <1>1 DEF Skills!RemoveTag, Skills!RenderTags, Fields
  <2> HIDE DEF f
  <2> QED
    BY <1>3, <2>1, <2>2, SameList
<1>4. ASSUME Skills!Happens(g) PROVE SkillInv(page')
  <2>1. drawn \in Seq(Names)
    <3>1. drawn = Kept(page.drawn, Skills!Range(page.drawn) \ {tag})
      BY DEF Skills!OnlyIn, Kept
    <3> QED
      BY <1>1, <3>1, KeptIs
  <2> HIDE DEF drawn
  <2>2. /\ g \in Fields /\ g.kept = TRUE
        /\ g.tags = page.tags /\ g.popovers = page.popovers /\ g.renamed = page.renamed
        /\ g.list = page.list /\ g.open = page.open /\ g.index = page.index
    BY <1>1, <2>1 DEF Fields
  <2> HIDE DEF g
  <2>3. TagsInv(g)
    BY <1>1, <2>2 DEF TagsInv
  <2> QED
    BY <1>4, <2>2, <2>3, SameList
<1> QED
  BY <1>2, <1>3, <1>4

\* Renaming a tag keeps the invariant; a name there is already is excepted.
LEMMA RenameKeeps ==
    ASSUME SkillInv(page), NEW tag \in Tags, NEW name \in Tags, Skills!Rename(tag, name)
    PROVE  SkillInv(page')
<1> DEFINE old == page.tags
           first(i) == old[i] = tag /\ \A j \in 1 .. i - 1 : old[j] # tag
           tags == [i \in DOMAIN old |-> IF first(i) THEN name ELSE old[i]]
           renamed == page.renamed \/ name \in Skills!Range(old)
           f == [page EXCEPT !.tags = tags, !.renamed = renamed]
           g == Skills!RenderTags(f)
<1>1. /\ TagsInv(page) /\ page \in Fields /\ old \in Seq(Names)
      /\ Len(page.popovers) = Len(old)
      /\ ~page.renamed => Skills!IsInjective(old)
  BY DEF SkillInv, TagsInv, Fields
<1>2. f = [page EXCEPT !.tags = tags, !.renamed = @ \/ name \in Skills!Range(page.tags)]
  BY <1>1 DEF Fields
<1>3. Skills!Happens(g)
  <2> HIDE DEF f
  <2> QED
    BY <1>2 DEF Skills!Rename
<1>4. /\ DOMAIN old = 1 .. Len(old) /\ Len(old) \in Nat
      /\ \A i \in 1 .. Len(old) : old[i] \in Names
  <2>1. ASSUME NEW i \in 1 .. Len(old) PROVE old[i] \in Names
    BY <1>1, ElementOf
  <2> HIDE DEF old
  <2> QED
    BY <1>1, <2>1
<1> HIDE DEF old
<1>5. tags \in Seq(Names) /\ Len(tags) = Len(old) /\ DOMAIN tags = 1 .. Len(old)
  <2> HIDE DEF first
  <2> QED
    BY <1>4 DEF Names
<1>6. ~renamed => Skills!IsInjective(tags)
  <2> SUFFICES ASSUME Skills!IsInjective(old), \A i \in 1 .. Len(old) : old[i] # name,
                      NEW i \in 1 .. Len(old), NEW j \in 1 .. Len(old), tags[i] = tags[j]
               PROVE  i = j
    BY <1>1, <1>4, <1>5 DEF Skills!IsInjective, Skills!Range
  <2>1. \A k \in 1 .. Len(old) : tags[k] = IF first(k) THEN name ELSE old[k]
    BY <1>4
  <2>2. \A k, l \in 1 .. Len(old) : first(k) /\ first(l) => k = l
    BY <1>4 DEF Skills!IsInjective
  <2> HIDE DEF tags, first
  <2> QED
    BY <1>4, <2>1, <2>2 DEF Skills!IsInjective
<1>7. renamed \in BOOLEAN
  BY <1>1 DEF Fields
<1> HIDE DEF tags, renamed
<1>8. /\ f \in Fields /\ f.tags = tags /\ f.popovers = page.popovers /\ f.renamed = renamed
      /\ f.list = page.list /\ f.open = page.open /\ f.index = page.index
  BY <1>1, <1>5, <1>7 DEF Fields
<1> HIDE DEF f
<1>9. TagsInv(g)
  BY <1>1, <1>5, <1>6, <1>8, RenderedIs
<1>10. g.list = page.list /\ g.open = page.open /\ g.index = page.index
  BY <1>8 DEF Skills!RenderTags, Fields
<1> HIDE DEF g
<1> QED
  BY <1>3, <1>9, <1>10, SameList

\* Submitting keeps the invariant.
LEMMA SubmitKeeps ==
    ASSUME SkillInv(page), Skills!Submit
    PROVE  SkillInv(page')
<1> DEFINE f == [page EXCEPT !.submitted = page.tags]
<1>1. page \in Fields /\ TagsInv(page)
  BY DEF SkillInv, TagsInv
<1>2. f \in Fields /\ SameTags(page, f) /\ f.list = page.list /\ f.open = page.open /\ f.index = page.index
  BY <1>1 DEF Fields, SameTags
<1>3. Skills!Happens(f)
  BY DEF Skills!Submit
<1> HIDE DEF f
<1> QED
  BY <1>1, <1>2, <1>3, ChangedIs, SameList

\* Whatever happens keeps the invariant of the field.
LEMMA SkillsKeep ==
    ASSUME SkillInv(page), Skills!TagsNext
    PROVE  SkillInv(page')
<1>1. \A name \in Tags, tag \in Tags : tag \in Names /\ Beginning \in Names
  BY DEF Names
<1> QED
  BY TypingKeeps, EnterKeyKeeps, TabOrCommaKeeps, BackspaceKeeps, DownKeeps, UpKeeps,
     ListClosedKeeps, ClickSuggestionKeeps, SubmitKeeps, ClickAwayKeeps, RenameKeeps
  DEF Skills!TagsNext, Names

\* The invariant of the field has what the runs check of it.
LEMMA SkillsSafe ==
    ASSUME SkillInv(page)
    PROVE  /\ Skills!SubmittedAsShown /\ Skills!TagsOnce /\ Skills!SelectionListed
           /\ Skills!TagsTypeOK
<1>1. Skills!SubmittedAsShown /\ Skills!TagsOnce /\ Skills!SelectionListed
  BY DEF SkillInv, TagsInv, ListInView, Skills!SubmittedAsShown, Skills!TagsOnce,
         Skills!SelectionListed
<1>2. page.tags \in Seq(Names) /\ page.index \in {Skills!Undefined, Skills!NoIndex} \cup 0 .. Len(Suggestions)
  BY DEF SkillInv, TagsInv, Fields
<1>3. ASSUME NEW i \in DOMAIN page.tags PROVE page.tags[i] \in Names
  <2>1. i \in 1 .. Len(page.tags)
    BY <1>2
  <2> QED
    BY <1>2, <2>1, ElementOf
<1> QED
  BY <1>1, <1>2, <1>3 DEF Skills!TagsTypeOK, Skills!Range, Names

(***************************************************************************)
(* The drop-down menus.                                                    *)
(***************************************************************************)
DropMenus ==
    [open : SUBSET Pair, expanded : SUBSET Pair, backdrops : SUBSET Pair,
     icon : {"search", "times"}, focus : [menu : Pair \cup {0}, link : 0 .. 2],
     touch : BOOLEAN, disabled : SUBSET Pair, events : Nat]

\* At most one menu is open, and everything about it says so.
MenusAgree(d) ==
    /\ d.expanded = d.open /\ d.backdrops \subseteq d.open
    /\ d.icon = "times" <=> 2 \in d.open
    /\ \A m, n \in d.open : m = n

DropInv(d) == d \in DropMenus /\ MenusAgree(d)

\* What the focus is moved to.
LEMMA FocusedIs ==
    ASSUME NEW d, DropInv(d), NEW focus \in [menu : Pair \cup {0}, link : 0 .. 2]
    PROVE  DropInv([d EXCEPT !.focus = focus])
<1> DEFINE t == [d EXCEPT !.focus = focus]
<1>1. /\ t \in DropMenus /\ t.open = d.open /\ t.expanded = d.expanded
      /\ t.backdrops = d.backdrops /\ t.icon = d.icon
  BY DEF DropInv, DropMenus
<1> HIDE DEF t
<1>2. DropInv(t)
  BY <1>1 DEF DropInv, MenusAgree
<1> QED
  BY <1>2 DEF t

\* Closing the menus keeps the invariant, and closes all but the one of the field.
LEMMA ClearedIs ==
    ASSUME NEW d, DropInv(d), NEW field
    PROVE  /\ DropInv(Dropdowns!ClearMenus(d, field))
           /\ field \notin d.open => Dropdowns!ClearMenus(d, field).open = {}
           /\ Dropdowns!ClearMenus(d, field).touch = d.touch
           /\ Dropdowns!ClearMenus(d, field).disabled = d.disabled
<1> DEFINE closed == d.open \ {field}
           left == d.open \ closed
           expanded == d.expanded \ closed
           icon == IF 2 \in closed THEN "search" ELSE d.icon
           t == Dropdowns!ClearMenus(d, field)
<1>1. d \in DropMenus
  BY DEF DropInv
<1>2. t = [d EXCEPT !.backdrops = {}, !.open = left, !.expanded = expanded, !.icon = icon]
  <2> DEFINE u == [d EXCEPT !.backdrops = {}, !.open = left, !.expanded = expanded]
  <2>1. t = IF 2 \in closed THEN [u EXCEPT !.icon = "search"] ELSE u
    BY <1>1 DEF DropMenus, Dropdowns!ClearMenus, Dropdowns!Hidden
  <2> QED
    BY <1>1, <2>1 DEF DropMenus
<1>3. left \in SUBSET Pair /\ expanded \in SUBSET Pair /\ icon \in {"search", "times"}
  BY <1>1 DEF DropMenus
<1>4. /\ expanded = left /\ (icon = "times" <=> 2 \in left) /\ \A m, n \in left : m = n
      /\ (field \notin d.open => left = {})
  BY <1>1 DEF DropInv, MenusAgree
<1> HIDE DEF left, expanded, icon, t
<1>5. /\ t \in DropMenus /\ t.open = left /\ t.expanded = expanded /\ t.backdrops = {}
      /\ t.icon = icon /\ t.touch = d.touch /\ t.disabled = d.disabled
  BY <1>1, <1>2, <1>3 DEF DropMenus
<1>6. DropInv(t)
  BY <1>4, <1>5 DEF DropInv, MenusAgree
<1> QED
  BY <1>4, <1>5, <1>6 DEF t

\* Toggling a menu, the others closed before, keeps the invariant.
LEMMA ToggledIs ==
    ASSUME NEW d, DropInv(d), NEW m \in Pair
    PROVE  DropInv(Dropdowns!Toggled(d, m))
<1> DEFINE c == Dropdowns!ClearMenus(d, 0)
           toggler == [menu |-> m, link |-> 0]
           field == [menu |-> m, link |-> 1]
           backdrops == IF d.touch THEN {m} ELSE {}
           opened == [c EXCEPT !.open = {m}, !.expanded = {m}, !.backdrops = backdrops,
                               !.focus = toggler]
           icon == IF m = 2 THEN "times" ELSE c.icon
           focus == IF m = 2 THEN field ELSE toggler
           t == [c EXCEPT !.open = {m}, !.expanded = {m}, !.backdrops = backdrops,
                          !.icon = icon, !.focus = focus]
<1>1. 0 \notin d.open
  BY PairAssumption DEF DropInv, DropMenus
<1>2. DropInv(c) /\ c.open = {} /\ c.touch = d.touch
  BY <1>1, ClearedIs
<1>3. c.expanded = {} /\ c.backdrops = {} /\ c \in DropMenus /\ c.icon = "search"
  BY <1>2 DEF DropInv, MenusAgree, DropMenus
<1>4. CASE m \in d.open
  BY <1>2, <1>4 DEF Dropdowns!Toggled
<1>5. CASE m \notin d.open
  <2>1. Dropdowns!Toggled(d, m) = t
    <3>1. opened = [c EXCEPT !.open = @ \cup {m}, !.expanded = @ \cup {m},
                     !.backdrops = IF d.touch THEN @ \cup {m} ELSE @, !.focus = Dropdowns!Toggler(m)]
      BY <1>2, <1>3 DEF Dropdowns!Toggler, DropMenus
    <3> HIDE DEF opened, c
    <3>2. Dropdowns!Toggled(d, m) = IF m = 2 THEN [opened EXCEPT !.icon = "times", !.focus = field]
                                    ELSE opened
      BY <1>5, <3>1 DEF Dropdowns!Toggled, Dropdowns!Shown, Dropdowns!Link, c
    <3>3. CASE m = 2
      BY <1>3, <3>2, <3>3 DEF opened, DropMenus
    <3>4. CASE m # 2
      <4>1. icon = c.icon /\ focus = toggler
        BY <3>4
      <4>2. t = opened
        BY <1>3, <4>1 DEF opened, DropMenus
      <4> QED
        BY <3>2, <3>4, <4>2
    <3> QED
      BY <3>3, <3>4
  <2>2. /\ focus \in [menu : Pair \cup {0}, link : 0 .. 2] /\ icon \in {"search", "times"}
        /\ backdrops \in SUBSET {m} /\ (icon = "times" <=> 2 \in {m})
    BY <1>3
  <2> HIDE DEF c, focus, icon, backdrops
  <2>3. t \in DropMenus
    BY <1>3, <2>2 DEF DropMenus
  <2>4. t.open = {m} /\ t.expanded = {m} /\ t.backdrops = backdrops /\ t.icon = icon
    BY <1>3 DEF DropMenus
  <2>5. DropInv(t)
    BY <2>2, <2>3, <2>4 DEF DropInv, MenusAgree
  <2> QED
    BY <2>1, <2>5
<1> QED
  BY <1>4, <1>5

\* A click on a toggle, disabled or not, keeps the invariant.
LEMMA ClickedOn ==
    ASSUME NEW d, DropInv(d), NEW m \in Pair
    PROVE  DropInv(Dropdowns!ClickOn(d, m))
BY ClearedIs, ToggledIs DEF Dropdowns!ClickOn

\* Counting an event keeps the invariant.
LEMMA MenuHappens ==
    ASSUME NEW d, DropInv(d), Dropdowns!Happens(d)
    PROVE  DropInv(page')
<1> DEFINE events == d.events + 1
<1>1. d \in DropMenus /\ events \in Nat /\ page' = [d EXCEPT !.events = events]
  BY DEF DropInv, DropMenus, Dropdowns!Happens
<1> HIDE DEF events
<1>2. /\ page' \in DropMenus /\ page'.open = d.open /\ page'.expanded = d.expanded
      /\ page'.backdrops = d.backdrops /\ page'.icon = d.icon
  BY <1>1 DEF DropMenus
<1> QED
  BY <1>2 DEF DropInv, MenusAgree

\* A key in a menu keeps the invariant.
LEMMA MenuKeyIs ==
    ASSUME NEW d, DropInv(d), NEW m \in Pair, NEW key
    PROVE  DropInv(Dropdowns!KeyInMenu(d, m, key))
<1> DEFINE at == IF d.focus.menu = m THEN d.focus.link ELSE 0
           moved == CASE key = "up" /\ at > 1 -> at - 1
                      [] key = "down" /\ at < 2 -> at + 1
                      [] OTHER -> IF at = 0 THEN 1 ELSE at
           link == [menu |-> m, link |-> moved]
           toggler == [menu |-> m, link |-> 0]
           k == Dropdowns!KeyInMenu(d, m, key)
<1>1. at \in 0 .. 2
  BY DEF DropInv, DropMenus
<1>2. moved \in 0 .. 2
  <2> HIDE DEF at
  <2> QED
    BY <1>1
<1>3. k \in {d, Dropdowns!ClickOn([d EXCEPT !.focus = toggler], m), Dropdowns!ClickOn(d, m),
             [d EXCEPT !.focus = link]}
  BY DEF Dropdowns!KeyInMenu, Dropdowns!Toggler, Dropdowns!Link
<1>4. /\ link \in [menu : Pair \cup {0}, link : 0 .. 2]
      /\ toggler \in [menu : Pair \cup {0}, link : 0 .. 2]
  <2> HIDE DEF moved
  <2> QED
    BY <1>2
<1> HIDE DEF link, toggler, k
<1> QED
  <2>1. DropInv([d EXCEPT !.focus = toggler]) /\ DropInv([d EXCEPT !.focus = link])
    BY <1>4, FocusedIs
  <2>2. /\ DropInv(Dropdowns!ClickOn([d EXCEPT !.focus = toggler], m))
        /\ DropInv(Dropdowns!ClickOn(d, m))
    BY <2>1, ClickedOn
  <2>3. DropInv(k)
    BY <1>3, <2>1, <2>2
  <2> QED
    BY <2>3 DEF k

\* The menus begin in their invariant.
LEMMA DropdownStarts ==
    ASSUME Dropdowns!DropdownInit
    PROVE  DropInv(page)
<1>1. PICK touch \in BOOLEAN, disabled \in SUBSET Pair :
         page = [open |-> {}, expanded |-> {}, backdrops |-> {}, icon |-> "search",
                 focus |-> Dropdowns!Page, touch |-> touch, disabled |-> disabled, events |-> 0]
  BY DEF Dropdowns!DropdownInit
<1>2. Dropdowns!Page \in [menu : Pair \cup {0}, link : 0 .. 2]
  BY DEF Dropdowns!Page
<1>3. page \in DropMenus
  BY <1>1, <1>2 DEF DropMenus
<1> QED
  BY <1>1, <1>3 DEF DropInv, MenusAgree

\* Whatever happens keeps the invariant of the menus.
LEMMA DropdownKeeps ==
    ASSUME DropInv(page), Dropdowns!DropdownNext
    PROVE  DropInv(page')
<1> DEFINE Focus == [menu : Pair \cup {0}, link : 0 .. 2]
<1>1. ASSUME NEW m \in Pair
      PROVE  Dropdowns!Toggler(m) \in Focus /\ Dropdowns!Link(m, 1) \in Focus
  BY DEF Dropdowns!Toggler, Dropdowns!Link
<1>2. Dropdowns!Page \in Focus
  BY DEF Dropdowns!Page
<1>3. ASSUME NEW m \in Pair, Dropdowns!ClickToggle(m) PROVE DropInv(page')
  <2> DEFINE d == [page EXCEPT !.focus = Dropdowns!Toggler(m)]
  <2>1. DropInv(d)
    BY <1>1, FocusedIs
  <2>2. Dropdowns!Happens(Dropdowns!ClickOn(d, m))
    BY <1>3 DEF Dropdowns!ClickToggle
  <2> HIDE DEF d
  <2> QED
    BY <2>1, <2>2, ClickedOn, MenuHappens
<1>4. ASSUME NEW m \in Pair, NEW inForm \in BOOLEAN, Dropdowns!ClickField(m, inForm)
      PROVE  DropInv(page')
  <2> DEFINE d == [page EXCEPT !.focus = Dropdowns!Link(m, 1)]
  <2>1. DropInv(d)
    BY <1>1, FocusedIs
  <2>2. Dropdowns!Happens(d) \/ Dropdowns!Happens(Dropdowns!ClearMenus(d, m))
    BY <1>4 DEF Dropdowns!ClickField
  <2> HIDE DEF d
  <2> QED
    BY <2>1, <2>2, ClearedIs, MenuHappens
<1>5. ASSUME Dropdowns!ClickPage \/ Dropdowns!SecondaryClick PROVE DropInv(page')
  <2> DEFINE d == [page EXCEPT !.focus = Dropdowns!Page]
  <2>1. DropInv(d)
    BY <1>2, FocusedIs
  <2>2. Dropdowns!Happens(d) \/ Dropdowns!Happens(Dropdowns!ClearMenus(d, 0))
    BY <1>5 DEF Dropdowns!ClickPage, Dropdowns!SecondaryClick
  <2> HIDE DEF d
  <2> QED
    BY <2>1, <2>2, ClearedIs, MenuHappens
<1>6. ASSUME NEW key, Dropdowns!Key(key) PROVE DropInv(page')
  <2>1. page.focus.menu \in Pair
    BY <1>6 DEF DropInv, DropMenus, Dropdowns!Key
  <2> QED
    BY <1>6, <2>1, MenuKeyIs, MenuHappens DEF Dropdowns!Key
<1> QED
  BY <1>3, <1>4, <1>5, <1>6 DEF Dropdowns!DropdownNext

\* The invariant of the menus has what the runs check of them.
LEMMA DropdownSafe ==
    ASSUME DropInv(page)
    PROVE  Dropdowns!DropdownAgrees /\ Dropdowns!OneOpenMenu /\ Dropdowns!DropdownTypeOK
<1>1. page \in DropMenus /\ MenusAgree(page)
  BY DEF DropInv
<1>2. Dropdowns!DropdownAgrees /\ Dropdowns!DropdownTypeOK
  BY <1>1 DEF MenusAgree, DropMenus, Dropdowns!DropdownAgrees, Dropdowns!DropdownTypeOK
<1>3. Cardinality(page.open) <= 1
  BY <1>1, AtMostOne DEF MenusAgree
<1> QED
  BY <1>2, <1>3 DEF Dropdowns!OneOpenMenu, Dropdowns!Cardinality, Cardinality

(***************************************************************************)
(* Buttons with a state, and labels of check boxes and radio buttons.      *)
(***************************************************************************)
States == {"loading", "reset"}
Groups ==
    [text : {"own", "loading"}, kept : {"none", "own"}, loading : BOOLEAN, disabled : BOOLEAN,
     timers : Seq(States), last : States, radio : BOOLEAN, checked : SUBSET Pair,
     active : SUBSET Pair, touched : SUBSET Pair, changed : SUBSET Pair, events : Nat]

\* The button is in the state of the last call whose timeout ran; the calls
\* that wait follow it, the last of them at the end.
ButtonInv(b) ==
    /\ b.disabled = (b.text = "loading") /\ b.loading = b.disabled
    /\ b.kept = "none" => b.text = "own"
    /\ b.timers = <<>> => b.disabled = (b.last = "loading")
    /\ b.timers # <<>> => b.kept = "own" /\ b.last = b.timers[Len(b.timers)]

\* The labels that were touched agree with their inputs.
LabelInv(b) ==
    /\ \A c \in b.touched : c \in b.active <=> c \in b.checked
    /\ b.radio => \A c, d \in b.checked : c = d

GroupInv(b) == b \in Groups /\ ButtonInv(b) /\ LabelInv(b)

\* The buttons begin in their invariant.
LEMMA ButtonsStart ==
    ASSUME ButtonGroups!ButtonsInit
    PROVE  GroupInv(page)
<1>1. PICK radio \in BOOLEAN, restored \in SUBSET Pair :
         /\ radio => ButtonGroups!Cardinality(restored) <= 1
         /\ page = [text |-> "own", kept |-> "none", loading |-> FALSE, disabled |-> FALSE,
                    timers |-> <<>>, last |-> "reset",
                    radio |-> radio, checked |-> restored, active |-> {},
                    touched |-> {}, changed |-> {}, events |-> 0]
  BY DEF ButtonGroups!ButtonsInit
<1>2. <<>> \in Seq(States)
  OBVIOUS
<1>3. page \in Groups
  BY <1>1, <1>2 DEF Groups, States
<1>4. radio => \A c, d \in restored : c = d
  <2>1. IsFiniteSet(restored)
    BY PairAssumption, FS_Subset
  <2>2. ButtonGroups!Cardinality(restored) = Cardinality(restored)
    BY DEF ButtonGroups!Cardinality, Cardinality
  <2> QED
    BY <1>1, <2>1, <2>2, NoTwo
<1> QED
  BY <1>1, <1>3, <1>4 DEF GroupInv, ButtonInv, LabelInv

\* Setting a button's state keeps the invariant.
LEMMA SetStateKeeps ==
    ASSUME GroupInv(page), NEW state \in States, ButtonGroups!SetState(state)
    PROVE  GroupInv(page')
<1> DEFINE kept == IF page.kept = "none" THEN page.text ELSE page.kept
           timers == Append(page.timers, state)
           events == page.events + 1
<1>1. page \in Groups /\ ButtonInv(page) /\ LabelInv(page)
  BY DEF GroupInv
<1>2. page' = [page EXCEPT !.kept = kept, !.timers = timers, !.last = state, !.events = events]
  BY <1>1 DEF ButtonGroups!SetState, ButtonGroups!Happens, Groups
<1>3. kept = "own" /\ events \in Nat
  BY <1>1 DEF Groups, ButtonInv
<1>4. /\ timers \in Seq(States) /\ timers # <<>> /\ timers[Len(timers)] = state
  BY <1>1 DEF Groups
<1> HIDE DEF kept, timers, events
<1>5. page' \in Groups
  BY <1>1, <1>2, <1>3, <1>4 DEF Groups
<1>6. /\ page'.disabled = page.disabled /\ page'.text = page.text /\ page'.loading = page.loading
      /\ page'.kept = kept /\ page'.timers = timers /\ page'.last = state
      /\ page'.touched = page.touched /\ page'.active = page.active
      /\ page'.checked = page.checked /\ page'.radio = page.radio
  BY <1>1, <1>2 DEF Groups
<1>7. ButtonInv(page')
  BY <1>1, <1>3, <1>4, <1>6 DEF ButtonInv
<1> QED
  BY <1>1, <1>5, <1>6, <1>7 DEF GroupInv, LabelInv

\* The timeout that carries a state out keeps the invariant.
LEMMA StateTimeoutKeeps ==
    ASSUME GroupInv(page), ButtonGroups!StateTimeout
    PROVE  GroupInv(page')
<1> DEFINE state == Head(page.timers)
           left == Tail(page.timers)
           text == IF state = "reset" THEN page.kept ELSE state
           loading == state = "loading"
           disabled == IF state = "loading" THEN TRUE
                       ELSE IF page.loading THEN FALSE ELSE page.disabled
<1>1. page \in Groups /\ ButtonInv(page) /\ LabelInv(page) /\ page.timers # <<>>
      /\ page.timers \in Seq(States)
  BY DEF GroupInv, Groups, ButtonGroups!StateTimeout
<1>2. page' = [page EXCEPT !.timers = left, !.text = text, !.loading = loading,
                           !.disabled = disabled]
  BY <1>1 DEF ButtonGroups!StateTimeout, Groups
<1>3. /\ state \in States /\ left \in Seq(States)
      /\ left = <<>> => state = page.timers[Len(page.timers)]
      /\ left # <<>> => left[Len(left)] = page.timers[Len(page.timers)]
  <2>1. Len(page.timers) \in Nat \ {0} /\ state = page.timers[1] /\ left \in Seq(States)
        /\ Len(left) = Len(page.timers) - 1
        /\ \A i \in 1 .. Len(left) : left[i] = page.timers[i + 1]
    BY <1>1
  <2>2. state \in States
    BY <1>1, <2>1, ElementOf
  <2> HIDE DEF left, state
  <2>3. left = <<>> => Len(page.timers) = 1
    BY <2>1
  <2>4. left # <<>> => Len(left) \in 1 .. Len(left) /\ Len(left) + 1 = Len(page.timers)
    BY <2>1
  <2> QED
    BY <2>1, <2>2, <2>3, <2>4
<1>4. page.kept = "own" /\ page.last = page.timers[Len(page.timers)]
  BY <1>1 DEF ButtonInv
<1>5. /\ text = (IF state = "loading" THEN "loading" ELSE "own")
      /\ disabled = (state = "loading") /\ loading = (state = "loading")
  <2> HIDE DEF state
  <2> QED
    BY <1>1, <1>3, <1>4 DEF ButtonInv, States, Groups
<1> HIDE DEF state, left, text, loading, disabled
<1>6. text \in {"own", "loading"} /\ loading \in BOOLEAN /\ disabled \in BOOLEAN
  BY <1>5
<1>7. page' \in Groups
  BY <1>1, <1>2, <1>3, <1>6 DEF Groups
<1>8. /\ page'.disabled = disabled /\ page'.text = text /\ page'.loading = loading
      /\ page'.kept = page.kept /\ page'.timers = left /\ page'.last = page.last
      /\ page'.touched = page.touched /\ page'.active = page.active
      /\ page'.checked = page.checked /\ page'.radio = page.radio
  BY <1>1, <1>2 DEF Groups
<1>9. ButtonInv(page')
  BY <1>3, <1>4, <1>5, <1>8 DEF ButtonInv
<1> QED
  BY <1>1, <1>7, <1>8, <1>9 DEF GroupInv, LabelInv

\* The label and its input are switched together, whatever the browser did to
\* the input before.
LEMMA ToggledChoice ==
    ASSUME NEW b \in Groups, ButtonInv(b), NEW c \in Pair,
           ~b.radio => \A d \in b.touched \ {c} : d \in b.active <=> d \in b.checked,
           b.radio => \A d, e \in b.checked : d = e,
           ButtonGroups!Happens(ButtonGroups!ToggleChoice(b, c))
    PROVE  GroupInv(page')
<1> DEFINE active == IF b.radio THEN {c}
                     ELSE IF c \in b.active THEN b.active \ {c} ELSE b.active \cup {c}
           changes == IF b.radio THEN c \notin b.checked
                      ELSE (c \in b.checked) = (c \in b.active)
           others == IF b.radio THEN {} ELSE b.checked \ {c}
           touched == IF b.radio THEN Pair ELSE b.touched \cup {c}
           checked == IF c \in active THEN others \cup {c} ELSE others
           changed == IF changes THEN b.changed \cup {c} ELSE b.changed
           events == b.events + 1
<1>1. page' = [b EXCEPT !.active = active, !.touched = touched, !.checked = checked,
                        !.changed = changed, !.events = events]
  <2> DEFINE t == [b EXCEPT !.active = active, !.touched = touched, !.checked = checked,
                            !.changed = changed]
  <2>1. ButtonGroups!ToggleChoice(b, c) = t
    BY DEF ButtonGroups!ToggleChoice, Groups
  <2> HIDE DEF active, changes, others, touched, checked, changed
  <2>2. page' = [t EXCEPT !.events = @ + 1]
    BY <2>1 DEF ButtonGroups!Happens
  <2> QED
    BY <2>2 DEF Groups
<1>2. /\ active \in SUBSET Pair /\ touched \in SUBSET Pair /\ checked \in SUBSET Pair
      /\ changed \in SUBSET Pair /\ events \in Nat
  <2> HIDE DEF changes
  <2> QED
    BY DEF Groups
<1>3. \A d \in touched : d \in active <=> d \in checked
  OBVIOUS
<1>4. b.radio => \A d, e \in checked : d = e
  OBVIOUS
<1> HIDE DEF active, touched, checked, changed, events
<1>5. page' \in Groups
  BY <1>1, <1>2 DEF Groups
<1>6. /\ page'.disabled = b.disabled /\ page'.text = b.text /\ page'.loading = b.loading
      /\ page'.kept = b.kept /\ page'.timers = b.timers /\ page'.last = b.last
      /\ page'.touched = touched /\ page'.active = active
      /\ page'.checked = checked /\ page'.radio = b.radio
  BY <1>1 DEF Groups
<1> QED
  BY <1>3, <1>4, <1>5, <1>6 DEF GroupInv, ButtonInv, LabelInv

\* A click on a label or on its input keeps the invariant.
LEMMA LabelClickKeeps ==
    ASSUME GroupInv(page), NEW c \in Pair,
           ButtonGroups!ClickLabel(c) \/ ButtonGroups!ClickInput(c)
    PROVE  GroupInv(page')
<1>1. page \in Groups /\ ButtonInv(page) /\ LabelInv(page)
  BY DEF GroupInv
<1>2. CASE ButtonGroups!ClickLabel(c)
  BY <1>1, <1>2, ToggledChoice DEF ButtonGroups!ClickLabel, LabelInv
<1>3. CASE ButtonGroups!ClickInput(c)
  <2> DEFINE checked == ButtonGroups!Check(page, c)
             b == [page EXCEPT !.checked = checked]
  <2>1. /\ checked \in SUBSET Pair
        /\ ~page.radio => \A d \in Pair \ {c} : d \in checked <=> d \in page.checked
        /\ page.radio => checked = {c}
    BY <1>1 DEF ButtonGroups!Check, Groups
  <2>2. ButtonGroups!Happens(ButtonGroups!ToggleChoice(b, c))
    BY <1>3 DEF ButtonGroups!ClickInput
  <2> HIDE DEF checked
  <2>3. /\ b \in Groups /\ b.disabled = page.disabled /\ b.text = page.text
        /\ b.loading = page.loading /\ b.kept = page.kept /\ b.timers = page.timers
        /\ b.last = page.last /\ b.touched = page.touched /\ b.active = page.active
        /\ b.checked = checked /\ b.radio = page.radio
    BY <1>1, <2>1 DEF Groups
  <2> HIDE DEF b
  <2>4. ButtonInv(b)
    BY <1>1, <2>3 DEF ButtonInv
  <2>5. ~b.radio => \A d \in b.touched \ {c} : d \in b.active <=> d \in b.checked
    BY <1>1, <2>1, <2>3 DEF LabelInv, Groups
  <2> QED
    BY <2>1, <2>2, <2>3, <2>4, <2>5, ToggledChoice
<1> QED
  BY <1>2, <1>3

\* Whatever happens keeps the invariant of the buttons.
LEMMA ButtonsKeep ==
    ASSUME GroupInv(page), ButtonGroups!ButtonsNext
    PROVE  GroupInv(page')
BY SetStateKeeps, StateTimeoutKeeps, LabelClickKeeps
DEF ButtonGroups!ButtonsNext, ButtonGroups!ButtonsRuns, States

\* The invariant of the buttons has what the runs check of them.
LEMMA ButtonsSafe ==
    ASSUME GroupInv(page)
    PROVE  ButtonGroups!ButtonAgrees /\ ButtonGroups!LabelsAgree /\ ButtonGroups!ButtonsTypeOK
<1>1. page \in Groups /\ ButtonInv(page) /\ LabelInv(page)
  BY DEF GroupInv
<1>2. ButtonGroups!ButtonAgrees
  BY <1>1 DEF ButtonInv, Groups, ButtonGroups!ButtonAgrees, ButtonGroups!ButtonsQuiet
<1>3. page.active \cap page.touched = page.checked \cap page.touched
  BY <1>1 DEF LabelInv
<1>4. page.radio => Cardinality(page.checked) <= 1
  BY <1>1, AtMostOne DEF LabelInv
<1>5. ButtonGroups!ButtonsTypeOK
  BY <1>1 DEF Groups, States, ButtonGroups!ButtonsTypeOK
<1> QED
  BY <1>2, <1>3, <1>4, <1>5 DEF ButtonGroups!LabelsAgree, ButtonGroups!Cardinality, Cardinality

Removals == INSTANCE Folding WITH Op <- Messages!RemoveElement

(***************************************************************************)
(* Messages.                                                               *)
(***************************************************************************)
AlertStates ==
    [present : SUBSET Pair, in : SUBSET Pair, fading : SUBSET Pair, owned : SUBSET Pair,
     flash : SUBSET Pair, step : 1 .. 4, waits : [Pair -> Nat], closed : [Pair -> Nat],
     closes : [Pair -> Nat]]

\* Who heard that a message was closed does not find it in the page.
ClosedOnce(a, m) == a.closed[m] <= 1 /\ (a.closed[m] = 1 => m \notin a.present)

AlertInv(a) ==
    /\ a \in AlertStates
    /\ \A m \in Pair : ClosedOnce(a, m) /\ (m \in a.present /\ a.waits[m] = 0 => m \in a.in)

\* The messages' fold is the one of Folding.
LEMMA RemovalsFold ==
    ASSUME NEW base, NEW s
    PROVE  Messages!FoldLeft(Messages!RemoveElement, base, s) = Removals!Folded(base, s)
BY Zenon DEF Messages!FoldLeft, Messages!MapThenFoldSet, Messages!Max,
             Removals!Folded, Removals!Greatest

\* A message that is removed is out of the page, and heard of as closed if it
\* was in it.
RemovesMessage(a, m, b) ==
    /\ b \in AlertStates
    /\ b.present = a.present \ {m} /\ b.in = a.in /\ b.waits = a.waits
    /\ b.owned = a.owned /\ b.fading = a.fading
    /\ \A n \in Pair : ClosedOnce(b, n)

\* What removing a message changes.
LEMMA RemovalIs ==
    ASSUME NEW a \in AlertStates, \A n \in Pair : ClosedOnce(a, n), NEW m \in Pair
    PROVE  RemovesMessage(a, m, Messages!RemoveElement(a, m))
<1> DEFINE b == Messages!RemoveElement(a, m)
           present == a.present \ {m}
           count == IF m \in a.present THEN a.closed[m] + 1 ELSE a.closed[m]
           closed == [a.closed EXCEPT ![m] = count]
<1>1. b = [a EXCEPT !.present = present, !.closed = closed]
  BY DEF Messages!RemoveElement, AlertStates
<1>2. present \in SUBSET Pair /\ count \in Nat /\ closed \in [Pair -> Nat]
  BY DEF AlertStates
<1>3. \A n \in Pair : closed[n] = IF n = m THEN count ELSE a.closed[n]
  BY DEF AlertStates
<1> HIDE DEF present, count, closed, b
<1>4. /\ b \in AlertStates /\ b.present = present /\ b.closed = closed /\ b.in = a.in
      /\ b.waits = a.waits /\ b.owned = a.owned /\ b.fading = a.fading
  BY <1>1, <1>2 DEF AlertStates
<1>5. ASSUME NEW n \in Pair PROVE ClosedOnce(b, n)
  <2>1. a.closed[n] \in Nat /\ ClosedOnce(a, n)
    BY DEF AlertStates
  <2> QED
    BY <1>3, <1>4, <2>1 DEF ClosedOnce, present, count
<1> QED
  BY <1>4, <1>5 DEF RemovesMessage, present, b

\* The messages begin in their invariant.
LEMMA AlertsStart ==
    ASSUME Messages!AlertsInit
    PROVE  AlertInv(page)
<1>1. PICK fading \in SUBSET Pair, owned \in SUBSET Pair, flash \in SUBSET Pair :
        page = [present |-> Pair, in |-> Pair, fading |-> fading,
                owned |-> owned, flash |-> flash, step |-> 1,
                waits |-> [m \in Pair |-> 0], closed |-> [m \in Pair |-> 0],
                closes |-> [m \in Pair |-> 0]]
  BY DEF Messages!AlertsInit
<1>2. page \in AlertStates
  BY <1>1 DEF AlertStates
<1>3. ASSUME NEW m \in Pair PROVE ClosedOnce(page, m) /\ m \in page.in
  BY <1>1 DEF ClosedOnce
<1> QED
  BY <1>2, <1>3 DEF AlertInv

\* Closing a message keeps what is so of the others, and it is out of the page
\* or waits to be.
LEMMA CloseOnceIs ==
    ASSUME NEW a, AlertInv(a), NEW m \in Pair
    PROVE  AlertInv(Messages!CloseOnce(a, m)) /\ Messages!CloseOnce(a, m).owned = a.owned
<1> DEFINE b == Messages!CloseOnce(a, m)
           in == a.in \ {m}
           out == [a EXCEPT !.in = in]
           waits == [a.waits EXCEPT ![m] = @ + 1]
<1>1. a \in AlertStates /\ \A n \in Pair : ClosedOnce(a, n)
  BY DEF AlertInv
<1>2. in \in SUBSET Pair /\ waits \in [Pair -> Nat]
  BY <1>1 DEF AlertStates
<1>3. \A n \in Pair : waits[n] = (IF n = m THEN a.waits[m] + 1 ELSE a.waits[n]) /\ a.waits[n] \in Nat
  BY <1>1 DEF AlertStates
<1>4. /\ out \in AlertStates /\ out.in = in /\ out.waits = a.waits /\ out.closed = a.closed
      /\ out.present = a.present /\ out.owned = a.owned /\ out.fading = a.fading
  <2> HIDE DEF in
  <2> QED
    BY <1>1, <1>2 DEF AlertStates
<1>5. b = IF m \in a.fading THEN [out EXCEPT !.waits = waits] ELSE Messages!RemoveElement(out, m)
  BY <1>1, <1>4 DEF Messages!CloseOnce, AlertStates
<1> HIDE DEF b, out, waits
<1>6. CASE m \in a.fading
  <2>1. /\ b \in AlertStates /\ b.in = in /\ b.waits = waits /\ b.closed = a.closed
        /\ b.present = a.present /\ b.owned = a.owned
    <3> HIDE DEF in
    <3> QED
      BY <1>2, <1>4, <1>5, <1>6 DEF AlertStates
  <2>2. ASSUME NEW n \in Pair, n \in b.present, b.waits[n] = 0 PROVE n \in b.in
    <3>1. n # m /\ a.waits[n] = 0
      BY <1>3, <2>1, <2>2
    <3> QED
      BY <2>1, <2>2, <3>1 DEF AlertInv
  <2> QED
    BY <1>1, <2>1, <2>2 DEF AlertInv, ClosedOnce, b
<1>7. CASE m \notin a.fading
  <2>1. \A n \in Pair : ClosedOnce(out, n)
    BY <1>1, <1>4 DEF ClosedOnce
  <2>2. RemovesMessage(out, m, b)
    BY <1>4, <1>5, <1>7, <2>1, RemovalIs
  <2>3. /\ b \in AlertStates /\ b.in = in /\ b.waits = a.waits
        /\ b.present = a.present \ {m} /\ b.owned = a.owned
        /\ \A n \in Pair : ClosedOnce(b, n)
    BY <1>4, <2>2 DEF RemovesMessage
  <2> QED
    BY <2>3 DEF AlertInv, b
<1> QED
  BY <1>6, <1>7

\* Closing a message keeps the invariant.
LEMMA CloseKeeps ==
    ASSUME AlertInv(page), NEW m \in Pair, Messages!Close(m)
    PROVE  AlertInv(page')
<1> DEFINE closes == [page.closes EXCEPT ![m] = @ + 1]
           a == [page EXCEPT !.closes = closes]
           once == Messages!CloseOnce(a, m)
<1>1. page \in AlertStates
  BY DEF AlertInv
<1>2. closes \in [Pair -> Nat]
  BY <1>1 DEF AlertStates
<1>3. page' = IF m \in page.owned THEN Messages!CloseOnce(once, m) ELSE once
  BY <1>1 DEF Messages!Close, AlertStates
<1>4. AlertInv(a)
  <2> HIDE DEF closes
  <2>1. /\ a \in AlertStates /\ a.in = page.in /\ a.waits = page.waits /\ a.closed = page.closed
        /\ a.present = page.present
    BY <1>1, <1>2 DEF AlertStates
  <2> HIDE DEF a
  <2> QED
    BY <2>1 DEF AlertInv, ClosedOnce
<1> HIDE DEF a
<1>5. AlertInv(once)
  BY <1>4, CloseOnceIs
<1> HIDE DEF once
<1>6. AlertInv(Messages!CloseOnce(once, m))
  BY <1>5, CloseOnceIs
<1> QED
  BY <1>3, <1>5, <1>6

\* The end of its fading keeps the invariant.
LEMMA FadedKeeps ==
    ASSUME AlertInv(page), NEW m \in Pair, Messages!Faded(m)
    PROVE  AlertInv(page')
<1> DEFINE waits == [page.waits EXCEPT ![m] = 0]
           base == [page EXCEPT !.waits = waits]
           N == page.waits[m]
           s == [i \in 1 .. N |-> m]
           same == {a \in AlertStates : /\ a.present \subseteq page.present /\ a.in = page.in
                                        /\ a.waits = waits /\ \A n \in Pair : ClosedOnce(a, n)}
<1>1. page \in AlertStates /\ N \in Nat \ {0} /\ waits \in [Pair -> Nat]
  BY DEF AlertInv, AlertStates, Messages!Faded
<1>2. page' = Removals!Folded(base, s)
  <2>1. page' = Messages!FoldLeft(Messages!RemoveElement, base, s)
    BY <1>1 DEF Messages!Faded, AlertStates
  <2> HIDE DEF base, s
  <2> QED
    BY <2>1, RemovalsFold
<1>3. /\ base \in AlertStates /\ base.waits = waits /\ base.in = page.in
      /\ base.present = page.present /\ base.closed = page.closed
  <2> HIDE DEF waits
  <2> QED
    BY <1>1 DEF AlertStates
<1>4. base \in same
  <2> HIDE DEF base, waits
  <2> QED
    BY <1>3 DEF AlertInv, ClosedOnce
<1>5. ASSUME NEW a \in same
      PROVE  /\ Messages!RemoveElement(a, m) \in same
             /\ m \notin Messages!RemoveElement(a, m).present
  <2> DEFINE b == Messages!RemoveElement(a, m)
  <2>1. RemovesMessage(a, m, b)
    BY RemovalIs
  <2> HIDE DEF b, waits
  <2>2. b \in same /\ m \notin b.present
    BY <2>1 DEF RemovesMessage
  <2> QED
    BY <2>2 DEF b
<1>6. DOMAIN s = 1 .. N /\ s[N] = m /\ \A a \in same, n \in 1 .. N : Messages!RemoveElement(a, s[n]) \in same
  <2> HIDE DEF same, N
  <2> QED
    BY <1>1, <1>5
<1> HIDE DEF same, base, s, N
<1>7. PICK a \in same : Removals!Folded(base, s) = Messages!RemoveElement(a, s[N])
  BY <1>1, <1>4, <1>6, Removals!FoldLast
<1>8. page' \in same /\ m \notin page'.present
  BY <1>2, <1>5, <1>6, <1>7
<1>9. /\ page' \in AlertStates /\ page'.present \subseteq page.present /\ page'.in = page.in
      /\ page'.waits = waits /\ \A n \in Pair : ClosedOnce(page', n)
  BY <1>8 DEF same
<1>10. ASSUME NEW n \in Pair, n \in page'.present, page'.waits[n] = 0 PROVE n \in page'.in
  <2>1. n # m /\ n \in page.present
    BY <1>8, <1>9, <1>10
  <2>2. page.waits[n] = 0
    BY <1>1, <1>9, <1>10, <2>1 DEF AlertStates
  <2> QED
    BY <1>9, <2>1, <2>2 DEF AlertInv
<1> QED
  BY <1>9, <1>10 DEF AlertInv

\* The container's going by itself keeps the invariant.
LEMMA FlashStepKeeps ==
    ASSUME AlertInv(page), Messages!FlashStep
    PROVE  AlertInv(page')
<1> DEFINE step == page.step + 1
           present == IF step = 4 THEN page.present \ page.flash ELSE page.present
<1>1. page \in AlertStates /\ step \in 1 .. 4 /\ present \in SUBSET Pair /\ present \subseteq page.present
  BY DEF AlertInv, AlertStates, Messages!FlashStep, Messages!Steps
<1>2. page' = [page EXCEPT !.step = step, !.present = present]
  BY <1>1 DEF Messages!FlashStep, Messages!Steps, AlertStates
<1> HIDE DEF step, present
<1>3. /\ page' \in AlertStates /\ page'.present = present /\ page'.in = page.in
      /\ page'.waits = page.waits /\ page'.closed = page.closed
  BY <1>1, <1>2 DEF AlertStates
<1> QED
  BY <1>1, <1>3 DEF AlertInv, ClosedOnce

\* Whatever happens keeps the invariant of the messages.
LEMMA AlertsKeep ==
    ASSUME AlertInv(page), Messages!AlertsNext
    PROVE  AlertInv(page')
BY CloseKeeps, FadedKeeps, FlashStepKeeps DEF Messages!AlertsNext, Messages!AlertsRuns

\* The invariant of the messages has what the runs check of them.
LEMMA AlertsSafe ==
    ASSUME AlertInv(page)
    PROVE  Messages!AlertsAgree /\ Messages!AlertsTypeOK
<1>1. Messages!AlertsAgree
  BY DEF AlertInv, ClosedOnce, Messages!AlertsAgree
<1>2. Messages!AlertsTypeOK
  BY DEF AlertInv, AlertStates, Messages!AlertsTypeOK, Messages!Steps
<1> QED
  BY <1>1, <1>2

(***************************************************************************)
(* Tabs.                                                                   *)
(***************************************************************************)
PaneMoves == [from : SUBSET Trio, to : Trio]
TabStates ==
    [tab : Trio, active : SUBSET Trio, in : SUBSET Trio, expanded : SUBSET Trio,
     next : [Trio -> Seq(PaneMoves)], fade : BOOLEAN, events : Nat, hurried : BOOLEAN]

\* The pane of the tab is shown, or one move waits for the pane before it.
TabAtRest(t) == t.active = {t.tab} /\ t.in = {t.tab} /\ \A p \in Trio : t.next[p] = <<>>
OneMoves(t) ==
    /\ t.fade /\ t.in = {}
    /\ \E a \in Trio :
          /\ t.active = {a} /\ t.next[a] = <<[from |-> {a}, to |-> t.tab]>>
          /\ \A p \in Trio \ {a} : t.next[p] = <<>>

TabInv(t) ==
    /\ t \in TabStates /\ t.active # {} /\ t.expanded = {t.tab}
    /\ t.hurried \/ TabAtRest(t) \/ OneMoves(t)
    /\ ~t.fade => TabAtRest(t)

\* The tabs' fold is the one of Folding.
LEMMA MovesFold ==
    ASSUME NEW base, NEW s
    PROVE  TabLists!FoldLeft(TabLists!Next, base, s) = Moves!Folded(base, s)
BY Zenon DEF TabLists!FoldLeft, TabLists!MapThenFoldSet, TabLists!Max, Moves!Folded, Moves!Greatest

\* What a move makes of the panes.
MoveLeaves(t, move, u) ==
    /\ u \in TabStates
    /\ u.active = (t.active \ move.from) \cup {move.to}
    /\ u.in = IF t.fade THEN t.in \cup {move.to} ELSE {move.to}
    /\ u.tab = t.tab /\ u.expanded = t.expanded /\ u.next = t.next
    /\ u.fade = t.fade /\ u.hurried = t.hurried /\ u.events = t.events

\* What the callback of a pane's transition changes.
LEMMA MoveIs ==
    ASSUME NEW t \in TabStates, NEW move \in PaneMoves
    PROVE  MoveLeaves(t, move, TabLists!Next(t, move))
<1> DEFINE active == (t.active \ move.from) \cup {move.to}
           in == IF t.fade THEN t.in \cup {move.to} ELSE {move.to}
           u == TabLists!Next(t, move)
<1>1. u = [t EXCEPT !.active = active, !.in = in]
  BY DEF TabLists!Next, TabStates
<1>2. active \in SUBSET Trio /\ in \in SUBSET Trio
  BY DEF TabStates, PaneMoves
<1> HIDE DEF active, in, u
<1>3. u \in TabStates
  BY <1>1, <1>2 DEF TabStates
<1>4. /\ u.active = active /\ u.in = in /\ u.tab = t.tab /\ u.expanded = t.expanded
      /\ u.next = t.next /\ u.fade = t.fade /\ u.hurried = t.hurried /\ u.events = t.events
  BY <1>1 DEF TabStates
<1> QED
  BY <1>3, <1>4 DEF active, in, u, MoveLeaves

\* The tabs begin in their invariant.
LEMMA TabsStart ==
    ASSUME TabLists!TabsInit
    PROVE  TabInv(page)
<1>1. PICK fade \in BOOLEAN, first \in Trio :
         page = [tab |-> first, active |-> {first}, in |-> {first}, expanded |-> {first},
                 next |-> [p \in Trio |-> <<>>],
                 fade |-> fade, events |-> 0, hurried |-> FALSE]
  BY DEF TabLists!TabsInit
<1>2. [p \in Trio |-> <<>>] \in [Trio -> Seq(PaneMoves)]
  <2>1. <<>> \in Seq(PaneMoves)
    OBVIOUS
  <2> QED
    BY <2>1
<1>3. page \in TabStates
  BY <1>1, <1>2 DEF TabStates
<1>4. TabAtRest(page)
  BY <1>1 DEF TabAtRest
<1> QED
  BY <1>1, <1>3, <1>4 DEF TabInv

\* What showing the pane of a tab makes of one that is at rest, or of any.
LEMMA ActivateIs ==
    ASSUME NEW t, TabInv(t), NEW p \in Trio, t.tab # p, NEW u, u = TabLists!Activate(t, p)
    PROVE  /\ u \in TabStates /\ u.tab = p /\ u.expanded = {p} /\ u.active # {}
           /\ u.fade = t.fade /\ u.hurried = t.hurried /\ u.events = t.events
           /\ ~t.fade => TabAtRest(u)
           /\ t.fade /\ TabAtRest(t) => OneMoves(u)
<1> DEFINE move == [from |-> t.active, to |-> p]
           expanded == (t.expanded \ {t.tab}) \cup {p}
           turned == [t EXCEPT !.tab = p, !.expanded = expanded]
           in == t.in \ t.active
           next == [q \in Trio |-> IF q \in t.active THEN Append(t.next[q], move) ELSE t.next[q]]
<1>1. t \in TabStates /\ t.expanded = {t.tab} /\ t.active # {} /\ (~t.fade => TabAtRest(t))
  BY DEF TabInv
<1>2. move \in PaneMoves /\ expanded = {p}
  BY <1>1 DEF TabStates, PaneMoves
<1>3. /\ turned \in TabStates /\ turned.tab = p /\ turned.expanded = {p}
      /\ turned.active = t.active /\ turned.in = t.in /\ turned.next = t.next
      /\ turned.fade = t.fade /\ turned.hurried = t.hurried /\ turned.events = t.events
  <2> HIDE DEF expanded
  <2> QED
    BY <1>1, <1>2 DEF TabStates
<1>4. u = IF t.fade THEN [turned EXCEPT !.in = in, !.next = next]
          ELSE TabLists!Next(turned, move)
  BY <1>1, <1>3 DEF TabLists!Activate, TabStates
<1>5. CASE t.fade
  <2>1. in \in SUBSET Trio
    BY <1>1 DEF TabStates
  <2>2. next \in [Trio -> Seq(PaneMoves)]
    <3>1. ASSUME NEW q \in Trio PROVE next[q] \in Seq(PaneMoves)
      <4>1. t.next[q] \in Seq(PaneMoves)
        BY <1>1 DEF TabStates
      <4> HIDE DEF move
      <4> QED
        BY <1>2, <4>1
    <3> HIDE DEF move
    <3> QED
      BY <3>1
  <2> HIDE DEF in, next, turned
  <2>3. /\ u \in TabStates /\ u.tab = p /\ u.expanded = {p}
        /\ u.fade = t.fade /\ u.hurried = t.hurried /\ u.events = t.events
        /\ u.active = t.active /\ u.in = in /\ u.next = next
    BY <1>3, <1>4, <1>5, <2>1, <2>2 DEF TabStates
  <2>4. TabAtRest(t) => OneMoves(u)
    <3> SUFFICES ASSUME TabAtRest(t) PROVE OneMoves(u)
      OBVIOUS
    <3>1. t.tab \in Trio /\ t.active = {t.tab} /\ in = {}
      BY <1>1 DEF TabAtRest, TabStates, in
    <3>2. next[t.tab] = <<[from |-> {t.tab}, to |-> p]>>
      <4>1. t.next[t.tab] = <<>>
        BY <3>1 DEF TabAtRest
      <4>2. Append(<<>>, move) = <<move>>
        OBVIOUS
      <4> QED
        BY <3>1, <4>1, <4>2 DEF next
    <3>3. \A q \in Trio \ {t.tab} : next[q] = <<>>
      BY <3>1 DEF next, TabAtRest
    <3> QED
      BY <1>5, <2>3, <3>1, <3>2, <3>3 DEF OneMoves
  <2> QED
    BY <1>1, <1>5, <2>3, <2>4
<1>6. CASE ~t.fade
  <2> HIDE DEF turned, move
  <2>4. turned \in TabStates /\ move \in PaneMoves /\ u = TabLists!Next(turned, move)
    BY <1>2, <1>3, <1>4, <1>6
  <2>5. MoveLeaves(turned, move, u)
    BY <2>4, MoveIs
  <2>1. /\ u \in TabStates
        /\ u.active = (turned.active \ move.from) \cup {move.to} /\ u.in = {move.to}
        /\ u.tab = p /\ u.expanded = {p} /\ u.next = t.next
        /\ u.fade = t.fade /\ u.hurried = t.hurried /\ u.events = t.events
    BY <1>3, <1>6, <2>5 DEF MoveLeaves
  <2>2. u.active = {p} /\ u.in = {p}
    BY <1>3, <2>1 DEF move
  <2>3. TabAtRest(u)
    BY <1>1, <1>6, <2>1, <2>2 DEF TabAtRest
  <2> QED
    BY <1>6, <2>1, <2>2, <2>3
<1> QED
  BY <1>5, <1>6

\* A click on a tab keeps the invariant.
LEMMA TabClickKeeps ==
    ASSUME TabInv(page), NEW p \in Trio, TabLists!Click(p)
    PROVE  TabInv(page')
<1> DEFINE once == TabLists!Show(page, p)
           events == once.events + 1
           hurried == once.hurried \/ TabLists!Waiting(page)
<1>1. /\ once \in TabStates /\ once.tab = p /\ once.active # {} /\ once.expanded = {once.tab}
      /\ once.fade = page.fade /\ once.hurried = page.hurried
      /\ ~page.fade => TabAtRest(once)
      /\ TabAtRest(page) => TabAtRest(once) \/ OneMoves(once)
  <2>1. CASE page.tab = p
    BY <2>1 DEF TabLists!Show, TabInv
  <2>2. CASE page.tab # p
    <3>1. once = TabLists!Activate(page, p)
      BY <2>2 DEF TabLists!Show
    <3> HIDE DEF once
    <3>2. /\ once \in TabStates /\ once.tab = p /\ once.expanded = {p} /\ once.active # {}
          /\ once.fade = page.fade /\ once.hurried = page.hurried
          /\ ~page.fade => TabAtRest(once)
          /\ page.fade /\ TabAtRest(page) => OneMoves(once)
      BY <2>2, <3>1, ActivateIs
    <3> QED
      BY <3>2 DEF TabInv, TabStates
  <2> QED
    BY <2>1, <2>2
<1>2. TabLists!Show(once, p) = once
  <2> HIDE DEF once
  <2> QED
    BY <1>1 DEF TabLists!Show
<1>3. page' = [once EXCEPT !.events = events, !.hurried = hurried]
  BY <1>1, <1>2 DEF TabLists!Click, TabStates
<1>4. events \in Nat /\ hurried \in BOOLEAN
  BY <1>1 DEF TabStates, TabLists!Waiting
<1>5. ~hurried => TabAtRest(page)
  <2> SUFFICES ASSUME ~hurried PROVE TabAtRest(page)
    OBVIOUS
  <2>1. ~page.hurried /\ \A q \in Trio : page.next[q] = <<>>
    BY <1>1 DEF TabLists!Waiting
  <2>2. ASSUME OneMoves(page) PROVE FALSE
    BY <2>1, <2>2 DEF OneMoves
  <2> QED
    BY <2>1, <2>2 DEF TabInv
<1> HIDE DEF once, events, hurried
<1>6. /\ page' \in TabStates /\ page'.tab = p /\ page'.active = once.active
      /\ page'.expanded = once.expanded /\ page'.fade = once.fade /\ page'.in = once.in
      /\ page'.next = once.next /\ page'.hurried = hurried
  BY <1>1, <1>3, <1>4 DEF TabStates
<1>7. TabAtRest(once) => TabAtRest(page')
  BY <1>1, <1>6 DEF TabAtRest
<1>8. OneMoves(once) => OneMoves(page')
  BY <1>1, <1>6 DEF OneMoves
<1> QED
  BY <1>1, <1>5, <1>6, <1>7, <1>8 DEF TabInv

\* The end of a pane's transition keeps the invariant.
LEMMA FadingEndKeeps ==
    ASSUME TabInv(page), NEW p \in Trio, TabLists!FadingEnd(p)
    PROVE  TabInv(page')
<1> DEFINE base == [page EXCEPT !.next[p] = <<>>]
           s == page.next[p]
           next == [page.next EXCEPT ![p] = <<>>]
           same == {t \in TabStates : /\ t.active # {} /\ t.tab = page.tab /\ t.expanded = page.expanded
                                      /\ t.fade = page.fade /\ t.hurried = page.hurried
                                      /\ t.next = next}
<1>1. /\ page \in TabStates /\ s \in Seq(PaneMoves) /\ s # <<>> /\ page.fade
      /\ page' = Moves!Folded(base, s)
  <2>1. page \in TabStates /\ s \in Seq(PaneMoves) /\ s # <<>>
    BY DEF TabInv, TabStates, TabLists!FadingEnd
  <2>2. page.fade
    BY <2>1 DEF TabInv, TabAtRest
  <2> QED
    BY <2>1, <2>2, MovesFold DEF TabLists!FadingEnd
<1>2. base = [page EXCEPT !.next = next] /\ next \in [Trio -> Seq(PaneMoves)]
  <2>1. <<>> \in Seq(PaneMoves)
    OBVIOUS
  <2> QED
    BY <1>1, <2>1 DEF TabStates
<1>3. base \in same /\ base.active = page.active /\ base.in = page.in
  <2> HIDE DEF next, base
  <2> QED
    BY <1>1, <1>2 DEF TabStates, TabInv
<1>4. Len(s) \in Nat /\ DOMAIN s = 1 .. Len(s) /\ \A n \in 1 .. Len(s) : s[n] \in PaneMoves
  BY <1>1, ElementOf
<1>5. ASSUME NEW t \in same, NEW n \in 1 .. Len(s) PROVE TabLists!Next(t, s[n]) \in same
  <2> DEFINE u == TabLists!Next(t, s[n])
  <2>1. s[n] \in PaneMoves /\ t \in TabStates
    BY <1>4
  <2>2. MoveLeaves(t, s[n], u)
    <3> HIDE DEF s, same, next, base
    <3> QED
      BY <2>1, MoveIs
  <2> HIDE DEF s, next, base
  <2> QED
    BY <2>2 DEF MoveLeaves
<1> HIDE DEF same, base, next
<1>6. page' \in same
  BY <1>1, <1>3, <1>4, <1>5, Moves!FoldStays
<1>7. /\ page' \in TabStates /\ page'.active # {} /\ page'.tab = page.tab
      /\ page'.expanded = page.expanded
      /\ page'.fade = page.fade /\ page'.hurried = page.hurried /\ page'.next = next
  BY <1>6 DEF same
<1>8. CASE OneMoves(page)
  <2>1. PICK a \in Trio :
          /\ page.active = {a} /\ page.next[a] = <<[from |-> {a}, to |-> page.tab]>>
          /\ \A q \in Trio \ {a} : page.next[q] = <<>>
    BY <1>8 DEF OneMoves
  <2>2. p = a
    BY <1>1, <2>1
  <2> DEFINE move == [from |-> {a}, to |-> page.tab]
  <2>3. s = <<move>> /\ Len(s) = 1
    BY <2>1, <2>2
  <2>4. page' = TabLists!Next(base, move)
    <3>1. DOMAIN s = {1} /\ s[1] = move /\ \A t \in same : TabLists!Next(t, s[1]) \in same
      BY <1>4, <1>5, <2>3
    <3> HIDE DEF s, move
    <3>2. Moves!Folded(base, s) = TabLists!Next(base, s[1])
      BY <1>3, <3>1, Moves!FoldOnce
    <3> QED
      BY <1>1, <3>1, <3>2
  <2>5. base \in TabStates /\ base.tab = page.tab /\ base.fade /\ base.next = next
    BY <1>1, <1>3 DEF same
  <2>6. move \in PaneMoves
    BY <1>1 DEF PaneMoves, TabStates
  <2> HIDE DEF move
  <2>7. page'.active = (base.active \ move.from) \cup {move.to} /\ page'.in = base.in \cup {move.to}
    <3>1. MoveLeaves(base, move, page')
      BY <2>4, <2>5, <2>6, MoveIs
    <3> QED
      BY <2>5, <3>1 DEF MoveLeaves
  <2>8. page'.active = {page.tab} /\ page'.in = {page.tab}
    BY <1>3, <1>8, <2>1, <2>7 DEF move, OneMoves
  <2>9. \A q \in Trio : page'.next[q] = <<>>
    BY <1>1, <1>7, <2>1, <2>2 DEF next, TabStates
  <2> QED
    BY <1>7, <2>8, <2>9, <1>1 DEF TabInv, TabAtRest
<1>9. CASE ~OneMoves(page)
  <2>1. page.hurried
    BY <1>1, <1>9 DEF TabInv, TabAtRest
  <2> QED
    BY <1>1, <1>7, <2>1 DEF TabInv
<1> QED
  BY <1>8, <1>9

\* Whatever happens keeps the invariant of the tabs.
LEMMA TabsKeep ==
    ASSUME TabInv(page), TabLists!TabsNext
    PROVE  TabInv(page')
BY TabClickKeeps, FadingEndKeeps DEF TabLists!TabsNext, TabLists!TabsRuns

\* The invariant of the tabs has what the runs check of them.
LEMMA TabsSafe ==
    ASSUME TabInv(page)
    PROVE  TabLists!PaneFollowsTab /\ TabLists!TabsTypeOK
<1>1. TabLists!TabsTypeOK
  BY DEF TabInv, TabStates, TabLists!TabsTypeOK
<1>2. TabLists!PaneFollowsTab
  <2> SUFFICES ASSUME TabLists!TabsQuiet, ~page.hurried
               PROVE  page.active = {page.tab} /\ page.in = {page.tab} /\ page.expanded = {page.tab}
    BY DEF TabLists!PaneFollowsTab
  <2>1. \A p \in Trio : page.next[p] = <<>>
    BY DEF TabInv, TabStates, TabLists!TabsQuiet, TabLists!Waiting
  <2>2. ~OneMoves(page)
    <3> SUFFICES ASSUME NEW a \in Trio, NEW move, page.next[a] = <<move>> PROVE FALSE
      BY DEF OneMoves
    <3>1. <<move>> # <<>>
      OBVIOUS
    <3> QED
      BY <2>1, <3>1
  <2> QED
    BY <2>2 DEF TabInv, TabAtRest
<1> QED
  BY <1>1, <1>2

(***************************************************************************)
(* The page.                                                               *)
(***************************************************************************)
\* The parts that the site's own scripts and Bootstrap make, of which each keeps
\* the invariant of its own.
PageInv ==
    /\ part = "collapse" => CollapseInv(page)
    /\ part = "dropdown" => DropInv(page)
    /\ part = "carousel" => CarouselInv(page)
    /\ part = "modal" => ModalInv(page)
    /\ part = "alerts" => AlertInv(page)
    /\ part = "buttons" => GroupInv(page)
    /\ part = "tooltip" => TipInv(page)
    /\ part = "tabs" => TabInv(page)
    /\ part = "scrolling" => ScrollInv(page)
    /\ part = "skills" => SkillInv(page)
    /\ part = "site" => SiteInv(page)
    /\ part = "list" => ListInv(page)

\* A page begins in it.
LEMMA PageStarts == Init => PageInv
BY CollapseStarts, DropdownStarts, CarouselStarts, ModalStarts, AlertsStart, ButtonsStart,
   TipStarts, TabsStart, ScrollStarts, SkillsStart, SiteStarts, ListStarts DEF Init, PageInv

\* Whatever happens on the page keeps it.
LEMMA PageKeeps == PageInv /\ [Next]_pageVars => PageInv'
<1> SUFFICES ASSUME PageInv, [Next]_pageVars PROVE PageInv'
  OBVIOUS
<1>1. CASE Next
  <2>1. part' = part
    BY <1>1 DEF Next
  <2>2. ASSUME part = "collapse" PROVE CollapseInv(page')
    BY <1>1, <2>2, CollapseKeeps DEF Next, PageInv
  <2>3. ASSUME part = "dropdown" PROVE DropInv(page')
    BY <1>1, <2>3, DropdownKeeps DEF Next, PageInv
  <2>4. ASSUME part = "carousel" PROVE CarouselInv(page')
    BY <1>1, <2>4, CarouselKeeps DEF Next, PageInv
  <2>5. ASSUME part = "modal" PROVE ModalInv(page')
    BY <1>1, <2>5, ModalKeeps DEF Next, PageInv
  <2>6. ASSUME part = "alerts" PROVE AlertInv(page')
    BY <1>1, <2>6, AlertsKeep DEF Next, PageInv
  <2>7. ASSUME part = "buttons" PROVE GroupInv(page')
    BY <1>1, <2>7, ButtonsKeep DEF Next, PageInv
  <2>8. ASSUME part = "tooltip" PROVE TipInv(page')
    BY <1>1, <2>8, TipKeeps DEF Next, PageInv
  <2>9. ASSUME part = "tabs" PROVE TabInv(page')
    BY <1>1, <2>9, TabsKeep DEF Next, PageInv
  <2>10. ASSUME part = "scrolling" PROVE ScrollInv(page')
    BY <1>1, <2>10, ScrollingKeeps DEF Next, PageInv
  <2>11. ASSUME part = "skills" PROVE SkillInv(page')
    BY <1>1, <2>11, SkillsKeep DEF Next, PageInv
  <2>12. ASSUME part = "site" PROVE SiteInv(page')
    BY <1>1, <2>12, SiteKeeps DEF Next, PageInv
  <2>13. ASSUME part = "list" PROVE ListInv(page')
    BY <1>1, <2>13, ListKeeps DEF Next, PageInv
  <2> QED
    BY <2>1, <2>2, <2>3, <2>4, <2>5, <2>6, <2>7, <2>8, <2>9, <2>10, <2>11, <2>12, <2>13 DEF PageInv
<1>2. CASE UNCHANGED pageVars
  <2>1. part' = part /\ page' = page
    BY <1>2 DEF pageVars
  <2> QED
    BY <2>1 DEF PageInv
<1> QED
  BY <1>1, <1>2

\* So every page is always in it.
THEOREM PageInvariant == Spec => []PageInv
BY PageStarts, PageKeeps, PTL DEF Spec

\* The modules are initialised once after a full load, and a clock that runs
\* tells the truth about its page's event (websiteone.js, event_countdown.js).
THEOREM StartedOnce == Spec => []ScriptsStartOnce
<1>1. PageInv => ScriptsStartOnce
  BY SiteSafe DEF PageInv, ScriptsStartOnce
<1> QED
  BY <1>1, PageInvariant, PTL

\* A list that grows with the scrolling repeats and omits nothing, unless its
\* rows moved or another page's answer came (users.js).
THEOREM GrowsInOrder == Spec => []ListedInOrder
<1>1. PageInv => ListedInOrder
  BY ListSafe DEF PageInv, ListedInOrder
<1> QED
  BY <1>1, PageInvariant, PTL

\* The skills a member's form submits are the ones shown, each once, unless one
\* with a character that HTML encodes was clicked away (bootstrap-tags.js).
THEOREM SubmittedAreShown == Spec => []SkillsSubmittedAsShown
<1>1. PageInv => SkillsSubmittedAsShown
  BY SkillsSafe DEF PageInv, SkillsSubmittedAsShown
<1> QED
  BY <1>1, PageInvariant, PTL

\* The widgets of Bootstrap: at rest each shows the state its object is in, and
\* what the reader chose is what is chosen, one at a time where the page offers
\* one, however clicks, keys, transitions and timers came in between
\* (bootstrap.js, and accordion_collapse.js for the carets of the panels).
THEOREM BootstrapAgrees == Spec => []RestingPageAgrees
<1>1. PageInv => RestingPageAgrees
  BY CollapseSafe, DropdownSafe, CarouselSafe, ModalSafe, AlertsSafe, ButtonsSafe, TipSafe,
     TabsSafe, ScrollingSafe DEF PageInv, RestingPageAgrees
<1> QED
  BY <1>1, PageInvariant, PTL

\* Whatever a part of the site's own scripts or of Bootstrap keeps has its type: no
\* index, reference or state is one that its code does not know.
THEOREM TypeCorrect == Spec => []TypeOK
<1>1. PageInv => TypeOK
  BY CollapseTypes, DropdownSafe, CarouselSafe, ModalTypes, AlertsSafe, ButtonsSafe, TipTypes,
     TabsSafe, ScrollingSafe, SkillsSafe, SiteSafe, ListSafe DEF PageInv, TypeOK
<1> QED
  BY <1>1, PageInvariant, PTL
================================================================================
