-------------------------------- MODULE Folding --------------------------------
(***************************************************************************)
(* What a fold over a sequence computes, for the proofs: the operator is a *)
(* parameter, which an instance of the module gives its value.             *)
(***************************************************************************)
EXTENDS Integers, TLAPS, WellFoundedInduction

CONSTANT Op(_, _)    \* what an element, the second, makes of a state

(***************************************************************************)
(* Numbers, and what is reached step by step.                              *)
(***************************************************************************)
\* A set of numbers that is not empty has a least one.
LEMMA LeastOf ==
    ASSUME NEW S \in SUBSET Nat, S # {}
    PROVE  \E n \in S : \A m \in S : n <= m
<1> DEFINE less == {ss \in Nat \X Nat : ss[1] < ss[2]}
<1>1. IsWellFoundedOn(less, Nat)
  <2>1. OpToRel(<, Nat) = less
    BY Zenon DEF OpToRel
  <2> QED
    BY <2>1, NatLessThanWellFounded
<1>2. PICK n \in S : \A m \in S : <<m, n>> \notin less
  BY <1>1, WFMin
<1>3. ASSUME NEW m \in S PROVE n <= m
  <2>1. <<m, n>> \in less <=> m < n
    OBVIOUS
  <2> QED
    BY <1>2, <2>1
<1> QED
  BY <1>3

\* A fold over 1 .. n, the greatest element last: next[<<x, m>>] is what element m
\* makes of x.
Folds(n, base, next, fold) ==
    /\ fold[{}] = base
    /\ \A s \in SUBSET (1 .. n), m \in 1 .. n :
          m \in s /\ (\A k \in s : k <= m) => fold[s] = next[<<fold[s \ {m}], m>>]

\* Such a fold exists.
LEMMA FoldsExist ==
    ASSUME NEW S, NEW base \in S, NEW N \in Nat, NEW next \in [S \X (1 .. N) -> S]
    PROVE  \E fold \in [SUBSET (1 .. N) -> S] : Folds(N, base, next, fold)
<1> DEFINE Has(n) == \E fold \in [SUBSET (1 .. n) -> S] : Folds(n, base, next, fold)
           without == {n \in 0 .. N : ~Has(n)}
<1> HIDE DEF Has
<1> SUFFICES ASSUME without # {} PROVE FALSE
  <2>1. without = {} => Has(N)
    OBVIOUS
  <2> QED
    BY <2>1 DEF Has
<1>1. PICK n \in without : \A m \in without : n <= m
  <2>1. without \in SUBSET Nat
    OBVIOUS
  <2> HIDE DEF without
  <2> QED
    BY <2>1, LeastOf
<1>2. n # 0
  <2> SUFFICES ASSUME n = 0 PROVE Has(0)
    BY <1>1
  <2> DEFINE fold == [s \in SUBSET (1 .. 0) |-> base]
  <2>1. 1 .. 0 = {}
    OBVIOUS
  <2>2. fold \in [SUBSET (1 .. 0) -> S] /\ Folds(0, base, next, fold)
    BY <2>1 DEF Folds
  <2> QED
    BY <2>2 DEF Has
<1>3. n \in 1 .. N /\ n - 1 \in 0 .. N /\ n - 1 \notin without
  BY <1>1, <1>2
<1>4. PICK before \in [SUBSET (1 .. n - 1) -> S] : Folds(n - 1, base, next, before)
  BY <1>3 DEF Has
<1> DEFINE fold == [s \in SUBSET (1 .. n) |->
                       IF n \in s THEN next[<<before[s \ {n}], n>>] ELSE before[s]]
<1>5. \A s \in SUBSET (1 .. n) : IF n \in s THEN s \ {n} \in SUBSET (1 .. n - 1)
                                 ELSE s \in SUBSET (1 .. n - 1)
  BY <1>3
<1>6. fold \in [SUBSET (1 .. n) -> S]
  BY <1>3, <1>5
<1>7. fold[{}] = base
  BY <1>4 DEF Folds
<1>8. ASSUME NEW s \in SUBSET (1 .. n), NEW m \in 1 .. n, m \in s, \A k \in s : k <= m
      PROVE  fold[s] = next[<<fold[s \ {m}], m>>]
  <2>1. CASE n \in s
    <3>1. m = n
      BY <1>3, <1>8, <2>1
    <3> QED
      BY <1>5, <2>1, <3>1
  <2>2. CASE n \notin s
    <3>1. s \in SUBSET (1 .. n - 1) /\ s \ {m} \in SUBSET (1 .. n - 1) /\ m \in 1 .. n - 1
      BY <1>5, <1>8, <2>2
    <3>2. fold[s] = before[s] /\ fold[s \ {m}] = before[s \ {m}]
      BY <2>2, <3>1
    <3>3. before[s] = next[<<before[s \ {m}], m>>]
      BY <1>4, <1>8, <3>1 DEF Folds
    <3> QED
      BY <3>2, <3>3
  <2> QED
    BY <2>1, <2>2
<1>9. Folds(n, base, next, fold)
  BY <1>7, <1>8 DEF Folds
<1>10. Has(n)
  BY <1>6, <1>9 DEF Has
<1> QED
  BY <1>1, <1>10

\* The same, element by element: after[n] is what the first n make of base.
Steps(N, base, next, after) ==
    /\ after[0] = base
    /\ \A n \in 1 .. N : after[n] = next[<<after[n - 1], n>>]

\* A fold goes step by step.
LEMMA FoldInSteps ==
    ASSUME NEW S, NEW base \in S, NEW N \in Nat, NEW next \in [S \X (1 .. N) -> S],
           NEW fold \in [SUBSET (1 .. N) -> S], Folds(N, base, next, fold)
    PROVE  \E after \in [0 .. N -> S] :
              /\ Steps(N, base, next, after)
              /\ \A n \in 0 .. N : after[n] = fold[1 .. n]
<1> DEFINE after == [n \in 0 .. N |-> fold[1 .. n]]
<1>1. after \in [0 .. N -> S]
  OBVIOUS
<1>2. after[0] = base
  BY DEF Folds
<1>3. ASSUME NEW n \in 1 .. N PROVE after[n] = next[<<after[n - 1], n>>]
  <2>1. 1 .. n \in SUBSET (1 .. N) /\ n \in 1 .. n /\ (\A k \in 1 .. n : k <= n)
    OBVIOUS
  <2>2. (1 .. n) \ {n} = 1 .. n - 1 /\ n - 1 \in 0 .. N
    OBVIOUS
  <2>3. fold[1 .. n] = next[<<fold[(1 .. n) \ {n}], n>>]
    BY <2>1 DEF Folds
  <2>4. after[n] = fold[1 .. n] /\ after[n - 1] = fold[1 .. n - 1]
    BY <2>2
  <2> QED
    BY <2>2, <2>3, <2>4
<1>4. Steps(N, base, next, after)
  <2> HIDE DEF after
  <2> QED
    BY <1>2, <1>3 DEF Steps
<1>5. \A n \in 0 .. N : after[n] = fold[1 .. n]
  OBVIOUS
<1> HIDE DEF after
<1> QED
  BY <1>1, <1>4, <1>5

\* Such steps exist.
LEMMA StepsExist ==
    ASSUME NEW S, NEW base \in S, NEW N \in Nat, NEW next \in [S \X (1 .. N) -> S]
    PROVE  \E after \in [0 .. N -> S] : Steps(N, base, next, after)
<1>1. PICK fold \in [SUBSET (1 .. N) -> S] : Folds(N, base, next, fold)
  BY FoldsExist
<1> QED
  BY <1>1, FoldInSteps

\* Step by step, from 0 to N.
LEMMA UpTo ==
    ASSUME NEW N \in Nat, NEW good, 0 \in good,
           \A n \in 1 .. N : n - 1 \in good => n \in good
    PROVE  0 .. N \subseteq good
<1> DEFINE without == {n \in 0 .. N : n \notin good}
<1> SUFFICES ASSUME without # {} PROVE FALSE
  OBVIOUS
<1>1. PICK n \in without : \A m \in without : n <= m
  <2>1. without \in SUBSET Nat
    OBVIOUS
  <2> HIDE DEF without
  <2> QED
    BY <2>1, LeastOf
<1>2. n \in 1 .. N /\ n - 1 \in 0 .. N /\ n - 1 \notin without
  BY <1>1
<1> QED
  BY <1>1, <1>2

(***************************************************************************)
(* The folds of sequences, which take the greatest index last.             *)
(***************************************************************************)
Greatest(set) == CHOOSE m \in set : \A n \in set : m >= n

Folded(base, s) ==
    LET fold[u \in SUBSET DOMAIN s] ==
            IF u = {} THEN base
            ELSE LET m == Greatest(u) IN Op(fold[u \ {m}], s[m])
    IN  fold[DOMAIN s]

\* Numbers up to N have a greatest one.
LEMMA GreatestOf ==
    ASSUME NEW N \in Nat, NEW u \in SUBSET (1 .. N), u # {}
    PROVE  Greatest(u) \in u /\ \A k \in u : k <= Greatest(u)
<1> DEFINE bounds == {n \in 0 .. N : \A k \in u : k <= n}
<1>1. PICK n \in bounds : \A m \in bounds : n <= m
  <2>1. bounds \in SUBSET Nat /\ N \in bounds
    OBVIOUS
  <2> HIDE DEF bounds
  <2> QED
    BY <2>1, LeastOf
<1>2. n \in u
  <2> SUFFICES ASSUME n \notin u PROVE FALSE
    OBVIOUS
  <2>1. \A k \in u : k <= n - 1 /\ n - 1 \in 0 .. N
    OBVIOUS
  <2>2. n - 1 \in bounds
    BY <2>1
  <2> QED
    BY <1>1, <2>2
<1>3. n \in u /\ \A k \in u : n >= k
  BY <1>1, <1>2
<1>4. Greatest(u) \in u /\ \A k \in u : Greatest(u) >= k
  BY <1>3, Zenon DEF Greatest
<1> QED
  BY <1>4

\* after[n] is what the first n elements make of base.
Follows(N, base, s, after) ==
    after[0] = base /\ \A n \in 1 .. N : after[n] = Op(after[n - 1], s[n])

InSteps(S, N, base, s) ==
    \E after \in [0 .. N -> S] : Follows(N, base, s, after) /\ Folded(base, s) = after[N]

\* A fold whose operator stays among S goes there step by step.
LEMMA FoldSteps ==
    ASSUME NEW S, NEW base \in S, NEW N \in Nat, NEW s, DOMAIN s = 1 .. N,
           \A x \in S, n \in 1 .. N : Op(x, s[n]) \in S
    PROVE  InSteps(S, N, base, s)
<1> DEFINE next == [xm \in S \X (1 .. N) |-> Op(xm[1], s[xm[2]])]
           IsFold(f) == f = [u \in SUBSET DOMAIN s |->
                               IF u = {} THEN base
                               ELSE LET m == Greatest(u) IN Op(f[u \ {m}], s[m])]
           fold == CHOOSE f : IsFold(f)
<1>1. next \in [S \X (1 .. N) -> S]
  OBVIOUS
<1>2. \E f : IsFold(f)
  <2>1. PICK f \in [SUBSET (1 .. N) -> S] : Folds(N, base, next, f)
    <3> HIDE DEF next
    <3> QED
      BY <1>1, FoldsExist
  <2>2. ASSUME NEW u \in SUBSET (1 .. N), u # {}
        PROVE  f[u] = Op(f[u \ {Greatest(u)}], s[Greatest(u)])
    <3> DEFINE m == Greatest(u)
    <3>1. m \in u /\ \A k \in u : k <= m
      BY <2>2, GreatestOf
    <3> HIDE DEF m
    <3>2. m \in 1 .. N /\ u \ {m} \in SUBSET (1 .. N)
      BY <3>1
    <3>3. f[u] = next[<<f[u \ {m}], m>>]
      <4> HIDE DEF next
      <4> QED
        BY <2>1, <3>1, <3>2 DEF Folds
    <3>4. <<f[u \ {m}], m>> \in S \X (1 .. N)
      BY <2>1, <3>2
    <3>5. f[u] = Op(f[u \ {m}], s[m])
      BY <3>3, <3>4
    <3> QED
      BY <3>5 DEF m
  <2>3. f[{}] = base
    BY <2>1 DEF Folds
  <2>4. IsFold(f)
    <3> HIDE DEF next
    <3> QED
      BY <2>1, <2>2, <2>3
  <2> QED
    BY <2>4
<1>3. IsFold(fold)
  BY <1>2
<1>4. Folded(base, s) = fold[1 .. N]
  <2>1. Folded(base, s) = fold[DOMAIN s]
    BY Zenon DEF Folded
  <2> HIDE DEF fold
  <2> QED
    BY <2>1
<1> HIDE DEF fold
<1> DEFINE after == [n \in 0 .. N |-> fold[1 .. n]]
<1>5. after[0] = base
  <2>1. 1 .. 0 = {} /\ {} \in SUBSET DOMAIN s /\ 0 \in 0 .. N
    OBVIOUS
  <2>2. fold[{}] = base
    BY <1>3, <2>1
  <2> QED
    BY <2>1, <2>2
<1>6. ASSUME NEW n \in 1 .. N PROVE after[n] = Op(after[n - 1], s[n])
  <2> DEFINE u == 1 .. n
  <2>1. n \in u /\ \A k \in u : k <= n /\ k \in 1 .. N
    OBVIOUS
  <2>2. u \ {n} = 1 .. n - 1 /\ n - 1 \in 0 .. N /\ n \in 0 .. N
    OBVIOUS
  <2>3. after[n] = fold[u] /\ after[n - 1] = fold[u \ {n}]
    BY <2>2
  <2> HIDE DEF u, after
  <2>7. u \in SUBSET (1 .. N) /\ u # {}
    BY <2>1
  <2>4. Greatest(u) \in u /\ \A k \in u : k <= Greatest(u)
    BY <2>7, GreatestOf
  <2>5. Greatest(u) = n
    <3> DEFINE m == Greatest(u)
    <3>1. m \in u /\ n <= m /\ m <= n /\ m \in 1 .. N
      BY <2>1, <2>4
    <3> HIDE DEF m
    <3>2. m = n
      BY <3>1
    <3> QED
      BY <3>2 DEF m
  <2>6. fold[u] = Op(fold[u \ {Greatest(u)}], s[Greatest(u)])
    BY <1>3, <2>7
  <2> QED
    BY <2>3, <2>5, <2>6
<1>7. after \in [0 .. N -> S]
  <2> DEFINE typed == {n \in 0 .. N : after[n] \in S}
  <2> HIDE DEF after
  <2>1. 0 \in typed
    BY <1>5
  <2>2. \A n \in 1 .. N : n - 1 \in typed => n \in typed
    BY <1>6
  <2> HIDE DEF typed
  <2>3. 0 .. N \subseteq typed
    BY <2>1, <2>2, UpTo
  <2>4. \A n \in 0 .. N : after[n] \in S
    BY <2>3 DEF typed
  <2> QED
    BY <2>4 DEF after
<1>8. after[N] = Folded(base, s)
  BY <1>4
<1> HIDE DEF after
<1> QED
  BY <1>5, <1>6, <1>7, <1>8 DEF Follows, InSteps

\* So it ends there.
LEMMA FoldStays ==
    ASSUME NEW S, NEW base \in S, NEW N \in Nat, NEW s, DOMAIN s = 1 .. N,
           \A x \in S, n \in 1 .. N : Op(x, s[n]) \in S
    PROVE  Folded(base, s) \in S
<1>1. PICK after \in [0 .. N -> S] : Folded(base, s) = after[N]
  BY FoldSteps DEF InSteps
<1> QED
  BY <1>1

\* The last element is taken by a state of S.
LEMMA FoldLast ==
    ASSUME NEW S, NEW base \in S, NEW N \in Nat \ {0}, NEW s, DOMAIN s = 1 .. N,
           \A x \in S, n \in 1 .. N : Op(x, s[n]) \in S
    PROVE  \E x \in S : Folded(base, s) = Op(x, s[N])
<1>1. InSteps(S, N, base, s)
  BY FoldSteps
<1>2. PICK after \in [0 .. N -> S] : Follows(N, base, s, after) /\ Folded(base, s) = after[N]
  BY <1>1 DEF InSteps
<1>3. N \in 1 .. N /\ N - 1 \in 0 .. N
  OBVIOUS
<1>4. after[N] = Op(after[N - 1], s[N]) /\ after[N - 1] \in S
  BY <1>2, <1>3 DEF Follows
<1> QED
  BY <1>2, <1>4

\* And the only one by the base.
LEMMA FoldOnce ==
    ASSUME NEW S, NEW base \in S, NEW s, DOMAIN s = {1},
           \A x \in S : Op(x, s[1]) \in S
    PROVE  Folded(base, s) = Op(base, s[1])
<1> DEFINE N == 1
<1>1. N \in Nat /\ 1 .. N = {1}
  OBVIOUS
<1>2. DOMAIN s = 1 .. N
  BY <1>1
<1>5. \A x \in S, n \in 1 .. N : Op(x, s[n]) \in S
  BY <1>1
<1> HIDE DEF N
<1>3. PICK after \in [0 .. N -> S] : Follows(N, base, s, after) /\ Folded(base, s) = after[N]
  <2>1. InSteps(S, N, base, s)
    BY <1>1, <1>2, <1>5, FoldSteps
  <2> QED
    BY <2>1 DEF InSteps
<1>4. after[1] = Op(after[1 - 1], s[1]) /\ after[0] = base
  BY <1>1, <1>3 DEF Follows
<1> QED
  BY <1>3, <1>4 DEF N
===============================================================================
