----------------------------- MODULE FoldInduction -----------------------------
(***************************************************************************)
(* Induction, and what FoldLeft computes.  The theorems of the library     *)
(* that say so take an operator as a parameter, which no prover here can   *)
(* instantiate; these speak of sets, and of the operator `Op` that this     *)
(* module is instantiated with, once for each fold that is reasoned about.  *)
(***************************************************************************)
EXTENDS Sequences, Folds, WellFoundedInduction

CONSTANT Op(_, _)

\* These three are the definitions of FiniteSetsExt and SequencesExt.  Extending
\* those modules would copy all that they define into every instance.
Max(S) == CHOOSE x \in S : \A y \in S : x >= y

ToSet(s) == {s[i] : i \in DOMAIN s}

FlattenSeq(seqs) ==
  IF Len(seqs) = 0 THEN seqs
  ELSE LET flatten[i \in 1..Len(seqs)] == IF i = 1 THEN seqs[i] ELSE flatten[i - 1] \o seqs[i]
       IN  flatten[Len(seqs)]

\* FoldLeft(Op, base, seq) of SequencesExt.
Folded(base, seq) ==
  MapThenFoldSet(LAMBDA x, y : Op(y, x), base, LAMBDA i : seq[i], LAMBDA S : Max(S), DOMAIN seq)

\* A set of numbers that is not empty has a least one.
LEMMA LeastNumber ==
  ASSUME NEW T \in SUBSET Nat, T # {}
  PROVE  \E n \in T : \A m \in T : n <= m
<1>1. IsWellFoundedOn(OpToRel(<, Nat), Nat)
  BY NatLessThanWellFounded
<1>2. PICK n \in T : \A m \in T : <<m, n>> \notin OpToRel(<, Nat)
  BY <1>1, WFMin
<1>3. \A m \in T : ~(m < n)
  BY <1>2 DEF OpToRel
<1> QED
  BY <1>3

\* A set that has 0, and each number up to n with the one before it, has n.
LEMMA Induction ==
  ASSUME NEW n \in Nat, NEW T, 0 \in T, \A i \in 1..n : i - 1 \in T => i \in T
  PROVE  n \in T
<1> DEFINE Missing == {i \in 0..n : i \notin T}
<1> SUFFICES ASSUME n \notin T PROVE FALSE
  OBVIOUS
<1>1. n \in Missing /\ Missing \in SUBSET Nat
  OBVIOUS
<1>2. PICK i \in Missing : \A j \in Missing : i <= j
  <2> HIDE DEF Missing
  <2> QED
    BY <1>1, LeastNumber
<1>3. i \in 1..n /\ i - 1 \in 0..n /\ i - 1 \notin Missing
  BY <1>2
<1> QED
  BY <1>2, <1>3

\* The greatest of some numbers up to n.
LEMMA Greatest ==
  ASSUME NEW n \in Nat, NEW S \in SUBSET (1..n), S # {}
  PROVE  Max(S) \in S /\ \A i \in S : i <= Max(S)
<1> DEFINE Distances == {n - i : i \in S}
<1>1. Distances \in SUBSET Nat /\ Distances # {}
  <2>1. \A i \in S : n - i \in Nat
    OBVIOUS
  <2>2. PICK i : i \in S
    OBVIOUS
  <2>3. n - i \in Distances
    BY <2>2
  <2> QED
    BY <2>1, <2>3
<1>2. PICK d \in Distances : \A e \in Distances : d <= e
  <2> HIDE DEF Distances
  <2> QED
    BY <1>1, LeastNumber
<1>3. PICK i \in S : d = n - i
  OBVIOUS
<1>4. \A j \in S : i >= j
  <2> SUFFICES ASSUME NEW j \in S PROVE i >= j
    OBVIOUS
  <2>1. n - j \in Distances
    OBVIOUS
  <2>2. d <= n - j
    BY <1>2, <2>1
  <2> QED
    BY <1>3, <2>2
<1>5. \E x \in S : \A y \in S : x >= y
  BY <1>4
<1>6. Max(S) \in S /\ \A y \in S : Max(S) >= y
  BY <1>5 DEF Max
<1> QED
  BY <1>6

Defines(g, base, seq, D) ==
  g = [S \in SUBSET D |-> IF S = {} THEN base ELSE Op(g[S \ {Max(S)}], seq[Max(S)])]

\* The function that FoldLeft chooses exists.
LEMMA FoldDefined ==
  ASSUME NEW base, NEW seq, NEW n \in Nat
  PROVE  \E g : Defines(g, base, seq, 1..n)
<1> DEFINE T == {k \in 0..n : \E g : Defines(g, base, seq, 1..k)}
<1>1. 0 \in T
  <2> DEFINE g == [S \in SUBSET (1..0) |-> base]
  <2>1. \A S \in SUBSET (1..0) : S = {}
    OBVIOUS
  <2>2. g = [S \in SUBSET (1..0) |-> IF S = {} THEN base ELSE Op(g[S \ {Max(S)}], seq[Max(S)])]
    BY <2>1
  <2>3. Defines(g, base, seq, 1..0)
    BY <2>2 DEF Defines
  <2> HIDE DEF g
  <2> QED
    BY <2>3
<1>2. ASSUME NEW k \in 1..n, k - 1 \in T PROVE k \in T
  <2>1. PICK g : Defines(g, base, seq, 1..(k - 1))
    BY <1>2
  <2> DEFINE h == [S \in SUBSET (1..k) |->
                     IF k \in S THEN Op(g[S \ {k}], seq[k]) ELSE g[S]]
  <2>2. ASSUME NEW S \in SUBSET (1..k)
        PROVE  h[S] = IF S = {} THEN base ELSE Op(h[S \ {Max(S)}], seq[Max(S)])
    <3>1. CASE k \in S
      <4>1. Max(S) = k
        <5>1. k \in Nat /\ S # {}
          BY <3>1
        <5>2. Max(S) \in S /\ \A i \in S : i <= Max(S)
          BY <5>1, Greatest
        <5>3. Max(S) \in 1..k /\ k <= Max(S)
          BY <3>1, <5>2
        <5> QED
          BY <5>1, <5>3
      <4>2. h[S \ {k}] = g[S \ {k}]
        OBVIOUS
      <4> QED
        BY <3>1, <4>1, <4>2
    <3>2. CASE k \notin S
      <4>1. S \in SUBSET (1..(k - 1))
        BY <3>2
      <4>2. h[S] = g[S]
        BY <3>2
      <4>3. CASE S = {}
        <5>1. g[S] = base
          BY <2>1, <4>1, <4>3 DEF Defines
        <5> QED
          BY <4>2, <4>3, <5>1
      <4>4. CASE S # {}
        <5>1. g[S] = Op(g[S \ {Max(S)}], seq[Max(S)])
          BY <2>1, <4>1, <4>4 DEF Defines
        <5>2. h[S \ {Max(S)}] = g[S \ {Max(S)}]
          BY <3>2
        <5> QED
          BY <4>2, <4>4, <5>1, <5>2
      <4> QED
        BY <4>3, <4>4
    <3> QED
      BY <3>1, <3>2
  <2>3. Defines(h, base, seq, 1..k)
    <3>1. h = [S \in SUBSET (1..k) |-> h[S]]
      OBVIOUS
    <3> HIDE DEF h
    <3> QED
      BY <2>2, <3>1 DEF Defines
  <2> HIDE DEF h
  <2> QED
    BY <2>3
<1> HIDE DEF T
<1>3. n \in T
  BY <1>1, <1>2, Induction
<1> QED
  BY <1>3 DEF T

\* What has been folded up to each element, and in the end.
LEMMA FoldSteps ==
  ASSUME NEW base, NEW seq, NEW n \in Nat, DOMAIN seq = 1..n
  PROVE  \E h : /\ h[0] = base
                /\ \A i \in 1..n : h[i] = Op(h[i - 1], seq[i])
                /\ Folded(base, seq) = h[n]
<1> DEFINE g == CHOOSE g : Defines(g, base, seq, 1..n)
<1>1. Defines(g, base, seq, 1..n)
  BY FoldDefined
<1>2. Folded(base, seq) = g[1..n]
  BY DEF Folded, MapThenFoldSet, Defines
<1> HIDE DEF g
<1> DEFINE h == [i \in 0..n |-> g[1..i]]
<1>3. h[0] = base
  <2>1. 1..0 = {} /\ {} \in SUBSET (1..n)
    OBVIOUS
  <2>2. g[{}] = base
    BY <1>1, <2>1 DEF Defines
  <2> QED
    BY <2>1, <2>2
<1>4. ASSUME NEW i \in 1..n PROVE h[i] = Op(h[i - 1], seq[i])
  <2>1. 1..i \in SUBSET (1..n) /\ 1..i # {} /\ i \in 1..i
    OBVIOUS
  <2>2. Max(1..i) = i
    <3>1. Max(1..i) \in 1..i /\ \A j \in 1..i : j <= Max(1..i)
      BY <2>1, Greatest
    <3> QED
      BY <2>1, <3>1
  <2>3. (1..i) \ {i} = 1..(i - 1)
    OBVIOUS
  <2>4. g[1..i] = Op(g[1..(i - 1)], seq[i])
    BY <1>1, <2>1, <2>2, <2>3 DEF Defines
  <2> QED
    BY <2>4
<1>5. h[n] = g[1..n]
  OBVIOUS
<1> HIDE DEF h
<1> QED
  BY <1>2, <1>3, <1>4, <1>5

\* The same, with the steps as one predicate.
Stepped(h, base, seq, n) ==
  /\ h[0] = base
  /\ \A i \in 1..n : h[i] = Op(h[i - 1], seq[i])
  /\ Folded(base, seq) = h[n]

LEMMA FoldStepped ==
  ASSUME NEW base, NEW seq, NEW n \in Nat, DOMAIN seq = 1..n
  PROVE  \E h : Stepped(h, base, seq, n)
BY FoldSteps DEF Stepped

\* What a fold offers that takes an element `c[i]` for each of the sequence,
\* unless the element is among those to skip, or like one that was taken.
Offers(F, n, c, Skips, Like) ==
  /\ F \in Seq({c[i] : i \in 1..n}) /\ Len(F) <= n
  /\ \A k \in 1..Len(F) : \E i \in (1..n) \ Skips : F[k] = c[i]
  /\ \A i \in (1..n) \ Skips : \E k \in 1..Len(F) : F[k] = c[i] \/ <<F[k], i>> \in Like

OffersStep(before, after, i, c, Skips, Like) ==
  \/ /\ i \in Skips \/ (\E k \in 1..Len(before) : <<before[k], i>> \in Like)
     /\ after = before
  \/ i \notin Skips /\ after = Append(before, c[i])

LEMMA FoldOffers ==
  ASSUME NEW seq, NEW n \in Nat, DOMAIN seq = 1..n, NEW c, NEW Skips, NEW Like,
         \A s \in Seq({c[i] : i \in 1..n}), i \in 1..n :
           OffersStep(s, Op(s, seq[i]), i, c, Skips, Like)
  PROVE  Offers(Folded(<<>>, seq), n, c, Skips, Like)
<1> DEFINE C == {c[i] : i \in 1..n}
<1>1. PICK h : Stepped(h, <<>>, seq, n)
  BY FoldStepped
<1>2. h[0] = <<>> /\ (\A i \in 1..n : h[i] = Op(h[i - 1], seq[i])) /\ Folded(<<>>, seq) = h[n]
  BY <1>1 DEF Stepped
<1> DEFINE Some(k) == \A j \in 1..Len(h[k]) : \E i \in (1..n) \ Skips : h[k][j] = c[i]
           All(k) == \A i \in (1..k) \ Skips :
                       \E j \in 1..Len(h[k]) : h[k][j] = c[i] \/ <<h[k][j], i>> \in Like
           Good(k) == h[k] \in Seq(C) /\ Len(h[k]) <= k /\ Some(k) /\ All(k)
           T == {k \in 0..n : Good(k)}
<1>3. 0 \in T
  <2>1. h[0] \in Seq(C) /\ Len(h[0]) = 0 /\ 1..0 = {} /\ 0 \in 0..n
    BY <1>2
  <2>2. Good(0)
    BY <2>1
  <2> HIDE DEF Good
  <2> QED
    BY <2>1, <2>2
<1>4. ASSUME NEW k \in 1..n, k - 1 \in T PROVE k \in T
  <2> DEFINE s == h[k - 1]
             t == h[k]
  <2>1. s \in Seq(C) /\ Len(s) <= k - 1 /\ Some(k - 1) /\ All(k - 1) /\ t = Op(s, seq[k])
    BY <1>2, <1>4
  <2>2. OffersStep(s, t, k, c, Skips, Like)
    BY <2>1
  <2>3. ASSUME k \in Skips \/ (\E j \in 1..Len(s) : <<s[j], k>> \in Like), t = s
        PROVE  Good(k)
    <3>1. t \in Seq(C) /\ Len(t) <= k /\ Some(k)
      BY <2>1, <2>3
    <3>2. All(k)
      BY <2>1, <2>3
    <3> QED
      BY <3>1, <3>2
  <2>4. ASSUME k \notin Skips, t = Append(s, c[k])
        PROVE  Good(k)
    <3>1. c[k] \in C
      OBVIOUS
    <3> HIDE DEF C
    <3>2. /\ t \in Seq(C) /\ Len(t) = Len(s) + 1 /\ t[Len(t)] = c[k]
          /\ \A j \in 1..Len(s) : t[j] = s[j]
      BY <2>1, <2>4, <3>1
    <3>3. Len(s) \in Nat
      BY <2>1
    <3> HIDE DEF s, t
    <3>4. Some(k)
      <4> SUFFICES ASSUME NEW j \in 1..Len(t) PROVE \E i \in (1..n) \ Skips : t[j] = c[i]
        BY DEF t
      <4>1. CASE j \in 1..Len(s)
        BY <2>1, <3>2, <4>1 DEF s
      <4>2. CASE j = Len(t)
        BY <2>4, <3>2, <4>2
      <4> QED
        BY <3>2, <3>3, <4>1, <4>2
    <3>5. All(k)
      <4> SUFFICES ASSUME NEW i \in (1..k) \ Skips
                   PROVE  \E j \in 1..Len(t) : t[j] = c[i] \/ <<t[j], i>> \in Like
        BY DEF t
      <4>1. CASE i = k
        <5>1. Len(t) \in 1..Len(t)
          BY <3>2, <3>3
        <5> QED
          BY <3>2, <4>1, <5>1
      <4>2. CASE i # k
        <5>1. PICK j \in 1..Len(s) : s[j] = c[i] \/ <<s[j], i>> \in Like
          BY <2>1, <4>2 DEF s
        <5>2. j \in 1..Len(t) /\ t[j] = s[j]
          BY <3>2, <3>3
        <5> QED
          BY <5>1, <5>2
      <4> QED
        BY <4>1, <4>2
    <3>6. t \in Seq(C) /\ Len(t) <= k
      BY <2>1, <3>2, <3>3
    <3> QED
      BY <3>4, <3>5, <3>6 DEF t
  <2>5. Good(k)
    <3> HIDE DEF Good, s, t
    <3> QED
      BY <2>2, <2>3, <2>4 DEF OffersStep
  <2> HIDE DEF Good
  <2> QED
    BY <2>5
<1> HIDE DEF T
<1>5. n \in T
  BY <1>3, <1>4, Induction
<1>6. Good(n)
  BY <1>5 DEF T
<1> QED
  BY <1>2, <1>6 DEF Offers

-----------------------------------------------------------------------------
(* Sequences put one after another.                                         *)

Flattens(f, seqs, n) ==
  f = [i \in 1..n |-> IF i = 1 THEN seqs[i] ELSE f[i - 1] \o seqs[i]]

\* The function that FlattenSeq chooses exists.
LEMMA FlattenDefined ==
  ASSUME NEW seqs, NEW n \in Nat
  PROVE  \E f : Flattens(f, seqs, n)
<1> DEFINE T == {k \in 0..n : \E f : Flattens(f, seqs, k)}
<1>1. 0 \in T
  <2> DEFINE f == [i \in 1..0 |-> seqs[i]]
  <2>1. f = [i \in 1..0 |-> IF i = 1 THEN seqs[i] ELSE f[i - 1] \o seqs[i]]
    OBVIOUS
  <2>2. Flattens(f, seqs, 0)
    BY <2>1 DEF Flattens
  <2> HIDE DEF f
  <2> QED
    BY <2>2
<1>2. ASSUME NEW k \in 1..n, k - 1 \in T PROVE k \in T
  <2>1. PICK f : Flattens(f, seqs, k - 1)
    BY <1>2
  <2>2. /\ DOMAIN f = 1..(k - 1)
        /\ \A i \in 1..(k - 1) : f[i] = IF i = 1 THEN seqs[i] ELSE f[i - 1] \o seqs[i]
    BY <2>1 DEF Flattens
  <2> DEFINE g == [i \in 1..k |->
                     IF i = k THEN (IF k = 1 THEN seqs[k] ELSE f[k - 1] \o seqs[k]) ELSE f[i]]
  <2>3. ASSUME NEW i \in 1..k
        PROVE  g[i] = IF i = 1 THEN seqs[i] ELSE g[i - 1] \o seqs[i]
    <3>1. CASE i = k
      BY <3>1
    <3>2. CASE i # k
      <4>1. i \in 1..(k - 1) /\ g[i] = f[i]
        BY <3>2
      <4>2. i # 1 => g[i - 1] = f[i - 1]
        BY <3>2
      <4> QED
        BY <2>2, <4>1, <4>2
    <3> QED
      BY <3>1, <3>2
  <2>4. g = [i \in 1..k |-> g[i]]
    OBVIOUS
  <2> HIDE DEF g
  <2>5. Flattens(g, seqs, k)
    BY <2>3, <2>4 DEF Flattens
  <2> QED
    BY <2>5
<1> HIDE DEF T
<1>3. n \in T
  BY <1>1, <1>2, Induction
<1> QED
  BY <1>3 DEF T

LEMMA ToSetSeq ==
  ASSUME NEW S, NEW s \in Seq(S)
  PROVE  ToSet(s) = {s[i] : i \in 1..Len(s)} /\ ToSet(s) \subseteq S /\ s \in Seq(ToSet(s))
BY DEF ToSet

LEMMA ToSetConcat ==
  ASSUME NEW S, NEW s \in Seq(S), NEW t \in Seq(S)
  PROVE  ToSet(s \o t) = ToSet(s) \cup ToSet(t)
<1>1. \A i \in DOMAIN (s \o t) : (s \o t)[i] \in ToSet(s) \cup ToSet(t)
  BY DEF ToSet
<1>2. \A i \in DOMAIN s : i \in DOMAIN (s \o t) /\ (s \o t)[i] = s[i]
  OBVIOUS
<1>3. \A i \in DOMAIN t : Len(s) + i \in DOMAIN (s \o t) /\ (s \o t)[Len(s) + i] = t[i]
  OBVIOUS
<1>4. \A x \in ToSet(s) : x \in ToSet(s \o t)
  BY <1>2 DEF ToSet
<1>5. \A x \in ToSet(t) : x \in ToSet(s \o t)
  BY <1>3 DEF ToSet
<1>6. \A x \in ToSet(s \o t) : x \in ToSet(s) \cup ToSet(t)
  BY <1>1 DEF ToSet
<1> QED
  BY <1>4, <1>5, <1>6

\* What FlattenSeq makes of sequences is a sequence, of all of their elements.
LEMMA FlattenElements ==
  ASSUME NEW S, NEW n \in Nat, NEW seqs \in [1..n -> Seq(S)]
  PROVE  /\ FlattenSeq(seqs) \in Seq(S)
         /\ ToSet(FlattenSeq(seqs)) = UNION {ToSet(seqs[i]) : i \in 1..n}
<1>1. Len(seqs) = n /\ seqs \in Seq(Seq(S))
  OBVIOUS
<1>2. CASE n = 0
  <2>1. FlattenSeq(seqs) = seqs /\ seqs = <<>>
    BY <1>1, <1>2 DEF FlattenSeq
  <2>2. ToSet(<<>>) = {} /\ 1..n = {}
    BY <1>2 DEF ToSet
  <2> QED
    BY <2>1, <2>2
<1>3. CASE n # 0
  <2> DEFINE f == CHOOSE f : Flattens(f, seqs, n)
  <2>1. Flattens(f, seqs, n)
    BY FlattenDefined
  <2>2. FlattenSeq(seqs) = f[n]
    BY <1>1, <1>3 DEF FlattenSeq, Flattens
  <2> HIDE DEF f
  <2>3. \A i \in 1..n : f[i] = IF i = 1 THEN seqs[i] ELSE f[i - 1] \o seqs[i]
    BY <2>1 DEF Flattens
  <2> DEFINE Good(k) == f[k] \in Seq(S) /\ ToSet(f[k]) = UNION {ToSet(seqs[i]) : i \in 1..k}
             T == {k \in 0..n : k = 0 \/ Good(k)}
  <2>4. 0 \in T
    OBVIOUS
  <2>5. ASSUME NEW k \in 1..n, k - 1 \in T PROVE k \in T
    <3>1. CASE k = 1
      <4>1. f[1] = seqs[1] /\ 1..1 = {1} /\ 1 \in 1..n
        BY <2>3, <3>1
      <4>2. UNION {ToSet(seqs[i]) : i \in 1..1} = ToSet(seqs[1])
        BY <4>1
      <4>3. Good(1)
        BY <4>1, <4>2
      <4> QED
        BY <3>1, <4>3
    <3>2. CASE k # 1
      <4>1. Good(k - 1) /\ f[k] = f[k - 1] \o seqs[k]
        <5>1. f[k] = f[k - 1] \o seqs[k]
          BY <2>3, <3>2
        <5>2. k - 1 = 0 \/ Good(k - 1)
          BY <2>5
        <5> QED
          BY <3>2, <5>1, <5>2
      <4>2. f[k] \in Seq(S) /\ ToSet(f[k]) = ToSet(f[k - 1]) \cup ToSet(seqs[k])
        BY <4>1, ToSetConcat
      <4>3. 1..k = (1..(k - 1)) \cup {k}
        OBVIOUS
      <4>4. UNION {ToSet(seqs[i]) : i \in 1..k} =
              (UNION {ToSet(seqs[i]) : i \in 1..(k - 1)}) \cup ToSet(seqs[k])
        BY <4>3
      <4>5. Good(k)
        BY <4>1, <4>2, <4>4
      <4> HIDE DEF Good
      <4> QED
        BY <4>5
    <3> QED
      BY <3>1, <3>2
  <2> HIDE DEF T
  <2>6. n \in T
    BY <2>4, <2>5, Induction
  <2> QED
    BY <1>3, <2>2, <2>6 DEF T
<1> QED
  BY <1>2, <1>3
================================================================================
