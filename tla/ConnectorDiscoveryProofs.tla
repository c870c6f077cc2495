----------------------- MODULE ConnectorDiscoveryProofs -----------------------
(***************************************************************************)
(* For any portals, listings, faults and bounds: every class walks its     *)
(* listing within its bounds, yields no record twice and no more than was  *)
(* asked for, leaves a portal alone that was lost too often, and ends as   *)
(* blocked, failed or incomplete when a gate kept it from a listing.       *)
(***************************************************************************)
EXTENDS ConnectorDiscovery, FiniteSetTheorems, TLAPS

-----------------------------------------------------------------------------
(* Sequences of rows.                                                       *)

Distinct(rows) == \A i, j \in DOMAIN rows : rows[i].id = rows[j].id => i = j

LEMMA SequenceOf ==
  ASSUME NEW S, NEW s \in Seq(S)
  PROVE  IsSequence(s) /\ ToSet(s) \subseteq S
BY DEF IsSequence, ToSet

LEMMA SequenceLength ==
  ASSUME NEW s, IsSequence(s)
  PROVE  Len(s) \in Nat /\ DOMAIN s = 1..Len(s)
BY DEF IsSequence

LEMMA FunctionSequence ==
  ASSUME NEW n \in Nat, NEW s, s = [i \in 1..n |-> s[i]]
  PROVE  IsSequence(s) /\ Len(s) = n
<1>1. \A i \in 1..n : s[i] \in ToSet(s)
  BY DEF ToSet
<1>2. s \in [1..n -> ToSet(s)]
  BY <1>1
<1> HIDE <1>1
<1>3. s \in Seq(ToSet(s))
  BY <1>2
<1> QED
  BY <1>2, <1>3 DEF IsSequence

LEMMA EmptySequence ==
  IsSequence(<<>>) /\ Distinct(<<>>) /\ Ids(<<>>) = {} /\ Len(<<>>) = 0
BY DEF IsSequence, Distinct, Ids, ToSet

LEMMA Appended ==
  ASSUME NEW s, IsSequence(s), NEW x
  PROVE  /\ IsSequence(Append(s, x)) /\ Len(Append(s, x)) = Len(s) + 1 /\ Append(s, x) # <<>>
         /\ Ids(Append(s, x)) = Ids(s) \cup {x.id}
         /\ Distinct(s) /\ x.id \notin Ids(s) => Distinct(Append(s, x))
<1> DEFINE t == Append(s, x)
<1>1. s \in Seq(ToSet(s) \cup {x}) /\ Len(s) \in Nat
  BY DEF IsSequence
<1>2. t \in Seq(ToSet(s) \cup {x}) /\ Len(t) = Len(s) + 1
  BY <1>1
<1>3. /\ DOMAIN t = 1..(Len(s) + 1) /\ DOMAIN s = 1..Len(s)
      /\ \A i \in 1..Len(s) : t[i] = s[i]
      /\ t[Len(s) + 1] = x
  BY <1>1
<1> HIDE DEF t
<1>4. IsSequence(t)
  BY <1>2, SequenceOf
<1>5. t # <<>>
  BY <1>1, <1>2
<1>6. Ids(t) = Ids(s) \cup {x.id}
  <2>1. \A i \in DOMAIN t : t[i].id \in Ids(s) \cup {x.id}
    BY <1>1, <1>3 DEF Ids
  <2>2. \A i \in DOMAIN s : i \in DOMAIN t /\ t[i].id = s[i].id
    BY <1>1, <1>3
  <2>3. Len(s) + 1 \in DOMAIN t /\ t[Len(s) + 1].id = x.id
    BY <1>1, <1>3
  <2> QED
    BY <2>1, <2>2, <2>3 DEF Ids
<1>7. ASSUME Distinct(s), x.id \notin Ids(s) PROVE Distinct(t)
  <2> SUFFICES ASSUME NEW i \in DOMAIN t, NEW j \in DOMAIN t, t[i].id = t[j].id PROVE i = j
    BY DEF Distinct
  <2>1. \A k \in DOMAIN s : s[k].id # x.id
    BY <1>7 DEF Ids
  <2>2. CASE i \in DOMAIN s /\ j \in DOMAIN s
    BY <1>3, <1>7, <2>2 DEF Distinct
  <2>3. CASE i \in DOMAIN s /\ j \notin DOMAIN s
    <3>1. j = Len(s) + 1
      BY <1>1, <1>3, <2>3
    <3> QED
      BY <1>3, <2>1, <2>3, <3>1
  <2>4. CASE i \notin DOMAIN s /\ j \in DOMAIN s
    <3>1. i = Len(s) + 1
      BY <1>1, <1>3, <2>4
    <3> QED
      BY <1>3, <2>1, <2>4, <3>1
  <2>5. CASE i \notin DOMAIN s /\ j \notin DOMAIN s
    BY <1>1, <1>3, <2>5
  <2> QED
    BY <2>2, <2>3, <2>4, <2>5
<1> QED
  BY <1>2, <1>4, <1>5, <1>6, <1>7 DEF t

LEMMA Tailed ==
  ASSUME NEW s, IsSequence(s), s # <<>>
  PROVE  /\ IsSequence(Tail(s))
         /\ Head(s).id \in Ids(s) /\ Ids(Tail(s)) \subseteq Ids(s)
         /\ Distinct(s) => Distinct(Tail(s)) /\ Head(s).id \notin Ids(Tail(s))
<1> DEFINE t == Tail(s)
<1>1. s \in Seq(ToSet(s)) /\ Len(s) \in Nat \ {0} /\ DOMAIN s = 1..Len(s)
  BY DEF IsSequence
<1>2. t \in Seq(ToSet(s)) /\ Len(t) = Len(s) - 1 /\ DOMAIN t = 1..(Len(s) - 1)
  BY <1>1
<1>3. \A i \in DOMAIN t : i + 1 \in DOMAIN s /\ t[i] = s[i + 1]
  BY <1>1, <1>2
<1>4. Head(s) = s[1] /\ 1 \in DOMAIN s
  BY <1>1
<1> HIDE DEF t
<1>5. IsSequence(t)
  BY <1>2, SequenceOf
<1>6. Head(s).id \in Ids(s)
  BY <1>4 DEF Ids
<1>7. Ids(t) \subseteq Ids(s)
  BY <1>3 DEF Ids
<1>8. ASSUME Distinct(s) PROVE Distinct(t) /\ Head(s).id \notin Ids(t)
  <2>1. \A i, j \in DOMAIN t : t[i].id = t[j].id => i + 1 = j + 1
    BY <1>3, <1>8 DEF Distinct
  <2>2. \A i \in DOMAIN t : i \in Nat
    BY <1>2
  <2>3. \A i, j \in DOMAIN t : t[i].id = t[j].id => i = j
    BY <2>1, <2>2
  <2>4. \A i \in DOMAIN t : t[i].id # s[1].id
    <3> SUFFICES ASSUME NEW i \in DOMAIN t, t[i].id = s[1].id PROVE FALSE
      OBVIOUS
    <3>1. i + 1 = 1
      BY <1>3, <1>4, <1>8 DEF Distinct
    <3>2. i \in 1..(Len(s) - 1)
      BY <1>2
    <3> QED
      BY <1>1, <3>1, <3>2
  <2> QED
    BY <1>4, <2>3, <2>4 DEF Distinct, Ids
<1> QED
  BY <1>5, <1>6, <1>7, <1>8 DEF t

First == INSTANCE FoldInduction WITH Op <- KeepFirst

LEMMA OfPages ==
  ASSUME NEW S, NEW n \in Nat, NEW seqs \in [1..n -> Seq(S)]
  PROVE  /\ FlattenSeq(seqs) \in Seq(S)
         /\ ToSet(FlattenSeq(seqs)) = UNION {ToSet(seqs[i]) : i \in 1..n}
<1>1. FlattenSeq(seqs) = First!FlattenSeq(seqs)
  BY DEF FlattenSeq, First!FlattenSeq
<1>2. \A t : ToSet(t) = First!ToSet(t)
  BY DEF ToSet, First!ToSet
<1>3. /\ First!FlattenSeq(seqs) \in Seq(S)
      /\ First!ToSet(First!FlattenSeq(seqs)) = UNION {First!ToSet(seqs[i]) : i \in 1..n}
  BY First!FlattenElements
<1> QED
  BY <1>1, <1>2, <1>3

LEMMA Concatenated ==
  ASSUME NEW s, IsSequence(s), NEW x
  PROVE  s \o <<>> = s /\ s \o <<x>> = Append(s, x)
<1>1. s \in Seq(ToSet(s) \cup {x}) /\ <<x>> \in Seq(ToSet(s) \cup {x})
  BY DEF IsSequence
<1>2. s \o <<>> = s
  BY <1>1
<1>3. /\ s \o <<x>> \in Seq(ToSet(s) \cup {x}) /\ Append(s, x) \in Seq(ToSet(s) \cup {x})
      /\ Len(s \o <<x>>) = Len(s) + 1 /\ Len(Append(s, x)) = Len(s) + 1
      /\ \A i \in 1..(Len(s) + 1) : (s \o <<x>>)[i] = Append(s, x)[i]
  BY <1>1
<1> QED
  BY <1>2, <1>3

\* Rows taken out leave the others as they are.
LEMMA WithoutRows ==
  ASSUME NEW rows, IsSequence(rows), NEW ids
  PROVE  /\ IsSequence(Without(rows, ids))
         /\ Ids(Without(rows, ids)) = Ids(rows) \ ids
         /\ Distinct(rows) => Distinct(Without(rows, ids))
<1> DEFINE n == Len(rows)
           seqs == [i \in DOMAIN rows |-> IF rows[i].id \in ids THEN <<>> ELSE <<rows[i]>>]
           w == FlattenSeq(seqs)
           S == ToSet(rows)
<1>1. n \in Nat /\ DOMAIN rows = 1..n
  BY SequenceLength
<1>2. \A i \in 1..n : rows[i] \in S
  BY <1>1 DEF ToSet
<1>3. /\ DOMAIN seqs = 1..n
      /\ \A i \in 1..n : seqs[i] = IF rows[i].id \in ids THEN <<>> ELSE <<rows[i]>>
      /\ seqs = [i \in 1..n |-> seqs[i]]
  BY <1>1
<1>4. w = Without(rows, ids)
  BY DEF Without
<1> HIDE DEF n, seqs, S
<1>5. ASSUME NEW i \in 1..n PROVE seqs[i] \in Seq(S)
  <2>1. <<rows[i]>> \in Seq(S)
    BY <1>2
  <2>2. seqs[i] = <<>> \/ seqs[i] = <<rows[i]>>
    BY <1>3
  <2>3. <<>> \in Seq(S)
    OBVIOUS
  <2> QED
    BY <2>1, <2>2, <2>3
<1>6. seqs \in [1..n -> Seq(S)]
  BY <1>3, <1>5
<1>7. w \in Seq(S) /\ ToSet(w) = UNION {ToSet(seqs[i]) : i \in 1..n}
  <2>1. /\ FlattenSeq(seqs) \in Seq(S)
        /\ ToSet(FlattenSeq(seqs)) = UNION {ToSet(seqs[i]) : i \in 1..n}
    BY <1>1, <1>6, OfPages
  <2> QED
    BY <2>1
<1>8. Ids(w) = Ids(rows) \ ids
  <2>1. \A x : x \in ToSet(w) <=> \E i \in 1..n : x \in ToSet(seqs[i])
    BY <1>7
  <2>2. \A i \in 1..n : \A x : x \in ToSet(seqs[i]) <=> (rows[i].id \notin ids /\ x = rows[i])
    <3> SUFFICES ASSUME NEW i \in 1..n, NEW x
                 PROVE  x \in ToSet(seqs[i]) <=> (rows[i].id \notin ids /\ x = rows[i])
      OBVIOUS
    <3>1. CASE rows[i].id \in ids
      <4>1. seqs[i] = <<>>
        BY <1>3, <3>1
      <4> QED
        BY <3>1, <4>1 DEF ToSet
    <3>2. CASE rows[i].id \notin ids
      <4>1. seqs[i] = <<rows[i]>>
        BY <1>3, <3>2
      <4> QED
        BY <3>2, <4>1 DEF ToSet
    <3> QED
      BY <3>1, <3>2
  <2>3. \A x : x \in ToSet(w) <=> \E i \in 1..n : rows[i].id \notin ids /\ x = rows[i]
    BY <2>1, <2>2
  <2>4. Ids(w) = {x.id : x \in ToSet(w)}
    BY DEF Ids, ToSet
  <2>5. Ids(rows) = {rows[i].id : i \in 1..n}
    BY <1>1 DEF Ids
  <2> HIDE DEF w
  <2> QED
    BY <2>3, <2>4, <2>5
<1>9. ASSUME Distinct(rows) PROVE Distinct(w)
  <2>1. CASE n = 0
    <3>1. seqs = <<>> /\ Len(seqs) = 0
      BY <1>6, <2>1
    <3>2. w = <<>>
      BY <3>1 DEF FlattenSeq
    <3> QED
      BY <3>2, EmptySequence
  <2>2. CASE n # 0
    <3> DEFINE f == CHOOSE f : First!Flattens(f, seqs, n)
    <3>1. First!Flattens(f, seqs, n)
      BY <1>1, First!FlattenDefined
    <3>2. w = f[n]
      <4>1. Len(seqs) = n
        BY <1>1, <1>6
      <4> QED
        BY <2>2, <4>1 DEF FlattenSeq, First!Flattens
    <3> HIDE DEF f, w
    <3>3. \A i \in 1..n : f[i] = IF i = 1 THEN seqs[i] ELSE f[i - 1] \o seqs[i]
      BY <3>1 DEF First!Flattens
    <3> DEFINE Good(k) == /\ IsSequence(f[k]) /\ Distinct(f[k])
                          /\ Ids(f[k]) \subseteq {rows[i].id : i \in 1..k}
               T == {k \in 0..n : k = 0 \/ Good(k)}
    <3>4. 0 \in T
      BY <1>1
    <3>5. ASSUME NEW k \in 1..n, k - 1 \in T PROVE k \in T
      <4> DEFINE base == IF k = 1 THEN <<>> ELSE f[k - 1]
      <4>1. /\ IsSequence(base) /\ Distinct(base)
            /\ Ids(base) \subseteq {rows[i].id : i \in 1..(k - 1)}
        <5>1. k = 1 \/ Good(k - 1)
          BY <1>1, <3>5
        <5> QED
          BY <5>1, EmptySequence
      <4>2. f[k] = base \/ f[k] = Append(base, rows[k])
        <5>1. base \o <<>> = base /\ base \o <<rows[k]>> = Append(base, rows[k])
          BY <4>1, Concatenated
        <5>2. f[k] = base \o seqs[k]
          <6>1. CASE k = 1
            <7>1. f[k] = seqs[k] /\ base = <<>>
              BY <3>3, <6>1
            <7>2. seqs[k] \in Seq(S)
              BY <1>5
            <7>3. <<>> \o seqs[k] = seqs[k]
              BY <7>2
            <7> HIDE DEF base
            <7> QED
              BY <7>1, <7>3
          <6>2. CASE k # 1
            BY <3>3, <6>2
          <6> QED
            BY <6>1, <6>2
        <5> HIDE DEF base
        <5> QED
          BY <1>3, <5>1, <5>2
      <4> HIDE DEF base
      <4>3. rows[k].id \notin Ids(base)
        <5>1. \A i \in 1..(k - 1) : i \in DOMAIN rows /\ k \in DOMAIN rows /\ i # k
          BY <1>1
        <5>2. \A i \in 1..(k - 1) : rows[i].id # rows[k].id
          BY <1>9, <5>1 DEF Distinct
        <5> QED
          BY <4>1, <5>2
      <4>4. 1..k = (1..(k - 1)) \cup {k}
        BY <1>1
      <4>5. {rows[i].id : i \in 1..k} = {rows[i].id : i \in 1..(k - 1)} \cup {rows[k].id}
        BY <4>4
      <4>6. Good(k)
        BY <4>1, <4>2, <4>3, <4>5, Appended
      <4> HIDE DEF Good
      <4> QED
        BY <4>6
    <3> HIDE DEF T
    <3>6. n \in T
      BY <1>1, <3>4, <3>5, First!Induction
    <3> QED
      BY <2>2, <3>2, <3>6 DEF T
  <2> QED
    BY <2>1, <2>2
<1>10. IsSequence(w)
  BY <1>7, SequenceOf
<1> HIDE DEF w
<1> QED
  BY <1>4, <1>8, <1>9, <1>10

LEMMA Trimmed ==
  ASSUME NEW rows, IsSequence(rows)
  PROVE  /\ IsSequence(Known(rows)) /\ IsSequence(UsableRows(rows))
         /\ Distinct(rows) => Distinct(Known(rows)) /\ Distinct(UsableRows(rows))
BY WithoutRows DEF Known, UsableRows

LEMMA Filtered ==
  ASSUME NEW rows, IsSequence(rows), Distinct(rows), NEW wanted, NEW criteria
  PROVE  /\ IsSequence(Meeting(rows, wanted, criteria))
         /\ Distinct(Meeting(rows, wanted, criteria))
         /\ Ids(Meeting(rows, wanted, criteria)) \subseteq Ids(rows)
BY WithoutRows DEF Meeting

-----------------------------------------------------------------------------
(* Rows kept by their identifiers.                                          *)

LEMMA Replaced ==
  ASSUME NEW held, IsSequence(held), NEW t, DOMAIN t = DOMAIN held,
         t = [i \in DOMAIN held |-> t[i]],
         \A i \in DOMAIN held : t[i].id = held[i].id
  PROVE  IsSequence(t) /\ (Distinct(held) => Distinct(t)) /\ Ids(t) = Ids(held)
<1>1. Len(held) \in Nat /\ DOMAIN held = 1..Len(held)
  BY SequenceLength
<1>2. IsSequence(t)
  BY <1>1, FunctionSequence
<1>3. Distinct(held) => Distinct(t)
  BY DEF Distinct
<1>4. Ids(t) = Ids(held)
  BY DEF Ids
<1> QED
  BY <1>2, <1>3, <1>4

LEMMA KeptOne ==
  ASSUME NEW held, IsSequence(held), Distinct(held), NEW row
  PROVE  /\ IsSequence(KeepFirst(held, row)) /\ Distinct(KeepFirst(held, row))
         /\ IsSequence(KeepLast(held, row)) /\ Distinct(KeepLast(held, row))
         /\ IsSequence(KeepNewest(held, row)) /\ Distinct(KeepNewest(held, row))
<1>1. CASE row.id \notin Ids(held)
  BY <1>1, Appended DEF KeepFirst, KeepLast, KeepNewest
<1>2. CASE row.id \in Ids(held)
  <2> DEFINE t == [i \in DOMAIN held |-> IF held[i].id = row.id THEN row ELSE held[i]]
             u == [i \in DOMAIN held |->
                     IF held[i].id = row.id /\ held[i].round < row.round THEN row ELSE held[i]]
  <2>1. /\ DOMAIN t = DOMAIN held /\ t = [i \in DOMAIN held |-> t[i]]
        /\ \A i \in DOMAIN held : t[i].id = held[i].id
    OBVIOUS
  <2>2. /\ DOMAIN u = DOMAIN held /\ u = [i \in DOMAIN held |-> u[i]]
        /\ \A i \in DOMAIN held : u[i].id = held[i].id
    OBVIOUS
  <2>3. KeepFirst(held, row) = held /\ KeepLast(held, row) = t /\ KeepNewest(held, row) = u
    BY <1>2 DEF KeepFirst, KeepLast, KeepNewest
  <2> HIDE DEF t, u
  <2>4. IsSequence(t) /\ Distinct(t) /\ IsSequence(u) /\ Distinct(u)
    BY <2>1, <2>2, Replaced
  <2> QED
    BY <2>3, <2>4
<1> QED
  BY <1>1, <1>2

LEMMA KeepFirstAll ==
  ASSUME NEW held, IsSequence(held), Distinct(held), NEW rows, IsSequence(rows)
  PROVE  IsSequence(FoldLeft(KeepFirst, held, rows)) /\ Distinct(FoldLeft(KeepFirst, held, rows))
<1> DEFINE n == Len(rows)
           total == FoldLeft(KeepFirst, held, rows)
<1>1. n \in Nat /\ DOMAIN rows = 1..n
  BY SequenceLength
<1>2. total = First!Folded(held, rows)
  BY DEF First!Folded, FoldLeft, MapThenFoldSet, First!MapThenFoldSet, Max, First!Max
<1> HIDE DEF n, total
<1>3. PICK h : First!Stepped(h, held, rows, n)
  BY <1>1, <1>2, First!FoldStepped
<1>4. /\ h[0] = held
      /\ \A i \in 1..n : h[i] = KeepFirst(h[i - 1], rows[i])
      /\ First!Folded(held, rows) = h[n]
  BY <1>3 DEF First!Stepped
<1> DEFINE Kept(k) == IsSequence(h[k]) /\ Distinct(h[k])
           T == {k \in 0..n : Kept(k)}
<1>5. 0 \in T
  BY <1>1, <1>4
<1>6. ASSUME NEW k \in 1..n, k - 1 \in T PROVE k \in T
  <2>1. Kept(k - 1) /\ h[k] = KeepFirst(h[k - 1], rows[k])
    BY <1>4, <1>6
  <2>2. Kept(k)
    BY <2>1, KeptOne
  <2> HIDE DEF Kept
  <2> QED
    BY <2>2
<1> HIDE DEF T
<1>7. n \in T
  BY <1>1, <1>5, <1>6, First!Induction
<1>8. total = h[n]
  BY <1>2, <1>4
<1> QED
  BY <1>7, <1>8 DEF T, total

Latest == INSTANCE FoldInduction WITH Op <- KeepLast

LEMMA KeepLastAll ==
  ASSUME NEW held, IsSequence(held), Distinct(held), NEW rows, IsSequence(rows)
  PROVE  IsSequence(FoldLeft(KeepLast, held, rows)) /\ Distinct(FoldLeft(KeepLast, held, rows))
<1> DEFINE n == Len(rows)
           total == FoldLeft(KeepLast, held, rows)
<1>1. n \in Nat /\ DOMAIN rows = 1..n
  BY SequenceLength
<1>2. total = Latest!Folded(held, rows)
  BY DEF Latest!Folded, FoldLeft, MapThenFoldSet, Latest!MapThenFoldSet, Max, Latest!Max
<1> HIDE DEF n, total
<1>3. PICK h : Latest!Stepped(h, held, rows, n)
  BY <1>1, <1>2, Latest!FoldStepped
<1>4. /\ h[0] = held
      /\ \A i \in 1..n : h[i] = KeepLast(h[i - 1], rows[i])
      /\ Latest!Folded(held, rows) = h[n]
  BY <1>3 DEF Latest!Stepped
<1> DEFINE Kept(k) == IsSequence(h[k]) /\ Distinct(h[k])
           T == {k \in 0..n : Kept(k)}
<1>5. 0 \in T
  BY <1>1, <1>4
<1>6. ASSUME NEW k \in 1..n, k - 1 \in T PROVE k \in T
  <2>1. Kept(k - 1) /\ h[k] = KeepLast(h[k - 1], rows[k])
    BY <1>4, <1>6
  <2>2. Kept(k)
    BY <2>1, KeptOne
  <2> HIDE DEF Kept
  <2> QED
    BY <2>2
<1> HIDE DEF T
<1>7. n \in T
  BY <1>1, <1>5, <1>6, First!Induction
<1>8. total = h[n]
  BY <1>2, <1>4
<1> QED
  BY <1>7, <1>8 DEF T, total

Newest == INSTANCE FoldInduction WITH Op <- KeepNewest

LEMMA KeepNewestAll ==
  ASSUME NEW held, IsSequence(held), Distinct(held), NEW rows, IsSequence(rows)
  PROVE  IsSequence(FoldLeft(KeepNewest, held, rows)) /\ Distinct(FoldLeft(KeepNewest, held, rows))
<1> DEFINE n == Len(rows)
           total == FoldLeft(KeepNewest, held, rows)
<1>1. n \in Nat /\ DOMAIN rows = 1..n
  BY SequenceLength
<1>2. total = Newest!Folded(held, rows)
  BY DEF Newest!Folded, FoldLeft, MapThenFoldSet, Newest!MapThenFoldSet, Max, Newest!Max
<1> HIDE DEF n, total
<1>3. PICK h : Newest!Stepped(h, held, rows, n)
  BY <1>1, <1>2, Newest!FoldStepped
<1>4. /\ h[0] = held
      /\ \A i \in 1..n : h[i] = KeepNewest(h[i - 1], rows[i])
      /\ Newest!Folded(held, rows) = h[n]
  BY <1>3 DEF Newest!Stepped
<1> DEFINE Kept(k) == IsSequence(h[k]) /\ Distinct(h[k])
           T == {k \in 0..n : Kept(k)}
<1>5. 0 \in T
  BY <1>1, <1>4
<1>6. ASSUME NEW k \in 1..n, k - 1 \in T PROVE k \in T
  <2>1. Kept(k - 1) /\ h[k] = KeepNewest(h[k - 1], rows[k])
    BY <1>4, <1>6
  <2>2. Kept(k)
    BY <2>1, KeptOne
  <2> HIDE DEF Kept
  <2> QED
    BY <2>2
<1> HIDE DEF T
<1>7. n \in T
  BY <1>1, <1>5, <1>6, First!Induction
<1>8. total = h[n]
  BY <1>2, <1>4
<1> QED
  BY <1>7, <1>8 DEF T, total

-----------------------------------------------------------------------------
(* The moves of a run.  `most` bounds what it yields, `stages` are those    *)
(* its class has.                                                            *)

Stages == {"session", "form", "page", "detail"}

Loose(r, limit, most, stages) ==
  /\ DOMAIN r = DOMAIN Idle
  /\ r.state \in {"idle", "asking", "done", "failed"}
  /\ r.stage \in stages \cup {None}
  /\ r.page \in 1..MaxPages + 1
  /\ r.attempt \in 0..MaxRetries
  /\ r.limit = limit
  /\ IsSequence(r.held) /\ IsSequence(r.queue) /\ IsSequence(r.out)
  /\ Len(r.out) <= most

\* Between two requests there is room for a record, and a row to ask about.
Sound(r, limit, most, stages) ==
  /\ Loose(r, limit, most, stages)
  /\ Active(r) => /\ r.stage \in stages
                  /\ Len(r.out) < most
                  /\ r.stage = "detail" => r.queue # <<>>

\* No row is kept, waits, or was yielded twice.
Apart(r) ==
  /\ Distinct(r.held) /\ Distinct(r.queue) /\ Distinct(r.out)
  /\ Ids(r.queue) \cap Ids(r.out) = {}

\* But for its rows and its marks the run is as it was.
Alike(q, r) ==
  /\ DOMAIN q = DOMAIN r /\ q.state = r.state /\ q.stage = r.stage /\ q.page = r.page
  /\ q.attempt = r.attempt /\ q.limit = r.limit /\ q.out = r.out

LEMMA Fields ==
  DOMAIN Idle = {"state", "stage", "page", "attempt", "wake", "limit", "wanted", "held", "queue",
                 "details", "marks", "ends", "renewed", "out", "why"}
BY DEF Idle

LEMMA Numbers ==
  /\ MaxRetries \in Nat /\ Cooldown \in Nat
  /\ MaxPages \in Nat \ {0} /\ MaxDetails \in Nat \ {0} /\ MaxResults \in Nat \ {0}
  /\ PageSize \in Nat \ {0} /\ Threshold \in Nat \ {0}
BY ConnectorBounds

LEMMA LooseAlike ==
  ASSUME NEW r, NEW limit, NEW most, NEW stages, Loose(r, limit, most, stages),
         NEW q, Alike(q, r), IsSequence(q.held), IsSequence(q.queue)
  PROVE  Loose(q, limit, most, stages) /\ (Active(q) <=> Active(r))
BY DEF Loose, Alike, Active

LEMMA DoneFields ==
  ASSUME NEW r, DOMAIN r = DOMAIN Idle
  PROVE  /\ DOMAIN Done(r) = DOMAIN Idle /\ Done(r).state = "done" /\ Done(r).attempt = 0
         /\ Done(r).stage = r.stage /\ Done(r).page = r.page /\ Done(r).limit = r.limit
         /\ Done(r).held = <<>> /\ Done(r).queue = <<>> /\ Done(r).out = r.out
BY Fields DEF Done

LEMMA FailedFields ==
  ASSUME NEW r, DOMAIN r = DOMAIN Idle, NEW why
  PROVE  /\ DOMAIN Failed(r, why) = DOMAIN Idle /\ Failed(r, why).state = "failed"
         /\ Failed(r, why).attempt = 0 /\ Failed(r, why).why = why
         /\ Failed(r, why).stage = r.stage /\ Failed(r, why).page = r.page
         /\ Failed(r, why).limit = r.limit
         /\ Failed(r, why).held = <<>> /\ Failed(r, why).queue = <<>> /\ Failed(r, why).out = r.out
BY DoneFields, Fields DEF Failed

\* A run that ends is sound, and leaves no row behind.
LEMMA Ended ==
  ASSUME NEW r, NEW limit, NEW most, NEW stages, Loose(r, limit, most, stages), NEW why
  PROVE  /\ Sound(Done(r), limit, most, stages) /\ ~Active(Done(r)) /\ Done(r).out = r.out
         /\ Done(r).stage = r.stage /\ Done(r).page = r.page
         /\ Sound(Failed(r, why), limit, most, stages) /\ ~Active(Failed(r, why))
         /\ Failed(r, why).out = r.out
         /\ Failed(r, why).stage = r.stage /\ Failed(r, why).page = r.page
         /\ Distinct(r.out) => Apart(Done(r)) /\ Apart(Failed(r, why))
<1> DEFINE d == Done(r)
           f == Failed(r, why)
<1>1. /\ DOMAIN d = DOMAIN Idle /\ d.state = "done" /\ d.attempt = 0
      /\ d.stage = r.stage /\ d.page = r.page /\ d.limit = r.limit
      /\ d.held = <<>> /\ d.queue = <<>> /\ d.out = r.out
  BY DoneFields DEF Loose
<1>2. /\ DOMAIN f = DOMAIN Idle /\ f.state = "failed" /\ f.attempt = 0
      /\ f.stage = r.stage /\ f.page = r.page /\ f.limit = r.limit
      /\ f.held = <<>> /\ f.queue = <<>> /\ f.out = r.out
  BY FailedFields DEF Loose
<1> HIDE DEF d, f
<1>3. 0 \in 0..MaxRetries
  BY Numbers
<1>4. Sound(d, limit, most, stages) /\ ~Active(d)
  BY <1>1, <1>3, EmptySequence DEF Loose, Sound, Active
<1>5. Sound(f, limit, most, stages) /\ ~Active(f)
  BY <1>2, <1>3, EmptySequence DEF Loose, Sound, Active
<1>6. Distinct(r.out) => Apart(d) /\ Apart(f)
  BY <1>1, <1>2, EmptySequence DEF Apart
<1> QED
  BY <1>1, <1>2, <1>4, <1>5, <1>6 DEF d, f

\* A run that goes on to the next page.
LEMMA Paged ==
  ASSUME NEW r, NEW limit, NEW most, NEW stages, Loose(r, limit, most, stages),
         r.page <= MaxPages, r.stage \in stages, Len(r.out) < most,
         r.stage = "detail" => r.queue # <<>>
  PROVE  /\ Sound(NextPage(r), limit, most, stages)
         /\ NextPage(r).stage = r.stage /\ NextPage(r).page = r.page + 1
         /\ NextPage(r).held = r.held /\ NextPage(r).queue = r.queue /\ NextPage(r).out = r.out
<1> DEFINE q == NextPage(r)
<1>1. /\ DOMAIN q = DOMAIN Idle /\ q.state = r.state /\ q.stage = r.stage /\ q.page = r.page + 1
      /\ q.attempt = 0 /\ q.limit = r.limit
      /\ q.held = r.held /\ q.queue = r.queue /\ q.out = r.out
  BY Fields DEF NextPage, Loose
<1> HIDE DEF q
<1>2. 0 \in 0..MaxRetries /\ r.page + 1 \in 1..MaxPages + 1
  BY Numbers DEF Loose
<1>3. Sound(q, limit, most, stages)
  BY <1>1, <1>2 DEF Loose, Sound, Active
<1> QED
  BY <1>1, <1>3 DEF q

\* A run that goes on to another request.
LEMMA Staged ==
  ASSUME NEW r, NEW limit, NEW most, NEW stages, Loose(r, limit, most, stages),
         NEW stage \in stages, Len(r.out) < most, stage = "detail" => r.queue # <<>>
  PROVE  /\ Sound(ToStage(r, stage), limit, most, stages)
         /\ ToStage(r, stage).stage = stage /\ ToStage(r, stage).page = r.page
         /\ ToStage(r, stage).state = r.state
         /\ ToStage(r, stage).held = r.held /\ ToStage(r, stage).queue = r.queue
         /\ ToStage(r, stage).out = r.out
<1> DEFINE q == ToStage(r, stage)
<1>1. /\ DOMAIN q = DOMAIN Idle /\ q.state = r.state /\ q.stage = stage /\ q.page = r.page
      /\ q.attempt = 0 /\ q.limit = r.limit
      /\ q.held = r.held /\ q.queue = r.queue /\ q.out = r.out
  BY Fields DEF ToStage, Loose
<1> HIDE DEF q
<1>2. 0 \in 0..MaxRetries
  BY Numbers
<1>3. Sound(q, limit, most, stages)
  BY <1>1, <1>2 DEF Loose, Sound, Active
<1> QED
  BY <1>1, <1>3 DEF q

\* A run that yields a row.
LEMMA Yielded ==
  ASSUME NEW r, NEW limit, NEW most, NEW stages, Loose(r, limit, most, stages),
         Len(r.out) + 1 <= most, NEW row, NEW status
  PROVE  /\ Loose(Yield(r, row, status), limit, most, stages)
         /\ Yield(r, row, status).state = r.state /\ Yield(r, row, status).stage = r.stage
         /\ Yield(r, row, status).page = r.page
         /\ Yield(r, row, status).held = r.held /\ Yield(r, row, status).queue = r.queue
         /\ Len(Yield(r, row, status).out) = Len(r.out) + 1 /\ Yield(r, row, status).out # <<>>
         /\ Ids(Yield(r, row, status).out) = Ids(r.out) \cup {row.id}
         /\ Distinct(r.out) /\ row.id \notin Ids(r.out) => Distinct(Yield(r, row, status).out)
<1> DEFINE q == Yield(r, row, status)
           x == [id |-> row.id, round |-> row.round, status |-> status]
<1>1. /\ DOMAIN q = DOMAIN Idle /\ q.state = r.state /\ q.stage = r.stage /\ q.page = r.page
      /\ q.attempt = r.attempt /\ q.limit = r.limit
      /\ q.held = r.held /\ q.queue = r.queue /\ q.out = Append(r.out, x)
  BY Fields DEF Yield, Loose
<1>2. x.id = row.id
  OBVIOUS
<1> HIDE DEF q, x
<1>3. /\ IsSequence(q.out) /\ Len(q.out) = Len(r.out) + 1 /\ q.out # <<>>
      /\ Ids(q.out) = Ids(r.out) \cup {row.id}
      /\ Distinct(r.out) /\ row.id \notin Ids(r.out) => Distinct(q.out)
  BY <1>1, <1>2, Appended DEF Loose
<1>4. Loose(q, limit, most, stages)
  BY <1>1, <1>3 DEF Loose
<1> QED
  BY <1>1, <1>3, <1>4 DEF q

\* A run that takes rows of a page stays sound, and where it was.
Walks(q, r, limit, most, stages) ==
  Sound(q, limit, most, stages) /\ Distinct(q.out) /\ q.stage = r.stage /\ q.page = r.page

Take(r, row, status, bound) ==
  IF Full(Yield(r, row, status), bound) THEN Done(Yield(r, row, status)) ELSE Yield(r, row, status)

LEMMA WalksOn ==
  ASSUME NEW limit, NEW most, NEW stages, NEW r, NEW q, NEW p,
         Walks(q, r, limit, most, stages), Walks(p, q, limit, most, stages)
  PROVE  Walks(p, r, limit, most, stages)
BY DEF Walks

LEMMA FailedRow ==
  ASSUME NEW limit, NEW most, NEW stages, NEW r, Sound(r, limit, most, stages), Distinct(r.out), NEW why
  PROVE  Walks(Failed(r, why), r, limit, most, stages)
<1>1. Loose(r, limit, most, stages)
  BY DEF Sound
<1>2. Sound(Failed(r, why), limit, most, stages)
  BY <1>1, Ended
<1>3. /\ Failed(r, why).out = r.out /\ Failed(r, why).stage = r.stage
      /\ Failed(r, why).page = r.page
  BY <1>1, Ended
<1> QED
  BY <1>2, <1>3 DEF Walks

\* A row is yielded, and the run ends at its bound.
LEMMA Taken ==
  ASSUME NEW limit, NEW most \in Nat, NEW stages, NEW r, Sound(r, limit, most, stages), Active(r),
         Distinct(r.out), NEW bound \in Nat, bound <= most,
         NEW row, row.id \notin Ids(r.out), NEW status
  PROVE  Walks(Take(r, row, status, bound), r, limit, most, stages)
<1> DEFINE q == Take(r, row, status, bound)
           more == Yield(r, row, status)
<1>1. Loose(r, limit, most, stages) /\ Len(r.out) < most /\ Len(r.out) \in Nat
  BY SequenceLength DEF Sound, Loose
<1>2. Len(r.out) + 1 <= most
  BY <1>1
<1>3. Loose(more, limit, most, stages) /\ more.state = r.state
  BY <1>1, <1>2, Yielded
<1>4. more.stage = r.stage /\ more.page = r.page
  BY <1>1, <1>2, Yielded
<1>5. more.queue = r.queue /\ Len(more.out) = Len(r.out) + 1
  BY <1>1, <1>2, Yielded
<1>6. Distinct(more.out)
  BY <1>1, <1>2, Yielded
<1>7. q = IF Full(more, bound) THEN Done(more) ELSE more
  BY DEF Take
<1> HIDE DEF more, q
<1>8. ASSUME Full(more, bound) PROVE Walks(q, r, limit, most, stages)
  <2>1. q = Done(more)
    BY <1>7, <1>8
  <2>2. Sound(Done(more), limit, most, stages)
    BY <1>3, Ended
  <2>3. Done(more).out = more.out /\ Done(more).stage = more.stage /\ Done(more).page = more.page
    BY <1>3, Ended
  <2> QED
    BY <1>4, <1>6, <2>1, <2>2, <2>3 DEF Walks
<1>9. ASSUME ~Full(more, bound) PROVE Walks(q, r, limit, most, stages)
  <2>1. q = more
    BY <1>7, <1>9
  <2>2. Len(more.out) < most
    BY <1>1, <1>5, <1>9 DEF Full
  <2>3. Sound(more, limit, most, stages)
    BY <1>3, <1>4, <1>5, <2>2 DEF Sound, Active
  <2> QED
    BY <1>4, <1>6, <2>1, <2>3 DEF Walks
<1> QED
  BY <1>8, <1>9 DEF q

LEMMA LesserBound ==
  ASSUME NEW limit \in Nat
  PROVE  Lesser(limit, MaxResults) \in Nat
BY Numbers DEF Lesser

-----------------------------------------------------------------------------
(* Classes that yield a page as it arrives: webprocure, oracle, tyler.      *)

LEMMA WebProcureRowWalks ==
  ASSUME NEW limit \in Nat, NEW most \in Nat, limit <= most, NEW stages,
         NEW r, Sound(r, limit, most, stages), Distinct(r.out), NEW row
  PROVE  Walks(WebProcureRow(r, row), r, limit, most, stages)
<1> DEFINE q == WebProcureRow(r, row)
           status == WebProcureStatus(row.says)
<1>1. r.limit = limit
  BY DEF Sound, Loose
<1>2. \/ q = r
      \/ q = Failed(r, "malformed")
      \/ Active(r) /\ row.id \notin Ids(r.out) /\ q = Take(r, row, status, limit)
  BY <1>1 DEF WebProcureRow, Take
<1> HIDE DEF q, status
<1>3. ASSUME Active(r), row.id \notin Ids(r.out), q = Take(r, row, status, limit)
      PROVE  Walks(q, r, limit, most, stages)
  <2>1. limit \in Nat
    BY LesserBound
  <2>2. Walks(Take(r, row, status, limit), r, limit, most, stages)
    BY <1>3, <2>1, Taken
  <2> QED
    BY <1>3, <2>2
<1>4. ASSUME q = r PROVE Walks(q, r, limit, most, stages)
  BY <1>4 DEF Walks
<1>5. Walks(Failed(r, "malformed"), r, limit, most, stages)
  BY FailedRow
<1> QED
  BY <1>2, <1>3, <1>4, <1>5 DEF q

WebProcure == INSTANCE FoldInduction WITH Op <- WebProcureRow

LEMMA WebProcureRowsWalk ==
  ASSUME NEW limit \in Nat, NEW most \in Nat, limit <= most, NEW stages,
         NEW r, Sound(r, limit, most, stages), Distinct(r.out), NEW rows, IsSequence(rows)
  PROVE  Walks(FoldLeft(WebProcureRow, r, rows), r, limit, most, stages)
<1> DEFINE n == Len(rows)
           total == FoldLeft(WebProcureRow, r, rows)
<1>1. n \in Nat /\ DOMAIN rows = 1..n
  BY SequenceLength
<1>2. total = WebProcure!Folded(r, rows)
  BY DEF WebProcure!Folded, FoldLeft, MapThenFoldSet, WebProcure!MapThenFoldSet, Max, WebProcure!Max
<1> HIDE DEF n, total
<1>3. PICK h : WebProcure!Stepped(h, r, rows, n)
  BY <1>1, <1>2, WebProcure!FoldStepped
<1>4. /\ h[0] = r
      /\ \A i \in 1..n : h[i] = WebProcureRow(h[i - 1], rows[i])
      /\ WebProcure!Folded(r, rows) = h[n]
  BY <1>3 DEF WebProcure!Stepped
<1> DEFINE Kept(k) == Walks(h[k], r, limit, most, stages)
           T == {k \in 0..n : Kept(k)}
<1>5. 0 \in T
  BY <1>1, <1>4 DEF Walks
<1>6. ASSUME NEW k \in 1..n, k - 1 \in T PROVE k \in T
  <2>1. Kept(k - 1) /\ h[k] = WebProcureRow(h[k - 1], rows[k])
    BY <1>4, <1>6
  <2>2. Walks(WebProcureRow(h[k - 1], rows[k]), h[k - 1], limit, most, stages)
    BY <2>1, WebProcureRowWalks DEF Walks
  <2>3. Kept(k)
    BY <2>1, <2>2, WalksOn
  <2> HIDE DEF Kept
  <2> QED
    BY <2>3
<1> HIDE DEF T
<1>7. n \in T
  BY <1>1, <1>5, <1>6, First!Induction
<1>8. total = h[n]
  BY <1>2, <1>4
<1> QED
  BY <1>7, <1>8 DEF T, total

LEMMA OracleRowWalks ==
  ASSUME NEW limit \in Nat, NEW most \in Nat, Lesser(limit, MaxResults) <= most, NEW stages,
         NEW r, Sound(r, limit, most, stages), Distinct(r.out), NEW row
  PROVE  Walks(OracleRow(r, row), r, limit, most, stages)
<1> DEFINE q == OracleRow(r, row)
           status == OracleStatus(row.says)
<1>1. r.limit = limit
  BY DEF Sound, Loose
<1>2. \/ q = r
      \/ Active(r) /\ row.id \notin Ids(r.out) /\ q = Take(r, row, status, Lesser(limit, MaxResults))
  BY <1>1 DEF OracleRow, Take, OracleWanted
<1> HIDE DEF q, status
<1>3. ASSUME Active(r), row.id \notin Ids(r.out), q = Take(r, row, status, Lesser(limit, MaxResults))
      PROVE  Walks(q, r, limit, most, stages)
  <2>1. Lesser(limit, MaxResults) \in Nat
    BY LesserBound
  <2>2. Walks(Take(r, row, status, Lesser(limit, MaxResults)), r, limit, most, stages)
    BY <1>3, <2>1, Taken
  <2> QED
    BY <1>3, <2>2
<1>4. ASSUME q = r PROVE Walks(q, r, limit, most, stages)
  BY <1>4 DEF Walks
<1>5. Walks(Failed(r, "malformed"), r, limit, most, stages)
  BY FailedRow
<1> QED
  BY <1>2, <1>3, <1>4, <1>5 DEF q

Oracle == INSTANCE FoldInduction WITH Op <- OracleRow

LEMMA OracleRowsWalk ==
  ASSUME NEW limit \in Nat, NEW most \in Nat, Lesser(limit, MaxResults) <= most, NEW stages,
         NEW r, Sound(r, limit, most, stages), Distinct(r.out), NEW rows, IsSequence(rows)
  PROVE  Walks(FoldLeft(OracleRow, r, rows), r, limit, most, stages)
<1> DEFINE n == Len(rows)
           total == FoldLeft(OracleRow, r, rows)
<1>1. n \in Nat /\ DOMAIN rows = 1..n
  BY SequenceLength
<1>2. total = Oracle!Folded(r, rows)
  BY DEF Oracle!Folded, FoldLeft, MapThenFoldSet, Oracle!MapThenFoldSet, Max, Oracle!Max
<1> HIDE DEF n, total
<1>3. PICK h : Oracle!Stepped(h, r, rows, n)
  BY <1>1, <1>2, Oracle!FoldStepped
<1>4. /\ h[0] = r
      /\ \A i \in 1..n : h[i] = OracleRow(h[i - 1], rows[i])
      /\ Oracle!Folded(r, rows) = h[n]
  BY <1>3 DEF Oracle!Stepped
<1> DEFINE Kept(k) == Walks(h[k], r, limit, most, stages)
           T == {k \in 0..n : Kept(k)}
<1>5. 0 \in T
  BY <1>1, <1>4 DEF Walks
<1>6. ASSUME NEW k \in 1..n, k - 1 \in T PROVE k \in T
  <2>1. Kept(k - 1) /\ h[k] = OracleRow(h[k - 1], rows[k])
    BY <1>4, <1>6
  <2>2. Walks(OracleRow(h[k - 1], rows[k]), h[k - 1], limit, most, stages)
    BY <2>1, OracleRowWalks DEF Walks
  <2>3. Kept(k)
    BY <2>1, <2>2, WalksOn
  <2> HIDE DEF Kept
  <2> QED
    BY <2>3
<1> HIDE DEF T
<1>7. n \in T
  BY <1>1, <1>5, <1>6, First!Induction
<1>8. total = h[n]
  BY <1>2, <1>4
<1> QED
  BY <1>7, <1>8 DEF T, total

LEMMA TylerRowWalks ==
  ASSUME NEW limit \in Nat, NEW most \in Nat, Lesser(limit, MaxResults) <= most, NEW stages,
         NEW r, Sound(r, limit, most, stages), Distinct(r.out), NEW row
  PROVE  Walks(TylerRow(r, row), r, limit, most, stages)
<1> DEFINE q == TylerRow(r, row)
           status == TylerStatus(row.says)
<1>1. r.limit = limit
  BY DEF Sound, Loose
<1>2. \/ q = r
      \/ q = Failed(r, "malformed")
      \/ Active(r) /\ row.id \notin Ids(r.out) /\ q = Take(r, row, status, Lesser(limit, MaxResults))
  BY <1>1 DEF TylerRow, Take
<1> HIDE DEF q, status
<1>3. ASSUME Active(r), row.id \notin Ids(r.out), q = Take(r, row, status, Lesser(limit, MaxResults))
      PROVE  Walks(q, r, limit, most, stages)
  <2>1. Lesser(limit, MaxResults) \in Nat
    BY LesserBound
  <2>2. Walks(Take(r, row, status, Lesser(limit, MaxResults)), r, limit, most, stages)
    BY <1>3, <2>1, Taken
  <2> QED
    BY <1>3, <2>2
<1>4. ASSUME q = r PROVE Walks(q, r, limit, most, stages)
  BY <1>4 DEF Walks
<1>5. Walks(Failed(r, "malformed"), r, limit, most, stages)
  BY FailedRow
<1> QED
  BY <1>2, <1>3, <1>4, <1>5 DEF q

Tyler == INSTANCE FoldInduction WITH Op <- TylerRow

LEMMA TylerRowsWalk ==
  ASSUME NEW limit \in Nat, NEW most \in Nat, Lesser(limit, MaxResults) <= most, NEW stages,
         NEW r, Sound(r, limit, most, stages), Distinct(r.out), NEW rows, IsSequence(rows)
  PROVE  Walks(FoldLeft(TylerRow, r, rows), r, limit, most, stages)
<1> DEFINE n == Len(rows)
           total == FoldLeft(TylerRow, r, rows)
<1>1. n \in Nat /\ DOMAIN rows = 1..n
  BY SequenceLength
<1>2. total = Tyler!Folded(r, rows)
  BY DEF Tyler!Folded, FoldLeft, MapThenFoldSet, Tyler!MapThenFoldSet, Max, Tyler!Max
<1> HIDE DEF n, total
<1>3. PICK h : Tyler!Stepped(h, r, rows, n)
  BY <1>1, <1>2, Tyler!FoldStepped
<1>4. /\ h[0] = r
      /\ \A i \in 1..n : h[i] = TylerRow(h[i - 1], rows[i])
      /\ Tyler!Folded(r, rows) = h[n]
  BY <1>3 DEF Tyler!Stepped
<1> DEFINE Kept(k) == Walks(h[k], r, limit, most, stages)
           T == {k \in 0..n : Kept(k)}
<1>5. 0 \in T
  BY <1>1, <1>4 DEF Walks
<1>6. ASSUME NEW k \in 1..n, k - 1 \in T PROVE k \in T
  <2>1. Kept(k - 1) /\ h[k] = TylerRow(h[k - 1], rows[k])
    BY <1>4, <1>6
  <2>2. Walks(TylerRow(h[k - 1], rows[k]), h[k - 1], limit, most, stages)
    BY <2>1, TylerRowWalks DEF Walks
  <2>3. Kept(k)
    BY <2>1, <2>2, WalksOn
  <2> HIDE DEF Kept
  <2> QED
    BY <2>3
<1> HIDE DEF T
<1>7. n \in T
  BY <1>1, <1>5, <1>6, First!Induction
<1>8. total = h[n]
  BY <1>2, <1>4
<1> QED
  BY <1>7, <1>8 DEF T, total

\* The run of a class that yields as it reads.
Single(r, limit, most, stages) == Sound(r, limit, most, stages) /\ Distinct(r.out)

LEMMA SingleEnds ==
  ASSUME NEW limit, NEW most, NEW stages, NEW r, Loose(r, limit, most, stages), Distinct(r.out)
  PROVE  /\ Single(Done(r), limit, most, stages)
         /\ \A why : Single(Failed(r, why), limit, most, stages)
<1>1. Single(Done(r), limit, most, stages)
  BY Ended DEF Single
<1>2. ASSUME NEW why PROVE Single(Failed(r, why), limit, most, stages)
  BY Ended DEF Single
<1> QED
  BY <1>1, <1>2

LEMMA SingleTurns ==
  ASSUME NEW limit, NEW most, NEW stages, NEW r, Single(r, limit, most, stages), Active(r),
         r.page <= MaxPages
  PROVE  Single(NextPage(r), limit, most, stages)
<1>1. /\ Loose(r, limit, most, stages) /\ r.stage \in stages /\ Len(r.out) < most
      /\ r.stage = "detail" => r.queue # <<>>
  BY DEF Single, Sound
<1>2. Sound(NextPage(r), limit, most, stages)
  BY <1>1, Paged
<1>3. NextPage(r).out = r.out
  BY <1>1, Paged
<1> QED
  BY <1>2, <1>3 DEF Single

LEMMA SingleStaged ==
  ASSUME NEW limit, NEW most, NEW stages, NEW r, Single(r, limit, most, stages), Active(r),
         NEW stage \in stages, stage # "detail"
  PROVE  /\ Single(ToStage(r, stage), limit, most, stages)
         /\ Active(ToStage(r, stage)) /\ ToStage(r, stage).page = r.page
<1>1. Loose(r, limit, most, stages) /\ Len(r.out) < most
  BY DEF Single, Sound
<1>2. Sound(ToStage(r, stage), limit, most, stages)
  BY <1>1, Staged
<1>3. /\ ToStage(r, stage).out = r.out /\ ToStage(r, stage).state = r.state
      /\ ToStage(r, stage).page = r.page
  BY <1>1, Staged
<1> QED
  BY <1>2, <1>3 DEF Single, Active

\* A page is remembered.
Marked(r, page) == [r EXCEPT !.marks = @ \cup {page.rows}]

LEMMA MarkedAlike ==
  ASSUME NEW limit, NEW most, NEW stages, NEW r, Single(r, limit, most, stages), NEW page
  PROVE  /\ Single(Marked(r, page), limit, most, stages)
         /\ Marked(r, page).stage = r.stage /\ Marked(r, page).page = r.page
<1> DEFINE q == Marked(r, page)
<1>1. /\ DOMAIN q = DOMAIN Idle /\ q.state = r.state /\ q.stage = r.stage /\ q.page = r.page
      /\ q.attempt = r.attempt /\ q.limit = r.limit
      /\ q.held = r.held /\ q.queue = r.queue /\ q.out = r.out
  BY Fields DEF Marked, Single, Sound, Loose
<1> HIDE DEF q
<1>2. Single(q, limit, most, stages)
  BY <1>1 DEF Single, Sound, Loose, Active
<1> QED
  BY <1>1, <1>2 DEF q

LEMMA PageBound ==
  ASSUME NEW limit, NEW most, NEW stages, NEW r, Loose(r, limit, most, stages)
  PROVE  r.page \in Nat /\ (~LastPage(r) => r.page <= MaxPages)
BY Numbers DEF Loose, LastPage

LEMMA WebProcurePageSingle ==
  ASSUME NEW limit \in Nat, NEW most \in Nat, limit <= most, NEW stages,
         NEW r, Single(r, limit, most, stages), NEW page, IsSequence(page.rows)
  PROVE  Single(WebProcurePage(r, page), limit, most, stages)
<1> DEFINE next == FoldLeft(WebProcureRow, r, page.rows)
           q == WebProcurePage(r, page)
<1>1. Walks(next, r, limit, most, stages)
  BY WebProcureRowsWalk DEF Single
<1>2. \/ q = Failed(r, "malformed")
      \/ q = next
      \/ q = Done(next)
      \/ Active(next) /\ ~LastPage(r) /\ q = NextPage(next)
  BY DEF WebProcurePage
<1> HIDE DEF next, q
<1>3. Single(next, limit, most, stages) /\ next.page = r.page /\ Loose(next, limit, most, stages)
  BY <1>1 DEF Walks, Single, Sound
<1>4. Single(Done(next), limit, most, stages) /\ Single(Failed(r, "malformed"), limit, most, stages)
  BY <1>3, SingleEnds DEF Single, Sound
<1>5. ASSUME Active(next), ~LastPage(r) PROVE Single(NextPage(next), limit, most, stages)
  <2>1. next.page <= MaxPages
    BY <1>3, <1>5, PageBound DEF Single, Sound
  <2> QED
    BY <1>3, <1>5, <2>1, SingleTurns
<1> QED
  BY <1>2, <1>3, <1>4, <1>5 DEF q

LEMMA OraclePageSingle ==
  ASSUME NEW limit \in Nat, NEW most \in Nat, Lesser(limit, MaxResults) <= most, NEW stages,
         NEW r, Single(r, limit, most, stages), NEW page, IsSequence(page.rows)
  PROVE  Single(OraclePage(r, page), limit, most, stages)
<1> DEFINE next == FoldLeft(OracleRow, Marked(r, page), page.rows)
           q == OraclePage(r, page)
<1>1. Single(Marked(r, page), limit, most, stages) /\ Marked(r, page).page = r.page
  BY MarkedAlike
<1>2. Walks(next, Marked(r, page), limit, most, stages)
  BY <1>1, OracleRowsWalk DEF Single
<1>3. \/ q = Failed(r, "malformed") \/ q = Failed(r, "repeated")
      \/ q = next
      \/ q = Done(next)
      \/ Active(next) /\ ~LastPage(r) /\ q = NextPage(next)
  BY DEF OraclePage, Marked
<1> HIDE DEF next, q
<1>4. Single(next, limit, most, stages) /\ next.page = r.page /\ Loose(next, limit, most, stages)
  BY <1>1, <1>2 DEF Walks, Single, Sound
<1>5. Single(Done(next), limit, most, stages)
  BY <1>4, SingleEnds DEF Single
<1>6. ASSUME Active(next), ~LastPage(r) PROVE Single(NextPage(next), limit, most, stages)
  <2>1. next.page <= MaxPages
    BY <1>4, <1>6, PageBound DEF Single, Sound
  <2> QED
    BY <1>4, <1>6, <2>1, SingleTurns
<1>7. Single(Failed(r, "malformed"), limit, most, stages) /\ Single(Failed(r, "repeated"), limit, most, stages)
  BY SingleEnds DEF Single, Sound
<1> QED
  BY <1>3, <1>4, <1>5, <1>6, <1>7 DEF q

LEMMA TylerPageSingle ==
  ASSUME NEW limit \in Nat, NEW most \in Nat, Lesser(limit, MaxResults) <= most,
         NEW stages, "page" \in stages,
         NEW r, Single(r, limit, most, stages), NEW page, IsSequence(page.rows)
  PROVE  Single(TylerPage(r, page), limit, most, stages)
<1> DEFINE next == FoldLeft(TylerRow, Marked(r, page), page.rows)
           q == TylerPage(r, page)
<1>1. Single(Marked(r, page), limit, most, stages) /\ Marked(r, page).page = r.page
  BY MarkedAlike
<1>2. Walks(next, Marked(r, page), limit, most, stages)
  BY <1>1, TylerRowsWalk DEF Single
<1>3. \/ q = Failed(r, "refused") \/ q = Done(r)
      \/ q = next
      \/ q = Done(next)
      \/ Active(next) /\ ~(r.page > MaxPages) /\ q = NextPage(ToStage(next, "page"))
  BY DEF TylerPage, Marked
<1> HIDE DEF next, q
<1>4. Single(next, limit, most, stages) /\ next.page = r.page /\ Loose(next, limit, most, stages)
  BY <1>1, <1>2 DEF Walks, Single, Sound
<1>5. Single(Done(next), limit, most, stages)
  BY <1>4, SingleEnds DEF Single
<1>6. ASSUME Active(next), ~(r.page > MaxPages)
      PROVE  Single(NextPage(ToStage(next, "page")), limit, most, stages)
  <2>1. next.page <= MaxPages
    BY <1>4, <1>6, PageBound, Numbers
  <2>2. /\ Single(ToStage(next, "page"), limit, most, stages)
        /\ Active(ToStage(next, "page")) /\ ToStage(next, "page").page = next.page
    BY <1>4, <1>6, SingleStaged
  <2> QED
    BY <2>1, <2>2, SingleTurns
<1>7. Single(Failed(r, "refused"), limit, most, stages) /\ Single(Done(r), limit, most, stages)
  BY SingleEnds DEF Single, Sound
<1> QED
  BY <1>3, <1>4, <1>5, <1>6, <1>7 DEF q

LEMMA TylerFormSingle ==
  ASSUME NEW limit \in Nat, NEW most \in Nat, NEW stages, "form" \in stages,
         NEW r, Single(r, limit, most, stages), Active(r), NEW page
  PROVE  Single(TylerForm(r, page), limit, most, stages)
<1>1. \/ TylerForm(r, page) = Failed(r, "refused")
      \/ TylerForm(r, page) = ToStage(r, "form")
      \/ TylerForm(r, page) = r
  BY DEF TylerForm
<1>2. Single(Failed(r, "refused"), limit, most, stages)
  BY SingleEnds DEF Single, Sound
<1>3. Single(ToStage(r, "form"), limit, most, stages)
  BY SingleStaged
<1> QED
  BY <1>1, <1>2, <1>3

-----------------------------------------------------------------------------
(* Classes that complete a row before they read the next: peoplesoft,       *)
(* infotech, periscope.                                                      *)

Remains(q, r, limit, most, stages) == Single(q, limit, most, stages) /\ q.page = r.page

\* Another queue for a run at its detail stage.
Queueing(r, rows) == [r EXCEPT !.queue = rows]

LEMMA QueueFields ==
  ASSUME NEW r, DOMAIN r = DOMAIN Idle, NEW rows
  PROVE  /\ DOMAIN Queueing(r, rows) = DOMAIN Idle /\ Queueing(r, rows).state = r.state
         /\ Queueing(r, rows).stage = r.stage /\ Queueing(r, rows).page = r.page
         /\ Queueing(r, rows).attempt = r.attempt /\ Queueing(r, rows).limit = r.limit
         /\ Queueing(r, rows).held = r.held /\ Queueing(r, rows).queue = rows
         /\ Queueing(r, rows).out = r.out
BY Fields DEF Queueing

LEMMA Requeued ==
  ASSUME NEW limit, NEW most, NEW stages, NEW r, Single(r, limit, most, stages),
         NEW rows, IsSequence(rows), rows = <<>> => r.stage # "detail"
  PROVE  /\ Remains(Queueing(r, rows), r, limit, most, stages)
         /\ Queueing(r, rows).stage = r.stage /\ Queueing(r, rows).state = r.state
<1> DEFINE q == Queueing(r, rows)
<1>1. /\ DOMAIN q = DOMAIN Idle /\ q.state = r.state /\ q.stage = r.stage /\ q.page = r.page
      /\ q.attempt = r.attempt /\ q.limit = r.limit
      /\ q.held = r.held /\ q.queue = rows /\ q.out = r.out
  BY QueueFields DEF Single, Sound, Loose
<1> HIDE DEF q
<1>2. Single(q, limit, most, stages)
  BY <1>1 DEF Single, Sound, Loose, Active
<1> QED
  BY <1>1, <1>2 DEF q, Remains

LEMMA Stepping ==
  ASSUME NEW limit, NEW most, NEW stages, "detail" \in stages,
         NEW r, Single(r, limit, most, stages), NEW rows, IsSequence(rows), rows # <<>>
  PROVE  Remains(Queueing(ToStage(r, "detail"), rows), r, limit, most, stages)
<1> DEFINE s == ToStage(r, "detail")
           q == Queueing(s, rows)
<1>1. /\ DOMAIN s = DOMAIN Idle /\ s.state = r.state /\ s.stage = "detail" /\ s.page = r.page
      /\ s.attempt = 0 /\ s.limit = r.limit
      /\ s.held = r.held /\ s.queue = r.queue /\ s.out = r.out
  BY Fields DEF ToStage, Single, Sound, Loose
<1> HIDE DEF s
<1>2. /\ DOMAIN q = DOMAIN Idle /\ q.state = r.state /\ q.stage = "detail" /\ q.page = r.page
      /\ q.attempt = 0 /\ q.limit = r.limit
      /\ q.held = r.held /\ q.queue = rows /\ q.out = r.out
  BY <1>1, QueueFields
<1> HIDE DEF q
<1>3. 0 \in 0..MaxRetries
  BY Numbers
<1>4. Single(q, limit, most, stages)
  BY <1>2, <1>3 DEF Single, Sound, Loose, Active
<1> QED
  BY <1>2, <1>4 DEF q, s, Remains

LEMMA YieldNewWalks ==
  ASSUME NEW limit \in Nat, NEW most \in Nat, Lesser(limit, MaxResults) <= most, NEW stages,
         NEW r, Single(r, limit, most, stages), Active(r), NEW row, NEW status
  PROVE  Walks(YieldNew(r, row, status), r, limit, most, stages)
<1> DEFINE q == YieldNew(r, row, status)
           bound == Lesser(limit, MaxResults)
<1>1. r.limit = limit
  BY DEF Single, Sound, Loose
<1>2. \/ q = r
      \/ row.id \notin Ids(r.out) /\ q = Take(r, row, status, bound)
  BY <1>1 DEF YieldNew, Take
<1>3. bound \in Nat /\ bound <= most
  BY LesserBound
<1> HIDE DEF q, bound
<1>4. ASSUME row.id \notin Ids(r.out)
      PROVE  Walks(Take(r, row, status, bound), r, limit, most, stages)
  BY <1>3, <1>4, Taken DEF Single
<1>5. Walks(r, r, limit, most, stages)
  BY DEF Walks, Single
<1> QED
  BY <1>2, <1>4, <1>5 DEF q

LEMMA YieldRowRemains ==
  ASSUME NEW limit \in Nat, NEW most \in Nat, Lesser(limit, MaxResults) <= most,
         NEW stages, "detail" \in stages,
         NEW r, Single(r, limit, most, stages), NEW shown
  PROVE  Remains(YieldRow(r, shown), r, limit, most, stages)
<1> DEFINE q == YieldRow(r, shown)
           row == shown[1]
           status == shown[2]
           more == Append(r.queue, row)
           one == <<row>>
<1>1. \/ q = r
      \/ q = Queueing(r, more)
      \/ q = Queueing(ToStage(r, "detail"), one)
      \/ Active(r) /\ q = YieldNew(r, row, status)
  <2>1. \/ q = r
        \/ q = [r EXCEPT !.queue = Append(r.queue, shown[1])]
        \/ q = [ToStage(r, "detail") EXCEPT !.queue = <<shown[1]>>]
        \/ Active(r) /\ q = YieldNew(r, shown[1], shown[2])
    BY DEF YieldRow
  <2> HIDE DEF q
  <2> QED
    BY <2>1 DEF Queueing
<1>2. IsSequence(more) /\ more # <<>>
  BY Appended DEF Single, Sound, Loose
<1>3. IsSequence(one) /\ one # <<>>
  <2>1. one \in Seq({row})
    OBVIOUS
  <2> QED
    BY <2>1, SequenceOf
<1> HIDE DEF q, more, one, row, status
<1>4. Remains(r, r, limit, most, stages)
  BY DEF Remains
<1>5. Remains(Queueing(r, more), r, limit, most, stages)
  BY <1>2, Requeued
<1>6. Remains(Queueing(ToStage(r, "detail"), one), r, limit, most, stages)
  BY <1>3, Stepping
<1>7. ASSUME Active(r) PROVE Remains(YieldNew(r, row, status), r, limit, most, stages)
  <2>1. Walks(YieldNew(r, row, status), r, limit, most, stages)
    BY <1>7, YieldNewWalks
  <2> QED
    BY <2>1 DEF Walks, Remains, Single
<1> QED
  BY <1>1, <1>4, <1>5, <1>6, <1>7 DEF q

Yielding == INSTANCE FoldInduction WITH Op <- YieldRow

LEMMA YieldRowsRemain ==
  ASSUME NEW limit \in Nat, NEW most \in Nat, Lesser(limit, MaxResults) <= most,
         NEW stages, "detail" \in stages,
         NEW r, Single(r, limit, most, stages), NEW rows, IsSequence(rows)
  PROVE  Remains(FoldLeft(YieldRow, r, rows), r, limit, most, stages)
<1> DEFINE n == Len(rows)
           total == FoldLeft(YieldRow, r, rows)
<1>1. n \in Nat /\ DOMAIN rows = 1..n
  BY SequenceLength
<1>2. total = Yielding!Folded(r, rows)
  BY DEF Yielding!Folded, FoldLeft, MapThenFoldSet, Yielding!MapThenFoldSet, Max, Yielding!Max
<1> HIDE DEF n, total
<1>3. PICK h : Yielding!Stepped(h, r, rows, n)
  BY <1>1, <1>2, Yielding!FoldStepped
<1>4. /\ h[0] = r
      /\ \A i \in 1..n : h[i] = YieldRow(h[i - 1], rows[i])
      /\ Yielding!Folded(r, rows) = h[n]
  BY <1>3 DEF Yielding!Stepped
<1> DEFINE Kept(k) == Remains(h[k], r, limit, most, stages)
           T == {k \in 0..n : Kept(k)}
<1>5. 0 \in T
  BY <1>1, <1>4 DEF Remains
<1>6. ASSUME NEW k \in 1..n, k - 1 \in T PROVE k \in T
  <2>1. Kept(k - 1) /\ h[k] = YieldRow(h[k - 1], rows[k])
    BY <1>4, <1>6
  <2>2. Remains(YieldRow(h[k - 1], rows[k]), h[k - 1], limit, most, stages)
    BY <2>1, YieldRowRemains DEF Remains
  <2>3. Kept(k)
    BY <2>1, <2>2 DEF Remains
  <2> HIDE DEF Kept
  <2> QED
    BY <2>3
<1> HIDE DEF T
<1>7. n \in T
  BY <1>1, <1>5, <1>6, First!Induction
<1>8. total = h[n]
  BY <1>2, <1>4
<1> QED
  BY <1>7, <1>8 DEF T, total

LEMMA YieldRestSingle ==
  ASSUME NEW limit \in Nat, NEW most \in Nat, Lesser(limit, MaxResults) <= most,
         NEW stages, {"page", "detail"} \subseteq stages,
         NEW r, Single(r, limit, most, stages), Active(r), NEW rows, IsSequence(rows), NEW status
  PROVE  Single(YieldRest(r, rows, status), limit, most, stages)
<1> DEFINE base == Queueing(ToStage(r, "page"), <<>>)
           shown == [i \in DOMAIN rows |-> <<rows[i], status[rows[i]]>>]
           next == FoldLeft(YieldRow, base, shown)
           q == YieldRest(r, rows, status)
<1>1. IsSequence(shown)
  <2>1. Len(rows) \in Nat /\ DOMAIN rows = 1..Len(rows)
    BY SequenceLength
  <2>2. shown = [i \in 1..Len(rows) |-> shown[i]]
    BY <2>1
  <2> HIDE DEF shown
  <2> QED
    BY <2>1, <2>2, FunctionSequence
<1>2. Single(ToStage(r, "page"), limit, most, stages) /\ ToStage(r, "page").page = r.page
  BY SingleStaged
<1>3. ToStage(r, "page").stage = "page"
  BY Staged, SequenceLength DEF Single, Sound
<1>4. Remains(base, ToStage(r, "page"), limit, most, stages)
  BY <1>2, <1>3, EmptySequence, Requeued
<1>5. \/ q = next
      \/ q = Done(next)
      \/ Active(next) /\ next.stage # "detail" /\ ~LastPage(r) /\ q = NextPage(next)
  BY DEF YieldRest, Queueing
<1> HIDE DEF shown, base
<1>6. Remains(next, base, limit, most, stages)
  BY <1>1, <1>4, YieldRowsRemain DEF Remains
<1> HIDE DEF next, q
<1>7. Single(next, limit, most, stages) /\ next.page = r.page /\ Loose(next, limit, most, stages)
  BY <1>2, <1>4, <1>6 DEF Remains, Single, Sound
<1>8. Single(Done(next), limit, most, stages)
  BY <1>7, SingleEnds DEF Single
<1>9. ASSUME Active(next), ~LastPage(r) PROVE Single(NextPage(next), limit, most, stages)
  <2>1. next.page <= MaxPages
    BY <1>7, <1>9, PageBound DEF Single, Sound
  <2> QED
    BY <1>7, <1>9, <2>1, SingleTurns
<1> QED
  BY <1>5, <1>7, <1>8, <1>9 DEF q

LEMMA YieldPageSingle ==
  ASSUME NEW limit \in Nat, NEW most \in Nat, Lesser(limit, MaxResults) <= most,
         NEW stages, {"page", "detail"} \subseteq stages,
         NEW r, Single(r, limit, most, stages), Active(r),
         NEW page, IsSequence(page.rows), NEW status
  PROVE  Single(YieldPage(r, page, status), limit, most, stages)
<1> DEFINE seen == [r EXCEPT !.marks = @ \cup {page.rows}, !.ends = Len(page.rows) < PageSize]
           q == YieldPage(r, page, status)
<1>1. /\ DOMAIN seen = DOMAIN Idle /\ seen.state = r.state /\ seen.stage = r.stage
      /\ seen.page = r.page /\ seen.attempt = r.attempt /\ seen.limit = r.limit
      /\ seen.held = r.held /\ seen.queue = r.queue /\ seen.out = r.out
  BY Fields DEF Single, Sound, Loose
<1>2. \/ q = Failed(r, "malformed") \/ q = Done(r)
      \/ q = YieldRest(seen, page.rows, status)
  BY DEF YieldPage
<1> HIDE DEF seen, q
<1>3. Single(seen, limit, most, stages) /\ Active(seen)
  BY <1>1 DEF Single, Sound, Loose, Active
<1>4. Single(YieldRest(seen, page.rows, status), limit, most, stages)
  BY <1>3, YieldRestSingle
<1>5. Single(Failed(r, "malformed"), limit, most, stages) /\ Single(Done(r), limit, most, stages)
  BY SingleEnds DEF Single, Sound
<1> QED
  BY <1>2, <1>4, <1>5 DEF q

LEMMA YieldDroppedSingle ==
  ASSUME NEW limit \in Nat, NEW most \in Nat, Lesser(limit, MaxResults) <= most,
         NEW stages, {"page", "detail"} \subseteq stages,
         NEW r, Single(r, limit, most, stages), Active(r), r.stage = "detail", NEW status
  PROVE  Single(YieldDropped(r, status), limit, most, stages)
<1>1. IsSequence(r.queue) /\ r.queue # <<>>
  BY DEF Single, Sound, Loose
<1>2. IsSequence(Tail(r.queue))
  BY <1>1, Tailed
<1> QED
  BY <1>2, YieldRestSingle DEF YieldDropped

LEMMA YieldDetailSingle ==
  ASSUME NEW limit \in Nat, NEW most \in Nat, Lesser(limit, MaxResults) <= most,
         NEW stages, {"page", "detail"} \subseteq stages,
         NEW r, Single(r, limit, most, stages), Active(r), r.stage = "detail", NEW status
  PROVE  Single(YieldDetail(r, status), limit, most, stages)
<1> DEFINE row == Head(r.queue)
           next == YieldNew(r, row, status[row])
           q == YieldDetail(r, status)
<1>1. Walks(next, r, limit, most, stages)
  BY YieldNewWalks
<1>2. q = IF Active(next) THEN YieldDropped(next, status) ELSE next
  BY DEF YieldDetail
<1> HIDE DEF next, q
<1>3. Single(next, limit, most, stages) /\ next.stage = "detail"
  BY <1>1 DEF Walks, Single
<1>4. ASSUME Active(next) PROVE Single(YieldDropped(next, status), limit, most, stages)
  BY <1>3, <1>4, YieldDroppedSingle
<1> QED
  BY <1>2, <1>3, <1>4 DEF q

-----------------------------------------------------------------------------
(* Classes that gather all pages, then ask row by row.                      *)

\* Before the first detail request nothing is yielded.
Queued(r, limit, most, stages) ==
  /\ Sound(r, limit, most, stages)
  /\ Apart(r)
  /\ Active(r) /\ r.stage # "detail" => r.out = <<>>

\* Between two requests.
Waiting(r, limit, most, stages) == Loose(r, limit, most, stages) /\ Apart(r) /\ Active(r)

LEMMA QueuedEnds ==
  ASSUME NEW limit, NEW most, NEW stages, NEW r, Loose(r, limit, most, stages), Distinct(r.out)
  PROVE  /\ Queued(Done(r), limit, most, stages)
         /\ \A why : Queued(Failed(r, why), limit, most, stages)
<1>1. Queued(Done(r), limit, most, stages)
  <2>1. Sound(Done(r), limit, most, stages) /\ ~Active(Done(r))
    BY Ended
  <2>2. Apart(Done(r))
    BY Ended
  <2> QED
    BY <2>1, <2>2 DEF Queued
<1>2. ASSUME NEW why PROVE Queued(Failed(r, why), limit, most, stages)
  <2>1. Sound(Failed(r, why), limit, most, stages) /\ ~Active(Failed(r, why))
    BY Ended
  <2>2. Apart(Failed(r, why))
    BY Ended
  <2> QED
    BY <2>1, <2>2 DEF Queued
<1> QED
  BY <1>1, <1>2

LEMMA QueuedTurns ==
  ASSUME NEW limit, NEW most, NEW stages, NEW r, Queued(r, limit, most, stages), Active(r),
         r.stage # "detail", r.page <= MaxPages
  PROVE  /\ Queued(NextPage(r), limit, most, stages)
         /\ NextPage(r).stage = r.stage /\ Active(NextPage(r))
<1> DEFINE q == NextPage(r)
<1>1. Loose(r, limit, most, stages) /\ r.stage \in stages /\ Len(r.out) < most
  BY DEF Queued, Sound
<1>2. Sound(q, limit, most, stages)
  BY <1>1, Paged
<1>3. q.stage = r.stage /\ q.held = r.held /\ q.queue = r.queue /\ q.out = r.out
  BY <1>1, Paged
<1>4. q.state = r.state
  BY Fields, <1>1 DEF NextPage, Loose
<1> HIDE DEF q
<1>5. Queued(q, limit, most, stages)
  BY <1>2, <1>3, <1>4 DEF Queued, Apart, Active
<1> QED
  BY <1>3, <1>4, <1>5 DEF q, Active

LEMMA QueuedStaged ==
  ASSUME NEW limit, NEW most, NEW stages, NEW r, Queued(r, limit, most, stages), Active(r),
         r.stage # "detail", NEW stage \in stages, stage # "detail"
  PROVE  /\ Queued(ToStage(r, stage), limit, most, stages)
         /\ ToStage(r, stage).stage = stage /\ ToStage(r, stage).page = r.page
         /\ Active(ToStage(r, stage))
<1> DEFINE q == ToStage(r, stage)
<1>1. Loose(r, limit, most, stages) /\ Len(r.out) < most
  BY DEF Queued, Sound
<1>2. Sound(q, limit, most, stages)
  BY <1>1, Staged
<1>3. q.stage = stage /\ q.state = r.state /\ q.page = r.page
  BY <1>1, Staged
<1>4. q.held = r.held /\ q.queue = r.queue /\ q.out = r.out
  BY <1>1, Staged
<1> HIDE DEF q
<1>5. Queued(q, limit, most, stages)
  BY <1>2, <1>3, <1>4 DEF Queued, Apart, Active
<1> QED
  BY <1>3, <1>5 DEF q, Active

\* A page is remembered, and its rows are kept.
Gathering(r, page, held) == [r EXCEPT !.marks = @ \cup {page.rows}, !.held = held]

LEMMA Gathered ==
  ASSUME NEW limit, NEW most, NEW stages, NEW r, Queued(r, limit, most, stages), NEW page,
         NEW held, IsSequence(held), Distinct(held)
  PROVE  /\ Queued(Gathering(r, page, held), limit, most, stages)
         /\ Gathering(r, page, held).stage = r.stage /\ Gathering(r, page, held).page = r.page
         /\ Gathering(r, page, held).state = r.state
<1> DEFINE q == Gathering(r, page, held)
<1>1. /\ DOMAIN q = DOMAIN Idle /\ q.state = r.state /\ q.stage = r.stage /\ q.page = r.page
      /\ q.attempt = r.attempt /\ q.limit = r.limit
      /\ q.held = held /\ q.queue = r.queue /\ q.out = r.out
  BY Fields DEF Gathering, Queued, Sound, Loose
<1> HIDE DEF q
<1>2. Queued(q, limit, most, stages)
  BY <1>1 DEF Queued, Sound, Loose, Apart, Active
<1> QED
  BY <1>1, <1>2 DEF q

\* The rows that were gathered wait for their detail pages.
LEMMA Loaded ==
  ASSUME NEW limit, NEW most, NEW stages, NEW r, Queued(r, limit, most, stages), Active(r),
         r.stage # "detail", NEW rows, IsSequence(rows), Distinct(rows)
  PROVE  Waiting(Queueing(r, rows), limit, most, stages) /\ Queueing(r, rows).out = <<>>
<1> DEFINE q == Queueing(r, rows)
<1>1. /\ DOMAIN q = DOMAIN Idle /\ q.state = r.state /\ q.stage = r.stage /\ q.page = r.page
      /\ q.attempt = r.attempt /\ q.limit = r.limit
      /\ q.held = r.held /\ q.queue = rows /\ q.out = r.out
  BY QueueFields DEF Queued, Sound, Loose
<1>2. r.out = <<>>
  BY DEF Queued
<1> HIDE DEF q
<1>3. Apart(q)
  BY <1>1, <1>2, EmptySequence DEF Queued, Apart
<1>4. Loose(q, limit, most, stages) /\ Active(q)
  BY <1>1 DEF Queued, Sound, Loose, Active
<1> QED
  BY <1>1, <1>2, <1>3, <1>4 DEF q, Waiting

LEMMA WaitingAsks ==
  ASSUME NEW limit, NEW most, NEW stages, "detail" \in stages, NEW r,
         Waiting(r, limit, most, stages), r.queue # <<>>, Len(r.out) < most
  PROVE  Queued(ToStage(r, "detail"), limit, most, stages)
<1> DEFINE q == ToStage(r, "detail")
<1>1. Loose(r, limit, most, stages)
  BY DEF Waiting
<1>2. Sound(q, limit, most, stages)
  BY <1>1, Staged
<1>3. q.stage = "detail" /\ q.held = r.held /\ q.queue = r.queue /\ q.out = r.out
  BY <1>1, Staged
<1> HIDE DEF q
<1>4. Queued(q, limit, most, stages)
  BY <1>2, <1>3 DEF Queued, Waiting, Apart
<1> QED
  BY <1>4 DEF q

\* The first of the rows that wait is taken from them.
LEMMA HeadTaken ==
  ASSUME NEW limit, NEW most, NEW stages, NEW r, Queued(r, limit, most, stages), Active(r),
         r.stage = "detail",
         NEW q, Alike(q, r), q.held = r.held, q.queue = Tail(r.queue)
  PROVE  /\ Waiting(q, limit, most, stages)
         /\ Head(r.queue).id \notin Ids(q.queue) /\ Head(r.queue).id \notin Ids(q.out)
<1>1. IsSequence(r.queue) /\ r.queue # <<>> /\ Distinct(r.queue) /\ IsSequence(r.held)
  BY DEF Queued, Sound, Loose, Apart
<1>2. IsSequence(q.queue) /\ Distinct(q.queue) /\ Head(r.queue).id \notin Ids(q.queue)
  BY <1>1, Tailed
<1>3. Ids(q.queue) \subseteq Ids(r.queue) /\ Head(r.queue).id \in Ids(r.queue)
  BY <1>1, Tailed
<1>4. Loose(q, limit, most, stages) /\ Active(q)
  BY <1>1, <1>2, LooseAlike DEF Queued, Sound
<1>5. q.out = r.out
  BY DEF Alike
<1> QED
  BY <1>2, <1>3, <1>4, <1>5 DEF Waiting, Apart, Queued

LEMMA YieldedWaiting ==
  ASSUME NEW limit, NEW most, NEW stages, NEW r, Waiting(r, limit, most, stages),
         Len(r.out) < most, most \in Nat, NEW row, NEW status,
         row.id \notin Ids(r.queue), row.id \notin Ids(r.out)
  PROVE  Waiting(Yield(r, row, status), limit, most, stages)
<1> DEFINE q == Yield(r, row, status)
<1>1. Loose(r, limit, most, stages) /\ Len(r.out) + 1 <= most
  BY SequenceLength DEF Waiting, Loose
<1>2. Loose(q, limit, most, stages) /\ q.state = r.state /\ q.held = r.held /\ q.queue = r.queue
  BY <1>1, Yielded
<1>3. Ids(q.out) = Ids(r.out) \cup {row.id}
  BY <1>1, Yielded
<1>4. Distinct(r.out) /\ row.id \notin Ids(r.out) => Distinct(q.out)
  BY <1>1, Yielded
<1> HIDE DEF q
<1>5. Waiting(q, limit, most, stages)
  BY <1>2, <1>3, <1>4 DEF Waiting, Apart, Active
<1> QED
  BY <1>5 DEF q

LEMMA GatheredPages ==
  ASSUME NEW limit, NEW most, NEW stages, NEW r, Queued(r, limit, most, stages),
         NEW rows, IsSequence(rows)
  PROVE  /\ IsSequence(r.held) /\ Distinct(r.held)
         /\ IsSequence(FoldLeft(KeepLast, r.held, Known(rows)))
         /\ Distinct(FoldLeft(KeepLast, r.held, Known(rows)))
         /\ IsSequence(FoldLeft(KeepNewest, r.held, Known(rows)))
         /\ Distinct(FoldLeft(KeepNewest, r.held, Known(rows)))
<1>1. IsSequence(r.held) /\ Distinct(r.held)
  BY DEF Queued, Sound, Loose, Apart
<1>2. IsSequence(Known(rows))
  BY Trimmed
<1>3. /\ IsSequence(FoldLeft(KeepLast, r.held, Known(rows)))
      /\ Distinct(FoldLeft(KeepLast, r.held, Known(rows)))
  BY <1>1, <1>2, KeepLastAll
<1>4. /\ IsSequence(FoldLeft(KeepNewest, r.held, Known(rows)))
      /\ Distinct(FoldLeft(KeepNewest, r.held, Known(rows)))
  BY <1>1, <1>2, KeepNewestAll
<1> QED
  BY <1>1, <1>3, <1>4

-----------------------------------------------------------------------------
(* eva and texas: a record that cannot be normalized is skipped, and those  *)
(* beyond the bound on detail requests are yielded as they were listed.     *)

Emits(q, r, row, most) ==
  \/ q = r
  \/ Len(r.out) < most /\ \E status : q = Yield(r, row, status)

LEMMA EvaEmitCases ==
  ASSUME NEW r, NEW row
  PROVE  \/ EvaEmit(r, row) = r
         \/ /\ ~Full(r, Lesser(r.limit, MaxResults))
            /\ EvaEmit(r, row) = Yield(r, row, EvaStatus(row.says))
<1>1. CASE Full(r, Lesser(r.limit, MaxResults))
  BY <1>1 DEF EvaEmit
<1>2. CASE ~Full(r, Lesser(r.limit, MaxResults))
  BY <1>2 DEF EvaEmit
<1> QED
  BY <1>1, <1>2

LEMMA EvaEmitOne ==
  ASSUME NEW limit \in Nat, NEW most \in Nat, Lesser(limit, MaxResults) <= most, NEW stages,
         NEW r, Loose(r, limit, most, stages), NEW row
  PROVE  Emits(EvaEmit(r, row), r, row, most)
<1> DEFINE bound == Lesser(r.limit, MaxResults)
           status == EvaStatus(row.says)
<1>1. r.limit = limit /\ Len(r.out) \in Nat
  BY SequenceLength DEF Loose
<1>2. \/ EvaEmit(r, row) = r
      \/ ~Full(r, bound) /\ EvaEmit(r, row) = Yield(r, row, status)
  BY EvaEmitCases
<1>3. bound \in Nat /\ bound <= most
  BY <1>1, LesserBound
<1> HIDE DEF bound, status
<1>4. ~Full(r, bound) => Len(r.out) < most
  BY <1>1, <1>3 DEF Full
<1> QED
  BY <1>2, <1>4 DEF Emits

LEMMA EvaEmitWaiting ==
  ASSUME NEW limit \in Nat, NEW most \in Nat, Lesser(limit, MaxResults) <= most, NEW stages,
         NEW r, Waiting(r, limit, most, stages), NEW row,
         row.id \notin Ids(r.queue), row.id \notin Ids(r.out)
  PROVE  Waiting(EvaEmit(r, row), limit, most, stages)
<1>1. \/ EvaEmit(r, row) = r
      \/ Len(r.out) < most /\ \E status : EvaEmit(r, row) = Yield(r, row, status)
  <2>1. Emits(EvaEmit(r, row), r, row, most)
    BY EvaEmitOne DEF Waiting
  <2> QED
    BY <2>1 DEF Emits
<1>2. ASSUME Len(r.out) < most, NEW status PROVE Waiting(Yield(r, row, status), limit, most, stages)
  BY <1>2, YieldedWaiting
<1> QED
  BY <1>1, <1>2

Eva == INSTANCE FoldInduction WITH Op <- EvaEmit

\* The rows of a queue are yielded, each once.
LEMMA EvaEmitAll ==
  ASSUME NEW limit \in Nat, NEW most \in Nat, Lesser(limit, MaxResults) <= most, NEW stages,
         NEW r, Waiting(r, limit, most, stages)
  PROVE  /\ Loose(FoldLeft(EvaEmit, r, r.queue), limit, most, stages)
         /\ Distinct(FoldLeft(EvaEmit, r, r.queue).out)
<1>0. /\ Loose(r, limit, most, stages) /\ Distinct(r.out)
      /\ IsSequence(r.queue) /\ Distinct(r.queue) /\ Ids(r.queue) \cap Ids(r.out) = {}
  BY DEF Waiting, Apart, Loose
<1> DEFINE rows == r.queue
<1>9. IsSequence(rows) /\ Distinct(rows) /\ Ids(rows) \cap Ids(r.out) = {}
  BY <1>0
<1> DEFINE n == Len(rows)
           total == FoldLeft(EvaEmit, r, rows)
<1>1. n \in Nat /\ DOMAIN rows = 1..n
  BY <1>9, SequenceLength
<1>2. total = Eva!Folded(r, rows)
  BY DEF Eva!Folded, FoldLeft, MapThenFoldSet, Eva!MapThenFoldSet, Max, Eva!Max
<1> HIDE DEF n, total, rows
<1>3. PICK h : Eva!Stepped(h, r, rows, n)
  BY <1>1, <1>2, Eva!FoldStepped
<1>4. /\ h[0] = r
      /\ \A i \in 1..n : h[i] = EvaEmit(h[i - 1], rows[i])
      /\ Eva!Folded(r, rows) = h[n]
  BY <1>3 DEF Eva!Stepped
<1> DEFINE Kept(k) == /\ Loose(h[k], limit, most, stages) /\ Distinct(h[k].out)
                      /\ Ids(h[k].out) \subseteq Ids(r.out) \cup {rows[j].id : j \in 1..k}
           T == {k \in 0..n : Kept(k)}
<1>5. 0 \in T
  BY <1>1, <1>4, <1>0
<1>6. ASSUME NEW k \in 1..n, k - 1 \in T PROVE k \in T
  <2>1. Kept(k - 1) /\ h[k] = EvaEmit(h[k - 1], rows[k])
    BY <1>4, <1>6
  <2>10. rows[k].id \in Ids(rows)
    BY <1>1 DEF Ids
  <2>11. \A j \in 1..(k - 1) : rows[k].id # rows[j].id
    BY <1>1, <1>9 DEF Distinct
  <2>2. rows[k].id \notin Ids(r.out) /\ \A j \in 1..(k - 1) : rows[k].id # rows[j].id
    BY <1>9, <2>10, <2>11
  <2>3. rows[k].id \notin Ids(h[k - 1].out)
    BY <2>1, <2>2
  <2>4. {rows[j].id : j \in 1..k} = {rows[j].id : j \in 1..(k - 1)} \cup {rows[k].id}
    OBVIOUS
  <2> DEFINE p == h[k - 1]
             row == rows[k]
  <2>5. Loose(p, limit, most, stages) /\ Distinct(p.out)
    BY <2>1
  <2>6. \/ h[k] = p
        \/ Len(p.out) < most /\ \E status : h[k] = Yield(p, row, status)
    <3>1. Emits(EvaEmit(p, row), p, row, most)
      BY <2>5, EvaEmitOne
    <3> QED
      BY <2>1, <3>1 DEF Emits
  <2>7. ASSUME Len(p.out) < most, NEW status
        PROVE  /\ Loose(Yield(p, row, status), limit, most, stages)
               /\ Distinct(Yield(p, row, status).out)
               /\ Ids(Yield(p, row, status).out) = Ids(p.out) \cup {row.id}
    <3> HIDE DEF p, row
    <3>1. Len(p.out) + 1 <= most
      BY <2>5, <2>7, SequenceLength DEF Loose
    <3>2. Loose(Yield(p, row, status), limit, most, stages)
      BY <2>5, <3>1, Yielded
    <3>3. Ids(Yield(p, row, status).out) = Ids(p.out) \cup {row.id}
      BY <2>5, <3>1, Yielded
    <3>4. row.id \notin Ids(p.out)
      BY <2>3 DEF p, row
    <3>5. Distinct(Yield(p, row, status).out)
      BY <2>5, <3>1, <3>4, Yielded
    <3> QED
      BY <3>2, <3>3, <3>5
  <2>8. Kept(k)
    <3>1. CASE h[k] = p
      BY <2>1, <2>4, <3>1
    <3>2. CASE Len(p.out) < most /\ \E status : h[k] = Yield(p, row, status)
      <4>1. PICK status : h[k] = Yield(p, row, status)
        BY <3>2
      <4>2. /\ Loose(h[k], limit, most, stages) /\ Distinct(h[k].out)
            /\ Ids(h[k].out) = Ids(p.out) \cup {row.id}
        BY <2>7, <3>2, <4>1
      <4> QED
        BY <2>1, <2>4, <4>2
    <3> QED
      BY <2>6, <3>1, <3>2
  <2> HIDE DEF Kept
  <2> QED
    BY <2>8
<1> HIDE DEF T
<1>7. n \in T
  BY <1>1, <1>5, <1>6, First!Induction
<1>8. total = h[n]
  BY <1>2, <1>4
<1> QED
  BY <1>7, <1>8 DEF T, total, rows

LEMMA EvaRestQueued ==
  ASSUME NEW limit \in Nat, NEW most \in Nat, Lesser(limit, MaxResults) <= most,
         NEW stages, "detail" \in stages,
         NEW r, Waiting(r, limit, most, stages)
  PROVE  Queued(EvaRest(r), limit, most, stages)
<1> DEFINE q == EvaRest(r)
           all == FoldLeft(EvaEmit, r, r.queue)
           bound == Lesser(limit, MaxResults)
<1>1. /\ Loose(r, limit, most, stages) /\ Distinct(r.out)
      /\ r.limit = limit /\ Len(r.out) \in Nat
  BY SequenceLength DEF Waiting, Apart, Loose
<1>2. \/ q = Done(r)
      \/ r.queue # <<>> /\ ~Full(r, bound) /\ q = ToStage(r, "detail")
      \/ q = Done(all)
  BY <1>1 DEF EvaRest
<1>3. Loose(all, limit, most, stages) /\ Distinct(all.out)
  BY EvaEmitAll
<1>4. bound \in Nat /\ bound <= most
  BY LesserBound
<1> HIDE DEF q, all, bound
<1>5. Queued(Done(all), limit, most, stages)
  BY <1>3, QueuedEnds
<1>6. Queued(Done(r), limit, most, stages)
  BY <1>1, QueuedEnds
<1>7. ASSUME r.queue # <<>>, ~Full(r, bound) PROVE Queued(ToStage(r, "detail"), limit, most, stages)
  <2>1. Len(r.out) < most
    BY <1>1, <1>4, <1>7 DEF Full
  <2> QED
    BY <1>7, <2>1, WaitingAsks
<1> QED
  BY <1>2, <1>5, <1>6, <1>7 DEF q

LEMMA EvaListedQueued ==
  ASSUME NEW limit \in Nat, NEW most \in Nat, Lesser(limit, MaxResults) <= most,
         NEW stages, "detail" \in stages,
         NEW r, Queued(r, limit, most, stages), Active(r), r.stage # "detail"
  PROVE  Queued(EvaListed(r), limit, most, stages)
<1>1. IsSequence(r.held) /\ Distinct(r.held)
  BY DEF Queued, Sound, Loose, Apart
<1>2. Waiting(Queueing(r, r.held), limit, most, stages)
  BY <1>1, Loaded
<1>3. EvaListed(r) = EvaRest(Queueing(r, r.held))
  BY DEF EvaListed, Queueing
<1> QED
  BY <1>2, <1>3, EvaRestQueued

LEMMA EvaPageQueued ==
  ASSUME NEW limit \in Nat, NEW most \in Nat, Lesser(limit, MaxResults) <= most,
         NEW stages, "detail" \in stages,
         NEW r, Queued(r, limit, most, stages), Active(r), r.stage # "detail",
         NEW page, IsSequence(page.rows)
  PROVE  Queued(EvaPage(r, page), limit, most, stages)
<1> DEFINE held == FoldLeft(KeepNewest, r.held, Known(page.rows))
           more == Gathering(r, page, held)
           q == EvaPage(r, page)
<1>1. \/ q = Failed(r, "malformed")
      \/ q = EvaListed(r)
      \/ q = EvaListed(more)
      \/ ~LastPage(r) /\ q = NextPage(more)
  BY DEF EvaPage, Gathering
<1>2. IsSequence(held) /\ Distinct(held)
  BY GatheredPages
<1> HIDE DEF held, q
<1>3. Queued(more, limit, most, stages) /\ more.stage = r.stage /\ more.page = r.page /\ Active(more)
  BY <1>2, Gathered DEF Active
<1> HIDE DEF more
<1>4. Queued(EvaListed(r), limit, most, stages) /\ Queued(EvaListed(more), limit, most, stages)
  BY <1>3, EvaListedQueued
<1>5. ASSUME ~LastPage(r) PROVE Queued(NextPage(more), limit, most, stages)
  <2>1. r.page <= MaxPages
    BY <1>5, PageBound DEF Queued, Sound
  <2> QED
    BY <1>3, <2>1, QueuedTurns
<1>6. Queued(Failed(r, "malformed"), limit, most, stages)
  <2>1. Loose(r, limit, most, stages) /\ Distinct(r.out)
    BY DEF Queued, Sound, Apart
  <2> QED
    BY <2>1, QueuedEnds
<1> QED
  BY <1>1, <1>4, <1>5, <1>6 DEF q

LEMMA EvaDetailQueued ==
  ASSUME NEW limit \in Nat, NEW most \in Nat, Lesser(limit, MaxResults) <= most,
         NEW stages, "detail" \in stages,
         NEW r, Queued(r, limit, most, stages), Active(r), r.stage = "detail", NEW page
  PROVE  Queued(EvaDetail(r, page), limit, most, stages)
<1> DEFINE rest == [r EXCEPT !.details = @ + 1, !.queue = Tail(@)]
           row == Head(r.queue)
           next == EvaEmit(rest, row)
           q == EvaDetail(r, page)
<1>1. q = Failed(r, "malformed") \/ q = EvaRest(next)
  BY DEF EvaDetail
<1>2. Alike(rest, r) /\ rest.held = r.held /\ rest.queue = Tail(r.queue)
  BY Fields DEF Alike, Queued, Sound, Loose
<1> HIDE DEF rest
<1>3. Waiting(rest, limit, most, stages) /\ row.id \notin Ids(rest.queue) /\ row.id \notin Ids(rest.out)
  BY <1>2, HeadTaken
<1> HIDE DEF row
<1>4. Waiting(next, limit, most, stages)
  BY <1>3, EvaEmitWaiting
<1> HIDE DEF next, q
<1>5. Queued(EvaRest(next), limit, most, stages)
  BY <1>4, EvaRestQueued
<1>6. Queued(Failed(r, "malformed"), limit, most, stages)
  <2>1. Loose(r, limit, most, stages) /\ Distinct(r.out)
    BY DEF Queued, Sound, Apart
  <2> QED
    BY <2>1, QueuedEnds
<1> QED
  BY <1>1, <1>5, <1>6 DEF q

LEMMA TexasEmitCases ==
  ASSUME NEW r, NEW row
  PROVE  \/ TexasEmit(r, row) = r
         \/ /\ ~Full(r, Lesser(r.limit, MaxResults))
            /\ TexasEmit(r, row) = Yield(r, row, TexasStatus(row.says))
<1>1. CASE Full(r, Lesser(r.limit, MaxResults))
  BY <1>1 DEF TexasEmit
<1>2. CASE ~Full(r, Lesser(r.limit, MaxResults))
  BY <1>2 DEF TexasEmit
<1> QED
  BY <1>1, <1>2

LEMMA TexasEmitOne ==
  ASSUME NEW limit \in Nat, NEW most \in Nat, Lesser(limit, MaxResults) <= most, NEW stages,
         NEW r, Loose(r, limit, most, stages), NEW row
  PROVE  Emits(TexasEmit(r, row), r, row, most)
<1> DEFINE bound == Lesser(r.limit, MaxResults)
           status == TexasStatus(row.says)
<1>1. r.limit = limit /\ Len(r.out) \in Nat
  BY SequenceLength DEF Loose
<1>2. \/ TexasEmit(r, row) = r
      \/ ~Full(r, bound) /\ TexasEmit(r, row) = Yield(r, row, status)
  BY TexasEmitCases
<1>3. bound \in Nat /\ bound <= most
  BY <1>1, LesserBound
<1> HIDE DEF bound, status
<1>4. ~Full(r, bound) => Len(r.out) < most
  BY <1>1, <1>3 DEF Full
<1> QED
  BY <1>2, <1>4 DEF Emits

LEMMA TexasEmitWaiting ==
  ASSUME NEW limit \in Nat, NEW most \in Nat, Lesser(limit, MaxResults) <= most, NEW stages,
         NEW r, Waiting(r, limit, most, stages), NEW row,
         row.id \notin Ids(r.queue), row.id \notin Ids(r.out)
  PROVE  Waiting(TexasEmit(r, row), limit, most, stages)
<1>1. \/ TexasEmit(r, row) = r
      \/ Len(r.out) < most /\ \E status : TexasEmit(r, row) = Yield(r, row, status)
  <2>1. Emits(TexasEmit(r, row), r, row, most)
    BY TexasEmitOne DEF Waiting
  <2> QED
    BY <2>1 DEF Emits
<1>2. ASSUME Len(r.out) < most, NEW status PROVE Waiting(Yield(r, row, status), limit, most, stages)
  BY <1>2, YieldedWaiting
<1> QED
  BY <1>1, <1>2

Texas == INSTANCE FoldInduction WITH Op <- TexasEmit

\* The rows of a queue are yielded, each once.
LEMMA TexasEmitAll ==
  ASSUME NEW limit \in Nat, NEW most \in Nat, Lesser(limit, MaxResults) <= most, NEW stages,
         NEW r, Waiting(r, limit, most, stages)
  PROVE  /\ Loose(FoldLeft(TexasEmit, r, r.queue), limit, most, stages)
         /\ Distinct(FoldLeft(TexasEmit, r, r.queue).out)
<1>0. /\ Loose(r, limit, most, stages) /\ Distinct(r.out)
      /\ IsSequence(r.queue) /\ Distinct(r.queue) /\ Ids(r.queue) \cap Ids(r.out) = {}
  BY DEF Waiting, Apart, Loose
<1> DEFINE rows == r.queue
<1>9. IsSequence(rows) /\ Distinct(rows) /\ Ids(rows) \cap Ids(r.out) = {}
  BY <1>0
<1> DEFINE n == Len(rows)
           total == FoldLeft(TexasEmit, r, rows)
<1>1. n \in Nat /\ DOMAIN rows = 1..n
  BY <1>9, SequenceLength
<1>2. total = Texas!Folded(r, rows)
  BY DEF Texas!Folded, FoldLeft, MapThenFoldSet, Texas!MapThenFoldSet, Max, Texas!Max
<1> HIDE DEF n, total, rows
<1>3. PICK h : Texas!Stepped(h, r, rows, n)
  BY <1>1, <1>2, Texas!FoldStepped
<1>4. /\ h[0] = r
      /\ \A i \in 1..n : h[i] = TexasEmit(h[i - 1], rows[i])
      /\ Texas!Folded(r, rows) = h[n]
  BY <1>3 DEF Texas!Stepped
<1> DEFINE Kept(k) == /\ Loose(h[k], limit, most, stages) /\ Distinct(h[k].out)
                      /\ Ids(h[k].out) \subseteq Ids(r.out) \cup {rows[j].id : j \in 1..k}
           T == {k \in 0..n : Kept(k)}
<1>5. 0 \in T
  BY <1>1, <1>4, <1>0
<1>6. ASSUME NEW k \in 1..n, k - 1 \in T PROVE k \in T
  <2>1. Kept(k - 1) /\ h[k] = TexasEmit(h[k - 1], rows[k])
    BY <1>4, <1>6
  <2>10. rows[k].id \in Ids(rows)
    BY <1>1 DEF Ids
  <2>11. \A j \in 1..(k - 1) : rows[k].id # rows[j].id
    BY <1>1, <1>9 DEF Distinct
  <2>2. rows[k].id \notin Ids(r.out) /\ \A j \in 1..(k - 1) : rows[k].id # rows[j].id
    BY <1>9, <2>10, <2>11
  <2>3. rows[k].id \notin Ids(h[k - 1].out)
    BY <2>1, <2>2
  <2>4. {rows[j].id : j \in 1..k} = {rows[j].id : j \in 1..(k - 1)} \cup {rows[k].id}
    OBVIOUS
  <2> DEFINE p == h[k - 1]
             row == rows[k]
  <2>5. Loose(p, limit, most, stages) /\ Distinct(p.out)
    BY <2>1
  <2>6. \/ h[k] = p
        \/ Len(p.out) < most /\ \E status : h[k] = Yield(p, row, status)
    <3>1. Emits(TexasEmit(p, row), p, row, most)
      BY <2>5, TexasEmitOne
    <3> QED
      BY <2>1, <3>1 DEF Emits
  <2>7. ASSUME Len(p.out) < most, NEW status
        PROVE  /\ Loose(Yield(p, row, status), limit, most, stages)
               /\ Distinct(Yield(p, row, status).out)
               /\ Ids(Yield(p, row, status).out) = Ids(p.out) \cup {row.id}
    <3> HIDE DEF p, row
    <3>1. Len(p.out) + 1 <= most
      BY <2>5, <2>7, SequenceLength DEF Loose
    <3>2. Loose(Yield(p, row, status), limit, most, stages)
      BY <2>5, <3>1, Yielded
    <3>3. Ids(Yield(p, row, status).out) = Ids(p.out) \cup {row.id}
      BY <2>5, <3>1, Yielded
    <3>4. row.id \notin Ids(p.out)
      BY <2>3 DEF p, row
    <3>5. Distinct(Yield(p, row, status).out)
      BY <2>5, <3>1, <3>4, Yielded
    <3> QED
      BY <3>2, <3>3, <3>5
  <2>8. Kept(k)
    <3>1. CASE h[k] = p
      BY <2>1, <2>4, <3>1
    <3>2. CASE Len(p.out) < most /\ \E status : h[k] = Yield(p, row, status)
      <4>1. PICK status : h[k] = Yield(p, row, status)
        BY <3>2
      <4>2. /\ Loose(h[k], limit, most, stages) /\ Distinct(h[k].out)
            /\ Ids(h[k].out) = Ids(p.out) \cup {row.id}
        BY <2>7, <3>2, <4>1
      <4> QED
        BY <2>1, <2>4, <4>2
    <3> QED
      BY <2>6, <3>1, <3>2
  <2> HIDE DEF Kept
  <2> QED
    BY <2>8
<1> HIDE DEF T
<1>7. n \in T
  BY <1>1, <1>5, <1>6, First!Induction
<1>8. total = h[n]
  BY <1>2, <1>4
<1> QED
  BY <1>7, <1>8 DEF T, total, rows

LEMMA TexasRestQueued ==
  ASSUME NEW limit \in Nat, NEW most \in Nat, Lesser(limit, MaxResults) <= most,
         NEW stages, "detail" \in stages,
         NEW r, Waiting(r, limit, most, stages)
  PROVE  Queued(TexasRest(r), limit, most, stages)
<1> DEFINE q == TexasRest(r)
           all == FoldLeft(TexasEmit, r, r.queue)
           bound == Lesser(limit, MaxResults)
<1>1. /\ Loose(r, limit, most, stages) /\ Distinct(r.out)
      /\ r.limit = limit /\ Len(r.out) \in Nat
  BY SequenceLength DEF Waiting, Apart, Loose
<1>2. \/ q = Done(r)
      \/ r.queue # <<>> /\ ~Full(r, bound) /\ q = ToStage(r, "detail")
      \/ q = Done(all)
  BY <1>1 DEF TexasRest
<1>3. Loose(all, limit, most, stages) /\ Distinct(all.out)
  BY TexasEmitAll
<1>4. bound \in Nat /\ bound <= most
  BY LesserBound
<1> HIDE DEF q, all, bound
<1>5. Queued(Done(all), limit, most, stages)
  BY <1>3, QueuedEnds
<1>6. Queued(Done(r), limit, most, stages)
  BY <1>1, QueuedEnds
<1>7. ASSUME r.queue # <<>>, ~Full(r, bound) PROVE Queued(ToStage(r, "detail"), limit, most, stages)
  <2>1. Len(r.out) < most
    BY <1>1, <1>4, <1>7 DEF Full
  <2> QED
    BY <1>7, <2>1, WaitingAsks
<1> QED
  BY <1>2, <1>5, <1>6, <1>7 DEF q

LEMMA TexasListedQueued ==
  ASSUME NEW limit \in Nat, NEW most \in Nat, Lesser(limit, MaxResults) <= most,
         NEW stages, "detail" \in stages,
         NEW r, Queued(r, limit, most, stages), Active(r), r.stage # "detail"
  PROVE  Queued(TexasListed(r), limit, most, stages)
<1>1. IsSequence(r.held) /\ Distinct(r.held)
  BY DEF Queued, Sound, Loose, Apart
<1>2. Waiting(Queueing(r, r.held), limit, most, stages)
  BY <1>1, Loaded
<1>3. TexasListed(r) = TexasRest(Queueing(r, r.held))
  BY DEF TexasListed, Queueing
<1> QED
  BY <1>2, <1>3, TexasRestQueued

LEMMA TexasPageQueued ==
  ASSUME NEW limit \in Nat, NEW most \in Nat, Lesser(limit, MaxResults) <= most,
         NEW stages, "detail" \in stages,
         NEW r, Queued(r, limit, most, stages), Active(r), r.stage # "detail",
         NEW page, IsSequence(page.rows)
  PROVE  Queued(TexasPage(r, page), limit, most, stages)
<1> DEFINE held == FoldLeft(KeepLast, r.held, Known(page.rows))
           more == Gathering(r, page, held)
           q == TexasPage(r, page)
<1>1. \/ q = Failed(r, "markup")
      \/ q = TexasListed(r)
      \/ q = TexasListed(more)
      \/ ~LastPage(r) /\ q = NextPage(more)
  BY DEF TexasPage, Gathering
<1>2. IsSequence(held) /\ Distinct(held)
  BY GatheredPages
<1> HIDE DEF held, q
<1>3. Queued(more, limit, most, stages) /\ more.stage = r.stage /\ more.page = r.page /\ Active(more)
  BY <1>2, Gathered DEF Active
<1> HIDE DEF more
<1>4. Queued(TexasListed(r), limit, most, stages) /\ Queued(TexasListed(more), limit, most, stages)
  BY <1>3, TexasListedQueued
<1>5. ASSUME ~LastPage(r) PROVE Queued(NextPage(more), limit, most, stages)
  <2>1. r.page <= MaxPages
    BY <1>5, PageBound DEF Queued, Sound
  <2> QED
    BY <1>3, <2>1, QueuedTurns
<1>6. Queued(Failed(r, "markup"), limit, most, stages)
  <2>1. Loose(r, limit, most, stages) /\ Distinct(r.out)
    BY DEF Queued, Sound, Apart
  <2> QED
    BY <2>1, QueuedEnds
<1> QED
  BY <1>1, <1>4, <1>5, <1>6 DEF q

LEMMA TexasDetailQueued ==
  ASSUME NEW limit \in Nat, NEW most \in Nat, Lesser(limit, MaxResults) <= most,
         NEW stages, "detail" \in stages,
         NEW r, Queued(r, limit, most, stages), Active(r), r.stage = "detail", NEW page
  PROVE  Queued(TexasDetail(r, page), limit, most, stages)
<1> DEFINE rest == [r EXCEPT !.details = @ + 1, !.queue = Tail(@)]
           row == Head(r.queue)
           next == TexasEmit(rest, row)
           q == TexasDetail(r, page)
<1>1. q = Failed(r, "markup") \/ q = TexasRest(next)
  BY DEF TexasDetail
<1>2. Alike(rest, r) /\ rest.held = r.held /\ rest.queue = Tail(r.queue)
  BY Fields DEF Alike, Queued, Sound, Loose
<1> HIDE DEF rest
<1>3. Waiting(rest, limit, most, stages) /\ row.id \notin Ids(rest.queue) /\ row.id \notin Ids(rest.out)
  BY <1>2, HeadTaken
<1> HIDE DEF row
<1>4. Waiting(next, limit, most, stages)
  BY <1>3, TexasEmitWaiting
<1> HIDE DEF next, q
<1>5. Queued(TexasRest(next), limit, most, stages)
  BY <1>4, TexasRestQueued
<1>6. Queued(Failed(r, "markup"), limit, most, stages)
  <2>1. Loose(r, limit, most, stages) /\ Distinct(r.out)
    BY DEF Queued, Sound, Apart
  <2> QED
    BY <2>1, QueuedEnds
<1> QED
  BY <1>1, <1>5, <1>6 DEF q

LEMMA QueuedParts ==
  ASSUME NEW limit, NEW most, NEW stages, NEW r, Queued(r, limit, most, stages)
  PROVE  /\ Loose(r, limit, most, stages) /\ Distinct(r.out)
         /\ \A why : Queued(Failed(r, why), limit, most, stages) /\ ~Active(Failed(r, why))
         /\ Queued(Done(r), limit, most, stages) /\ ~Active(Done(r))
<1>1. Loose(r, limit, most, stages) /\ Distinct(r.out)
  BY DEF Queued, Sound, Apart
<1>2. ASSUME NEW why PROVE Queued(Failed(r, why), limit, most, stages) /\ ~Active(Failed(r, why))
  <2>1. Queued(Failed(r, why), limit, most, stages)
    BY <1>1, QueuedEnds
  <2>2. ~Active(Failed(r, why))
    BY <1>1, Ended
  <2> QED
    BY <2>1, <2>2
<1>3. Queued(Done(r), limit, most, stages)
  BY <1>1, QueuedEnds
<1>4. ~Active(Done(r))
  BY <1>1, Ended
<1> QED
  BY <1>1, <1>2, <1>3, <1>4

\* The first of the rows that wait is yielded, and taken from them.
LEMMA HeadYielded ==
  ASSUME NEW limit, NEW most \in Nat, NEW stages, NEW r, Queued(r, limit, most, stages), Active(r),
         r.stage = "detail", NEW status
  PROVE  Waiting(Queueing(Yield(r, Head(r.queue), status), Tail(r.queue)), limit, most, stages)
<1> DEFINE row == Head(r.queue)
           s == Yield(r, row, status)
           q == Queueing(s, Tail(r.queue))
<1>1. Loose(r, limit, most, stages) /\ Len(r.out) < most /\ Len(r.out) \in Nat
  BY SequenceLength DEF Queued, Sound, Loose
<1>2. /\ IsSequence(r.queue) /\ r.queue # <<>> /\ Distinct(r.queue) /\ Distinct(r.held)
      /\ Distinct(r.out) /\ Ids(r.queue) \cap Ids(r.out) = {}
  BY DEF Queued, Sound, Loose, Apart
<1>3. /\ IsSequence(Tail(r.queue)) /\ Distinct(Tail(r.queue)) /\ row.id \notin Ids(Tail(r.queue))
      /\ Ids(Tail(r.queue)) \subseteq Ids(r.queue) /\ row.id \in Ids(r.queue)
  BY <1>2, Tailed
<1> HIDE DEF row
<1>4. Len(r.out) + 1 <= most
  BY <1>1
<1>5. Loose(s, limit, most, stages) /\ s.state = r.state /\ s.held = r.held
  BY <1>1, <1>4, Yielded
<1>6. Ids(s.out) = Ids(r.out) \cup {row.id}
  BY <1>1, <1>4, Yielded
<1>7. Distinct(r.out) /\ row.id \notin Ids(r.out) => Distinct(s.out)
  BY <1>1, <1>4, Yielded
<1> HIDE DEF s
<1>8. /\ DOMAIN q = DOMAIN Idle /\ q.state = s.state /\ q.stage = s.stage /\ q.page = s.page
      /\ q.attempt = s.attempt /\ q.limit = s.limit
      /\ q.held = s.held /\ q.queue = Tail(r.queue) /\ q.out = s.out
  BY <1>5, QueueFields DEF Loose
<1> HIDE DEF q
<1>9. Loose(q, limit, most, stages) /\ Active(q)
  BY <1>3, <1>5, <1>8 DEF Loose, Active
<1>10. Apart(q)
  BY <1>2, <1>3, <1>5, <1>6, <1>7, <1>8 DEF Apart
<1> QED
  BY <1>9, <1>10 DEF Waiting, q, s, row

\* The rows that survive a filter wait for their detail pages.
LEMMA Detailed ==
  ASSUME NEW limit, NEW most, NEW stages, "detail" \in stages,
         NEW r, Queued(r, limit, most, stages), Active(r), r.stage # "detail",
         NEW rows, IsSequence(rows), Distinct(rows), rows # <<>>
  PROVE  /\ Queued(Queueing(ToStage(r, "detail"), rows), limit, most, stages)
         /\ Queueing(ToStage(r, "detail"), rows).stage = "detail"
<1> DEFINE s == ToStage(r, "detail")
           q == Queueing(s, rows)
<1>1. /\ DOMAIN s = DOMAIN Idle /\ s.state = r.state /\ s.stage = "detail" /\ s.page = r.page
      /\ s.attempt = 0 /\ s.limit = r.limit
      /\ s.held = r.held /\ s.queue = r.queue /\ s.out = r.out
  BY Fields DEF ToStage, Queued, Sound, Loose
<1> HIDE DEF s
<1>2. /\ DOMAIN q = DOMAIN Idle /\ q.state = r.state /\ q.stage = "detail" /\ q.page = r.page
      /\ q.attempt = 0 /\ q.limit = r.limit
      /\ q.held = r.held /\ q.queue = rows /\ q.out = r.out
  BY <1>1, QueueFields
<1> HIDE DEF q
<1>3. 0 \in 0..MaxRetries /\ r.out = <<>>
  BY Numbers DEF Queued
<1>4. Sound(q, limit, most, stages)
  BY <1>2, <1>3 DEF Queued, Sound, Loose, Active
<1>5. Apart(q)
  BY <1>2, <1>3, EmptySequence DEF Queued, Apart
<1>6. Queued(q, limit, most, stages)
  BY <1>2, <1>4, <1>5 DEF Queued
<1> QED
  BY <1>2, <1>6 DEF q, s

-----------------------------------------------------------------------------
(* pennsylvania and cgi: a record that cannot be normalized, or whose       *)
(* detail page fails, is dropped; one record is looked for before the limit *)
(* is.                                                                       *)

LEMMA PennsylvaniaRestQueued ==
  ASSUME NEW limit \in Nat, NEW most \in Nat, Lesser(limit, MaxResults) <= most, 1 <= most,
         NEW stages, "detail" \in stages,
         NEW r, Waiting(r, limit, most, stages)
  PROVE  /\ Queued(PennsylvaniaRest(r), limit, most, stages)
         /\ Active(PennsylvaniaRest(r)) => PennsylvaniaRest(r).stage = "detail"
<1> DEFINE q == PennsylvaniaRest(r)
           bound == Lesser(limit, MaxResults)
<1>1. /\ Loose(r, limit, most, stages) /\ Distinct(r.out)
      /\ r.limit = limit /\ Len(r.out) \in Nat
  BY SequenceLength DEF Waiting, Apart, Loose
<1>2. \/ q = Done(r)
      \/ r.queue # <<>> /\ (r.out = <<>> \/ ~Full(r, bound)) /\ q = ToStage(r, "detail")
  BY <1>1 DEF PennsylvaniaRest
<1>3. bound \in Nat /\ bound <= most
  BY LesserBound
<1> HIDE DEF q, bound
<1>4. Queued(Done(r), limit, most, stages) /\ ~Active(Done(r))
  BY <1>1, QueuedEnds, Ended
<1>5. ASSUME r.queue # <<>>, r.out = <<>> \/ ~Full(r, bound)
      PROVE  Queued(ToStage(r, "detail"), limit, most, stages) /\ ToStage(r, "detail").stage = "detail"
  <2>1. Len(r.out) < most
    <3>1. r.out = <<>> => Len(r.out) = 0
      BY EmptySequence
    <3> QED
      BY <1>1, <1>3, <1>5, <3>1 DEF Full
  <2>2. Queued(ToStage(r, "detail"), limit, most, stages)
    BY <1>5, <2>1, WaitingAsks
  <2>3. ToStage(r, "detail").stage = "detail"
    BY <1>1, <1>5, <2>1, Staged
  <2> QED
    BY <2>2, <2>3
<1> QED
  BY <1>2, <1>4, <1>5 DEF q

LEMMA PennsylvaniaListedQueued ==
  ASSUME NEW limit \in Nat, NEW most \in Nat, Lesser(limit, MaxResults) <= most,
         NEW stages, "detail" \in stages,
         NEW r, Queued(r, limit, most, stages), Active(r), r.stage # "detail"
  PROVE  /\ Queued(PennsylvaniaListed(r), limit, most, stages)
         /\ Active(PennsylvaniaListed(r)) => PennsylvaniaListed(r).stage = "detail"
<1>1. IsSequence(r.held) /\ Distinct(r.held)
  BY DEF Queued, Sound, Loose, Apart
<1>2. Waiting(Queueing(r, r.held), limit, most, stages)
  BY <1>1, Loaded
<1>3. PennsylvaniaListed(r) = PennsylvaniaRest(Queueing(r, r.held))
  BY DEF PennsylvaniaListed, Queueing
<1>4. 1 <= most
  BY SequenceLength DEF Queued, Sound, Loose
<1> QED
  BY <1>2, <1>3, <1>4, PennsylvaniaRestQueued

\* The first of the rows that wait is dropped, or yielded and dropped.
LEMMA PennsylvaniaDroppedQueued ==
  ASSUME NEW limit \in Nat, NEW most \in Nat, Lesser(limit, MaxResults) <= most,
         NEW stages, "detail" \in stages,
         NEW r, Queued(r, limit, most, stages), Active(r), r.stage = "detail"
  PROVE  /\ Queued(PennsylvaniaDropped(r), limit, most, stages)
         /\ Active(PennsylvaniaDropped(r)) => PennsylvaniaDropped(r).stage = "detail"
         /\ Queued(PennsylvaniaDropped(PennsylvaniaEmit(r, Head(r.queue))), limit, most, stages)
         /\ Active(PennsylvaniaDropped(PennsylvaniaEmit(r, Head(r.queue))))
            => PennsylvaniaDropped(PennsylvaniaEmit(r, Head(r.queue))).stage = "detail"
<1> DEFINE row == Head(r.queue)
           status == PennsylvaniaStatus(row.says)
           plain == Queueing(r, Tail(r.queue))
           more == Queueing(Yield(r, row, status), Tail(r.queue))
           dropped == PennsylvaniaDropped(r)
           emitted == PennsylvaniaDropped(PennsylvaniaEmit(r, row))
<1>1. Loose(r, limit, most, stages) /\ Len(r.out) + 1 <= most /\ 1 <= most
  BY SequenceLength DEF Queued, Sound, Loose
<1>2. Yield(r, row, status).queue = r.queue
  BY <1>1, Yielded
<1>3. dropped = PennsylvaniaRest(plain)
  BY DEF PennsylvaniaDropped, Queueing
<1>4. PennsylvaniaEmit(r, row) = r \/ PennsylvaniaEmit(r, row) = Yield(r, row, status)
  BY DEF PennsylvaniaEmit
<1>5. PennsylvaniaDropped(Yield(r, row, status)) = PennsylvaniaRest(more)
  BY <1>2 DEF PennsylvaniaDropped, Queueing
<1>6. Waiting(plain, limit, most, stages)
  <2>1. Alike(plain, r) /\ plain.held = r.held /\ plain.queue = Tail(r.queue)
    BY <1>1, QueueFields DEF Alike, Loose
  <2> HIDE DEF plain
  <2> QED
    BY <2>1, HeadTaken
<1>7. Waiting(more, limit, most, stages)
  BY HeadYielded
<1>8. emitted = PennsylvaniaRest(plain) \/ emitted = PennsylvaniaRest(more)
  BY <1>3, <1>4, <1>5
<1> HIDE DEF plain, more, dropped, emitted, row, status
<1>9. /\ Queued(PennsylvaniaRest(plain), limit, most, stages)
      /\ Active(PennsylvaniaRest(plain)) => PennsylvaniaRest(plain).stage = "detail"
  BY <1>1, <1>6, PennsylvaniaRestQueued
<1>10. /\ Queued(PennsylvaniaRest(more), limit, most, stages)
       /\ Active(PennsylvaniaRest(more)) => PennsylvaniaRest(more).stage = "detail"
  BY <1>1, <1>7, PennsylvaniaRestQueued
<1>11. /\ Queued(dropped, limit, most, stages)
       /\ Active(dropped) => dropped.stage = "detail"
  BY <1>3, <1>9
<1>12. /\ Queued(emitted, limit, most, stages)
       /\ Active(emitted) => emitted.stage = "detail"
  BY <1>8, <1>9, <1>10
<1> QED
  BY <1>11, <1>12 DEF dropped, emitted, row

LEMMA CgiRestQueued ==
  ASSUME NEW limit \in Nat, NEW most \in Nat, Lesser(limit, MaxResults) <= most, 1 <= most,
         NEW stages, "detail" \in stages,
         NEW r, Waiting(r, limit, most, stages)
  PROVE  /\ Queued(CgiRest(r), limit, most, stages)
         /\ Active(CgiRest(r)) => CgiRest(r).stage = "detail"
<1> DEFINE q == CgiRest(r)
           bound == Lesser(limit, MaxResults)
<1>1. /\ Loose(r, limit, most, stages) /\ Distinct(r.out)
      /\ r.limit = limit /\ Len(r.out) \in Nat
  BY SequenceLength DEF Waiting, Apart, Loose
<1>2. \/ q = Done(r)
      \/ r.queue # <<>> /\ (r.out = <<>> \/ ~Full(r, bound)) /\ q = ToStage(r, "detail")
  BY <1>1 DEF CgiRest
<1>3. bound \in Nat /\ bound <= most
  BY LesserBound
<1> HIDE DEF q, bound
<1>4. Queued(Done(r), limit, most, stages) /\ ~Active(Done(r))
  BY <1>1, QueuedEnds, Ended
<1>5. ASSUME r.queue # <<>>, r.out = <<>> \/ ~Full(r, bound)
      PROVE  Queued(ToStage(r, "detail"), limit, most, stages) /\ ToStage(r, "detail").stage = "detail"
  <2>1. Len(r.out) < most
    <3>1. r.out = <<>> => Len(r.out) = 0
      BY EmptySequence
    <3> QED
      BY <1>1, <1>3, <1>5, <3>1 DEF Full
  <2>2. Queued(ToStage(r, "detail"), limit, most, stages)
    BY <1>5, <2>1, WaitingAsks
  <2>3. ToStage(r, "detail").stage = "detail"
    BY <1>1, <1>5, <2>1, Staged
  <2> QED
    BY <2>2, <2>3
<1> QED
  BY <1>2, <1>4, <1>5 DEF q

LEMMA CgiListedQueued ==
  ASSUME NEW limit \in Nat, NEW most \in Nat, Lesser(limit, MaxResults) <= most,
         NEW stages, "detail" \in stages,
         NEW r, Queued(r, limit, most, stages), Active(r), r.stage # "detail"
  PROVE  /\ Queued(CgiListed(r), limit, most, stages)
         /\ Active(CgiListed(r)) => CgiListed(r).stage = "detail"
<1>1. IsSequence(r.held) /\ Distinct(r.held)
  BY DEF Queued, Sound, Loose, Apart
<1>2. Waiting(Queueing(r, r.held), limit, most, stages)
  BY <1>1, Loaded
<1>3. CgiListed(r) = CgiRest(Queueing(r, r.held))
  BY DEF CgiListed, Queueing
<1>4. 1 <= most
  BY SequenceLength DEF Queued, Sound, Loose
<1> QED
  BY <1>2, <1>3, <1>4, CgiRestQueued

\* The first of the rows that wait is dropped, or yielded and dropped.
LEMMA CgiDroppedQueued ==
  ASSUME NEW limit \in Nat, NEW most \in Nat, Lesser(limit, MaxResults) <= most,
         NEW stages, "detail" \in stages,
         NEW r, Queued(r, limit, most, stages), Active(r), r.stage = "detail"
  PROVE  /\ Queued(CgiDropped(r), limit, most, stages)
         /\ Active(CgiDropped(r)) => CgiDropped(r).stage = "detail"
         /\ Queued(CgiDropped(CgiEmit(r, Head(r.queue))), limit, most, stages)
         /\ Active(CgiDropped(CgiEmit(r, Head(r.queue))))
            => CgiDropped(CgiEmit(r, Head(r.queue))).stage = "detail"
<1> DEFINE row == Head(r.queue)
           status == CgiStatus(row.says)
           plain == Queueing(r, Tail(r.queue))
           more == Queueing(Yield(r, row, status), Tail(r.queue))
           dropped == CgiDropped(r)
           emitted == CgiDropped(CgiEmit(r, row))
<1>1. Loose(r, limit, most, stages) /\ Len(r.out) + 1 <= most /\ 1 <= most
  BY SequenceLength DEF Queued, Sound, Loose
<1>2. Yield(r, row, status).queue = r.queue
  BY <1>1, Yielded
<1>3. dropped = CgiRest(plain)
  BY DEF CgiDropped, Queueing
<1>4. CgiEmit(r, row) = r \/ CgiEmit(r, row) = Yield(r, row, status)
  BY DEF CgiEmit
<1>5. CgiDropped(Yield(r, row, status)) = CgiRest(more)
  BY <1>2 DEF CgiDropped, Queueing
<1>6. Waiting(plain, limit, most, stages)
  <2>1. Alike(plain, r) /\ plain.held = r.held /\ plain.queue = Tail(r.queue)
    BY <1>1, QueueFields DEF Alike, Loose
  <2> HIDE DEF plain
  <2> QED
    BY <2>1, HeadTaken
<1>7. Waiting(more, limit, most, stages)
  BY HeadYielded
<1>8. emitted = CgiRest(plain) \/ emitted = CgiRest(more)
  BY <1>3, <1>4, <1>5
<1> HIDE DEF plain, more, dropped, emitted, row, status
<1>9. /\ Queued(CgiRest(plain), limit, most, stages)
      /\ Active(CgiRest(plain)) => CgiRest(plain).stage = "detail"
  BY <1>1, <1>6, CgiRestQueued
<1>10. /\ Queued(CgiRest(more), limit, most, stages)
       /\ Active(CgiRest(more)) => CgiRest(more).stage = "detail"
  BY <1>1, <1>7, CgiRestQueued
<1>11. /\ Queued(dropped, limit, most, stages)
       /\ Active(dropped) => dropped.stage = "detail"
  BY <1>3, <1>9
<1>12. /\ Queued(emitted, limit, most, stages)
       /\ Active(emitted) => emitted.stage = "detail"
  BY <1>8, <1>9, <1>10
<1> QED
  BY <1>11, <1>12 DEF dropped, emitted, row

\* The page of a listing is one of those the bound allows.
Paging(r) == Active(r) /\ r.stage = "page" => r.page <= MaxPages

LEMMA PennsylvaniaPageQueued ==
  ASSUME NEW limit \in Nat, NEW most \in Nat, Lesser(limit, MaxResults) <= most,
         NEW stages, {"session", "page", "detail"} \subseteq stages,
         NEW r, Queued(r, limit, most, stages), Paging(r), Active(r), r.stage = "page",
         NEW page, IsSequence(page.rows)
  PROVE  Queued(PennsylvaniaPage(r, page), limit, most, stages) /\ Paging(PennsylvaniaPage(r, page))
<1> DEFINE held == FoldLeft(KeepLast, r.held, Known(page.rows))
           more == Gathering(r, page, held)
           turned == NextPage(r)
           back == ToStage(turned, "session")
           renewed == [back EXCEPT !.renewed = TRUE]
           q == PennsylvaniaPage(r, page)
<1>1. \/ q = renewed
      \/ q = PennsylvaniaListed(r)
      \/ q = PennsylvaniaListed(more)
      \/ ~LastPage(r) /\ q = NextPage(more)
  BY DEF PennsylvaniaPage, Gathering
<1>2. IsSequence(held) /\ Distinct(held)
  BY GatheredPages
<1> HIDE DEF held, q
<1>3. Queued(more, limit, most, stages) /\ more.stage = r.stage /\ more.page = r.page /\ Active(more)
  BY <1>2, Gathered DEF Active
<1> HIDE DEF more
<1>4. /\ Queued(PennsylvaniaListed(r), limit, most, stages)
      /\ Active(PennsylvaniaListed(r)) => PennsylvaniaListed(r).stage = "detail"
  BY PennsylvaniaListedQueued
<1>5. /\ Queued(PennsylvaniaListed(more), limit, most, stages)
      /\ Active(PennsylvaniaListed(more)) => PennsylvaniaListed(more).stage = "detail"
  BY <1>3, PennsylvaniaListedQueued
<1>6. ASSUME ~LastPage(r) PROVE Queued(NextPage(more), limit, most, stages) /\ Paging(NextPage(more))
  <2>1. r.page \in Nat /\ r.page + 1 <= MaxPages
    BY <1>6, PageBound, Numbers DEF Queued, Sound, LastPage
  <2>2. Queued(NextPage(more), limit, most, stages)
    BY <1>3, <2>1, QueuedTurns, Numbers
  <2>3. NextPage(more).page = more.page + 1
    BY <1>3, Fields DEF NextPage, Queued, Sound, Loose
  <2> QED
    BY <1>3, <2>1, <2>2, <2>3 DEF Paging
<1>7. Queued(renewed, limit, most, stages) /\ renewed.stage = "session"
  <2>1. r.page <= MaxPages
    BY DEF Paging
  <2>2. Queued(turned, limit, most, stages) /\ turned.stage = "page" /\ Active(turned)
    BY <2>1, QueuedTurns
  <2> HIDE DEF turned
  <2>3. Queued(back, limit, most, stages) /\ back.stage = "session" /\ Active(back)
    BY <2>2, QueuedStaged
  <2> HIDE DEF back
  <2>4. /\ DOMAIN renewed = DOMAIN Idle /\ renewed.state = back.state /\ renewed.stage = back.stage
        /\ renewed.page = back.page /\ renewed.attempt = back.attempt /\ renewed.limit = back.limit
        /\ renewed.held = back.held /\ renewed.queue = back.queue /\ renewed.out = back.out
    BY <2>3, Fields DEF Queued, Sound, Loose
  <2> HIDE DEF renewed
  <2> QED
    BY <2>3, <2>4 DEF Queued, Sound, Loose, Apart, Active
<1>8. q # renewed => Queued(q, limit, most, stages) /\ Paging(q)
  BY <1>1, <1>4, <1>5, <1>6 DEF Paging
<1>9. q = renewed => Queued(q, limit, most, stages) /\ Paging(q)
  <2> HIDE DEF renewed
  <2> QED
    BY <1>7 DEF Paging
<1> QED
  BY <1>8, <1>9 DEF q

LEMMA PennsylvaniaSessionQueued ==
  ASSUME NEW limit \in Nat, NEW most \in Nat, Lesser(limit, MaxResults) <= most,
         NEW stages, {"session", "page", "detail"} \subseteq stages,
         NEW r, Queued(r, limit, most, stages), Active(r), r.stage = "session"
  PROVE  Queued(PennsylvaniaSession(r), limit, most, stages) /\ Paging(PennsylvaniaSession(r))
<1>1. /\ Queued(PennsylvaniaListed(r), limit, most, stages)
      /\ Active(PennsylvaniaListed(r)) => PennsylvaniaListed(r).stage = "detail"
  BY PennsylvaniaListedQueued
<1>2. Queued(ToStage(r, "page"), limit, most, stages) /\ ToStage(r, "page").page = r.page
  BY QueuedStaged
<1>3. r.page > MaxPages \/ r.page <= MaxPages
  BY PageBound, Numbers DEF Queued, Sound
<1> QED
  BY <1>1, <1>2, <1>3 DEF PennsylvaniaSession, Paging

LEMMA PennsylvaniaDetailQueued ==
  ASSUME NEW limit \in Nat, NEW most \in Nat, Lesser(limit, MaxResults) <= most,
         NEW stages, "detail" \in stages,
         NEW r, Queued(r, limit, most, stages), Active(r), r.stage = "detail"
  PROVE  /\ Queued(PennsylvaniaDetail(r), limit, most, stages) /\ Paging(PennsylvaniaDetail(r))
         /\ Queued(PennsylvaniaDropped(r), limit, most, stages) /\ Paging(PennsylvaniaDropped(r))
<1>1. /\ Queued(PennsylvaniaDropped(r), limit, most, stages)
      /\ Active(PennsylvaniaDropped(r)) => PennsylvaniaDropped(r).stage = "detail"
  BY PennsylvaniaDroppedQueued
<1>2. /\ Queued(PennsylvaniaDetail(r), limit, most, stages)
      /\ Active(PennsylvaniaDetail(r)) => PennsylvaniaDetail(r).stage = "detail"
  BY PennsylvaniaDroppedQueued DEF PennsylvaniaDetail
<1> QED
  BY <1>1, <1>2 DEF Paging

LEMMA CgiPageQueued ==
  ASSUME NEW limit \in Nat, NEW most \in Nat, Lesser(limit, MaxResults) <= most,
         NEW stages, {"session", "form", "page", "detail"} \subseteq stages,
         NEW r, Queued(r, limit, most, stages), Active(r), r.stage = "page",
         NEW page, IsSequence(page.rows)
  PROVE  Queued(CgiPage(r, page), limit, most, stages)
<1> DEFINE held == FoldLeft(KeepLast, r.held, Known(page.rows))
           more == Gathering(r, page, held)
           back == ToStage(r, "session")
           renewed == [back EXCEPT !.renewed = TRUE]
           q == CgiPage(r, page)
<1>1. \/ q = renewed
      \/ q = Failed(r, "malformed")
      \/ q = CgiListed(r)
      \/ q = CgiListed(more)
      \/ ~LastPage(r) /\ q = NextPage(more)
  BY DEF CgiPage, Gathering
<1>2. IsSequence(held) /\ Distinct(held)
  BY GatheredPages
<1> HIDE DEF held, q
<1>3. Queued(more, limit, most, stages) /\ more.stage = r.stage /\ more.page = r.page /\ Active(more)
  BY <1>2, Gathered DEF Active
<1> HIDE DEF more
<1>4. Queued(CgiListed(r), limit, most, stages)
  BY CgiListedQueued
<1>5. Queued(CgiListed(more), limit, most, stages)
  BY <1>3, CgiListedQueued
<1>6. ASSUME ~LastPage(r) PROVE Queued(NextPage(more), limit, most, stages)
  <2>1. r.page <= MaxPages
    BY <1>6, PageBound DEF Queued, Sound
  <2> QED
    BY <1>3, <2>1, QueuedTurns
<1>7. Queued(renewed, limit, most, stages)
  <2>1. Queued(back, limit, most, stages)
    BY QueuedStaged
  <2> HIDE DEF back
  <2>2. /\ DOMAIN renewed = DOMAIN Idle /\ renewed.state = back.state /\ renewed.stage = back.stage
        /\ renewed.page = back.page /\ renewed.attempt = back.attempt /\ renewed.limit = back.limit
        /\ renewed.held = back.held /\ renewed.queue = back.queue /\ renewed.out = back.out
    BY <2>1, Fields DEF Queued, Sound, Loose
  <2> HIDE DEF renewed
  <2> QED
    BY <2>1, <2>2 DEF Queued, Sound, Loose, Apart, Active
<1>8. Queued(Failed(r, "malformed"), limit, most, stages)
  BY QueuedParts
<1> HIDE DEF renewed
<1> QED
  BY <1>1, <1>4, <1>5, <1>6, <1>7, <1>8 DEF q

LEMMA CgiSessionQueued ==
  ASSUME NEW limit \in Nat, NEW most \in Nat, NEW stages, {"form", "page"} \subseteq stages,
         NEW r, Queued(r, limit, most, stages), Active(r), r.stage # "detail", NEW page
  PROVE  Queued(CgiSession(r, page), limit, most, stages)
<1> DEFINE q == CgiSession(r, page)
<1>1. \/ q = Failed(r, "malformed") \/ q = Failed(r, "refused")
      \/ q = ToStage(r, "form") \/ q = ToStage(r, "page")
  BY DEF CgiSession
<1> HIDE DEF q
<1>2. Queued(Failed(r, "malformed"), limit, most, stages) /\ Queued(Failed(r, "refused"), limit, most, stages)
  BY QueuedParts
<1>3. Queued(ToStage(r, "form"), limit, most, stages)
  BY QueuedStaged
<1>4. Queued(ToStage(r, "page"), limit, most, stages)
  BY QueuedStaged
<1> QED
  BY <1>1, <1>2, <1>3, <1>4 DEF q

LEMMA CgiDetailQueued ==
  ASSUME NEW limit \in Nat, NEW most \in Nat, Lesser(limit, MaxResults) <= most,
         NEW stages, "detail" \in stages,
         NEW r, Queued(r, limit, most, stages), Active(r), r.stage = "detail", NEW page
  PROVE  Queued(CgiDetail(r, page), limit, most, stages) /\ Queued(CgiDropped(r), limit, most, stages)
BY CgiDroppedQueued DEF CgiDetail

-----------------------------------------------------------------------------
(* bonfire, ionwave and jaggaer.                                            *)

\* After a row was yielded: the end, or the next row.
LEMMA NextRowQueued ==
  ASSUME NEW limit \in Nat, NEW most \in Nat, Lesser(limit, MaxResults) <= most,
         NEW stages, "detail" \in stages, NEW r, Waiting(r, limit, most, stages)
  PROVE  /\ Queued(Done(r), limit, most, stages)
         /\ r.queue # <<>> /\ ~Full(r, Lesser(limit, MaxResults))
            => Queued(ToStage(r, "detail"), limit, most, stages)
<1>1. Loose(r, limit, most, stages) /\ Distinct(r.out) /\ Len(r.out) \in Nat
  BY SequenceLength DEF Waiting, Apart, Loose
<1>2. Queued(Done(r), limit, most, stages)
  BY <1>1, QueuedEnds
<1>3. ASSUME r.queue # <<>>, ~Full(r, Lesser(limit, MaxResults))
      PROVE  Queued(ToStage(r, "detail"), limit, most, stages)
  <2> DEFINE bound == Lesser(limit, MaxResults)
  <2>1. bound \in Nat /\ bound <= most /\ ~Full(r, bound)
    BY <1>3, LesserBound
  <2> HIDE DEF bound
  <2>2. Len(r.out) < most
    BY <1>1, <2>1 DEF Full
  <2> QED
    BY <1>3, <2>2, WaitingAsks
<1> QED
  BY <1>2, <1>3

LEMMA CollectListedQueued ==
  ASSUME NEW limit \in Nat, NEW most \in Nat, NEW stages, "detail" \in stages,
         NEW r, Queued(r, limit, most, stages), Active(r), r.stage # "detail", NEW criteria
  PROVE  Queued(CollectListed(r, criteria), limit, most, stages)
<1> DEFINE kept == Meeting(r.held, r.wanted, criteria)
           q == CollectListed(r, criteria)
<1>1. q = IF kept = <<>> THEN Done(r) ELSE Queueing(ToStage(r, "detail"), kept)
  BY DEF CollectListed, Queueing
<1>2. IsSequence(kept) /\ Distinct(kept)
  BY Filtered DEF Queued, Sound, Loose, Apart
<1> HIDE DEF kept, q
<1>3. Queued(Done(r), limit, most, stages)
  BY QueuedParts
<1>4. kept # <<>> => Queued(Queueing(ToStage(r, "detail"), kept), limit, most, stages)
  BY <1>2, Detailed
<1> QED
  BY <1>1, <1>3, <1>4 DEF q

LEMMA CollectPageQueued ==
  ASSUME NEW limit \in Nat, NEW most \in Nat, NEW stages, "detail" \in stages,
         NEW r, Queued(r, limit, most, stages), Active(r), r.stage # "detail",
         NEW page, IsSequence(page.rows), NEW criteria, NEW single
  PROVE  Queued(CollectPage(r, page, criteria, single), limit, most, stages)
<1> DEFINE held == FoldLeft(KeepLast, r.held, Known(page.rows))
           more == Gathering(r, page, held)
           q == CollectPage(r, page, criteria, single)
<1>1. \/ q = Failed(r, "malformed")
      \/ q = CollectListed(r, criteria)
      \/ q = CollectListed(more, criteria)
      \/ ~LastPage(r) /\ q = NextPage(more)
  BY DEF CollectPage, Gathering
<1>2. IsSequence(held) /\ Distinct(held)
  BY GatheredPages
<1> HIDE DEF held, q
<1>3. Queued(more, limit, most, stages) /\ more.stage = r.stage /\ more.page = r.page /\ Active(more)
  BY <1>2, Gathered DEF Active
<1> HIDE DEF more
<1>4. Queued(CollectListed(r, criteria), limit, most, stages)
  BY CollectListedQueued
<1>5. Queued(CollectListed(more, criteria), limit, most, stages)
  BY <1>3, CollectListedQueued
<1>6. ASSUME ~LastPage(r) PROVE Queued(NextPage(more), limit, most, stages)
  <2>1. r.page <= MaxPages
    BY <1>6, PageBound DEF Queued, Sound
  <2> QED
    BY <1>3, <2>1, QueuedTurns
<1>7. Queued(Failed(r, "malformed"), limit, most, stages)
  BY QueuedParts
<1> QED
  BY <1>1, <1>4, <1>5, <1>6, <1>7 DEF q

LEMMA CollectDetailQueued ==
  ASSUME NEW limit \in Nat, NEW most \in Nat, Lesser(limit, MaxResults) <= most,
         NEW stages, "detail" \in stages,
         NEW r, Queued(r, limit, most, stages), Active(r), r.stage = "detail", NEW page, NEW status
  PROVE  Queued(CollectDetail(r, page, status), limit, most, stages)
<1> DEFINE row == Head(r.queue)
           bound == Lesser(limit, MaxResults)
           next == Queueing(Yield(r, row, status), Tail(r.queue))
           q == CollectDetail(r, page, status)
<1>1. r.limit = limit /\ Loose(r, limit, most, stages) /\ Len(r.out) + 1 <= most
  BY SequenceLength DEF Queued, Sound, Loose
<1>2. Yield(r, row, status).queue = r.queue
  BY <1>1, Yielded
<1> DEFINE p == [Yield(r, row, status) EXCEPT !.queue = Tail(@)]
<1>3. next = p
  BY <1>2 DEF Queueing
<1>4. \/ q = Failed(r, "malformed")
      \/ q = Done(next)
      \/ next.queue # <<>> /\ ~Full(next, bound) /\ q = ToStage(next, "detail")
  <2>1. \/ q = Failed(r, "malformed")
        \/ q = Done(p)
        \/ p.queue # <<>> /\ ~Full(p, Lesser(r.limit, MaxResults)) /\ q = ToStage(p, "detail")
    BY DEF CollectDetail
  <2> HIDE DEF p, q, next
  <2> QED
    BY <1>1, <1>3, <2>1
<1>5. Waiting(next, limit, most, stages)
  BY HeadYielded
<1> HIDE DEF next, q, bound
<1>6. /\ Queued(Done(next), limit, most, stages)
      /\ next.queue # <<>> /\ ~Full(next, bound) => Queued(ToStage(next, "detail"), limit, most, stages)
  BY <1>5, NextRowQueued DEF bound
<1>7. Queued(Failed(r, "malformed"), limit, most, stages)
  BY QueuedParts
<1> QED
  BY <1>4, <1>6, <1>7 DEF q

-----------------------------------------------------------------------------
(* bidnet, public_purchase, planetbids, maryland, georgia and demandstar:   *)
(* the limit is first looked at when the listing has been read.              *)

Listed(r, limit, most, stages) ==
  Queued(r, limit, IF Active(r) /\ r.stage # "detail" THEN 1 ELSE most, stages)

\* A run without records keeps any limit.
LEMMA ListedEnds ==
  ASSUME NEW limit \in Nat, NEW most \in Nat, NEW stages,
         NEW r, Queued(r, limit, 1, stages), Active(r), r.stage # "detail"
  PROVE  /\ Loose(r, limit, most, stages)
         /\ Listed(Done(r), limit, most, stages)
         /\ \A why : Listed(Failed(r, why), limit, most, stages)
<1>1. r.out = <<>> /\ Distinct(r.out) /\ Len(r.out) = 0
  BY EmptySequence DEF Queued, Apart
<1>2. Loose(r, limit, most, stages)
  BY <1>1 DEF Queued, Sound, Loose
<1>3. Queued(Done(r), limit, most, stages) /\ ~Active(Done(r))
  BY <1>1, <1>2, QueuedEnds, Ended
<1>4. ASSUME NEW why PROVE Queued(Failed(r, why), limit, most, stages) /\ ~Active(Failed(r, why))
  BY <1>1, <1>2, QueuedEnds, Ended
<1> QED
  BY <1>2, <1>3, <1>4 DEF Listed

LEMMA ListingFilteredListed ==
  ASSUME NEW limit \in Nat, NEW most \in Nat, Lesser(limit, MaxResults) <= most,
         NEW stages, "detail" \in stages,
         NEW r, Queued(r, limit, 1, stages), Active(r), r.stage # "detail", NEW criteria
  PROVE  Listed(ListingFiltered(r, criteria), limit, most, stages)
<1> DEFINE kept == Meeting(r.held, r.wanted, criteria)
           bound == Lesser(limit, MaxResults)
           q == ListingFiltered(r, criteria)
           s == ToStage(r, "detail")
           p == [s EXCEPT !.queue = kept, !.held = <<>>]
<1>1. r.limit = limit
  BY DEF Queued, Sound, Loose
<1>2. q = Done(r) \/ (kept # <<>> /\ bound # 0 /\ q = p)
  BY <1>1 DEF ListingFiltered, ListingBound
<1>3. IsSequence(kept) /\ Distinct(kept)
  BY Filtered DEF Queued, Sound, Loose, Apart
<1>4. bound \in Nat
  BY LesserBound
<1>5. /\ DOMAIN s = DOMAIN Idle /\ s.state = r.state /\ s.stage = "detail" /\ s.page = r.page
      /\ s.attempt = 0 /\ s.limit = r.limit
      /\ s.held = r.held /\ s.queue = r.queue /\ s.out = r.out
  BY Fields DEF ToStage, Queued, Sound, Loose
<1> HIDE DEF kept, s, q, bound
<1>6. /\ DOMAIN p = DOMAIN Idle /\ p.state = r.state /\ p.stage = "detail" /\ p.page = r.page
      /\ p.attempt = 0 /\ p.limit = r.limit
      /\ p.held = <<>> /\ p.queue = kept /\ p.out = r.out
  BY <1>5, Fields
<1> HIDE DEF p
<1>7. r.out = <<>> /\ Len(r.out) = 0 /\ 0 \in 0..MaxRetries
  BY Numbers, EmptySequence DEF Queued
<1>8. ASSUME kept # <<>>, bound # 0 PROVE Listed(p, limit, most, stages)
  <2>1. 0 < most
    BY <1>4, <1>8 DEF bound
  <2>2. Sound(p, limit, most, stages)
    BY <1>3, <1>6, <1>7, <1>8, <2>1, EmptySequence DEF Queued, Sound, Loose, Active
  <2>3. Apart(p)
    BY <1>3, <1>6, <1>7, EmptySequence DEF Apart
  <2>4. Queued(p, limit, most, stages)
    BY <1>6, <2>2, <2>3 DEF Queued
  <2> QED
    BY <1>6, <2>4 DEF Listed
<1>9. Listed(Done(r), limit, most, stages)
  BY ListedEnds
<1> QED
  BY <1>2, <1>8, <1>9 DEF q

LEMMA ListingPageListed ==
  ASSUME NEW limit \in Nat, NEW most \in Nat, Lesser(limit, MaxResults) <= most,
         NEW stages, "detail" \in stages,
         NEW r, Queued(r, limit, 1, stages), Active(r), r.stage # "detail",
         NEW page, IsSequence(page.rows), NEW boundary, NEW criteria
  PROVE  Listed(ListingPage(r, page, boundary, criteria), limit, most, stages)
<1> DEFINE usable == UsableRows(page.rows)
           held == FoldLeft(KeepFirst, r.held, usable)
           more == Gathering(r, page, held)
           q == ListingPage(r, page, boundary, criteria)
<1>1. \/ q = Failed(r, "refused") \/ q = Failed(r, "markup")
      \/ q = ListingFiltered(r, criteria)
      \/ q = ListingFiltered(more, criteria)
      \/ ~LastPage(r) /\ q = NextPage(more)
  BY DEF ListingPage, Gathering
<1>2. IsSequence(usable) /\ IsSequence(r.held) /\ Distinct(r.held)
  BY Trimmed DEF Queued, Sound, Loose, Apart
<1> HIDE DEF usable
<1>3. IsSequence(held) /\ Distinct(held)
  BY <1>2, KeepFirstAll
<1> HIDE DEF held, q
<1>4. Queued(more, limit, 1, stages) /\ more.stage = r.stage /\ more.page = r.page /\ Active(more)
  BY <1>3, Gathered DEF Active
<1> HIDE DEF more
<1>5. Listed(ListingFiltered(r, criteria), limit, most, stages)
  BY ListingFilteredListed
<1>6. Listed(ListingFiltered(more, criteria), limit, most, stages)
  BY <1>4, ListingFilteredListed
<1>7. ASSUME ~LastPage(r) PROVE Listed(NextPage(more), limit, most, stages)
  <2>1. r.page <= MaxPages
    BY <1>7, PageBound DEF Queued, Sound
  <2>2. Queued(NextPage(more), limit, 1, stages) /\ NextPage(more).stage = more.stage /\ Active(NextPage(more))
    BY <1>4, <2>1, QueuedTurns
  <2> QED
    BY <1>4, <2>2 DEF Listed
<1>8. Listed(Failed(r, "refused"), limit, most, stages) /\ Listed(Failed(r, "markup"), limit, most, stages)
  BY ListedEnds
<1> QED
  BY <1>1, <1>5, <1>6, <1>7, <1>8 DEF q

LEMMA ListingDetailListed ==
  ASSUME NEW limit \in Nat, NEW most \in Nat, Lesser(limit, MaxResults) <= most,
         NEW stages, "detail" \in stages,
         NEW r, Queued(r, limit, most, stages), Active(r), r.stage = "detail", NEW status
  PROVE  Listed(ListingDetail(r, status), limit, most, stages)
<1> DEFINE row == Head(r.queue)
           bound == Lesser(limit, MaxResults)
           next == Queueing(Yield(r, row, status), Tail(r.queue))
           q == ListingDetail(r, status)
<1>1. r.limit = limit /\ Loose(r, limit, most, stages) /\ Len(r.out) + 1 <= most
  BY SequenceLength DEF Queued, Sound, Loose
<1>2. Yield(r, row, status).queue = r.queue
  BY <1>1, Yielded
<1> DEFINE p == [Yield(r, row, status) EXCEPT !.queue = Tail(@)]
<1>3. next = p
  BY <1>2 DEF Queueing
<1>4. Waiting(next, limit, most, stages)
  BY HeadYielded
<1>5. next.limit = limit
  BY <1>4 DEF Waiting, Loose
<1>6. \/ q = Done(next)
      \/ next.queue # <<>> /\ ~Full(next, bound) /\ q = ToStage(next, "detail")
  <2>1. \/ q = Done(p)
        \/ p.queue # <<>> /\ ~Full(p, Lesser(r.limit, MaxResults)) /\ q = ToStage(p, "detail")
    BY DEF ListingDetail, ListingBound
  <2> HIDE DEF p, q, next
  <2> QED
    BY <1>1, <1>3, <1>5, <2>1
<1> HIDE DEF next, q, bound
<1>7. /\ Queued(Done(next), limit, most, stages)
      /\ next.queue # <<>> /\ ~Full(next, bound) => Queued(ToStage(next, "detail"), limit, most, stages)
  BY <1>4, NextRowQueued DEF bound
<1>8. ~Active(Done(next)) /\ ToStage(next, "detail").stage = "detail"
  BY <1>4, Fields DEF Done, ToStage, Active, Waiting, Loose
<1> QED
  BY <1>6, <1>7, <1>8 DEF q, Listed

-----------------------------------------------------------------------------
(* bidbuy and rivip: the new rows of a page are completed before the next    *)
(* page is asked.                                                            *)

Fresh(r, limit, most, stages) ==
  /\ Sound(r, limit, most, stages)
  /\ Apart(r)
  /\ Active(r) /\ r.stage = "detail" => r.page <= MaxPages

\* Between two requests, with room for a record.
Clear(r, limit, most, stages) ==
  /\ Loose(r, limit, most, stages) /\ Active(r) /\ r.page <= MaxPages
  /\ Distinct(r.held) /\ Distinct(r.out) /\ Len(r.out) < most

LEMMA FreshEnds ==
  ASSUME NEW limit, NEW most, NEW stages, NEW r, Loose(r, limit, most, stages), Distinct(r.out)
  PROVE  /\ Fresh(Done(r), limit, most, stages)
         /\ \A why : Fresh(Failed(r, why), limit, most, stages)
<1>1. Fresh(Done(r), limit, most, stages)
  <2>1. Sound(Done(r), limit, most, stages) /\ ~Active(Done(r))
    BY Ended
  <2>2. Apart(Done(r))
    BY Ended
  <2> QED
    BY <2>1, <2>2 DEF Fresh
<1>2. ASSUME NEW why PROVE Fresh(Failed(r, why), limit, most, stages)
  <2>1. Sound(Failed(r, why), limit, most, stages) /\ ~Active(Failed(r, why))
    BY Ended
  <2>2. Apart(Failed(r, why))
    BY Ended
  <2> QED
    BY <2>1, <2>2 DEF Fresh
<1> QED
  BY <1>1, <1>2

LEMMA FreshAsks ==
  ASSUME NEW limit, NEW most, NEW stages, "detail" \in stages,
         NEW r, Clear(r, limit, most, stages),
         NEW rows, IsSequence(rows), Distinct(rows), rows # <<>>, Ids(rows) \cap Ids(r.out) = {}
  PROVE  Fresh(Queueing(ToStage(r, "detail"), rows), limit, most, stages)
<1> DEFINE s == ToStage(r, "detail")
           q == Queueing(s, rows)
<1>1. /\ DOMAIN s = DOMAIN Idle /\ s.state = r.state /\ s.stage = "detail" /\ s.page = r.page
      /\ s.attempt = 0 /\ s.limit = r.limit
      /\ s.held = r.held /\ s.queue = r.queue /\ s.out = r.out
  BY Fields DEF ToStage, Clear, Loose
<1> HIDE DEF s
<1>2. /\ DOMAIN q = DOMAIN Idle /\ q.state = r.state /\ q.stage = "detail" /\ q.page = r.page
      /\ q.attempt = 0 /\ q.limit = r.limit
      /\ q.held = r.held /\ q.queue = rows /\ q.out = r.out
  BY <1>1, QueueFields
<1> HIDE DEF q
<1>3. 0 \in 0..MaxRetries
  BY Numbers
<1>4. Sound(q, limit, most, stages)
  BY <1>2, <1>3 DEF Clear, Sound, Loose, Active
<1>5. Apart(q)
  BY <1>2 DEF Clear, Apart
<1>6. Fresh(q, limit, most, stages)
  BY <1>2, <1>4, <1>5 DEF Fresh, Clear
<1> QED
  BY <1>6 DEF q, s

LEMMA FreshTurns ==
  ASSUME NEW limit, NEW most, NEW stages, "page" \in stages,
         NEW r, Clear(r, limit, most, stages)
  PROVE  /\ Fresh(NextPage(ToStage(Queueing(r, <<>>), "page")), limit, most, stages)
         /\ Fresh(Done(Queueing(r, <<>>)), limit, most, stages)
         /\ \A why : Fresh(Failed(Queueing(r, <<>>), why), limit, most, stages)
<1> DEFINE e == Queueing(r, <<>>)
           s == ToStage(e, "page")
           q == NextPage(s)
<1>1. /\ DOMAIN e = DOMAIN Idle /\ e.state = r.state /\ e.stage = r.stage /\ e.page = r.page
      /\ e.attempt = r.attempt /\ e.limit = r.limit
      /\ e.held = r.held /\ e.queue = <<>> /\ e.out = r.out
  BY QueueFields DEF Clear, Loose
<1> HIDE DEF e
<1>2. Loose(e, limit, most, stages) /\ Distinct(e.out)
  BY <1>1, EmptySequence DEF Clear, Loose
<1>3. Sound(s, limit, most, stages) /\ s.stage = "page"
  BY <1>1, <1>2, Staged DEF Clear
<1>4. s.page = e.page /\ s.state = e.state /\ s.held = e.held /\ s.queue = e.queue /\ s.out = e.out
  BY <1>1, <1>2, Staged DEF Clear
<1> HIDE DEF s
<1>5. Loose(s, limit, most, stages) /\ s.page <= MaxPages /\ Len(s.out) < most
  BY <1>1, <1>3, <1>4 DEF Sound, Clear
<1>6. Sound(q, limit, most, stages) /\ q.stage = "page"
  BY <1>3, <1>5, Paged
<1>7. q.held = r.held /\ q.queue = <<>> /\ q.out = r.out
  BY <1>1, <1>3, <1>4, <1>5, Paged
<1> HIDE DEF q
<1>8. Fresh(q, limit, most, stages)
  BY <1>6, <1>7, EmptySequence DEF Fresh, Clear, Apart
<1>9. Fresh(Done(e), limit, most, stages)
  BY <1>2, FreshEnds
<1>10. ASSUME NEW why PROVE Fresh(Failed(e, why), limit, most, stages)
  BY <1>2, FreshEnds
<1> QED
  BY <1>8, <1>9, <1>10 DEF q, s, e

\* The first of the rows that wait is yielded; the others are still apart.
LEMMA FreshTaken ==
  ASSUME NEW limit \in Nat, NEW most \in Nat, NEW stages, NEW bound \in Nat, bound <= most,
         NEW r, Fresh(r, limit, most, stages), Active(r), r.stage = "detail", NEW status
  PROVE  LET next == Take(r, Head(r.queue), status, bound)
         IN /\ Active(next) => /\ Clear(next, limit, most, stages)
                               /\ Ids(Tail(r.queue)) \cap Ids(next.out) = {}
            /\ ~Active(next) => Fresh(next, limit, most, stages)
            /\ IsSequence(Tail(r.queue)) /\ Distinct(Tail(r.queue))
<1> DEFINE row == Head(r.queue)
           rest == Tail(r.queue)
           more == Yield(r, row, status)
           next == Take(r, row, status, bound)
<1>1. Loose(r, limit, most, stages) /\ Len(r.out) + 1 <= most /\ r.page <= MaxPages
  BY SequenceLength DEF Fresh, Sound, Loose
<1>2. /\ IsSequence(r.queue) /\ r.queue # <<>> /\ Distinct(r.queue) /\ Distinct(r.held)
      /\ Distinct(r.out) /\ Ids(r.queue) \cap Ids(r.out) = {}
  BY DEF Fresh, Sound, Loose, Apart
<1>3. /\ IsSequence(rest) /\ Distinct(rest) /\ row.id \notin Ids(rest)
      /\ Ids(rest) \subseteq Ids(r.queue) /\ row.id \in Ids(r.queue)
  BY <1>2, Tailed
<1> HIDE DEF row, rest
<1>4. Loose(more, limit, most, stages) /\ more.state = r.state /\ more.page = r.page /\ more.held = r.held
  BY <1>1, Yielded
<1>5. Ids(more.out) = Ids(r.out) \cup {row.id}
  BY <1>1, Yielded
<1>6. Distinct(r.out) /\ row.id \notin Ids(r.out) => Distinct(more.out)
  BY <1>1, Yielded
<1>7. next = IF Full(more, bound) THEN Done(more) ELSE more
  BY DEF Take
<1> HIDE DEF more, next
<1>8. Distinct(more.out) /\ Active(more) /\ Ids(rest) \cap Ids(more.out) = {}
  BY <1>2, <1>3, <1>4, <1>5, <1>6 DEF Active
<1>9. Fresh(Done(more), limit, most, stages) /\ ~Active(Done(more))
  BY <1>4, <1>8, FreshEnds, Ended
<1>10. ~Full(more, bound) => Clear(more, limit, most, stages)
  <2>1. Len(more.out) \in Nat
    BY <1>4, SequenceLength DEF Loose
  <2> QED
    BY <1>1, <1>2, <1>4, <1>8, <2>1 DEF Clear, Full
<1>11. /\ Active(next) => Clear(next, limit, most, stages) /\ Ids(rest) \cap Ids(next.out) = {}
       /\ ~Active(next) => Fresh(next, limit, most, stages)
  BY <1>7, <1>8, <1>9, <1>10
<1> QED
  BY <1>3, <1>11 DEF next, rest, row

LEMMA NewRows ==
  ASSUME NEW rows, IsSequence(rows), NEW ids
  PROVE  LET new == Without(FoldLeft(KeepFirst, <<>>, rows), ids)
         IN IsSequence(new) /\ Distinct(new) /\ Ids(new) \cap ids = {}
<1> DEFINE first == FoldLeft(KeepFirst, <<>>, rows)
<1>1. IsSequence(first) /\ Distinct(first)
  BY EmptySequence, KeepFirstAll
<1> HIDE DEF first
<1>2. IsSequence(Without(first, ids))
  BY <1>1, WithoutRows
<1>3. Distinct(Without(first, ids)) /\ Ids(Without(first, ids)) \cap ids = {}
  BY <1>1, WithoutRows
<1> QED
  BY <1>2, <1>3 DEF first

LEMMA BidBuyRestFresh ==
  ASSUME NEW limit \in Nat, NEW most \in Nat, NEW stages, {"page", "detail"} \subseteq stages,
         NEW r, Clear(r, limit, most, stages),
         NEW rows, IsSequence(rows), Distinct(rows), Ids(rows) \cap Ids(r.out) = {}
  PROVE  Fresh(BidBuyRest(r, rows), limit, most, stages)
<1> DEFINE e == Queueing(r, <<>>)
           q == BidBuyRest(r, rows)
<1>1. \/ q = Done(e)
      \/ q = NextPage(ToStage(e, "page"))
      \/ rows # <<>> /\ q = Queueing(ToStage(r, "detail"), rows)
  BY DEF BidBuyRest, BidBuyNext, Queueing
<1>2. Fresh(NextPage(ToStage(e, "page")), limit, most, stages)
  BY FreshTurns
<1>3. Fresh(Done(e), limit, most, stages)
  BY FreshTurns
<1>4. rows # <<>> => Fresh(Queueing(ToStage(r, "detail"), rows), limit, most, stages)
  BY FreshAsks
<1> HIDE DEF e, q
<1> QED
  BY <1>1, <1>2, <1>3, <1>4 DEF q

LEMMA BidBuyPageFresh ==
  ASSUME NEW limit \in Nat, NEW most \in Nat, NEW stages, {"page", "detail"} \subseteq stages,
         NEW r, Fresh(r, limit, most, stages), Active(r), NEW page, IsSequence(page.rows)
  PROVE  Fresh(BidBuyPage(r, page), limit, most, stages)
<1> DEFINE records == UsableRows(page.rows)
           new == Without(FoldLeft(KeepFirst, <<>>, records), Ids(r.out))
           s == [r EXCEPT !.ends = new = <<>> \/ Len(records) < PageSize]
           q == BidBuyPage(r, page)
<1>1. \/ q = Done(r) \/ q = Failed(r, "malformed")
      \/ ~(r.page > MaxPages) /\ q = BidBuyRest(s, new)
  BY DEF BidBuyPage
<1>2. IsSequence(records)
  BY Trimmed
<1> HIDE DEF records
<1>3. IsSequence(new) /\ Distinct(new) /\ Ids(new) \cap Ids(r.out) = {}
  BY <1>2, NewRows
<1> HIDE DEF new
<1>4. Alike(s, r) /\ s.held = r.held /\ s.queue = r.queue
  BY Fields DEF Alike, Fresh, Sound, Loose
<1> HIDE DEF s, q
<1>5. Loose(r, limit, most, stages) /\ Distinct(r.out) /\ Distinct(r.held) /\ Len(r.out) < most
  BY DEF Fresh, Sound, Apart
<1>6. Fresh(Done(r), limit, most, stages) /\ Fresh(Failed(r, "malformed"), limit, most, stages)
  BY <1>5, FreshEnds
<1>7. ASSUME ~(r.page > MaxPages) PROVE Fresh(BidBuyRest(s, new), limit, most, stages)
  <2>1. r.page <= MaxPages
    BY <1>5, <1>7, PageBound, Numbers
  <2>6. IsSequence(r.held) /\ IsSequence(r.queue) /\ Active(r)
    BY <1>5 DEF Loose
  <2>7. Loose(s, limit, most, stages)
    BY <1>4, <1>5, <2>6, LooseAlike
  <2>2. Active(s)
    BY <1>4, <2>6 DEF Alike, Active
  <2>8. s.page = r.page /\ Distinct(s.held) /\ Distinct(s.out) /\ Len(s.out) < most
    BY <1>4, <1>5 DEF Alike
  <2>3. Clear(s, limit, most, stages)
    BY <2>1, <2>2, <2>7, <2>8 DEF Clear
  <2>4. Ids(new) \cap Ids(s.out) = {}
    BY <1>3, <1>4 DEF Alike
  <2> QED
    BY <1>3, <2>3, <2>4, BidBuyRestFresh
<1> QED
  BY <1>1, <1>6, <1>7 DEF q

LEMMA BidBuyDetailFresh ==
  ASSUME NEW limit \in Nat, NEW most \in Nat, Lesser(limit, MaxResults) <= most,
         NEW stages, {"page", "detail"} \subseteq stages,
         NEW r, Fresh(r, limit, most, stages), Active(r), r.stage = "detail"
  PROVE  Fresh(BidBuyDetail(r), limit, most, stages)
<1> DEFINE row == Head(r.queue)
           bound == Lesser(r.limit, MaxResults)
           status == PeriscopeStatus(row.says)
           rest == Tail(r.queue)
           next == Take(r, row, status, bound)
           q == BidBuyDetail(r)
<1>1. q = IF Active(next) THEN BidBuyRest(next, rest) ELSE next
  BY DEF BidBuyDetail, BidBuyYield, Take
<1>2. r.limit = limit
  BY DEF Fresh, Sound, Loose
<1>3. bound \in Nat /\ bound <= most
  BY <1>2, LesserBound
<1> HIDE DEF bound, status, q
<1>4. /\ Active(next) => Clear(next, limit, most, stages) /\ Ids(rest) \cap Ids(next.out) = {}
      /\ ~Active(next) => Fresh(next, limit, most, stages)
      /\ IsSequence(rest) /\ Distinct(rest)
  BY <1>3, FreshTaken
<1> HIDE DEF next, rest
<1>5. Active(next) => Fresh(BidBuyRest(next, rest), limit, most, stages)
  BY <1>4, BidBuyRestFresh
<1> QED
  BY <1>1, <1>4, <1>5 DEF q

LEMMA RivipRestFresh ==
  ASSUME NEW limit \in Nat, NEW most \in Nat, NEW stages, {"page", "detail"} \subseteq stages,
         NEW r, Clear(r, limit, most, stages),
         NEW rows, IsSequence(rows), Distinct(rows), Ids(rows) \cap Ids(r.out) = {}
  PROVE  Fresh(RivipRest(r, rows), limit, most, stages)
<1> DEFINE e == Queueing(r, <<>>)
           q == RivipRest(r, rows)
<1>1. \/ q = Done(e) \/ q = Failed(e, "cycle")
      \/ q = NextPage(ToStage(e, "page"))
      \/ rows # <<>> /\ q = Queueing(ToStage(r, "detail"), rows)
  BY DEF RivipRest, RivipNext, Queueing
<1>2. Fresh(NextPage(ToStage(e, "page")), limit, most, stages)
  BY FreshTurns
<1>3. Fresh(Done(e), limit, most, stages)
  BY FreshTurns
<1>4. Fresh(Failed(e, "cycle"), limit, most, stages)
  BY FreshTurns
<1>5. rows # <<>> => Fresh(Queueing(ToStage(r, "detail"), rows), limit, most, stages)
  BY FreshAsks
<1> HIDE DEF e, q
<1> QED
  BY <1>1, <1>2, <1>3, <1>4, <1>5 DEF q

LEMMA RivipPageFresh ==
  ASSUME NEW limit \in Nat, NEW most \in Nat, NEW stages, {"page", "detail"} \subseteq stages,
         NEW r, Fresh(r, limit, most, stages), Active(r), NEW page, IsSequence(page.rows)
  PROVE  Fresh(RivipPage(r, page), limit, most, stages)
<1> DEFINE ids == {None} \cup Ids(r.out)
           new == Without(FoldLeft(KeepFirst, <<>>, page.rows), ids)
           s == [r EXCEPT !.marks = @ \cup {page.rows}, !.ends = ~page.more]
           q == RivipPage(r, page)
<1>1. \/ q = Done(r) \/ q = Failed(r, "markup")
      \/ ~(r.page > MaxPages) /\ q = RivipRest(s, new)
  BY DEF RivipPage
<1>2. IsSequence(new) /\ Distinct(new) /\ Ids(new) \cap ids = {}
  BY NewRows
<1> HIDE DEF new
<1>3. Ids(new) \cap Ids(r.out) = {}
  BY <1>2
<1>4. Alike(s, r) /\ s.held = r.held /\ s.queue = r.queue
  BY Fields DEF Alike, Fresh, Sound, Loose
<1> HIDE DEF s, q
<1>5. Loose(r, limit, most, stages) /\ Distinct(r.out) /\ Distinct(r.held) /\ Len(r.out) < most
  BY DEF Fresh, Sound, Apart
<1>6. Fresh(Done(r), limit, most, stages) /\ Fresh(Failed(r, "markup"), limit, most, stages)
  BY <1>5, FreshEnds
<1>7. ASSUME ~(r.page > MaxPages) PROVE Fresh(RivipRest(s, new), limit, most, stages)
  <2>1. r.page <= MaxPages
    BY <1>5, <1>7, PageBound, Numbers
  <2>6. IsSequence(r.held) /\ IsSequence(r.queue) /\ Active(r)
    BY <1>5 DEF Loose
  <2>7. Loose(s, limit, most, stages)
    BY <1>4, <1>5, <2>6, LooseAlike
  <2>2. Active(s)
    BY <1>4, <2>6 DEF Alike, Active
  <2>8. s.page = r.page /\ Distinct(s.held) /\ Distinct(s.out) /\ Len(s.out) < most
    BY <1>4, <1>5 DEF Alike
  <2>3. Clear(s, limit, most, stages)
    BY <2>1, <2>2, <2>7, <2>8 DEF Clear
  <2>4. Ids(new) \cap Ids(s.out) = {}
    BY <1>3, <1>4 DEF Alike
  <2> QED
    BY <1>2, <2>3, <2>4, RivipRestFresh
<1> QED
  BY <1>1, <1>6, <1>7 DEF q

LEMMA RivipDetailFresh ==
  ASSUME NEW limit \in Nat, NEW most \in Nat, Lesser(limit, MaxResults) <= most,
         NEW stages, {"page", "detail"} \subseteq stages,
         NEW r, Fresh(r, limit, most, stages), Active(r), r.stage = "detail", NEW page
  PROVE  Fresh(RivipDetail(r, page), limit, most, stages)
<1> DEFINE row == Head(r.queue)
           bound == Lesser(r.limit, MaxResults)
           status == RivipStatus(row.says)
           rest == Tail(r.queue)
           next == Take(r, row, status, bound)
           f == Failed(r, "markup")
           q == RivipDetail(r, page)
<1>1. r.limit = limit /\ Loose(r, limit, most, stages) /\ Distinct(r.out)
  BY DEF Fresh, Sound, Loose, Apart
<1>2. Fresh(f, limit, most, stages) /\ ~Active(f)
  BY <1>1, FreshEnds, Ended
<1>3. RivipRecord(r, row) = f \/ RivipRecord(r, row) = next
  BY DEF RivipRecord, Take
<1>4. \/ q = f
      \/ Active(RivipRecord(r, row)) /\ q = RivipRest(RivipRecord(r, row), rest)
      \/ ~Active(RivipRecord(r, row)) /\ q = RivipRecord(r, row)
  BY DEF RivipDetail
<1>5. bound \in Nat /\ bound <= most
  BY <1>1, LesserBound
<1> HIDE DEF bound, status, q, f
<1>6. /\ Active(next) => Clear(next, limit, most, stages) /\ Ids(rest) \cap Ids(next.out) = {}
      /\ ~Active(next) => Fresh(next, limit, most, stages)
      /\ IsSequence(rest) /\ Distinct(rest)
  BY <1>5, FreshTaken
<1> HIDE DEF next, rest
<1>7. Active(next) => Fresh(RivipRest(next, rest), limit, most, stages)
  BY <1>6, RivipRestFresh
<1> QED
  BY <1>2, <1>3, <1>4, <1>6, <1>7 DEF q

-----------------------------------------------------------------------------
(* opengov: an identity that was looked at once is not looked at again, and  *)
(* the records are among those looked at.                                    *)

Looking(r, limit, most, stages) ==
  /\ Sound(r, limit, most, stages)
  /\ Distinct(r.out)
  /\ Active(r) => /\ Ids(r.out) \subseteq Ids(r.held)
                  /\ r.stage = "detail" => Head(r.queue).id \notin Ids(r.held)

\* Between two requests, with room for a record.
Looks(r, limit, most, stages) ==
  /\ Loose(r, limit, most, stages) /\ Active(r)
  /\ Distinct(r.out) /\ Ids(r.out) \subseteq Ids(r.held) /\ Len(r.out) < most

LEMMA LookingEnds ==
  ASSUME NEW limit, NEW most, NEW stages, NEW r, Loose(r, limit, most, stages), Distinct(r.out)
  PROVE  /\ Looking(Done(r), limit, most, stages)
         /\ \A why : Looking(Failed(r, why), limit, most, stages)
<1>1. Looking(Done(r), limit, most, stages)
  <2>1. Sound(Done(r), limit, most, stages) /\ ~Active(Done(r)) /\ Done(r).out = r.out
    BY Ended
  <2> QED
    BY <2>1 DEF Looking
<1>2. ASSUME NEW why PROVE Looking(Failed(r, why), limit, most, stages)
  <2>1. /\ Sound(Failed(r, why), limit, most, stages) /\ ~Active(Failed(r, why))
        /\ Failed(r, why).out = r.out
    BY Ended
  <2> QED
    BY <2>1 DEF Looking
<1> QED
  BY <1>1, <1>2

LEMMA OpenGovRestLooking ==
  ASSUME NEW limit, NEW most, NEW stages, {"page", "detail"} \subseteq stages,
         NEW r, Looks(r, limit, most, stages), NEW rows, IsSequence(rows)
  PROVE  Looking(OpenGovRest(r, rows), limit, most, stages)
<1> DEFINE new == Without(rows, Ids(r.held))
           s == ToStage(r, "page")
           d == ToStage(r, "detail")
           e == NextPage(s)
           p == Queueing(d, new)
           n == Queueing(e, <<>>)
           q == OpenGovRest(r, rows)
<1>1. \/ q = Failed(r, "malformed") \/ q = Done(r)
      \/ new # <<>> /\ q = p
      \/ ~LastPage(r) /\ q = n
  BY DEF OpenGovRest, Queueing
<1>2. IsSequence(new) /\ Ids(new) = Ids(rows) \ Ids(r.held)
  BY WithoutRows
<1> HIDE DEF new
<1>3. Loose(r, limit, most, stages) /\ Distinct(r.out) /\ Len(r.out) < most
  BY DEF Looks
<1>4. Looking(Done(r), limit, most, stages) /\ Looking(Failed(r, "malformed"), limit, most, stages)
  BY <1>3, LookingEnds
<1>5. /\ DOMAIN d = DOMAIN Idle /\ d.state = r.state /\ d.stage = "detail" /\ d.page = r.page
      /\ d.attempt = 0 /\ d.limit = r.limit
      /\ d.held = r.held /\ d.queue = r.queue /\ d.out = r.out
  BY <1>3, Fields DEF ToStage, Loose
<1>6. /\ DOMAIN s = DOMAIN Idle /\ s.state = r.state /\ s.stage = "page" /\ s.page = r.page
      /\ s.attempt = 0 /\ s.limit = r.limit
      /\ s.held = r.held /\ s.queue = r.queue /\ s.out = r.out
  BY <1>3, Fields DEF ToStage, Loose
<1> HIDE DEF d, s
<1>7. /\ DOMAIN e = DOMAIN Idle /\ e.state = r.state /\ e.stage = "page" /\ e.page = r.page + 1
      /\ e.attempt = 0 /\ e.limit = r.limit
      /\ e.held = r.held /\ e.queue = r.queue /\ e.out = r.out
  BY <1>6, Fields DEF NextPage
<1> HIDE DEF e
<1>8. /\ DOMAIN p = DOMAIN Idle /\ p.state = r.state /\ p.stage = "detail" /\ p.page = r.page
      /\ p.attempt = 0 /\ p.limit = r.limit
      /\ p.held = r.held /\ p.queue = new /\ p.out = r.out
  BY <1>5, QueueFields
<1>9. /\ DOMAIN n = DOMAIN Idle /\ n.state = r.state /\ n.stage = "page" /\ n.page = r.page + 1
      /\ n.attempt = 0 /\ n.limit = r.limit
      /\ n.held = r.held /\ n.queue = <<>> /\ n.out = r.out
  BY <1>7, QueueFields
<1> HIDE DEF p, n, q
<1>10. 0 \in 0..MaxRetries
  BY Numbers
<1>11. ASSUME new # <<>> PROVE Looking(p, limit, most, stages)
  <2>1. Sound(p, limit, most, stages)
    BY <1>2, <1>8, <1>10, <1>11 DEF Looks, Sound, Loose, Active
  <2>2. Head(new).id \in Ids(new)
    BY <1>2, <1>11, Tailed
  <2>3. Head(p.queue).id \notin Ids(p.held)
    BY <1>2, <1>8, <2>2
  <2> QED
    BY <1>8, <2>1, <2>3 DEF Looks, Looking
<1>12. ASSUME ~LastPage(r) PROVE Looking(n, limit, most, stages)
  <2>1. r.page + 1 \in 1..MaxPages + 1
    BY <1>3, <1>12, PageBound, Numbers
  <2>2. Sound(n, limit, most, stages)
    BY <1>9, <1>10, <2>1, EmptySequence DEF Looks, Sound, Loose, Active
  <2> QED
    BY <1>9, <2>2 DEF Looks, Looking
<1> QED
  BY <1>1, <1>4, <1>11, <1>12 DEF q

LEMMA OpenGovPageLooking ==
  ASSUME NEW limit, NEW most, NEW stages, {"page", "detail"} \subseteq stages,
         NEW r, Looking(r, limit, most, stages), Active(r), NEW page, IsSequence(page.rows)
  PROVE  Looking(OpenGovPage(r, page), limit, most, stages)
<1> DEFINE s == [r EXCEPT !.ends = page.rows = <<>> \/ ~page.more]
           q == OpenGovPage(r, page)
<1>1. q = Failed(r, "malformed") \/ q = OpenGovRest(s, page.rows)
  BY DEF OpenGovPage
<1>2. Loose(r, limit, most, stages) /\ Distinct(r.out) /\ Len(r.out) < most
  BY DEF Looking, Sound
<1>3. IsSequence(r.held) /\ IsSequence(r.queue) /\ Ids(r.out) \subseteq Ids(r.held)
  BY <1>2 DEF Loose, Looking
<1>4. Alike(s, r) /\ s.held = r.held /\ s.queue = r.queue
  BY <1>2, Fields DEF Alike, Loose
<1> HIDE DEF s, q
<1>5. Loose(s, limit, most, stages) /\ (Active(s) <=> Active(r))
  BY <1>2, <1>3, <1>4, LooseAlike
<1>6. s.out = r.out
  BY <1>4 DEF Alike
<1>7. Looks(s, limit, most, stages)
  BY <1>2, <1>3, <1>4, <1>5, <1>6 DEF Looks
<1>8. Looking(OpenGovRest(s, page.rows), limit, most, stages)
  BY <1>7, OpenGovRestLooking
<1>9. Looking(Failed(r, "malformed"), limit, most, stages)
  BY <1>2, LookingEnds
<1> QED
  BY <1>1, <1>8, <1>9 DEF q

LEMMA OpenGovDetailLooking ==
  ASSUME NEW limit \in Nat, NEW most \in Nat, Lesser(limit, MaxResults) <= most,
         NEW stages, {"page", "detail"} \subseteq stages,
         NEW r, Looking(r, limit, most, stages), Active(r), r.stage = "detail", NEW page
  PROVE  Looking(OpenGovDetail(r, page), limit, most, stages)
<1> DEFINE row == Head(r.queue)
           rest == Tail(r.queue)
           bound == Lesser(r.limit, MaxResults)
           status == OpenGovStatus(row.says)
           seen == [r EXCEPT !.held = Append(@, row)]
           next == Yield(seen, row, status)
           q == OpenGovDetail(r, page)
<1>1. \/ q = Failed(r, "malformed")
      \/ q = OpenGovRest(seen, rest)
      \/ Full(next, bound) /\ q = Done(next)
      \/ ~Full(next, bound) /\ q = OpenGovRest(next, rest)
  BY DEF OpenGovDetail
<1>2. Loose(r, limit, most, stages) /\ Distinct(r.out) /\ r.queue # <<>>
  BY DEF Looking, Sound
<1>3. IsSequence(r.held) /\ IsSequence(r.queue) /\ r.limit = limit /\ IsSequence(r.out)
  BY <1>2 DEF Loose
<1>4. bound \in Nat /\ bound <= most
  BY <1>3, LesserBound
<1>5. IsSequence(rest) /\ row.id \notin Ids(r.held) /\ Ids(r.out) \subseteq Ids(r.held)
  BY <1>2, <1>3, Tailed DEF Looking
<1>6. Alike(seen, r) /\ seen.held = Append(r.held, row) /\ seen.queue = r.queue
  BY <1>2, Fields DEF Alike, Loose
<1> HIDE DEF bound, status, rest, row, seen, q
<1>7. IsSequence(seen.held) /\ Ids(seen.held) = Ids(r.held) \cup {row.id}
  BY <1>3, <1>6, Appended
<1>8. Loose(seen, limit, most, stages) /\ Active(seen)
  BY <1>2, <1>3, <1>6, <1>7, LooseAlike
<1>9. Len(r.out) < most /\ Len(r.out) \in Nat /\ seen.out = r.out
  BY <1>3, <1>6, SequenceLength DEF Looking, Sound, Alike
<1>10. Looks(seen, limit, most, stages)
  BY <1>2, <1>5, <1>7, <1>8, <1>9 DEF Looks
<1>11. Looking(OpenGovRest(seen, rest), limit, most, stages)
  BY <1>5, <1>10, OpenGovRestLooking
<1>12. Len(seen.out) + 1 <= most
  BY <1>9
<1>13. Loose(next, limit, most, stages) /\ next.state = seen.state /\ next.held = seen.held
  BY <1>8, <1>12, Yielded
<1>14. Ids(next.out) = Ids(seen.out) \cup {row.id}
  BY <1>8, <1>12, Yielded
<1>15. Distinct(seen.out) /\ row.id \notin Ids(seen.out) => Distinct(next.out)
  BY <1>8, <1>12, Yielded
<1> HIDE DEF next
<1>16. Distinct(next.out) /\ Ids(next.out) \subseteq Ids(next.held) /\ Active(next)
  BY <1>2, <1>5, <1>7, <1>8, <1>9, <1>13, <1>14, <1>15 DEF Active
<1>17. Looking(Done(next), limit, most, stages)
  BY <1>13, <1>16, LookingEnds
<1>18. ASSUME ~Full(next, bound) PROVE Looking(OpenGovRest(next, rest), limit, most, stages)
  <2>1. Len(next.out) \in Nat
    BY <1>13, SequenceLength DEF Loose
  <2>2. Len(next.out) < most
    BY <1>4, <1>18, <2>1 DEF Full
  <2>3. Looks(next, limit, most, stages)
    BY <1>13, <1>16, <2>2 DEF Looks
  <2> QED
    BY <1>5, <2>3, OpenGovRestLooking
<1>19. Looking(Failed(r, "malformed"), limit, most, stages)
  BY <1>2, LookingEnds
<1> QED
  BY <1>1, <1>11, <1>17, <1>18, <1>19 DEF q

-----------------------------------------------------------------------------
(* demandstar_api: a search whose rows are taken as they are, and nothing    *)
(* of it once a request is lost.                                             *)

LEMMA LostSound ==
  ASSUME NEW limit, NEW most \in Nat, NEW stages, NEW r, Loose(r, limit, most, stages), NEW why
  PROVE  Sound(DemandStarLost(r, why), limit, most, stages)
<1> DEFINE f == Failed(r, why)
           q == DemandStarLost(r, why)
<1>1. Sound(f, limit, most, stages) /\ ~Active(f)
  BY Ended
<1>2. q = [f EXCEPT !.out = <<>>]
  BY DEF DemandStarLost
<1>3. Loose(f, limit, most, stages)
  BY <1>1 DEF Sound
<1> HIDE DEF f
<1>4. /\ DOMAIN q = DOMAIN Idle /\ q.state = f.state /\ q.stage = f.stage /\ q.page = f.page
      /\ q.attempt = f.attempt /\ q.limit = f.limit
      /\ q.held = f.held /\ q.queue = f.queue /\ q.out = <<>>
  BY <1>2, <1>3, Fields DEF Loose
<1> HIDE DEF q
<1>5. Loose(q, limit, most, stages) /\ ~Active(q)
  BY <1>1, <1>3, <1>4, EmptySequence DEF Loose, Active
<1>6. Sound(q, limit, most, stages)
  BY <1>5 DEF Sound
<1> QED
  BY <1>6 DEF q

LEMMA SearchedSound ==
  ASSUME NEW limit, NEW most \in Nat, NEW stages, "detail" \in stages,
         NEW r, Sound(r, limit, most, stages), Active(r), NEW page, IsSequence(page.rows)
  PROVE  Sound(DemandStarSearched(r, page), limit, most, stages)
<1> DEFINE rows == UsableRows(page.rows)
           s == ToStage(r, "detail")
           p == Queueing(s, rows)
           q == DemandStarSearched(r, page)
<1>1. \/ q = DemandStarLost(r, "malformed") \/ q = Done(r)
      \/ rows # <<>> /\ q = p
  BY DEF DemandStarSearched, Queueing
<1>2. IsSequence(rows)
  BY Trimmed
<1> HIDE DEF rows
<1>3. Loose(r, limit, most, stages) /\ Len(r.out) < most
  BY DEF Sound
<1>4. Sound(DemandStarLost(r, "malformed"), limit, most, stages)
  BY <1>3, LostSound
<1>5. Sound(Done(r), limit, most, stages)
  BY <1>3, Ended
<1>6. /\ DOMAIN s = DOMAIN Idle /\ s.state = r.state /\ s.stage = "detail" /\ s.page = r.page
      /\ s.attempt = 0 /\ s.limit = r.limit
      /\ s.held = r.held /\ s.queue = r.queue /\ s.out = r.out
  BY <1>3, Fields DEF ToStage, Loose
<1> HIDE DEF s
<1>7. /\ DOMAIN p = DOMAIN Idle /\ p.state = r.state /\ p.stage = "detail" /\ p.page = r.page
      /\ p.attempt = 0 /\ p.limit = r.limit
      /\ p.held = r.held /\ p.queue = rows /\ p.out = r.out
  BY <1>6, QueueFields
<1> HIDE DEF p, q
<1>8. 0 \in 0..MaxRetries
  BY Numbers
<1>9. rows # <<>> => Sound(p, limit, most, stages)
  BY <1>2, <1>3, <1>7, <1>8 DEF Sound, Loose, Active
<1> QED
  BY <1>1, <1>4, <1>5, <1>9 DEF q

LEMMA PartSound ==
  ASSUME NEW limit \in Nat, NEW most \in Nat, Lesser(limit, MaxResults) <= most,
         NEW stages, "detail" \in stages,
         NEW r, Sound(r, limit, most, stages), Active(r), r.stage = "detail", NEW page, NEW parts
  PROVE  Sound(DemandStarPart(r, page, parts), limit, most, stages)
<1> DEFINE row == Head(r.queue)
           rest == [r EXCEPT !.queue = Tail(@), !.details = 0]
           status == DemandStarStatus(row.says)
           more == Yield(rest, row, status)
           next == IF Meets(row, r.wanted, DemandStarMatches) THEN more ELSE rest
           bound == ListingBound(r)
           s == ToStage(r, "detail")
           t == [s EXCEPT !.details = @ + 1]
           q == DemandStarPart(r, page, parts)
<1>0. q = IF page.garbled \/ page.words # {} THEN DemandStarLost(r, "malformed")
          ELSE IF r.details + 1 < parts THEN t
          ELSE IF next.queue = <<>> \/ (next.out # rest.out /\ Full(next, bound)) THEN Done(next)
          ELSE ToStage(next, "detail")
  BY Zenon DEF DemandStarPart
<1> HIDE DEF q, t, next, bound
<1>1. \/ q = DemandStarLost(r, "malformed")
      \/ q = t
      \/ q = Done(next)
      \/ /\ next.queue # <<>> /\ (next.out = rest.out \/ ~Full(next, bound))
         /\ q = ToStage(next, "detail")
  BY <1>0
<1> USE DEF t, next, bound
<1>2. Loose(r, limit, most, stages) /\ Len(r.out) < most /\ r.queue # <<>>
  BY DEF Sound
<1>3. IsSequence(r.held) /\ IsSequence(r.queue) /\ IsSequence(r.out) /\ r.limit = limit
  BY <1>2 DEF Loose
<1>4. bound \in Nat /\ bound <= most
  BY <1>3, LesserBound DEF ListingBound
<1>5. Sound(DemandStarLost(r, "malformed"), limit, most, stages)
  BY <1>2, LostSound
<1>6. Sound(s, limit, most, stages) /\ s.queue = r.queue /\ s.held = r.held /\ s.stage = "detail"
  BY <1>2, Staged
<1> HIDE DEF s
<1>7. Alike(t, s) /\ t.queue = r.queue /\ t.held = r.held
  BY <1>6, Fields DEF Alike, Sound, Loose
<1>8. Loose(s, limit, most, stages)
  BY <1>6 DEF Sound
<1> HIDE DEF t
<1>9. Loose(t, limit, most, stages) /\ (Active(t) <=> Active(s))
  BY <1>3, <1>7, <1>8, LooseAlike
<1>10. Sound(t, limit, most, stages)
  BY <1>2, <1>6, <1>7, <1>9 DEF Sound, Alike
<1>11. IsSequence(Tail(r.queue))
  BY <1>2, <1>3, Tailed
<1>12. Alike(rest, r) /\ rest.held = r.held /\ rest.queue = Tail(r.queue)
  BY <1>2, Fields DEF Alike, Loose
<1> HIDE DEF rest, row, status, bound, q
<1>13. Loose(rest, limit, most, stages) /\ Active(rest)
  BY <1>2, <1>3, <1>11, <1>12, LooseAlike
<1>14. rest.out = r.out /\ Len(r.out) \in Nat /\ Len(rest.out) + 1 <= most
  BY <1>2, <1>3, <1>12, SequenceLength DEF Alike
<1>15. Loose(more, limit, most, stages)
  BY <1>13, <1>14, Yielded
<1> HIDE DEF more
<1>16. Loose(next, limit, most, stages)
  BY <1>13, <1>15
<1> HIDE DEF next
<1>17. Sound(Done(next), limit, most, stages)
  BY <1>16, Ended
<1>18. ASSUME next.queue # <<>>, next.out = rest.out \/ ~Full(next, bound)
       PROVE  Sound(ToStage(next, "detail"), limit, most, stages)
  <2>1. Len(next.out) \in Nat
    BY <1>16, SequenceLength DEF Loose
  <2>2. Len(next.out) < most
    BY <1>2, <1>4, <1>14, <1>18, <2>1 DEF Full
  <2> QED
    BY <1>16, <1>18, <2>2, Staged
<1> QED
  BY <1>1, <1>5, <1>10, <1>17, <1>18 DEF q

-----------------------------------------------------------------------------
(* What each class keeps of its runs.                                       *)

SingleFamilies == {"webprocure", "oracle", "tyler", "peoplesoft", "infotech", "periscope"}
QueuedFamilies == {"eva", "texas", "pennsylvania", "cgi", "jaggaer", "bonfire", "ionwave"}
FreshFamilies == {"bidbuy", "rivip"}

\* The requests a class makes.
StagesOf(family) ==
  {"page"}
  \cup (IF family \in {"webprocure", "oracle", "tyler"} THEN {} ELSE {"detail"})
  \cup (IF family \in {"tyler", "cgi", "rivip"} THEN {"session", "form"} ELSE {})
  \cup (IF family \in {"peoplesoft", "infotech", "periscope", "bidbuy", "pennsylvania"}
        THEN {"session"} ELSE {})

Keeps(family, r, limit) ==
  LET most == Most(family, limit)
      stages == StagesOf(family)
  IN /\ family \in SingleFamilies => Single(r, limit, most, stages)
     /\ family \in QueuedFamilies => Queued(r, limit, most, stages)
     /\ family \in KeepingRow => Listed(r, limit, most, stages)
     /\ family \in FreshFamilies => Fresh(r, limit, most, stages)
     /\ family = "pennsylvania" => Paging(r)
     /\ family = "opengov" => Looking(r, limit, most, stages)
     /\ family = "demandstar_api" => Sound(r, limit, most, stages)

RunInv == run.limit \in Nat /\ Keeps(Family, run, run.limit)

LEMMA MostBounds ==
  ASSUME NEW family, NEW limit \in Nat
  PROVE  /\ Most(family, limit) \in Nat
         /\ family = "webprocure" => limit <= Most(family, limit)
         /\ family # "webprocure" => Lesser(limit, MaxResults) <= Most(family, limit)
         /\ family \in {"jaggaer", "bonfire", "ionwave", "tyler", "rivip", "demandstar_api"}
            => 0 < Most(family, limit)
         /\ family \in {"webprocure", "oracle"} /\ limit > 0 => 0 < Most(family, limit)
         /\ limit > 0 => 0 < Most(family, limit)
<1>1. Lesser(limit, MaxResults) \in Nat /\ (limit > 0 => Lesser(limit, MaxResults) > 0)
  BY Numbers DEF Lesser
<1> QED
  BY <1>1 DEF Most, Greater

LEMMA StagesKnown ==
  ASSUME NEW family
  PROVE  /\ "page" \in StagesOf(family) /\ StagesOf(family) \subseteq Stages
         /\ family \in {"webprocure", "oracle"} => StagesOf(family) = {"page"}
         /\ family = "tyler" => StagesOf(family) = {"session", "form", "page"}
         /\ family \in {"cgi", "rivip"} => StagesOf(family) = {"session", "form", "page", "detail"}
         /\ family \in {"peoplesoft", "infotech", "periscope", "bidbuy", "pennsylvania"}
            => StagesOf(family) = {"session", "page", "detail"}
         /\ family \in {"eva", "texas", "jaggaer", "bonfire", "ionwave", "opengov", "demandstar_api"}
                        \cup KeepingRow
            => StagesOf(family) = {"page", "detail"}
BY DEF StagesOf, Stages, KeepingRow

\* A page that came goes to the stage that asked for it.
LEMMA ReceivedBy ==
  ASSUME NEW page
  PROVE  /\ run.stage = "page" => Received(page) = Listing(page)
         /\ run.stage = "detail" => Received(page) = Detail(page)
         /\ run.stage \in {"session", "form"} => Received(page) = BeforeListing(page)
BY DEF Received

LEMMA SoundStage ==
  ASSUME NEW limit, NEW most, NEW stages, NEW r, Sound(r, limit, most, stages), Active(r)
  PROVE  r.stage \in stages /\ Len(r.out) < most /\ Loose(r, limit, most, stages)
BY DEF Sound

LEMMA SingleReceived ==
  ASSUME NEW limit \in Nat, Family \in SingleFamilies, Active(run),
         Single(run, limit, Most(Family, limit), StagesOf(Family)), NEW page, IsSequence(page.rows)
  PROVE  Single(Received(page), limit, Most(Family, limit), StagesOf(Family))
<1> DEFINE most == Most(Family, limit)
           stages == StagesOf(Family)
<1>1. most \in Nat /\ (Family = "webprocure" => limit <= most)
      /\ (Family # "webprocure" => Lesser(limit, MaxResults) <= most)
  BY MostBounds
<1>2. /\ Family \in {"webprocure", "oracle"} => stages = {"page"}
      /\ Family = "tyler" => stages = {"session", "form", "page"}
      /\ Family \in {"peoplesoft", "infotech", "periscope"} => stages = {"session", "page", "detail"}
  BY StagesKnown
<1> HIDE DEF most, stages
<1>3. Single(run, limit, most, stages)
  BY DEF most, stages
<1>4. run.stage \in stages
  BY <1>3, SoundStage DEF Single
<1>5. ASSUME Family = "webprocure" PROVE Single(Received(page), limit, most, stages)
  <2>1. Received(page) = WebProcurePage(run, page)
    BY <1>2, <1>4, <1>5, ReceivedBy DEF Listing
  <2> QED
    BY <1>1, <1>3, <1>5, <2>1, WebProcurePageSingle
<1>6. ASSUME Family = "oracle" PROVE Single(Received(page), limit, most, stages)
  <2>1. Received(page) = OraclePage(run, page)
    BY <1>2, <1>4, <1>6, ReceivedBy DEF Listing
  <2> QED
    BY <1>1, <1>3, <1>6, <2>1, OraclePageSingle
<1>7. ASSUME Family = "tyler" PROVE Single(Received(page), limit, most, stages)
  <2> DEFINE form == TylerForm(run, page)
  <2>1. Single(form, limit, most, stages)
    BY <1>1, <1>2, <1>3, <1>7, TylerFormSingle
  <2>2. Single(TylerPage(form, page), limit, most, stages)
    BY <1>1, <1>2, <1>7, <2>1, TylerPageSingle
  <2>3. Single(TylerPage(run, page), limit, most, stages)
    BY <1>1, <1>2, <1>3, <1>7, TylerPageSingle
  <2>4. run.stage \in {"session", "form"} =>
          Received(page) = IF Active(form) /\ run.stage = "form" THEN TylerPage(form, page) ELSE form
    BY <1>7, ReceivedBy DEF BeforeListing
  <2>5. run.stage = "page" => Received(page) = TylerPage(run, page)
    BY <1>7, ReceivedBy DEF Listing
  <2> HIDE DEF form
  <2> QED
    BY <1>2, <1>4, <1>7, <2>1, <2>2, <2>3, <2>4, <2>5
<1>8. ASSUME Family \in {"peoplesoft", "infotech", "periscope"}
      PROVE  Single(Received(page), limit, most, stages)
  <2>1. run.stage = "session" => Received(page) = ToStage(run, "page")
    BY <1>8, ReceivedBy DEF BeforeListing, PeopleSoftSession, InfotechSession, PeriscopeSession
  <2>2. run.stage = "page" => \E status : Received(page) = YieldPage(run, page, status)
    BY <1>8, ReceivedBy DEF Listing, PeopleSoftPage, InfotechPage, PeriscopePage
  <2>3. run.stage = "detail" => \E status : \/ Received(page) = YieldDetail(run, status)
                                            \/ Received(page) = YieldDropped(run, status)
    BY <1>8, ReceivedBy DEF Detail, PeopleSoftDetail, InfotechDetail, PeriscopeDetail,
       PeopleSoftDropped, InfotechDropped
  <2>4. Single(ToStage(run, "page"), limit, most, stages)
    BY <1>2, <1>3, <1>8, SingleStaged
  <2>5. \A status : Single(YieldPage(run, page, status), limit, most, stages)
    BY <1>1, <1>2, <1>3, <1>8, YieldPageSingle
  <2>6. run.stage = "detail" => \A status : Single(YieldDetail(run, status), limit, most, stages)
    BY <1>1, <1>2, <1>3, <1>8, YieldDetailSingle
  <2>7. run.stage = "detail" => \A status : Single(YieldDropped(run, status), limit, most, stages)
    BY <1>1, <1>2, <1>3, <1>8, YieldDroppedSingle
  <2> QED
    BY <1>2, <1>4, <1>8, <2>1, <2>2, <2>3, <2>4, <2>5, <2>6, <2>7
<1> QED
  BY <1>5, <1>6, <1>7, <1>8 DEF SingleFamilies, most, stages

LEMMA QueuedReceived ==
  ASSUME NEW limit \in Nat, Family \in QueuedFamilies, Active(run),
         Queued(run, limit, Most(Family, limit), StagesOf(Family)),
         Family = "pennsylvania" => Paging(run), NEW page, IsSequence(page.rows)
  PROVE  /\ Queued(Received(page), limit, Most(Family, limit), StagesOf(Family))
         /\ Family = "pennsylvania" => Paging(Received(page))
<1> DEFINE most == Most(Family, limit)
           stages == StagesOf(Family)
<1>1. most \in Nat /\ Lesser(limit, MaxResults) <= most
  BY MostBounds DEF QueuedFamilies
<1>2. /\ Family \in {"eva", "texas", "jaggaer", "bonfire", "ionwave"} => stages = {"page", "detail"}
      /\ Family = "pennsylvania" => stages = {"session", "page", "detail"}
      /\ Family = "cgi" => stages = {"session", "form", "page", "detail"}
  BY StagesKnown
<1> HIDE DEF most, stages
<1>3. Queued(run, limit, most, stages)
  BY DEF most, stages
<1>4. run.stage \in stages
  BY <1>3, SoundStage DEF Queued
<1>14. ASSUME Family \in {"jaggaer", "bonfire", "ionwave"}
       PROVE  /\ run.stage # "detail" =>
                   \A criteria, single : Queued(CollectPage(run, page, criteria, single), limit, most, stages)
              /\ run.stage = "detail" =>
                   \A status : Queued(CollectDetail(run, page, status), limit, most, stages)
              /\ Queued(Failed(run, "malformed"), limit, most, stages)
  <2>1. Loose(run, limit, most, stages) /\ Distinct(run.out)
    BY <1>3 DEF Queued, Sound, Apart
  <2>2. Queued(Failed(run, "malformed"), limit, most, stages)
    BY <2>1, QueuedEnds
  <2>3. ASSUME run.stage # "detail", NEW criteria, NEW single
        PROVE  Queued(CollectPage(run, page, criteria, single), limit, most, stages)
    BY <1>1, <1>2, <1>3, <1>14, <2>3, CollectPageQueued
  <2>4. ASSUME run.stage = "detail", NEW status
        PROVE  Queued(CollectDetail(run, page, status), limit, most, stages)
    BY <1>1, <1>2, <1>3, <1>14, <2>4, CollectDetailQueued
  <2> QED
    BY <2>2, <2>3, <2>4
<1>5. ASSUME Family = "eva" PROVE Queued(Received(page), limit, most, stages)
  <2>1. run.stage = "page" => Received(page) = EvaPage(run, page)
    BY <1>5, ReceivedBy DEF Listing
  <2>2. run.stage = "detail" => Received(page) = EvaDetail(run, page)
    BY <1>5, ReceivedBy DEF Detail
  <2>3. run.stage = "page" => Queued(EvaPage(run, page), limit, most, stages)
    BY <1>1, <1>2, <1>3, <1>5, EvaPageQueued
  <2>4. run.stage = "detail" => Queued(EvaDetail(run, page), limit, most, stages)
    BY <1>1, <1>2, <1>3, <1>5, EvaDetailQueued
  <2> QED
    BY <1>2, <1>4, <1>5, <2>1, <2>2, <2>3, <2>4
<1>6. ASSUME Family = "texas" PROVE Queued(Received(page), limit, most, stages)
  <2>1. run.stage = "page" => Received(page) = TexasPage(run, page)
    BY <1>6, ReceivedBy DEF Listing
  <2>2. run.stage = "detail" => Received(page) = TexasDetail(run, page)
    BY <1>6, ReceivedBy DEF Detail
  <2>3. run.stage = "page" => Queued(TexasPage(run, page), limit, most, stages)
    BY <1>1, <1>2, <1>3, <1>6, TexasPageQueued
  <2>4. run.stage = "detail" => Queued(TexasDetail(run, page), limit, most, stages)
    BY <1>1, <1>2, <1>3, <1>6, TexasDetailQueued
  <2> QED
    BY <1>2, <1>4, <1>6, <2>1, <2>2, <2>3, <2>4
<1>7. ASSUME Family = "jaggaer" PROVE Queued(Received(page), limit, most, stages)
  <2>1. run.stage = "page" => \E criteria, single :
          Received(page) = CollectPage(run, page, criteria, single)
    BY <1>7, ReceivedBy DEF Listing, JaggaerPage
  <2>2. run.stage = "detail" => \E status : Received(page) = CollectDetail(run, page, status)
    BY <1>7, ReceivedBy DEF Detail, JaggaerDetail
  <2> QED
    BY <1>2, <1>4, <1>7, <1>14, <2>1, <2>2
<1>8. ASSUME Family = "bonfire" PROVE Queued(Received(page), limit, most, stages)
  <2>1. run.stage = "page" => \E criteria, single :
          Received(page) = Failed(run, "malformed") \/ Received(page) = CollectPage(run, page, criteria, single)
    BY <1>8, ReceivedBy DEF Listing, BonfirePage
  <2>2. run.stage = "detail" => \E status : Received(page) = CollectDetail(run, page, status)
    BY <1>8, ReceivedBy DEF Detail, BonfireDetail
  <2> QED
    BY <1>2, <1>4, <1>8, <1>14, <2>1, <2>2
<1>9. ASSUME Family = "ionwave" PROVE Queued(Received(page), limit, most, stages)
  <2>1. run.stage = "page" => \E criteria, single :
          Received(page) = Failed(run, "malformed") \/ Received(page) = CollectPage(run, page, criteria, single)
    BY <1>9, ReceivedBy DEF Listing, IonWavePage
  <2>2. run.stage = "detail" => \E status : Received(page) = CollectDetail(run, page, status)
    BY <1>9, ReceivedBy DEF Detail, IonWaveDetail
  <2> QED
    BY <1>2, <1>4, <1>9, <1>14, <2>1, <2>2
<1>10. ASSUME Family = "pennsylvania"
      PROVE  Queued(Received(page), limit, most, stages) /\ Paging(Received(page))
  <2>1. run.stage = "session" => Received(page) = PennsylvaniaSession(run)
    BY <1>10, ReceivedBy DEF BeforeListing
  <2>2. run.stage = "page" => Received(page) = PennsylvaniaPage(run, page)
    BY <1>10, ReceivedBy DEF Listing
  <2>3. run.stage = "detail" => Received(page) = PennsylvaniaDetail(run)
    BY <1>10, ReceivedBy DEF Detail
  <2>4. run.stage = "session" => Queued(PennsylvaniaSession(run), limit, most, stages)
                                 /\ Paging(PennsylvaniaSession(run))
    BY <1>1, <1>2, <1>3, <1>10, PennsylvaniaSessionQueued
  <2>5. run.stage = "page" => Queued(PennsylvaniaPage(run, page), limit, most, stages)
                              /\ Paging(PennsylvaniaPage(run, page))
    BY <1>1, <1>2, <1>3, <1>10, PennsylvaniaPageQueued
  <2>6. run.stage = "detail" => Queued(PennsylvaniaDetail(run), limit, most, stages)
                                /\ Paging(PennsylvaniaDetail(run))
    BY <1>1, <1>2, <1>3, <1>10, PennsylvaniaDetailQueued
  <2> QED
    BY <1>2, <1>4, <1>10, <2>1, <2>2, <2>3, <2>4, <2>5, <2>6
<1>11. ASSUME Family = "cgi" PROVE Queued(Received(page), limit, most, stages)
  <2>1. run.stage \in {"session", "form"} => Received(page) = CgiSession(run, page)
    BY <1>11, ReceivedBy DEF BeforeListing
  <2>2. run.stage = "page" => Received(page) = CgiPage(run, page)
    BY <1>11, ReceivedBy DEF Listing
  <2>3. run.stage = "detail" => Received(page) = CgiDetail(run, page)
    BY <1>11, ReceivedBy DEF Detail
  <2>4. run.stage # "detail" => Queued(CgiSession(run, page), limit, most, stages)
    BY <1>1, <1>2, <1>3, <1>11, CgiSessionQueued
  <2>5. run.stage = "page" => Queued(CgiPage(run, page), limit, most, stages)
    BY <1>1, <1>2, <1>3, <1>11, CgiPageQueued
  <2>6. run.stage = "detail" => Queued(CgiDetail(run, page), limit, most, stages)
    BY <1>1, <1>2, <1>3, <1>11, CgiDetailQueued
  <2> QED
    BY <1>2, <1>4, <1>11, <2>1, <2>2, <2>3, <2>4, <2>5, <2>6
<1>12. Queued(Received(page), limit, most, stages)
  BY <1>5, <1>6, <1>7, <1>8, <1>9, <1>10, <1>11 DEF QueuedFamilies
<1>13. Family = "pennsylvania" => Paging(Received(page))
  BY <1>10
<1> QED
  BY <1>12, <1>13 DEF most, stages

LEMMA ListedReceived ==
  ASSUME NEW limit \in Nat, Family \in KeepingRow, Active(run),
         Listed(run, limit, Most(Family, limit), StagesOf(Family)), NEW page, IsSequence(page.rows)
  PROVE  Listed(Received(page), limit, Most(Family, limit), StagesOf(Family))
<1> DEFINE most == Most(Family, limit)
           stages == StagesOf(Family)
<1>1. most \in Nat /\ Lesser(limit, MaxResults) <= most
  BY MostBounds DEF KeepingRow
<1>2. stages = {"page", "detail"}
  BY StagesKnown
<1> HIDE DEF most, stages
<1>3. Listed(run, limit, most, stages)
  BY DEF most, stages
<1>4. run.stage \in stages
  BY <1>3, SoundStage DEF Listed, Queued
<1>5. ASSUME run.stage = "page" PROVE Listed(Received(page), limit, most, stages)
  <2>1. Queued(run, limit, 1, stages)
    BY <1>3, <1>5 DEF Listed
  <2>2. \E boundary, criteria : Received(page) = ListingPage(run, page, boundary, criteria)
    BY <1>5, ReceivedBy DEF Listing, KeepingRow, BidNetPage, PublicPurchasePage, PlanetBidsPage,
       MarylandPage, GeorgiaPage, DemandStarPage
  <2>3. \A boundary, criteria : Listed(ListingPage(run, page, boundary, criteria), limit, most, stages)
    BY <1>1, <1>2, <1>5, <2>1, ListingPageListed
  <2> QED
    BY <2>2, <2>3
<1>6. ASSUME run.stage = "detail" PROVE Listed(Received(page), limit, most, stages)
  <2>1. Queued(run, limit, most, stages)
    BY <1>3, <1>6 DEF Listed
  <2>2. \E status : Received(page) = ListingDetail(run, status)
    BY <1>6, ReceivedBy DEF Detail, KeepingRow, BidNetDetail, PublicPurchaseDetail, PlanetBidsDetail,
       MarylandDetail, GeorgiaDetail, DemandStarDetail
  <2>3. \A status : Listed(ListingDetail(run, status), limit, most, stages)
    BY <1>1, <1>2, <1>6, <2>1, ListingDetailListed
  <2> QED
    BY <2>2, <2>3
<1> QED
  BY <1>2, <1>4, <1>5, <1>6 DEF most, stages

LEMMA FreshStaged ==
  ASSUME NEW limit, NEW most, NEW stages, NEW r, Fresh(r, limit, most, stages), Active(r),
         NEW stage \in stages, stage # "detail"
  PROVE  Fresh(ToStage(r, stage), limit, most, stages)
<1>1. Loose(r, limit, most, stages) /\ Len(r.out) < most /\ Apart(r)
  BY DEF Fresh, Sound
<1>2. Sound(ToStage(r, stage), limit, most, stages) /\ ToStage(r, stage).stage = stage
  BY <1>1, Staged
<1>3. /\ ToStage(r, stage).held = r.held /\ ToStage(r, stage).queue = r.queue
      /\ ToStage(r, stage).out = r.out
  BY <1>1, Staged
<1> QED
  BY <1>1, <1>2, <1>3 DEF Fresh, Apart

LEMMA FreshReceived ==
  ASSUME NEW limit \in Nat, Family \in FreshFamilies, Active(run),
         Fresh(run, limit, Most(Family, limit), StagesOf(Family)), NEW page, IsSequence(page.rows)
  PROVE  Fresh(Received(page), limit, Most(Family, limit), StagesOf(Family))
<1> DEFINE most == Most(Family, limit)
           stages == StagesOf(Family)
<1>1. most \in Nat /\ Lesser(limit, MaxResults) <= most
  BY MostBounds DEF FreshFamilies
<1>2. /\ Family = "bidbuy" => stages = {"session", "page", "detail"}
      /\ Family = "rivip" => stages = {"session", "form", "page", "detail"}
  BY StagesKnown
<1> HIDE DEF most, stages
<1>3. Fresh(run, limit, most, stages)
  BY DEF most, stages
<1>4. run.stage \in stages /\ Loose(run, limit, most, stages) /\ Distinct(run.out)
  BY <1>3, SoundStage DEF Fresh, Apart
<1>5. ASSUME Family = "bidbuy" PROVE Fresh(Received(page), limit, most, stages)
  <2>1. run.stage = "session" => \/ Received(page) = Failed(run, "malformed")
                                 \/ Received(page) = ToStage(run, "page")
    BY <1>5, ReceivedBy DEF BeforeListing, BidBuySession
  <2>2. run.stage = "page" => Received(page) = BidBuyPage(run, page)
    BY <1>5, ReceivedBy DEF Listing
  <2>3. run.stage = "detail" => Received(page) = BidBuyDetail(run)
    BY <1>5, ReceivedBy DEF Detail
  <2>4. Fresh(Failed(run, "malformed"), limit, most, stages)
    BY <1>4, FreshEnds
  <2>5. Fresh(ToStage(run, "page"), limit, most, stages)
    BY <1>2, <1>3, <1>5, FreshStaged
  <2>6. Fresh(BidBuyPage(run, page), limit, most, stages)
    BY <1>1, <1>2, <1>3, <1>5, BidBuyPageFresh
  <2>7. run.stage = "detail" => Fresh(BidBuyDetail(run), limit, most, stages)
    BY <1>1, <1>2, <1>3, <1>5, BidBuyDetailFresh
  <2> QED
    BY <1>2, <1>4, <1>5, <2>1, <2>2, <2>3, <2>4, <2>5, <2>6, <2>7
<1>6. ASSUME Family = "rivip" PROVE Fresh(Received(page), limit, most, stages)
  <2>1. run.stage = "session" => Received(page) = ToStage(run, "form")
    BY <1>6, ReceivedBy DEF BeforeListing, RivipSession
  <2>2. run.stage = "form" => Received(page) = RivipPage(run, page)
    BY <1>6, ReceivedBy DEF BeforeListing
  <2>3. run.stage = "page" => Received(page) = RivipPage(run, page)
    BY <1>6, ReceivedBy DEF Listing
  <2>4. run.stage = "detail" => Received(page) = RivipDetail(run, page)
    BY <1>6, ReceivedBy DEF Detail
  <2>5. Fresh(ToStage(run, "form"), limit, most, stages)
    BY <1>2, <1>3, <1>6, FreshStaged
  <2>6. Fresh(RivipPage(run, page), limit, most, stages)
    BY <1>1, <1>2, <1>3, <1>6, RivipPageFresh
  <2>7. run.stage = "detail" => Fresh(RivipDetail(run, page), limit, most, stages)
    BY <1>1, <1>2, <1>3, <1>6, RivipDetailFresh
  <2> QED
    BY <1>2, <1>4, <1>6, <2>1, <2>2, <2>3, <2>4, <2>5, <2>6, <2>7
<1> QED
  BY <1>5, <1>6 DEF FreshFamilies, most, stages

LEMMA LookingReceived ==
  ASSUME NEW limit \in Nat, Family = "opengov", Active(run),
         Looking(run, limit, Most(Family, limit), StagesOf(Family)), NEW page, IsSequence(page.rows)
  PROVE  Looking(Received(page), limit, Most(Family, limit), StagesOf(Family))
<1> DEFINE most == Most(Family, limit)
           stages == StagesOf(Family)
<1>1. most \in Nat /\ Lesser(limit, MaxResults) <= most
  BY MostBounds
<1>2. stages = {"page", "detail"}
  BY StagesKnown
<1> HIDE DEF most, stages
<1>3. Looking(run, limit, most, stages)
  BY DEF most, stages
<1>4. run.stage \in stages
  BY <1>3, SoundStage DEF Looking
<1>5. run.stage = "page" => Received(page) = OpenGovPage(run, page)
  BY ReceivedBy DEF Listing
<1>6. run.stage = "detail" => Received(page) = OpenGovDetail(run, page)
  BY ReceivedBy DEF Detail
<1>7. Looking(OpenGovPage(run, page), limit, most, stages)
  BY <1>2, <1>3, OpenGovPageLooking
<1>8. run.stage = "detail" => Looking(OpenGovDetail(run, page), limit, most, stages)
  BY <1>1, <1>2, <1>3, OpenGovDetailLooking
<1>9. Looking(Received(page), limit, most, stages)
  BY <1>2, <1>4, <1>5, <1>6, <1>7, <1>8
<1> QED
  BY <1>9 DEF most, stages

LEMMA DemandStarReceived ==
  ASSUME NEW limit \in Nat, Family = "demandstar_api", Active(run),
         Sound(run, limit, Most(Family, limit), StagesOf(Family)), NEW page, IsSequence(page.rows)
  PROVE  Sound(Received(page), limit, Most(Family, limit), StagesOf(Family))
<1> DEFINE most == Most(Family, limit)
           stages == StagesOf(Family)
<1>1. most \in Nat /\ Lesser(limit, MaxResults) <= most
  BY MostBounds
<1>2. stages = {"page", "detail"}
  BY StagesKnown
<1> HIDE DEF most, stages
<1>3. Sound(run, limit, most, stages)
  BY DEF most, stages
<1>4. run.stage \in stages
  BY <1>3, SoundStage
<1>5. run.stage = "page" => Received(page) = DemandStarSearched(run, page)
  BY ReceivedBy DEF Listing
<1>6. run.stage = "detail" => \E parts : Received(page) = DemandStarPart(run, page, parts)
  BY ReceivedBy DEF Detail
<1>7. Sound(DemandStarSearched(run, page), limit, most, stages)
  BY <1>1, <1>2, <1>3, SearchedSound
<1>8. run.stage = "detail" => \A parts : Sound(DemandStarPart(run, page, parts), limit, most, stages)
  BY <1>1, <1>2, <1>3, PartSound
<1>9. Sound(Received(page), limit, most, stages)
  BY <1>2, <1>4, <1>5, <1>6, <1>7, <1>8
<1> QED
  BY <1>9 DEF most, stages

LEMMA KeepsReceived ==
  ASSUME NEW limit \in Nat, Keeps(Family, run, limit), Active(run), NEW page, IsSequence(page.rows)
  PROVE  Keeps(Family, Received(page), limit)
<1>1. ASSUME Family \in SingleFamilies
      PROVE  Single(Received(page), limit, Most(Family, limit), StagesOf(Family))
  BY <1>1, SingleReceived DEF Keeps
<1>2. ASSUME Family \in QueuedFamilies
      PROVE  /\ Queued(Received(page), limit, Most(Family, limit), StagesOf(Family))
             /\ Family = "pennsylvania" => Paging(Received(page))
  BY <1>2, QueuedReceived DEF Keeps
<1>3. ASSUME Family \in KeepingRow
      PROVE  Listed(Received(page), limit, Most(Family, limit), StagesOf(Family))
  BY <1>3, ListedReceived DEF Keeps
<1>4. ASSUME Family \in FreshFamilies
      PROVE  Fresh(Received(page), limit, Most(Family, limit), StagesOf(Family))
  BY <1>4, FreshReceived DEF Keeps
<1>5. ASSUME Family = "opengov"
      PROVE  Looking(Received(page), limit, Most(Family, limit), StagesOf(Family))
  BY <1>5, LookingReceived DEF Keeps
<1>6. ASSUME Family = "demandstar_api"
      PROVE  Sound(Received(page), limit, Most(Family, limit), StagesOf(Family))
  BY <1>6, DemandStarReceived DEF Keeps
<1>7. "pennsylvania" \in QueuedFamilies
  BY DEF QueuedFamilies
<1> QED
  BY <1>1, <1>2, <1>3, <1>4, <1>5, <1>6, <1>7 DEF Keeps

\* What all classes have in common.
LEMMA KeepsLoose ==
  ASSUME NEW family \in Families, NEW limit \in Nat, NEW r, Keeps(family, r, limit)
  PROVE  /\ Loose(r, limit, Most(family, limit), StagesOf(family))
         /\ Active(r) /\ r.stage = "detail" => r.queue # <<>>
         /\ family # "demandstar_api" => Distinct(r.out)
<1> DEFINE most == Most(family, limit)
           stages == StagesOf(family)
<1>1. most \in Nat
  BY MostBounds
<1> HIDE DEF most, stages
<1>2. ASSUME Sound(r, limit, most, stages)
      PROVE  Loose(r, limit, most, stages) /\ (Active(r) /\ r.stage = "detail" => r.queue # <<>>)
  BY <1>2 DEF Sound
<1>3. ASSUME Listed(r, limit, most, stages)
      PROVE  /\ Loose(r, limit, most, stages) /\ (Active(r) /\ r.stage = "detail" => r.queue # <<>>)
             /\ Distinct(r.out)
  <2>1. CASE Active(r) /\ r.stage # "detail"
    <3>1. Queued(r, limit, 1, stages)
      BY <1>3, <2>1 DEF Listed
    <3>2. Loose(r, limit, most, stages)
      BY <1>1, <2>1, <3>1, ListedEnds
    <3> QED
      BY <2>1, <3>1, <3>2 DEF Queued, Apart
  <2>2. CASE ~(Active(r) /\ r.stage # "detail")
    BY <1>3, <2>2 DEF Listed, Queued, Sound, Apart
  <2> QED
    BY <2>1, <2>2
<1>4. /\ family \in SingleFamilies => Sound(r, limit, most, stages) /\ Distinct(r.out)
      /\ family \in QueuedFamilies => Sound(r, limit, most, stages) /\ Distinct(r.out)
      /\ family \in KeepingRow => Listed(r, limit, most, stages)
      /\ family \in FreshFamilies => Sound(r, limit, most, stages) /\ Distinct(r.out)
      /\ family = "opengov" => Sound(r, limit, most, stages) /\ Distinct(r.out)
      /\ family = "demandstar_api" => Sound(r, limit, most, stages)
  BY DEF Keeps, Single, Queued, Fresh, Looking, Apart, most, stages
<1>5. \/ family \in SingleFamilies \/ family \in QueuedFamilies \/ family \in KeepingRow
      \/ family \in FreshFamilies \/ family = "opengov" \/ family = "demandstar_api"
  BY DEF Families, SingleFamilies, QueuedFamilies, KeepingRow, FreshFamilies
<1> QED
  BY <1>2, <1>3, <1>4, <1>5 DEF most, stages

\* An attempt changes nothing of it.
LEMMA KeepsRedressed ==
  ASSUME NEW family, NEW limit, NEW r, Keeps(family, r, limit),
         NEW q, DOMAIN q = DOMAIN r, q.state = r.state, q.stage = r.stage, q.page = r.page,
         q.limit = r.limit, q.held = r.held, q.queue = r.queue, q.out = r.out,
         q.attempt \in 0..MaxRetries
  PROVE  Keeps(family, q, limit)
<1>1. Active(q) <=> Active(r)
  BY DEF Active
<1>2. ASSUME NEW m, NEW stages, Sound(r, limit, m, stages) PROVE Sound(q, limit, m, stages)
  <2>1. Loose(q, limit, m, stages)
    BY <1>2 DEF Sound, Loose
  <2> QED
    BY <1>1, <1>2, <2>1 DEF Sound
<1>3. Apart(r) => Apart(q)
  BY DEF Apart
<1>4. ASSUME NEW m, NEW stages, Queued(r, limit, m, stages) PROVE Queued(q, limit, m, stages)
  BY <1>1, <1>2, <1>3, <1>4 DEF Queued
<1>5. ASSUME NEW m, NEW stages, Listed(r, limit, m, stages) PROVE Listed(q, limit, m, stages)
  BY <1>1, <1>4, <1>5 DEF Listed
<1>6. ASSUME NEW m, NEW stages, Fresh(r, limit, m, stages) PROVE Fresh(q, limit, m, stages)
  BY <1>1, <1>2, <1>3, <1>6 DEF Fresh
<1>7. ASSUME NEW m, NEW stages, Looking(r, limit, m, stages) PROVE Looking(q, limit, m, stages)
  BY <1>1, <1>2, <1>7 DEF Looking
<1>8. ASSUME NEW m, NEW stages, Single(r, limit, m, stages) PROVE Single(q, limit, m, stages)
  BY <1>2, <1>8 DEF Single
<1>9. Paging(r) => Paging(q)
  BY <1>1 DEF Paging
<1> QED
  BY <1>2, <1>4, <1>5, <1>6, <1>7, <1>8, <1>9 DEF Keeps

LEMMA KeepsFailed ==
  ASSUME NEW family \in Families, NEW limit \in Nat, NEW r, Keeps(family, r, limit), NEW why
  PROVE  Keeps(family, Failed(r, why), limit)
<1> DEFINE most == Most(family, limit)
           stages == StagesOf(family)
           f == Failed(r, why)
<1>1. Loose(r, limit, most, stages) /\ (family # "demandstar_api" => Distinct(r.out))
  BY KeepsLoose
<1> HIDE DEF most, stages
<1>2. Sound(f, limit, most, stages) /\ ~Active(f) /\ f.out = r.out
  BY <1>1, Ended
<1>3. family # "demandstar_api" => Queued(f, limit, most, stages) /\ Fresh(f, limit, most, stages)
  BY <1>1, QueuedEnds, FreshEnds
<1>4. family # "demandstar_api" => Looking(f, limit, most, stages) /\ Single(f, limit, most, stages)
  BY <1>1, LookingEnds, SingleEnds
<1>5. Paging(f) /\ (Queued(f, limit, most, stages) => Listed(f, limit, most, stages))
  BY <1>2 DEF Paging, Listed
<1>6. "demandstar_api" \notin SingleFamilies \cup QueuedFamilies \cup KeepingRow \cup FreshFamilies
  BY DEF SingleFamilies, QueuedFamilies, KeepingRow, FreshFamilies
<1> HIDE DEF f
<1>7. Keeps(family, f, limit)
  BY <1>2, <1>3, <1>4, <1>5, <1>6 DEF Keeps, most, stages
<1> QED
  BY <1>7 DEF f

LEMMA KeepsStopped ==
  ASSUME NEW limit \in Nat, Family \in Families, Keeps(Family, run, limit), Active(run), NEW why
  PROVE  Keeps(Family, Stopped(why), limit)
<1> DEFINE most == Most(Family, limit)
           stages == StagesOf(Family)
<1>1. most \in Nat /\ (Family # "webprocure" => Lesser(limit, MaxResults) <= most)
  BY MostBounds
<1>2. /\ Family \in {"peoplesoft", "infotech", "periscope", "pennsylvania"}
         => stages = {"session", "page", "detail"}
      /\ Family = "cgi" => stages = {"session", "form", "page", "detail"}
  BY StagesKnown
<1>3. Keeps(Family, Failed(run, why), limit)
  BY KeepsFailed
<1>4. Loose(run, limit, most, stages)
  BY KeepsLoose
<1>5. ASSUME run.stage = "detail", Family \in {"peoplesoft", "infotech", "periscope"}
      PROVE  Keeps(Family, Stopped(why), limit)
  <2>1. \E status : Stopped(why) = YieldDropped(run, status)
    BY <1>5 DEF Stopped, PeopleSoftDropped, InfotechDropped, PeriscopeDropped
  <2>2. Single(run, limit, most, stages)
    BY <1>5 DEF Keeps, SingleFamilies
  <2> HIDE DEF most, stages
  <2>3. \A status : Single(YieldDropped(run, status), limit, most, stages)
    BY <1>1, <1>2, <1>5, <2>2, YieldDroppedSingle
  <2>4. Single(Stopped(why), limit, most, stages)
    BY <2>1, <2>3
  <2>5. Family \notin QueuedFamilies \cup KeepingRow \cup FreshFamilies
    BY <1>5 DEF QueuedFamilies, KeepingRow, FreshFamilies
  <2> QED
    BY <1>5, <2>4, <2>5 DEF Keeps, most, stages
<1>6. ASSUME run.stage = "detail", Family \in {"pennsylvania", "cgi"}
      PROVE  Keeps(Family, Stopped(why), limit)
  <2>1. /\ Family = "pennsylvania" => Stopped(why) = PennsylvaniaDropped(run)
        /\ Family = "cgi" => Stopped(why) = CgiDropped(run)
    BY <1>6 DEF Stopped
  <2>2. Queued(run, limit, most, stages)
    BY <1>6 DEF Keeps, QueuedFamilies
  <2> HIDE DEF most, stages
  <2>3. Family = "pennsylvania" => /\ Queued(PennsylvaniaDropped(run), limit, most, stages)
                                   /\ Paging(PennsylvaniaDropped(run))
    BY <1>1, <1>2, <1>6, <2>2, PennsylvaniaDetailQueued
  <2>4. Family = "cgi" => \A page : Queued(CgiDropped(run), limit, most, stages)
    BY <1>1, <1>2, <1>6, <2>2, CgiDetailQueued
  <2>5. Queued(Stopped(why), limit, most, stages) /\ (Family = "pennsylvania" => Paging(Stopped(why)))
    BY <1>6, <2>1, <2>3, <2>4
  <2>6. Family \notin SingleFamilies \cup KeepingRow \cup FreshFamilies
    BY <1>6 DEF SingleFamilies, KeepingRow, FreshFamilies
  <2> QED
    BY <1>6, <2>5, <2>6 DEF Keeps, most, stages
<1>7. ASSUME Family = "demandstar_api" PROVE Keeps(Family, Stopped(why), limit)
  <2>1. Stopped(why) = DemandStarLost(run, why)
    BY <1>7 DEF Stopped
  <2> HIDE DEF most, stages
  <2>2. Sound(DemandStarLost(run, why), limit, most, stages)
    BY <1>1, <1>4, LostSound
  <2>3. Family \notin SingleFamilies \cup QueuedFamilies \cup KeepingRow \cup FreshFamilies
    BY <1>7 DEF SingleFamilies, QueuedFamilies, KeepingRow, FreshFamilies
  <2> QED
    BY <1>7, <2>1, <2>2, <2>3 DEF Keeps, most, stages
<1>8. \/ run.stage = "detail" /\ Family \in {"peoplesoft", "infotech", "periscope"}
      \/ run.stage = "detail" /\ Family \in {"pennsylvania", "cgi"}
      \/ Family = "demandstar_api" \/ Stopped(why) = Failed(run, why)
  BY DEF Stopped
<1> QED
  BY <1>3, <1>5, <1>6, <1>7, <1>8

-----------------------------------------------------------------------------
(* How a run begins.                                                        *)

\* A run that ended at once, or asks for its first page.
Opened(query, next) ==
  \/ next = Returned(query)
  \/ \E why : next = Refused(query, why)
  \/ \E stage \in StagesOf(Family) \ {"detail"} :
       /\ next = Asking(query, stage)
       /\ 0 < Most(Family, query.limit) \/ Family \in KeepingRow
       /\ Family \notin PerRequest \cup Circuitless => ~OpenUntilCooldown(health, now)

OneMore == {"jaggaer", "bonfire", "ionwave", "tyler", "rivip", "demandstar_api"}

LEMMA OpenedAsking ==
  ASSUME NEW query, query.limit \in Nat,
         NEW stage \in StagesOf(Family), stage # "detail",
         query.limit > 0 \/ Family \in KeepingRow \cup OneMore,
         Family \notin PerRequest \cup Circuitless => ~OpenUntilCooldown(health, now)
  PROVE  Opened(query, Asking(query, stage))
BY MostBounds DEF Opened, OneMore

LEMMA StartedOpened ==
  ASSUME Family \in Families, NEW query, query.limit \in Nat
  PROVE  Opened(query, Started(query))
<1> DEFINE Asked(stage) == Started(query) = Asking(query, stage)
           Over == Started(query) = Returned(query) \/ \E why : Started(query) = Refused(query, why)
           shut == OpenUntilCooldown(health, now)
<1>1. Over => Opened(query, Started(query))
  BY DEF Opened
<1>2. /\ "page" \in StagesOf(Family)
      /\ Family \in {"peoplesoft", "infotech", "periscope", "bidbuy", "tyler", "rivip", "pennsylvania", "cgi"}
         => "session" \in StagesOf(Family)
  BY StagesKnown
<1>3. \A stage \in StagesOf(Family) \ {"detail"} :
        /\ query.limit > 0 \/ Family \in KeepingRow \cup OneMore
        /\ Family \notin PerRequest \cup Circuitless => ~shut
        => Opened(query, Asking(query, stage))
  BY OpenedAsking
<1>4. ASSUME Family = "webprocure"
      PROVE  Opened(query, Started(query))
  <2> DEFINE s == WebProcureStart(query, health, now)
  <2>1. Started(query) = s
    BY <1>4 DEF Started
  <2>2. \/ s = Returned(query) \/ s = Refused(query, "circuit")
        \/ query.limit > 0 /\ ~shut /\ s = Asking(query, "page")
    BY DEF WebProcureStart, WebProcureOpen
  <2> HIDE DEF s
  <2>3. Over \/ (query.limit > 0 /\ ~shut /\ Asked("page"))
    BY <2>1, <2>2
  <2> HIDE DEF Over, shut
  <2> QED
    BY <1>1, <1>2, <1>3, <1>4, <2>3 DEF OneMore, KeepingRow, PerRequest, Circuitless
<1>5. ASSUME Family = "eva"
      PROVE  Opened(query, Started(query))
  <2> DEFINE s == EvaStart(query, health, now)
  <2>1. Started(query) = s
    BY <1>5 DEF Started
  <2>2. \/ s = Returned(query) \/ s = Refused(query, "circuit")
        \/ query.limit > 0 /\ ~shut /\ s = Asking(query, "page")
    BY DEF EvaStart, EvaOpen
  <2> HIDE DEF s
  <2>3. Over \/ (query.limit > 0 /\ ~shut /\ Asked("page"))
    BY <2>1, <2>2
  <2> HIDE DEF Over, shut
  <2> QED
    BY <1>1, <1>2, <1>3, <1>5, <2>3 DEF OneMore, KeepingRow, PerRequest, Circuitless
<1>6. ASSUME Family = "texas"
      PROVE  Opened(query, Started(query))
  <2> DEFINE s == TexasStart(query, health, now)
  <2>1. Started(query) = s
    BY <1>6 DEF Started
  <2>2. \/ s = Returned(query) \/ s = Refused(query, "circuit")
        \/ query.limit > 0 /\ ~shut /\ s = Asking(query, "page")
    BY DEF TexasStart, TexasOpen
  <2> HIDE DEF s
  <2>3. Over \/ (query.limit > 0 /\ ~shut /\ Asked("page"))
    BY <2>1, <2>2
  <2> HIDE DEF Over, shut
  <2> QED
    BY <1>1, <1>2, <1>3, <1>6, <2>3 DEF OneMore, KeepingRow, PerRequest, Circuitless
<1>7. ASSUME Family = "opengov"
      PROVE  Opened(query, Started(query))
  <2> DEFINE s == OpenGovStart(query, setting.profile, health, now)
  <2>1. Started(query) = s
    BY <1>7 DEF Started
  <2>2. \/ s = Returned(query) \/ s = Refused(query, "circuit") \/ s = Refused(query, "refused")
        \/ query.limit > 0 /\ ~shut /\ s = Asking(query, "page")
    BY DEF OpenGovStart, OpenGovOpen
  <2> HIDE DEF s
  <2>3. Over \/ (query.limit > 0 /\ ~shut /\ Asked("page"))
    BY <2>1, <2>2
  <2> HIDE DEF Over, shut
  <2> QED
    BY <1>1, <1>2, <1>3, <1>7, <2>3 DEF OneMore, KeepingRow, PerRequest, Circuitless
<1>8. ASSUME Family = "peoplesoft"
      PROVE  Opened(query, Started(query))
  <2> DEFINE s == PeopleSoftStart(query, setting.profile, health, now)
  <2>1. Started(query) = s
    BY <1>8 DEF Started
  <2>2. \/ s = Returned(query) \/ s = Refused(query, "circuit")
        \/ query.limit > 0 /\ ~shut /\ s = Asking(query, "session")
        \/ query.limit > 0 /\ ~shut /\ s = Asking(query, "page")
    BY DEF PeopleSoftStart, PeopleSoftOpen
  <2> HIDE DEF s
  <2>3. Over \/ (query.limit > 0 /\ ~shut /\ (Asked("session") \/ Asked("page")))
    BY <2>1, <2>2
  <2> HIDE DEF Over, shut
  <2> QED
    BY <1>1, <1>2, <1>3, <1>8, <2>3 DEF OneMore, KeepingRow, PerRequest, Circuitless
<1>9. ASSUME Family = "infotech"
      PROVE  Opened(query, Started(query))
  <2> DEFINE s == InfotechStart(query, setting.profile, health, now)
  <2>1. Started(query) = s
    BY <1>9 DEF Started
  <2>2. \/ s = Returned(query) \/ s = Refused(query, "circuit")
        \/ query.limit > 0 /\ ~shut /\ s = Asking(query, "session")
        \/ query.limit > 0 /\ ~shut /\ s = Asking(query, "page")
    BY DEF InfotechStart, InfotechOpen
  <2> HIDE DEF s
  <2>3. Over \/ (query.limit > 0 /\ ~shut /\ (Asked("session") \/ Asked("page")))
    BY <2>1, <2>2
  <2> HIDE DEF Over, shut
  <2> QED
    BY <1>1, <1>2, <1>3, <1>9, <2>3 DEF OneMore, KeepingRow, PerRequest, Circuitless
<1>10. ASSUME Family \in {"periscope", "bidbuy"}
      PROVE  Opened(query, Started(query))
  <2>1. Over \/ (query.limit > 0 /\ ~shut /\ (Asked("session") \/ (Family = "periscope" /\ Asked("page"))))
    BY <1>10 DEF Started, PeriscopeStart, PeriscopeOpen
  <2> HIDE DEF Over, shut
  <2> QED
    BY <1>1, <1>2, <1>3, <1>10, <2>1 DEF OneMore, KeepingRow, PerRequest, Circuitless
<1>11. ASSUME Family = "pennsylvania"
      PROVE  Opened(query, Started(query))
  <2>1. Over \/ (query.limit > 0 /\ ~shut /\ Asked("session"))
    BY <1>11 DEF Started, PennsylvaniaStart, PennsylvaniaOpen
  <2> HIDE DEF Over, shut
  <2> QED
    BY <1>1, <1>2, <1>3, <1>11, <2>1 DEF OneMore, KeepingRow, PerRequest, Circuitless
<1>12. ASSUME Family = "cgi"
      PROVE  Opened(query, Started(query))
  <2> DEFINE s == CgiStart(query, setting.profile, health, now)
  <2>1. Started(query) = s
    BY <1>12 DEF Started
  <2>2. \/ s = Returned(query) \/ s = Refused(query, "circuit") \/ s = Refused(query, "query") \/ s = Refused(query, "refused")
        \/ query.limit > 0 /\ ~shut /\ s = Asking(query, "session")
        \/ query.limit > 0 /\ ~shut /\ s = Asking(query, "page")
    BY DEF CgiStart, CgiOpen
  <2> HIDE DEF s
  <2>3. Over \/ (query.limit > 0 /\ ~shut /\ (Asked("session") \/ Asked("page")))
    BY <2>1, <2>2
  <2> HIDE DEF Over, shut
  <2> QED
    BY <1>1, <1>2, <1>3, <1>12, <2>3 DEF OneMore, KeepingRow, PerRequest, Circuitless
<1>13. ASSUME Family = "oracle"
      PROVE  Opened(query, Started(query))
  <2>1. Over \/ (query.limit > 0 /\ Asked("page"))
    BY <1>13, Numbers DEF Started, OracleStart, OracleWanted, Lesser
  <2> HIDE DEF Over, shut
  <2> QED
    BY <1>1, <1>2, <1>3, <1>13, <2>1 DEF OneMore, KeepingRow, PerRequest, Circuitless
<1>14. ASSUME Family = "jaggaer"
      PROVE  Opened(query, Started(query))
  <2>1. Over \/ (~shut /\ Asked("page"))
    BY <1>14 DEF Started, JaggaerStart, CollectStart, CollectOpen
  <2> HIDE DEF Over, shut
  <2> QED
    BY <1>1, <1>2, <1>3, <1>14, <2>1 DEF OneMore, KeepingRow, PerRequest, Circuitless
<1>15. ASSUME Family = "bonfire"
      PROVE  Opened(query, Started(query))
  <2> DEFINE s == BonfireStart(query, setting.profile, health, now)
  <2>1. Started(query) = s
    BY <1>15 DEF Started
  <2>2. \/ s = Returned(query) \/ s = Refused(query, "circuit") \/ s = Refused(query, "refused")
        \/ ~shut /\ s = Asking(query, "page")
    BY DEF BonfireStart, CollectStart, CollectOpen
  <2> HIDE DEF s
  <2>3. Over \/ (~shut /\ Asked("page"))
    BY <2>1, <2>2
  <2> HIDE DEF Over, shut
  <2> QED
    BY <1>1, <1>2, <1>3, <1>15, <2>3 DEF OneMore, KeepingRow, PerRequest, Circuitless
<1>16. ASSUME Family = "ionwave"
      PROVE  Opened(query, Started(query))
  <2> DEFINE s == IonWaveStart(query, setting.profile, health, now)
  <2>1. Started(query) = s
    BY <1>16 DEF Started
  <2>2. \/ s = Returned(query) \/ s = Refused(query, "circuit") \/ s = Refused(query, "refused")
        \/ ~shut /\ s = Asking(query, "page")
    BY DEF IonWaveStart, CollectStart, CollectOpen
  <2> HIDE DEF s
  <2>3. Over \/ (~shut /\ Asked("page"))
    BY <2>1, <2>2
  <2> HIDE DEF Over, shut
  <2> QED
    BY <1>1, <1>2, <1>3, <1>16, <2>3 DEF OneMore, KeepingRow, PerRequest, Circuitless
<1>17. ASSUME Family \in {"tyler", "rivip"}
      PROVE  Opened(query, Started(query))
  <2>1. Over \/ (Asked("session"))
    BY <1>17 DEF Started, TylerStart, RivipStart
  <2> HIDE DEF Over, shut
  <2> QED
    BY <1>1, <1>2, <1>3, <1>17, <2>1 DEF OneMore, KeepingRow, PerRequest, Circuitless
<1>18. ASSUME Family \in {"bidnet", "public_purchase", "planetbids", "maryland", "georgia", "demandstar", "demandstar_api"}
      PROVE  Opened(query, Started(query))
  <2>1. Over \/ (Asked("page"))
    BY <1>18 DEF Started, ListingStart, BidNetStart, PublicPurchaseStart, PlanetBidsStart, MarylandStart, GeorgiaStart, DemandStarStart
  <2> HIDE DEF Over, shut
  <2> QED
    BY <1>1, <1>2, <1>3, <1>18, <2>1 DEF OneMore, KeepingRow, PerRequest, Circuitless
<1> QED
  BY <1>4, <1>5, <1>6, <1>7, <1>8, <1>9, <1>10, <1>11, <1>12, <1>13, <1>14, <1>15, <1>16, <1>17, <1>18 DEF Families

\* A run without rows.
Blank(family, r, limit) ==
  /\ DOMAIN r = DOMAIN Idle /\ r.state \in {"idle", "asking", "done", "failed"}
  /\ r.stage \in (StagesOf(family) \ {"detail"}) \cup {None}
  /\ r.page = 1 /\ r.attempt = 0 /\ r.limit = limit
  /\ r.held = <<>> /\ r.queue = <<>> /\ r.out = <<>>
  /\ Active(r) => /\ r.stage \in StagesOf(family) \ {"detail"}
                  /\ 0 < Most(family, limit) \/ family \in KeepingRow

LEMMA OpenedBlank ==
  ASSUME NEW query, NEW next, Opened(query, next)
  PROVE  Blank(Family, next, query.limit)
<1>1. Blank(Family, Returned(query), query.limit)
  BY Fields DEF Blank, Returned, Idle, Active
<1>2. ASSUME NEW why PROVE Blank(Family, Refused(query, why), query.limit)
  BY Fields DEF Blank, Refused, Returned, Idle, Active
<1>3. ASSUME NEW stage \in StagesOf(Family) \ {"detail"},
             0 < Most(Family, query.limit) \/ Family \in KeepingRow
      PROVE  Blank(Family, Asking(query, stage), query.limit)
  BY <1>3, Fields DEF Blank, Asking, Idle, Active
<1> QED
  BY <1>1, <1>2, <1>3 DEF Opened

LEMMA BlankKept ==
  ASSUME NEW family \in Families, NEW limit \in Nat, NEW r, Blank(family, r, limit)
  PROVE  Keeps(family, r, limit)
<1> DEFINE most == Most(family, limit)
           stages == StagesOf(family)
<1>1. most \in Nat
  BY MostBounds
<1>2. 0 \in 0..MaxRetries /\ 1 \in 1..MaxPages + 1 /\ 1 <= MaxPages
  BY Numbers
<1>3. Active(r) => r.stage \in stages \ {"detail"} /\ (0 < most \/ family \in KeepingRow)
  BY DEF Blank
<1>4. r.page = 1 /\ r.held = <<>> /\ r.queue = <<>> /\ r.out = <<>>
  BY DEF Blank
<1> HIDE DEF most, stages
<1>5. ASSUME NEW m \in Nat PROVE Loose(r, limit, m, stages)
  BY <1>2, <1>5, EmptySequence DEF Blank, Loose, stages
<1>6. ASSUME NEW m \in Nat, Active(r) => 0 < m PROVE Sound(r, limit, m, stages)
  <2>1. Loose(r, limit, m, stages)
    BY <1>5
  <2> QED
    BY <1>3, <1>4, <1>6, <2>1, EmptySequence DEF Sound
<1>7. Apart(r) /\ Distinct(r.out) /\ Ids(r.out) \subseteq Ids(r.held)
  BY <1>4, EmptySequence DEF Apart
<1>8. ASSUME family \in KeepingRow PROVE Listed(r, limit, most, stages)
  <2>1. Active(r) => Sound(r, limit, 1, stages)
    BY <1>6
  <2>2. ~Active(r) => Sound(r, limit, most, stages)
    BY <1>1, <1>6
  <2> QED
    BY <1>3, <1>4, <1>7, <2>1, <2>2 DEF Listed, Queued
<1>9. ASSUME family \notin KeepingRow PROVE Sound(r, limit, most, stages)
  BY <1>1, <1>3, <1>6, <1>9
<1>10. ASSUME family \notin KeepingRow
       PROVE  Single(r, limit, most, stages) /\ Queued(r, limit, most, stages)
  BY <1>4, <1>7, <1>9, <1>10 DEF Single, Queued
<1>11. ASSUME family \notin KeepingRow
       PROVE  Fresh(r, limit, most, stages) /\ Looking(r, limit, most, stages)
  BY <1>3, <1>7, <1>9, <1>11 DEF Fresh, Looking
<1>12. Paging(r)
  BY <1>2, <1>4 DEF Paging
<1>13. family \in SingleFamilies \cup QueuedFamilies \cup FreshFamilies \cup {"opengov", "demandstar_api"}
       => family \notin KeepingRow
  BY DEF SingleFamilies, QueuedFamilies, FreshFamilies, KeepingRow
<1> QED
  BY <1>8, <1>9, <1>10, <1>11, <1>12, <1>13 DEF Keeps, most, stages

LEMMA IdleBlank ==
  ASSUME NEW family
  PROVE  Blank(family, Idle, 0)
BY Fields DEF Blank, Idle, Active

-----------------------------------------------------------------------------
(* Pages, and the health of a connector.                                    *)

LEMMA SubSequence ==
  ASSUME NEW s, IsSequence(s), NEW m \in Nat \ {0}, NEW n \in Int, n <= Len(s)
  PROVE  IsSequence(SubSeq(s, m, n))
<1> DEFINE t == SubSeq(s, m, n)
           S == ToSet(s)
<1>1. s \in Seq(S) /\ Len(s) \in Nat
  BY DEF IsSequence
<1> HIDE DEF S
<1>2. t \in Seq(S)
  BY <1>1
<1> QED
  BY <1>2, SequenceOf

LEMMA WholeRows ==
  ASSUME setting \in Settings
  PROVE  IsSequence(Whole)
<1> DEFINE listing == setting.listing
           n == Len(listing)
           S == UNION {ToSet(listing[i]) : i \in 1..n}
<1>1. IsSequence(listing) /\ \A i \in DOMAIN listing : IsSequence(listing[i])
  BY ListingsOfRows
<1>2. n \in Nat /\ DOMAIN listing = 1..n
  BY <1>1, SequenceLength
<1>3. listing \in [1..n -> ToSet(listing)]
  BY <1>1, <1>2 DEF IsSequence
<1>4. \A i \in 1..n : listing[i] \in Seq(S)
  <2> TAKE i \in 1..n
  <2>1. listing[i] \in Seq(ToSet(listing[i])) /\ ToSet(listing[i]) \subseteq S
    BY <1>1, <1>2 DEF IsSequence
  <2> HIDE DEF S
  <2> QED
    BY <2>1
<1> HIDE DEF S, n, listing
<1>5. listing \in [1..n -> Seq(S)]
  BY <1>3, <1>4
<1>6. FlattenSeq(listing) \in Seq(S)
  BY <1>2, <1>5, OfPages
<1>7. IsSequence(FlattenSeq(listing))
  BY <1>6, SequenceOf
<1> QED
  BY <1>7 DEF Whole, listing

LEMMA PageRows ==
  ASSUME setting \in Settings, run.page \in Nat \ {0}, run.limit \in Nat, IsSequence(run.out), NEW answer
  PROVE  IsSequence(PageOf(answer).rows)
<1> DEFINE pages == IF InOnePayload THEN <<Whole>> ELSE setting.listing
           rows == PageOf(answer).rows
           window == OracleWindow(run, Whole).rows
<1>1. IsSequence(Whole)
  BY WholeRows
<1>2. \A i \in DOMAIN pages : IsSequence(pages[i])
  BY <1>1, ListingsOfRows
<1>3. \/ rows = <<>> \/ rows = window
      \/ run.page \in DOMAIN pages /\ rows = pages[run.page]
  BY DEF PageOf
<1>4. IsSequence(window)
  <2> DEFINE whole == Whole
             offset == (run.page - 1) * PageSize
             size == Lesser(PageSize, OracleWanted(run) - Len(run.out))
             upto == Lesser(offset + size, Len(whole))
  <2>1. window = SubSeq(whole, offset + 1, upto)
    BY DEF OracleWindow
  <2> HIDE DEF whole, window
  <2>2. offset \in Nat
    BY Numbers
  <2>3. size \in Int
    BY LesserBound, SequenceLength, Numbers DEF OracleWanted, Lesser
  <2>4. Len(whole) \in Nat
    BY <1>1, SequenceLength DEF whole
  <2> HIDE DEF offset, size
  <2>5. upto \in Int /\ upto <= Len(whole)
    BY <2>2, <2>3, <2>4 DEF Lesser
  <2> HIDE DEF upto
  <2>6. IsSequence(SubSeq(whole, offset + 1, upto))
    BY <1>1, <2>2, <2>5, SubSequence DEF whole
  <2> QED
    BY <2>1, <2>6
<1> HIDE DEF pages, rows, window
<1>5. IsSequence(rows)
  BY <1>2, <1>3, <1>4, EmptySequence
<1> QED
  BY <1>5 DEF rows

Healthful(h) ==
  /\ DOMAIN h = {"failures", "last", "access", "ready"}
  /\ h.failures \in Nat /\ h.last \in Nat \cup {None} /\ h.ready \in BOOLEAN

\* The health h of later counts at least what g counted.
Counts(h, g, time) == Healthful(h) /\ h.failures >= g.failures /\ h.last \in {g.last, time}
CountsMore(h, g, time) == Healthful(h) /\ h.failures > g.failures /\ h.last = time

LEMMA HealthMoves ==
  ASSUME NEW h, Healthful(h), NEW time \in Nat
  PROVE  /\ CountsMore(Failure(h, time), h, time)
         /\ Healthful(Cleared(h))
         /\ \A access : Counts([h EXCEPT !.access = access], h, time)
         /\ \A ready \in BOOLEAN : Counts([h EXCEPT !.ready = ready], h, time)
         /\ Healthful([h EXCEPT !.failures = 0])
<1>1. CountsMore(Failure(h, time), h, time)
  BY DEF Healthful, CountsMore, Failure
<1>2. Healthful(Cleared(h))
  BY DEF Healthful, Cleared
<1>3. ASSUME NEW access PROVE Counts([h EXCEPT !.access = access], h, time)
  BY DEF Healthful, Counts
<1>4. ASSUME NEW ready \in BOOLEAN PROVE Counts([h EXCEPT !.ready = ready], h, time)
  BY DEF Healthful, Counts
<1>5. Healthful([h EXCEPT !.failures = 0])
  BY DEF Healthful
<1> QED
  BY <1>1, <1>2, <1>3, <1>4, <1>5

LEMMA CountsOn ==
  ASSUME NEW f, NEW g, NEW h, NEW time \in Nat, Healthful(f)
  PROVE  /\ Counts(f, f, time)
         /\ Counts(g, f, time) /\ Counts(h, g, time) => Counts(h, f, time)
         /\ Counts(g, f, time) /\ CountsMore(h, g, time) => CountsMore(h, f, time)
         /\ CountsMore(g, f, time) /\ Counts(h, g, time) => CountsMore(h, f, time)
         /\ CountsMore(g, f, time) => Counts(g, f, time)
BY DEF Counts, CountsMore, Healthful

\* What a request records: a failure for good counts, wherever an attempt does
\* not count already.
LEMMA HealthRecorded ==
  ASSUME Family \in Families, Healthful(health), now \in Nat, NEW verdict, NEW next
  PROVE  /\ Healthful(HealthAfter(verdict, next))
         /\ verdict.what # "page" /\ (Family = "opengov" => next.out = run.out /\ next.state # "done")
            => /\ Counts(HealthAfter(verdict, next), health, now)
               /\ /\ next.state = "failed" /\ Family \notin Circuitless
                  /\ Family \in PerRequest => verdict.counts
                  => CountsMore(HealthAfter(verdict, next), health, now)
<1> DEFINE seen == IF verdict.access = Unchanged THEN health ELSE [health EXCEPT !.access = verdict.access]
           counted ==
             IF Family \in Circuitless THEN seen
             ELSE IF Family = "opengov" THEN IF next.out # run.out \/ next.state = "done"
                                             THEN OpenGovSuccess(seen) ELSE seen
             ELSE IF verdict.what = "page" THEN Cleared(seen)
             ELSE IF verdict.counts THEN Failure(seen, now)
             ELSE seen
           after == HealthAfter(verdict, next)
           lost == verdict.what # "page" /\ (Family = "opengov" => next.out = run.out /\ next.state # "done")
           over == next.state = "failed" /\ Family \notin PerRequest \cup Circuitless
<1>1. after = IF next.state # "failed" \/ Family \in PerRequest \cup Circuitless
              THEN IF Family = "cgi" THEN CgiReady(run, next, counted) ELSE counted
              ELSE IF Family = "opengov" THEN OpenGovFailure(counted, next, now)
              ELSE IF Family \in Forgetting THEN CollectFailure(counted, next, now)
              ELSE Failure(counted, now)
  BY Zenon DEF HealthAfter
<1>2. Counts(seen, health, now)
  BY HealthMoves, CountsOn
<1> HIDE DEF seen
<1>3. Healthful(seen)
  BY <1>2 DEF Counts
<1>4. Healthful(OpenGovSuccess(seen))
  BY <1>3 DEF OpenGovSuccess, Healthful
<1>5. \/ counted = seen \/ counted = OpenGovSuccess(seen) \/ counted = Cleared(seen)
      \/ counted = Failure(seen, now)
  OBVIOUS
<1>6. lost => counted = seen \/ counted = Failure(seen, now)
  OBVIOUS
<1>7. verdict.what # "page" /\ verdict.counts /\ Family \in PerRequest /\ Family \notin Circuitless
      => counted = Failure(seen, now)
  BY DEF PerRequest
<1> HIDE DEF counted
<1>8. CountsMore(Failure(seen, now), health, now) /\ Healthful(Cleared(seen))
  BY <1>2, <1>3, HealthMoves, CountsOn
<1>9. Healthful(counted) /\ (lost => Counts(counted, health, now))
  BY <1>2, <1>3, <1>4, <1>5, <1>6, <1>8, CountsOn DEF CountsMore
<1>10. Counts(CgiReady(run, next, counted), counted, now)
  BY <1>9, HealthMoves, CountsOn DEF CgiReady
<1>11. CountsMore(Failure(counted, now), counted, now)
  BY <1>9, HealthMoves
<1>12. \A access : CountsMore([Failure(counted, now) EXCEPT !.access = access], counted, now)
  <2>1. Healthful(Failure(counted, now))
    BY <1>11 DEF CountsMore
  <2> HIDE DEF after, lost, over
  <2> TAKE access
  <2>2. Counts([Failure(counted, now) EXCEPT !.access = access], Failure(counted, now), now)
    BY <2>1, HealthMoves
  <2> QED
    BY <1>9, <1>11, <2>2, CountsOn
<1>13. /\ \E access : OpenGovFailure(counted, next, now) = [Failure(counted, now) EXCEPT !.access = access]
       /\ \E access : CollectFailure(counted, next, now) = [Failure(counted, now) EXCEPT !.access = access]
  BY DEF OpenGovFailure, CollectFailure
<1>14. /\ CountsMore(OpenGovFailure(counted, next, now), counted, now)
       /\ CountsMore(CollectFailure(counted, next, now), counted, now)
  BY <1>12, <1>13
<1>15. /\ over => CountsMore(after, counted, now)
       /\ ~over => Counts(after, counted, now)
  <2>1. Counts(counted, counted, now) /\ \A h : CountsMore(h, counted, now) => Counts(h, counted, now)
    BY <1>9, CountsOn
  <2> HIDE DEF after
  <2>2. over => \/ after = OpenGovFailure(counted, next, now) \/ after = CollectFailure(counted, next, now)
                \/ after = Failure(counted, now)
    BY <1>1
  <2>3. \/ after = CgiReady(run, next, counted) \/ after = counted
        \/ after = OpenGovFailure(counted, next, now) \/ after = CollectFailure(counted, next, now)
        \/ after = Failure(counted, now)
    BY <1>1
  <2> HIDE DEF over
  <2> QED
    BY <1>10, <1>11, <1>14, <2>1, <2>2, <2>3
<1> HIDE DEF after
<1>16. Healthful(after)
  BY <1>15 DEF Counts, CountsMore
<1>17. lost => Counts(after, health, now)
  BY <1>9, <1>15, <1>16, CountsOn
<1>18. lost /\ over => CountsMore(after, health, now)
  BY <1>9, <1>15, CountsOn
<1>19. lost /\ next.state = "failed" /\ Family \in PerRequest \ Circuitless /\ verdict.counts
       => CountsMore(after, health, now)
  <2>1. lost /\ Family \in PerRequest \ Circuitless /\ verdict.counts => CountsMore(counted, health, now)
    BY <1>7, <1>8
  <2> QED
    BY <1>15, <2>1, CountsOn
<1> QED
  BY <1>16, <1>17, <1>18, <1>19 DEF after

LEMMA LookedHealth ==
  ASSUME Healthful(health)
  PROVE  /\ Healthful(LookedAt)
         /\ LookedAt = health \/ /\ LookedAt = [health EXCEPT !.failures = 0]
                                 /\ health.failures >= Threshold
                                 /\ ~OpenUntilCooldown(health, now)
<1>1. LookedAt = health \/ /\ LookedAt = [health EXCEPT !.failures = 0]
                           /\ health.failures >= Threshold
                           /\ ~OpenUntilCooldown(health, now)
  BY DEF LookedAt, PennsylvaniaLooked, PennsylvaniaOpen, CgiLooked, CgiOpen, OpenGovLooked, OpenGovOpen,
     CollectLooked, CollectOpen
<1>2. Healthful([health EXCEPT !.failures = 0])
  BY DEF Healthful
<1> HIDE <1>1
<1> QED
  BY <1>1, <1>2

-----------------------------------------------------------------------------
(* The runs of a connector.                                                 *)

RunsInv ==
  /\ setting \in Settings /\ now \in Nat
  /\ Healthful(health)
  /\ RunInv

LEMMA DistinctCounted ==
  ASSUME NEW rows, IsSequence(rows), Distinct(rows)
  PROVE  Cardinality(Ids(rows)) = Len(rows)
<1> DEFINE n == Len(rows)
           f == [i \in 1..n |-> rows[i].id]
<1>1. n \in Nat /\ DOMAIN rows = 1..n
  BY SequenceLength
<1>2. f \in [1..n -> Ids(rows)]
  BY <1>1 DEF Ids
<1>3. \A i, j \in 1..n : f[i] = f[j] => i = j
  BY <1>1 DEF Distinct
<1>4. \A id \in Ids(rows) : \E i \in 1..n : f[i] = id
  BY <1>1 DEF Ids
<1> HIDE DEF f, n
<1>5. f \in Bijection(1..n, Ids(rows))
  BY <1>2, <1>3, <1>4 DEF Bijection, Injection, Surjection, IsInjective
<1>6. ExistsBijection(1..n, Ids(rows))
  BY <1>5 DEF ExistsBijection
<1>7. IsFiniteSet(1..n) /\ Cardinality(1..n) = n
  BY <1>1, FS_Interval
<1>8. Cardinality(Ids(rows)) = n
  BY <1>6, <1>7, FS_Bijection
<1> QED
  BY <1>8 DEF n

LEMMA SettingFamily ==
  ASSUME setting \in Settings
  PROVE  Family \in Families
BY ListingsOfRows DEF Family

\* What becomes of an answer.
Followed(next, answer) ==
  LET verdict == VerdictOf(answer)
  IN \/ verdict.what = "page" /\ next = Received(PageOf(answer))
     \/ /\ verdict.what = "again" /\ run.attempt < MaxRetries
        /\ next = [run EXCEPT !.attempt = @ + 1]
     \/ /\ verdict.what # "page" /\ ~(verdict.what = "again" /\ run.attempt < MaxRetries)
        /\ next = Stopped(verdict.why)

LEMMA FollowedKept ==
  ASSUME RunsInv, Active(run), NEW answer, NEW next, Followed(next, answer)
  PROVE  Keeps(Family, next, run.limit)
<1> DEFINE limit == run.limit
<1>1. Family \in Families /\ limit \in Nat /\ Keeps(Family, run, limit)
  BY SettingFamily DEF RunsInv, RunInv
<1>2. Loose(run, limit, Most(Family, limit), StagesOf(Family))
  BY <1>1, KeepsLoose
<1> HIDE DEF limit
<1>3. CASE next = Received(PageOf(answer))
  <2>1. run.page \in Nat \ {0} /\ IsSequence(run.out) /\ run.limit = limit
    BY <1>2, Numbers DEF Loose
  <2>2. IsSequence(PageOf(answer).rows)
    BY <1>1, <2>1, PageRows DEF RunsInv
  <2> QED
    BY <1>1, <1>3, <2>2, KeepsReceived DEF limit
<1>4. ASSUME run.attempt < MaxRetries, next = [run EXCEPT !.attempt = @ + 1]
      PROVE  Keeps(Family, next, limit)
  <2>1. /\ DOMAIN next = DOMAIN run /\ next.state = run.state /\ next.stage = run.stage
        /\ next.page = run.page /\ next.limit = run.limit /\ next.held = run.held
        /\ next.queue = run.queue /\ next.out = run.out /\ next.attempt = run.attempt + 1
    BY <1>2, <1>4, Fields DEF Loose
  <2>2. next.attempt \in 0..MaxRetries
    BY <1>2, <1>4, <2>1, Numbers DEF Loose
  <2> QED
    BY <1>1, <2>1, <2>2, KeepsRedressed
<1>5. \A why : Keeps(Family, Stopped(why), limit)
  BY <1>1, KeepsStopped
<1> QED
  BY <1>3, <1>4, <1>5 DEF Followed, limit

Dress(r, wake) == [r EXCEPT !.wake = wake]

LEMMA Dressed ==
  ASSUME NEW family \in Families, NEW limit \in Nat, NEW r, Keeps(family, r, limit), NEW wake
  PROVE  Keeps(family, Dress(r, wake), limit)
<1> DEFINE q == Dress(r, wake)
<1>1. Loose(r, limit, Most(family, limit), StagesOf(family))
  BY KeepsLoose
<1>2. /\ DOMAIN q = DOMAIN r /\ q.state = r.state /\ q.stage = r.stage /\ q.page = r.page
      /\ q.limit = r.limit /\ q.held = r.held /\ q.queue = r.queue /\ q.out = r.out
      /\ q.attempt = r.attempt
  BY <1>1, Fields DEF Loose, Dress
<1> HIDE DEF q
<1>3. q.attempt \in 0..MaxRetries /\ r.limit = limit
  BY <1>1, <1>2 DEF Loose
<1>4. Keeps(family, q, limit)
  BY <1>2, <1>3, KeepsRedressed
<1> QED
  BY <1>4 DEF q

LEMMA AnswerFollowed ==
  ASSUME NEW answer, Answer(answer)
  PROVE  \E next : /\ Followed(next, answer)
                   /\ \E wake : run' = Dress(next, wake)
                   /\ health' = HealthAfter(VerdictOf(answer), next)
                   /\ \/ VerdictOf(answer).what = "page" /\ outages' = [count |-> 0, last |-> None]
                      \/ /\ next.state = "failed" /\ Outage(answer)
                         /\ outages' = [count |-> IF outages.last # None /\ now < outages.last + Cooldown
                                                  THEN outages.count + 1 ELSE 1,
                                        last |-> now]
                      \/ /\ ~(next.state = "failed" /\ Outage(answer)) /\ VerdictOf(answer).what # "page"
                         /\ outages' = outages
<1> DEFINE verdict == VerdictOf(answer)
           retried == verdict.what = "again" /\ run.attempt < MaxRetries
           next == IF verdict.what = "page" THEN Received(PageOf(answer))
                   ELSE IF retried THEN [run EXCEPT !.attempt = @ + 1]
                   ELSE Stopped(verdict.why)
           wake == IF retried THEN now + DelayOf(answer.after) ELSE 0
           more == [count |-> IF outages.last # None /\ now < outages.last + Cooldown
                              THEN outages.count + 1 ELSE 1,
                    last |-> now]
           none == [count |-> 0, last |-> None]
<1>1. /\ run' = [next EXCEPT !.wake = wake]
      /\ health' = HealthAfter(verdict, next)
      /\ outages' = IF verdict.what = "page" THEN none
                    ELSE IF next.state = "failed" /\ Outage(answer) THEN more
                    ELSE outages
  BY DEF Answer
<1>2. \/ verdict.what = "page" /\ next = Received(PageOf(answer))
      \/ retried /\ next = [run EXCEPT !.attempt = @ + 1]
      \/ verdict.what # "page" /\ ~retried /\ next = Stopped(verdict.why)
  OBVIOUS
<1> HIDE DEF next, wake, more, none
<1>3. Followed(next, answer)
  BY <1>2 DEF Followed
<1>4. \/ verdict.what = "page" /\ outages' = none
      \/ next.state = "failed" /\ Outage(answer) /\ outages' = more
      \/ ~(next.state = "failed" /\ Outage(answer)) /\ verdict.what # "page" /\ outages' = outages
  BY <1>1
<1>5. \/ verdict.what = "page" /\ outages' = [count |-> 0, last |-> None]
      \/ /\ next.state = "failed" /\ Outage(answer)
         /\ outages' = [count |-> IF outages.last # None /\ now < outages.last + Cooldown
                                  THEN outages.count + 1 ELSE 1,
                        last |-> now]
      \/ ~(next.state = "failed" /\ Outage(answer)) /\ verdict.what # "page" /\ outages' = outages
  BY <1>4 DEF more, none
<1>6. run' = Dress(next, wake)
  BY <1>1 DEF Dress
<1> QED
  BY <1>1, <1>3, <1>5, <1>6

LEMMA RunsInit == Init => RunsInv
<1> SUFFICES ASSUME Init PROVE RunsInv
  OBVIOUS
<1>1. Family \in Families
  BY SettingFamily DEF Init
<1>2. Idle.limit = 0
  BY DEF Idle
<1>3. Keeps(Family, Idle, 0)
  BY <1>1, IdleBlank, BlankKept
<1>4. Healthful(Healthy)
  BY DEF Healthful, Healthy
<1> QED
  BY <1>2, <1>3, <1>4 DEF Init, RunsInv, RunInv

LEMMA RunsNext == RunsInv /\ [Next]_vars => RunsInv'
<1> SUFFICES ASSUME RunsInv, [Next]_vars PROVE RunsInv'
  OBVIOUS
<1>1. Family \in Families /\ run.limit \in Nat /\ Keeps(Family, run, run.limit)
  BY SettingFamily DEF RunsInv, RunInv
<1>2. /\ Healthful(health) /\ Healthful(LookedAt) /\ now \in Nat
      /\ \A verdict, next : Healthful(HealthAfter(verdict, next))
  BY <1>1, LookedHealth, HealthRecorded DEF RunsInv
<1>3. setting' = setting /\ Family' = Family
  BY DEF Next, vars, Discover, HealthCheck, Answered, Answer, Refuse, Tick, Family
<1>4. ASSUME NEW query \in Queries, Discover(query) PROVE RunsInv'
  <2>1. query.limit \in Nat
    BY QueriesLimited
  <2>2. Blank(Family, Started(query), query.limit)
    BY <1>1, <2>1, StartedOpened, OpenedBlank
  <2>3. Keeps(Family, Started(query), query.limit) /\ Started(query).limit = query.limit
    BY <1>1, <2>1, <2>2, BlankKept DEF Blank
  <2>4. run' = Started(query) /\ health' \in {LookedAt, health} /\ now' = now
    BY <1>4 DEF Discover
  <2> QED
    BY <1>2, <1>3, <2>1, <2>3, <2>4 DEF RunsInv, RunInv
<1>5. ASSUME HealthCheck PROVE RunsInv'
  BY <1>2, <1>3, <1>5 DEF HealthCheck, RunsInv, RunInv
<1>6. ASSUME NEW answer, Answer(answer) PROVE RunsInv'
  <2>1. Active(run) /\ now' = now
    BY <1>6 DEF Answer
  <2>2. PICK next : /\ Followed(next, answer)
                    /\ \E wake : run' = Dress(next, wake)
                    /\ health' = HealthAfter(VerdictOf(answer), next)
    BY <1>6, AnswerFollowed
  <2>3. PICK wake : run' = Dress(next, wake)
    BY <2>2
  <2>4. Keeps(Family, next, run.limit)
    BY <2>1, <2>2, FollowedKept
  <2>5. Keeps(Family, Dress(next, wake), run.limit)
    BY <1>1, <2>4, Dressed
  <2>6. Dress(next, wake).limit = run.limit
    BY <1>1, <2>5, KeepsLoose DEF Loose
  <2>7. Healthful(health')
    BY <1>2, <2>2
  <2> QED
    BY <1>1, <1>2, <1>3, <2>1, <2>3, <2>5, <2>6, <2>7 DEF RunsInv, RunInv
<1>7. ASSUME Refuse PROVE RunsInv'
  <2>1. run' = Stopped("circuit") /\ health' = health /\ now' = now /\ Active(run)
    BY <1>7 DEF Refuse
  <2>2. Keeps(Family, Stopped("circuit"), run.limit)
    BY <1>1, <2>1, KeepsStopped
  <2>3. Stopped("circuit").limit = run.limit
    BY <1>1, <2>2, KeepsLoose DEF Loose
  <2> QED
    BY <1>1, <1>2, <1>3, <2>1, <2>2, <2>3 DEF RunsInv, RunInv
<1>8. ASSUME Tick PROVE RunsInv'
  BY <1>2, <1>3, <1>8 DEF Tick, RunsInv, RunInv
<1>9. CASE UNCHANGED vars
  BY <1>3, <1>9 DEF vars, RunsInv, RunInv
<1> QED
  BY <1>4, <1>5, <1>6, <1>7, <1>8, <1>9 DEF Next, Answered

\* The invariant of a connector's runs, whatever its class, its portal and its
\* bounds: what the class keeps of the rows it has read and of those it yielded.
THEOREM RunsAreKept == Spec => []RunsInv
<1>1. Init => RunsInv
  BY RunsInit
<1>2. RunsInv /\ [Next]_vars => RunsInv'
  BY RunsNext
<1> QED
  BY <1>1, <1>2, PTL DEF Spec

\* Every variable keeps its type, a run stays within its retries and its pages,
\* and one that asks for a detail page has a row to ask it for.
THEOREM ConnectorTypeCorrect == Spec => []TypeOK
<1>1. RunsInv => TypeOK
  <2> SUFFICES ASSUME RunsInv PROVE TypeOK
    OBVIOUS
  <2>1. Family \in Families /\ run.limit \in Nat /\ Keeps(Family, run, run.limit)
    BY SettingFamily DEF RunsInv, RunInv
  <2>2. Loose(run, run.limit, Most(Family, run.limit), StagesOf(Family))
    BY <2>1, KeepsLoose
  <2>3. Active(run) /\ run.stage = "detail" => run.queue # <<>>
    BY <2>1, KeepsLoose
  <2>4. StagesOf(Family) \subseteq Stages
    BY StagesKnown
  <2> QED
    BY <2>2, <2>3, <2>4 DEF Loose, Stages, RunsInv, Healthful, TypeOK
<1> QED
  BY <1>1, RunsAreKept, PTL

\* No run yields a record twice, however the portal repeats, reorders or splits
\* its listing, and whatever was renewed or dropped in between.
THEOREM NoneYieldedTwice == Spec => []YieldedOnce
<1>1. RunsInv => YieldedOnce
  <2> SUFFICES ASSUME RunsInv, Family # "demandstar_api" PROVE Cardinality(Ids(run.out)) = Len(run.out)
    BY DEF YieldedOnce
  <2>1. Family \in Families /\ run.limit \in Nat /\ Keeps(Family, run, run.limit)
    BY SettingFamily DEF RunsInv, RunInv
  <2>2. Loose(run, run.limit, Most(Family, run.limit), StagesOf(Family)) /\ Distinct(run.out)
    BY <2>1, KeepsLoose
  <2> QED
    BY <2>2, DistinctCounted DEF Loose
<1> QED
  BY <1>1, RunsAreKept, PTL

\* No run yields more than was asked for, but for the one record of the classes
\* that look at the limit after it.
THEOREM LimitsAreKept == Spec => []LimitKept
<1>1. RunsInv => LimitKept
  <2> SUFFICES ASSUME RunsInv PROVE LimitKept
    OBVIOUS
  <2>1. Family \in Families /\ run.limit \in Nat /\ Keeps(Family, run, run.limit)
    BY SettingFamily DEF RunsInv, RunInv
  <2>2. Loose(run, run.limit, Most(Family, run.limit), StagesOf(Family))
    BY <2>1, KeepsLoose
  <2> QED
    BY <2>2 DEF Loose, LimitKept
<1> QED
  BY <1>1, RunsAreKept, PTL

-----------------------------------------------------------------------------
(* The circuit.                                                             *)

\* The answers of an outage and the verdicts on them: none is a page, and the
\* classes that count by the request count it unless the request is repeated.
Spent(verdict) ==
  /\ verdict.what # "page"
  /\ ~(verdict.what = "again" /\ run.attempt < MaxRetries) => verdict.counts = TRUE

LEMMA VerdictFields ==
  /\ \A access, counts : /\ Again(access, counts).what = "again" /\ Again(access, counts).counts = counts
                         /\ Counted(Again(access, counts)).what = "again"
                         /\ Counted(Again(access, counts)).counts = TRUE
  /\ \A access, why : /\ Stop(access, why).what = "stop" /\ Counted(Stop(access, why)).what = "stop"
                      /\ Counted(Stop(access, why)).counts = TRUE
BY DEF Again, Stop, Counted

LEMMA OutageNeverPage ==
  ASSUME NEW answer, answer.status \in Busy \cup {Lost}, NEW last
  PROVE  /\ WebProcureVerdict(answer).what # "page"
         /\ EvaVerdict(answer).what # "page"
         /\ TexasVerdict(answer).what # "page"
         /\ PeopleSoftVerdict(answer).what # "page"
         /\ InfotechVerdict(answer, last).what # "page"
         /\ BidBuyPosted(answer, last).what # "page"
         /\ PeriscopeVerdict(answer).what # "page"
         /\ PennsylvaniaVerdict(answer).what # "page"
         /\ CgiVerdict(answer).what # "page"
         /\ JaggaerVerdict(answer, last).what # "page"
         /\ BonfireVerdict(answer, last).what # "page"
         /\ IonWaveVerdict(answer, last).what # "page"
         /\ OpenGovVerdict(answer, last).what # "page"
<1>1. answer.status # 200
  BY DEF Busy, Lost
<1>2. WebProcureVerdict(answer).what # "page"
  BY VerdictFields DEF WebProcureVerdict
<1>3. EvaVerdict(answer).what # "page"
  BY <1>1, VerdictFields DEF EvaVerdict
<1>4. TexasVerdict(answer).what # "page"
  BY <1>1, VerdictFields DEF TexasVerdict
<1>5. PeopleSoftVerdict(answer).what # "page"
  BY <1>1, VerdictFields DEF PeopleSoftVerdict
<1>6. InfotechVerdict(answer, last).what # "page"
  BY <1>1, VerdictFields DEF InfotechVerdict
<1>7. PeriscopeChecked(answer).what # "page"
  BY <1>1, VerdictFields DEF PeriscopeChecked
<1>8. BidBuyPosted(answer, last).what # "page"
  BY <1>7, VerdictFields DEF BidBuyPosted
<1>9. PeriscopeVerdict(answer).what # "page"
  BY <1>7, VerdictFields DEF PeriscopeVerdict
<1>10. PennsylvaniaVerdict(answer).what # "page"
  BY <1>1, VerdictFields DEF PennsylvaniaVerdict
<1>11. CgiVerdict(answer).what # "page"
  BY <1>1, VerdictFields DEF CgiVerdict
<1>12. \A boundary : CollectVerdict(answer, boundary, last).what # "page"
  BY <1>1, VerdictFields DEF CollectVerdict
<1>13. JaggaerVerdict(answer, last).what # "page"
  BY <1>12 DEF JaggaerVerdict
<1>14. BonfireVerdict(answer, last).what # "page"
  BY <1>12 DEF BonfireVerdict
<1>15. IonWaveVerdict(answer, last).what # "page"
  BY <1>12, VerdictFields DEF IonWaveVerdict
<1>16. OpenGovVerdict(answer, last).what # "page"
  BY <1>1, VerdictFields DEF OpenGovVerdict
<1> QED
  BY <1>2, <1>3, <1>4, <1>5, <1>6, <1>8, <1>9, <1>10, <1>11, <1>13, <1>14, <1>15, <1>16

LEMMA OutageCounted ==
  ASSUME NEW answer, answer.status \in Busy \cup {Lost}, run.attempt \in Nat
  PROVE  LET last == run.attempt >= MaxRetries
         IN /\ Spent(BidNetVerdict(answer, last)) /\ Spent(PublicPurchaseVerdict(answer, last))
            /\ Spent(PlanetBidsVerdict(answer, last)) /\ Spent(MarylandVerdict(answer, last))
            /\ Spent(GeorgiaVerdict(answer, last)) /\ Spent(DemandStarVerdict(answer, last))
            /\ Spent(OracleVerdict(answer, last))
            /\ answer.status # Lost => Spent(TylerVerdict(answer, last))
<1> DEFINE last == run.attempt >= MaxRetries
<1>1. answer.status # 200 /\ answer.status \notin {401, 403, 404, 410}
  BY DEF Busy, Lost
<1>2. last <=> ~(run.attempt < MaxRetries)
  BY Numbers
<1> HIDE DEF last
<1>3. \/ ~last /\ ListingVerdict(answer, last) = Again(Unchanged, FALSE)
      \/ ListingVerdict(answer, last) = Counted(Again("transient_error", FALSE))
  <2> DEFINE v == ListingVerdict(answer, last)
             again == Again(Unchanged, FALSE)
             counted == Counted(Again("transient_error", FALSE))
             refused == Stop(Unchanged, "refused")
             page == Page("public")
  <2>1. v = IF answer.status \in Busy /\ ~last THEN again
            ELSE IF answer.status \in {401, 403} THEN refused
            ELSE IF answer.status # 200 THEN counted
            ELSE page
    BY Zenon DEF ListingVerdict
  <2>2. answer.status \notin {401, 403} /\ answer.status # 200
    BY <1>1
  <2> HIDE DEF v, again, counted, refused, page
  <2>3. \/ ~last /\ v = again
        \/ v = counted
    BY <2>1, <2>2
  <2> QED
    BY <2>3 DEF v, again, counted
<1>4. Spent(ListingVerdict(answer, last))
  <2>1. \/ ~last /\ ListingVerdict(answer, last).what = "again"
        \/ ListingVerdict(answer, last).what # "page" /\ ListingVerdict(answer, last).counts = TRUE
    BY <1>3 DEF Again, Counted
  <2> QED
    BY <1>2, <2>1 DEF Spent
<1>5. Spent(OracleVerdict(answer, last))
  <2> DEFINE v == OracleVerdict(answer, last)
  <2> DEFINE again == Again(Unchanged, FALSE)
             lost == Counted(Stop(Unchanged, "unavailable"))
             moved == Counted(Stop("release-path-incompatible", "incompatible"))
             captcha == Counted(Stop("captcha", "refused"))
             login == Counted(Stop("login-or-non-json", "refused"))
             other == Counted(Stop("non-json", "malformed"))
             page == Page("public-anonymous-get")
  <2>0. v = IF answer.status \in Busy \cup {Lost} /\ ~last THEN again
            ELSE IF answer.status \in Busy \cup {Lost} THEN lost
            ELSE IF answer.status \in {404, 410} THEN moved
            ELSE IF answer.status # 200 THEN lost
            ELSE IF "captcha" \in answer.words THEN captcha
            ELSE IF "login" \in answer.words THEN login
            ELSE IF answer.words # {} THEN other
            ELSE page
    BY Zenon DEF OracleVerdict
  <2> HIDE DEF v, again, lost, moved, captcha, login, other, page
  <2>1. \/ ~last /\ v = again
        \/ v \in {lost, moved, captcha, login, other}
    BY <2>0
  <2>2. \/ ~last /\ v.what = "again"
        \/ v.what # "page" /\ v.counts = TRUE
    BY <2>1 DEF Again, Counted, Stop, again, lost, moved, captcha, login, other
  <2>3. Spent(v)
    BY <1>2, <2>2 DEF Spent
  <2> QED
    BY <2>3 DEF v
<1>6. ASSUME answer.status # Lost PROVE Spent(TylerVerdict(answer, last))
  <2> DEFINE v == TylerVerdict(answer, last)
  <2>1. \/ ~last /\ v = Again(Unchanged, FALSE)
        \/ v = Counted(Stop(Unchanged, "unavailable"))
        \/ v = Counted(Stop(Unchanged, "malformed"))
    BY <1>1, <1>6 DEF TylerVerdict
  <2> HIDE DEF v
  <2>2. \/ ~last /\ v.what = "again"
        \/ v.what # "page" /\ v.counts = TRUE
    BY <2>1 DEF Again, Counted, Stop
  <2>3. Spent(v)
    BY <1>2, <2>2 DEF Spent
  <2> QED
    BY <2>3 DEF v
<1>7. Spent(GeorgiaVerdict(answer, last))
  BY <1>1, <1>4 DEF GeorgiaVerdict
<1>8. /\ Spent(BidNetVerdict(answer, last)) /\ Spent(PublicPurchaseVerdict(answer, last))
      /\ Spent(PlanetBidsVerdict(answer, last)) /\ Spent(MarylandVerdict(answer, last))
      /\ Spent(DemandStarVerdict(answer, last))
  BY <1>4 DEF BidNetVerdict, PublicPurchaseVerdict, PlanetBidsVerdict, MarylandVerdict, DemandStarVerdict
<1> QED
  BY <1>5, <1>6, <1>7, <1>8 DEF last

LEMMA OutageVerdict ==
  ASSUME Family \in Families, Family \notin Circuitless, run.attempt \in Nat,
         NEW answer, Outage(answer), ~(Family = "tyler" /\ answer.status = Lost)
  PROVE  VerdictOf(answer).what # "page" /\ (Family \in PerRequest => Spent(VerdictOf(answer)))
<1> DEFINE last == run.attempt >= MaxRetries
           v == VerdictOf(answer)
<1>1. answer.status \in Busy \cup {Lost}
  BY DEF Outage
<1>2. /\ Family = "webprocure" => v = WebProcureVerdict(answer)
      /\ Family = "eva" => v = EvaVerdict(answer)
      /\ Family = "texas" => v = TexasVerdict(answer)
      /\ Family = "peoplesoft" => v = PeopleSoftVerdict(answer)
      /\ Family = "infotech" => v = InfotechVerdict(answer, last)
      /\ Family = "bidbuy" => v = BidBuyPosted(answer, last) \/ v = PeriscopeVerdict(answer)
      /\ Family = "periscope" => v = PeriscopeVerdict(answer)
  BY DEF VerdictOf
<1>3. /\ Family = "oracle" => v = OracleVerdict(answer, last)
      /\ Family = "tyler" => v = TylerVerdict(answer, last)
      /\ Family = "pennsylvania" => v = PennsylvaniaVerdict(answer)
      /\ Family = "cgi" => v = CgiVerdict(answer)
      /\ Family = "jaggaer" => v = JaggaerVerdict(answer, last)
      /\ Family = "bonfire" => v = BonfireVerdict(answer, last)
      /\ Family = "ionwave" => v = IonWaveVerdict(answer, last)
      /\ Family = "opengov" => v = OpenGovVerdict(answer, last)
  BY DEF VerdictOf
<1>4. /\ Family = "bidnet" => v = BidNetVerdict(answer, last)
      /\ Family = "public_purchase" => v = PublicPurchaseVerdict(answer, last)
      /\ Family = "planetbids" => v = PlanetBidsVerdict(answer, last)
      /\ Family = "maryland" => v = MarylandVerdict(answer, last)
      /\ Family = "georgia" => v = GeorgiaVerdict(answer, last)
      /\ Family \in {"demandstar", "demandstar_api"} => v = DemandStarVerdict(answer, last)
  BY DEF VerdictOf
<1> HIDE DEF v
<1>5. Family \in PerRequest => Spent(v)
  <2>1. /\ Spent(BidNetVerdict(answer, last)) /\ Spent(PublicPurchaseVerdict(answer, last))
        /\ Spent(PlanetBidsVerdict(answer, last)) /\ Spent(MarylandVerdict(answer, last))
        /\ Spent(GeorgiaVerdict(answer, last)) /\ Spent(DemandStarVerdict(answer, last))
        /\ Spent(OracleVerdict(answer, last))
        /\ answer.status # Lost => Spent(TylerVerdict(answer, last))
    BY <1>1, OutageCounted
  <2> HIDE DEF last
  <2> QED
    BY <1>3, <1>4, <2>1 DEF PerRequest
<1>6. Family \notin PerRequest => v.what # "page"
  <2> HIDE DEF last
  <2>1. Family \in {"webprocure", "eva", "texas", "peoplesoft", "infotech", "bidbuy", "periscope"}
        => v.what # "page"
    BY <1>1, <1>2, OutageNeverPage
  <2>2. Family \in {"pennsylvania", "cgi", "jaggaer", "bonfire", "ionwave", "opengov"}
        => v.what # "page"
    BY <1>1, <1>3, OutageNeverPage
  <2> QED
    BY <2>1, <2>2 DEF Families, PerRequest, Circuitless
<1>7. v.what # "page"
  BY <1>5, <1>6 DEF Spent
<1> QED
  BY <1>5, <1>7 DEF v

LEMMA OutageFault ==
  ASSUME NEW answer \in Answers, Outage(answer)
  PROVE  answer = setting.fault
<1>1. Plain.status = 200
  BY DEF Plain
<1>2. answer.status # 200
  BY DEF Outage, Busy, Lost
<1> QED
  BY <1>1, <1>2 DEF Answers

LEMMA OpenPerRequest ==
  ASSUME Family \in PerRequest
  PROVE  Open = OpenUntilCooldown(health, now)
BY DEF PerRequest, Open, BidNetOpen, PublicPurchaseOpen, PlanetBidsOpen, MarylandOpen, GeorgiaOpen,
   DemandStarOpen, OracleOpen, TylerOpen

\* A request of these classes that fails for good ends the run for that reason.
LEMMA StoppedEnds ==
  ASSUME NEW why, DOMAIN run = DOMAIN Idle, Family \in PerRequest
  PROVE  ~Active(Stopped(why)) /\ Stopped(why).why = why
<1>1. Failed(run, why).state = "failed" /\ Failed(run, why).why = why
      /\ DOMAIN Failed(run, why) = DOMAIN Idle
  BY FailedFields
<1>2. DemandStarLost(run, why).state = "failed" /\ DemandStarLost(run, why).why = why
  BY <1>1, Fields DEF DemandStarLost
<1>3. Stopped(why) = DemandStarLost(run, why) \/ Stopped(why) = Failed(run, why)
  BY DEF Stopped, PerRequest
<1> QED
  BY <1>1, <1>2, <1>3 DEF Active

LEMMA StoppedOpenGov ==
  ASSUME NEW why, DOMAIN run = DOMAIN Idle, Family = "opengov"
  PROVE  Stopped(why).out = run.out /\ Stopped(why).state = "failed"
<1>1. Stopped(why) = Failed(run, why)
  BY DEF Stopped
<1> QED
  BY <1>1, FailedFields

LEMMA RunFields ==
  ASSUME RunsInv
  PROVE  /\ Family \in Families /\ DOMAIN run = DOMAIN Idle
         /\ run.attempt \in Nat /\ Healthful(health)
<1>1. Family \in Families /\ run.limit \in Nat /\ Keeps(Family, run, run.limit)
  BY SettingFamily DEF RunsInv, RunInv
<1>2. Loose(run, run.limit, Most(Family, run.limit), StagesOf(Family))
  BY <1>1, KeepsLoose
<1> QED
  BY <1>1, <1>2, Numbers DEF Loose, RunsInv

Excepted == Family \in Circuitless \/ (Family = "tyler" /\ setting.fault.status = Lost)
Cooling == outages.last # None /\ now < outages.last + Cooldown

OutagesCounted ==
  /\ outages.count \in Nat /\ outages.last \in Nat \cup {None}
  /\ outages.last = None => outages.count = 0
  /\ outages.last # None => outages.last <= now

\* What the portal has refused in a row, the connector has counted.
FailuresCounted ==
  Cooling /\ ~Excepted => /\ health.last # None /\ health.last >= outages.last
                          /\ health.failures >= outages.count

\* Once the outages open the circuit, only a class that asks it before each
\* request can have a run, and that run has a new request to make.
LeftToCool ==
  Cooling /\ ~Excepted /\ outages.count >= Threshold /\ Active(run)
  => Family \in PerRequest /\ run.attempt = 0

CircuitInv == OutagesCounted /\ FailuresCounted /\ LeftToCool

LEMMA CoolingOpen ==
  ASSUME RunsInv, CircuitInv, Cooling, ~Excepted
  PROVE  /\ outages.count >= Threshold => OpenUntilCooldown(health, now)
         /\ LookedAt = health
<1>1. /\ health.last \in Nat /\ outages.last \in Nat /\ health.last >= outages.last
      /\ health.failures \in Nat /\ outages.count \in Nat /\ health.failures >= outages.count
      /\ now \in Nat /\ now < outages.last + Cooldown /\ Cooldown \in Nat /\ Threshold \in Nat
      /\ health.last # None
  BY Numbers DEF RunsInv, CircuitInv, OutagesCounted, FailuresCounted, Healthful, Cooling
<1>2. now < health.last + Cooldown
  BY <1>1
<1>3. health.failures >= Threshold => OpenUntilCooldown(health, now)
  BY <1>1, <1>2 DEF OpenUntilCooldown
<1>4. LookedAt = health \/ (health.failures >= Threshold /\ ~OpenUntilCooldown(health, now))
  <2>1. Healthful(health)
    BY DEF RunsInv
  <2>2. \/ LookedAt = health
        \/ /\ LookedAt = [health EXCEPT !.failures = 0]
           /\ health.failures >= Threshold
           /\ ~OpenUntilCooldown(health, now)
    BY <2>1, LookedHealth
  <2> QED
    BY <2>2
<1>5. outages.count >= Threshold => health.failures >= Threshold
  BY <1>1
<1> QED
  BY <1>3, <1>4, <1>5

LEMMA CircuitInit == Init => CircuitInv
BY DEF Init, CircuitInv, OutagesCounted, FailuresCounted, LeftToCool, Cooling

LEMMA CircuitAsked ==
  ASSUME RunsInv, CircuitInv, Cooling, ~Excepted, outages.count >= Threshold,
         NEW answer \in Answers, Answer(answer)
  PROVE  FALSE
<1>1. Active(run) /\ (run.attempt = 0 => ~Open)
  BY DEF Answer
<1>2. Family \in PerRequest /\ run.attempt = 0
  BY <1>1 DEF CircuitInv, LeftToCool
<1>3. Open
  BY <1>2, CoolingOpen, OpenPerRequest
<1> QED
  BY <1>1, <1>2, <1>3

LEMMA CircuitAnswer ==
  ASSUME RunsInv, CircuitInv, NEW answer \in Answers, Answer(answer)
  PROVE  CircuitInv'
<1>1. /\ setting' = setting /\ now' = now /\ Active(run) /\ now \in Nat
      /\ Family' = Family /\ Excepted' = Excepted
  BY DEF Answer, Family, Excepted, RunsInv
<1>2. /\ Family \in Families /\ DOMAIN run = DOMAIN Idle /\ run.attempt \in Nat /\ run.state = "asking"
      /\ Healthful(health)
  BY <1>1, RunFields DEF Active
<1>3. PICK next : /\ Followed(next, answer)
                  /\ \E wake : run' = Dress(next, wake)
                  /\ health' = HealthAfter(VerdictOf(answer), next)
                  /\ \/ VerdictOf(answer).what = "page" /\ outages' = [count |-> 0, last |-> None]
                     \/ /\ next.state = "failed" /\ Outage(answer)
                        /\ outages' = [count |-> IF outages.last # None /\ now < outages.last + Cooldown
                                                 THEN outages.count + 1 ELSE 1,
                                       last |-> now]
                     \/ /\ ~(next.state = "failed" /\ Outage(answer)) /\ VerdictOf(answer).what # "page"
                        /\ outages' = outages
  BY AnswerFollowed
<1> DEFINE verdict == VerdictOf(answer)
<1>4. verdict.what # "page" => ~(verdict.what = "again" /\ run.attempt < MaxRetries)
                               \/ next = [run EXCEPT !.attempt = @ + 1]
  BY <1>3 DEF Followed
<1>5. verdict.what # "page" /\ Family = "opengov" => next.out = run.out /\ next.state # "done"
  <2> SUFFICES ASSUME verdict.what # "page", Family = "opengov"
               PROVE  next.out = run.out /\ next.state # "done"
    OBVIOUS
  <2>1. \/ next = [run EXCEPT !.attempt = @ + 1]
        \/ next = Stopped(verdict.why)
    BY <1>3 DEF Followed
  <2>2. CASE next = [run EXCEPT !.attempt = @ + 1]
    BY <1>2, <2>2, Fields
  <2>3. CASE next = Stopped(verdict.why)
    BY <1>2, <2>3, StoppedOpenGov
  <2> QED
    BY <2>1, <2>2, <2>3
<1>6. verdict.what # "page" => /\ Counts(health', health, now)
                               /\ /\ next.state = "failed" /\ Family \notin Circuitless
                                  /\ Family \in PerRequest => verdict.counts
                                  => CountsMore(health', health, now)
  BY <1>1, <1>2, <1>3, <1>5, HealthRecorded
<1>7. CASE verdict.what = "page" /\ outages' = [count |-> 0, last |-> None]
  BY <1>7 DEF CircuitInv, OutagesCounted, FailuresCounted, LeftToCool, Cooling
<1>8. ASSUME next.state = "failed", Outage(answer),
             outages' = [count |-> IF outages.last # None /\ now < outages.last + Cooldown
                                   THEN outages.count + 1 ELSE 1,
                         last |-> now]
      PROVE  CircuitInv'
  <2>1. /\ outages'.last = now /\ now # None /\ outages'.count \in Nat \ {0}
        /\ outages'.count = IF Cooling THEN outages.count + 1 ELSE 1
    BY <1>1, <1>8, NoneIsNoTime DEF CircuitInv, OutagesCounted, Cooling
  <2>2. OutagesCounted'
    BY <1>1, <2>1 DEF OutagesCounted
  <2>3. ~Active(run')
    <3>1. PICK wake : run' = Dress(next, wake)
      BY <1>3
    <3>2. Dress(next, wake).state = next.state
      BY DEF Dress
    <3> QED
      BY <1>8, <3>1, <3>2 DEF Active
  <2>4. LeftToCool'
    BY <2>3 DEF LeftToCool, Active
  <2>5. ASSUME Cooling', ~Excepted PROVE FailuresCounted'
    <3>1. answer = setting.fault
      BY <1>8, OutageFault
    <3>2. verdict.what # "page" /\ (Family \in PerRequest => Spent(verdict))
      BY <1>2, <1>8, <2>5, <3>1, OutageVerdict DEF Excepted
    <3>3. ~(verdict.what = "again" /\ run.attempt < MaxRetries)
      <4>1. next = [run EXCEPT !.attempt = @ + 1] => next.state = run.state
        BY <1>2, Fields
      <4> QED
        BY <1>2, <1>4, <1>8, <3>2, <4>1
    <3>4. Family \in PerRequest => verdict.counts
      <4>1. Family \in PerRequest => verdict.counts = TRUE
        BY <3>2, <3>3 DEF Spent
      <4> QED
        BY <4>1, Zenon
    <3>5. CountsMore(health', health, now)
      BY <1>6, <1>8, <2>5, <3>2, <3>4 DEF Excepted
    <3>6. health'.last = now /\ health'.failures > health.failures /\ health'.failures \in Nat
      BY <3>5 DEF CountsMore, Healthful
    <3>7. Cooling => health.failures >= outages.count
      BY <2>5 DEF CircuitInv, FailuresCounted
    <3>8. health'.failures >= outages'.count
      BY <1>2, <2>1, <3>6, <3>7 DEF Healthful, CircuitInv, OutagesCounted
    <3> QED
      BY <1>1, <2>1, <3>6, <3>8 DEF FailuresCounted
  <2>6. FailuresCounted'
    BY <1>1, <2>5 DEF FailuresCounted
  <2> QED
    BY <2>2, <2>4, <2>6 DEF CircuitInv
<1>9. ASSUME verdict.what # "page", outages' = outages PROVE CircuitInv'
  <2>1. Cooling' = Cooling
    BY <1>1, <1>9 DEF Cooling
  <2>2. OutagesCounted'
    BY <1>1, <1>9 DEF CircuitInv, OutagesCounted
  <2>3. LeftToCool'
    BY <1>1, <1>9, <2>1, CircuitAsked DEF LeftToCool
  <2>4. ASSUME Cooling, ~Excepted PROVE FailuresCounted'
    <3>1. /\ health'.last \in {health.last, now} /\ health'.failures >= health.failures
          /\ health'.failures \in Nat
      BY <1>6, <1>9 DEF Counts, Healthful
    <3>2. /\ health.last # None /\ health.last >= outages.last /\ health.failures >= outages.count
          /\ outages.last <= now /\ outages.count \in Nat
      BY <2>4 DEF CircuitInv, FailuresCounted, OutagesCounted, Cooling
    <3>3. outages.last \in Nat /\ health.failures \in Nat /\ health.last \in Nat /\ now # None
      BY <1>1, <1>2, <2>4, <3>2, NoneIsNoTime DEF CircuitInv, OutagesCounted, Cooling, Healthful
    <3>4. health'.last # None /\ health'.last >= outages.last /\ health'.failures >= outages.count
      BY <1>1, <3>1, <3>2, <3>3
    <3> QED
      BY <1>9, <3>4 DEF FailuresCounted
  <2>5. FailuresCounted'
    BY <1>1, <2>1, <2>4 DEF FailuresCounted
  <2> QED
    BY <2>2, <2>3, <2>5 DEF CircuitInv
<1> QED
  BY <1>3, <1>7, <1>8, <1>9

LEMMA CircuitNext == RunsInv /\ CircuitInv /\ [Next]_vars => CircuitInv'
<1> SUFFICES ASSUME RunsInv, CircuitInv, [Next]_vars PROVE CircuitInv'
  OBVIOUS
<1>1. setting' = setting /\ Family' = Family /\ Excepted' = Excepted
  BY DEF Next, vars, Discover, HealthCheck, Answered, Answer, Refuse, Tick, Family, Excepted
<1>2. /\ outages.count \in Nat /\ outages.last \in Nat \cup {None} /\ now \in Nat
      /\ outages.last # None => outages.last <= now
  BY DEF CircuitInv, OutagesCounted, RunsInv
<1>3. Cooling /\ ~Excepted => LookedAt = health
  BY CoolingOpen
<1>4. ASSUME NEW query \in Queries, Discover(query) PROVE CircuitInv'
  <2>1. run' = Started(query) /\ health' \in {LookedAt, health} /\ outages' = outages /\ now' = now
    BY <1>4 DEF Discover
  <2>2. Cooling' = Cooling
    BY <2>1 DEF Cooling
  <2>3. Cooling /\ ~Excepted => health' = health
    BY <1>3, <2>1
  <2>4. OutagesCounted' /\ FailuresCounted'
    BY <1>1, <2>1, <2>2, <2>3 DEF CircuitInv, OutagesCounted, FailuresCounted
  <2>5. ASSUME Cooling, ~Excepted, outages.count >= Threshold, Active(Started(query))
        PROVE  Family \in PerRequest /\ Started(query).attempt = 0
    <3>1. query.limit \in Nat /\ Family \in Families
      BY QueriesLimited, SettingFamily DEF RunsInv
    <3>2. Opened(query, Started(query))
      BY <3>1, StartedOpened
    <3>3. ~Active(Returned(query)) /\ \A why : ~Active(Refused(query, why))
      BY Fields DEF Returned, Refused, Idle, Active
    <3>4. Family \notin PerRequest \cup Circuitless => ~OpenUntilCooldown(health, now)
      BY <2>5, <3>2, <3>3 DEF Opened
    <3>5. OpenUntilCooldown(health, now)
      BY <2>5, CoolingOpen
    <3>6. Started(query).attempt = 0
      BY <3>1, <3>2, OpenedBlank DEF Blank
    <3> QED
      BY <2>5, <3>4, <3>5, <3>6 DEF Excepted
  <2>6. LeftToCool'
    BY <1>1, <2>1, <2>2, <2>5 DEF LeftToCool
  <2> QED
    BY <2>4, <2>6 DEF CircuitInv
<1>5. ASSUME HealthCheck PROVE CircuitInv'
  <2>1. health' = LookedAt /\ outages' = outages /\ now' = now /\ run' = run
    BY <1>5 DEF HealthCheck
  <2>2. Cooling' = Cooling
    BY <2>1 DEF Cooling
  <2> QED
    BY <1>1, <1>3, <2>1, <2>2 DEF CircuitInv, OutagesCounted, FailuresCounted, LeftToCool, Active
<1>6. ASSUME NEW answer \in Answers, Answer(answer) PROVE CircuitInv'
  BY <1>6, CircuitAnswer
<1>7. ASSUME Refuse PROVE CircuitInv'
  <2>1. /\ run' = Stopped("circuit") /\ health' = health /\ outages' = outages /\ now' = now
        /\ Active(run)
    BY <1>7 DEF Refuse
  <2>2. Cooling' = Cooling
    BY <2>1 DEF Cooling
  <2>3. OutagesCounted' /\ FailuresCounted'
    BY <1>1, <2>1, <2>2 DEF CircuitInv, OutagesCounted, FailuresCounted
  <2>4. Cooling /\ ~Excepted /\ outages.count >= Threshold => ~Active(Stopped("circuit"))
    <3>1. DOMAIN run = DOMAIN Idle
      BY RunFields
    <3>2. Cooling /\ ~Excepted /\ outages.count >= Threshold => Family \in PerRequest
      BY <2>1 DEF CircuitInv, LeftToCool
    <3> QED
      BY <3>1, <3>2, StoppedEnds
  <2>5. LeftToCool'
    BY <1>1, <2>1, <2>2, <2>4 DEF LeftToCool
  <2> QED
    BY <2>3, <2>5 DEF CircuitInv
<1>8. ASSUME Tick PROVE CircuitInv'
  <2>1. now' = now + 1 /\ health' = health /\ outages' = outages /\ run' = run
    BY <1>8 DEF Tick
  <2>2. Cooling' => Cooling
    BY <1>2, <2>1, Numbers DEF Cooling
  <2>3. OutagesCounted'
    BY <1>2, <2>1 DEF CircuitInv, OutagesCounted
  <2>4. FailuresCounted' /\ LeftToCool'
    BY <1>1, <2>1, <2>2 DEF CircuitInv, FailuresCounted, LeftToCool, Active
  <2> QED
    BY <2>3, <2>4 DEF CircuitInv
<1>9. CASE UNCHANGED vars
  BY <1>1, <1>9 DEF vars, CircuitInv, OutagesCounted, FailuresCounted, LeftToCool, Cooling, Active
<1> QED
  BY <1>4, <1>5, <1>6, <1>7, <1>8, <1>9 DEF Next, Answered

\* The health a connector keeps never falls behind what the portal has refused:
\* until the cooldown of the last outage is over, no look at the circuit has
\* forgotten a failure, and no run that is under way can send what the circuit
\* would have stopped.
THEOREM CircuitKept == Spec => []CircuitInv
<1>1. Init => CircuitInv
  BY CircuitInit
<1>2. RunsInv /\ CircuitInv /\ [Next]_vars => CircuitInv'
  BY CircuitNext
<1> QED
  BY <1>1, <1>2, RunsAreKept, PTL DEF Spec

LEMMA LeftAloneStep ==
  ASSUME RunsInv, CircuitInv, [Next]_vars,
         outages.count >= Threshold, now < outages.last + Cooldown, Family \notin Circuitless,
         ~(Family = "tyler" /\ setting.fault.status = Lost),
         Active(run)
  PROVE  run' = run \/ run'.why = "circuit"
<1>1. Cooling /\ ~Excepted
  BY Numbers DEF CircuitInv, OutagesCounted, Cooling, Excepted
<1>2. Family \in PerRequest
  BY <1>1 DEF CircuitInv, LeftToCool
<1>3. ASSUME Refuse PROVE run'.why = "circuit"
  <2>1. run' = Stopped("circuit") /\ DOMAIN run = DOMAIN Idle
    BY <1>3, RunFields DEF Refuse
  <2> QED
    BY <1>2, <2>1, StoppedEnds
<1>4. \A answer \in Answers : ~Answer(answer)
  BY <1>1, CircuitAsked
<1> QED
  BY <1>3, <1>4 DEF Next, Answered, Discover, HealthCheck, Tick, vars

\* The portal is left alone: a connector that has met as many outages in a row
\* as open its circuit sends nothing more until the cooldown is over, whether
\* its class asks the circuit before a run or before each request.
THEOREM PortalLeftAlone == Spec => LeftAlone
<1>1. RunsInv /\ CircuitInv /\ [Next]_vars
      => [ /\ outages.count >= Threshold /\ now < outages.last + Cooldown
           /\ Family \notin Circuitless
           /\ ~(Family = "tyler" /\ setting.fault.status = Lost)
           => ~(Active(run) /\ run' # run /\ run'.why # "circuit") ]_vars
  BY LeftAloneStep
<1> QED
  BY <1>1, RunsAreKept, CircuitKept, PTL DEF Spec, LeftAlone

-----------------------------------------------------------------------------
(* Gates.  What a class makes of a refusal, a captcha or a login page.       *)

\* The value a table gives is that of its first entry with a word of the text.
LEMMA NamedFirst ==
  ASSUME NEW table, DOMAIN table \subseteq Nat, NEW text, NEW default,
         NEW k \in DOMAIN table, table[k][2] \cap text # {}
  PROVE  \E i \in DOMAIN table : /\ table[i][2] \cap text # {}
                                 /\ FirstNamed(table, text, default) = table[i][1]
                                 /\ i <= k
<1> DEFINE hits == {i \in DOMAIN table : table[i][2] \cap text # {}}
           least == CHOOSE i \in hits : \A j \in hits : i <= j
<1>1. hits \in SUBSET Nat /\ k \in hits
  OBVIOUS
<1>2. FirstNamed(table, text, default) = table[least][1]
  BY <1>1 DEF FirstNamed
<1> HIDE DEF hits
<1>3. PICK i \in hits : \A j \in hits : i <= j
  BY <1>1, First!LeastNumber
<1>4. least \in hits /\ \A j \in hits : least <= j
  BY <1>3
<1> HIDE DEF least
<1> QED
  BY <1>1, <1>2, <1>4 DEF hits

Gates == {"captcha", "login"}

LEMMA EvaGated ==
  ASSUME NEW words, words \cap Gates # {}
  PROVE  EvaBoundary(words) # "public"
<1> DEFINE table == << <<"captcha_blocked", {"captcha"}>>, <<"session_expired", {"expired"}>>,
                <<"maintenance", {"maintenance"}>>, <<"free_account_required", {"register"}>>,
                <<"login_required", {"login"}>>, <<"restricted", {"restricted"}>>,
                <<"malformed_response", {"script"}>> >>
<1>1. DOMAIN table = 1..7
  OBVIOUS
<1>2. table[1][2] \cap words # {} \/ table[5][2] \cap words # {}
  BY DEF Gates
<1>3. \A i \in 1..7 : table[i][1] # "public"
  OBVIOUS
<1>4. EvaBoundary(words) = FirstNamed(table, words, "public")
  BY DEF EvaBoundary
<1> HIDE DEF table
<1>5. PICK i \in DOMAIN table : FirstNamed(table, words, "public") = table[i][1]
  BY <1>1, <1>2, NamedFirst
<1> QED
  BY <1>1, <1>3, <1>4, <1>5

LEMMA TexasGated ==
  ASSUME NEW words, words \cap Gates # {}
  PROVE  TexasBoundary(words) # "public"
<1> DEFINE table == << <<"captcha", {"captcha"}>>, <<"maintenance", {"maintenance"}>>,
                    <<"login_required", {"login"}>>, <<"restricted", {"restricted"}>>,
                    <<"unknown", {"garbled"}>> >>
<1>1. DOMAIN table = 1..5
  OBVIOUS
<1>2. table[1][2] \cap words # {} \/ table[3][2] \cap words # {}
  BY DEF Gates
<1>3. \A i \in 1..3 : table[i][1] # "public"
  OBVIOUS
<1>4. TexasBoundary(words) = FirstNamed(table, words, "public")
  BY DEF TexasBoundary
<1> HIDE DEF table
<1>5. PICK i \in DOMAIN table : /\ FirstNamed(table, words, "public") = table[i][1]
                               /\ i <= 3
  BY <1>1, <1>2, NamedFirst
<1> QED
  BY <1>1, <1>3, <1>4, <1>5

LEMMA PeopleSoftGated ==
  ASSUME NEW words, words \cap Gates # {}
  PROVE  PeopleSoftBoundary(words) # "public"
<1> DEFINE table == << <<"captcha_blocked", {"captcha"}>>, <<"session_expired", {"expired"}>>,
                    <<"maintenance", {"maintenance"}>>, <<"registration_required", {"register"}>>,
                    <<"login_required", {"login"}>>, <<"restricted", {"restricted"}>> >>
<1>1. DOMAIN table = 1..6
  OBVIOUS
<1>2. table[1][2] \cap words # {} \/ table[5][2] \cap words # {}
  BY DEF Gates
<1>3. \A i \in 1..5 : table[i][1] # "public"
  OBVIOUS
<1>4. PeopleSoftBoundary(words) = FirstNamed(table, words, "public")
  BY DEF PeopleSoftBoundary
<1> HIDE DEF table
<1>5. PICK i \in DOMAIN table : /\ FirstNamed(table, words, "public") = table[i][1]
                               /\ i <= 5
  BY <1>1, <1>2, NamedFirst
<1> QED
  BY <1>1, <1>3, <1>4, <1>5

LEMMA InfotechGated ==
  ASSUME NEW words, words \cap Gates # {}
  PROVE  InfotechBoundary(words) # "public"
<1> DEFINE table == << <<"captcha_blocked", {"captcha"}>>, <<"payment_required", {"payment"}>>,
                    <<"subscription_required", {"subscription"}>>,
                    <<"registration_required", {"register"}>>,
                    <<"login_required", {"login", "expired"}>>,
                    <<"unavailable", {"maintenance"}>> >>
<1>1. DOMAIN table = 1..6
  OBVIOUS
<1>2. table[1][2] \cap words # {} \/ table[5][2] \cap words # {}
  BY DEF Gates
<1>3. \A i \in 1..5 : table[i][1] # "public"
  OBVIOUS
<1>4. InfotechBoundary(words) = FirstNamed(table, words, "public")
  BY DEF InfotechBoundary
<1> HIDE DEF table
<1>5. PICK i \in DOMAIN table : /\ FirstNamed(table, words, "public") = table[i][1]
                               /\ i <= 5
  BY <1>1, <1>2, NamedFirst
<1> QED
  BY <1>1, <1>3, <1>4, <1>5

LEMMA JaggaerGated ==
  ASSUME NEW words, words \cap Gates # {}
  PROVE  JaggaerBoundary(words) # "public"
<1> DEFINE table == << <<"captcha", {"captcha"}>>, <<"login_required", {"login"}>>,
                    <<"registration_required", {"register"}>>, <<"unavailable", {"maintenance"}>>,
                    <<"unsupported", {"script"}>> >>
<1>1. DOMAIN table = 1..5
  OBVIOUS
<1>2. table[1][2] \cap words # {} \/ table[2][2] \cap words # {}
  BY DEF Gates
<1>3. \A i \in 1..2 : table[i][1] # "public"
  OBVIOUS
<1>4. JaggaerBoundary(words) = FirstNamed(table, words, "public")
  BY DEF JaggaerBoundary
<1> HIDE DEF table
<1>5. PICK i \in DOMAIN table : /\ FirstNamed(table, words, "public") = table[i][1]
                               /\ i <= 2
  BY <1>1, <1>2, NamedFirst
<1> QED
  BY <1>1, <1>3, <1>4, <1>5

LEMMA BonfireGated ==
  ASSUME NEW words, words \cap Gates # {}
  PROVE  BonfireBoundary(words) # "public"
<1> DEFINE table == << <<"captcha", {"captcha"}>>, <<"login_required", {"login"}>>,
                    <<"unavailable", {"maintenance"}>>, <<"migrated", {"migrated"}>>,
                    <<"javascript_only", {"script"}>>, <<"public", {"records"}>>,
                    <<"registration_required", {"register"}>> >>
<1>1. DOMAIN table = 1..7
  OBVIOUS
<1>2. table[1][2] \cap words # {} \/ table[2][2] \cap words # {}
  BY DEF Gates
<1>3. \A i \in 1..2 : table[i][1] # "public"
  OBVIOUS
<1>4. BonfireBoundary(words) = FirstNamed(table, words, "public")
  BY DEF BonfireBoundary
<1> HIDE DEF table
<1>5. PICK i \in DOMAIN table : /\ FirstNamed(table, words, "public") = table[i][1]
                               /\ i <= 2
  BY <1>1, <1>2, NamedFirst
<1> QED
  BY <1>1, <1>3, <1>4, <1>5

LEMMA IonWaveGated ==
  ASSUME NEW words, words \cap Gates # {}
  PROVE  IonWaveBoundary(words) # "public"
<1> DEFINE table == << <<"captcha", {"captcha"}>>, <<"login_required", {"login", "expired"}>>,
                    <<"unavailable", {"maintenance"}>>, <<"migrated", {"migrated"}>>,
                    <<"javascript_only", {"script"}>>, <<"public", {"records"}>>,
                    <<"registration_required", {"register"}>> >>
<1>1. DOMAIN table = 1..7
  OBVIOUS
<1>2. table[1][2] \cap words # {} \/ table[2][2] \cap words # {}
  BY DEF Gates
<1>3. \A i \in 1..2 : table[i][1] # "public"
  OBVIOUS
<1>4. IonWaveBoundary(words) = FirstNamed(table, words, "public")
  BY DEF IonWaveBoundary
<1> HIDE DEF table
<1>5. PICK i \in DOMAIN table : /\ FirstNamed(table, words, "public") = table[i][1]
                               /\ i <= 2
  BY <1>1, <1>2, NamedFirst
<1> QED
  BY <1>1, <1>3, <1>4, <1>5

LEMMA BidNetGated ==
  ASSUME NEW words, words \cap Gates # {}
  PROVE  BidNetBoundary(words) # "public"
<1> DEFINE table == << <<"robots_policy_blocked", {"robots"}>>,
                    <<"automated_access_blocked", {"automated"}>>,
                    <<"captcha_required", {"captcha"}>>,
                    <<"premium_aggregation_required", {"premium"}>>,
                    <<"subscription_required", {"subscription"}>>,
                    <<"bid_participation_required", {"participation"}>>,
                    <<"registration_required", {"register"}>>,
                    <<"login_required", {"login"}>>, <<"restricted", {"restricted"}>>,
                    <<"unavailable", {"maintenance"}>> >>
<1>1. DOMAIN table = 1..10
  OBVIOUS
<1>2. table[3][2] \cap words # {} \/ table[8][2] \cap words # {}
  BY DEF Gates
<1>3. \A i \in 1..8 : table[i][1] # "public"
  OBVIOUS
<1>4. BidNetBoundary(words) = FirstNamed(table, words, "public")
  BY DEF BidNetBoundary
<1> HIDE DEF table
<1>5. PICK i \in DOMAIN table : /\ FirstNamed(table, words, "public") = table[i][1]
                               /\ i <= 8
  BY <1>1, <1>2, NamedFirst
<1> QED
  BY <1>1, <1>3, <1>4, <1>5

LEMMA PublicPurchaseGated ==
  ASSUME NEW words, words \cap Gates # {}
  PROVE  PublicPurchaseBoundary(words) # "public"
<1> DEFINE table == << <<"login_required", {"form"}>>, <<"robots_policy_blocked", {"robots"}>>,
                    <<"automated_access_blocked", {"automated"}>>,
                    <<"captcha_required", {"captcha"}>>,
                    <<"paid_syndication_required", {"premium"}>>,
                    <<"subscription_required", {"subscription"}>>,
                    <<"bid_participation_required", {"participation"}>>,
                    <<"agency_enrollment_required", {"enrollment"}>>,
                    <<"registration_required", {"register"}>>,
                    <<"login_required", {"login"}>>, <<"restricted", {"restricted"}>>,
                    <<"unavailable", {"maintenance"}>> >>
<1>1. DOMAIN table = 1..12
  OBVIOUS
<1>2. table[4][2] \cap words # {} \/ table[10][2] \cap words # {}
  BY DEF Gates
<1>3. \A i \in 1..10 : table[i][1] # "public"
  OBVIOUS
<1>4. PublicPurchaseBoundary(words) = FirstNamed(table, words, "public")
  BY DEF PublicPurchaseBoundary
<1> HIDE DEF table
<1>5. PICK i \in DOMAIN table : /\ FirstNamed(table, words, "public") = table[i][1]
                               /\ i <= 10
  BY <1>1, <1>2, NamedFirst
<1> QED
  BY <1>1, <1>3, <1>4, <1>5

LEMMA MarylandGated ==
  ASSUME NEW words, words \cap Gates # {}
  PROVE  MarylandBoundary(words) # "public"
<1> DEFINE table == << <<"captcha_required", {"captcha"}>>,
                    <<"vendor_profile_required", {"profile"}>>,
                    <<"invitation_only", {"invitation"}>>,
                    <<"vendor_profile_required", {"participation"}>>,
                    <<"registration_required", {"register"}>>,
                    <<"login_required", {"login"}>>, <<"restricted", {"restricted"}>>,
                    <<"unavailable", {"maintenance"}>> >>
<1>1. DOMAIN table = 1..8
  OBVIOUS
<1>2. table[1][2] \cap words # {} \/ table[6][2] \cap words # {}
  BY DEF Gates
<1>3. \A i \in 1..6 : table[i][1] # "public"
  OBVIOUS
<1>4. MarylandBoundary(words) = FirstNamed(table, words, "public")
  BY DEF MarylandBoundary
<1> HIDE DEF table
<1>5. PICK i \in DOMAIN table : /\ FirstNamed(table, words, "public") = table[i][1]
                               /\ i <= 6
  BY <1>1, <1>2, NamedFirst
<1> QED
  BY <1>1, <1>3, <1>4, <1>5

LEMMA GeorgiaGated ==
  ASSUME NEW words, words \cap Gates # {}
  PROVE  GeorgiaBoundary(words) # "public"
<1> DEFINE table == << <<"captcha_required", {"captcha"}>>,
                    <<"vendor_profile_required", {"profile"}>>,
                    <<"invitation_only", {"invitation"}>>,
                    <<"vendor_profile_required", {"participation"}>>,
                    <<"registration_required", {"register"}>>,
                    <<"login_required", {"login"}>>, <<"migrated", {"migrated"}>>,
                    <<"restricted", {"restricted"}>>, <<"unavailable", {"maintenance"}>> >>
<1>1. DOMAIN table = 1..9
  OBVIOUS
<1>2. table[1][2] \cap words # {} \/ table[6][2] \cap words # {}
  BY DEF Gates
<1>3. \A i \in 1..6 : table[i][1] # "public"
  OBVIOUS
<1>4. GeorgiaBoundary(words) = FirstNamed(table, words, "public")
  BY DEF GeorgiaBoundary
<1> HIDE DEF table
<1>5. PICK i \in DOMAIN table : /\ FirstNamed(table, words, "public") = table[i][1]
                               /\ i <= 6
  BY <1>1, <1>2, NamedFirst
<1> QED
  BY <1>1, <1>3, <1>4, <1>5

LEMMA PennsylvaniaGated ==
  ASSUME NEW words, words \cap Gates # {}
  PROVE  PennsylvaniaBoundary(words) \notin {"public", "expired_session"}
<1> DEFINE table == << <<"captcha", {"captcha"}>>, <<"mfa_required", {"mfa"}>>,
                    <<"registration_required", {"register"}>>, <<"login_required", {"login"}>>,
                    <<"maintenance", {"maintenance"}>>, <<"expired_session", {"expired"}>>,
                    <<"restricted", {"restricted"}>>, <<"malformed_response", {"garbled"}>> >>
<1>1. DOMAIN table = 1..8
  OBVIOUS
<1>2. table[1][2] \cap words # {} \/ table[4][2] \cap words # {}
  BY DEF Gates
<1>3. \A i \in 1..4 : table[i][1] \notin {"public", "expired_session"}
  OBVIOUS
<1>4. PennsylvaniaBoundary(words) = FirstNamed(table, words, "public")
  BY DEF PennsylvaniaBoundary
<1> HIDE DEF table
<1>5. PICK i \in DOMAIN table : /\ FirstNamed(table, words, "public") = table[i][1]
                               /\ i <= 4
  BY <1>1, <1>2, NamedFirst
<1> QED
  BY <1>1, <1>3, <1>4, <1>5

LEMMA OpenGovGated ==
  ASSUME NEW words, words \cap Gates # {}
  PROVE  OpenGovBoundary(words) # "public_metadata_only"
<1> DEFINE table == << <<"captcha", {"captcha"}>>, <<"login_required", {"login"}>> >>
<1>1. DOMAIN table = 1..2
  OBVIOUS
<1>2. table[1][2] \cap words # {} \/ table[2][2] \cap words # {}
  BY DEF Gates
<1>3. \A i \in 1..2 : table[i][1] # "public_metadata_only"
  OBVIOUS
<1>4. OpenGovBoundary(words) = FirstNamed(table, words, IF words = {} THEN "public_metadata_only" ELSE "malformed")
  BY DEF OpenGovBoundary
<1> HIDE DEF table
<1>5. PICK i \in DOMAIN table : /\ FirstNamed(table, words, IF words = {} THEN "public_metadata_only" ELSE "malformed") = table[i][1]
                               /\ i <= 2
  BY <1>1, <1>2, NamedFirst
<1> QED
  BY <1>1, <1>3, <1>4, <1>5

LEMMA PlanetBidsGated ==
  ASSUME NEW words, "login" \in words
  PROVE  PlanetBidsBoundary(words) # "public"
<1> DEFINE table == << <<"invitation_only", {"invitation"}>>,
                    <<"prospective_bidder_required", {"participation"}>>,
                    <<"registration_required", {"register"}>>,
                    <<"login_required", {"login"}>>, <<"restricted", {"restricted"}>>,
                    <<"unavailable", {"maintenance"}>> >>
<1>1. DOMAIN table = 1..6
  OBVIOUS
<1>2. table[4][2] \cap words # {}
  OBVIOUS
<1>3. \A i \in 1..4 : table[i][1] # "public"
  OBVIOUS
<1>4. PlanetBidsBoundary(words) = FirstNamed(table, words, "public")
  BY DEF PlanetBidsBoundary
<1> HIDE DEF table
<1>5. PICK i \in DOMAIN table : /\ FirstNamed(table, words, "public") = table[i][1]
                               /\ i <= 4
  BY <1>1, <1>2, NamedFirst
<1> QED
  BY <1>1, <1>3, <1>4, <1>5

LEMMA DemandStarGated ==
  ASSUME NEW words, "login" \in words
  PROVE  DemandStarBoundary(words) # "public"
<1> DEFINE table == << <<"payment_required", {"payment"}>>,
                    <<"subscription_required", {"subscription"}>>,
                    <<"registration_required", {"register"}>>,
                    <<"login_required", {"login"}>>, <<"restricted", {"restricted"}>>,
                    <<"unavailable", {"maintenance"}>> >>
<1>1. DOMAIN table = 1..6
  OBVIOUS
<1>2. table[4][2] \cap words # {}
  OBVIOUS
<1>3. \A i \in 1..4 : table[i][1] # "public"
  OBVIOUS
<1>4. DemandStarBoundary(words) = FirstNamed(table, words, "public")
  BY DEF DemandStarBoundary
<1> HIDE DEF table
<1>5. PICK i \in DOMAIN table : /\ FirstNamed(table, words, "public") = table[i][1]
                               /\ i <= 4
  BY <1>1, <1>2, NamedFirst
<1> QED
  BY <1>1, <1>3, <1>4, <1>5

LEMMA CgiGated ==
  ASSUME NEW words, words \cap Gates # {}, "expired" \in words => "captcha" \in words
  PROVE  CgiBoundary(words) \notin {"public", "expired_session"}
<1> DEFINE table == << <<"captcha", {"captcha"}>>, <<"verification_required", {"mfa"}>>,
                    <<"registration_required", {"register"}>>, <<"invited_vendor_only", {"invited"}>>,
                    <<"maintenance", {"maintenance"}>>, <<"scheduled_unavailable", {"scheduled"}>>,
                    <<"expired_session", {"expired"}>>, <<"restricted", {"restricted"}>>,
                    <<"login_required", {"login"}>>, <<"malformed_response", {"script"}>> >>
<1>1. DOMAIN table = 1..10
  OBVIOUS
<1>2. table[1][2] \cap words # {} \/ (table[9][2] \cap words # {} /\ table[7][2] \cap words = {})
  BY DEF Gates
<1>3. /\ \A i \in 1..10 \ {7} : table[i][1] \notin {"public", "expired_session"}
  OBVIOUS
<1>4. CgiBoundary(words) = FirstNamed(table, words, "public")
  BY DEF CgiBoundary
<1> HIDE DEF table
<1>5. PICK i \in DOMAIN table : /\ FirstNamed(table, words, "public") = table[i][1]
                               /\ i # 7
  <2>1. CASE table[1][2] \cap words # {}
    BY <1>1, <2>1, NamedFirst
  <2>2. CASE table[9][2] \cap words # {} /\ table[7][2] \cap words = {}
    BY <1>1, <2>2, NamedFirst
  <2> QED
    BY <1>2, <2>1, <2>2
<1> QED
  BY <1>1, <1>3, <1>4, <1>5

LEMMA PageNeverStops ==
  /\ \A access, why : Stop(access, why).what # "page" /\ Counted(Stop(access, why)).what # "page"
  /\ \A access, counts : /\ Again(access, counts).what # "page"
                         /\ Counted(Again(access, counts)).what # "page"
BY VerdictFields

\* An answer with another status than 200 is a page to no class.
LEMMA RefusedNeverPage ==
  ASSUME NEW answer, answer.status # 200, NEW last
  PROVE  /\ WebProcureVerdict(answer).what # "page"
         /\ EvaVerdict(answer).what # "page"
         /\ TexasVerdict(answer).what # "page"
         /\ PeopleSoftVerdict(answer).what # "page"
         /\ InfotechVerdict(answer, last).what # "page"
         /\ BidBuyPosted(answer, last).what # "page"
         /\ PeriscopeVerdict(answer).what # "page"
         /\ OracleVerdict(answer, last).what # "page"
         /\ TylerVerdict(answer, last).what # "page"
         /\ RivipVerdict(answer).what # "page"
         /\ PennsylvaniaVerdict(answer).what # "page"
         /\ CgiVerdict(answer).what # "page"
         /\ JaggaerVerdict(answer, last).what # "page"
         /\ BonfireVerdict(answer, last).what # "page"
         /\ IonWaveVerdict(answer, last).what # "page"
         /\ OpenGovVerdict(answer, last).what # "page"
         /\ ListingVerdict(answer, last).what # "page"
<1>1. WebProcureVerdict(answer).what # "page"
  BY PageNeverStops DEF WebProcureVerdict
<1>2. EvaVerdict(answer).what # "page"
  BY DEF EvaVerdict, Again, Stop, Counted
<1>3. TexasVerdict(answer).what # "page"
  BY DEF TexasVerdict, Again, Stop, Counted
<1>4. PeopleSoftVerdict(answer).what # "page"
  BY DEF PeopleSoftVerdict, Again, Stop, Counted
<1>5. InfotechVerdict(answer, last).what # "page"
  BY DEF InfotechVerdict, Again, Stop, Counted
<1>6. PeriscopeChecked(answer).what # "page"
  BY PageNeverStops DEF PeriscopeChecked
<1>7. BidBuyPosted(answer, last).what # "page" /\ PeriscopeVerdict(answer).what # "page"
  BY <1>6, PageNeverStops DEF BidBuyPosted, PeriscopeVerdict
<1>8. OracleVerdict(answer, last).what # "page"
  BY DEF OracleVerdict, Again, Stop, Counted
<1>9. TylerVerdict(answer, last).what # "page"
  BY PageNeverStops DEF TylerVerdict
<1>10. RivipVerdict(answer).what # "page"
  BY PageNeverStops DEF RivipVerdict
<1>11. PennsylvaniaVerdict(answer).what # "page"
  BY DEF PennsylvaniaVerdict, Again, Stop, Counted
<1>12. CgiVerdict(answer).what # "page"
  BY DEF CgiVerdict, Again, Stop, Counted
<1>13. \A boundary : CollectVerdict(answer, boundary, last).what # "page"
  BY DEF CollectVerdict, Again, Stop, Counted
<1>14. JaggaerVerdict(answer, last).what # "page" /\ BonfireVerdict(answer, last).what # "page"
  BY <1>13 DEF JaggaerVerdict, BonfireVerdict
<1>15. IonWaveVerdict(answer, last).what # "page"
  BY <1>13, PageNeverStops DEF IonWaveVerdict
<1>16. OpenGovVerdict(answer, last).what # "page"
  BY DEF OpenGovVerdict, Again, Stop, Counted
<1>17. ListingVerdict(answer, last).what # "page"
  BY DEF ListingVerdict, Again, Stop, Counted
<1> QED
  BY <1>1, <1>2, <1>3, <1>4, <1>5, <1>7, <1>8, <1>9, <1>10, <1>11, <1>12, <1>14, <1>15, <1>16, <1>17

\* A text that shows a gate is a page to none of these classes.
LEMMA GatedNeverPage ==
  ASSUME NEW answer, answer.words \cap Gates # {}, NEW last
  PROVE  /\ WebProcureVerdict(answer).what # "page"
         /\ EvaVerdict(answer).what # "page"
         /\ TexasVerdict(answer).what # "page"
         /\ PeopleSoftVerdict(answer).what # "page"
         /\ InfotechVerdict(answer, last).what # "page"
         /\ BidBuyPosted(answer, last).what # "page"
         /\ PeriscopeVerdict(answer).what # "page"
         /\ OracleVerdict(answer, last).what # "page"
         /\ RivipVerdict(answer).what # "page"
         /\ PennsylvaniaVerdict(answer).what # "page"
         /\ ("expired" \in answer.words => "captcha" \in answer.words) => CgiVerdict(answer).what # "page"
         /\ JaggaerVerdict(answer, last).what # "page"
         /\ BonfireVerdict(answer, last).what # "page"
         /\ IonWaveVerdict(answer, last).what # "page"
         /\ OpenGovVerdict(answer, last).what # "page"
<1>0. answer.words # {} /\ answer.words \cap {"captcha", "login", "expired"} # {}
  BY DEF Gates
<1>1. WebProcureVerdict(answer).what # "page"
  BY <1>0, PageNeverStops DEF WebProcureVerdict
<1>2. EvaVerdict(answer).what # "page"
  <2>1. EvaBoundary(answer.words) # "public"
    BY EvaGated
  <2> QED
    BY <2>1 DEF EvaVerdict, Again, Stop, Counted
<1>3. TexasVerdict(answer).what # "page"
  <2>1. TexasBoundary(answer.words) # "public"
    BY TexasGated
  <2> QED
    BY <2>1 DEF TexasVerdict, Again, Stop, Counted
<1>4. PeopleSoftVerdict(answer).what # "page"
  <2>1. PeopleSoftBoundary(answer.words) # "public"
    BY PeopleSoftGated
  <2> QED
    BY <2>1 DEF PeopleSoftVerdict, Again, Stop, Counted
<1>5. InfotechVerdict(answer, last).what # "page"
  <2>1. InfotechBoundary(answer.words) # "public"
    BY InfotechGated
  <2> QED
    BY <2>1 DEF InfotechVerdict, Again, Stop, Counted
<1>6. PeriscopeChecked(answer).what # "page"
  BY <1>0, PageNeverStops DEF PeriscopeChecked
<1>7. BidBuyPosted(answer, last).what # "page" /\ PeriscopeVerdict(answer).what # "page"
  BY <1>6, PageNeverStops DEF BidBuyPosted, PeriscopeVerdict
<1>8. OracleVerdict(answer, last).what # "page"
  BY <1>0 DEF OracleVerdict, Again, Stop, Counted
<1>9. RivipVerdict(answer).what # "page"
  BY <1>0, PageNeverStops DEF RivipVerdict
<1>10. PennsylvaniaVerdict(answer).what # "page"
  <2>1. PennsylvaniaBoundary(answer.words) \notin {"public", "expired_session"}
    BY PennsylvaniaGated
  <2> QED
    BY <2>1 DEF PennsylvaniaVerdict, Again, Stop, Counted
<1>11. ("expired" \in answer.words => "captcha" \in answer.words) => CgiVerdict(answer).what # "page"
  <2> SUFFICES ASSUME "expired" \in answer.words => "captcha" \in answer.words
               PROVE  CgiVerdict(answer).what # "page"
    OBVIOUS
  <2>1. CgiBoundary(answer.words) \notin {"public", "expired_session"}
    BY CgiGated
  <2> QED
    BY <2>1 DEF CgiVerdict, Again, Stop, Counted
<1>12. \A boundary : boundary # "public" => CollectVerdict(answer, boundary, last).what # "page"
  BY DEF CollectVerdict, Again, Stop, Counted
<1>13. JaggaerVerdict(answer, last).what # "page" /\ BonfireVerdict(answer, last).what # "page"
  BY <1>12, JaggaerGated, BonfireGated DEF JaggaerVerdict, BonfireVerdict
<1>14. IonWaveVerdict(answer, last).what # "page"
  BY <1>12, IonWaveGated, PageNeverStops DEF IonWaveVerdict
<1>15. OpenGovVerdict(answer, last).what # "page"
  <2>1. OpenGovBoundary(answer.words) # "public_metadata_only"
    BY OpenGovGated
  <2> QED
    BY <2>1 DEF OpenGovVerdict, Again, Stop, Counted
<1> QED
  BY <1>1, <1>2, <1>3, <1>4, <1>5, <1>7, <1>8, <1>9, <1>10, <1>11, <1>13, <1>14, <1>15

\* The classes that look for a gate in the page itself.
LateLooking == KeepingRow \cup {"tyler", "demandstar_api"}

LEMMA PageNotGated ==
  ASSUME Family \in Families, NEW answer, VerdictOf(answer).what = "page"
  PROVE  /\ answer.status = 200
         /\ \/ Family \in LateLooking
            \/ answer.words \cap Gates = {}
            \/ Family = "cgi" /\ "expired" \in answer.words /\ "captcha" \notin answer.words
<1> DEFINE last == run.attempt >= MaxRetries
           v == VerdictOf(answer)
<1>2. /\ Family = "webprocure" => v = WebProcureVerdict(answer)
      /\ Family = "eva" => v = EvaVerdict(answer)
      /\ Family = "texas" => v = TexasVerdict(answer)
      /\ Family = "peoplesoft" => v = PeopleSoftVerdict(answer)
      /\ Family = "infotech" => v = InfotechVerdict(answer, last)
      /\ Family = "bidbuy" => v = BidBuyPosted(answer, last) \/ v = PeriscopeVerdict(answer)
      /\ Family = "periscope" => v = PeriscopeVerdict(answer)
      /\ Family = "rivip" => v = RivipVerdict(answer)
  BY DEF VerdictOf
<1>3. /\ Family = "oracle" => v = OracleVerdict(answer, last)
      /\ Family = "tyler" => v = TylerVerdict(answer, last)
      /\ Family = "pennsylvania" => v = PennsylvaniaVerdict(answer)
      /\ Family = "cgi" => v = CgiVerdict(answer)
      /\ Family = "jaggaer" => v = JaggaerVerdict(answer, last)
      /\ Family = "bonfire" => v = BonfireVerdict(answer, last)
      /\ Family = "ionwave" => v = IonWaveVerdict(answer, last)
      /\ Family = "opengov" => v = OpenGovVerdict(answer, last)
  BY DEF VerdictOf
<1>4. Family = "georgia" => v = GeorgiaVerdict(answer, last)
  BY DEF VerdictOf
<1>5. Family \in {"bidnet", "public_purchase", "planetbids", "maryland", "demandstar", "demandstar_api"}
      => v = ListingVerdict(answer, last)
  BY DEF VerdictOf, BidNetVerdict, PublicPurchaseVerdict, PlanetBidsVerdict, MarylandVerdict, DemandStarVerdict
<1> HIDE DEF v, last
<1>6. v.what = "page"
  BY DEF v
<1>7. ASSUME answer.status # 200 PROVE FALSE
  <2>1. GeorgiaVerdict(answer, last).what # "page"
    BY <1>7, RefusedNeverPage, PageNeverStops DEF GeorgiaVerdict
  <2>2. Family \notin {"webprocure", "eva", "texas", "peoplesoft", "infotech", "bidbuy", "periscope", "rivip"}
    BY <1>2, <1>6, <1>7, RefusedNeverPage
  <2>3. Family \notin {"oracle", "tyler", "pennsylvania", "cgi", "jaggaer", "bonfire", "ionwave", "opengov"}
    BY <1>3, <1>6, <1>7, RefusedNeverPage
  <2>4. Family \notin {"georgia", "bidnet", "public_purchase", "planetbids", "maryland", "demandstar",
                       "demandstar_api"}
    BY <1>4, <1>5, <1>6, <1>7, <2>1, RefusedNeverPage
  <2> QED
    BY <2>2, <2>3, <2>4 DEF Families
<1>8. ASSUME answer.words \cap Gates # {}, Family \notin LateLooking,
             Family = "cgi" => ("expired" \in answer.words => "captcha" \in answer.words)
      PROVE  FALSE
  <2>1. Family \notin {"webprocure", "eva", "texas", "peoplesoft", "infotech", "bidbuy", "periscope", "rivip"}
    BY <1>2, <1>6, <1>8, GatedNeverPage
  <2>2. Family \notin {"oracle", "pennsylvania", "cgi", "jaggaer", "bonfire", "ionwave", "opengov"}
    BY <1>3, <1>6, <1>8, GatedNeverPage
  <2> QED
    BY <1>8, <2>1, <2>2 DEF Families, LateLooking, KeepingRow
<1> QED
  BY <1>7, <1>8

LEMMA LateStage ==
  ASSUME RunsInv, Active(run), Family \in LateLooking
  PROVE  run.stage \in StagesOf(Family)
<1>1. Keeps(Family, run, run.limit)
  BY DEF RunsInv, RunInv
<1>2. CASE Family \in KeepingRow
  <2>1. Listed(run, run.limit, Most(Family, run.limit), StagesOf(Family))
    BY <1>1, <1>2 DEF Keeps
  <2>2. \E most : Sound(run, run.limit, most, StagesOf(Family))
    BY <2>1 DEF Listed, Queued
  <2> QED
    BY <2>2 DEF Sound
<1>3. CASE Family = "tyler"
  <2>1. Single(run, run.limit, Most(Family, run.limit), StagesOf(Family))
    BY <1>1, <1>3 DEF Keeps, SingleFamilies
  <2> QED
    BY <2>1 DEF Single, Sound
<1>4. CASE Family = "demandstar_api"
  <2>1. Sound(run, run.limit, Most(Family, run.limit), StagesOf(Family))
    BY <1>1, <1>4 DEF Keeps
  <2> QED
    BY <2>1 DEF Sound
<1> QED
  BY <1>2, <1>3, <1>4 DEF LateLooking

\* A faulty answer that is let through shows no row.
LEMMA FaultyPage ==
  ASSUME NEW answer, answer # Plain
  PROVE  /\ PageOf(answer).words = answer.words
         /\ Family # "oracle" => PageOf(answer).rows = <<>>
BY DEF PageOf

LEMMA LostFails ==
  ASSUME DOMAIN run = DOMAIN Idle, NEW why
  PROVE  DemandStarLost(run, why).state = "failed" /\ Failed(run, why).state = "failed"
<1>1. Failed(run, why).state = "failed" /\ DOMAIN Failed(run, why) = DOMAIN Idle
  BY FailedFields
<1> QED
  BY <1>1, Fields DEF DemandStarLost

\* A listing page of these classes that shows a gate they know fails the run.
LEMMA GatedListingFails ==
  ASSUME RunsInv, Active(run), run.stage # "detail", Family \in LateLooking,
         NEW answer, answer # Plain, answer.words \cap Gates # {},
         ~(Family \in {"planetbids", "demandstar", "tyler"} /\ "captcha" \in answer.words)
  PROVE  Received(PageOf(answer)).state = "failed"
<1> DEFINE page == PageOf(answer)
<1>1. /\ run.stage \in StagesOf(Family) /\ DOMAIN run = DOMAIN Idle
      /\ page.words = answer.words /\ (Family # "oracle" => page.rows = <<>>)
  BY LateStage, FaultyPage, RunFields
<1> HIDE DEF page
<1>2. /\ Family = "tyler" => run.stage \in {"session", "form", "page"}
      /\ Family \in KeepingRow \cup {"demandstar_api"} => run.stage = "page"
  BY <1>1, StagesKnown
<1>3. \A why : DemandStarLost(run, why).state = "failed" /\ Failed(run, why).state = "failed"
  BY <1>1, LostFails
<1>4. ASSUME Family \in KeepingRow PROVE Received(page).state = "failed"
  <2>1. page.rows = <<>> /\ Received(page) = Listing(page)
    BY <1>1, <1>2, <1>4, ReceivedBy DEF KeepingRow
  <2>2. \A boundary, criteria : boundary # "public" =>
          ListingPage(run, page, boundary, criteria) = Failed(run, "refused")
    BY <2>1 DEF ListingPage
  <2>3. Family = "bidnet" => Received(page).state = "failed"
    <3> SUFFICES ASSUME Family = "bidnet" PROVE Received(page).state = "failed"
      OBVIOUS
    <3>1. Listing(page) = ListingPage(run, page, BidNetBoundary(page.words), BidNetMatches)
      BY DEF Listing, BidNetPage
    <3>2. BidNetBoundary(page.words) # "public"
      BY <1>1, BidNetGated
    <3> QED
      BY <1>3, <2>1, <2>2, <3>1, <3>2
  <2>4. Family = "public_purchase" => Received(page).state = "failed"
    <3> SUFFICES ASSUME Family = "public_purchase" PROVE Received(page).state = "failed"
      OBVIOUS
    <3>1. Listing(page) = ListingPage(run, page, PublicPurchaseBoundary(page.words), PublicPurchaseMatches)
      BY DEF Listing, PublicPurchasePage
    <3>2. PublicPurchaseBoundary(page.words) # "public"
      BY <1>1, PublicPurchaseGated
    <3> QED
      BY <1>3, <2>1, <2>2, <3>1, <3>2
  <2>5. Family = "planetbids" => Received(page).state = "failed"
    <3> SUFFICES ASSUME Family = "planetbids" PROVE Received(page).state = "failed"
      OBVIOUS
    <3>1. Listing(page) = ListingPage(run, page, PlanetBidsBoundary(page.words), PlanetBidsMatches)
      BY DEF Listing, PlanetBidsPage
    <3>2. "login" \in page.words
      BY <1>1 DEF Gates
    <3>3. PlanetBidsBoundary(page.words) # "public"
      BY <3>2, PlanetBidsGated
    <3> QED
      BY <1>3, <2>1, <2>2, <3>1, <3>3
  <2>6. Family = "maryland" => Received(page).state = "failed"
    <3> SUFFICES ASSUME Family = "maryland" PROVE Received(page).state = "failed"
      OBVIOUS
    <3>1. Listing(page) = ListingPage(run, page, MarylandBoundary(page.words), MarylandMatches)
      BY DEF Listing, MarylandPage
    <3>2. MarylandBoundary(page.words) # "public"
      BY <1>1, MarylandGated
    <3> QED
      BY <1>3, <2>1, <2>2, <3>1, <3>2
  <2>7. Family = "georgia" => Received(page).state = "failed"
    <3> SUFFICES ASSUME Family = "georgia" PROVE Received(page).state = "failed"
      OBVIOUS
    <3>1. Listing(page) = ListingPage(run, page, GeorgiaBoundary(page.words), GeorgiaMatches)
      BY DEF Listing, GeorgiaPage
    <3>2. GeorgiaBoundary(page.words) # "public"
      BY <1>1, GeorgiaGated
    <3> QED
      BY <1>3, <2>1, <2>2, <3>1, <3>2
  <2>8. Family = "demandstar" => Received(page).state = "failed"
    <3> SUFFICES ASSUME Family = "demandstar" PROVE Received(page).state = "failed"
      OBVIOUS
    <3>1. Listing(page) = ListingPage(run, page, DemandStarBoundary(page.words), DemandStarMatches)
      BY DEF Listing, DemandStarPage
    <3>2. "login" \in page.words
      BY <1>1 DEF Gates
    <3>3. DemandStarBoundary(page.words) # "public"
      BY <3>2, DemandStarGated
    <3> QED
      BY <1>3, <2>1, <2>2, <3>1, <3>3
  <2> QED
    BY <1>4, <2>3, <2>4, <2>5, <2>6, <2>7, <2>8 DEF KeepingRow
<1>5. ASSUME Family = "tyler" PROVE Received(page).state = "failed"
  <2>1. ~TylerValid(page)
    BY <1>1, <1>5 DEF TylerValid, Gates
  <2>2. TylerForm(run, page) = Failed(run, "refused") /\ TylerPage(run, page) = Failed(run, "refused")
    BY <2>1 DEF TylerForm, TylerPage
  <2>3. run.stage = "page" => Received(page) = TylerPage(run, page)
    BY <1>5, ReceivedBy DEF Listing
  <2>4. run.stage \in {"session", "form"} => Received(page) =
          IF Active(TylerForm(run, page)) /\ run.stage = "form" THEN TylerPage(TylerForm(run, page), page)
          ELSE TylerForm(run, page)
    BY <1>5, ReceivedBy DEF BeforeListing
  <2>5. ~Active(TylerForm(run, page))
    BY <1>3, <2>2 DEF Active
  <2> QED
    BY <1>2, <1>3, <1>5, <2>2, <2>3, <2>4, <2>5
<1>6. ASSUME Family = "demandstar_api" PROVE Received(page).state = "failed"
  <2>1. Received(page) = DemandStarSearched(run, page)
    BY <1>2, <1>6, ReceivedBy DEF Listing
  <2>2. page.words # {}
    BY <1>1
  <2>3. DemandStarSearched(run, page) = DemandStarLost(run, "malformed")
    BY <2>2 DEF DemandStarSearched
  <2> QED
    BY <1>3, <2>1, <2>3
<1> QED
  BY <1>4, <1>5, <1>6 DEF LateLooking, page

\* A detail page that shows a gate fails the run of the interface.
LEMMA GatedPartFails ==
  ASSUME RunsInv, run.stage = "detail", Family = "demandstar_api",
         NEW answer, answer # Plain, answer.words \cap Gates # {}
  PROVE  Received(PageOf(answer)).state = "failed"
<1> DEFINE page == PageOf(answer)
           parts == IF setting.profile.landing THEN 5 ELSE 3
<1>1. DOMAIN run = DOMAIN Idle /\ page.words # {}
  BY FaultyPage, RunFields
<1> HIDE DEF page
<1>2. Received(page) = DemandStarPart(run, page, parts)
  BY ReceivedBy DEF Detail
<1> HIDE DEF parts
<1>3. DemandStarPart(run, page, parts) = DemandStarLost(run, "malformed")
  BY <1>1 DEF DemandStarPart
<1>4. Received(page).state = "failed"
  BY <1>1, <1>2, <1>3, LostFails
<1> QED
  BY <1>4 DEF page

\* While a run goes on, and when it is done, it has met no gate that its class
\* knows, but at the detail pages of the classes that drop a row for it.
GatesInv == run.state \in {"asking", "done"} => GatesSeen

LEMMA StoppedFails ==
  ASSUME DOMAIN run = DOMAIN Idle, NEW why, run.stage # "detail" \/ Family \notin Swallowing
  PROVE  Stopped(why).state = "failed"
<1>1. Stopped(why) = DemandStarLost(run, why) \/ Stopped(why) = Failed(run, why)
  BY DEF Stopped, Swallowing
<1> QED
  BY <1>1, LostFails

LEMMA GatesAnswer ==
  ASSUME RunsInv, GatesInv, NEW answer \in Answers, Answer(answer)
  PROVE  GatesInv'
<1> DEFINE retried == VerdictOf(answer).what = "again" /\ run.attempt < MaxRetries
<1>1. /\ Active(run) /\ setting' = setting /\ Family' = Family
      /\ met' = met \cup Met(answer, retried)
  BY DEF Answer, Family
<1>2. Family \in Families /\ DOMAIN run = DOMAIN Idle /\ GatesSeen
  BY <1>1, RunFields DEF GatesInv, Active
<1>3. PICK next : Followed(next, answer) /\ \E wake : run' = Dress(next, wake)
  BY AnswerFollowed
<1>4. run'.state = next.state
  BY <1>3 DEF Dress
<1>5. \/ VerdictOf(answer).what = "page" /\ next = Received(PageOf(answer))
      \/ retried
      \/ \E why : next = Stopped(why)
  BY <1>3 DEF Followed
<1>6. (ShownGate' <=> ShownGate) /\ (Blind' <=> Blind)
  BY <1>1 DEF ShownGate, Blind, Shows
<1> HIDE DEF retried
<1> SUFFICES ASSUME next.state # "failed" PROVE GatesSeen'
  BY <1>4 DEF GatesInv
<1>7. CASE answer = Plain \/ retried
  <2>1. met' \subseteq met \cup {"fault"}
    BY <1>1, <1>7 DEF Met
  <2> QED
    BY <1>1, <1>2, <1>6, <2>1 DEF GatesSeen
<1>8. CASE answer # Plain /\ ~retried
  <2>1. answer = setting.fault
    BY <1>8 DEF Answers
  <2>2. /\ run.stage = "detail" => met' = met \cup {"fault", "gate"}
        /\ run.stage # "detail" => met' \subseteq met \cup {"fault", "outage", "refusal"}
    BY <1>1, <1>8 DEF Met
  <2>3. ASSUME run.stage # "detail", ShownGate, ~Blind PROVE FALSE
    <3>1. \A why : Stopped(why).state = "failed"
      BY <1>2, <2>3, StoppedFails
    <3>2. VerdictOf(answer).what = "page" /\ next = Received(PageOf(answer))
      BY <1>5, <1>8, <3>1
    <3>3. /\ answer.status = 200
          /\ \/ Family \in LateLooking
             \/ answer.words \cap Gates = {}
             \/ Family = "cgi" /\ "expired" \in answer.words /\ "captcha" \notin answer.words
      BY <1>2, <3>2, PageNotGated
    <3>4. answer.words \cap Gates # {}
      BY <2>1, <2>3, <3>3 DEF ShownGate, Shows, Gates
    <3>5. ~(Family \in {"planetbids", "demandstar", "tyler"} /\ "captcha" \in answer.words)
      BY <2>1, <2>3, <3>3 DEF Blind, Shows
    <3>6. Family \in LateLooking
      BY <2>1, <2>3, <3>3, <3>4 DEF Blind, Shows
    <3>7. Received(PageOf(answer)).state = "failed"
      BY <1>1, <1>8, <2>3, <3>4, <3>5, <3>6, GatedListingFails
    <3> QED
      BY <3>2, <3>7
  <2>4. ASSUME run.stage = "detail", Family \notin Swallowing,
               IF Family \in KeepingRow THEN setting.fault.status # 200 ELSE ShownGate
        PROVE  FALSE
    <3>1. \A why : Stopped(why).state = "failed"
      BY <1>2, <2>4, StoppedFails
    <3>2. VerdictOf(answer).what = "page" /\ next = Received(PageOf(answer))
      BY <1>5, <1>8, <3>1
    <3>3. /\ answer.status = 200
          /\ \/ Family \in LateLooking
             \/ answer.words \cap Gates = {}
             \/ Family = "cgi" /\ "expired" \in answer.words /\ "captcha" \notin answer.words
      BY <1>2, <3>2, PageNotGated
    <3>4. Family \notin KeepingRow /\ answer.words \cap Gates # {}
      BY <2>1, <2>4, <3>3 DEF ShownGate, Shows, Gates
    <3>5. Family \in {"tyler", "demandstar_api"}
      BY <2>4, <3>3, <3>4 DEF LateLooking, Swallowing
    <3>6. Family # "tyler"
      <4> SUFFICES ASSUME Family = "tyler" PROVE FALSE
        OBVIOUS
      <4>1. "detail" \in StagesOf(Family)
        BY <1>1, <2>4, LateStage DEF LateLooking
      <4> QED
        BY <4>1, StagesKnown
    <3>7. Received(PageOf(answer)).state = "failed"
      BY <1>8, <2>4, <3>4, <3>5, <3>6, GatedPartFails
    <3> QED
      BY <3>2, <3>7
  <2>5. ShownGate /\ ~Blind => met' \cap {"outage", "refusal"} = {}
    BY <1>2, <2>2, <2>3 DEF GatesSeen
  <2>6. (IF Family \in KeepingRow THEN setting.fault.status # 200 ELSE ShownGate)
        => "gate" \notin met' \/ Family \in Swallowing
    BY <1>2, <2>2, <2>4 DEF GatesSeen
  <2> QED
    BY <1>1, <1>6, <2>5, <2>6 DEF GatesSeen
<1> QED
  BY <1>7, <1>8

LEMMA GatesNext == RunsInv /\ GatesInv /\ [Next]_vars => GatesInv'
<1> SUFFICES ASSUME RunsInv, GatesInv, [Next]_vars PROVE GatesInv'
  OBVIOUS
<1>1. setting' = setting /\ Family' = Family
  BY DEF Next, vars, Discover, HealthCheck, Answered, Answer, Refuse, Tick, Family
<1>2. (ShownGate' <=> ShownGate) /\ (Blind' <=> Blind)
  BY <1>1 DEF ShownGate, Blind, Shows
<1>3. GatesSeen /\ met' = met => GatesSeen'
  BY <1>1, <1>2 DEF GatesSeen
<1>4. ASSUME NEW query \in Queries, Discover(query) PROVE GatesInv'
  <2>1. met' = {}
    BY <1>4 DEF Discover
  <2>2. GatesSeen'
    BY <2>1 DEF GatesSeen
  <2> QED
    BY <2>2 DEF GatesInv
<1>5. CASE HealthCheck \/ Tick \/ UNCHANGED vars
  <2>1. run' = run /\ met' = met
    BY <1>5 DEF HealthCheck, Tick, vars
  <2> QED
    BY <1>3, <2>1 DEF GatesInv
<1>6. CASE Answered
  BY <1>6, GatesAnswer DEF Answered
<1>7. CASE Refuse
  <2>1. Active(run) /\ met' = met
    BY <1>7 DEF Refuse
  <2> QED
    BY <1>3, <2>1 DEF GatesInv, Active
<1> QED
  BY <1>4, <1>5, <1>6, <1>7 DEF Next

\* No run ends as if it had seen all there is when it met a captcha, a login
\* page or a refusal of the listing, or lost the portal, whatever the class, the
\* portal and the bounds; nor behind a detail page, but for the classes that
\* drop or keep a row whose detail page was of no use.
THEOREM GatesAreReported == Spec => []NoFalseEmpty
<1>1. Init => GatesInv
  BY DEF Init, GatesInv, Idle
<1>2. RunsInv /\ GatesInv /\ [Next]_vars => GatesInv'
  BY GatesNext
<1>3. GatesInv => NoFalseEmpty
  BY DEF GatesInv, NoFalseEmpty
<1> QED
  BY <1>1, <1>2, <1>3, RunsAreKept, PTL DEF Spec
================================================================================
