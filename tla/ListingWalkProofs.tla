----------------------- MODULE ListingWalkProofs -----------------------
(***************************************************************************)
(* Each way of walking a listing, for any rows, pages and bounds: what a   *)
(* run has found of the pages that it has read, and that it has found all  *)
(* when it takes a page for the last.                                      *)
(***************************************************************************)
EXTENDS ConnectorDiscoveryProofs

-----------------------------------------------------------------------------
(* What a listing shows, and what of it a run has.                          *)

Bad == {None} \cup Untitled
Shown(rows) == Ids(rows) \ Bad

At(pages, n) == IF n \in DOMAIN pages THEN pages[n] ELSE <<>>
Before(pages, n) == UNION {Shown(At(pages, i)) : i \in 1..n}
Upto(pages, n) == {At(pages, i) : i \in 1..n}

\* There is room for all the records there are.
Roomy(all, bound) == IsFiniteSet(all) /\ Cardinality(all) <= bound

LEMMA UsableIds ==
  ASSUME NEW rows, IsSequence(rows)
  PROVE  /\ IsSequence(UsableRows(rows)) /\ Ids(UsableRows(rows)) = Shown(rows)
         /\ IsSequence(Known(rows)) /\ Shown(Known(rows)) = Shown(rows)
         /\ \A row : Usable(row) <=> row.id \notin Bad
<1>1. IsSequence(UsableRows(rows)) /\ Ids(UsableRows(rows)) = Ids(rows) \ ({None} \cup Untitled)
  BY WithoutRows DEF UsableRows
<1>2. IsSequence(Known(rows)) /\ Ids(Known(rows)) = Ids(rows) \ {None}
  BY WithoutRows DEF Known
<1> QED
  BY <1>1, <1>2 DEF Shown, Bad, Usable

LEMMA BeforeNext ==
  ASSUME NEW pages, NEW n \in Nat \ {0}
  PROVE  /\ Before(pages, n) = Before(pages, n - 1) \cup Shown(At(pages, n))
         /\ Upto(pages, n) = Upto(pages, n - 1) \cup {At(pages, n)}
         /\ Before(pages, 0) = {}
         /\ \A rows \in Upto(pages, n) : Shown(rows) \subseteq Before(pages, n)
         /\ \A rows \in Upto(pages, n - 1) : Shown(rows) \subseteq Before(pages, n - 1)
<1>1. 1..n = (1..(n - 1)) \cup {n} /\ 1..0 = {}
  OBVIOUS
<1> QED
  BY <1>1 DEF Before, Upto

\* As many different records as there are, are all there are.
LEMMA CountCovers ==
  ASSUME NEW rows, IsSequence(rows), Distinct(rows), NEW all, NEW bound \in Nat, Roomy(all, bound),
         Ids(rows) \subseteq all, Len(rows) >= bound
  PROVE  all \subseteq Ids(rows)
<1>1. IsFiniteSet(all) /\ Cardinality(all) \in Nat /\ Cardinality(all) <= bound
  BY FS_CardinalityType DEF Roomy
<1>2. Cardinality(Ids(rows)) = Len(rows) /\ Len(rows) \in Nat
  BY DistinctCounted, SequenceLength
<1>3. Cardinality(Ids(rows)) <= Cardinality(all)
  BY <1>1, FS_Subset
<1>4. Cardinality(Ids(rows)) = Cardinality(all)
  BY <1>1, <1>2, <1>3
<1>5. Ids(rows) = all
  BY <1>1, <1>4, FS_Subset
<1> QED
  BY <1>5

-----------------------------------------------------------------------------
(* What the moves of a run leave alone.                                     *)

LEMMA MarksKept ==
  ASSUME NEW r, DOMAIN r = DOMAIN Idle
  PROVE  /\ \A row, status : /\ Yield(r, row, status).marks = r.marks
                             /\ Yield(r, row, status).ends = r.ends
         /\ \A stage : ToStage(r, stage).marks = r.marks /\ ToStage(r, stage).ends = r.ends
         /\ NextPage(r).marks = r.marks /\ NextPage(r).ends = r.ends
         /\ \A rows : Queueing(r, rows).marks = r.marks /\ Queueing(r, rows).ends = r.ends
BY Fields DEF Yield, ToStage, NextPage, Queueing

\* A row that is yielded is one more, and what fills a run is all.
OneTaken(q, r, row, status, all) ==
  /\ Ids(q.out) = Ids(r.out) \cup {row.id}
  /\ ~Active(q) => q.state = "done" /\ all \subseteq Ids(q.out)
  /\ Active(q) => /\ q = Yield(r, row, status)
                  /\ q.stage = r.stage /\ q.page = r.page /\ q.held = r.held
                  /\ q.queue = r.queue /\ q.marks = r.marks /\ q.ends = r.ends

LEMMA TakenIds ==
  ASSUME NEW limit, NEW most, NEW stages, NEW r, Loose(r, limit, most, stages), Active(r),
         Distinct(r.out), Len(r.out) < most, most \in Nat,
         NEW all, NEW bound \in Nat, Roomy(all, bound), Ids(r.out) \subseteq all,
         NEW row, row.id \in all, row.id \notin Ids(r.out), NEW status
  PROVE  OneTaken(Take(r, row, status, bound), r, row, status, all)
<1> DEFINE more == Yield(r, row, status)
           q == Take(r, row, status, bound)
<1>1. Len(r.out) \in Nat /\ DOMAIN r = DOMAIN Idle
  BY SequenceLength DEF Loose
<1>2. Len(r.out) + 1 <= most
  BY <1>1
<1>3. Loose(more, limit, most, stages) /\ more.state = r.state /\ more.stage = r.stage
  BY <1>1, <1>2, Yielded
<1>4. Ids(more.out) = Ids(r.out) \cup {row.id}
  BY <1>1, <1>2, Yielded
<1>5. Distinct(more.out)
  BY <1>1, <1>2, Yielded
<1>6. more.marks = r.marks /\ more.ends = r.ends
  BY <1>1, MarksKept
<1>7. more.page = r.page /\ more.held = r.held /\ more.queue = r.queue
  BY <1>1, <1>2, Yielded
<1>8. q = IF Full(more, bound) THEN Done(more) ELSE more
  BY DEF Take
<1> HIDE DEF more, q
<1>9. ASSUME Full(more, bound)
      PROVE  Ids(q.out) = Ids(r.out) \cup {row.id} /\ q.state = "done" /\ all \subseteq Ids(q.out)
  <2>1. q = Done(more)
    BY <1>8, <1>9
  <2>2. q.out = more.out /\ q.state = "done"
    BY <1>3, <2>1, DoneFields DEF Loose
  <2>3. IsSequence(more.out) /\ Len(more.out) >= bound
    BY <1>3, <1>9 DEF Loose, Full
  <2>4. all \subseteq Ids(more.out)
    BY <1>4, <1>5, <2>3, CountCovers
  <2> QED
    BY <1>4, <2>2, <2>4
<1>10. ASSUME ~Full(more, bound) PROVE q = more /\ Active(q)
  BY <1>3, <1>8, <1>10 DEF Active
<1> QED
  BY <1>3, <1>4, <1>6, <1>7, <1>9, <1>10 DEF q, more, Active, OneTaken

\* What waits in the queue of a run at its details.
Left(r) == IF r.stage = "detail" THEN Ids(r.queue) ELSE {}

\* From s to r, a run has read rows of these identifiers.
Gains(r, s, ids, all) ==
  /\ Ids(r.out) \subseteq all /\ Ids(r.out) \subseteq Ids(s.out) \cup ids
  /\ r.state = "done" => all \subseteq Ids(r.out)
  /\ Active(r) => /\ Ids(s.out) \cup (ids \ Bad) \subseteq Ids(r.out) \cup Left(r)
                  /\ Left(r) \subseteq all \cup Bad
                  /\ r.stage = "detail" => Head(r.queue).id \in all
                  /\ r.marks = s.marks /\ r.ends = s.ends

LEMMA TakenGains ==
  ASSUME NEW limit \in Nat, NEW most \in Nat, NEW stages, NEW r, Single(r, limit, most, stages),
         Active(r), NEW all, NEW bound \in Nat, Roomy(all, bound),
         NEW s, NEW ids, Gains(r, s, ids, all),
         NEW row, row.id \in all, row.id \notin Ids(r.out), NEW status
  PROVE  Gains(Take(r, row, status, bound), s, ids \cup {row.id}, all)
<1> DEFINE q == Take(r, row, status, bound)
<1>1. Loose(r, limit, most, stages) /\ Len(r.out) < most /\ Distinct(r.out)
  BY DEF Single, Sound
<1>2. Ids(r.out) \subseteq all
  BY DEF Gains
<1>3. OneTaken(q, r, row, status, all)
  BY <1>1, <1>2, TakenIds
<1> HIDE DEF q
<1>4. ~Active(q) => Gains(q, s, ids \cup {row.id}, all)
  BY <1>3 DEF Gains, OneTaken
<1>5. Active(q) => Gains(q, s, ids \cup {row.id}, all)
  BY <1>3 DEF Gains, Active, Left, OneTaken
<1> QED
  BY <1>4, <1>5 DEF q

-----------------------------------------------------------------------------
(* The rows of a page, read one by one.                                     *)

LEMMA WebProcureRowGains ==
  ASSUME NEW limit \in Nat, NEW most \in Nat, limit <= most, NEW stages, "detail" \notin stages,
         NEW r, Single(r, limit, most, stages), NEW all, Roomy(all, limit),
         NEW s, NEW ids, Gains(r, s, ids, all), NEW row, row.id \in all \cup Bad
  PROVE  Gains(WebProcureRow(r, row), s, ids \cup {row.id}, all)
<1> DEFINE q == WebProcureRow(r, row)
           status == WebProcureStatus(row.says)
<1>1. r.limit = limit /\ Loose(r, limit, most, stages) /\ (Active(r) => r.stage # "detail")
  BY DEF Single, Sound, Loose
<1>2. Usable(row) <=> row.id \notin Bad
  BY DEF Usable, Bad
<1>3. \/ q = r /\ (~Active(r) \/ row.id \in Ids(r.out) \cup Bad)
      \/ q = Failed(r, "malformed")
      \/ Active(r) /\ row.id \notin Ids(r.out) /\ row.id \notin Bad /\ q = Take(r, row, status, limit)
  BY <1>1, <1>2 DEF WebProcureRow, Take
<1> HIDE DEF q, status
<1>4. ASSUME q = r, ~Active(r) \/ row.id \in Ids(r.out) \cup Bad
      PROVE  Gains(q, s, ids \cup {row.id}, all)
  BY <1>4 DEF Gains
<1>5. Gains(Failed(r, "malformed"), s, ids \cup {row.id}, all)
  <2>1. Failed(r, "malformed").out = r.out /\ Failed(r, "malformed").state = "failed"
    BY <1>1, FailedFields DEF Loose
  <2> QED
    BY <2>1 DEF Gains, Active
<1>6. ASSUME Active(r), row.id \notin Ids(r.out), row.id \notin Bad, q = Take(r, row, status, limit)
      PROVE  Gains(q, s, ids \cup {row.id}, all)
  <2>1. row.id \in all /\ limit \in Nat /\ r.stage # "detail"
    BY <1>1, <1>6, LesserBound
  <2>2. Gains(Take(r, row, status, limit), s, ids \cup {row.id}, all)
    BY <1>6, <2>1, TakenGains
  <2> QED
    BY <1>6, <2>2
<1> QED
  BY <1>3, <1>4, <1>5, <1>6 DEF q

LEMMA WebProcureRowsGain ==
  ASSUME NEW limit \in Nat, NEW most \in Nat, limit <= most, NEW stages, "detail" \notin stages,
         NEW r, Single(r, limit, most, stages), Active(r), NEW all, Roomy(all, limit),
         Ids(r.out) \subseteq all,
         NEW rows, IsSequence(rows), Ids(rows) \subseteq all \cup Bad
  PROVE  Gains(FoldLeft(WebProcureRow, r, rows), r, Ids(rows), all)
<1> DEFINE n == Len(rows)
           total == FoldLeft(WebProcureRow, r, rows)
           Read(k) == {rows[i].id : i \in 1..k}
<1>1. n \in Nat /\ DOMAIN rows = 1..n /\ Ids(rows) = Read(n)
  BY SequenceLength DEF Ids
<1>2. total = WebProcure!Folded(r, rows)
  BY DEF WebProcure!Folded, FoldLeft, MapThenFoldSet, WebProcure!MapThenFoldSet, Max, WebProcure!Max
<1>3. /\ Read(0) = {}
      /\ \A k \in 1..n : Read(k) = Read(k - 1) \cup {rows[k].id} /\ rows[k].id \in all \cup Bad
  <2>1. 1..0 = {} /\ \A k \in 1..n : 1..k = (1..(k - 1)) \cup {k}
    OBVIOUS
  <2>2. \A k \in 1..n : rows[k].id \in Ids(rows)
    BY <1>1 DEF Ids
  <2> QED
    BY <2>1, <2>2
<1>4. Single(r, limit, most, stages) /\ Gains(r, r, Read(0), all)
  <2>1. r.state # "done" /\ r.stage # "detail" /\ Left(r) = {}
    BY DEF Active, Left, Single, Sound
  <2> QED
    BY <1>3, <2>1 DEF Gains
<1> HIDE DEF n, total, Read
<1>5. PICK h : WebProcure!Stepped(h, r, rows, n)
  BY <1>1, <1>2, WebProcure!FoldStepped
<1>6. /\ h[0] = r
      /\ \A i \in 1..n : h[i] = WebProcureRow(h[i - 1], rows[i])
      /\ WebProcure!Folded(r, rows) = h[n]
  BY <1>5 DEF WebProcure!Stepped
<1> DEFINE Kept(k) == Single(h[k], limit, most, stages) /\ Gains(h[k], r, Read(k), all)
           T == {k \in 0..n : Kept(k)}
<1>7. 0 \in T
  BY <1>1, <1>4, <1>6
<1>8. ASSUME NEW k \in 1..n, k - 1 \in T PROVE k \in T
  <2> DEFINE g == h[k - 1]
  <2>1. Single(g, limit, most, stages) /\ Gains(g, r, Read(k - 1), all) /\ h[k] = WebProcureRow(g, rows[k])
    BY <1>6, <1>8
  <2> HIDE DEF g
  <2>2. rows[k].id \in all \cup Bad /\ Read(k) = Read(k - 1) \cup {rows[k].id}
    BY <1>3
  <2>3. Single(WebProcureRow(g, rows[k]), limit, most, stages)
    BY <2>1, WebProcureRowWalks DEF Single, Walks
  <2>4. Gains(WebProcureRow(g, rows[k]), r, Read(k - 1) \cup {rows[k].id}, all)
    BY <2>1, <2>2, WebProcureRowGains
  <2>5. Kept(k)
    BY <2>1, <2>2, <2>3, <2>4
  <2> HIDE DEF Kept
  <2> QED
    BY <2>5
<1> HIDE DEF T
<1>9. n \in T
  BY <1>1, <1>7, <1>8, First!Induction
<1>10. total = h[n]
  BY <1>2, <1>6
<1> QED
  BY <1>1, <1>9, <1>10 DEF T, total

LEMMA OracleRowGains ==
  ASSUME NEW limit \in Nat, NEW most \in Nat, Lesser(limit, MaxResults) <= most, NEW stages, "detail" \notin stages,
         NEW r, Single(r, limit, most, stages), NEW all, Roomy(all, Lesser(limit, MaxResults)),
         NEW s, NEW ids, Gains(r, s, ids, all), NEW row, row.id \in all \cup Bad
  PROVE  Gains(OracleRow(r, row), s, ids \cup {row.id}, all)
<1> DEFINE q == OracleRow(r, row)
           status == OracleStatus(row.says)
<1>1. r.limit = limit /\ Loose(r, limit, most, stages) /\ (Active(r) => r.stage # "detail")
  BY DEF Single, Sound, Loose
<1>2. Usable(row) <=> row.id \notin Bad
  BY DEF Usable, Bad
<1>3. \/ q = r /\ (~Active(r) \/ row.id \in Ids(r.out) \cup Bad)
      \/ Active(r) /\ row.id \notin Ids(r.out) /\ row.id \notin Bad /\ q = Take(r, row, status, Lesser(limit, MaxResults))
  BY <1>1, <1>2 DEF OracleRow, Take, OracleWanted
<1> HIDE DEF q, status
<1>4. ASSUME q = r, ~Active(r) \/ row.id \in Ids(r.out) \cup Bad
      PROVE  Gains(q, s, ids \cup {row.id}, all)
  BY <1>4 DEF Gains
<1>5. Gains(Failed(r, "malformed"), s, ids \cup {row.id}, all)
  <2>1. Failed(r, "malformed").out = r.out /\ Failed(r, "malformed").state = "failed"
    BY <1>1, FailedFields DEF Loose
  <2> QED
    BY <2>1 DEF Gains, Active
<1>6. ASSUME Active(r), row.id \notin Ids(r.out), row.id \notin Bad, q = Take(r, row, status, Lesser(limit, MaxResults))
      PROVE  Gains(q, s, ids \cup {row.id}, all)
  <2>1. row.id \in all /\ Lesser(limit, MaxResults) \in Nat /\ r.stage # "detail"
    BY <1>1, <1>6, LesserBound
  <2>2. Gains(Take(r, row, status, Lesser(limit, MaxResults)), s, ids \cup {row.id}, all)
    BY <1>6, <2>1, TakenGains
  <2> QED
    BY <1>6, <2>2
<1> QED
  BY <1>3, <1>4, <1>5, <1>6 DEF q

LEMMA OracleRowsGain ==
  ASSUME NEW limit \in Nat, NEW most \in Nat, Lesser(limit, MaxResults) <= most, NEW stages, "detail" \notin stages,
         NEW r, Single(r, limit, most, stages), Active(r), NEW all, Roomy(all, Lesser(limit, MaxResults)),
         Ids(r.out) \subseteq all,
         NEW rows, IsSequence(rows), Ids(rows) \subseteq all \cup Bad
  PROVE  Gains(FoldLeft(OracleRow, r, rows), r, Ids(rows), all)
<1> DEFINE n == Len(rows)
           total == FoldLeft(OracleRow, r, rows)
           Read(k) == {rows[i].id : i \in 1..k}
<1>1. n \in Nat /\ DOMAIN rows = 1..n /\ Ids(rows) = Read(n)
  BY SequenceLength DEF Ids
<1>2. total = Oracle!Folded(r, rows)
  BY DEF Oracle!Folded, FoldLeft, MapThenFoldSet, Oracle!MapThenFoldSet, Max, Oracle!Max
<1>3. /\ Read(0) = {}
      /\ \A k \in 1..n : Read(k) = Read(k - 1) \cup {rows[k].id} /\ rows[k].id \in all \cup Bad
  <2>1. 1..0 = {} /\ \A k \in 1..n : 1..k = (1..(k - 1)) \cup {k}
    OBVIOUS
  <2>2. \A k \in 1..n : rows[k].id \in Ids(rows)
    BY <1>1 DEF Ids
  <2> QED
    BY <2>1, <2>2
<1>4. Single(r, limit, most, stages) /\ Gains(r, r, Read(0), all)
  <2>1. r.state # "done" /\ r.stage # "detail" /\ Left(r) = {}
    BY DEF Active, Left, Single, Sound
  <2> QED
    BY <1>3, <2>1 DEF Gains
<1> HIDE DEF n, total, Read
<1>5. PICK h : Oracle!Stepped(h, r, rows, n)
  BY <1>1, <1>2, Oracle!FoldStepped
<1>6. /\ h[0] = r
      /\ \A i \in 1..n : h[i] = OracleRow(h[i - 1], rows[i])
      /\ Oracle!Folded(r, rows) = h[n]
  BY <1>5 DEF Oracle!Stepped
<1> DEFINE Kept(k) == Single(h[k], limit, most, stages) /\ Gains(h[k], r, Read(k), all)
           T == {k \in 0..n : Kept(k)}
<1>7. 0 \in T
  BY <1>1, <1>4, <1>6
<1>8. ASSUME NEW k \in 1..n, k - 1 \in T PROVE k \in T
  <2> DEFINE g == h[k - 1]
  <2>1. Single(g, limit, most, stages) /\ Gains(g, r, Read(k - 1), all) /\ h[k] = OracleRow(g, rows[k])
    BY <1>6, <1>8
  <2> HIDE DEF g
  <2>2. rows[k].id \in all \cup Bad /\ Read(k) = Read(k - 1) \cup {rows[k].id}
    BY <1>3
  <2>3. Single(OracleRow(g, rows[k]), limit, most, stages)
    BY <2>1, OracleRowWalks DEF Single, Walks
  <2>4. Gains(OracleRow(g, rows[k]), r, Read(k - 1) \cup {rows[k].id}, all)
    BY <2>1, <2>2, OracleRowGains
  <2>5. Kept(k)
    BY <2>1, <2>2, <2>3, <2>4
  <2> HIDE DEF Kept
  <2> QED
    BY <2>5
<1> HIDE DEF T
<1>9. n \in T
  BY <1>1, <1>7, <1>8, First!Induction
<1>10. total = h[n]
  BY <1>2, <1>6
<1> QED
  BY <1>1, <1>9, <1>10 DEF T, total

LEMMA TylerRowGains ==
  ASSUME NEW limit \in Nat, NEW most \in Nat, Lesser(limit, MaxResults) <= most, NEW stages, "detail" \notin stages,
         NEW r, Single(r, limit, most, stages), NEW all, Roomy(all, Lesser(limit, MaxResults)),
         NEW s, NEW ids, Gains(r, s, ids, all), NEW row, row.id \in all \cup Bad
  PROVE  Gains(TylerRow(r, row), s, ids \cup {row.id}, all)
<1> DEFINE q == TylerRow(r, row)
           status == TylerStatus(row.says)
<1>1. r.limit = limit /\ Loose(r, limit, most, stages) /\ (Active(r) => r.stage # "detail")
  BY DEF Single, Sound, Loose
<1>2. Usable(row) <=> row.id \notin Bad
  BY DEF Usable, Bad
<1>3. \/ q = r /\ (~Active(r) \/ row.id \in Ids(r.out) \cup Bad)
      \/ q = Failed(r, "malformed")
      \/ Active(r) /\ row.id \notin Ids(r.out) /\ row.id \notin Bad /\ q = Take(r, row, status, Lesser(limit, MaxResults))
  BY <1>1, <1>2 DEF TylerRow, Take
<1> HIDE DEF q, status
<1>4. ASSUME q = r, ~Active(r) \/ row.id \in Ids(r.out) \cup Bad
      PROVE  Gains(q, s, ids \cup {row.id}, all)
  BY <1>4 DEF Gains
<1>5. Gains(Failed(r, "malformed"), s, ids \cup {row.id}, all)
  <2>1. Failed(r, "malformed").out = r.out /\ Failed(r, "malformed").state = "failed"
    BY <1>1, FailedFields DEF Loose
  <2> QED
    BY <2>1 DEF Gains, Active
<1>6. ASSUME Active(r), row.id \notin Ids(r.out), row.id \notin Bad, q = Take(r, row, status, Lesser(limit, MaxResults))
      PROVE  Gains(q, s, ids \cup {row.id}, all)
  <2>1. row.id \in all /\ Lesser(limit, MaxResults) \in Nat /\ r.stage # "detail"
    BY <1>1, <1>6, LesserBound
  <2>2. Gains(Take(r, row, status, Lesser(limit, MaxResults)), s, ids \cup {row.id}, all)
    BY <1>6, <2>1, TakenGains
  <2> QED
    BY <1>6, <2>2
<1> QED
  BY <1>3, <1>4, <1>5, <1>6 DEF q

LEMMA TylerRowsGain ==
  ASSUME NEW limit \in Nat, NEW most \in Nat, Lesser(limit, MaxResults) <= most, NEW stages, "detail" \notin stages,
         NEW r, Single(r, limit, most, stages), Active(r), NEW all, Roomy(all, Lesser(limit, MaxResults)),
         Ids(r.out) \subseteq all,
         NEW rows, IsSequence(rows), Ids(rows) \subseteq all \cup Bad
  PROVE  Gains(FoldLeft(TylerRow, r, rows), r, Ids(rows), all)
<1> DEFINE n == Len(rows)
           total == FoldLeft(TylerRow, r, rows)
           Read(k) == {rows[i].id : i \in 1..k}
<1>1. n \in Nat /\ DOMAIN rows = 1..n /\ Ids(rows) = Read(n)
  BY SequenceLength DEF Ids
<1>2. total = Tyler!Folded(r, rows)
  BY DEF Tyler!Folded, FoldLeft, MapThenFoldSet, Tyler!MapThenFoldSet, Max, Tyler!Max
<1>3. /\ Read(0) = {}
      /\ \A k \in 1..n : Read(k) = Read(k - 1) \cup {rows[k].id} /\ rows[k].id \in all \cup Bad
  <2>1. 1..0 = {} /\ \A k \in 1..n : 1..k = (1..(k - 1)) \cup {k}
    OBVIOUS
  <2>2. \A k \in 1..n : rows[k].id \in Ids(rows)
    BY <1>1 DEF Ids
  <2> QED
    BY <2>1, <2>2
<1>4. Single(r, limit, most, stages) /\ Gains(r, r, Read(0), all)
  <2>1. r.state # "done" /\ r.stage # "detail" /\ Left(r) = {}
    BY DEF Active, Left, Single, Sound
  <2> QED
    BY <1>3, <2>1 DEF Gains
<1> HIDE DEF n, total, Read
<1>5. PICK h : Tyler!Stepped(h, r, rows, n)
  BY <1>1, <1>2, Tyler!FoldStepped
<1>6. /\ h[0] = r
      /\ \A i \in 1..n : h[i] = TylerRow(h[i - 1], rows[i])
      /\ Tyler!Folded(r, rows) = h[n]
  BY <1>5 DEF Tyler!Stepped
<1> DEFINE Kept(k) == Single(h[k], limit, most, stages) /\ Gains(h[k], r, Read(k), all)
           T == {k \in 0..n : Kept(k)}
<1>7. 0 \in T
  BY <1>1, <1>4, <1>6
<1>8. ASSUME NEW k \in 1..n, k - 1 \in T PROVE k \in T
  <2> DEFINE g == h[k - 1]
  <2>1. Single(g, limit, most, stages) /\ Gains(g, r, Read(k - 1), all) /\ h[k] = TylerRow(g, rows[k])
    BY <1>6, <1>8
  <2> HIDE DEF g
  <2>2. rows[k].id \in all \cup Bad /\ Read(k) = Read(k - 1) \cup {rows[k].id}
    BY <1>3
  <2>3. Single(TylerRow(g, rows[k]), limit, most, stages)
    BY <2>1, TylerRowWalks DEF Single, Walks
  <2>4. Gains(TylerRow(g, rows[k]), r, Read(k - 1) \cup {rows[k].id}, all)
    BY <2>1, <2>2, TylerRowGains
  <2>5. Kept(k)
    BY <2>1, <2>2, <2>3, <2>4
  <2> HIDE DEF Kept
  <2> QED
    BY <2>5
<1> HIDE DEF T
<1>9. n \in T
  BY <1>1, <1>7, <1>8, First!Induction
<1>10. total = h[n]
  BY <1>2, <1>6
<1> QED
  BY <1>1, <1>9, <1>10 DEF T, total

\* A row that misses its description waits for it, with all that follow it.
LEMMA YieldRowGains ==
  ASSUME NEW limit \in Nat, NEW most \in Nat, Lesser(limit, MaxResults) <= most,
         NEW stages, "detail" \in stages,
         NEW r, Single(r, limit, most, stages), NEW all, Roomy(all, Lesser(limit, MaxResults)),
         NEW s, NEW ids, Gains(r, s, ids, all), NEW shown, shown[1].id \in all \cup Bad
  PROVE  Gains(YieldRow(r, shown), s, ids \cup {shown[1].id}, all)
<1> DEFINE q == YieldRow(r, shown)
           row == shown[1]
           status == shown[2]
           more == Append(r.queue, row)
           one == <<row>>
           bound == Lesser(limit, MaxResults)
<1>1. r.limit = limit /\ Loose(r, limit, most, stages) /\ DOMAIN r = DOMAIN Idle
  BY DEF Single, Sound, Loose
<1>2. Usable(row) <=> row.id \notin Bad
  BY DEF Usable, Bad
<1>3. \/ q = r /\ (~Active(r) \/ (r.stage # "detail" /\ row.id \in Ids(r.out) \cup Bad))
      \/ Active(r) /\ r.stage = "detail" /\ q = Queueing(r, more)
      \/ Active(r) /\ r.stage # "detail" /\ row.id \notin Bad /\ q = Queueing(ToStage(r, "detail"), one)
      \/ Active(r) /\ row.id \notin Ids(r.out) \cup Bad /\ q = Take(r, row, status, bound)
  <2>1. /\ ~Active(r) => q = r
        /\ Active(r) /\ r.stage = "detail" => q = [r EXCEPT !.queue = more]
        /\ Active(r) /\ r.stage # "detail" =>
             \/ row.id \in Bad /\ q = r
             \/ row.id \notin Bad /\ q = [ToStage(r, "detail") EXCEPT !.queue = one]
             \/ row.id \notin Bad /\ q = YieldNew(r, row, status)
    <3>1. q = IF ~Active(r) THEN r ELSE IF r.stage = "detail" THEN [r EXCEPT !.queue = Append(r.queue, shown[1])]
              ELSE IF ~Usable(shown[1]) THEN r
              ELSE IF shown[1].id \in Brief THEN [ToStage(r, "detail") EXCEPT !.queue = <<shown[1]>>]
              ELSE YieldNew(r, shown[1], shown[2])
      BY DEF YieldRow
    <3> HIDE DEF q
    <3> QED
      BY <1>2, <3>1
  <2>2. YieldNew(r, row, status) = IF row.id \in Ids(r.out) THEN r ELSE Take(r, row, status, bound)
    BY <1>1 DEF YieldNew, Take
  <2>3. /\ [r EXCEPT !.queue = more] = Queueing(r, more)
        /\ [ToStage(r, "detail") EXCEPT !.queue = one] = Queueing(ToStage(r, "detail"), one)
    BY DEF Queueing
  <2> HIDE DEF q, more, one, row, status, bound
  <2>4. CASE ~Active(r)
    BY <2>1, <2>4
  <2>5. CASE Active(r) /\ r.stage = "detail"
    BY <2>1, <2>3, <2>5
  <2>6. CASE Active(r) /\ r.stage # "detail"
    BY <2>1, <2>2, <2>3, <2>6
  <2> QED
    BY <2>4, <2>5, <2>6
<1> HIDE DEF q, status
<1>4. ASSUME q = r, ~Active(r) \/ (r.stage # "detail" /\ row.id \in Ids(r.out) \cup Bad)
      PROVE  Gains(q, s, ids \cup {row.id}, all)
  BY <1>4 DEF Gains
<1>5. ASSUME Active(r), r.stage = "detail", q = Queueing(r, more)
      PROVE  Gains(q, s, ids \cup {row.id}, all)
  <2>1. IsSequence(r.queue) /\ r.queue # <<>>
    BY <1>1, <1>5 DEF Single, Sound, Loose
  <2>2. Ids(more) = Ids(r.queue) \cup {row.id}
    BY <2>1, Appended
  <2>3. Head(more) = Head(r.queue)
    <3>1. r.queue \in Seq(ToSet(r.queue) \cup {row})
      BY <2>1 DEF IsSequence
    <3> QED
      BY <2>1, <3>1
  <2> HIDE DEF more
  <2>4. q.out = r.out /\ q.state = r.state /\ q.stage = r.stage /\ q.queue = more
    BY <1>1, <1>5, QueueFields
  <2>5. q.marks = r.marks /\ q.ends = r.ends
    BY <1>1, <1>5, MarksKept
  <2> QED
    BY <1>5, <2>2, <2>3, <2>4, <2>5 DEF Gains, Active, Left
<1>6. ASSUME Active(r), r.stage # "detail", row.id \notin Bad, q = Queueing(ToStage(r, "detail"), one)
      PROVE  Gains(q, s, ids \cup {row.id}, all)
  <2>1. Ids(one) = {row.id} /\ Head(one).id = row.id
    BY DEF Ids
  <2> DEFINE t == ToStage(r, "detail")
  <2> HIDE DEF one
  <2>2. DOMAIN t = DOMAIN Idle /\ t.out = r.out /\ t.state = r.state /\ t.stage = "detail"
    BY <1>1, Fields DEF ToStage
  <2>3. t.marks = r.marks /\ t.ends = r.ends
    BY <1>1, MarksKept
  <2> HIDE DEF t
  <2>4. q = Queueing(t, one)
    BY <1>6 DEF t
  <2>5. q.out = r.out /\ q.state = r.state /\ q.stage = "detail" /\ q.queue = one
    BY <2>2, <2>4, QueueFields
  <2>6. q.marks = r.marks /\ q.ends = r.ends
    BY <2>2, <2>3, <2>4, MarksKept
  <2>7. row.id \in all
    BY <1>6
  <2> QED
    BY <1>6, <2>1, <2>5, <2>6, <2>7 DEF Gains, Active, Left
<1>7. ASSUME Active(r), row.id \notin Ids(r.out) \cup Bad, q = Take(r, row, status, bound)
      PROVE  Gains(q, s, ids \cup {row.id}, all)
  <2>1. row.id \in all /\ row.id \notin Ids(r.out) /\ bound \in Nat
    BY <1>7, LesserBound
  <2>2. Roomy(all, bound)
    OBVIOUS
  <2> HIDE DEF row, bound
  <2>3. Gains(Take(r, row, status, bound), s, ids \cup {row.id}, all)
    BY <1>7, <2>1, <2>2, TakenGains
  <2> QED
    BY <1>7, <2>3
<1> QED
  BY <1>3, <1>4, <1>5, <1>6, <1>7 DEF q

LEMMA HeadAndTail ==
  ASSUME NEW s, IsSequence(s), s # <<>>
  PROVE  Ids(s) = {Head(s).id} \cup Ids(Tail(s)) /\ Len(Tail(s)) = Len(s) - 1
<1> DEFINE t == Tail(s)
<1>1. s \in Seq(ToSet(s)) /\ Len(s) \in Nat \ {0} /\ DOMAIN s = 1..Len(s)
  BY DEF IsSequence
<1>2. /\ DOMAIN t = 1..(Len(s) - 1) /\ Len(t) = Len(s) - 1
      /\ \A i \in 1..(Len(s) - 1) : t[i] = s[i + 1]
      /\ Head(s) = s[1]
  BY <1>1
<1> HIDE DEF t
<1>3. \A i \in DOMAIN s : i = 1 \/ (i - 1 \in DOMAIN t /\ t[i - 1] = s[i])
  BY <1>1, <1>2
<1>4. \A i \in DOMAIN s : s[i].id \in {Head(s).id} \cup Ids(t)
  BY <1>2, <1>3 DEF Ids
<1>5. Head(s).id \in Ids(s) /\ Ids(t) \subseteq Ids(s)
  BY Tailed DEF t
<1>6. Ids(s) \subseteq {Head(s).id} \cup Ids(t)
  BY <1>4 DEF Ids
<1> QED
  BY <1>2, <1>5, <1>6 DEF t

LEMMA YieldRowsGain ==
  ASSUME NEW limit \in Nat, NEW most \in Nat, Lesser(limit, MaxResults) <= most, NEW stages, "detail" \in stages,
         NEW r, Single(r, limit, most, stages), Active(r), r.stage # "detail",
         NEW all, Roomy(all, Lesser(limit, MaxResults)), Ids(r.out) \subseteq all,
         NEW rows, IsSequence(rows),
         NEW ids, ids = {rows[i][1].id : i \in DOMAIN rows}, ids \subseteq all \cup Bad
  PROVE  Gains(FoldLeft(YieldRow, r, rows), r, ids, all)
<1> DEFINE n == Len(rows)
           total == FoldLeft(YieldRow, r, rows)
           Read(k) == {rows[i][1].id : i \in 1..k}
<1>1. n \in Nat /\ DOMAIN rows = 1..n /\ ids = Read(n)
  BY SequenceLength
<1>2. total = Yielding!Folded(r, rows)
  BY DEF Yielding!Folded, FoldLeft, MapThenFoldSet, Yielding!MapThenFoldSet, Max, Yielding!Max
<1>3. /\ Read(0) = {}
      /\ \A k \in 1..n : Read(k) = Read(k - 1) \cup {rows[k][1].id} /\ rows[k][1].id \in all \cup Bad
  <2>1. 1..0 = {} /\ \A k \in 1..n : 1..k = (1..(k - 1)) \cup {k}
    OBVIOUS
  <2>2. \A k \in 1..n : rows[k][1].id \in ids
    BY <1>1
  <2> QED
    BY <2>1, <2>2
<1>4. Single(r, limit, most, stages) /\ Gains(r, r, Read(0), all)
  <2>1. r.state # "done" /\ Left(r) = {}
    BY DEF Active, Left
  <2> QED
    BY <1>3, <2>1 DEF Gains
<1> HIDE DEF n, total, Read
<1>5. PICK h : Yielding!Stepped(h, r, rows, n)
  BY <1>1, <1>2, Yielding!FoldStepped
<1>6. /\ h[0] = r
      /\ \A i \in 1..n : h[i] = YieldRow(h[i - 1], rows[i])
      /\ Yielding!Folded(r, rows) = h[n]
  BY <1>5 DEF Yielding!Stepped
<1> DEFINE Kept(k) == Single(h[k], limit, most, stages) /\ Gains(h[k], r, Read(k), all)
           T == {k \in 0..n : Kept(k)}
<1>7. 0 \in T
  BY <1>1, <1>4, <1>6
<1>8. ASSUME NEW k \in 1..n, k - 1 \in T PROVE k \in T
  <2> DEFINE g == h[k - 1]
  <2>1. Single(g, limit, most, stages) /\ Gains(g, r, Read(k - 1), all) /\ h[k] = YieldRow(g, rows[k])
    BY <1>6, <1>8
  <2> HIDE DEF g
  <2>2. rows[k][1].id \in all \cup Bad /\ Read(k) = Read(k - 1) \cup {rows[k][1].id}
    BY <1>3
  <2>3. Single(YieldRow(g, rows[k]), limit, most, stages)
    BY <2>1, YieldRowRemains DEF Remains
  <2>4. Gains(YieldRow(g, rows[k]), r, Read(k - 1) \cup {rows[k][1].id}, all)
    BY <2>1, <2>2, YieldRowGains
  <2>5. Kept(k)
    BY <2>1, <2>2, <2>3, <2>4
  <2> HIDE DEF Kept
  <2> QED
    BY <2>5
<1> HIDE DEF T
<1>9. n \in T
  BY <1>1, <1>7, <1>8, First!Induction
<1>10. total = h[n]
  BY <1>2, <1>6
<1> QED
  BY <1>1, <1>9, <1>10 DEF T, total

-----------------------------------------------------------------------------
(* Runs that yield page by page.                                            *)

\* The n-th page of the listing is in hand, and says where the listing ends.
Reading(page, pages, n, all) ==
  /\ IsSequence(page.rows) /\ Ids(page.rows) \subseteq all \cup Bad
  /\ page.rows = At(pages, n)
  /\ ~page.more \/ n >= MaxPages \/ Len(page.rows) < PageSize => all \subseteq Before(pages, n)
  /\ n > MaxPages \/ page.rows = <<>> \/ page.rows \in Upto(pages, n - 1)
     => all \subseteq Before(pages, n - 1)
  /\ page.words = {} /\ ~page.garbled

\* What a run that yields page by page has of the pages it read.
Streams(r, pages, all) ==
  /\ Ids(r.out) \subseteq all
  /\ r.state = "done" => all \subseteq Ids(r.out)
  /\ Active(r) /\ r.stage # "detail" =>
       r.marks \subseteq Upto(pages, r.page - 1) /\ Before(pages, r.page - 1) \subseteq Ids(r.out)
  /\ Active(r) /\ r.stage = "detail" =>
       /\ r.marks \subseteq Upto(pages, r.page)
       /\ Before(pages, r.page) \subseteq Ids(r.out) \cup Ids(r.queue)
       /\ Ids(r.queue) \subseteq all \cup Bad
       /\ r.ends => all \subseteq Before(pages, r.page)

LEMMA Turned ==
  ASSUME NEW r, DOMAIN r = DOMAIN Idle, r.page \in Nat
  PROVE  /\ NextPage(r).page = r.page + 1 /\ NextPage(r).state = r.state /\ NextPage(r).stage = r.stage
         /\ NextPage(r).out = r.out /\ NextPage(r).queue = r.queue /\ NextPage(r).held = r.held
         /\ NextPage(r).marks = r.marks /\ NextPage(r).ends = r.ends
BY Fields DEF NextPage

LEMMA Moved ==
  ASSUME NEW r, DOMAIN r = DOMAIN Idle, NEW stage
  PROVE  /\ DOMAIN ToStage(r, stage) = DOMAIN Idle
         /\ ToStage(r, stage).stage = stage /\ ToStage(r, stage).state = r.state
         /\ ToStage(r, stage).page = r.page /\ ToStage(r, stage).limit = r.limit
         /\ ToStage(r, stage).wanted = r.wanted /\ ToStage(r, stage).details = r.details
         /\ ToStage(r, stage).out = r.out /\ ToStage(r, stage).queue = r.queue
         /\ ToStage(r, stage).held = r.held
         /\ ToStage(r, stage).marks = r.marks /\ ToStage(r, stage).ends = r.ends
BY Fields DEF ToStage

LEMMA StreamsEnd ==
  ASSUME NEW r, DOMAIN r = DOMAIN Idle, NEW pages, NEW all, Ids(r.out) \subseteq all
  PROVE  /\ all \subseteq Ids(r.out) => Streams(Done(r), pages, all)
         /\ \A why : Streams(Failed(r, why), pages, all)
<1>1. Done(r).out = r.out /\ Done(r).state = "done"
  BY DoneFields
<1>2. \A why : Failed(r, why).out = r.out /\ Failed(r, why).state = "failed"
  BY FailedFields
<1> QED
  BY <1>1, <1>2 DEF Streams, Active

\* After rows that complete the n-th page.
LEMMA StreamsOn ==
  ASSUME NEW pages, NEW all, NEW n \in Nat \ {0}, NEW s, NEW ids, NEW q, DOMAIN q = DOMAIN Idle,
         q.page = n, Gains(q, s, ids, all), s.marks \subseteq Upto(pages, n),
         Before(pages, n) \subseteq Ids(s.out) \cup (ids \ Bad)
  PROVE  /\ ~Active(q) => Streams(q, pages, all)
         /\ Active(q) /\ q.stage # "detail" =>
              /\ Streams(NextPage(q), pages, all) /\ Streams(NextPage(ToStage(q, "page")), pages, all)
              /\ all \subseteq Before(pages, n) => Streams(Done(q), pages, all)
         /\ Active(q) /\ q.stage = "detail" /\ (q.ends => all \subseteq Before(pages, n))
            => Streams(q, pages, all)
<1>1. ASSUME ~Active(q) PROVE Streams(q, pages, all)
  BY <1>1 DEF Gains, Streams
<1>2. ASSUME Active(q), q.stage # "detail"
      PROVE  /\ Streams(NextPage(q), pages, all) /\ Streams(NextPage(ToStage(q, "page")), pages, all)
             /\ all \subseteq Before(pages, n) => Streams(Done(q), pages, all)
  <2>1. q.marks \subseteq Upto(pages, n) /\ Before(pages, n) \subseteq Ids(q.out) /\ Ids(q.out) \subseteq all
    BY <1>2 DEF Gains, Left
  <2>2. ASSUME NEW p, DOMAIN p = DOMAIN Idle, p.page = n, p.out = q.out, p.marks = q.marks,
                  p.state = q.state, p.stage # "detail"
        PROVE  Streams(NextPage(p), pages, all)
    <3>1. /\ NextPage(p).page = n + 1 /\ NextPage(p).state = p.state /\ NextPage(p).stage = p.stage
          /\ NextPage(p).out = p.out /\ NextPage(p).marks = p.marks
      BY <2>2, Turned
    <3>2. NextPage(p).page - 1 = n
      BY <3>1
    <3> QED
      BY <1>2, <2>1, <2>2, <3>1, <3>2 DEF Streams, Active
  <2>3. Streams(NextPage(q), pages, all)
    BY <1>2, <2>2
  <2>4. Streams(NextPage(ToStage(q, "page")), pages, all)
    <3> DEFINE p == ToStage(q, "page")
    <3>1. DOMAIN p = DOMAIN Idle /\ p.page = n /\ p.out = q.out /\ p.marks = q.marks /\ p.state = q.state
          /\ p.stage # "detail"
      BY Moved
    <3> HIDE DEF p
    <3>2. Streams(NextPage(p), pages, all)
      BY <2>2, <3>1
    <3> QED
      BY <3>2 DEF p
  <2>5. all \subseteq Before(pages, n) => Streams(Done(q), pages, all)
    BY <2>1, StreamsEnd
  <2> QED
    BY <2>3, <2>4, <2>5
<1>3. ASSUME Active(q), q.stage = "detail", q.ends => all \subseteq Before(pages, n)
      PROVE  Streams(q, pages, all)
  BY <1>3 DEF Gains, Streams, Left, Active
<1> QED
  BY <1>1, <1>2, <1>3

\* What reading the page in hand adds to the pages before it.
LEMMA ReadOn ==
  ASSUME NEW page, NEW pages, NEW all, NEW n \in Nat \ {0}, Reading(page, pages, n, all)
  PROVE  /\ Before(pages, n) = Before(pages, n - 1) \cup (Ids(page.rows) \ Bad)
         /\ Upto(pages, n) = Upto(pages, n - 1) \cup {page.rows}
BY BeforeNext DEF Reading, Shown

LEMMA WebProcurePageStreams ==
  ASSUME NEW limit \in Nat, NEW most \in Nat, limit <= most, NEW stages, "detail" \notin stages,
         NEW r, Single(r, limit, most, stages), Active(r), NEW all, Roomy(all, limit),
         NEW pages, Streams(r, pages, all), NEW page, Reading(page, pages, r.page, all)
  PROVE  Streams(WebProcurePage(r, page), pages, all)
<1> DEFINE next == FoldLeft(WebProcureRow, r, page.rows)
           n == r.page
<1>1. n \in Nat \ {0} /\ r.stage # "detail" /\ MaxPages \in Nat
  BY Numbers DEF Single, Sound, Loose
<1>2. IsSequence(page.rows) /\ Ids(page.rows) \subseteq all \cup Bad
  BY DEF Reading
<1>3. /\ r.marks \subseteq Upto(pages, n - 1) /\ Before(pages, n - 1) \subseteq Ids(r.out)
      /\ Ids(r.out) \subseteq all
  BY <1>1 DEF Streams
<1>4. Gains(next, r, Ids(page.rows), all)
  BY <1>2, <1>3, WebProcureRowsGain
<1>5. Walks(next, r, limit, most, stages)
  BY <1>2, WebProcureRowsWalk DEF Single
<1>6. DOMAIN next = DOMAIN Idle /\ next.page = n /\ next.stage # "detail"
  BY <1>1, <1>5 DEF Walks, Sound, Loose
<1>7. /\ Before(pages, n) \subseteq Ids(r.out) \cup (Ids(page.rows) \ Bad)
      /\ r.marks \subseteq Upto(pages, n)
  BY <1>1, <1>3, ReadOn
<1>8. \/ WebProcurePage(r, page) = next /\ ~Active(next)
      \/ /\ WebProcurePage(r, page) = Done(next) /\ Active(next)
         /\ Len(page.rows) < PageSize \/ n >= MaxPages
      \/ WebProcurePage(r, page) = NextPage(next) /\ Active(next)
  BY DEF WebProcurePage, LastPage, Reading
<1>9. Len(page.rows) < PageSize \/ n >= MaxPages => all \subseteq Before(pages, n)
  BY DEF Reading
<1> HIDE DEF next, n
<1> QED
  BY <1>1, <1>4, <1>6, <1>7, <1>8, <1>9, StreamsOn

LEMMA MarkedFields ==
  ASSUME NEW r, DOMAIN r = DOMAIN Idle, NEW page
  PROVE  /\ DOMAIN Marked(r, page) = DOMAIN Idle /\ Marked(r, page).marks = r.marks \cup {page.rows}
         /\ Marked(r, page).out = r.out /\ Marked(r, page).page = r.page
         /\ Marked(r, page).state = r.state /\ Marked(r, page).stage = r.stage
         /\ Marked(r, page).limit = r.limit
BY Fields DEF Marked

LEMMA TylerPageStreams ==
  ASSUME NEW limit \in Nat, NEW most \in Nat, Lesser(limit, MaxResults) <= most,
         NEW stages, "detail" \notin stages,
         NEW r, Single(r, limit, most, stages), Active(r), NEW all, Roomy(all, Lesser(limit, MaxResults)),
         NEW pages, Streams(r, pages, all), NEW page, Reading(page, pages, r.page, all)
  PROVE  Streams(TylerPage(r, page), pages, all)
<1> DEFINE s == Marked(r, page)
           next == FoldLeft(TylerRow, s, page.rows)
           n == r.page
<1>1. n \in Nat \ {0} /\ r.stage # "detail" /\ MaxPages \in Nat /\ DOMAIN r = DOMAIN Idle
  BY Numbers DEF Single, Sound, Loose
<1>2. IsSequence(page.rows) /\ Ids(page.rows) \subseteq all \cup Bad
  BY DEF Reading
<1>3. /\ r.marks \subseteq Upto(pages, n - 1) /\ Before(pages, n - 1) \subseteq Ids(r.out)
      /\ Ids(r.out) \subseteq all
  BY <1>1 DEF Streams
<1>4. Single(s, limit, most, stages)
  BY MarkedAlike
<1>5. /\ s.marks = r.marks \cup {page.rows} /\ s.out = r.out /\ s.page = n /\ s.stage = r.stage
      /\ s.state = r.state
  BY <1>1, MarkedFields
<1>6. \/ TylerPage(r, page) = Failed(r, "refused")
      \/ TylerPage(r, page) = Done(r) /\ (n > MaxPages \/ page.rows \in r.marks)
      \/ TylerPage(r, page) = next /\ ~Active(next)
      \/ TylerPage(r, page) = Done(next) /\ Active(next) /\ ~page.more
      \/ TylerPage(r, page) = NextPage(ToStage(next, "page")) /\ Active(next)
  BY DEF TylerPage, Marked
<1> HIDE DEF s
<1>7. Gains(next, s, Ids(page.rows), all)
  <2>1. Active(s) /\ Ids(s.out) \subseteq all
    BY <1>3, <1>5 DEF Active
  <2> QED
    BY <1>2, <1>4, <2>1, TylerRowsGain
<1>8. Walks(next, s, limit, most, stages)
  BY <1>2, <1>4, TylerRowsWalk DEF Single
<1>9. DOMAIN next = DOMAIN Idle /\ next.page = n /\ next.stage # "detail"
  BY <1>1, <1>5, <1>8 DEF Walks, Sound, Loose
<1>10. /\ Before(pages, n) \subseteq Ids(s.out) \cup (Ids(page.rows) \ Bad)
       /\ s.marks \subseteq Upto(pages, n)
  BY <1>1, <1>3, <1>5, ReadOn
<1>11. /\ ~page.more => all \subseteq Before(pages, n)
       /\ n > MaxPages \/ page.rows \in Upto(pages, n - 1) => all \subseteq Before(pages, n - 1)
  BY DEF Reading
<1> HIDE DEF next, n
<1>12. Streams(Failed(r, "refused"), pages, all)
  BY <1>1, <1>3, StreamsEnd
<1>13. n > MaxPages \/ page.rows \in r.marks => Streams(Done(r), pages, all)
  BY <1>1, <1>3, <1>11, StreamsEnd
<1> QED
  BY <1>1, <1>6, <1>7, <1>9, <1>10, <1>11, <1>12, <1>13, StreamsOn

\* The row whose description is asked for is a record.
Headed(r, all) == Active(r) /\ r.stage = "detail" => Head(r.queue).id \in all

LEMMA YieldRestStreams ==
  ASSUME NEW limit \in Nat, NEW most \in Nat, Lesser(limit, MaxResults) <= most,
         NEW stages, {"page", "detail"} \subseteq stages,
         NEW r, Single(r, limit, most, stages), Active(r), NEW all, Roomy(all, Lesser(limit, MaxResults)),
         NEW pages, NEW rows, IsSequence(rows), Ids(rows) \subseteq all \cup Bad, NEW status,
         Ids(r.out) \subseteq all, r.marks \subseteq Upto(pages, r.page),
         Before(pages, r.page) \subseteq Ids(r.out) \cup Ids(rows),
         r.ends \/ r.page >= MaxPages => all \subseteq Before(pages, r.page)
  PROVE  Streams(YieldRest(r, rows, status), pages, all) /\ Headed(YieldRest(r, rows, status), all)
<1> DEFINE t == ToStage(r, "page")
           base == Queueing(t, <<>>)
           shown == [i \in DOMAIN rows |-> <<rows[i], status[rows[i]]>>]
           next == FoldLeft(YieldRow, base, shown)
           n == r.page
<1>1. n \in Nat \ {0} /\ DOMAIN r = DOMAIN Idle
  BY DEF Single, Sound, Loose
<1>2. IsSequence(shown) /\ {shown[i][1].id : i \in DOMAIN shown} = Ids(rows)
  <2>1. Len(rows) \in Nat /\ DOMAIN rows = 1..Len(rows)
    BY SequenceLength
  <2>2. shown = [i \in 1..Len(rows) |-> shown[i]]
    BY <2>1
  <2>3. \A i \in DOMAIN rows : shown[i][1] = rows[i]
    OBVIOUS
  <2>4. DOMAIN shown = DOMAIN rows
    OBVIOUS
  <2> HIDE DEF shown
  <2> QED
    BY <2>1, <2>2, <2>3, <2>4, FunctionSequence DEF Ids
<1>3. /\ DOMAIN t = DOMAIN Idle /\ t.stage = "page" /\ t.state = r.state /\ t.page = n
      /\ t.out = r.out /\ t.marks = r.marks /\ t.ends = r.ends
  BY <1>1, Moved
<1>4. Single(t, limit, most, stages)
  BY SingleStaged
<1>5. \/ YieldRest(r, rows, status) = next /\ (~Active(next) \/ next.stage = "detail")
      \/ /\ YieldRest(r, rows, status) = Done(next) /\ Active(next) /\ next.stage # "detail"
         /\ r.ends \/ n >= MaxPages
      \/ YieldRest(r, rows, status) = NextPage(next) /\ Active(next) /\ next.stage # "detail"
  BY DEF YieldRest, Queueing, LastPage
<1> HIDE DEF t, shown
<1>6. Remains(base, t, limit, most, stages)
  BY <1>3, <1>4, EmptySequence, Requeued
<1>7. /\ base.stage = "page" /\ base.state = r.state /\ base.page = n /\ base.out = r.out
      /\ base.marks = r.marks /\ base.ends = r.ends
  <2> DEFINE none == <<>>
  <2>1. base = Queueing(t, none)
    OBVIOUS
  <2> HIDE DEF none, base
  <2>2. /\ base.stage = "page" /\ base.state = r.state /\ base.page = n /\ base.out = r.out
    BY <1>3, <2>1, QueueFields
  <2>3. base.marks = r.marks /\ base.ends = r.ends
    BY <1>3, <2>1, MarksKept
  <2> QED
    BY <2>2, <2>3
<1> HIDE DEF base
<1>8. Single(base, limit, most, stages) /\ Active(base) /\ base.stage # "detail" /\ Ids(base.out) \subseteq all
  BY <1>6, <1>7 DEF Remains, Active
<1>9. Gains(next, base, Ids(rows), all)
  BY <1>2, <1>8, YieldRowsGain
<1>10. Remains(next, base, limit, most, stages)
  BY <1>2, <1>8, YieldRowsRemain
<1>11. DOMAIN next = DOMAIN Idle /\ next.page = n
  BY <1>7, <1>10 DEF Remains, Single, Sound, Loose
<1>12. Before(pages, n) \cap Bad = {}
  BY DEF Before, Shown
<1>13. /\ Before(pages, n) \subseteq Ids(base.out) \cup (Ids(rows) \ Bad)
       /\ base.marks \subseteq Upto(pages, n)
  BY <1>7, <1>12
<1>14. r.ends \/ n >= MaxPages => all \subseteq Before(pages, n)
  OBVIOUS
<1> HIDE DEF next, n
<1>15. Active(next) => next.ends = r.ends
  BY <1>7, <1>9 DEF Gains
<1>16. Streams(YieldRest(r, rows, status), pages, all)
  BY <1>1, <1>5, <1>9, <1>11, <1>13, <1>14, <1>15, StreamsOn
<1>17. Headed(next, all)
  BY <1>9 DEF Headed, Gains
<1>18. ~Active(Done(next)) /\ NextPage(next).stage = next.stage
  BY <1>1, <1>11, DoneFields, Turned DEF Active
<1>19. Headed(YieldRest(r, rows, status), all)
  BY <1>5, <1>17, <1>18 DEF Headed
<1> QED
  BY <1>16, <1>19

LEMMA YieldPageStreams ==
  ASSUME NEW limit \in Nat, NEW most \in Nat, Lesser(limit, MaxResults) <= most,
         NEW stages, {"page", "detail"} \subseteq stages,
         NEW r, Single(r, limit, most, stages), Active(r), r.stage # "detail",
         NEW all, Roomy(all, Lesser(limit, MaxResults)),
         NEW pages, Streams(r, pages, all), NEW page, Reading(page, pages, r.page, all), NEW status
  PROVE  Streams(YieldPage(r, page, status), pages, all) /\ Headed(YieldPage(r, page, status), all)
<1> DEFINE s == [r EXCEPT !.marks = @ \cup {page.rows}, !.ends = Len(page.rows) < PageSize]
           n == r.page
<1>1. n \in Nat \ {0} /\ DOMAIN r = DOMAIN Idle
  BY DEF Single, Sound, Loose
<1>2. /\ DOMAIN s = DOMAIN Idle /\ s.state = r.state /\ s.stage = r.stage
      /\ s.page = r.page /\ s.attempt = r.attempt /\ s.limit = r.limit
      /\ s.held = r.held /\ s.queue = r.queue /\ s.out = r.out
      /\ s.marks = r.marks \cup {page.rows} /\ s.ends = (Len(page.rows) < PageSize)
  BY <1>1, Fields
<1>3. IsSequence(page.rows) /\ Ids(page.rows) \subseteq all \cup Bad /\ ~page.garbled
  BY DEF Reading
<1>4. /\ r.marks \subseteq Upto(pages, n - 1) /\ Before(pages, n - 1) \subseteq Ids(r.out)
      /\ Ids(r.out) \subseteq all
  BY DEF Streams
<1>5. \/ YieldPage(r, page, status) = Done(r) /\ page.rows \in r.marks
      \/ YieldPage(r, page, status) = YieldRest(s, page.rows, status)
  BY <1>3 DEF YieldPage
<1> HIDE DEF s
<1>6. Single(s, limit, most, stages) /\ Active(s)
  BY <1>2 DEF Single, Sound, Loose, Active
<1>7. /\ Before(pages, n) \subseteq Ids(s.out) \cup Ids(page.rows)
      /\ s.marks \subseteq Upto(pages, n)
  BY <1>1, <1>2, <1>4, ReadOn
<1>8. /\ s.ends \/ n >= MaxPages => all \subseteq Before(pages, n)
      /\ page.rows \in Upto(pages, n - 1) => all \subseteq Before(pages, n - 1)
  BY <1>2 DEF Reading
<1>9. Ids(s.out) \subseteq all /\ s.page = n
  BY <1>2, <1>4
<1> HIDE DEF n
<1>10. Streams(YieldRest(s, page.rows, status), pages, all) /\ Headed(YieldRest(s, page.rows, status), all)
  BY <1>3, <1>6, <1>7, <1>8, <1>9, YieldRestStreams
<1>11. page.rows \in r.marks => Streams(Done(r), pages, all)
  BY <1>1, <1>4, <1>8, StreamsEnd
<1>12. Headed(Done(r), all)
  BY <1>1, DoneFields DEF Headed, Active
<1> QED
  BY <1>5, <1>10, <1>11, <1>12

\* The row in hand is usable: only such a row asks for its description.
LEMMA YieldDetailStreams ==
  ASSUME NEW limit \in Nat, NEW most \in Nat, Lesser(limit, MaxResults) <= most,
         NEW stages, {"page", "detail"} \subseteq stages,
         NEW r, Single(r, limit, most, stages), Active(r), r.stage = "detail",
         NEW all, Roomy(all, Lesser(limit, MaxResults)),
         NEW pages, Streams(r, pages, all), Head(r.queue).id \in all,
         r.page >= MaxPages => all \subseteq Before(pages, r.page), NEW status
  PROVE  Streams(YieldDetail(r, status), pages, all) /\ Headed(YieldDetail(r, status), all)
<1> DEFINE row == Head(r.queue)
           rest == Tail(r.queue)
           bound == Lesser(limit, MaxResults)
           next == YieldNew(r, row, status[row])
           n == r.page
<1>1. n \in Nat \ {0} /\ DOMAIN r = DOMAIN Idle /\ Loose(r, limit, most, stages) /\ r.limit = limit
      /\ Distinct(r.out) /\ Len(r.out) < most
  BY DEF Single, Sound, Loose
<1>2. IsSequence(r.queue) /\ r.queue # <<>>
  BY DEF Single, Sound, Loose
<1>3. IsSequence(rest) /\ Ids(r.queue) = {row.id} \cup Ids(rest)
  BY <1>2, Tailed, HeadAndTail
<1>4. /\ r.marks \subseteq Upto(pages, n) /\ Before(pages, n) \subseteq Ids(r.out) \cup Ids(r.queue)
      /\ Ids(r.queue) \subseteq all \cup Bad /\ (r.ends => all \subseteq Before(pages, n))
      /\ Ids(r.out) \subseteq all
  BY DEF Streams
<1>5. bound \in Nat
  BY LesserBound
<1>6. \/ next = r /\ row.id \in Ids(r.out)
      \/ next = Take(r, row, status[row], bound) /\ row.id \notin Ids(r.out)
  BY <1>1 DEF YieldNew, Take
<1>7. Walks(next, r, limit, most, stages)
  BY YieldNewWalks
<1>8. YieldDetail(r, status) = IF Active(next) THEN YieldRest(next, Tail(next.queue), status) ELSE next
  BY DEF YieldDetail, YieldDropped
<1>9. Single(next, limit, most, stages) /\ next.page = n /\ DOMAIN next = DOMAIN Idle
  BY <1>7 DEF Walks, Single, Sound, Loose
<1> HIDE DEF row, rest, bound, n
<1>10. /\ Ids(next.out) = Ids(r.out) \cup {row.id}
       /\ ~Active(next) => next.state = "done" /\ all \subseteq Ids(next.out)
       /\ Active(next) => next.queue = r.queue /\ next.marks = r.marks /\ next.ends = r.ends
  <2>1. CASE next = r /\ row.id \in Ids(r.out)
    BY <2>1
  <2>2. CASE next = Take(r, row, status[row], bound) /\ row.id \notin Ids(r.out)
    <3>1. row.id \in all
      BY DEF row
    <3>2. Roomy(all, bound) /\ most \in Nat
      BY DEF bound
    <3>3. OneTaken(next, r, row, status[row], all)
      BY <1>1, <1>4, <1>5, <2>2, <3>1, <3>2, TakenIds
    <3> QED
      BY <3>3 DEF OneTaken
  <2> QED
    BY <1>6, <2>1, <2>2
<1> HIDE DEF next
<1>11. CASE ~Active(next)
  <2>1. Ids(next.out) \subseteq all
    BY <1>4, <1>10 DEF row
  <2> QED
    BY <1>8, <1>10, <1>11, <2>1 DEF Streams, Headed
<1>12. CASE Active(next)
  <2>1. Tail(next.queue) = rest
    BY <1>10, <1>12 DEF rest
  <2>2. Ids(rest) \subseteq all \cup Bad /\ Ids(next.out) \subseteq all
    BY <1>3, <1>4, <1>10 DEF row
  <2>3. /\ next.marks \subseteq Upto(pages, next.page)
        /\ Before(pages, next.page) \subseteq Ids(next.out) \cup Ids(rest)
        /\ next.ends \/ next.page >= MaxPages => all \subseteq Before(pages, next.page)
    BY <1>3, <1>4, <1>9, <1>10, <1>12 DEF n
  <2>4. Streams(YieldRest(next, rest, status), pages, all) /\ Headed(YieldRest(next, rest, status), all)
    BY <1>3, <1>9, <1>12, <2>2, <2>3, YieldRestStreams
  <2> QED
    BY <1>8, <1>12, <2>1, <2>4
<1> QED
  BY <1>11, <1>12

-----------------------------------------------------------------------------
(* What is kept of rows, by their identifiers.                              *)

LEMMA KeptIds ==
  ASSUME NEW held, IsSequence(held), NEW row
  PROVE  /\ Ids(KeepFirst(held, row)) = Ids(held) \cup {row.id}
         /\ Ids(KeepLast(held, row)) = Ids(held) \cup {row.id}
         /\ Ids(KeepNewest(held, row)) = Ids(held) \cup {row.id}
<1>1. CASE row.id \notin Ids(held)
  BY <1>1, Appended DEF KeepFirst, KeepLast, KeepNewest
<1>2. CASE row.id \in Ids(held)
  <2> DEFINE t == [i \in DOMAIN held |-> IF held[i].id = row.id THEN row ELSE held[i]]
             u == [i \in DOMAIN held |->
                     IF held[i].id = row.id /\ held[i].round < row.round THEN row ELSE held[i]]
  <2>1. /\ DOMAIN t = DOMAIN held /\ t = [i \in DOMAIN held |-> t[i]]
        /\ \A i \in DOMAIN held : t[i].id = held[i].id
    OBVIOUS
  <2>2. /\ DOMAIN u = DOMAIN held /\ u = [i \in DOMAIN held |-> u[i]]
        /\ \A i \in DOMAIN held : u[i].id = held[i].id
    OBVIOUS
  <2>3. KeepFirst(held, row) = held /\ KeepLast(held, row) = t /\ KeepNewest(held, row) = u
    BY <1>2 DEF KeepFirst, KeepLast, KeepNewest
  <2> HIDE DEF t, u
  <2>4. Ids(t) = Ids(held) /\ Ids(u) = Ids(held)
    BY <2>1, <2>2, Replaced
  <2> QED
    BY <1>2, <2>3, <2>4
<1> QED
  BY <1>1, <1>2

\* The identifiers of the first rows of a sequence.
IdsTo(rows, k) == {rows[i].id : i \in 1..k}

LEMMA IdsStep ==
  ASSUME NEW rows, IsSequence(rows)
  PROVE  /\ IdsTo(rows, 0) = {} /\ IdsTo(rows, Len(rows)) = Ids(rows)
         /\ \A k \in 1..Len(rows) :
              IdsTo(rows, k) = IdsTo(rows, k - 1) \cup {rows[k].id} /\ rows[k].id \in Ids(rows)
<1>1. Len(rows) \in Nat /\ DOMAIN rows = 1..Len(rows)
  BY SequenceLength
<1>2. 1..0 = {} /\ \A k \in 1..Len(rows) : 1..k = (1..(k - 1)) \cup {k}
  BY <1>1
<1> QED
  BY <1>1, <1>2 DEF IdsTo, Ids

LEMMA KeepFirstIds ==
  ASSUME NEW held, IsSequence(held), Distinct(held), NEW rows, IsSequence(rows)
  PROVE  Ids(FoldLeft(KeepFirst, held, rows)) = Ids(held) \cup Ids(rows)
<1> DEFINE n == Len(rows)
           total == FoldLeft(KeepFirst, held, rows)
<1>1. n \in Nat /\ DOMAIN rows = 1..n
  BY SequenceLength
<1>2. total = First!Folded(held, rows)
  BY DEF First!Folded, FoldLeft, MapThenFoldSet, First!MapThenFoldSet, Max, First!Max
<1>3. /\ IdsTo(rows, 0) = {} /\ IdsTo(rows, n) = Ids(rows)
      /\ \A k \in 1..n : IdsTo(rows, k) = IdsTo(rows, k - 1) \cup {rows[k].id}
  BY IdsStep
<1> HIDE DEF n, total
<1>4. PICK h : First!Stepped(h, held, rows, n)
  BY <1>1, <1>2, First!FoldStepped
<1>5. /\ h[0] = held
      /\ \A i \in 1..n : h[i] = KeepFirst(h[i - 1], rows[i])
      /\ First!Folded(held, rows) = h[n]
  BY <1>4 DEF First!Stepped
<1> DEFINE Kept(k) == IsSequence(h[k]) /\ Distinct(h[k]) /\ Ids(h[k]) = Ids(held) \cup IdsTo(rows, k)
           T == {k \in 0..n : Kept(k)}
<1>6. 0 \in T
  BY <1>1, <1>3, <1>5
<1>7. ASSUME NEW k \in 1..n, k - 1 \in T PROVE k \in T
  <2>1. Kept(k - 1) /\ h[k] = KeepFirst(h[k - 1], rows[k])
    BY <1>5, <1>7
  <2>2. IsSequence(h[k]) /\ Distinct(h[k])
    BY <2>1, KeptOne
  <2>3. Ids(h[k]) = Ids(h[k - 1]) \cup {rows[k].id}
    BY <2>1, KeptIds
  <2>4. Kept(k)
    BY <1>3, <2>1, <2>2, <2>3
  <2> HIDE DEF Kept
  <2> QED
    BY <2>4
<1> HIDE DEF T
<1>8. n \in T
  BY <1>1, <1>6, <1>7, First!Induction
<1>9. total = h[n]
  BY <1>2, <1>5
<1> QED
  BY <1>3, <1>8, <1>9 DEF T, total

LEMMA KeepLastIds ==
  ASSUME NEW held, IsSequence(held), Distinct(held), NEW rows, IsSequence(rows)
  PROVE  Ids(FoldLeft(KeepLast, held, rows)) = Ids(held) \cup Ids(rows)
<1> DEFINE n == Len(rows)
           total == FoldLeft(KeepLast, held, rows)
<1>1. n \in Nat /\ DOMAIN rows = 1..n
  BY SequenceLength
<1>2. total = Latest!Folded(held, rows)
  BY DEF Latest!Folded, FoldLeft, MapThenFoldSet, Latest!MapThenFoldSet, Max, Latest!Max
<1>3. /\ IdsTo(rows, 0) = {} /\ IdsTo(rows, n) = Ids(rows)
      /\ \A k \in 1..n : IdsTo(rows, k) = IdsTo(rows, k - 1) \cup {rows[k].id}
  BY IdsStep
<1> HIDE DEF n, total
<1>4. PICK h : Latest!Stepped(h, held, rows, n)
  BY <1>1, <1>2, Latest!FoldStepped
<1>5. /\ h[0] = held
      /\ \A i \in 1..n : h[i] = KeepLast(h[i - 1], rows[i])
      /\ Latest!Folded(held, rows) = h[n]
  BY <1>4 DEF Latest!Stepped
<1> DEFINE Kept(k) == IsSequence(h[k]) /\ Distinct(h[k]) /\ Ids(h[k]) = Ids(held) \cup IdsTo(rows, k)
           T == {k \in 0..n : Kept(k)}
<1>6. 0 \in T
  BY <1>1, <1>3, <1>5
<1>7. ASSUME NEW k \in 1..n, k - 1 \in T PROVE k \in T
  <2>1. Kept(k - 1) /\ h[k] = KeepLast(h[k - 1], rows[k])
    BY <1>5, <1>7
  <2>2. IsSequence(h[k]) /\ Distinct(h[k])
    BY <2>1, KeptOne
  <2>3. Ids(h[k]) = Ids(h[k - 1]) \cup {rows[k].id}
    BY <2>1, KeptIds
  <2>4. Kept(k)
    BY <1>3, <2>1, <2>2, <2>3
  <2> HIDE DEF Kept
  <2> QED
    BY <2>4
<1> HIDE DEF T
<1>8. n \in T
  BY <1>1, <1>6, <1>7, First!Induction
<1>9. total = h[n]
  BY <1>2, <1>5
<1> QED
  BY <1>3, <1>8, <1>9 DEF T, total

LEMMA KeepNewestIds ==
  ASSUME NEW held, IsSequence(held), Distinct(held), NEW rows, IsSequence(rows)
  PROVE  Ids(FoldLeft(KeepNewest, held, rows)) = Ids(held) \cup Ids(rows)
<1> DEFINE n == Len(rows)
           total == FoldLeft(KeepNewest, held, rows)
<1>1. n \in Nat /\ DOMAIN rows = 1..n
  BY SequenceLength
<1>2. total = Newest!Folded(held, rows)
  BY DEF Newest!Folded, FoldLeft, MapThenFoldSet, Newest!MapThenFoldSet, Max, Newest!Max
<1>3. /\ IdsTo(rows, 0) = {} /\ IdsTo(rows, n) = Ids(rows)
      /\ \A k \in 1..n : IdsTo(rows, k) = IdsTo(rows, k - 1) \cup {rows[k].id}
  BY IdsStep
<1> HIDE DEF n, total
<1>4. PICK h : Newest!Stepped(h, held, rows, n)
  BY <1>1, <1>2, Newest!FoldStepped
<1>5. /\ h[0] = held
      /\ \A i \in 1..n : h[i] = KeepNewest(h[i - 1], rows[i])
      /\ Newest!Folded(held, rows) = h[n]
  BY <1>4 DEF Newest!Stepped
<1> DEFINE Kept(k) == IsSequence(h[k]) /\ Distinct(h[k]) /\ Ids(h[k]) = Ids(held) \cup IdsTo(rows, k)
           T == {k \in 0..n : Kept(k)}
<1>6. 0 \in T
  BY <1>1, <1>3, <1>5
<1>7. ASSUME NEW k \in 1..n, k - 1 \in T PROVE k \in T
  <2>1. Kept(k - 1) /\ h[k] = KeepNewest(h[k - 1], rows[k])
    BY <1>5, <1>7
  <2>2. IsSequence(h[k]) /\ Distinct(h[k])
    BY <2>1, KeptOne
  <2>3. Ids(h[k]) = Ids(h[k - 1]) \cup {rows[k].id}
    BY <2>1, KeptIds
  <2>4. Kept(k)
    BY <1>3, <2>1, <2>2, <2>3
  <2> HIDE DEF Kept
  <2> QED
    BY <2>4
<1> HIDE DEF T
<1>8. n \in T
  BY <1>1, <1>6, <1>7, First!Induction
<1>9. total = h[n]
  BY <1>2, <1>5
<1> QED
  BY <1>3, <1>8, <1>9 DEF T, total

-----------------------------------------------------------------------------
(* bidbuy and rivip: the new rows of a page wait together.                   *)

\* What such a run still owes with these rows of its page in hand.
Owing(r, rows, pages, all) ==
  /\ Ids(r.out) \subseteq all /\ r.marks \subseteq Upto(pages, r.page)
  /\ Before(pages, r.page) \subseteq Ids(r.out) \cup Ids(rows) /\ Ids(rows) \subseteq all \cup Bad
  /\ r.ends => all \subseteq Before(pages, r.page)

LEMMA AskingStreams ==
  ASSUME NEW limit, NEW most, NEW stages, NEW r, Clear(r, limit, most, stages),
         NEW pages, NEW all, NEW rows, Owing(r, rows, pages, all)
  PROVE  Streams(Queueing(ToStage(r, "detail"), rows), pages, all)
<1> DEFINE t == ToStage(r, "detail")
           q == Queueing(t, rows)
<1>1. DOMAIN r = DOMAIN Idle
  BY DEF Clear, Loose
<1>2. /\ DOMAIN t = DOMAIN Idle /\ t.stage = "detail" /\ t.page = r.page /\ t.state = r.state
      /\ t.out = r.out /\ t.marks = r.marks /\ t.ends = r.ends
  BY <1>1, Moved
<1> HIDE DEF t
<1>3. /\ q.stage = "detail" /\ q.page = r.page /\ q.state = r.state
      /\ q.out = r.out /\ q.queue = rows
  BY <1>2, QueueFields
<1>4. q.marks = r.marks /\ q.ends = r.ends
  BY <1>2, MarksKept
<1> HIDE DEF q
<1>5. q.state # "done"
  BY <1>3 DEF Clear, Active
<1>6. Streams(q, pages, all)
  BY <1>3, <1>4, <1>5 DEF Streams, Owing
<1> QED
  BY <1>6 DEF q, t

LEMMA TurningStreams ==
  ASSUME NEW limit, NEW most, NEW stages, NEW r, Clear(r, limit, most, stages),
         NEW pages, NEW all, NEW rows, Owing(r, rows, pages, all), Ids(rows) = {}, NEW none
  PROVE  /\ Streams(NextPage(ToStage(Queueing(r, none), "page")), pages, all)
         /\ r.ends => Streams(Done(Queueing(r, none)), pages, all)
         /\ \A why : Streams(Failed(Queueing(r, none), why), pages, all)
<1> DEFINE e == Queueing(r, none)
           t == ToStage(e, "page")
           q == NextPage(t)
<1>1. DOMAIN r = DOMAIN Idle /\ r.page \in Nat
  BY DEF Clear, Loose
<1>2. /\ DOMAIN e = DOMAIN Idle /\ e.page = r.page /\ e.state = r.state /\ e.out = r.out
  BY <1>1, QueueFields
<1>3. e.marks = r.marks /\ e.ends = r.ends
  BY <1>1, MarksKept
<1> HIDE DEF e
<1>4. /\ DOMAIN t = DOMAIN Idle /\ t.stage = "page" /\ t.page = r.page /\ t.state = r.state
      /\ t.out = r.out /\ t.marks = r.marks
  BY <1>2, <1>3, Moved
<1> HIDE DEF t
<1>5. /\ q.stage = "page" /\ q.page = r.page + 1 /\ q.state = r.state
      /\ q.out = r.out /\ q.marks = r.marks
  BY <1>1, <1>4, Turned
<1> HIDE DEF q
<1>6. q.state # "done" /\ q.page - 1 = r.page
  BY <1>1, <1>5 DEF Clear, Active
<1>7. Streams(q, pages, all)
  BY <1>5, <1>6 DEF Streams, Owing
<1>8. r.ends => Streams(Done(e), pages, all)
  BY <1>2, StreamsEnd DEF Owing
<1>9. \A why : Streams(Failed(e, why), pages, all)
  BY <1>2, StreamsEnd DEF Owing
<1> QED
  BY <1>7, <1>8, <1>9 DEF q, t, e

\* All that a run of bidbuy has was on its pages.
Within(r, pages) ==
  /\ Active(r) /\ r.stage # "detail" => Ids(r.out) \subseteq Before(pages, r.page - 1)
  /\ Active(r) /\ r.stage = "detail" =>
       Ids(r.out) \subseteq Before(pages, r.page) /\ Ids(r.queue) \subseteq Before(pages, r.page)

LEMMA AskingWithin ==
  ASSUME NEW limit, NEW most, NEW stages, NEW r, Clear(r, limit, most, stages),
         NEW pages, Ids(r.out) \subseteq Before(pages, r.page), NEW none
  PROVE  /\ Within(NextPage(ToStage(Queueing(r, none), "page")), pages)
         /\ \A rows : Ids(rows) \subseteq Before(pages, r.page)
                      => Within(Queueing(ToStage(r, "detail"), rows), pages)
<1> DEFINE e == Queueing(r, none)
           t == ToStage(e, "page")
           q == NextPage(t)
           d == ToStage(r, "detail")
<1>1. DOMAIN r = DOMAIN Idle /\ r.page \in Nat
  BY DEF Clear, Loose
<1>2. DOMAIN e = DOMAIN Idle /\ e.page = r.page /\ e.out = r.out
  BY <1>1, QueueFields
<1> HIDE DEF e
<1>3. DOMAIN t = DOMAIN Idle /\ t.stage = "page" /\ t.page = r.page /\ t.out = r.out
  BY <1>2, Moved
<1> HIDE DEF t
<1>4. q.stage = "page" /\ q.page = r.page + 1 /\ q.out = r.out
  BY <1>1, <1>3, Turned
<1> HIDE DEF q
<1>5. Within(q, pages)
  <2>1. q.page - 1 = r.page
    BY <1>1, <1>4
  <2> QED
    BY <1>4, <2>1 DEF Within
<1>6. DOMAIN d = DOMAIN Idle /\ d.stage = "detail" /\ d.page = r.page /\ d.out = r.out
  BY <1>1, Moved
<1> HIDE DEF d
<1>7. ASSUME NEW rows, Ids(rows) \subseteq Before(pages, r.page)
      PROVE  Within(Queueing(d, rows), pages)
  <2> DEFINE p == Queueing(d, rows)
  <2>1. p.stage = "detail" /\ p.page = r.page /\ p.out = r.out /\ p.queue = rows
    BY <1>6, QueueFields
  <2> HIDE DEF p
  <2>2. Within(p, pages)
    BY <1>7, <2>1 DEF Within
  <2> QED
    BY <2>2 DEF p
<1> QED
  BY <1>5, <1>7 DEF q, t, e, d

LEMMA ClearAlike ==
  ASSUME NEW limit, NEW most, NEW stages, NEW r, Fresh(r, limit, most, stages), Active(r),
         r.page <= MaxPages, NEW s, Alike(s, r), s.held = r.held, s.queue = r.queue
  PROVE  Clear(s, limit, most, stages)
<1>1. Loose(r, limit, most, stages) /\ Distinct(r.out) /\ Distinct(r.held) /\ Len(r.out) < most
  BY DEF Fresh, Sound, Apart
<1>2. IsSequence(r.held) /\ IsSequence(r.queue)
  BY <1>1 DEF Loose
<1>3. Loose(s, limit, most, stages)
  BY <1>1, <1>2, LooseAlike
<1> QED
  BY <1>1, <1>3 DEF Clear, Alike, Active

LEMMA RivipRestStreams ==
  ASSUME NEW limit, NEW most, NEW stages, NEW r, Clear(r, limit, most, stages),
         NEW pages, NEW all, NEW rows, Owing(r, rows, pages, all)
  PROVE  Streams(RivipRest(r, rows), pages, all)
<1> DEFINE none == <<>>
           e == Queueing(r, none)
<1>1. rows = none => Ids(rows) = {}
  BY EmptySequence
<1>2. \/ rows = none /\ RivipRest(r, rows) = Done(e) /\ e.ends
      \/ rows = none /\ RivipRest(r, rows) = Failed(e, "cycle")
      \/ rows = none /\ RivipRest(r, rows) = NextPage(ToStage(e, "page"))
      \/ rows # none /\ RivipRest(r, rows) = Queueing(ToStage(r, "detail"), rows)
  BY DEF RivipRest, RivipNext, Queueing
<1> HIDE DEF none
<1>3. e.ends = r.ends
  BY MarksKept DEF Clear, Loose
<1>4. rows = none => /\ Streams(NextPage(ToStage(e, "page")), pages, all)
                     /\ r.ends => Streams(Done(e), pages, all)
                     /\ Streams(Failed(e, "cycle"), pages, all)
  BY <1>1, TurningStreams
<1>5. Streams(Queueing(ToStage(r, "detail"), rows), pages, all)
  BY AskingStreams
<1> HIDE DEF e
<1> QED
  BY <1>2, <1>3, <1>4, <1>5

LEMMA RivipPageStreams ==
  ASSUME NEW limit \in Nat, NEW most \in Nat, NEW stages, NEW r, Fresh(r, limit, most, stages), Active(r),
         r.stage # "detail", NEW pages, NEW all, Streams(r, pages, all),
         NEW page, Reading(page, pages, r.page, all)
  PROVE  Streams(RivipPage(r, page), pages, all)
<1> DEFINE none == <<>>
           first == FoldLeft(KeepFirst, none, page.rows)
           ids == {None} \cup Ids(r.out)
           new == Without(first, ids)
           s == [r EXCEPT !.marks = @ \cup {page.rows}, !.ends = ~page.more]
           n == r.page
<1>1. n \in Nat \ {0} /\ DOMAIN r = DOMAIN Idle /\ MaxPages \in Nat
  BY Numbers DEF Fresh, Sound, Loose
<1>2. IsSequence(page.rows) /\ Ids(page.rows) \subseteq all \cup Bad /\ ~page.garbled
  BY DEF Reading
<1>3. /\ r.marks \subseteq Upto(pages, n - 1) /\ Before(pages, n - 1) \subseteq Ids(r.out)
      /\ Ids(r.out) \subseteq all
  BY DEF Streams
<1>4. \/ RivipPage(r, page) = Done(r) /\ (n > MaxPages \/ page.rows \in r.marks)
      \/ RivipPage(r, page) = RivipRest(s, new) /\ ~(n > MaxPages)
  BY <1>2 DEF RivipPage
<1>5. IsSequence(first) /\ Ids(first) = Ids(page.rows)
  <2>1. IsSequence(none) /\ Distinct(none) /\ Ids(none) = {}
    BY EmptySequence
  <2> HIDE DEF none
  <2>2. IsSequence(first)
    BY <1>2, <2>1, KeepFirstAll
  <2>3. Ids(first) = Ids(none) \cup Ids(page.rows)
    BY <1>2, <2>1, KeepFirstIds
  <2> QED
    BY <2>1, <2>2, <2>3
<1> HIDE DEF first
<1>6. Ids(new) = Ids(page.rows) \ ids
  BY <1>5, WithoutRows
<1> HIDE DEF new
<1>7. Alike(s, r) /\ s.held = r.held /\ s.queue = r.queue
  BY <1>1, Fields DEF Alike
<1>8. s.marks = r.marks \cup {page.rows} /\ s.ends = ~page.more
  BY <1>1, Fields
<1> HIDE DEF s
<1>9. s.out = r.out /\ s.page = n
  BY <1>7 DEF Alike
<1>10. Before(pages, n) \subseteq Ids(r.out) \cup (Ids(page.rows) \ Bad) /\ s.marks \subseteq Upto(pages, n)
  BY <1>1, <1>3, <1>8, ReadOn
<1>11. /\ ~page.more => all \subseteq Before(pages, n)
       /\ n > MaxPages \/ page.rows \in Upto(pages, n - 1) => all \subseteq Before(pages, n - 1)
  BY DEF Reading
<1>12. Owing(s, new, pages, all)
  BY <1>2, <1>3, <1>6, <1>8, <1>9, <1>10, <1>11 DEF Owing, Bad
<1>13. ~(n > MaxPages) => Streams(RivipRest(s, new), pages, all)
  <2>1. ~(n > MaxPages) => Clear(s, limit, most, stages)
    BY <1>1, <1>7, ClearAlike
  <2> QED
    BY <1>12, <2>1, RivipRestStreams
<1>14. n > MaxPages \/ page.rows \in r.marks => Streams(Done(r), pages, all)
  BY <1>1, <1>3, <1>11, StreamsEnd
<1> QED
  BY <1>4, <1>13, <1>14

\* The first row that waits, yielded from runs of bidbuy and rivip.
Owes(q, r, pages, all) ==
  /\ Ids(q.out) = Ids(r.out) \cup {Head(r.queue).id}
  /\ ~Active(q) => Streams(q, pages, all)
  /\ Active(q) => Owing(q, Tail(r.queue), pages, all) /\ q.page = r.page

LEMMA HeadOwed ==
  ASSUME NEW limit \in Nat, NEW most \in Nat, NEW stages, NEW bound \in Nat, bound <= most,
         NEW r, Fresh(r, limit, most, stages), Active(r), r.stage = "detail",
         NEW pages, NEW all, Roomy(all, bound), Streams(r, pages, all), Head(r.queue).id \in all,
         NEW status
  PROVE  Owes(Take(r, Head(r.queue), status, bound), r, pages, all)
<1> DEFINE row == Head(r.queue)
           rest == Tail(r.queue)
           q == Take(r, row, status, bound)
<1>1. Loose(r, limit, most, stages) /\ Distinct(r.out) /\ Len(r.out) < most
  BY DEF Fresh, Sound, Apart
<1>2. IsSequence(r.queue) /\ r.queue # <<>> /\ Ids(r.queue) \cap Ids(r.out) = {}
  BY DEF Fresh, Sound, Loose, Apart
<1>3. Ids(r.queue) = {row.id} \cup Ids(rest)
  BY <1>2, HeadAndTail
<1>4. /\ Ids(r.out) \subseteq all /\ r.marks \subseteq Upto(pages, r.page)
      /\ Before(pages, r.page) \subseteq Ids(r.out) \cup Ids(r.queue)
      /\ Ids(r.queue) \subseteq all \cup Bad /\ (r.ends => all \subseteq Before(pages, r.page))
  BY DEF Streams
<1>5. row.id \in all /\ row.id \notin Ids(r.out)
  BY <1>2, <1>3
<1> HIDE DEF row, rest, q
<1>6. OneTaken(q, r, row, status, all)
  BY <1>1, <1>4, <1>5, TakenIds DEF q
<1>7. Ids(q.out) = Ids(r.out) \cup {row.id}
  BY <1>6 DEF OneTaken
<1>8. ~Active(q) => Streams(q, pages, all)
  BY <1>4, <1>5, <1>6 DEF OneTaken, Streams
<1>9. Active(q) => Owing(q, rest, pages, all) /\ q.page = r.page
  BY <1>3, <1>4, <1>5, <1>6 DEF OneTaken, Owing
<1> QED
  BY <1>7, <1>8, <1>9 DEF row, rest, q, Owes

LEMMA RivipDetailStreams ==
  ASSUME NEW limit \in Nat, NEW most \in Nat, Lesser(limit, MaxResults) <= most,
         NEW stages, {"page", "detail"} \subseteq stages,
         NEW r, Fresh(r, limit, most, stages), Active(r), r.stage = "detail",
         NEW pages, NEW all, Roomy(all, Lesser(limit, MaxResults)), Streams(r, pages, all),
         NEW page, ~page.garbled
  PROVE  Streams(RivipDetail(r, page), pages, all)
<1> DEFINE row == Head(r.queue)
           bound == Lesser(limit, MaxResults)
           status == RivipStatus(row.says)
           rest == Tail(r.queue)
           next == Take(r, row, status, bound)
           f == Failed(r, "markup")
<1>1. r.limit = limit /\ DOMAIN r = DOMAIN Idle /\ IsSequence(r.queue) /\ r.queue # <<>>
  BY DEF Fresh, Sound, Loose
<1>2. Streams(f, pages, all) /\ ~Active(f)
  <2>1. Ids(r.out) \subseteq all
    BY DEF Streams
  <2>2. Streams(f, pages, all)
    BY <1>1, <2>1, StreamsEnd
  <2>3. f.state = "failed"
    BY <1>1, FailedFields
  <2> QED
    BY <2>2, <2>3 DEF Active
<1>3. \/ RivipRecord(r, row) = f
      \/ RivipRecord(r, row) = next /\ row.id \notin Bad
  BY <1>1 DEF RivipRecord, Take, Usable, Bad
<1>4. \/ Active(RivipRecord(r, row)) /\ RivipDetail(r, page) = RivipRest(RivipRecord(r, row), rest)
      \/ ~Active(RivipRecord(r, row)) /\ RivipDetail(r, page) = RivipRecord(r, row)
  BY DEF RivipDetail
<1>5. bound \in Nat /\ bound <= most /\ Roomy(all, bound)
  BY LesserBound
<1>6. row.id \notin Bad => row.id \in all
  <2>1. row.id \in Ids(r.queue)
    BY <1>1, Tailed
  <2>2. Ids(r.queue) \subseteq all \cup Bad
    BY DEF Streams
  <2> HIDE DEF row
  <2> QED
    BY <2>1, <2>2
<1> HIDE DEF bound, status, f
<1>7. Active(next) => Clear(next, limit, most, stages)
  BY <1>5, FreshTaken
<1>8. row.id \in all => Owes(next, r, pages, all)
  BY <1>5, HeadOwed
<1> HIDE DEF next, rest, row
<1>9. ASSUME row.id \in all
      PROVE  /\ ~Active(next) => Streams(next, pages, all)
             /\ Active(next) => Streams(RivipRest(next, rest), pages, all)
  <2>1. /\ ~Active(next) => Streams(next, pages, all)
        /\ Active(next) => Owing(next, rest, pages, all)
    BY <1>8, <1>9 DEF Owes, rest
  <2> QED
    BY <1>7, <2>1, RivipRestStreams
<1> QED
  BY <1>2, <1>3, <1>4, <1>6, <1>9

\* A page of bidbuy as it is read: the usable rows count.
Posting(page, pages, n, all) ==
  /\ IsSequence(page.rows) /\ Ids(page.rows) \subseteq all \cup Bad
  /\ page.rows = At(pages, n) /\ ~page.garbled
  /\ n > MaxPages => all \subseteq Before(pages, n - 1)
  /\ Len(UsableRows(page.rows)) < PageSize \/ Shown(page.rows) \subseteq Before(pages, n - 1)
     => all \subseteq Before(pages, n)

LEMMA BidBuyRestStreams ==
  ASSUME NEW limit, NEW most, NEW stages, NEW r, Clear(r, limit, most, stages),
         NEW pages, NEW all, NEW rows, Owing(r, rows, pages, all),
         Ids(r.out) \cup Ids(rows) \subseteq Before(pages, r.page)
  PROVE  Streams(BidBuyRest(r, rows), pages, all) /\ Within(BidBuyRest(r, rows), pages)
<1> DEFINE none == <<>>
           e == Queueing(r, none)
<1>1. rows = none => Ids(rows) = {}
  BY EmptySequence
<1>2. \/ rows = none /\ BidBuyRest(r, rows) = Done(e) /\ e.ends
      \/ rows = none /\ BidBuyRest(r, rows) = NextPage(ToStage(e, "page"))
      \/ rows # none /\ BidBuyRest(r, rows) = Queueing(ToStage(r, "detail"), rows)
  BY DEF BidBuyRest, BidBuyNext, Queueing
<1> HIDE DEF none
<1>3. e.ends = r.ends /\ DOMAIN e = DOMAIN Idle
  BY MarksKept, QueueFields DEF Clear, Loose
<1>4. rows = none => /\ Streams(NextPage(ToStage(e, "page")), pages, all)
                     /\ r.ends => Streams(Done(e), pages, all)
  BY <1>1, TurningStreams
<1>5. Streams(Queueing(ToStage(r, "detail"), rows), pages, all)
  BY AskingStreams
<1>6. /\ Within(NextPage(ToStage(e, "page")), pages)
      /\ Within(Queueing(ToStage(r, "detail"), rows), pages)
  BY AskingWithin
<1> HIDE DEF e
<1>7. Within(Done(e), pages)
  BY <1>3, DoneFields DEF Within, Active
<1> QED
  BY <1>2, <1>3, <1>4, <1>5, <1>6, <1>7

LEMMA BidBuyPageStreams ==
  ASSUME NEW limit \in Nat, NEW most \in Nat, NEW stages, NEW r, Fresh(r, limit, most, stages), Active(r),
         r.stage # "detail", NEW pages, NEW all, Streams(r, pages, all), Within(r, pages),
         NEW page, Posting(page, pages, r.page, all)
  PROVE  Streams(BidBuyPage(r, page), pages, all) /\ Within(BidBuyPage(r, page), pages)
<1> DEFINE none == <<>>
           records == UsableRows(page.rows)
           first == FoldLeft(KeepFirst, none, records)
           new == Without(first, Ids(r.out))
           s == [r EXCEPT !.ends = new = none \/ Len(records) < PageSize]
           n == r.page
<1>1. n \in Nat \ {0} /\ DOMAIN r = DOMAIN Idle /\ MaxPages \in Nat
  BY Numbers DEF Fresh, Sound, Loose
<1>2. /\ IsSequence(page.rows) /\ Ids(page.rows) \subseteq all \cup Bad /\ ~page.garbled
      /\ page.rows = At(pages, n)
  BY DEF Posting
<1>3. /\ r.marks \subseteq Upto(pages, n - 1) /\ Before(pages, n - 1) \subseteq Ids(r.out)
      /\ Ids(r.out) \subseteq all /\ Ids(r.out) \subseteq Before(pages, n - 1)
  BY DEF Streams, Within
<1>4. \/ BidBuyPage(r, page) = Done(r) /\ n > MaxPages
      \/ BidBuyPage(r, page) = BidBuyRest(s, new) /\ ~(n > MaxPages)
  BY <1>2 DEF BidBuyPage
<1>5. Ids(none) = {} /\ IsSequence(none) /\ Distinct(none)
  BY EmptySequence
<1>6. IsSequence(records) /\ Ids(records) = Shown(page.rows)
  BY <1>2, UsableIds
<1> HIDE DEF none
<1>7. IsSequence(first) /\ Ids(first) = Shown(page.rows)
  <2> HIDE DEF records
  <2>1. IsSequence(first)
    BY <1>5, <1>6, KeepFirstAll
  <2>2. Ids(first) = Ids(none) \cup Ids(records)
    BY <1>5, <1>6, KeepFirstIds
  <2> QED
    BY <1>5, <1>6, <2>1, <2>2
<1> HIDE DEF first
<1>8. Ids(new) = Shown(page.rows) \ Ids(r.out)
  BY <1>7, WithoutRows
<1> HIDE DEF new
<1>9. Alike(s, r) /\ s.held = r.held /\ s.queue = r.queue
  BY <1>1, Fields DEF Alike
<1>10. s.marks = r.marks /\ (s.ends <=> new = none \/ Len(records) < PageSize)
  BY <1>1, Fields
<1> HIDE DEF s
<1>11. s.out = r.out /\ s.page = n
  BY <1>9 DEF Alike
<1>12. /\ Before(pages, n) = Before(pages, n - 1) \cup Shown(page.rows)
       /\ Upto(pages, n - 1) \subseteq Upto(pages, n)
  <2>1. /\ Before(pages, n) = Before(pages, n - 1) \cup Shown(At(pages, n))
        /\ Upto(pages, n) = Upto(pages, n - 1) \cup {At(pages, n)}
    BY <1>1, BeforeNext
  <2> QED
    BY <1>2, <2>1
<1>13. s.ends => all \subseteq Before(pages, n)
  <2>1. new = none => Shown(page.rows) \subseteq Before(pages, n - 1)
    BY <1>3, <1>5, <1>8
  <2> QED
    BY <1>10, <2>1 DEF Posting
<1>14. Owing(s, new, pages, all)
  <2>1. Shown(page.rows) \subseteq all
    BY <1>2 DEF Shown
  <2> QED
    BY <1>3, <1>8, <1>10, <1>11, <1>12, <1>13, <2>1 DEF Owing
<1>15. Ids(s.out) \cup Ids(new) \subseteq Before(pages, s.page)
  BY <1>3, <1>8, <1>11, <1>12
<1>16. ~(n > MaxPages) => Streams(BidBuyRest(s, new), pages, all) /\ Within(BidBuyRest(s, new), pages)
  <2>1. ~(n > MaxPages) => Clear(s, limit, most, stages)
    BY <1>1, <1>9, ClearAlike
  <2> QED
    BY <1>14, <1>15, <2>1, BidBuyRestStreams
<1>17. n > MaxPages => Streams(Done(r), pages, all)
  <2>1. n > MaxPages => all \subseteq Ids(r.out)
    BY <1>3 DEF Posting
  <2> QED
    BY <1>1, <1>3, <2>1, StreamsEnd
<1>18. Within(Done(r), pages)
  BY <1>1, DoneFields DEF Within, Active
<1> QED
  BY <1>4, <1>16, <1>17, <1>18

LEMMA BidBuyDetailStreams ==
  ASSUME NEW limit \in Nat, NEW most \in Nat, Lesser(limit, MaxResults) <= most,
         NEW stages, {"page", "detail"} \subseteq stages,
         NEW r, Fresh(r, limit, most, stages), Active(r), r.stage = "detail",
         NEW pages, NEW all, Roomy(all, Lesser(limit, MaxResults)), Streams(r, pages, all), Within(r, pages)
  PROVE  Streams(BidBuyDetail(r), pages, all) /\ Within(BidBuyDetail(r), pages)
<1> DEFINE row == Head(r.queue)
           bound == Lesser(limit, MaxResults)
           status == PeriscopeStatus(row.says)
           rest == Tail(r.queue)
           next == Take(r, row, status, bound)
<1>1. r.limit = limit /\ DOMAIN r = DOMAIN Idle /\ IsSequence(r.queue) /\ r.queue # <<>>
  BY DEF Fresh, Sound, Loose
<1>2. \/ Active(next) /\ BidBuyDetail(r) = BidBuyRest(next, rest)
      \/ ~Active(next) /\ BidBuyDetail(r) = next
  BY <1>1 DEF BidBuyDetail, BidBuyYield, Take
<1>3. bound \in Nat /\ bound <= most /\ Roomy(all, bound)
  BY LesserBound
<1>4. /\ Ids(r.out) \subseteq Before(pages, r.page) /\ Ids(r.queue) \subseteq Before(pages, r.page)
      /\ Ids(r.queue) \subseteq all \cup Bad
  BY DEF Within, Streams
<1>5. \A x \in Before(pages, r.page) : x \notin Bad
  BY DEF Before, Shown
<1>6. Ids(r.queue) = {row.id} \cup Ids(rest)
  BY <1>1, HeadAndTail
<1>7. row.id \in all
  <2> HIDE DEF row, rest
  <2> QED
    BY <1>4, <1>5, <1>6
<1> HIDE DEF bound, status
<1>8. Active(next) => Clear(next, limit, most, stages)
  BY <1>3, FreshTaken
<1>9. Owes(next, r, pages, all)
  BY <1>3, <1>7, HeadOwed
<1>10. /\ Ids(next.out) = Ids(r.out) \cup {row.id}
       /\ ~Active(next) => Streams(next, pages, all)
       /\ Active(next) => Owing(next, rest, pages, all) /\ next.page = r.page
  BY <1>9 DEF Owes
<1> HIDE DEF next, rest, row
<1>11. ~Active(next) => Within(next, pages)
  BY DEF Within
<1>12. Active(next) => Ids(next.out) \cup Ids(rest) \subseteq Before(pages, next.page)
  BY <1>4, <1>6, <1>10
<1>13. Active(next) => Streams(BidBuyRest(next, rest), pages, all) /\ Within(BidBuyRest(next, rest), pages)
  BY <1>8, <1>10, <1>12, BidBuyRestStreams
<1> QED
  BY <1>2, <1>10, <1>11, <1>13

-----------------------------------------------------------------------------
(* The classes that read the listing first: what is held, and then waits,    *)
(* is all there is.                                                          *)

Gathers(r, pages, all, lot) ==
  /\ Ids(r.out) \subseteq all
  /\ r.state = "done" => all \ Misses \subseteq Ids(r.out)
  /\ Active(r) /\ r.stage # "detail" =>
       /\ r.marks \subseteq Upto(pages, r.page - 1)
       /\ Before(pages, r.page - 1) \subseteq Ids(r.held) /\ Ids(r.held) \subseteq lot
  /\ Active(r) /\ r.stage = "detail" =>
       Ids(r.queue) \subseteq lot /\ all \ Misses \subseteq Ids(r.out) \cup Ids(r.queue)

\* Between two details; and with the whole listing in hand.
Collecting(r, all, lot) ==
  /\ Ids(r.out) \subseteq all /\ Ids(r.queue) \subseteq lot
  /\ all \ Misses \subseteq Ids(r.out) \cup Ids(r.queue)
Listable(r, all, lot) ==
  Ids(r.out) = {} /\ all \subseteq Ids(r.held) /\ Ids(r.held) \subseteq lot

\* What is held with the n-th page.
Holds(held, pages, n, lot) ==
  /\ IsSequence(held) /\ Distinct(held)
  /\ Ids(held) \subseteq lot /\ Before(pages, n) \subseteq Ids(held)

LEMMA GathersEnd ==
  ASSUME NEW r, DOMAIN r = DOMAIN Idle, NEW pages, NEW all, NEW lot, Ids(r.out) \subseteq all
  PROVE  /\ all \ Misses \subseteq Ids(r.out) => Gathers(Done(r), pages, all, lot)
         /\ \A why : Gathers(Failed(r, why), pages, all, lot)
<1>1. Done(r).state = "done" /\ Done(r).out = r.out
  BY DoneFields
<1>2. \A why : Failed(r, why).state = "failed" /\ Failed(r, why).out = r.out
  BY FailedFields
<1> QED
  BY <1>1, <1>2 DEF Gathers, Active

Rests(r, bound, pages, all, lot) ==
  /\ Gathers(ToStage(r, "detail"), pages, all, lot)
  /\ r.queue = <<>> \/ Full(r, bound) => Gathers(Done(r), pages, all, lot)
  /\ \A why : Gathers(Failed(r, why), pages, all, lot)

LEMMA GathersRest ==
  ASSUME NEW limit, NEW most, NEW stages, NEW r, Waiting(r, limit, most, stages),
         NEW pages, NEW all, NEW lot, Collecting(r, all, lot),
         NEW bound \in Nat, Roomy(all, bound)
  PROVE  Rests(r, bound, pages, all, lot)
<1> DEFINE d == ToStage(r, "detail")
           none == <<>>
<1>1. DOMAIN r = DOMAIN Idle /\ IsSequence(r.out) /\ Distinct(r.out) /\ r.state = "asking"
  BY DEF Waiting, Loose, Apart, Active
<1>2. /\ Ids(r.out) \subseteq all /\ Ids(r.queue) \subseteq lot
      /\ all \ Misses \subseteq Ids(r.out) \cup Ids(r.queue)
  BY DEF Collecting
<1>3. d.stage = "detail" /\ d.state = r.state /\ d.out = r.out /\ d.queue = r.queue
  BY <1>1, Moved
<1> HIDE DEF d
<1>4. Gathers(d, pages, all, lot)
  BY <1>1, <1>2, <1>3 DEF Gathers
<1>5. Ids(none) = {}
  BY EmptySequence
<1> HIDE DEF none
<1>6. r.queue = none \/ Full(r, bound) => all \ Misses \subseteq Ids(r.out)
  <2>1. CASE r.queue = none
    BY <1>2, <1>5, <2>1
  <2>2. CASE Full(r, bound)
    <3>1. Len(r.out) >= bound
      BY <2>2 DEF Full
    <3>2. all \subseteq Ids(r.out)
      BY <1>1, <1>2, <3>1, CountCovers
    <3> QED
      BY <3>2
  <2> QED
    BY <2>1, <2>2
<1>7. /\ r.queue = none \/ Full(r, bound) => Gathers(Done(r), pages, all, lot)
      /\ \A why : Gathers(Failed(r, why), pages, all, lot)
  BY <1>1, <1>2, <1>6, GathersEnd
<1> QED
  BY <1>4, <1>7 DEF Rests, d, none

\* The first row that waits is yielded if it can be.
LEMMA HeadGathered ==
  ASSUME NEW limit, NEW most, NEW stages, NEW r, Queued(r, limit, most, stages), Active(r),
         r.stage = "detail", NEW pages, NEW all, NEW lot, Gathers(r, pages, all, lot),
         NEW q, q.queue = Tail(r.queue), Ids(q.out) = Ids(r.out) \cup ({Head(r.queue).id} \cap all)
  PROVE  Collecting(q, all, lot)
<1> DEFINE row == Head(r.queue)
<1>1. IsSequence(r.queue) /\ r.queue # <<>>
  BY DEF Queued, Sound, Loose
<1>2. Ids(r.queue) = {row.id} \cup Ids(q.queue)
  BY <1>1, HeadAndTail
<1>3. Ids(q.out) = Ids(r.out) \cup ({row.id} \cap all)
  OBVIOUS
<1> HIDE DEF row
<1>4. /\ Ids(r.out) \subseteq all /\ Ids(r.queue) \subseteq lot
      /\ all \ Misses \subseteq Ids(r.out) \cup Ids(r.queue)
  BY DEF Gathers
<1> QED
  BY <1>2, <1>3, <1>4 DEF Collecting

\* The rows of a page, held.
LEMMA KnownHeld ==
  ASSUME NEW limit, NEW most, NEW stages, NEW r, Queued(r, limit, most, stages), Active(r),
         r.stage # "detail", NEW pages, NEW all, Gathers(r, pages, all, all \cup Bad),
         NEW page, Reading(page, pages, r.page, all)
  PROVE  /\ Holds(FoldLeft(KeepLast, r.held, Known(page.rows)), pages, r.page, all \cup Bad)
         /\ Holds(FoldLeft(KeepNewest, r.held, Known(page.rows)), pages, r.page, all \cup Bad)
<1> DEFINE known == Known(page.rows)
           last == FoldLeft(KeepLast, r.held, known)
           newest == FoldLeft(KeepNewest, r.held, known)
<1>1. IsSequence(page.rows) /\ Ids(page.rows) \subseteq all \cup Bad
  BY DEF Reading
<1>2. /\ IsSequence(r.held) /\ Distinct(r.held)
      /\ IsSequence(last) /\ Distinct(last) /\ IsSequence(newest) /\ Distinct(newest)
  BY <1>1, GatheredPages
<1>3. r.page \in Nat \ {0}
  BY Numbers DEF Queued, Sound, Loose
<1>4. Before(pages, r.page) = Before(pages, r.page - 1) \cup (Ids(page.rows) \ Bad)
  BY <1>3, ReadOn
<1>5. Before(pages, r.page - 1) \subseteq Ids(r.held) /\ Ids(r.held) \subseteq all \cup Bad
  BY DEF Gathers
<1>6. IsSequence(known) /\ Shown(known) = Shown(page.rows)
  BY <1>1, UsableIds
<1>7. Ids(known) \subseteq Ids(page.rows)
  BY <1>1, WithoutRows DEF Known
<1> HIDE DEF known
<1>8. Ids(last) = Ids(r.held) \cup Ids(known) /\ Ids(newest) = Ids(r.held) \cup Ids(known)
  BY <1>2, <1>6, KeepLastIds, KeepNewestIds
<1> HIDE DEF last, newest
<1>9. Ids(page.rows) \ Bad \subseteq Ids(known)
  BY <1>6 DEF Shown
<1> QED
  BY <1>1, <1>2, <1>4, <1>5, <1>7, <1>8, <1>9 DEF Holds, last, newest, known

LEMMA UsableHeld ==
  ASSUME NEW limit, NEW most, NEW stages, NEW r, Queued(r, limit, most, stages), Active(r),
         r.stage # "detail", NEW pages, NEW all, Gathers(r, pages, all, all),
         NEW page, Reading(page, pages, r.page, all)
  PROVE  Holds(FoldLeft(KeepFirst, r.held, UsableRows(page.rows)), pages, r.page, all)
<1> DEFINE usable == UsableRows(page.rows)
           first == FoldLeft(KeepFirst, r.held, usable)
<1>1. IsSequence(page.rows) /\ Ids(page.rows) \subseteq all \cup Bad
  BY DEF Reading
<1>2. IsSequence(r.held) /\ Distinct(r.held)
  BY DEF Queued, Sound, Loose, Apart
<1>3. r.page \in Nat \ {0}
  BY Numbers DEF Queued, Sound, Loose
<1>4. Before(pages, r.page) = Before(pages, r.page - 1) \cup (Ids(page.rows) \ Bad)
  BY <1>3, ReadOn
<1>5. Before(pages, r.page - 1) \subseteq Ids(r.held) /\ Ids(r.held) \subseteq all
  BY DEF Gathers
<1>6. IsSequence(usable) /\ Ids(usable) = Ids(page.rows) \ Bad
  BY <1>1, UsableIds DEF Shown
<1> HIDE DEF usable
<1>7. IsSequence(first) /\ Distinct(first)
  BY <1>2, <1>6, KeepFirstAll
<1>8. Ids(first) = Ids(r.held) \cup Ids(usable)
  BY <1>2, <1>6, KeepFirstIds
<1> HIDE DEF first
<1> QED
  BY <1>1, <1>4, <1>5, <1>6, <1>7, <1>8 DEF Holds, first, usable

\* The next page is asked, or the listing has been read.
Turns(r, page, held, pages, all, lot) ==
  /\ Gathers(NextPage(Gathering(r, page, held)), pages, all, lot)
  /\ all \subseteq Before(pages, r.page) => Listable(Gathering(r, page, held), all, lot)
  /\ all \subseteq Before(pages, r.page - 1) => Listable(r, all, lot)
  /\ \A why : Gathers(Failed(r, why), pages, all, lot)

LEMMA GathersOn ==
  ASSUME NEW limit, NEW most, NEW stages, NEW r, Queued(r, limit, most, stages), Active(r),
         r.stage # "detail", NEW pages, NEW all, NEW lot, Gathers(r, pages, all, lot),
         NEW page, Reading(page, pages, r.page, all), NEW held, Holds(held, pages, r.page, lot)
  PROVE  Turns(r, page, held, pages, all, lot)
<1> DEFINE m == Gathering(r, page, held)
           q == NextPage(m)
           n == r.page
<1>1. DOMAIN r = DOMAIN Idle /\ n \in Nat \ {0}
  BY Numbers DEF Queued, Sound, Loose
<1>2. Ids(r.out) = {}
  BY EmptySequence DEF Queued
<1>3. /\ DOMAIN m = DOMAIN Idle /\ m.state = r.state /\ m.stage = r.stage /\ m.page = n
      /\ m.held = held /\ m.out = r.out /\ m.marks = r.marks \cup {page.rows}
  BY <1>1, Fields DEF Gathering
<1> HIDE DEF m
<1>4. /\ q.page = n + 1 /\ q.state = r.state /\ q.stage = r.stage
      /\ q.out = r.out /\ q.held = held /\ q.marks = r.marks \cup {page.rows}
  BY <1>1, <1>3, Turned
<1> HIDE DEF q
<1>5. /\ r.marks \subseteq Upto(pages, n - 1) /\ Before(pages, n - 1) \subseteq Ids(r.held)
      /\ Ids(r.held) \subseteq lot
  BY DEF Gathers
<1>6. Upto(pages, n) = Upto(pages, n - 1) \cup {page.rows}
  BY <1>1, ReadOn
<1>7. Gathers(q, pages, all, lot)
  <2>1. q.page - 1 = n /\ q.state # "done"
    BY <1>1, <1>4 DEF Active
  <2>2. q.marks \subseteq Upto(pages, q.page - 1)
    BY <1>4, <1>5, <1>6, <2>1
  <2>3. Before(pages, q.page - 1) \subseteq Ids(q.held) /\ Ids(q.held) \subseteq lot
    BY <1>4, <2>1 DEF Holds
  <2> QED
    BY <1>2, <1>4, <2>1, <2>2, <2>3 DEF Gathers
<1>8. all \subseteq Before(pages, n) => Listable(m, all, lot)
  BY <1>2, <1>3 DEF Listable, Holds
<1>9. all \subseteq Before(pages, n - 1) => Listable(r, all, lot)
  BY <1>2, <1>5 DEF Listable
<1>10. \A why : Gathers(Failed(r, why), pages, all, lot)
  BY <1>1, <1>2, GathersEnd
<1> QED
  BY <1>7, <1>8, <1>9, <1>10 DEF Turns, q, m

\* The listing has been read, and the rows that count wait.
LEMMA ListedCollecting ==
  ASSUME NEW limit, NEW most, NEW stages, NEW r, Queued(r, limit, most, stages),
         NEW all, NEW lot, Listable(r, all, lot),
         NEW rows, Ids(rows) \subseteq Ids(r.held), Ids(r.held) \ Misses \subseteq Ids(rows)
  PROVE  Collecting(Queueing(r, rows), all, lot)
<1> DEFINE q == Queueing(r, rows)
<1>1. q.queue = rows /\ q.out = r.out
  BY QueueFields DEF Queued, Sound, Loose
<1> HIDE DEF q
<1>2. Collecting(q, all, lot)
  BY <1>1 DEF Collecting, Listable
<1> QED
  BY <1>2 DEF q

-----------------------------------------------------------------------------
(* eva and texas                                                             *)

\* A row is yielded unless the run is full or the row cannot be normalized.
Emitted(q, r, row) ==
  LET bound == Lesser(r.limit, MaxResults)
  IN \/ (Full(r, bound) \/ ~Usable(row)) /\ q = r
     \/ ~Full(r, bound) /\ Usable(row) /\ \E status : q = Yield(r, row, status)

LEMMA EmittedGains ==
  ASSUME NEW limit \in Nat, NEW most \in Nat, Lesser(limit, MaxResults) <= most, NEW stages,
         NEW r, Loose(r, limit, most, stages), Distinct(r.out),
         NEW all, Roomy(all, Lesser(limit, MaxResults)), all \cap Bad = {},
         Ids(r.out) \subseteq all, NEW row, row.id \in all \cup Bad,
         NEW q, Emitted(q, r, row)
  PROVE  /\ Loose(q, limit, most, stages) /\ q.queue = r.queue
         /\ row.id \notin Ids(r.out) => Distinct(q.out)
         /\ Ids(q.out) = Ids(r.out) \cup ({row.id} \cap all) /\ Ids(q.out) \subseteq all
<1> DEFINE bound == Lesser(limit, MaxResults)
<1>1. IsSequence(r.out) /\ Len(r.out) \in Nat /\ r.limit = limit
  BY SequenceLength DEF Loose
<1>5. bound \in Nat /\ bound <= most /\ Roomy(all, bound)
  BY LesserBound
<1>6. \/ (Full(r, bound) \/ ~Usable(row)) /\ q = r
      \/ ~Full(r, bound) /\ Usable(row) /\ \E status : q = Yield(r, row, status)
  BY <1>1 DEF Emitted
<1> HIDE DEF bound
<1>2. Usable(row) <=> row.id \notin Bad
  BY DEF Usable, Bad
<1>3. CASE (Full(r, bound) \/ ~Usable(row)) /\ q = r
  <2>1. ASSUME Full(r, bound) PROVE all \subseteq Ids(r.out)
    <3>1. Len(r.out) >= bound
      BY <2>1 DEF Full
    <3> QED
      BY <1>1, <1>5, <3>1, CountCovers
  <2>2. {row.id} \cap all \subseteq Ids(r.out)
    BY <1>2, <1>3, <2>1
  <2> QED
    BY <1>3, <2>2
<1>4. CASE ~Full(r, bound) /\ Usable(row) /\ \E status : q = Yield(r, row, status)
  <2>1. PICK status : q = Yield(r, row, status)
    BY <1>4
  <2>2. Len(r.out) + 1 <= most
    BY <1>1, <1>4, <1>5 DEF Full
  <2>3. /\ Loose(Yield(r, row, status), limit, most, stages)
        /\ Yield(r, row, status).queue = r.queue
        /\ Ids(Yield(r, row, status).out) = Ids(r.out) \cup {row.id}
        /\ Distinct(r.out) /\ row.id \notin Ids(r.out) => Distinct(Yield(r, row, status).out)
    BY <2>2, Yielded
  <2>4. row.id \in all
    BY <1>2, <1>4
  <2> QED
    BY <2>1, <2>3, <2>4
<1> QED
  BY <1>3, <1>4, <1>6

LEMMA EmittedAll ==
  ASSUME NEW limit \in Nat, NEW most \in Nat, Lesser(limit, MaxResults) <= most, NEW stages,
         NEW r, Waiting(r, limit, most, stages),
         NEW all, Roomy(all, Lesser(limit, MaxResults)), all \cap Bad = {},
         Ids(r.out) \subseteq all, NEW rows, rows = r.queue, Ids(rows) \subseteq all \cup Bad,
         NEW n, n = Len(rows), NEW h, h[0] = r, \A i \in 1..n : Emitted(h[i], h[i - 1], rows[i])
  PROVE  Ids(h[n].out) = Ids(r.out) \cup (Ids(rows) \cap all) /\ Loose(h[n], limit, most, stages)
<1>1. /\ Loose(r, limit, most, stages) /\ Distinct(r.out)
      /\ IsSequence(rows) /\ Distinct(rows) /\ Ids(rows) \cap Ids(r.out) = {}
  BY DEF Waiting, Apart, Loose
<1>2. n \in Nat /\ DOMAIN rows = 1..n
  BY <1>1, SequenceLength
<1>3. /\ IdsTo(rows, 0) = {} /\ IdsTo(rows, n) = Ids(rows)
      /\ \A k \in 1..n : IdsTo(rows, k) = IdsTo(rows, k - 1) \cup {rows[k].id} /\ rows[k].id \in Ids(rows)
  BY <1>1, IdsStep
<1> DEFINE Kept(k) == /\ Loose(h[k], limit, most, stages) /\ Distinct(h[k].out)
                      /\ Ids(h[k].out) = Ids(r.out) \cup (IdsTo(rows, k) \cap all)
           T == {k \in 0..n : Kept(k)}
<1>4. 0 \in T
  BY <1>1, <1>2, <1>3
<1>5. ASSUME NEW k \in 1..n, k - 1 \in T PROVE k \in T
  <2> DEFINE p == h[k - 1]
             q == h[k]
             row == rows[k]
  <2>1. /\ Loose(p, limit, most, stages) /\ Distinct(p.out)
        /\ Ids(p.out) = Ids(r.out) \cup (IdsTo(rows, k - 1) \cap all)
    BY <1>5
  <2>2. row.id \in Ids(rows) /\ IdsTo(rows, k) = IdsTo(rows, k - 1) \cup {row.id}
    BY <1>3
  <2>3. \A j \in 1..(k - 1) : row.id # rows[j].id
    <3>1. \A i, j \in 1..n : rows[i].id = rows[j].id => i = j
      BY <1>1, <1>2 DEF Distinct
    <3> QED
      BY <1>2, <3>1
  <2>4. row.id \notin IdsTo(rows, k - 1)
    BY <2>3 DEF IdsTo
  <2>5. Emitted(q, p, row)
    OBVIOUS
  <2> HIDE DEF p, q, row
  <2>6. Ids(p.out) \subseteq all /\ row.id \in all \cup Bad /\ row.id \notin Ids(p.out)
    BY <1>1, <2>1, <2>2, <2>4
  <2>7. /\ Loose(q, limit, most, stages) /\ Distinct(q.out)
        /\ Ids(q.out) = Ids(p.out) \cup ({row.id} \cap all)
    BY <2>1, <2>5, <2>6, EmittedGains
  <2>8. Ids(q.out) = Ids(r.out) \cup (IdsTo(rows, k) \cap all)
    BY <2>1, <2>2, <2>7
  <2> QED
    BY <2>7, <2>8 DEF q
<1> HIDE DEF T
<1>6. n \in T
  BY <1>2, <1>4, <1>5, First!Induction
<1>7. Kept(n)
  BY <1>6 DEF T
<1> QED
  BY <1>3, <1>7

LEMMA EvaEmitted ==
  ASSUME NEW r, NEW row
  PROVE  Emitted(EvaEmit(r, row), r, row)
<1>1. CASE Full(r, Lesser(r.limit, MaxResults)) \/ ~Usable(row)
  BY <1>1 DEF EvaEmit, Emitted
<1>2. CASE ~Full(r, Lesser(r.limit, MaxResults)) /\ Usable(row)
  BY <1>2 DEF EvaEmit, Emitted
<1> QED
  BY <1>1, <1>2

LEMMA TexasEmitted ==
  ASSUME NEW r, NEW row
  PROVE  Emitted(TexasEmit(r, row), r, row)
<1>1. CASE Full(r, Lesser(r.limit, MaxResults)) \/ ~Usable(row)
  BY <1>1 DEF TexasEmit, Emitted
<1>2. CASE ~Full(r, Lesser(r.limit, MaxResults)) /\ Usable(row)
  BY <1>2 DEF TexasEmit, Emitted
<1> QED
  BY <1>1, <1>2

LEMMA EvaEmitAllIds ==
  ASSUME NEW limit \in Nat, NEW most \in Nat, Lesser(limit, MaxResults) <= most, NEW stages,
         NEW r, Waiting(r, limit, most, stages),
         NEW all, Roomy(all, Lesser(limit, MaxResults)), all \cap Bad = {},
         Ids(r.out) \subseteq all, Ids(r.queue) \subseteq all \cup Bad
  PROVE  LET total == FoldLeft(EvaEmit, r, r.queue)
         IN Ids(total.out) = Ids(r.out) \cup (Ids(r.queue) \cap all) /\ DOMAIN total = DOMAIN Idle
<1> DEFINE rows == r.queue
           n == Len(rows)
           total == FoldLeft(EvaEmit, r, rows)
<1>1. n \in Nat /\ DOMAIN rows = 1..n
  BY SequenceLength DEF Waiting, Loose
<1>2. total = Eva!Folded(r, rows)
  BY DEF Eva!Folded, FoldLeft, MapThenFoldSet, Eva!MapThenFoldSet, Max, Eva!Max
<1>3. rows = r.queue /\ n = Len(rows) /\ Ids(rows) \subseteq all \cup Bad
  OBVIOUS
<1> HIDE DEF n, total, rows
<1>4. PICK h : Eva!Stepped(h, r, rows, n)
  BY <1>1, <1>2, Eva!FoldStepped
<1>5. /\ h[0] = r
      /\ \A i \in 1..n : h[i] = EvaEmit(h[i - 1], rows[i])
      /\ total = h[n]
  BY <1>2, <1>4 DEF Eva!Stepped
<1>6. \A i \in 1..n : Emitted(h[i], h[i - 1], rows[i])
  BY <1>5, EvaEmitted
<1>7. Ids(h[n].out) = Ids(r.out) \cup (Ids(rows) \cap all) /\ Loose(h[n], limit, most, stages)
  BY <1>3, <1>5, <1>6, EmittedAll
<1> QED
  BY <1>3, <1>5, <1>7 DEF Loose, total, rows

LEMMA TexasEmitAllIds ==
  ASSUME NEW limit \in Nat, NEW most \in Nat, Lesser(limit, MaxResults) <= most, NEW stages,
         NEW r, Waiting(r, limit, most, stages),
         NEW all, Roomy(all, Lesser(limit, MaxResults)), all \cap Bad = {},
         Ids(r.out) \subseteq all, Ids(r.queue) \subseteq all \cup Bad
  PROVE  LET total == FoldLeft(TexasEmit, r, r.queue)
         IN Ids(total.out) = Ids(r.out) \cup (Ids(r.queue) \cap all) /\ DOMAIN total = DOMAIN Idle
<1> DEFINE rows == r.queue
           n == Len(rows)
           total == FoldLeft(TexasEmit, r, rows)
<1>1. n \in Nat /\ DOMAIN rows = 1..n
  BY SequenceLength DEF Waiting, Loose
<1>2. total = Texas!Folded(r, rows)
  BY DEF Texas!Folded, FoldLeft, MapThenFoldSet, Texas!MapThenFoldSet, Max, Texas!Max
<1>3. rows = r.queue /\ n = Len(rows) /\ Ids(rows) \subseteq all \cup Bad
  OBVIOUS
<1> HIDE DEF n, total, rows
<1>4. PICK h : Texas!Stepped(h, r, rows, n)
  BY <1>1, <1>2, Texas!FoldStepped
<1>5. /\ h[0] = r
      /\ \A i \in 1..n : h[i] = TexasEmit(h[i - 1], rows[i])
      /\ total = h[n]
  BY <1>2, <1>4 DEF Texas!Stepped
<1>6. \A i \in 1..n : Emitted(h[i], h[i - 1], rows[i])
  BY <1>5, TexasEmitted
<1>7. Ids(h[n].out) = Ids(r.out) \cup (Ids(rows) \cap all) /\ Loose(h[n], limit, most, stages)
  BY <1>3, <1>5, <1>6, EmittedAll
<1> QED
  BY <1>3, <1>5, <1>7 DEF Loose, total, rows

LEMMA EvaRestGathers ==
  ASSUME NEW limit \in Nat, NEW most \in Nat, Lesser(limit, MaxResults) <= most, NEW stages,
         NEW r, Waiting(r, limit, most, stages),
         NEW pages, NEW all, Roomy(all, Lesser(limit, MaxResults)), all \cap Bad = {},
         Collecting(r, all, all \cup Bad)
  PROVE  Gathers(EvaRest(r), pages, all, all \cup Bad)
<1> DEFINE q == EvaRest(r)
           total == FoldLeft(EvaEmit, r, r.queue)
           bound == Lesser(limit, MaxResults)
<1>1. r.limit = limit
  BY DEF Waiting, Loose
<1>2. \/ (r.queue = <<>> \/ Full(r, bound)) /\ q = Done(r)
      \/ q = ToStage(r, "detail")
      \/ q = Done(total)
  BY <1>1 DEF EvaRest
<1>3. Rests(r, bound, pages, all, all \cup Bad)
  <2>1. bound \in Nat
    BY LesserBound
  <2> HIDE DEF bound
  <2> QED
    BY <2>1, GathersRest DEF bound
<1>4. /\ Ids(r.out) \subseteq all /\ Ids(r.queue) \subseteq all \cup Bad
      /\ all \ Misses \subseteq Ids(r.out) \cup Ids(r.queue)
  BY DEF Collecting
<1>5. Ids(total.out) = Ids(r.out) \cup (Ids(r.queue) \cap all) /\ DOMAIN total = DOMAIN Idle
  BY <1>4, EvaEmitAllIds
<1> HIDE DEF q, total, bound
<1>6. Gathers(Done(total), pages, all, all \cup Bad)
  <2>1. Ids(total.out) \subseteq all /\ all \ Misses \subseteq Ids(total.out)
    BY <1>4, <1>5
  <2> QED
    BY <1>5, <2>1, GathersEnd
<1> QED
  BY <1>2, <1>3, <1>6 DEF Rests, q

LEMMA EvaListedGathers ==
  ASSUME NEW limit \in Nat, NEW most \in Nat, Lesser(limit, MaxResults) <= most, NEW stages,
         NEW r, Queued(r, limit, most, stages), Active(r), r.stage # "detail",
         NEW pages, NEW all, Roomy(all, Lesser(limit, MaxResults)), all \cap Bad = {},
         Listable(r, all, all \cup Bad)
  PROVE  Gathers(EvaListed(r), pages, all, all \cup Bad)
<1> DEFINE q == Queueing(r, r.held)
<1>1. IsSequence(r.held) /\ Distinct(r.held)
  BY DEF Queued, Sound, Loose, Apart
<1>2. Waiting(q, limit, most, stages)
  BY <1>1, Loaded
<1>3. Collecting(q, all, all \cup Bad)
  BY ListedCollecting
<1>4. EvaListed(r) = EvaRest(q)
  BY DEF EvaListed, Queueing
<1> HIDE DEF q
<1> QED
  BY <1>2, <1>3, <1>4, EvaRestGathers

LEMMA EvaPageGathers ==
  ASSUME NEW limit \in Nat, NEW most \in Nat, Lesser(limit, MaxResults) <= most, NEW stages,
         NEW r, Queued(r, limit, most, stages), Active(r), r.stage # "detail",
         NEW pages, NEW all, Roomy(all, Lesser(limit, MaxResults)), all \cap Bad = {},
         Gathers(r, pages, all, all \cup Bad), NEW page, Reading(page, pages, r.page, all)
  PROVE  Gathers(EvaPage(r, page), pages, all, all \cup Bad)
<1> DEFINE held == FoldLeft(KeepNewest, r.held, Known(page.rows))
           more == Gathering(r, page, held)
           q == EvaPage(r, page)
<1>1. \/ \E why : q = Failed(r, why)
      \/ (page.rows = <<>> \/ page.rows \in r.marks) /\ q = EvaListed(r)
      \/ (Len(page.rows) < PageSize \/ LastPage(r)) /\ q = EvaListed(more)
      \/ q = NextPage(more)
  BY DEF EvaPage, Gathering
<1>2. Holds(held, pages, r.page, all \cup Bad)
  BY KnownHeld
<1> HIDE DEF held, q
<1>3. Turns(r, page, held, pages, all, all \cup Bad)
  BY <1>2, GathersOn
<1>4. Queued(more, limit, most, stages) /\ more.stage = r.stage /\ Active(more)
  BY <1>2, Gathered DEF Active, Holds
<1>5. /\ page.rows = <<>> \/ page.rows \in Upto(pages, r.page - 1) => all \subseteq Before(pages, r.page - 1)
      /\ Len(page.rows) < PageSize \/ r.page >= MaxPages => all \subseteq Before(pages, r.page)
  BY DEF Reading
<1>6. r.marks \subseteq Upto(pages, r.page - 1)
  BY DEF Gathers
<1>7. Gathers(NextPage(more), pages, all, all \cup Bad) /\ \A why : Gathers(Failed(r, why), pages, all, all \cup Bad)
  BY <1>3 DEF Turns, more
<1> HIDE DEF more
<1>8. ASSUME page.rows = <<>> \/ page.rows \in r.marks PROVE Gathers(EvaListed(r), pages, all, all \cup Bad)
  <2>1. all \subseteq Before(pages, r.page - 1)
    BY <1>5, <1>6, <1>8
  <2>2. Listable(r, all, all \cup Bad)
    BY <1>3, <2>1 DEF Turns
  <2> QED
    BY <2>2, EvaListedGathers
<1>9. ASSUME Len(page.rows) < PageSize \/ LastPage(r) PROVE Gathers(EvaListed(more), pages, all, all \cup Bad)
  <2>1. all \subseteq Before(pages, r.page)
    BY <1>5, <1>9 DEF LastPage
  <2>2. Listable(more, all, all \cup Bad)
    BY <1>3, <2>1 DEF Turns, more
  <2> QED
    BY <1>4, <2>2, EvaListedGathers
<1>10. Gathers(q, pages, all, all \cup Bad)
  BY <1>1, <1>7, <1>8, <1>9
<1> QED
  BY <1>10 DEF q

LEMMA EvaDetailGathers ==
  ASSUME NEW limit \in Nat, NEW most \in Nat, Lesser(limit, MaxResults) <= most, NEW stages,
         NEW r, Queued(r, limit, most, stages), Active(r), r.stage = "detail",
         NEW pages, NEW all, Roomy(all, Lesser(limit, MaxResults)), all \cap Bad = {},
         Gathers(r, pages, all, all \cup Bad), NEW page
  PROVE  Gathers(EvaDetail(r, page), pages, all, all \cup Bad)
<1> DEFINE s == [r EXCEPT !.details = @ + 1, !.queue = Tail(@)]
           row == Head(r.queue)
           q == EvaEmit(s, row)
           rest == Tail(r.queue)
<1>1. DOMAIN r = DOMAIN Idle /\ IsSequence(r.queue) /\ r.queue # <<>>
  BY DEF Queued, Sound, Loose
<1>2. Alike(s, r) /\ s.held = r.held /\ s.queue = rest
  BY <1>1, Fields DEF Alike
<1>3. Ids(r.queue) = {row.id} \cup Ids(rest)
  BY <1>1, HeadAndTail
<1>4. Ids(r.out) \subseteq all /\ Ids(r.queue) \subseteq all \cup Bad
  BY DEF Gathers
<1>5. \/ \E why : EvaDetail(r, page) = Failed(r, why)
      \/ EvaDetail(r, page) = EvaRest(q)
  BY DEF EvaDetail
<1>6. Waiting(s, limit, most, stages) /\ row.id \notin Ids(s.queue) /\ row.id \notin Ids(s.out)
  BY <1>2, HeadTaken
<1> HIDE DEF s
<1>7. s.out = r.out /\ Loose(s, limit, most, stages) /\ Distinct(s.out)
  BY <1>2, <1>6 DEF Alike, Waiting, Apart
<1>8. row.id \in all \cup Bad
  BY <1>3, <1>4
<1> HIDE DEF row, rest
<1>9. Waiting(q, limit, most, stages)
  BY <1>6, EvaEmitWaiting
<1>10. Emitted(q, s, row)
  BY EvaEmitted
<1> HIDE DEF q
<1>11. q.queue = s.queue /\ Ids(q.out) = Ids(s.out) \cup ({row.id} \cap all)
  BY <1>4, <1>7, <1>8, <1>10, EmittedGains
<1>12. Collecting(q, all, all \cup Bad)
  <2>1. q.queue = Tail(r.queue) /\ Ids(q.out) = Ids(r.out) \cup ({Head(r.queue).id} \cap all)
    BY <1>2, <1>7, <1>11 DEF row, rest
  <2> QED
    BY <2>1, HeadGathered
<1>13. Gathers(EvaRest(q), pages, all, all \cup Bad)
  BY <1>9, <1>12, EvaRestGathers
<1>14. \A why : Gathers(Failed(r, why), pages, all, all \cup Bad)
  BY <1>1, <1>4, GathersEnd
<1> QED
  BY <1>5, <1>13, <1>14

LEMMA TexasRestGathers ==
  ASSUME NEW limit \in Nat, NEW most \in Nat, Lesser(limit, MaxResults) <= most, NEW stages,
         NEW r, Waiting(r, limit, most, stages),
         NEW pages, NEW all, Roomy(all, Lesser(limit, MaxResults)), all \cap Bad = {},
         Collecting(r, all, all \cup Bad)
  PROVE  Gathers(TexasRest(r), pages, all, all \cup Bad)
<1> DEFINE q == TexasRest(r)
           total == FoldLeft(TexasEmit, r, r.queue)
           bound == Lesser(limit, MaxResults)
<1>1. r.limit = limit
  BY DEF Waiting, Loose
<1>2. \/ (r.queue = <<>> \/ Full(r, bound)) /\ q = Done(r)
      \/ q = ToStage(r, "detail")
      \/ q = Done(total)
  BY <1>1 DEF TexasRest
<1>3. Rests(r, bound, pages, all, all \cup Bad)
  <2>1. bound \in Nat
    BY LesserBound
  <2> HIDE DEF bound
  <2> QED
    BY <2>1, GathersRest DEF bound
<1>4. /\ Ids(r.out) \subseteq all /\ Ids(r.queue) \subseteq all \cup Bad
      /\ all \ Misses \subseteq Ids(r.out) \cup Ids(r.queue)
  BY DEF Collecting
<1>5. Ids(total.out) = Ids(r.out) \cup (Ids(r.queue) \cap all) /\ DOMAIN total = DOMAIN Idle
  BY <1>4, TexasEmitAllIds
<1> HIDE DEF q, total, bound
<1>6. Gathers(Done(total), pages, all, all \cup Bad)
  <2>1. Ids(total.out) \subseteq all /\ all \ Misses \subseteq Ids(total.out)
    BY <1>4, <1>5
  <2> QED
    BY <1>5, <2>1, GathersEnd
<1> QED
  BY <1>2, <1>3, <1>6 DEF Rests, q

LEMMA TexasListedGathers ==
  ASSUME NEW limit \in Nat, NEW most \in Nat, Lesser(limit, MaxResults) <= most, NEW stages,
         NEW r, Queued(r, limit, most, stages), Active(r), r.stage # "detail",
         NEW pages, NEW all, Roomy(all, Lesser(limit, MaxResults)), all \cap Bad = {},
         Listable(r, all, all \cup Bad)
  PROVE  Gathers(TexasListed(r), pages, all, all \cup Bad)
<1> DEFINE q == Queueing(r, r.held)
<1>1. IsSequence(r.held) /\ Distinct(r.held)
  BY DEF Queued, Sound, Loose, Apart
<1>2. Waiting(q, limit, most, stages)
  BY <1>1, Loaded
<1>3. Collecting(q, all, all \cup Bad)
  BY ListedCollecting
<1>4. TexasListed(r) = TexasRest(q)
  BY DEF TexasListed, Queueing
<1> HIDE DEF q
<1> QED
  BY <1>2, <1>3, <1>4, TexasRestGathers

LEMMA TexasPageGathers ==
  ASSUME NEW limit \in Nat, NEW most \in Nat, Lesser(limit, MaxResults) <= most, NEW stages,
         NEW r, Queued(r, limit, most, stages), Active(r), r.stage # "detail",
         NEW pages, NEW all, Roomy(all, Lesser(limit, MaxResults)), all \cap Bad = {},
         Gathers(r, pages, all, all \cup Bad), NEW page, Reading(page, pages, r.page, all)
  PROVE  Gathers(TexasPage(r, page), pages, all, all \cup Bad)
<1> DEFINE held == FoldLeft(KeepLast, r.held, Known(page.rows))
           more == Gathering(r, page, held)
           q == TexasPage(r, page)
<1>1. \/ \E why : q = Failed(r, why)
      \/ (page.rows = <<>> \/ page.rows \in r.marks) /\ q = TexasListed(r)
      \/ (Len(page.rows) < PageSize \/ LastPage(r)) /\ q = TexasListed(more)
      \/ q = NextPage(more)
  BY DEF TexasPage, Gathering
<1>2. Holds(held, pages, r.page, all \cup Bad)
  BY KnownHeld
<1> HIDE DEF held, q
<1>3. Turns(r, page, held, pages, all, all \cup Bad)
  BY <1>2, GathersOn
<1>4. Queued(more, limit, most, stages) /\ more.stage = r.stage /\ Active(more)
  BY <1>2, Gathered DEF Active, Holds
<1>5. /\ page.rows = <<>> \/ page.rows \in Upto(pages, r.page - 1) => all \subseteq Before(pages, r.page - 1)
      /\ Len(page.rows) < PageSize \/ r.page >= MaxPages => all \subseteq Before(pages, r.page)
  BY DEF Reading
<1>6. r.marks \subseteq Upto(pages, r.page - 1)
  BY DEF Gathers
<1>7. Gathers(NextPage(more), pages, all, all \cup Bad) /\ \A why : Gathers(Failed(r, why), pages, all, all \cup Bad)
  BY <1>3 DEF Turns, more
<1> HIDE DEF more
<1>8. ASSUME page.rows = <<>> \/ page.rows \in r.marks PROVE Gathers(TexasListed(r), pages, all, all \cup Bad)
  <2>1. all \subseteq Before(pages, r.page - 1)
    BY <1>5, <1>6, <1>8
  <2>2. Listable(r, all, all \cup Bad)
    BY <1>3, <2>1 DEF Turns
  <2> QED
    BY <2>2, TexasListedGathers
<1>9. ASSUME Len(page.rows) < PageSize \/ LastPage(r) PROVE Gathers(TexasListed(more), pages, all, all \cup Bad)
  <2>1. all \subseteq Before(pages, r.page)
    BY <1>5, <1>9 DEF LastPage
  <2>2. Listable(more, all, all \cup Bad)
    BY <1>3, <2>1 DEF Turns, more
  <2> QED
    BY <1>4, <2>2, TexasListedGathers
<1>10. Gathers(q, pages, all, all \cup Bad)
  BY <1>1, <1>7, <1>8, <1>9
<1> QED
  BY <1>10 DEF q

LEMMA TexasDetailGathers ==
  ASSUME NEW limit \in Nat, NEW most \in Nat, Lesser(limit, MaxResults) <= most, NEW stages,
         NEW r, Queued(r, limit, most, stages), Active(r), r.stage = "detail",
         NEW pages, NEW all, Roomy(all, Lesser(limit, MaxResults)), all \cap Bad = {},
         Gathers(r, pages, all, all \cup Bad), NEW page
  PROVE  Gathers(TexasDetail(r, page), pages, all, all \cup Bad)
<1> DEFINE s == [r EXCEPT !.details = @ + 1, !.queue = Tail(@)]
           row == Head(r.queue)
           q == TexasEmit(s, row)
           rest == Tail(r.queue)
<1>1. DOMAIN r = DOMAIN Idle /\ IsSequence(r.queue) /\ r.queue # <<>>
  BY DEF Queued, Sound, Loose
<1>2. Alike(s, r) /\ s.held = r.held /\ s.queue = rest
  BY <1>1, Fields DEF Alike
<1>3. Ids(r.queue) = {row.id} \cup Ids(rest)
  BY <1>1, HeadAndTail
<1>4. Ids(r.out) \subseteq all /\ Ids(r.queue) \subseteq all \cup Bad
  BY DEF Gathers
<1>5. \/ \E why : TexasDetail(r, page) = Failed(r, why)
      \/ TexasDetail(r, page) = TexasRest(q)
  BY DEF TexasDetail
<1>6. Waiting(s, limit, most, stages) /\ row.id \notin Ids(s.queue) /\ row.id \notin Ids(s.out)
  BY <1>2, HeadTaken
<1> HIDE DEF s
<1>7. s.out = r.out /\ Loose(s, limit, most, stages) /\ Distinct(s.out)
  BY <1>2, <1>6 DEF Alike, Waiting, Apart
<1>8. row.id \in all \cup Bad
  BY <1>3, <1>4
<1> HIDE DEF row, rest
<1>9. Waiting(q, limit, most, stages)
  BY <1>6, TexasEmitWaiting
<1>10. Emitted(q, s, row)
  BY TexasEmitted
<1> HIDE DEF q
<1>11. q.queue = s.queue /\ Ids(q.out) = Ids(s.out) \cup ({row.id} \cap all)
  BY <1>4, <1>7, <1>8, <1>10, EmittedGains
<1>12. Collecting(q, all, all \cup Bad)
  <2>1. q.queue = Tail(r.queue) /\ Ids(q.out) = Ids(r.out) \cup ({Head(r.queue).id} \cap all)
    BY <1>2, <1>7, <1>11 DEF row, rest
  <2> QED
    BY <2>1, HeadGathered
<1>13. Gathers(TexasRest(q), pages, all, all \cup Bad)
  BY <1>9, <1>12, TexasRestGathers
<1>14. \A why : Gathers(Failed(r, why), pages, all, all \cup Bad)
  BY <1>1, <1>4, GathersEnd
<1> QED
  BY <1>5, <1>13, <1>14

-----------------------------------------------------------------------------
(* pennsylvania and cgi                                                      *)

LEMMA GathersMoved ==
  ASSUME NEW r, DOMAIN r = DOMAIN Idle, Active(r), r.stage # "detail", NEW stage, stage # "detail",
         NEW pages, NEW all, NEW lot, Gathers(r, pages, all, lot)
  PROVE  Gathers(ToStage(r, stage), pages, all, lot)
<1> DEFINE q == ToStage(r, stage)
<1>1. /\ q.stage = stage /\ q.state = r.state /\ q.page = r.page /\ q.out = r.out
      /\ q.held = r.held /\ q.marks = r.marks
  BY Moved
<1> HIDE DEF q
<1>2. Gathers(q, pages, all, lot)
  BY <1>1 DEF Gathers, Active
<1> QED
  BY <1>2 DEF q

\* The row of the detail page in hand, yielded; or dropped for what it lacks.
LEMMA HeadCollected ==
  ASSUME NEW limit \in Nat, NEW most \in Nat, NEW stages,
         NEW r, Queued(r, limit, most, stages), Active(r), r.stage = "detail",
         NEW pages, NEW all, all \cap Bad = {}, Gathers(r, pages, all, all \cup Bad)
  PROVE  /\ Usable(Head(r.queue)) =>
              \A status : LET q == Queueing(Yield(r, Head(r.queue), status), Tail(r.queue))
                          IN Waiting(q, limit, most, stages) /\ Collecting(q, all, all \cup Bad)
         /\ ~Usable(Head(r.queue)) =>
              LET q == Queueing(r, Tail(r.queue))
              IN Waiting(q, limit, most, stages) /\ Collecting(q, all, all \cup Bad)
<1> DEFINE row == Head(r.queue)
           rest == Tail(r.queue)
<1>1. /\ Loose(r, limit, most, stages) /\ DOMAIN r = DOMAIN Idle /\ Len(r.out) + 1 <= most
      /\ IsSequence(r.queue) /\ r.queue # <<>>
  BY SequenceLength DEF Queued, Sound, Loose
<1>2. Ids(r.queue) = {row.id} \cup Ids(rest)
  BY <1>1, HeadAndTail
<1>3. row.id \in all \cup Bad
  BY <1>2 DEF Gathers
<1>4. Usable(row) <=> row.id \notin Bad
  BY DEF Usable, Bad
<1> HIDE DEF row, rest
<1>5. ASSUME Usable(row), NEW status
      PROVE  LET q == Queueing(Yield(r, row, status), rest)
             IN Waiting(q, limit, most, stages) /\ Collecting(q, all, all \cup Bad)
  <2> DEFINE y == Yield(r, row, status)
             q == Queueing(y, rest)
  <2>1. Waiting(q, limit, most, stages)
    BY HeadYielded DEF row, rest
  <2>2. DOMAIN y = DOMAIN Idle /\ Ids(y.out) = Ids(r.out) \cup {row.id}
    <3>1. Loose(y, limit, most, stages) /\ Ids(y.out) = Ids(r.out) \cup {row.id}
      BY <1>1, Yielded
    <3> QED
      BY <3>1 DEF Loose
  <2> HIDE DEF y
  <2>3. q.queue = rest /\ q.out = y.out
    BY <2>2, QueueFields
  <2> HIDE DEF q
  <2>4. q.queue = Tail(r.queue) /\ Ids(q.out) = Ids(r.out) \cup ({Head(r.queue).id} \cap all)
    <3>1. {row.id} \cap all = {row.id}
      BY <1>3, <1>4, <1>5
    <3> QED
      BY <2>2, <2>3, <3>1 DEF row, rest
  <2>5. Collecting(q, all, all \cup Bad)
    BY <2>4, HeadGathered
  <2> QED
    BY <2>1, <2>5 DEF q, y
<1>6. ASSUME ~Usable(row)
      PROVE  LET q == Queueing(r, rest)
             IN Waiting(q, limit, most, stages) /\ Collecting(q, all, all \cup Bad)
  <2> DEFINE q == Queueing(r, rest)
  <2>1. Alike(q, r) /\ q.held = r.held /\ q.queue = rest
    BY <1>1, QueueFields DEF Alike
  <2> HIDE DEF q
  <2>2. Waiting(q, limit, most, stages)
    BY <2>1, HeadTaken DEF rest
  <2>3. q.queue = Tail(r.queue) /\ Ids(q.out) = Ids(r.out) \cup ({Head(r.queue).id} \cap all)
    <3>1. {row.id} \cap all = {}
      BY <1>4, <1>6
    <3> QED
      BY <2>1, <3>1 DEF row, rest, Alike
  <2>4. Collecting(q, all, all \cup Bad)
    BY <2>3, HeadGathered
  <2> QED
    BY <2>2, <2>4 DEF q
<1> QED
  BY <1>5, <1>6 DEF row, rest

LEMMA PennsylvaniaRestGathers ==
  ASSUME NEW limit \in Nat, NEW most \in Nat, NEW stages,
         NEW r, Waiting(r, limit, most, stages),
         NEW pages, NEW all, NEW lot, Roomy(all, Lesser(limit, MaxResults)), Collecting(r, all, lot)
  PROVE  Gathers(PennsylvaniaRest(r), pages, all, lot)
<1> DEFINE q == PennsylvaniaRest(r)
           bound == Lesser(limit, MaxResults)
<1>1. r.limit = limit
  BY DEF Waiting, Loose
<1>2. \/ (r.queue = <<>> \/ Full(r, bound)) /\ q = Done(r)
      \/ q = ToStage(r, "detail")
  BY <1>1 DEF PennsylvaniaRest
<1>3. Rests(r, bound, pages, all, lot)
  <2>1. bound \in Nat
    BY LesserBound
  <2> HIDE DEF bound
  <2> QED
    BY <2>1, GathersRest DEF bound
<1> HIDE DEF q, bound
<1> QED
  BY <1>2, <1>3 DEF Rests, q

LEMMA PennsylvaniaListedGathers ==
  ASSUME NEW limit \in Nat, NEW most \in Nat, NEW stages,
         NEW r, Queued(r, limit, most, stages), Active(r), r.stage # "detail",
         NEW pages, NEW all, NEW lot, Roomy(all, Lesser(limit, MaxResults)), Listable(r, all, lot)
  PROVE  Gathers(PennsylvaniaListed(r), pages, all, lot)
<1> DEFINE q == Queueing(r, r.held)
<1>1. IsSequence(r.held) /\ Distinct(r.held)
  BY DEF Queued, Sound, Loose, Apart
<1>2. Waiting(q, limit, most, stages)
  BY <1>1, Loaded
<1>3. Collecting(q, all, lot)
  BY ListedCollecting
<1>4. PennsylvaniaListed(r) = PennsylvaniaRest(q)
  BY DEF PennsylvaniaListed, Queueing
<1> HIDE DEF q
<1> QED
  BY <1>2, <1>3, <1>4, PennsylvaniaRestGathers

LEMMA PennsylvaniaPageGathers ==
  ASSUME NEW limit \in Nat, NEW most \in Nat, NEW stages,
         NEW r, Queued(r, limit, most, stages), Active(r), r.stage # "detail",
         NEW pages, NEW all, Roomy(all, Lesser(limit, MaxResults)),
         Gathers(r, pages, all, all \cup Bad), NEW page, Reading(page, pages, r.page, all)
  PROVE  Gathers(PennsylvaniaPage(r, page), pages, all, all \cup Bad)
<1> DEFINE held == FoldLeft(KeepLast, r.held, Known(page.rows))
           more == Gathering(r, page, held)
           q == PennsylvaniaPage(r, page)
<1>0. "expired" \notin page.words /\ ~page.garbled
  BY DEF Reading
<1>1. \/ (page.rows = <<>> \/ page.rows \in r.marks) /\ q = PennsylvaniaListed(r)
      \/ (Len(page.rows) < PageSize \/ LastPage(r)) /\ q = PennsylvaniaListed(more)
      \/ q = NextPage(more)
  BY <1>0 DEF PennsylvaniaPage, Gathering
<1>2. Holds(held, pages, r.page, all \cup Bad)
  BY KnownHeld
<1> HIDE DEF held, q
<1>3. Turns(r, page, held, pages, all, all \cup Bad)
  BY <1>2, GathersOn
<1>4. Queued(more, limit, most, stages) /\ more.stage = r.stage /\ Active(more)
  BY <1>2, Gathered DEF Active, Holds
<1>5. /\ page.rows = <<>> \/ page.rows \in Upto(pages, r.page - 1) => all \subseteq Before(pages, r.page - 1)
      /\ Len(page.rows) < PageSize \/ r.page >= MaxPages => all \subseteq Before(pages, r.page)
  BY DEF Reading
<1>6. r.marks \subseteq Upto(pages, r.page - 1)
  BY DEF Gathers
<1>7. Gathers(NextPage(more), pages, all, all \cup Bad)
  BY <1>3 DEF Turns, more
<1> HIDE DEF more
<1>8. ASSUME page.rows = <<>> \/ page.rows \in r.marks
      PROVE  Gathers(PennsylvaniaListed(r), pages, all, all \cup Bad)
  <2>1. all \subseteq Before(pages, r.page - 1)
    BY <1>5, <1>6, <1>8
  <2>2. Listable(r, all, all \cup Bad)
    BY <1>3, <2>1 DEF Turns
  <2> QED
    BY <2>2, PennsylvaniaListedGathers
<1>9. ASSUME Len(page.rows) < PageSize \/ LastPage(r)
      PROVE  Gathers(PennsylvaniaListed(more), pages, all, all \cup Bad)
  <2>1. all \subseteq Before(pages, r.page)
    BY <1>5, <1>9 DEF LastPage
  <2>2. Listable(more, all, all \cup Bad)
    BY <1>3, <2>1 DEF Turns, more
  <2> QED
    BY <1>4, <2>2, PennsylvaniaListedGathers
<1>10. Gathers(q, pages, all, all \cup Bad)
  BY <1>1, <1>7, <1>8, <1>9
<1> QED
  BY <1>10 DEF q

LEMMA PennsylvaniaDetailGathers ==
  ASSUME NEW limit \in Nat, NEW most \in Nat, NEW stages,
         NEW r, Queued(r, limit, most, stages), Active(r), r.stage = "detail",
         NEW pages, NEW all, Roomy(all, Lesser(limit, MaxResults)), all \cap Bad = {},
         Gathers(r, pages, all, all \cup Bad)
  PROVE  Gathers(PennsylvaniaDetail(r), pages, all, all \cup Bad)
<1> DEFINE row == Head(r.queue)
           status == PennsylvaniaStatus(row.says)
           y == Yield(r, row, status)
           rest == Tail(r.queue)
           done == Queueing(y, rest)
           skipped == Queueing(r, rest)
<1>0. DOMAIN r = DOMAIN Idle /\ y.queue = r.queue
  BY Yielded, SequenceLength, Fields DEF Queued, Sound, Loose, Yield
<1>1. \/ Usable(row) /\ PennsylvaniaDetail(r) = PennsylvaniaRest(done)
      \/ ~Usable(row) /\ PennsylvaniaDetail(r) = PennsylvaniaRest(skipped)
  BY <1>0 DEF PennsylvaniaDetail, PennsylvaniaDropped, PennsylvaniaEmit, Queueing
<1>2. Usable(row) => Waiting(done, limit, most, stages) /\ Collecting(done, all, all \cup Bad)
  BY HeadCollected
<1>3. ~Usable(row) => Waiting(skipped, limit, most, stages) /\ Collecting(skipped, all, all \cup Bad)
  BY HeadCollected
<1> HIDE DEF row, y, done, skipped
<1>4. Usable(row) => Gathers(PennsylvaniaRest(done), pages, all, all \cup Bad)
  BY <1>2, PennsylvaniaRestGathers
<1>5. ~Usable(row) => Gathers(PennsylvaniaRest(skipped), pages, all, all \cup Bad)
  BY <1>3, PennsylvaniaRestGathers
<1> QED
  BY <1>1, <1>4, <1>5

LEMMA PennsylvaniaSessionGathers ==
  ASSUME NEW limit \in Nat, NEW most \in Nat, NEW stages,
         NEW r, Queued(r, limit, most, stages), Active(r), r.stage = "session",
         NEW pages, NEW all, NEW lot, Roomy(all, Lesser(limit, MaxResults)), Gathers(r, pages, all, lot),
         r.page > MaxPages => all \subseteq Before(pages, r.page - 1)
  PROVE  Gathers(PennsylvaniaSession(r), pages, all, lot)
<1>1. CASE r.page > MaxPages
  <2>1. Ids(r.out) = {}
    BY EmptySequence DEF Queued
  <2>2. Before(pages, r.page - 1) \subseteq Ids(r.held) /\ Ids(r.held) \subseteq lot
    BY DEF Gathers
  <2>3. Listable(r, all, lot)
    BY <1>1, <2>1, <2>2 DEF Listable
  <2>4. Gathers(PennsylvaniaListed(r), pages, all, lot)
    BY <2>3, PennsylvaniaListedGathers
  <2> QED
    BY <1>1, <2>4 DEF PennsylvaniaSession
<1>2. CASE ~(r.page > MaxPages)
  <2>1. Gathers(ToStage(r, "page"), pages, all, lot)
    BY GathersMoved DEF Queued, Sound, Loose
  <2> QED
    BY <1>2, <2>1 DEF PennsylvaniaSession
<1> QED
  BY <1>1, <1>2

LEMMA CgiSessionGathers ==
  ASSUME NEW r, DOMAIN r = DOMAIN Idle, Active(r), r.stage # "detail",
         NEW pages, NEW all, NEW lot, Gathers(r, pages, all, lot), NEW page
  PROVE  Gathers(CgiSession(r, page), pages, all, lot)
<1>1. Gathers(ToStage(r, "form"), pages, all, lot) /\ Gathers(ToStage(r, "page"), pages, all, lot)
  BY GathersMoved
<1>2. \A why : Gathers(Failed(r, why), pages, all, lot)
  <2>1. Ids(r.out) \subseteq all
    BY DEF Gathers
  <2> QED
    BY <2>1, GathersEnd
<1> QED
  BY <1>1, <1>2 DEF CgiSession

LEMMA CgiRestGathers ==
  ASSUME NEW limit \in Nat, NEW most \in Nat, NEW stages,
         NEW r, Waiting(r, limit, most, stages),
         NEW pages, NEW all, NEW lot, Roomy(all, Lesser(limit, MaxResults)), Collecting(r, all, lot)
  PROVE  Gathers(CgiRest(r), pages, all, lot)
<1> DEFINE q == CgiRest(r)
           bound == Lesser(limit, MaxResults)
<1>1. r.limit = limit
  BY DEF Waiting, Loose
<1>2. \/ (r.queue = <<>> \/ Full(r, bound)) /\ q = Done(r)
      \/ q = ToStage(r, "detail")
  BY <1>1 DEF CgiRest
<1>3. Rests(r, bound, pages, all, lot)
  <2>1. bound \in Nat
    BY LesserBound
  <2> HIDE DEF bound
  <2> QED
    BY <2>1, GathersRest DEF bound
<1> HIDE DEF q, bound
<1> QED
  BY <1>2, <1>3 DEF Rests, q

LEMMA CgiListedGathers ==
  ASSUME NEW limit \in Nat, NEW most \in Nat, NEW stages,
         NEW r, Queued(r, limit, most, stages), Active(r), r.stage # "detail",
         NEW pages, NEW all, NEW lot, Roomy(all, Lesser(limit, MaxResults)), Listable(r, all, lot)
  PROVE  Gathers(CgiListed(r), pages, all, lot)
<1> DEFINE q == Queueing(r, r.held)
<1>1. IsSequence(r.held) /\ Distinct(r.held)
  BY DEF Queued, Sound, Loose, Apart
<1>2. Waiting(q, limit, most, stages)
  BY <1>1, Loaded
<1>3. Collecting(q, all, lot)
  BY ListedCollecting
<1>4. CgiListed(r) = CgiRest(q)
  BY DEF CgiListed, Queueing
<1> HIDE DEF q
<1> QED
  BY <1>2, <1>3, <1>4, CgiRestGathers

LEMMA CgiPageGathers ==
  ASSUME NEW limit \in Nat, NEW most \in Nat, NEW stages,
         NEW r, Queued(r, limit, most, stages), Active(r), r.stage # "detail",
         NEW pages, NEW all, Roomy(all, Lesser(limit, MaxResults)),
         Gathers(r, pages, all, all \cup Bad), NEW page, Reading(page, pages, r.page, all)
  PROVE  Gathers(CgiPage(r, page), pages, all, all \cup Bad)
<1> DEFINE held == FoldLeft(KeepLast, r.held, Known(page.rows))
           more == Gathering(r, page, held)
           q == CgiPage(r, page)
<1>0. "expired" \notin page.words /\ ~page.garbled
  BY DEF Reading
<1>1. \/ (page.rows = <<>> \/ page.rows \in r.marks) /\ q = CgiListed(r)
      \/ (Len(page.rows) < PageSize \/ LastPage(r)) /\ q = CgiListed(more)
      \/ q = NextPage(more)
  BY <1>0 DEF CgiPage, Gathering
<1>2. Holds(held, pages, r.page, all \cup Bad)
  BY KnownHeld
<1> HIDE DEF held, q
<1>3. Turns(r, page, held, pages, all, all \cup Bad)
  BY <1>2, GathersOn
<1>4. Queued(more, limit, most, stages) /\ more.stage = r.stage /\ Active(more)
  BY <1>2, Gathered DEF Active, Holds
<1>5. /\ page.rows = <<>> \/ page.rows \in Upto(pages, r.page - 1) => all \subseteq Before(pages, r.page - 1)
      /\ Len(page.rows) < PageSize \/ r.page >= MaxPages => all \subseteq Before(pages, r.page)
  BY DEF Reading
<1>6. r.marks \subseteq Upto(pages, r.page - 1)
  BY DEF Gathers
<1>7. Gathers(NextPage(more), pages, all, all \cup Bad)
  BY <1>3 DEF Turns, more
<1> HIDE DEF more
<1>8. ASSUME page.rows = <<>> \/ page.rows \in r.marks
      PROVE  Gathers(CgiListed(r), pages, all, all \cup Bad)
  <2>1. all \subseteq Before(pages, r.page - 1)
    BY <1>5, <1>6, <1>8
  <2>2. Listable(r, all, all \cup Bad)
    BY <1>3, <2>1 DEF Turns
  <2> QED
    BY <2>2, CgiListedGathers
<1>9. ASSUME Len(page.rows) < PageSize \/ LastPage(r)
      PROVE  Gathers(CgiListed(more), pages, all, all \cup Bad)
  <2>1. all \subseteq Before(pages, r.page)
    BY <1>5, <1>9 DEF LastPage
  <2>2. Listable(more, all, all \cup Bad)
    BY <1>3, <2>1 DEF Turns, more
  <2> QED
    BY <1>4, <2>2, CgiListedGathers
<1>10. Gathers(q, pages, all, all \cup Bad)
  BY <1>1, <1>7, <1>8, <1>9
<1> QED
  BY <1>10 DEF q

LEMMA CgiDetailGathers ==
  ASSUME NEW limit \in Nat, NEW most \in Nat, NEW stages,
         NEW r, Queued(r, limit, most, stages), Active(r), r.stage = "detail",
         NEW pages, NEW all, Roomy(all, Lesser(limit, MaxResults)), all \cap Bad = {},
         Gathers(r, pages, all, all \cup Bad), NEW page, ~page.garbled
  PROVE  Gathers(CgiDetail(r, page), pages, all, all \cup Bad)
<1> DEFINE row == Head(r.queue)
           status == CgiStatus(row.says)
           y == Yield(r, row, status)
           rest == Tail(r.queue)
           done == Queueing(y, rest)
           skipped == Queueing(r, rest)
<1>0. DOMAIN r = DOMAIN Idle /\ y.queue = r.queue
  BY Yielded, SequenceLength, Fields DEF Queued, Sound, Loose, Yield
<1>1. \/ Usable(row) /\ CgiDetail(r, page) = CgiRest(done)
      \/ ~Usable(row) /\ CgiDetail(r, page) = CgiRest(skipped)
  BY <1>0 DEF CgiDetail, CgiDropped, CgiEmit, Queueing
<1>2. Usable(row) => Waiting(done, limit, most, stages) /\ Collecting(done, all, all \cup Bad)
  BY HeadCollected
<1>3. ~Usable(row) => Waiting(skipped, limit, most, stages) /\ Collecting(skipped, all, all \cup Bad)
  BY HeadCollected
<1> HIDE DEF row, y, done, skipped
<1>4. Usable(row) => Gathers(CgiRest(done), pages, all, all \cup Bad)
  BY <1>2, CgiRestGathers
<1>5. ~Usable(row) => Gathers(CgiRest(skipped), pages, all, all \cup Bad)
  BY <1>3, CgiRestGathers
<1> QED
  BY <1>1, <1>4, <1>5

-----------------------------------------------------------------------------
(* Listings that are filtered before the details are asked.                  *)

LEMMA MeetingIds ==
  ASSUME NEW rows, IsSequence(rows), NEW wanted, NEW criteria
  PROVE  /\ Ids(Meeting(rows, wanted, criteria)) \subseteq Ids(rows)
         /\ Ids(rows) \ Misses \subseteq Ids(Meeting(rows, wanted, criteria))
<1>1. Ids(Without(rows, Misses)) = Ids(rows) \ Misses
  BY WithoutRows
<1>2. Meeting(rows, wanted, criteria) = rows \/ Meeting(rows, wanted, criteria) = Without(rows, Misses)
  BY DEF Meeting
<1> QED
  BY <1>1, <1>2

\* What is left of the listing waits, or there is nothing to wait.
LEMMA KeptGathers ==
  ASSUME NEW r, DOMAIN r = DOMAIN Idle, NEW pages, NEW all, NEW lot, Listable(r, all, lot),
         NEW rows, Ids(rows) \subseteq Ids(r.held), Ids(r.held) \ Misses \subseteq Ids(rows)
  PROVE  /\ rows = <<>> => Gathers(Done(r), pages, all, lot)
         /\ \A q : q.state = "asking" /\ q.stage = "detail" /\ q.out = r.out /\ q.queue = rows
                   => Gathers(q, pages, all, lot)
<1> DEFINE none == <<>>
<1>1. Ids(r.out) = {} /\ all \subseteq Ids(r.held) /\ Ids(r.held) \subseteq lot
  BY DEF Listable
<1>2. Ids(none) = {}
  BY EmptySequence
<1> HIDE DEF none
<1>3. rows = none => Gathers(Done(r), pages, all, lot)
  <2>1. rows = none => all \ Misses \subseteq Ids(r.out)
    BY <1>1, <1>2
  <2> QED
    BY <1>1, <2>1, GathersEnd
<1>4. ASSUME NEW q, q.state = "asking", q.stage = "detail", q.out = r.out, q.queue = rows
      PROVE  Gathers(q, pages, all, lot)
  BY <1>1, <1>4 DEF Gathers
<1> QED
  BY <1>3, <1>4 DEF none

LEMMA CollectListedGathers ==
  ASSUME NEW limit, NEW most, NEW stages, NEW r, Queued(r, limit, most, stages), Active(r),
         NEW pages, NEW all, NEW lot, Listable(r, all, lot), NEW criteria
  PROVE  Gathers(CollectListed(r, criteria), pages, all, lot)
<1> DEFINE kept == Meeting(r.held, r.wanted, criteria)
           q == [ToStage(r, "detail") EXCEPT !.queue = kept]
<1>1. DOMAIN r = DOMAIN Idle /\ IsSequence(r.held)
  BY DEF Queued, Sound, Loose
<1>2. Ids(kept) \subseteq Ids(r.held) /\ Ids(r.held) \ Misses \subseteq Ids(kept)
  BY <1>1, MeetingIds
<1>3. (kept = <<>> /\ CollectListed(r, criteria) = Done(r)) \/ CollectListed(r, criteria) = q
  BY DEF CollectListed
<1> HIDE DEF kept
<1>4. q.state = "asking" /\ q.stage = "detail" /\ q.out = r.out /\ q.queue = kept
  <2>1. /\ DOMAIN ToStage(r, "detail") = DOMAIN Idle /\ ToStage(r, "detail").stage = "detail"
        /\ ToStage(r, "detail").state = r.state /\ ToStage(r, "detail").out = r.out
    BY <1>1, Moved
  <2> QED
    BY <2>1, Fields DEF Active
<1> HIDE DEF q
<1> QED
  BY <1>1, <1>2, <1>3, <1>4, KeptGathers

LEMMA CollectPageGathers ==
  ASSUME NEW limit \in Nat, NEW most \in Nat, NEW stages,
         NEW r, Queued(r, limit, most, stages), Active(r), r.stage # "detail",
         NEW pages, NEW all,
         Gathers(r, pages, all, all \cup Bad), NEW page, Reading(page, pages, r.page, all),
         NEW criteria, NEW single, single => ~page.more
  PROVE  Gathers(CollectPage(r, page, criteria, single), pages, all, all \cup Bad)
<1> DEFINE held == FoldLeft(KeepLast, r.held, Known(page.rows))
           more == Gathering(r, page, held)
           q == CollectPage(r, page, criteria, single)
<1>1. \/ \E why : q = Failed(r, why)
      \/ (page.rows = <<>> \/ page.rows \in r.marks) /\ q = CollectListed(r, criteria)
      \/ (Len(page.rows) < PageSize \/ LastPage(r) \/ single) /\ q = CollectListed(more, criteria)
      \/ q = NextPage(more)
  BY DEF CollectPage, Gathering
<1>2. Holds(held, pages, r.page, all \cup Bad)
  BY KnownHeld
<1> HIDE DEF held, q
<1>3. Turns(r, page, held, pages, all, all \cup Bad)
  BY <1>2, GathersOn
<1>4. Queued(more, limit, most, stages) /\ more.stage = r.stage /\ Active(more)
  BY <1>2, Gathered DEF Active, Holds
<1>5. /\ page.rows = <<>> \/ page.rows \in Upto(pages, r.page - 1) => all \subseteq Before(pages, r.page - 1)
      /\ ~page.more \/ Len(page.rows) < PageSize \/ r.page >= MaxPages => all \subseteq Before(pages, r.page)
  BY DEF Reading
<1>6. r.marks \subseteq Upto(pages, r.page - 1)
  BY DEF Gathers
<1>7. /\ Gathers(NextPage(more), pages, all, all \cup Bad)
      /\ \A why : Gathers(Failed(r, why), pages, all, all \cup Bad)
  BY <1>3 DEF Turns, more
<1> HIDE DEF more
<1>8. ASSUME page.rows = <<>> \/ page.rows \in r.marks
      PROVE  Gathers(CollectListed(r, criteria), pages, all, all \cup Bad)
  <2>1. all \subseteq Before(pages, r.page - 1)
    BY <1>5, <1>6, <1>8
  <2>2. Listable(r, all, all \cup Bad)
    BY <1>3, <2>1 DEF Turns
  <2> QED
    BY <2>2, CollectListedGathers
<1>9. ASSUME Len(page.rows) < PageSize \/ LastPage(r) \/ single
      PROVE  Gathers(CollectListed(more, criteria), pages, all, all \cup Bad)
  <2>1. all \subseteq Before(pages, r.page)
    BY <1>5, <1>9 DEF LastPage
  <2>2. Listable(more, all, all \cup Bad)
    BY <1>3, <2>1 DEF Turns, more
  <2> QED
    BY <1>4, <2>2, CollectListedGathers
<1>10. Gathers(q, pages, all, all \cup Bad)
  BY <1>1, <1>7, <1>8, <1>9
<1> QED
  BY <1>10 DEF q

LEMMA CollectDetailGathers ==
  ASSUME NEW limit \in Nat, NEW most \in Nat, NEW stages,
         NEW r, Queued(r, limit, most, stages), Active(r), r.stage = "detail",
         NEW pages, NEW all, Roomy(all, Lesser(limit, MaxResults)), all \cap Bad = {},
         Gathers(r, pages, all, all \cup Bad), NEW page, NEW status
  PROVE  Gathers(CollectDetail(r, page, status), pages, all, all \cup Bad)
<1> DEFINE row == Head(r.queue)
           next == Queueing(Yield(r, row, status), Tail(r.queue))
           bound == Lesser(limit, MaxResults)
           q == CollectDetail(r, page, status)
<1>1. r.limit = limit /\ DOMAIN r = DOMAIN Idle
  BY DEF Queued, Sound, Loose
<1>2. Yield(r, row, status).queue = r.queue
  BY <1>1, Fields DEF Yield
<1>3. \/ q = Failed(r, "malformed")
      \/ Usable(row) /\ (next.queue = <<>> \/ Full(next, bound)) /\ q = Done(next)
      \/ Usable(row) /\ q = ToStage(next, "detail")
  BY <1>1, <1>2 DEF CollectDetail, Queueing
<1>4. Usable(row) => Waiting(next, limit, most, stages) /\ Collecting(next, all, all \cup Bad)
  BY HeadCollected
<1>5. bound \in Nat /\ Roomy(all, bound)
  BY LesserBound
<1> HIDE DEF row, next, bound, q
<1>6. Usable(row) => Rests(next, bound, pages, all, all \cup Bad)
  BY <1>4, <1>5, GathersRest
<1>7. Gathers(Failed(r, "malformed"), pages, all, all \cup Bad)
  <2>1. Ids(r.out) \subseteq all
    BY DEF Gathers
  <2> QED
    BY <1>1, <2>1, GathersEnd
<1>8. Gathers(q, pages, all, all \cup Bad)
  BY <1>3, <1>6, <1>7 DEF Rests
<1> QED
  BY <1>8 DEF q

LEMMA ListingFilteredGathers ==
  ASSUME NEW limit \in Nat, NEW most, NEW stages, NEW r, Queued(r, limit, most, stages), Active(r),
         NEW pages, NEW all, Roomy(all, Lesser(limit, MaxResults)), Listable(r, all, all), NEW criteria
  PROVE  Gathers(ListingFiltered(r, criteria), pages, all, all)
<1> DEFINE kept == Meeting(r.held, r.wanted, criteria)
           q == [ToStage(r, "detail") EXCEPT !.queue = kept, !.held = <<>>]
           bound == Lesser(limit, MaxResults)
           none == <<>>
<1>1. DOMAIN r = DOMAIN Idle /\ IsSequence(r.held) /\ r.limit = limit
  BY DEF Queued, Sound, Loose
<1>2. Ids(kept) \subseteq Ids(r.held) /\ Ids(r.held) \ Misses \subseteq Ids(kept)
  BY <1>1, MeetingIds
<1>3. \/ (kept = <<>> \/ bound = 0) /\ ListingFiltered(r, criteria) = Done(r)
      \/ ListingFiltered(r, criteria) = q
  BY <1>1 DEF ListingFiltered, ListingBound
<1>4. bound \in Nat /\ Roomy(all, bound)
  BY LesserBound
<1> HIDE DEF kept, bound
<1>5. q.state = "asking" /\ q.stage = "detail" /\ q.out = r.out /\ q.queue = kept
  <2>1. /\ DOMAIN ToStage(r, "detail") = DOMAIN Idle /\ ToStage(r, "detail").stage = "detail"
        /\ ToStage(r, "detail").state = r.state /\ ToStage(r, "detail").out = r.out
    BY <1>1, Moved
  <2> QED
    BY <2>1, Fields DEF Active
<1> HIDE DEF q
<1>6. kept = <<>> => Gathers(Done(r), pages, all, all)
  BY <1>1, <1>2, KeptGathers
<1>7. Gathers(q, pages, all, all)
  BY <1>1, <1>2, <1>5, KeptGathers
<1>8. ASSUME bound = 0 PROVE Gathers(Done(r), pages, all, all)
  <2>1. IsSequence(none) /\ Distinct(none) /\ Ids(none) = {} /\ Len(none) = 0
    BY EmptySequence
  <2> HIDE DEF none
  <2>2. Len(none) >= bound /\ Ids(none) \subseteq all
    BY <1>8, <2>1
  <2>3. all \subseteq Ids(none)
    BY <1>4, <2>1, <2>2, CountCovers
  <2>4. Ids(r.out) \subseteq all /\ all \ Misses \subseteq Ids(r.out)
    BY <2>1, <2>3 DEF Listable
  <2> QED
    BY <1>1, <2>4, GathersEnd
<1> QED
  BY <1>3, <1>6, <1>7, <1>8

LEMMA ListingPageGathers ==
  ASSUME NEW limit \in Nat, NEW most \in Nat, NEW stages,
         NEW r, Queued(r, limit, most, stages), Active(r), r.stage # "detail",
         NEW pages, NEW all, Roomy(all, Lesser(limit, MaxResults)),
         Gathers(r, pages, all, all), NEW page, Reading(page, pages, r.page, all),
         NEW boundary, NEW criteria
  PROVE  Gathers(ListingPage(r, page, boundary, criteria), pages, all, all)
<1> DEFINE held == FoldLeft(KeepFirst, r.held, UsableRows(page.rows))
           more == Gathering(r, page, held)
           bound == Lesser(limit, MaxResults)
           q == ListingPage(r, page, boundary, criteria)
<1>0. r.limit = limit /\ DOMAIN r = DOMAIN Idle
  BY DEF Queued, Sound, Loose
<1>10. more.held = held
  BY <1>0, Fields DEF Gathering
<1>1. \/ \E why : q = Failed(r, why)
      \/ (page.rows = <<>> \/ page.rows \in r.marks) /\ q = ListingFiltered(r, criteria)
      \/ (Len(held) >= bound \/ ~page.more \/ LastPage(r)) /\ q = ListingFiltered(more, criteria)
      \/ q = NextPage(more)
  BY <1>0, <1>10 DEF ListingPage, ListingBound, Gathering
<1>2. Holds(held, pages, r.page, all)
  BY UsableHeld
<1> HIDE DEF held, q
<1>3. Turns(r, page, held, pages, all, all)
  BY <1>2, GathersOn
<1>4. Queued(more, limit, most, stages) /\ more.stage = r.stage /\ Active(more)
  BY <1>2, Gathered DEF Active, Holds
<1>5. /\ page.rows = <<>> \/ page.rows \in Upto(pages, r.page - 1) => all \subseteq Before(pages, r.page - 1)
      /\ ~page.more \/ r.page >= MaxPages => all \subseteq Before(pages, r.page)
  BY DEF Reading
<1>6. r.marks \subseteq Upto(pages, r.page - 1) /\ Ids(r.out) = {}
  BY EmptySequence DEF Gathers, Queued
<1>7. /\ Gathers(NextPage(more), pages, all, all)
      /\ \A why : Gathers(Failed(r, why), pages, all, all)
  BY <1>3 DEF Turns, more
<1>11. more.out = r.out
  BY <1>0, Fields DEF Gathering
<1> HIDE DEF more
<1>8. ASSUME page.rows = <<>> \/ page.rows \in r.marks
      PROVE  Gathers(ListingFiltered(r, criteria), pages, all, all)
  <2>1. all \subseteq Before(pages, r.page - 1)
    BY <1>5, <1>6, <1>8
  <2>2. Listable(r, all, all)
    BY <1>3, <2>1 DEF Turns
  <2> QED
    BY <2>2, ListingFilteredGathers
<1>9. ASSUME Len(held) >= bound \/ ~page.more \/ LastPage(r)
      PROVE  Gathers(ListingFiltered(more, criteria), pages, all, all)
  <2>1. ASSUME Len(held) >= bound PROVE Listable(more, all, all)
    <3>1. bound \in Nat /\ Roomy(all, bound)
      BY LesserBound
    <3> HIDE DEF bound
    <3>2. IsSequence(held) /\ Distinct(held) /\ Ids(held) \subseteq all
      BY <1>2 DEF Holds
    <3>3. all \subseteq Ids(held)
      BY <2>1, <3>1, <3>2, CountCovers
    <3> QED
      BY <1>6, <1>10, <1>11, <3>2, <3>3 DEF Listable
  <2>2. ASSUME ~page.more \/ LastPage(r) PROVE Listable(more, all, all)
    <3>1. all \subseteq Before(pages, r.page)
      BY <1>5, <2>2 DEF LastPage
    <3> QED
      BY <1>3, <3>1 DEF Turns, more
  <2>3. Listable(more, all, all)
    BY <1>9, <2>1, <2>2
  <2> QED
    BY <1>4, <2>3, ListingFilteredGathers
<1>12. Gathers(q, pages, all, all)
  BY <1>1, <1>7, <1>8, <1>9
<1> QED
  BY <1>12 DEF q

LEMMA ListingDetailGathers ==
  ASSUME NEW limit \in Nat, NEW most \in Nat, NEW stages,
         NEW r, Queued(r, limit, most, stages), Active(r), r.stage = "detail",
         NEW pages, NEW all, Roomy(all, Lesser(limit, MaxResults)),
         Gathers(r, pages, all, all), NEW status
  PROVE  Gathers(ListingDetail(r, status), pages, all, all)
<1> DEFINE row == Head(r.queue)
           rest == Tail(r.queue)
           y == Yield(r, row, status)
           next == Queueing(y, rest)
           bound == Lesser(limit, MaxResults)
           q == ListingDetail(r, status)
<1>1. /\ r.limit = limit /\ Loose(r, limit, most, stages) /\ Len(r.out) + 1 <= most
      /\ DOMAIN r = DOMAIN Idle /\ IsSequence(r.queue) /\ r.queue # <<>>
  BY SequenceLength DEF Queued, Sound, Loose
<1>2. y.queue = r.queue
  BY <1>1, Fields DEF Yield
<1>3. \/ (next.queue = <<>> \/ Full(next, bound)) /\ q = Done(next)
      \/ q = ToStage(next, "detail")
  BY <1>1, <1>2 DEF ListingDetail, ListingBound, Queueing
<1>4. Waiting(next, limit, most, stages)
  BY HeadYielded
<1>5. bound \in Nat /\ Roomy(all, bound)
  BY LesserBound
<1>6. Ids(r.queue) = {row.id} \cup Ids(rest) /\ Ids(r.queue) \subseteq all
  BY <1>1, HeadAndTail DEF Gathers
<1>7. Loose(y, limit, most, stages) /\ Ids(y.out) = Ids(r.out) \cup {row.id}
  BY <1>1, Yielded
<1>8. next.queue = rest /\ next.out = y.out
  <2>1. DOMAIN y = DOMAIN Idle
    BY <1>7 DEF Loose
  <2> HIDE DEF y
  <2> QED
    BY <2>1, QueueFields
<1> HIDE DEF y, next, bound, q
<1>9. next.queue = Tail(r.queue) /\ Ids(next.out) = Ids(r.out) \cup ({Head(r.queue).id} \cap all)
  <2>1. {row.id} \cap all = {row.id}
    BY <1>6
  <2> QED
    BY <1>7, <1>8, <2>1
<1>10. Collecting(next, all, all)
  BY <1>9, HeadGathered
<1>11. Rests(next, bound, pages, all, all)
  BY <1>4, <1>5, <1>10, GathersRest
<1>12. Gathers(q, pages, all, all)
  BY <1>3, <1>11 DEF Rests
<1> QED
  BY <1>12 DEF q

-----------------------------------------------------------------------------
(* opengov: an identity that was looked at has been yielded, or cannot meet   *)
(* a criterion.                                                               *)

Completes(r, pages, all) ==
  /\ Ids(r.out) \subseteq all
  /\ r.state = "done" => all \ Misses \subseteq Ids(r.out)
  /\ Active(r) => Ids(r.held) \ Misses \subseteq Ids(r.out)
  /\ Active(r) /\ r.stage # "detail" => Before(pages, r.page - 1) \subseteq Ids(r.held)
  /\ Active(r) /\ r.stage = "detail" =>
       /\ Ids(r.queue) \subseteq all \cup Bad
       /\ Before(pages, r.page) \subseteq Ids(r.held) \cup Ids(r.queue)
       /\ r.ends => all \subseteq Before(pages, r.page)

\* Between two rows of a page.
Completing(r, rows, pages, all) ==
  /\ Ids(r.out) \subseteq all /\ Ids(r.held) \ Misses \subseteq Ids(r.out)
  /\ Ids(rows) \subseteq all \cup Bad
  /\ Before(pages, r.page) \subseteq Ids(r.held) \cup Ids(rows)
  /\ r.ends \/ r.page >= MaxPages => all \subseteq Before(pages, r.page)

LEMMA CompletesEnd ==
  ASSUME NEW r, DOMAIN r = DOMAIN Idle, NEW pages, NEW all, Ids(r.out) \subseteq all
  PROVE  /\ all \ Misses \subseteq Ids(r.out) => Completes(Done(r), pages, all)
         /\ \A why : Completes(Failed(r, why), pages, all)
<1>1. Done(r).state = "done" /\ Done(r).out = r.out
  BY DoneFields
<1>2. \A why : Failed(r, why).state = "failed" /\ Failed(r, why).out = r.out
  BY FailedFields
<1> QED
  BY <1>1, <1>2 DEF Completes, Active

LEMMA OpenGovRestCompletes ==
  ASSUME NEW limit, NEW most, NEW stages, NEW r, Loose(r, limit, most, stages), Active(r),
         NEW pages, NEW all, NEW rows, IsSequence(rows), Completing(r, rows, pages, all)
  PROVE  Completes(OpenGovRest(r, rows), pages, all)
<1> DEFINE new == Without(rows, Ids(r.held))
           none == <<>>
           s == ToStage(r, "page")
           d == ToStage(r, "detail")
           e == NextPage(s)
           p == Queueing(d, new)
           n == Queueing(e, none)
           q == OpenGovRest(r, rows)
<1>1. \/ q = Failed(r, "malformed")
      \/ new = none /\ (r.ends \/ LastPage(r)) /\ q = Done(r)
      \/ q = p
      \/ new = none /\ q = n
  BY DEF OpenGovRest, Queueing
<1>2. Ids(new) = Ids(rows) \ Ids(r.held)
  BY WithoutRows
<1>3. Ids(none) = {}
  BY EmptySequence
<1> HIDE DEF new, none, q
<1>4. DOMAIN r = DOMAIN Idle /\ r.page \in Nat /\ r.state = "asking"
  BY Numbers DEF Loose, Active
<1>5. /\ Ids(r.out) \subseteq all /\ Ids(r.held) \ Misses \subseteq Ids(r.out)
      /\ Ids(rows) \subseteq all \cup Bad
      /\ Before(pages, r.page) \subseteq Ids(r.held) \cup Ids(rows)
      /\ r.ends \/ r.page >= MaxPages => all \subseteq Before(pages, r.page)
  BY DEF Completing
<1>6. \A why : Completes(Failed(r, why), pages, all)
  BY <1>4, <1>5, CompletesEnd
<1>7. /\ DOMAIN d = DOMAIN Idle /\ d.state = r.state /\ d.stage = "detail" /\ d.page = r.page
      /\ d.held = r.held /\ d.out = r.out /\ d.ends = r.ends
  BY <1>4, Moved
<1>8. /\ DOMAIN s = DOMAIN Idle /\ s.state = r.state /\ s.stage = "page" /\ s.page = r.page
      /\ s.held = r.held /\ s.out = r.out
  BY <1>4, Moved
<1> HIDE DEF d, s
<1>9. /\ DOMAIN e = DOMAIN Idle /\ e.state = r.state /\ e.stage = "page" /\ e.page = r.page + 1
      /\ e.held = r.held /\ e.out = r.out
  BY <1>4, <1>8, Fields DEF NextPage
<1> HIDE DEF e
<1>10. /\ p.state = "asking" /\ p.stage = "detail" /\ p.page = r.page
       /\ p.held = r.held /\ p.queue = new /\ p.out = r.out
  BY <1>4, <1>7, QueueFields
<1>17. p.ends = r.ends
  BY <1>7, MarksKept
<1>11. /\ n.state = "asking" /\ n.stage = "page" /\ n.page = r.page + 1
       /\ n.held = r.held /\ n.out = r.out
  BY <1>4, <1>9, QueueFields
<1> HIDE DEF p, n
<1>12. Completes(p, pages, all)
  BY <1>2, <1>5, <1>10, <1>17 DEF Completes, Active
<1>13. ASSUME new = none PROVE Before(pages, r.page) \subseteq Ids(r.held)
  BY <1>2, <1>3, <1>5, <1>13
<1>14. ASSUME new = none PROVE Completes(n, pages, all)
  <2>1. n.page - 1 = r.page
    BY <1>4, <1>11
  <2>2. Before(pages, n.page - 1) \subseteq Ids(n.held)
    BY <1>11, <1>13, <1>14, <2>1
  <2> QED
    BY <1>5, <1>11, <2>2 DEF Completes, Active
<1>15. ASSUME new = none, r.ends \/ LastPage(r) PROVE Completes(Done(r), pages, all)
  <2>1. all \subseteq Before(pages, r.page)
    BY <1>5, <1>15 DEF LastPage
  <2>2. all \ Misses \subseteq Ids(r.out)
    BY <1>5, <1>13, <1>15, <2>1
  <2> QED
    BY <1>4, <1>5, <2>2, CompletesEnd
<1>16. Completes(q, pages, all)
  BY <1>1, <1>6, <1>12, <1>14, <1>15
<1> QED
  BY <1>16 DEF q

LEMMA OpenGovPageCompletes ==
  ASSUME NEW limit, NEW most, NEW stages,
         NEW r, Looking(r, limit, most, stages), Active(r), r.stage # "detail",
         NEW pages, NEW all, Completes(r, pages, all), NEW page, Reading(page, pages, r.page, all)
  PROVE  Completes(OpenGovPage(r, page), pages, all)
<1> DEFINE s == [r EXCEPT !.ends = page.rows = <<>> \/ ~page.more]
           q == OpenGovPage(r, page)
           ends == page.rows = <<>> \/ ~page.more
<1>1. q = Failed(r, "malformed") \/ q = OpenGovRest(s, page.rows)
  BY DEF OpenGovPage
<1>2. /\ Loose(r, limit, most, stages) /\ DOMAIN r = DOMAIN Idle
      /\ IsSequence(r.held) /\ IsSequence(r.queue) /\ r.page \in Nat \ {0}
  BY Numbers DEF Looking, Sound, Loose
<1>3. Alike(s, r) /\ s.held = r.held /\ s.queue = r.queue /\ s.ends = ends
  BY <1>2, Fields DEF Alike
<1> HIDE DEF s, q
<1>4. Loose(s, limit, most, stages) /\ Active(s)
  BY <1>2, <1>3, LooseAlike
<1>5. s.out = r.out /\ s.page = r.page
  BY <1>3 DEF Alike
<1>6. /\ Ids(r.out) \subseteq all /\ Ids(r.held) \ Misses \subseteq Ids(r.out)
      /\ Before(pages, r.page - 1) \subseteq Ids(r.held)
  BY DEF Completes
<1>7. /\ IsSequence(page.rows) /\ Ids(page.rows) \subseteq all \cup Bad
      /\ ~page.more \/ r.page >= MaxPages => all \subseteq Before(pages, r.page)
      /\ page.rows = <<>> => all \subseteq Before(pages, r.page - 1)
  BY DEF Reading
<1>8. Before(pages, r.page) = Before(pages, r.page - 1) \cup (Ids(page.rows) \ Bad)
  BY <1>2, ReadOn
<1>9. Completing(s, page.rows, pages, all)
  BY <1>3, <1>5, <1>6, <1>7, <1>8 DEF Completing
<1>10. Completes(OpenGovRest(s, page.rows), pages, all)
  BY <1>4, <1>7, <1>9, OpenGovRestCompletes
<1>11. Completes(Failed(r, "malformed"), pages, all)
  BY <1>2, <1>6, CompletesEnd
<1> QED
  BY <1>1, <1>10, <1>11 DEF q

LEMMA OpenGovDetailCompletes ==
  ASSUME NEW limit \in Nat, NEW most \in Nat, Lesser(limit, MaxResults) <= most, NEW stages,
         NEW r, Looking(r, limit, most, stages), Active(r), r.stage = "detail",
         NEW pages, NEW all, Roomy(all, Lesser(limit, MaxResults)), Completes(r, pages, all),
         r.page >= MaxPages => all \subseteq Before(pages, r.page), NEW page
  PROVE  Completes(OpenGovDetail(r, page), pages, all)
<1> DEFINE row == Head(r.queue)
           rest == Tail(r.queue)
           bound == Lesser(limit, MaxResults)
           status == OpenGovStatus(row.says)
           seen == [r EXCEPT !.held = Append(@, row)]
           next == Yield(seen, row, status)
           q == OpenGovDetail(r, page)
<1>1. /\ Loose(r, limit, most, stages) /\ DOMAIN r = DOMAIN Idle /\ r.limit = limit
      /\ IsSequence(r.held) /\ IsSequence(r.queue) /\ r.queue # <<>>
      /\ Distinct(r.out) /\ Len(r.out) < most /\ IsSequence(r.out)
      /\ row.id \notin Ids(r.held) /\ Ids(r.out) \subseteq Ids(r.held)
  BY DEF Looking, Sound, Loose
<1>2. \/ q = Failed(r, "malformed")
      \/ row.id \in Misses /\ q = OpenGovRest(seen, rest)
      \/ Usable(row) /\ Full(next, bound) /\ q = Done(next)
      \/ Usable(row) /\ q = OpenGovRest(next, rest)
  BY <1>1 DEF OpenGovDetail, Meets
<1>3. bound \in Nat /\ Roomy(all, bound)
  BY LesserBound
<1>4. Ids(r.queue) = {row.id} \cup Ids(rest) /\ IsSequence(rest)
  BY <1>1, HeadAndTail, Tailed
<1>5. Usable(row) <=> row.id \notin Bad
  BY DEF Usable, Bad
<1>6. Alike(seen, r) /\ seen.held = Append(r.held, row) /\ seen.queue = r.queue /\ seen.ends = r.ends
  BY <1>1, Fields DEF Alike
<1> HIDE DEF bound, status, rest, row, seen, q
<1>7. IsSequence(seen.held) /\ Ids(seen.held) = Ids(r.held) \cup {row.id}
  BY <1>1, <1>6, Appended
<1>8. Loose(seen, limit, most, stages) /\ Active(seen) /\ seen.out = r.out /\ seen.page = r.page
  <2>1. Loose(seen, limit, most, stages) /\ Active(seen)
    BY <1>1, <1>6, <1>7, LooseAlike
  <2> QED
    BY <1>6, <2>1 DEF Alike
<1>9. Len(r.out) \in Nat
  BY <1>1, SequenceLength
<1>10. /\ Loose(next, limit, most, stages) /\ next.state = seen.state /\ next.page = r.page
       /\ next.held = seen.held /\ Ids(next.out) = Ids(r.out) \cup {row.id}
       /\ Distinct(r.out) /\ row.id \notin Ids(r.out) => Distinct(next.out)
  <2>1. Len(seen.out) + 1 <= most
    BY <1>1, <1>8, <1>9
  <2>2. /\ Loose(next, limit, most, stages) /\ next.state = seen.state /\ next.page = seen.page
        /\ next.held = seen.held /\ Ids(next.out) = Ids(seen.out) \cup {row.id}
        /\ Distinct(seen.out) /\ row.id \notin Ids(seen.out) => Distinct(next.out)
    BY <1>8, <2>1, Yielded
  <2> QED
    BY <1>8, <2>2
<1>11. next.ends = r.ends
  <2>1. DOMAIN seen = DOMAIN Idle
    BY <1>8 DEF Loose
  <2> QED
    BY <1>6, <2>1, MarksKept
<1> HIDE DEF next
<1>12. /\ Ids(r.out) \subseteq all /\ Ids(r.held) \ Misses \subseteq Ids(r.out)
       /\ Ids(r.queue) \subseteq all \cup Bad
       /\ Before(pages, r.page) \subseteq Ids(r.held) \cup Ids(r.queue)
       /\ r.ends => all \subseteq Before(pages, r.page)
  BY DEF Completes
<1>13. Completes(Failed(r, "malformed"), pages, all)
  BY <1>1, <1>12, CompletesEnd
<1>14. ASSUME row.id \in Misses PROVE Completes(OpenGovRest(seen, rest), pages, all)
  <2>1. Completing(seen, rest, pages, all)
    BY <1>4, <1>6, <1>7, <1>8, <1>12, <1>14 DEF Completing
  <2> QED
    BY <1>4, <1>8, <2>1, OpenGovRestCompletes
<1>15. ASSUME Usable(row) PROVE Ids(next.out) \subseteq all
  BY <1>4, <1>5, <1>10, <1>12, <1>15
<1>16. ASSUME Usable(row) PROVE Completes(OpenGovRest(next, rest), pages, all)
  <2>1. Completing(next, rest, pages, all)
    BY <1>4, <1>7, <1>10, <1>11, <1>12, <1>15, <1>16 DEF Completing
  <2>2. Active(next)
    BY <1>8, <1>10 DEF Active
  <2> QED
    BY <1>4, <1>10, <2>1, <2>2, OpenGovRestCompletes
<1>17. ASSUME Usable(row), Full(next, bound) PROVE Completes(Done(next), pages, all)
  <2>1. Len(next.out) >= bound
    BY <1>17 DEF Full
  <2>2. IsSequence(next.out) /\ Distinct(next.out) /\ DOMAIN next = DOMAIN Idle
    BY <1>1, <1>10 DEF Loose
  <2>3. all \subseteq Ids(next.out)
    BY <1>3, <1>15, <1>17, <2>1, <2>2, CountCovers
  <2> QED
    BY <1>15, <1>17, <2>2, <2>3, CompletesEnd
<1>18. Completes(q, pages, all)
  BY <1>2, <1>13, <1>14, <1>16, <1>17
<1> QED
  BY <1>18 DEF q

-----------------------------------------------------------------------------
(* DemandStar's interface, whose one search names no record twice.           *)

LEMMA LostQueued ==
  ASSUME NEW limit, NEW most \in Nat, NEW stages, NEW r, Loose(r, limit, most, stages),
         NEW pages, NEW all, NEW lot, NEW why
  PROVE  /\ Queued(DemandStarLost(r, why), limit, most, stages)
         /\ Gathers(DemandStarLost(r, why), pages, all, lot)
<1> DEFINE q == DemandStarLost(r, why)
           f == Failed(r, why)
<1>1. Sound(q, limit, most, stages)
  BY LostSound
<1>2. /\ DOMAIN f = DOMAIN Idle /\ f.state = "failed" /\ f.held = <<>> /\ f.queue = <<>>
  BY FailedFields DEF Loose
<1>3. q = [f EXCEPT !.out = <<>>]
  BY DEF DemandStarLost
<1> HIDE DEF f
<1>4. q.state = "failed" /\ q.held = <<>> /\ q.queue = <<>> /\ q.out = <<>>
  BY <1>2, <1>3, Fields
<1> HIDE DEF q
<1>5. Ids(q.out) = {} /\ Apart(q) /\ ~Active(q)
  BY <1>4, EmptySequence DEF Apart, Active
<1>6. Queued(q, limit, most, stages) /\ Gathers(q, pages, all, lot)
  BY <1>1, <1>4, <1>5 DEF Queued, Gathers, Active
<1> QED
  BY <1>6 DEF q

LEMMA SearchedGathers ==
  ASSUME NEW limit, NEW most \in Nat, NEW stages, "detail" \in stages,
         NEW r, Queued(r, limit, most, stages), Active(r), r.stage # "detail",
         NEW page, IsSequence(page.rows), ~page.garbled, page.words = {},
         NEW pages, NEW all, all = Ids(UsableRows(page.rows)), Distinct(UsableRows(page.rows))
  PROVE  /\ Queued(DemandStarSearched(r, page), limit, most, stages)
         /\ Gathers(DemandStarSearched(r, page), pages, all, all)
<1> DEFINE rows == UsableRows(page.rows)
           none == <<>>
           d == ToStage(r, "detail")
           p == Queueing(d, rows)
           q == DemandStarSearched(r, page)
<1>1. (rows = none /\ q = Done(r)) \/ (rows # none /\ q = p)
  BY DEF DemandStarSearched, Queueing
<1>2. IsSequence(rows) /\ Distinct(rows) /\ all = Ids(rows)
  BY Trimmed
<1>3. Ids(none) = {} /\ r.out = none /\ DOMAIN r = DOMAIN Idle
  BY EmptySequence DEF Queued, Sound, Loose
<1>4. rows # none => Queued(p, limit, most, stages)
  BY <1>2, Detailed
<1> HIDE DEF rows, none, q
<1>5. /\ DOMAIN d = DOMAIN Idle /\ d.state = r.state /\ d.stage = "detail" /\ d.out = r.out
  BY <1>3, Moved
<1> HIDE DEF d
<1>6. p.state = r.state /\ p.stage = "detail" /\ p.out = r.out /\ p.queue = rows
  BY <1>5, QueueFields
<1> HIDE DEF p
<1>7. Gathers(p, pages, all, all)
  BY <1>2, <1>3, <1>6 DEF Gathers, Active
<1>8. Queued(Done(r), limit, most, stages)
  BY QueuedParts
<1>9. rows = none => Gathers(Done(r), pages, all, all)
  <2>1. Ids(r.out) \subseteq all /\ (rows = none => all \ Misses \subseteq Ids(r.out))
    BY <1>2, <1>3
  <2> QED
    BY <1>3, <2>1, GathersEnd
<1> QED
  BY <1>1, <1>4, <1>7, <1>8, <1>9 DEF q

Takes(q, r, row) == q.queue = r.queue /\ Ids(q.out) = Ids(r.out) \cup {row.id}

LEMMA YieldedTakes ==
  ASSUME NEW limit, NEW most, NEW stages, NEW r, Loose(r, limit, most, stages),
         Len(r.out) + 1 <= most, NEW row, NEW status
  PROVE  Takes(Yield(r, row, status), r, row)
<1> DEFINE q == Yield(r, row, status)
<1>1. Loose(q, limit, most, stages) /\ Ids(q.out) = Ids(r.out) \cup {row.id}
  BY Yielded
<1>2. q.queue = r.queue
  BY Fields DEF Yield, Loose
<1> QED
  BY <1>1, <1>2 DEF Takes

LEMMA PartGathers ==
  ASSUME NEW limit \in Nat, NEW most \in Nat, Lesser(limit, MaxResults) <= most,
         NEW stages, "detail" \in stages,
         NEW r, Queued(r, limit, most, stages), Active(r), r.stage = "detail",
         NEW page, ~page.garbled, page.words = {}, NEW parts,
         NEW pages, NEW all, Roomy(all, Lesser(limit, MaxResults)), Gathers(r, pages, all, all)
  PROVE  /\ Queued(DemandStarPart(r, page, parts), limit, most, stages)
         /\ Gathers(DemandStarPart(r, page, parts), pages, all, all)
<1> DEFINE row == Head(r.queue)
           rest == [r EXCEPT !.queue = Tail(@), !.details = 0]
           status == DemandStarStatus(row.says)
           more == Yield(rest, row, status)
           next == IF Meets(row, r.wanted, DemandStarMatches) THEN more ELSE rest
           bound == Lesser(limit, MaxResults)
           s == ToStage(r, "detail")
           t == [s EXCEPT !.details = @ + 1]
           q == DemandStarPart(r, page, parts)
<1>0. /\ Loose(r, limit, most, stages) /\ DOMAIN r = DOMAIN Idle /\ r.limit = limit
      /\ IsSequence(r.queue) /\ r.queue # <<>>
      /\ Len(r.out) < most /\ Len(r.out) \in Nat
  BY SequenceLength DEF Queued, Sound, Loose
<1>1. q = IF page.garbled \/ page.words # {} THEN DemandStarLost(r, "malformed")
          ELSE IF r.details + 1 < parts THEN t
          ELSE IF next.queue = <<>> \/ (next.out # rest.out /\ Full(next, bound)) THEN Done(next)
          ELSE ToStage(next, "detail")
  BY <1>0, Zenon DEF DemandStarPart, ListingBound
<1>2. row.id \in Misses \/ next = more
  BY DEF Meets
<1>3. next = more \/ next = rest
  OBVIOUS
<1> HIDE DEF q, t, next
<1>4. \/ q = t
      \/ (next.queue = <<>> \/ Full(next, bound)) /\ q = Done(next)
      \/ /\ next.queue # <<>> /\ (next.out = rest.out \/ ~Full(next, bound))
         /\ q = ToStage(next, "detail")
  BY <1>1
<1>5. bound \in Nat /\ bound <= most /\ Roomy(all, bound)
  BY LesserBound
<1>6. Ids(r.queue) = {row.id} \cup Ids(Tail(r.queue))
  BY <1>0, HeadAndTail
<1>7. /\ DOMAIN s = DOMAIN Idle /\ s.stage = "detail" /\ s.state = r.state /\ s.page = r.page
      /\ s.attempt = 0 /\ s.limit = r.limit
      /\ s.out = r.out /\ s.queue = r.queue /\ s.held = r.held /\ s.marks = r.marks
  BY <1>0, Fields DEF ToStage
<1> HIDE DEF s
<1>8. /\ DOMAIN t = DOMAIN Idle /\ t.stage = "detail" /\ t.state = r.state /\ t.page = r.page
      /\ t.attempt = 0 /\ t.limit = r.limit
      /\ t.out = r.out /\ t.queue = r.queue /\ t.held = r.held /\ t.marks = r.marks
  BY <1>7, Fields DEF t
<1>9. Alike(rest, r) /\ rest.held = r.held /\ rest.queue = Tail(r.queue)
  BY <1>0, Fields DEF Alike
<1> HIDE DEF rest, bound, status
<1>10. 0 \in 0..MaxRetries
  BY Numbers
<1>11. Queued(t, limit, most, stages) /\ Gathers(t, pages, all, all)
  <2>1. Queued(t, limit, most, stages)
    BY <1>8, <1>10 DEF Queued, Sound, Loose, Apart, Active
  <2>2. Gathers(t, pages, all, all)
    BY <1>8 DEF Gathers, Active
  <2> QED
    BY <2>1, <2>2
<1>12. Waiting(rest, limit, most, stages) /\ row.id \notin Ids(rest.queue) /\ row.id \notin Ids(rest.out)
  BY <1>9, HeadTaken
<1>13. rest.out = r.out
  BY <1>9 DEF Alike
<1>14. /\ Ids(r.out) \subseteq all /\ Ids(r.queue) \subseteq all
       /\ all \ Misses \subseteq Ids(r.out) \cup Ids(r.queue)
  BY DEF Gathers
<1> HIDE DEF row
<1>15. Waiting(more, limit, most, stages)
  BY <1>0, <1>12, <1>13, YieldedWaiting
<1>16. /\ more.queue = rest.queue /\ Ids(more.out) = Ids(rest.out) \cup {row.id}
  <2>1. Loose(rest, limit, most, stages) /\ Len(rest.out) + 1 <= most
    BY <1>0, <1>12, <1>13 DEF Waiting
  <2>2. Takes(more, rest, row)
    BY <2>1, YieldedTakes
  <2> QED
    BY <2>2 DEF Takes
<1> HIDE DEF more
<1>17. Waiting(next, limit, most, stages)
  BY <1>3, <1>12, <1>15
<1>18. Collecting(next, all, all)
  BY <1>2, <1>3, <1>6, <1>9, <1>13, <1>14, <1>16 DEF Collecting
<1>19. Rests(next, bound, pages, all, all)
  BY <1>5, <1>17, <1>18, GathersRest
<1>20. Gathers(q, pages, all, all)
  BY <1>4, <1>11, <1>19 DEF Rests
<1>21. Queued(Done(next), limit, most, stages)
  BY <1>17, NextRowQueued
<1>22. ASSUME next.queue # <<>>, next.out = rest.out \/ ~Full(next, bound)
       PROVE  Queued(ToStage(next, "detail"), limit, most, stages)
  <2>1. Len(next.out) \in Nat
    BY <1>17, SequenceLength DEF Waiting, Loose
  <2>2. Len(next.out) < most
    BY <1>0, <1>5, <1>13, <1>22, <2>1 DEF Full
  <2> QED
    BY <1>17, <1>22, <2>2, WaitingAsks
<1>23. Queued(q, limit, most, stages)
  BY <1>4, <1>11, <1>21, <1>22
<1> QED
  BY <1>20, <1>23 DEF q
==============================================================================
