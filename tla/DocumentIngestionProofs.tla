------------------------ MODULE DocumentIngestionProofs ------------------------
(***************************************************************************)
(* Collectors that ingest at once keep the manifest: one job per document, *)
(* within the limit; and, where the numbers of a document's versions tell  *)
(* them apart, the newest version current and the superseded ones not.     *)
(*                                                                         *)
(* The argument has three parts.  What a step may do is said of values, m  *)
(* and j for what is committed, s and t for a session before and after it  *)
(* (Looks, Writes, Places, ...).  Each of these keeps what a session is to *)
(* be (Orderly, Frugal, Versioned), given the table.  A commit keeps it    *)
(* for the others, whose rows it has not: rows that are written stay       *)
(* locked until their transaction ends (LocksApart).                       *)
(***************************************************************************)
EXTENDS DocumentIngestion, FiniteSetTheorems, TLAPS

\* Tables of rows, and what a collector's session may be.
RowSet == UNION {[D -> Row] : D \in SUBSET Document}

Session ==
  [ pc : {"idle", "next", "write", "place"}, offered : Seq(Candidate),
    at : Nat \ {0}, created : BOOLEAN, view : RowSet, wrote : RowSet,
    siblings : SUBSET Document, jobs : SUBSET Document, before : Nat, counted : Nat ]

\* The rows a session sees, the identity of its candidate in hand.
Sees(m, s) == With(m, s.wrote)
Here(s) == Identity(s.offered[s.at])

\* The session is where it says, and has loaded what it works on.
Orderly(m, s) ==
  /\ s.at <= Len(s.offered) + 1 /\ Len(s.offered) <= MaxOffered
  /\ s.pc \in {"write", "place"} => s.at <= Len(s.offered)
  /\ DOMAIN s.wrote \subseteq DOMAIN s.view
  /\ DOMAIN s.view \subseteq DOMAIN m \cup DOMAIN s.wrote
  /\ s.jobs \subseteq DOMAIN s.wrote /\ IsFiniteSet(s.jobs)
  /\ s.pc = "write" => s.created \/ Here(s) \in DOMAIN s.view
  /\ s.pc = "place" =>
       /\ Here(s) \in DOMAIN s.wrote /\ Here(s) \notin s.siblings
       /\ s.siblings \subseteq DOMAIN s.view

\* The jobs of a session: not committed, counted, and within the limit.
Frugal(j, s) ==
  /\ s.jobs \cap j = {}
  /\ Cardinality(s.jobs) <= s.counted /\ Cardinality(s.jobs) <= QueueLimit
  /\ s.pc \in {"write", "place"} => s.before <= Cardinality(j \cup s.jobs)

Typed ==
  /\ manifest \in RowSet
  /\ jobs \subseteq DOMAIN manifest /\ IsFiniteSet(jobs)
  /\ tx \in [Collector -> Session]

LocksApart ==
  \A p, q \in Collector : p # q => DOMAIN tx[p].wrote \cap DOMAIN tx[q].wrote = {}

QueueInv ==
  /\ Typed /\ LocksApart
  /\ \A p \in Collector : Orderly(manifest, tx[p]) /\ Frugal(jobs, tx[p])

------------------------------------------------------------------------------
(* Tables, rows and candidates.                                            *)

LEMMA RowSetFacts ==
  ASSUME NEW f \in RowSet
  PROVE  /\ DOMAIN f \subseteq Document
         /\ \A x \in DOMAIN f : f[x] \in Row
         /\ \A D \in SUBSET Document : \A g \in [D -> Row] : g \in RowSet /\ DOMAIN g = D
BY DEF RowSet

LEMMA WithFacts ==
  ASSUME NEW f \in RowSet, NEW g \in RowSet
  PROVE  /\ With(f, g) \in RowSet
         /\ DOMAIN With(f, g) = DOMAIN f \cup DOMAIN g
         /\ \A x \in DOMAIN g : With(f, g)[x] = g[x]
         /\ \A x \in DOMAIN f \ DOMAIN g : With(f, g)[x] = f[x]
<1>1. With(f, g) \in [DOMAIN f \cup DOMAIN g -> Row]
  BY RowSetFacts DEF With
<1>2. DOMAIN f \cup DOMAIN g \in SUBSET Document
  BY RowSetFacts
<1> QED
  BY <1>1, <1>2, RowSetFacts DEF With

LEMMA CandidateFacts ==
  ASSUME NEW c \in Candidate
  PROVE  Identity(c) \in Document /\ Rank(c) \in Nat
BY ManifestAssumption DEF Document, Rank

LEMMA FoundRows ==
  ASSUME NEW c \in Candidate
  PROVE  Inserted(c) \in Row /\ \A r \in Row : Rediscovered(r, c) \in Row
BY DEF Inserted, Rediscovered, Row

LEMMA PlacedRows ==
  ASSUME NEW r \in Row, NEW R \in SUBSET Row, NEW d \in Document,
         NEW last \in Document \cup {None}
  PROVE  Placed(r, R, last) \in Row /\ Superseded(r, d) \in Row
<1>1. Placed(r, R, last) \in Row
  BY DEF Placed, Row
<1>2. Superseded(r, d) \in Row
  BY DEF Superseded, Row
<1> QED
  BY <1>1, <1>2

LEMMA FlushedRows ==
  ASSUME NEW r \in Row, NEW v \in Row, NEW is \in Row
  PROVE  Flushed(r, v, is) \in Row
BY DEF Flushed, Row

LEMMA IdleFacts ==
  ASSUME NEW m \in RowSet, NEW j, IsFiniteSet(j)
  PROVE  /\ Idle \in Session /\ Orderly(m, Idle) /\ Frugal(j, Idle)
         /\ DOMAIN Idle.wrote = {} /\ Idle.jobs = {} /\ Idle.pc = "idle"
<1>1. NoRows \in RowSet /\ DOMAIN NoRows = {}
  BY DEF NoRows, RowSet
<1>2. Idle \in Session
  BY <1>1 DEF Idle, Session
<1>3. Cardinality({}) = 0 /\ IsFiniteSet({})
  BY FS_EmptySet
<1>4. Orderly(m, Idle)
  BY <1>1, <1>3, IngestionAssumption DEF Idle, Orderly
<1>5. Frugal(j, Idle)
  BY <1>1, <1>3, IngestionAssumption DEF Idle, Frugal
<1> QED
  BY <1>1, <1>2, <1>4, <1>5 DEF Idle

LEMMA HereFacts ==
  ASSUME NEW s \in Session, s.at <= Len(s.offered)
  PROVE  s.offered[s.at] \in Candidate /\ Here(s) \in Document
<1>1. s.at \in 1..Len(s.offered) /\ s.offered \in Seq(Candidate)
  BY DEF Session
<1>2. s.offered[s.at] \in Candidate
  BY <1>1
<1> QED
  BY <1>2, CandidateFacts DEF Here

------------------------------------------------------------------------------
(* What each step does to the session of its collector.                    *)

IsMap(f) == f = [x \in DOMAIN f |-> f[x]]

Looks(m, j, s, t) ==
  /\ s.pc = "next" /\ s.at <= Len(s.offered)
  /\ t = [s EXCEPT !.pc = "write", !.created = t.created,
                   !.before = Cardinality(j \cup s.jobs), !.view = t.view]
  /\ t.created = (Here(s) \notin DOMAIN Sees(m, s))
  /\ t.created => t.view = s.view
  /\ ~t.created =>
       /\ IsMap(t.view)
       /\ DOMAIN t.view = DOMAIN s.view \cup {Here(s)}
       /\ \A x \in DOMAIN s.view : t.view[x] = s.view[x]
       /\ Here(s) \notin DOMAIN s.view => t.view[Here(s)] = Sees(m, s)[Here(s)]

Writes(m, s, t) ==
  LET c == s.offered[s.at]
      d == Here(s)
      is == IF s.created THEN Inserted(c) ELSE Rediscovered(s.view[d], c)
  IN
  /\ s.pc = "write"
  /\ s.created => d \notin DOMAIN m
  /\ t = [s EXCEPT !.pc = "place", !.wrote = t.wrote, !.siblings = t.siblings, !.view = t.view]
  /\ IsMap(t.wrote) /\ IsMap(t.view)
  /\ DOMAIN t.wrote = DOMAIN s.wrote \cup {d}
  /\ t.wrote[d] = IF s.created THEN is ELSE Flushed(Sees(m, s)[d], s.view[d], is)
  /\ \A x \in DOMAIN s.wrote \ {d} : t.wrote[x] = s.wrote[x]
  /\ t.siblings = Siblings(Sees(m, t), d)
  /\ DOMAIN t.view = DOMAIN s.view \cup t.siblings \cup {d}
  /\ t.view[d] = is
  /\ \A x \in DOMAIN s.view \ {d} : t.view[x] = s.view[x]
  /\ \A x \in t.siblings \ DOMAIN s.view : t.view[x] = Sees(m, s)[x]

Places(m, j, s, t) ==
  LET d == Here(s) IN
  /\ s.pc = "place"
  /\ t = [s EXCEPT !.pc = "next", !.at = s.at + 1, !.siblings = {}, !.wrote = t.wrote,
                   !.view = t.view, !.jobs = t.jobs, !.counted = t.counted]
  /\ IsMap(t.wrote) /\ IsMap(t.view)
  /\ \E older \in SUBSET s.siblings : \E last \in older \cup {None} :
       /\ \A x \in s.siblings : x \in older <=> s.created /\ Older(s.view[x], s.view[d])
       /\ DOMAIN t.view = DOMAIN s.view
       /\ DOMAIN t.wrote = DOMAIN s.wrote \cup older
       /\ t.view[d] = Placed(s.view[d], {s.view[x] : x \in s.siblings}, last)
       /\ \A x \in older : t.view[x] = Superseded(s.view[x], d)
       /\ \A x \in DOMAIN s.view \ (older \cup {d}) : t.view[x] = s.view[x]
       /\ \A x \in older \cup {d} : t.wrote[x] = Flushed(Sees(m, s)[x], s.view[x], t.view[x])
       /\ \A x \in DOMAIN s.wrote \ (older \cup {d}) : t.wrote[x] = s.wrote[x]
  /\ \/ t.jobs = s.jobs
     \/ s.counted < QueueLimit /\ t.view[d].current /\ t.jobs = s.jobs \cup ({d} \ j)
  /\ t.counted = IF Cardinality(j \cup t.jobs) > s.before THEN s.counted + 1 ELSE s.counted

Begins(t, list) == Len(list) <= MaxOffered /\ t = [Idle EXCEPT !.pc = "next", !.offered = list]

Skips(s, t) ==
  /\ s.pc = "next" /\ s.at <= Len(s.offered) /\ t = [s EXCEPT !.at = s.at + 1]
  /\ \E k \in 1..(s.at - 1) : DuplicateKey(s.offered[k]) = DuplicateKey(s.offered[s.at])

Steps(m, j, s, t) ==
  \/ t = Idle
  \/ \E list \in Seq(Candidate) : Begins(t, list)
  \/ Skips(s, t)
  \/ Looks(m, j, s, t) \/ Writes(m, s, t) \/ Places(m, j, s, t)

\* Of the others and of what is committed, only Commit changes anything.
Alone(p) ==
  /\ manifest' = manifest /\ jobs' = jobs
  /\ tx' = [tx EXCEPT ![p] = tx'[p]]
  /\ Steps(manifest, jobs, tx[p], tx'[p])
  /\ \A q \in Collector \ {p} :
       (DOMAIN tx'[p].wrote \ DOMAIN tx[p].wrote) \cap DOMAIN tx[q].wrote = {}

\* Commit: what the session sees becomes what is committed.
Ends(p) ==
  /\ tx[p].pc = "next" /\ ~(tx[p].at <= Len(tx[p].offered))
  /\ manifest' = Sees(manifest, tx[p])
  /\ jobs' = jobs \cup tx[p].jobs
  /\ tx' = [tx EXCEPT ![p] = Idle]

LEMMA Replaced ==
  ASSUME QueueInv, NEW p \in Collector, NEW e, tx' = [tx EXCEPT ![p] = e]
  PROVE  /\ tx'[p] = e /\ tx' = [tx EXCEPT ![p] = tx'[p]]
         /\ \A q \in Collector \ {p} : tx'[q] = tx[q]
BY DEF QueueInv, Typed

LEMMA LookupStep ==
  ASSUME QueueInv, NEW p \in Collector, Lookup(p)
  PROVE  Alone(p)
<1> DEFINE s == tx[p]
           d == Identity(InHand(p))
           found == d \in DOMAIN Rows(p)
           e == [s EXCEPT !.pc = "write", !.created = ~found, !.before = Cardinality(JobRows(p)),
                          !.view = IF found THEN Loaded(p, {d}) ELSE tx[p].view]
<1>1. tx' = [tx EXCEPT ![p] = e] /\ manifest' = manifest /\ jobs' = jobs
  BY DEF Lookup
<1>2. s \in Session /\ s.pc = "next" /\ s.at <= Len(s.offered)
  BY DEF QueueInv, Typed, Lookup, HasNext
<1>3. /\ e.created = ~found /\ e.view = (IF found THEN Loaded(p, {d}) ELSE s.view)
      /\ e.wrote = s.wrote
  BY <1>2 DEF Session
<1>4. e = [s EXCEPT !.pc = "write", !.created = e.created,
                    !.before = Cardinality(jobs \cup s.jobs), !.view = e.view]
  BY <1>2, <1>3 DEF JobRows
<1> HIDE DEF e
<1>5. Looks(manifest, jobs, s, e)
  BY <1>2, <1>3, <1>4 DEF Looks, Loaded, Rows, Sees, Here, InHand, IsMap
<1>6. tx'[p] = e /\ tx' = [tx EXCEPT ![p] = tx'[p]]
  BY <1>1, Replaced
<1> QED
  BY <1>1, <1>3, <1>5, <1>6 DEF Alone, Steps

LEMMA WithIsMap ==
  ASSUME NEW f, NEW g
  PROVE  IsMap(With(f, g))
BY DEF IsMap, With

LEMMA WithTwice ==
  ASSUME NEW f, NEW g, NEW h
  PROVE  With(With(f, g), h) = With(f, With(g, h))
<1>1. DOMAIN With(With(f, g), h) = DOMAIN With(f, With(g, h))
  BY DEF With
<1>2. \A x \in DOMAIN With(f, With(g, h)) : With(With(f, g), h)[x] = With(f, With(g, h))[x]
  BY DEF With
<1> QED
  BY <1>1, <1>2 DEF With

LEMMA WriteStep ==
  ASSUME QueueInv, NEW p \in Collector, Write(p)
  PROVE  Alone(p)
<1> DEFINE s == tx[p]
           c == InHand(p)
           d == Identity(c)
           is == IF s.created THEN Inserted(c) ELSE Rediscovered(s.view[d], c)
           written == IF s.created THEN is ELSE Flushed(Rows(p)[d], s.view[d], is)
           row == [x \in {d} |-> written]
           siblings == Siblings(With(Rows(p), row), d)
           e == [s EXCEPT !.pc = "place", !.wrote = With(s.wrote, row), !.siblings = siblings,
                          !.view = With(Loaded(p, siblings), [x \in {d} |-> is])]
<1>1. tx' = [tx EXCEPT ![p] = e] /\ manifest' = manifest /\ jobs' = jobs
  BY DEF Write
<1>2. /\ s \in Session /\ s.pc = "write" /\ ~Locked(p, d)
      /\ s.created => d \notin DOMAIN manifest
  BY DEF QueueInv, Typed, Write
<1>3. /\ e.siblings = siblings /\ e.wrote = With(s.wrote, row)
      /\ e.view = With(Loaded(p, siblings), [x \in {d} |-> is])
  BY <1>2 DEF Session
<1>4. e = [s EXCEPT !.pc = "place", !.wrote = e.wrote, !.siblings = e.siblings, !.view = e.view]
  BY <1>3
<1> HIDE DEF e
<1>5. d = Here(s) /\ c = s.offered[s.at] /\ Rows(p) = Sees(manifest, s)
  BY DEF Here, InHand, Rows, Sees
<1>6. e.siblings = Siblings(Sees(manifest, e), d)
  BY <1>3, <1>5, WithTwice DEF Sees
<1>7. /\ DOMAIN e.wrote = DOMAIN s.wrote \cup {d} /\ e.wrote[d] = written
      /\ \A x \in DOMAIN s.wrote \ {d} : e.wrote[x] = s.wrote[x]
  BY <1>3 DEF With
<1>8. /\ DOMAIN e.view = DOMAIN s.view \cup e.siblings \cup {d} /\ e.view[d] = is
      /\ \A x \in DOMAIN s.view \ {d} : e.view[x] = s.view[x]
      /\ \A x \in e.siblings \ DOMAIN s.view : e.view[x] = Rows(p)[x]
  <2>1. d \notin e.siblings
    BY <1>3 DEF Siblings
  <2> HIDE DEF siblings, is, d
  <2> QED
    BY <2>1, <1>3 DEF With, Loaded
<1>9. Writes(manifest, s, e)
  <2>1. IsMap(e.wrote) /\ IsMap(e.view)
    BY <1>3, WithIsMap
  <2> HIDE DEF siblings, row, d, c
  <2> QED
    BY <1>2, <1>4, <1>5, <1>6, <1>7, <1>8, <2>1 DEF Writes
<1>10. tx'[p] = e /\ tx' = [tx EXCEPT ![p] = tx'[p]]
  BY <1>1, Replaced
<1>11. \A q \in Collector \ {p} : (DOMAIN e.wrote \ DOMAIN s.wrote) \cap DOMAIN tx[q].wrote = {}
  BY <1>2, <1>7 DEF Locked
<1> QED
  BY <1>1, <1>9, <1>10, <1>11 DEF Alone, Steps

LEMMA PlaceStep ==
  ASSUME QueueInv, NEW p \in Collector, Place(p)
  PROVE  Alone(p)
<1> DEFINE s == tx[p]
           d == Identity(InHand(p))
           view == s.view
           siblings == s.siblings
           older == IF s.created THEN {x \in siblings : Older(view[x], view[d])} ELSE {}
           is(last) == [x \in older \cup {d} |->
                          IF x = d THEN Placed(view[d], {view[y] : y \in siblings}, last)
                                   ELSE Superseded(view[x], d)]
           flushed(last) ==
             [x \in DOMAIN is(last) |-> Flushed(Rows(p)[x], view[x], is(last)[x])]
           own(last) == s.jobs \cup (IF MayEnqueue(p, is(last)[d]) THEN Enqueued(d) ELSE {})
           counted(last) == IF Cardinality(jobs \cup own(last)) > s.before
                              THEN s.counted + 1 ELSE s.counted
           new(last) ==
             [s EXCEPT !.pc = "next", !.at = s.at + 1, !.siblings = {},
                       !.wrote = With(s.wrote, flushed(last)), !.view = With(view, is(last)),
                       !.jobs = own(last), !.counted = counted(last)]
<1>1. /\ manifest' = manifest /\ jobs' = jobs
      /\ \E last \in IF older = {} THEN {None} ELSE older : tx' = [tx EXCEPT ![p] = new(last)]
  BY DEF Place
<1>2. /\ s \in Session /\ s.pc = "place" /\ Orderly(manifest, s)
      /\ \A x \in older : ~Locked(p, x)
  BY DEF QueueInv, Typed, Place
<1>3. d = Here(s) /\ Rows(p) = Sees(manifest, s)
  BY DEF Here, InHand, Rows, Sees
<1>4. older \subseteq siblings /\ siblings \subseteq DOMAIN view /\ d \in DOMAIN s.wrote
      /\ d \notin older /\ d \in DOMAIN view
  BY <1>2, <1>3 DEF Orderly
<1>5. PICK last \in older \cup {None} : tx' = [tx EXCEPT ![p] = new(last)]
  <2> HIDE DEF new, older
  <2> QED
    BY <1>1
<1> DEFINE e == new(last)
<1>6. /\ e.wrote = With(s.wrote, flushed(last)) /\ e.view = With(view, is(last))
      /\ e.jobs = own(last) /\ e.counted = counted(last)
  BY <1>2 DEF Session
<1>7. e = [s EXCEPT !.pc = "next", !.at = s.at + 1, !.siblings = {}, !.wrote = e.wrote,
                    !.view = e.view, !.jobs = e.jobs, !.counted = e.counted]
  BY <1>6
<1>8. tx' = [tx EXCEPT ![p] = e]
  BY <1>5
<1> HIDE DEF e, new
<1>9. /\ DOMAIN e.view = DOMAIN view
      /\ e.view[d] = Placed(view[d], {view[x] : x \in siblings}, last)
      /\ \A x \in older : e.view[x] = Superseded(view[x], d)
      /\ \A x \in DOMAIN view \ (older \cup {d}) : e.view[x] = view[x]
      /\ \A x \in older \cup {d} : is(last)[x] = e.view[x]
  <2> HIDE DEF d, older, siblings
  <2>1. /\ DOMAIN is(last) = older \cup {d}
        /\ is(last)[d] = Placed(view[d], {view[x] : x \in siblings}, last)
        /\ \A x \in older : x # d => is(last)[x] = Superseded(view[x], d)
    OBVIOUS
  <2>2. /\ DOMAIN e.view = DOMAIN view \cup DOMAIN is(last)
        /\ \A x \in DOMAIN is(last) : e.view[x] = is(last)[x]
        /\ \A x \in DOMAIN view \ DOMAIN is(last) : e.view[x] = view[x]
    <3> HIDE DEF is, view
    <3> QED
      BY <1>6 DEF With
  <2> HIDE DEF is
  <2> QED
    BY <1>4, <2>1, <2>2
<1>10. /\ DOMAIN e.wrote = DOMAIN s.wrote \cup older
       /\ \A x \in older \cup {d} : e.wrote[x] = Flushed(Rows(p)[x], view[x], is(last)[x])
       /\ \A x \in DOMAIN s.wrote \ (older \cup {d}) : e.wrote[x] = s.wrote[x]
  <2>1. DOMAIN flushed(last) = older \cup {d}
    OBVIOUS
  <2>2. \A x \in older \cup {d} : flushed(last)[x] = Flushed(Rows(p)[x], view[x], is(last)[x])
    OBVIOUS
  <2> HIDE DEF flushed, is, older, d
  <2> QED
    BY <1>4, <1>6, <2>1, <2>2 DEF With
<1>11. /\ \/ e.jobs = s.jobs
          \/ s.counted < QueueLimit /\ e.view[d].current /\ e.jobs = s.jobs \cup ({d} \ jobs)
       /\ e.counted = IF Cardinality(jobs \cup e.jobs) > s.before THEN s.counted + 1 ELSE s.counted
  <2> HIDE DEF is, d
  <2> QED
    BY <1>6, <1>9 DEF MayEnqueue, Enqueued
<1>12. \A x \in siblings : x \in older <=> s.created /\ Older(view[x], view[d])
  OBVIOUS
<1> HIDE DEF older, is, own, counted, flushed, d
<1>13. Places(manifest, jobs, s, e)
  <2>1. /\ \A x \in s.siblings : x \in older <=> s.created /\ Older(s.view[x], s.view[d])
        /\ DOMAIN e.view = DOMAIN s.view
        /\ DOMAIN e.wrote = DOMAIN s.wrote \cup older
        /\ e.view[d] = Placed(s.view[d], {s.view[x] : x \in s.siblings}, last)
        /\ \A x \in older : e.view[x] = Superseded(s.view[x], d)
        /\ \A x \in DOMAIN s.view \ (older \cup {d}) : e.view[x] = s.view[x]
        /\ \A x \in older \cup {d} :
             e.wrote[x] = Flushed(Sees(manifest, s)[x], s.view[x], e.view[x])
        /\ \A x \in DOMAIN s.wrote \ (older \cup {d}) : e.wrote[x] = s.wrote[x]
        /\ IsMap(e.wrote) /\ IsMap(e.view)
    BY <1>3, <1>6, WithIsMap, <1>9, <1>10, <1>12
  <2>2. older \in SUBSET s.siblings
    BY <1>4
  <2> HIDE DEF s
  <2> QED
    BY <1>2, <1>3, <1>5, <1>7, <1>11, <2>1, <2>2 DEF Places
<1>14. tx'[p] = e /\ tx' = [tx EXCEPT ![p] = tx'[p]]
  BY <1>8, Replaced
<1>15. \A q \in Collector \ {p} : (DOMAIN e.wrote \ DOMAIN s.wrote) \cap DOMAIN tx[q].wrote = {}
  BY <1>2, <1>10 DEF Locked
<1> QED
  BY <1>1, <1>13, <1>14, <1>15 DEF Alone, Steps

LEMMA NextStep ==
  ASSUME QueueInv, Next
  PROVE  \E p \in Collector : Alone(p) \/ Ends(p)
<1>1. PICK p \in Collector :
        \/ \E n \in 1..MaxOffered : \E list \in [1..n -> Candidate] : Offer(p, list)
        \/ Skip(p) \/ Lookup(p) \/ Write(p) \/ InsertConflicts(p) \/ Place(p)
        \/ Commit(p) \/ Rollback(p)
  BY DEF Next
<1> DEFINE s == tx[p]
<1>2. s \in Session
  BY DEF QueueInv, Typed
<1>3. ASSUME NEW n \in 1..MaxOffered, NEW list \in [1..n -> Candidate], Offer(p, list)
      PROVE  Alone(p)
  <2> DEFINE e == [Idle EXCEPT !.pc = "next", !.offered = list]
  <2>1. tx' = [tx EXCEPT ![p] = e] /\ manifest' = manifest /\ jobs' = jobs
    BY <1>3 DEF Offer
  <2>2. list \in Seq(Candidate) /\ Len(list) = n /\ n <= MaxOffered
    BY IngestionAssumption
  <2>3. e.wrote = NoRows /\ DOMAIN NoRows = {}
    BY DEF Idle, NoRows
  <2>4. Begins(e, list)
    BY <2>2 DEF Begins
  <2> HIDE DEF e
  <2>5. tx'[p] = e /\ tx' = [tx EXCEPT ![p] = tx'[p]]
    BY <2>1, Replaced
  <2> QED
    BY <2>1, <2>2, <2>3, <2>4, <2>5 DEF Alone, Steps
<1>4. ASSUME Skip(p) PROVE Alone(p)
  <2> DEFINE e == [s EXCEPT !.at = s.at + 1]
  <2>1. tx' = [tx EXCEPT ![p] = e] /\ manifest' = manifest /\ jobs' = jobs
    BY <1>4, <1>2 DEF Skip, QueueInv, Typed
  <2>2. e.wrote = s.wrote /\ Skips(s, e)
    BY <1>2, <1>4 DEF Skip, HasNext, Repeated, InHand, Skips, Session
  <2> HIDE DEF e
  <2>3. tx'[p] = e /\ tx' = [tx EXCEPT ![p] = tx'[p]]
    BY <2>1, Replaced
  <2> QED
    BY <2>1, <2>2, <2>3 DEF Alone, Steps
<1>5. ASSUME InsertConflicts(p) \/ Rollback(p) PROVE Alone(p)
  <2>1. tx' = [tx EXCEPT ![p] = Idle] /\ manifest' = manifest /\ jobs' = jobs
    BY <1>5 DEF InsertConflicts, Rollback
  <2>2. Idle.wrote = NoRows /\ DOMAIN NoRows = {}
    BY DEF Idle, NoRows
  <2>3. tx'[p] = Idle /\ tx' = [tx EXCEPT ![p] = tx'[p]]
    BY <2>1, Replaced
  <2> QED
    BY <2>1, <2>2, <2>3 DEF Alone, Steps
<1>6. ASSUME Commit(p) PROVE Ends(p)
  BY <1>6 DEF Commit, HasNext, Ends, Rows, JobRows, Sees
<1> QED
  BY <1>1, <1>3, <1>4, <1>5, <1>6, LookupStep, WriteStep, PlaceStep

------------------------------------------------------------------------------
(* Every step keeps a session in order.                                    *)

LEMMA LooksKeeps ==
  ASSUME NEW m \in RowSet, NEW j, IsFiniteSet(j), NEW s \in Session, Orderly(m, s),
         Frugal(j, s), NEW t, Looks(m, j, s, t)
  PROVE  t \in Session /\ Orderly(m, t) /\ Frugal(j, t)
<1>1. Here(s) \in Document /\ s.at <= Len(s.offered)
  BY HereFacts DEF Looks
<1>2. IsFiniteSet(j \cup s.jobs) /\ Cardinality(j \cup s.jobs) \in Nat
  BY FS_Union, FS_CardinalityType DEF Orderly
<1>3. s.view \in RowSet /\ s.wrote \in RowSet
  BY DEF Session
<1>4. Sees(m, s) \in RowSet /\ DOMAIN Sees(m, s) = DOMAIN m \cup DOMAIN s.wrote
  BY <1>3, WithFacts DEF Sees
<1>5. /\ t.pc = "write" /\ t.offered = s.offered /\ t.at = s.at /\ t.wrote = s.wrote
      /\ t.siblings = s.siblings /\ t.jobs = s.jobs /\ t.counted = s.counted
      /\ t.before = Cardinality(j \cup s.jobs)
  BY DEF Looks, Session
<1>6. t.created \in BOOLEAN
  BY DEF Looks
<1>7. t.view \in RowSet
  <2>1. CASE t.created
    BY <2>1, <1>3 DEF Looks
  <2>2. CASE ~t.created
    <3>1. Here(s) \in DOMAIN Sees(m, s)
      BY <2>2, <1>6 DEF Looks
    <3>2. \A x \in DOMAIN s.view \cup {Here(s)} : t.view[x] \in Row
      BY <2>2, <3>1, <1>3, <1>4, RowSetFacts DEF Looks
    <3>3. t.view \in [DOMAIN s.view \cup {Here(s)} -> Row]
      BY <3>2, <2>2 DEF Looks, IsMap
    <3>4. DOMAIN s.view \cup {Here(s)} \in SUBSET Document
      BY <1>1, <1>3, RowSetFacts
    <3> QED
      BY <3>3, <3>4, <1>3, RowSetFacts
  <2> QED
    BY <1>6, <2>1, <2>2
<1>8. t \in Session
  BY <1>2, <1>6, <1>7 DEF Looks, Session
<1>9. DOMAIN t.view \subseteq DOMAIN s.view \cup {Here(s)} /\ DOMAIN s.view \subseteq DOMAIN t.view
  BY <1>6 DEF Looks
<1>10. /\ t.created \/ Here(s) \in DOMAIN t.view
       /\ t.created \/ Here(s) \in DOMAIN m \cup DOMAIN s.wrote
       /\ t.created => t.view = s.view
  BY <1>4, <1>6 DEF Looks
<1>11. Here(t) = Here(s)
  BY <1>5 DEF Here
<1>12. Orderly(m, t)
  BY <1>1, <1>5, <1>9, <1>10, <1>11 DEF Orderly
<1>13. Frugal(j, t)
  BY <1>2, <1>5 DEF Frugal
<1> QED
  BY <1>8, <1>12, <1>13

LEMMA MapsToRows ==
  ASSUME NEW f, IsMap(f), DOMAIN f \subseteq Document, \A x \in DOMAIN f : f[x] \in Row
  PROVE  f \in RowSet
<1>1. f \in [DOMAIN f -> Row]
  BY DEF IsMap
<1> QED
  BY <1>1 DEF RowSet

LEMMA WritesKeeps ==
  ASSUME NEW m \in RowSet, NEW j, IsFiniteSet(j), NEW s \in Session, Orderly(m, s),
         Frugal(j, s), NEW t, Writes(m, s, t)
  PROVE  t \in Session /\ Orderly(m, t) /\ Frugal(j, t)
<1> DEFINE c == s.offered[s.at]
           d == Here(s)
           is == IF s.created THEN Inserted(c) ELSE Rediscovered(s.view[d], c)
<1>1. s.pc = "write" /\ s.at <= Len(s.offered) /\ (s.created \/ d \in DOMAIN s.view)
  BY DEF Writes, Orderly
<1>2. c \in Candidate /\ d \in Document
  BY <1>1, HereFacts
<1>3. s.view \in RowSet /\ s.wrote \in RowSet
  BY DEF Session
<1>4. /\ Sees(m, s) \in RowSet /\ DOMAIN Sees(m, s) = DOMAIN m \cup DOMAIN s.wrote
      /\ \A x \in DOMAIN Sees(m, s) : Sees(m, s)[x] \in Row
      /\ \A x \in DOMAIN s.view : s.view[x] \in Row
      /\ \A x \in DOMAIN s.wrote : s.wrote[x] \in Row
  BY <1>3, WithFacts, RowSetFacts DEF Sees
<1>5. /\ t.pc = "place" /\ t.offered = s.offered /\ t.at = s.at /\ t.created = s.created
      /\ t.jobs = s.jobs /\ t.counted = s.counted /\ t.before = s.before
  BY DEF Writes, Session
<1>6. is \in Row
  BY <1>1, <1>2, <1>4, FoundRows
<1>7. ~s.created => d \in DOMAIN Sees(m, s)
  BY <1>1, <1>4 DEF Orderly
<1>8. t.wrote[d] \in Row
  <2>1. CASE s.created
    BY <2>1, <1>6 DEF Writes
  <2>2. CASE ~s.created
    <3>1. t.wrote[d] = Flushed(Sees(m, s)[d], s.view[d], is)
      BY <2>2 DEF Writes
    <3> HIDE DEF is, d
    <3> QED
      BY <2>2, <3>1, <1>1, <1>4, <1>6, <1>7, FlushedRows
  <2> QED
    BY <2>1, <2>2
<1>9. t.wrote \in RowSet /\ DOMAIN t.wrote = DOMAIN s.wrote \cup {d}
  <2>1. DOMAIN t.wrote = DOMAIN s.wrote \cup {d} /\ IsMap(t.wrote)
    BY DEF Writes
  <2>2. \A x \in DOMAIN t.wrote : t.wrote[x] \in Row
    BY <2>1, <1>4, <1>8 DEF Writes
  <2>3. DOMAIN t.wrote \subseteq Document
    BY <2>1, <1>2, <1>3, RowSetFacts
  <2> QED
    BY <2>1, <2>2, <2>3, MapsToRows
<1>10. t.siblings \subseteq (DOMAIN m \cup DOMAIN s.wrote) \ {d}
  <2>1. DOMAIN Sees(m, t) = DOMAIN m \cup DOMAIN t.wrote
    BY <1>9, WithFacts DEF Sees
  <2>2. t.siblings = Siblings(Sees(m, t), d)
    BY DEF Writes
  <2> QED
    BY <2>1, <2>2, <1>9 DEF Siblings
<1>11. t.view \in RowSet /\ DOMAIN t.view = DOMAIN s.view \cup t.siblings \cup {d}
  <2>1. DOMAIN t.view = DOMAIN s.view \cup t.siblings \cup {d} /\ IsMap(t.view) /\ t.view[d] = is
    BY DEF Writes
  <2>2. \A x \in DOMAIN t.view : t.view[x] \in Row
    <3> HIDE DEF is
    <3> QED
      BY <2>1, <1>4, <1>6, <1>10 DEF Writes
  <2>3. DOMAIN t.view \subseteq Document
    BY <2>1, <1>2, <1>3, <1>10, RowSetFacts
  <2> QED
    BY <2>1, <2>2, <2>3, MapsToRows
<1>12. t \in Session
  <2>1. t.siblings \in SUBSET Document
    BY <1>3, <1>10, RowSetFacts
  <2> QED
    BY <1>9, <1>11, <2>1 DEF Writes, Session
<1>13. Here(t) = d
  BY <1>5 DEF Here
<1>14. Orderly(m, t)
  <2> HIDE DEF d, is
  <2> QED
    BY <1>1, <1>5, <1>9, <1>10, <1>11, <1>13 DEF Orderly
<1>15. Frugal(j, t)
  BY <1>1, <1>5 DEF Frugal
<1> QED
  BY <1>12, <1>14, <1>15

LEMMA PlacesKeeps ==
  ASSUME NEW m \in RowSet, NEW j, IsFiniteSet(j), NEW s \in Session, Orderly(m, s),
         Frugal(j, s), NEW t, Places(m, j, s, t)
  PROVE  t \in Session /\ Orderly(m, t) /\ Frugal(j, t)
<1> DEFINE d == Here(s)
<1>1. /\ s.pc = "place" /\ s.at <= Len(s.offered)
      /\ d \in DOMAIN s.wrote /\ d \in DOMAIN s.view /\ d \notin s.siblings
      /\ s.siblings \subseteq DOMAIN s.view
  BY DEF Places, Orderly
<1>2. s.view \in RowSet /\ s.wrote \in RowSet /\ d \in Document
  BY <1>1, HereFacts DEF Session
<1>3. /\ DOMAIN Sees(m, s) = DOMAIN m \cup DOMAIN s.wrote
      /\ \A x \in DOMAIN Sees(m, s) : Sees(m, s)[x] \in Row
      /\ \A x \in DOMAIN s.view : s.view[x] \in Row
      /\ \A x \in DOMAIN s.wrote : s.wrote[x] \in Row
      /\ DOMAIN s.view \subseteq Document /\ DOMAIN s.wrote \subseteq Document
  BY <1>2, WithFacts, RowSetFacts DEF Sees
<1>4. PICK older \in SUBSET s.siblings : \E last \in older \cup {None} :
       /\ DOMAIN t.view = DOMAIN s.view
       /\ DOMAIN t.wrote = DOMAIN s.wrote \cup older
       /\ t.view[d] = Placed(s.view[d], {s.view[x] : x \in s.siblings}, last)
       /\ \A x \in older : t.view[x] = Superseded(s.view[x], d)
       /\ \A x \in DOMAIN s.view \ (older \cup {d}) : t.view[x] = s.view[x]
       /\ \A x \in older \cup {d} : t.wrote[x] = Flushed(Sees(m, s)[x], s.view[x], t.view[x])
       /\ \A x \in DOMAIN s.wrote \ (older \cup {d}) : t.wrote[x] = s.wrote[x]
  BY DEF Places
<1>5. /\ t.pc = "next" /\ t.offered = s.offered /\ t.at = s.at + 1 /\ t.created = s.created
      /\ t.siblings = {} /\ t.before = s.before /\ IsMap(t.wrote) /\ IsMap(t.view)
      /\ \/ t.jobs = s.jobs
         \/ s.counted < QueueLimit /\ t.jobs = s.jobs \cup ({d} \ j)
  BY DEF Places, Session
<1> HIDE DEF d
<1>6. \A x \in DOMAIN t.view : t.view[x] \in Row
  <2>1. {s.view[x] : x \in s.siblings} \in SUBSET Row
    BY <1>1, <1>3
  <2>2. t.view[d] \in Row
    <3>1. PICK last \in older \cup {None} :
            t.view[d] = Placed(s.view[d], {s.view[x] : x \in s.siblings}, last)
      BY <1>4
    <3>2. last \in Document \cup {None} /\ s.view[d] \in Row
      BY <1>1, <1>3
    <3> QED
      BY <2>1, <3>1, <3>2, <1>2, PlacedRows
  <2>3. ASSUME NEW x \in older
        PROVE  t.view[x] \in Row
    <3>1. t.view[x] = Superseded(s.view[x], d) /\ s.view[x] \in Row /\ x \in Document
      BY <1>1, <1>3, <1>4
    <3> QED
      BY <3>1, <1>2, PlacedRows
  <2> QED
    BY <1>3, <1>4, <2>2, <2>3
<1>7. \A x \in DOMAIN t.wrote : t.wrote[x] \in Row
  <2>1. ASSUME NEW x \in older \cup {d}
        PROVE  t.wrote[x] \in Row
    <3>1. x \in DOMAIN Sees(m, s) /\ x \in DOMAIN s.view /\ x \in DOMAIN t.view
      BY <1>1, <1>3, <1>4 DEF Orderly
    <3>2. Sees(m, s)[x] \in Row /\ s.view[x] \in Row /\ t.view[x] \in Row
      BY <3>1, <1>3, <1>6
    <3>3. t.wrote[x] = Flushed(Sees(m, s)[x], s.view[x], t.view[x])
      BY <1>4
    <3> QED
      BY <3>2, <3>3, FlushedRows
  <2> QED
    BY <1>3, <1>4, <2>1
<1>8. t.view \in RowSet /\ t.wrote \in RowSet
  <2>1. DOMAIN t.view \subseteq Document /\ DOMAIN t.wrote \subseteq Document
    BY <1>1, <1>3, <1>4
  <2> QED
    BY <2>1, <1>5, <1>6, <1>7, MapsToRows
<1>9. /\ t.jobs \subseteq s.jobs \cup {d} /\ s.jobs \subseteq t.jobs /\ IsFiniteSet(t.jobs)
      /\ t.jobs \cap j = {}
      /\ Cardinality(t.jobs) \in Nat /\ Cardinality(s.jobs) \in Nat
      /\ IsFiniteSet(j \cup t.jobs)
      /\ Cardinality(j \cup t.jobs) \in Nat
  <2>1. t.jobs = s.jobs \/ t.jobs = s.jobs \cup ({d} \ j)
    BY <1>5
  <2>2. s.jobs \cap j = {} /\ IsFiniteSet(s.jobs)
    BY DEF Frugal, Orderly
  <2>3. t.jobs = s.jobs \/ (t.jobs = s.jobs \cup {d} /\ d \notin j)
    BY <2>1
  <2>4. IsFiniteSet(t.jobs)
    BY <2>2, <2>3, FS_AddElement
  <2> QED
    BY <2>2, <2>3, <2>4, FS_Union, FS_CardinalityType
<1>10. t.counted = IF Cardinality(j \cup t.jobs) > s.before THEN s.counted + 1 ELSE s.counted
  BY DEF Places
<1>11. s.counted \in Nat /\ s.before \in Nat /\ t.counted \in Nat
  BY <1>10 DEF Session
<1>12. t \in Session
  <2>1. t.jobs \in SUBSET Document
    BY <1>2, <1>9 DEF Session
  <2>2. t = [s EXCEPT !.pc = "next", !.at = s.at + 1, !.siblings = {}, !.wrote = t.wrote,
                      !.view = t.view, !.jobs = t.jobs, !.counted = t.counted]
    BY DEF Places
  <2>3. s.at + 1 \in Nat \ {0} /\ {} \in SUBSET Document
    BY DEF Session
  <2> QED
    BY <1>8, <1>11, <2>1, <2>2, <2>3 DEF Session
<1>13. Orderly(m, t)
  <2>1. t.at <= Len(t.offered) + 1 /\ Len(t.offered) <= MaxOffered
    BY <1>1, <1>5 DEF Orderly, Session
  <2>2. DOMAIN t.wrote \subseteq DOMAIN t.view /\ DOMAIN s.wrote \subseteq DOMAIN t.wrote
    BY <1>1, <1>4 DEF Orderly
  <2>3. DOMAIN t.view \subseteq DOMAIN m \cup DOMAIN t.wrote
    BY <1>4 DEF Orderly
  <2>4. t.jobs \subseteq DOMAIN t.wrote
    BY <1>1, <1>9, <2>2 DEF Orderly
  <2> QED
    BY <1>5, <1>9, <2>1, <2>2, <2>3, <2>4 DEF Orderly
<1>14. /\ Cardinality(t.jobs) <= t.counted /\ Cardinality(t.jobs) <= QueueLimit
  <2>1. CASE t.jobs = s.jobs
    BY <2>1, <1>9, <1>10, <1>11, IngestionAssumption DEF Frugal
  <2>2. CASE t.jobs # s.jobs
    <3>1. s.counted < QueueLimit /\ t.jobs = s.jobs \cup {d} /\ d \notin j /\ d \notin s.jobs
      BY <2>2, <1>5
    <3>2. Cardinality(t.jobs) = Cardinality(s.jobs) + 1
      BY <3>1, FS_AddElement DEF Orderly
    <3>3. Cardinality(j \cup t.jobs) = Cardinality(j \cup s.jobs) + 1
      <4>1. j \cup t.jobs = (j \cup s.jobs) \cup {d} /\ d \notin j \cup s.jobs
        BY <3>1
      <4>2. IsFiniteSet(j \cup s.jobs)
        BY FS_Union DEF Orderly
      <4> QED
        BY <4>1, <4>2, FS_AddElement
    <3>4. Cardinality(j \cup s.jobs) \in Nat /\ s.before <= Cardinality(j \cup s.jobs)
      BY <1>1, FS_Union, FS_CardinalityType DEF Orderly, Frugal
    <3> QED
      BY <3>1, <3>2, <3>3, <3>4, <1>9, <1>10, <1>11, IngestionAssumption DEF Frugal
  <2> QED
    BY <2>1, <2>2
<1>15. Frugal(j, t)
  BY <1>5, <1>9, <1>14 DEF Frugal
<1> QED
  BY <1>12, <1>13, <1>15

LEMMA StepsKeep ==
  ASSUME NEW m \in RowSet, NEW j, IsFiniteSet(j), NEW s \in Session, Orderly(m, s),
         Frugal(j, s), NEW t, Steps(m, j, s, t)
  PROVE  t \in Session /\ Orderly(m, t) /\ Frugal(j, t)
<1>1. CASE t = Idle
  BY <1>1, IdleFacts
<1>2. ASSUME NEW list \in Seq(Candidate), Begins(t, list)
      PROVE  t \in Session /\ Orderly(m, t) /\ Frugal(j, t)
  <2>1. Len(list) <= MaxOffered /\ t = [Idle EXCEPT !.pc = "next", !.offered = list]
    BY <1>2 DEF Begins
  <2>2. /\ Idle \in Session /\ Orderly(m, Idle) /\ Frugal(j, Idle) /\ Idle.at = 1
    BY IdleFacts DEF Idle
  <2>3. t \in Session
    BY <2>1, <2>2 DEF Session
  <2>4. /\ t.pc = "next" /\ t.offered = list /\ t.at = 1 /\ t.view = Idle.view
        /\ t.wrote = Idle.wrote /\ t.jobs = Idle.jobs /\ t.counted = Idle.counted
    BY <2>1, <2>2 DEF Session
  <2>5. Len(list) \in Nat
    OBVIOUS
  <2>6. Orderly(m, t)
    BY <2>1, <2>2, <2>4, <2>5 DEF Orderly
  <2>7. Frugal(j, t)
    BY <2>2, <2>4 DEF Frugal
  <2> QED
    BY <2>3, <2>6, <2>7
<1>3. CASE Skips(s, t)
  <2>1. /\ s.pc = "next" /\ s.at <= Len(s.offered) /\ t = [s EXCEPT !.at = s.at + 1]
    BY <1>3 DEF Skips
  <2>2. s.at + 1 \in Nat \ {0} /\ s.at \in Nat /\ Len(s.offered) \in Nat
    BY DEF Session
  <2>3. t \in Session
    BY <2>1, <2>2 DEF Session
  <2>4. /\ t.pc = s.pc /\ t.offered = s.offered /\ t.at = s.at + 1 /\ t.view = s.view
        /\ t.wrote = s.wrote /\ t.jobs = s.jobs /\ t.counted = s.counted
    BY <2>1 DEF Session
  <2>5. Orderly(m, t)
    BY <2>1, <2>2, <2>4 DEF Orderly
  <2>6. Frugal(j, t)
    BY <2>1, <2>4 DEF Frugal
  <2> QED
    BY <2>3, <2>5, <2>6
<1> QED
  BY <1>1, <1>2, <1>3, LooksKeeps, WritesKeeps, PlacesKeeps DEF Steps

\* A commit by another leaves a session in order: the table and the jobs grow.
LEMMA GrowthKeeps ==
  ASSUME NEW m \in RowSet, NEW j, IsFiniteSet(j), NEW s \in Session, Orderly(m, s),
         Frugal(j, s), NEW n \in RowSet, DOMAIN m \subseteq DOMAIN n,
         NEW k, IsFiniteSet(k), k \cap s.jobs = {}, j \subseteq k
  PROVE  Orderly(n, s) /\ Frugal(k, s)
<1>1. Orderly(n, s)
  BY DEF Orderly
<1>2. Cardinality(j \cup s.jobs) <= Cardinality(k \cup s.jobs)
  <2>1. IsFiniteSet(k \cup s.jobs)
    BY FS_Union DEF Orderly
  <2>2. j \cup s.jobs \in SUBSET (k \cup s.jobs)
    OBVIOUS
  <2> QED
    BY <2>1, <2>2, FS_Subset
<1>3. /\ Cardinality(j \cup s.jobs) \in Nat /\ Cardinality(k \cup s.jobs) \in Nat
      /\ s.before \in Nat
  BY FS_Union, FS_CardinalityType DEF Orderly, Session
<1>4. Frugal(k, s)
  BY <1>2, <1>3 DEF Frugal
<1> QED
  BY <1>1, <1>4

LEMMA QueueStep ==
  ASSUME QueueInv, Next
  PROVE  QueueInv'
<1>1. PICK p \in Collector : Alone(p) \/ Ends(p)
  BY NextStep
<1>2. /\ manifest \in RowSet /\ IsFiniteSet(jobs) /\ jobs \subseteq DOMAIN manifest
      /\ tx \in [Collector -> Session]
      /\ \A q \in Collector : Orderly(manifest, tx[q]) /\ Frugal(jobs, tx[q])
  BY DEF QueueInv, Typed
<1>3. CASE Alone(p)
  <2>1. /\ manifest' = manifest /\ jobs' = jobs
        /\ \A q \in Collector \ {p} : tx'[q] = tx[q]
        /\ tx' = [tx EXCEPT ![p] = tx'[p]]
        /\ Steps(manifest, jobs, tx[p], tx'[p])
    BY <1>2, <1>3 DEF Alone
  <2>2. tx'[p] \in Session /\ Orderly(manifest, tx'[p]) /\ Frugal(jobs, tx'[p])
    BY <1>2, <2>1, StepsKeep
  <2>3. tx' \in [Collector -> Session]
    BY <1>2, <2>1, <2>2
  <2>4. \A q \in Collector : Orderly(manifest, tx'[q]) /\ Frugal(jobs, tx'[q])
    BY <1>2, <2>1, <2>2
  <2>5. \A q \in Collector \ {p} : DOMAIN tx'[p].wrote \cap DOMAIN tx[q].wrote = {}
    BY <1>3 DEF Alone, QueueInv, LocksApart
  <2>6. \A q, r \in Collector : q # r => DOMAIN tx'[q].wrote \cap DOMAIN tx'[r].wrote = {}
    BY <2>1, <2>5 DEF QueueInv, LocksApart
  <2> QED
    BY <1>2, <2>1, <2>3, <2>4, <2>6 DEF QueueInv, Typed, LocksApart
<1>4. CASE Ends(p)
  <2> DEFINE s == tx[p]
  <2>1. /\ manifest' = Sees(manifest, s) /\ jobs' = jobs \cup s.jobs
        /\ tx' = [tx EXCEPT ![p] = Idle]
        /\ tx'[p] = Idle /\ \A q \in Collector \ {p} : tx'[q] = tx[q]
    BY <1>4, Replaced DEF Ends
  <2>2. manifest' \in RowSet /\ DOMAIN manifest' = DOMAIN manifest \cup DOMAIN s.wrote
    <3>1. s.wrote \in RowSet
      BY <1>2 DEF Session
    <3> QED
      BY <1>2, <2>1, <3>1, WithFacts DEF Sees
  <2>3. jobs' \subseteq DOMAIN manifest' /\ IsFiniteSet(jobs')
    BY <1>2, <2>1, <2>2, FS_Union DEF Orderly
  <2>4. /\ Idle \in Session /\ Orderly(manifest', Idle) /\ Frugal(jobs', Idle)
        /\ DOMAIN Idle.wrote = {}
    BY <2>2, <2>3, IdleFacts
  <2>5. tx' \in [Collector -> Session]
    BY <1>2, <2>1, <2>4
  <2>6. ASSUME NEW q \in Collector \ {p}
        PROVE  Orderly(manifest', tx[q]) /\ Frugal(jobs', tx[q])
    <3>1. jobs' \cap tx[q].jobs = {}
      BY <1>2, <2>1 DEF Orderly, Frugal, QueueInv, LocksApart
    <3>2. tx[q] \in Session /\ jobs \subseteq jobs'
      BY <1>2, <2>1
    <3> QED
      BY <1>2, <2>2, <2>3, <3>1, <3>2, GrowthKeeps
  <2>7. \A q \in Collector : Orderly(manifest', tx'[q]) /\ Frugal(jobs', tx'[q])
    BY <2>1, <2>4, <2>6
  <2>8. \A q, r \in Collector : q # r => DOMAIN tx'[q].wrote \cap DOMAIN tx'[r].wrote = {}
    BY <2>1, <2>4 DEF QueueInv, LocksApart
  <2> QED
    BY <2>2, <2>3, <2>5, <2>7, <2>8 DEF QueueInv, Typed, LocksApart
<1> QED
  BY <1>1, <1>3, <1>4

LEMMA QueueInit ==
  ASSUME Init
  PROVE  QueueInv
<1>1. NoRows \in RowSet /\ DOMAIN NoRows = {} /\ IsFiniteSet({})
  BY FS_EmptySet DEF NoRows, RowSet
<1>2. /\ Idle \in Session /\ Orderly(NoRows, Idle) /\ Frugal({}, Idle)
      /\ DOMAIN Idle.wrote = {}
  BY <1>1, IdleFacts
<1> QED
  BY <1>1, <1>2 DEF Init, QueueInv, Typed, LocksApart

LEMMA QueueInvariant == Spec => []QueueInv
<1>1. Init => QueueInv
  BY QueueInit
<1>2. QueueInv /\ [Next]_vars => QueueInv'
  <2>1. CASE UNCHANGED vars
    BY <2>1 DEF vars, QueueInv, Typed, LocksApart
  <2> QED
    BY <2>1, QueueStep
<1> QED
  BY <1>1, <1>2, PTL DEF Spec

\* The variables have their types, and what a transaction has flushed, its
\* session has loaded.
THEOREM IngestionTypeCorrect == Spec => []TypeOK
<1>1. QueueInv => TypeOK
  <2> SUFFICES ASSUME QueueInv PROVE TypeOK
    OBVIOUS
  <2>1. \A f \in RowSet : IsRows(f)
    BY RowSetFacts DEF IsRows
  <2>2. ASSUME NEW p \in Collector
        PROVE  /\ tx[p].pc \in {"idle", "next", "write", "place"}
               /\ tx[p].offered \in Seq(Candidate) /\ Len(tx[p].offered) <= MaxOffered
               /\ tx[p].at \in 1..(Len(tx[p].offered) + 1)
               /\ IsRows(tx[p].view) /\ IsRows(tx[p].wrote)
               /\ DOMAIN tx[p].wrote \subseteq DOMAIN tx[p].view
               /\ tx[p].jobs \subseteq DOMAIN tx[p].wrote
    <3>1. tx[p] \in Session /\ Orderly(manifest, tx[p])
      BY DEF QueueInv, Typed
    <3> QED
      BY <2>1, <3>1 DEF Session, Orderly
  <2> QED
    BY <2>1, <2>2 DEF TypeOK, QueueInv, Typed
<1> QED
  BY <1>1, QueueInvariant, PTL

\* The insert of a job never meets the constraint of one job per document,
\* although collectors look for it and insert it in steps of their own: jobs
\* belong to rows their transactions have locked.
THEOREM JobsNeverConflict == Spec => []JobsApart
<1>1. QueueInv => JobsApart
  <2> SUFFICES ASSUME QueueInv, NEW p \in Collector
               PROVE  /\ tx[p].jobs \cap jobs = {}
                      /\ \A q \in Collector \ {p} : tx[p].jobs \cap tx[q].jobs = {}
    BY DEF JobsApart
  <2> QED
    BY DEF QueueInv, LocksApart, Orderly, Frugal
<1> QED
  BY <1>1, QueueInvariant, PTL

\* No ingestion inserts more jobs than its caller's limit leaves, although it
\* tells by the size of a table to which others add at the same time: their
\* jobs can only make it count one of its own that was none.
THEOREM QueueLimitKept == Spec => []LimitKept
<1>1. QueueInv => LimitKept
  BY DEF QueueInv, Frugal, LimitKept
<1> QED
  BY <1>1, QueueInvariant, PTL

------------------------------------------------------------------------------
(* Versions, where their numbers tell them apart.                          *)

\* x is a newer version of the document of d; x and d are of one document.
Beats(x, d) ==
  \E b, c \in Candidate :
    Identity(b) = x /\ Identity(c) = d /\ Logical(b) = Logical(c) /\ Rank(b) > Rank(c)
Kin(x, d) ==
  \E b, c \in Candidate : Identity(b) = x /\ Identity(c) = d /\ Logical(b) = Logical(c)

Named(f) == \A d \in DOMAIN f : Identity(f[d].found) = d

\* A row is revoked for a newer version only, superseded by one that is there.
Settled(f) ==
  /\ Named(f)
  /\ \A d \in DOMAIN f :
       /\ ~f[d].current => \E x \in DOMAIN f : Beats(x, d)
       /\ f[d].supersededBy # None => f[d].supersededBy \in DOMAIN f /\ ~f[d].current

\* The row that has been written and whose siblings have not been placed.
Placing(s, x) == s.pc = "place" /\ x = Here(s)

\* The siblings in hand tell that the row in hand is not the newest.
Beaten(s) == \E x \in s.siblings : Beats(x, Here(s))

\* A session revokes a row for a newer version only and never makes current
\* one that is revoked; but for the row in hand, a row it takes for revoked is
\* revoked; and what the row in hand must not be, its siblings tell.
Versioned(m, s) ==
  /\ Named(s.view) /\ Named(s.wrote)
  /\ \A x \in DOMAIN s.wrote :
       /\ ~s.wrote[x].current => \E y \in DOMAIN m \cup DOMAIN s.wrote : Beats(y, x)
       /\ s.wrote[x].supersededBy # None =>
            /\ s.wrote[x].supersededBy \in DOMAIN m \cup DOMAIN s.wrote
            /\ Placing(s, x) \/ ~s.wrote[x].current
       /\ x \in DOMAIN m /\ ~m[x].current => Placing(s, x) \/ ~s.wrote[x].current
  /\ \A x \in DOMAIN s.view :
       ~s.view[x].current => ~Placing(s, x) /\ ~Sees(m, s)[x].current
  /\ s.pc = "place" =>
       /\ \A x \in s.siblings : Kin(x, Here(s))
       /\ ~s.wrote[Here(s)].current => Beaten(s)
       /\ s.wrote[Here(s)].supersededBy # None => Beaten(s)
       /\ Here(s) \in DOMAIN m /\ ~m[Here(s)].current => Beaten(s)

VersionInv ==
  /\ QueueInv
  /\ Settled(manifest)
  /\ \A p \in Collector : Versioned(manifest, tx[p])

LEMMA RowsTell ==
  ASSUME VersionsNumbered, NEW r \in Row, NEW q \in Row
  PROVE  LET x == Identity(r.found)
             d == Identity(q.found)
         IN  /\ Beats(x, d) <=>
                  Logical(r.found) = Logical(q.found) /\ Rank(r.found) > Rank(q.found)
             /\ Kin(x, d) <=> Logical(r.found) = Logical(q.found)
             /\ Kin(x, d) /\ x # d /\ Older(r, q) => Beats(d, x)
             /\ Kin(x, d) /\ ~Older(r, q) => Beats(x, d)
             /\ Beats(x, d) => Kin(x, d) /\ x # d /\ ~Older(r, q)
<1> DEFINE x == Identity(r.found)
           d == Identity(q.found)
<1>1. r.found \in Candidate /\ q.found \in Candidate
  BY DEF Row
<1>2. Rank(r.found) \in Nat /\ Rank(q.found) \in Nat
  BY <1>1, CandidateFacts
<1>3. Kin(x, d) <=> Logical(r.found) = Logical(q.found)
  BY <1>1 DEF Kin, VersionsNumbered
<1>4. Beats(x, d) <=> Logical(r.found) = Logical(q.found) /\ Rank(r.found) > Rank(q.found)
  BY <1>1 DEF Beats, VersionsNumbered
<1>5. Beats(d, x) <=> Logical(q.found) = Logical(r.found) /\ Rank(q.found) > Rank(r.found)
  BY <1>1 DEF Beats, VersionsNumbered
<1>6. x # d /\ Logical(r.found) = Logical(q.found) => Rank(r.found) # Rank(q.found)
  BY <1>1 DEF VersionsNumbered
<1>7. x = d => Rank(r.found) = Rank(q.found)
  BY <1>1 DEF VersionsNumbered
<1> HIDE DEF x, d
<1>8. /\ Kin(x, d) /\ x # d /\ Older(r, q) => Beats(d, x)
      /\ Kin(x, d) /\ ~Older(r, q) => Beats(x, d)
      /\ Beats(x, d) => Kin(x, d) /\ x # d /\ ~Older(r, q)
  BY <1>2, <1>3, <1>4, <1>5, <1>6, <1>7 DEF Older
<1> QED
  BY <1>3, <1>4, <1>8 DEF x, d

LEMMA SeesFacts ==
  ASSUME NEW m \in RowSet, NEW s \in Session
  PROVE  /\ Sees(m, s) \in RowSet
         /\ DOMAIN Sees(m, s) = DOMAIN m \cup DOMAIN s.wrote
         /\ \A x \in DOMAIN s.wrote : Sees(m, s)[x] = s.wrote[x]
         /\ \A x \in DOMAIN m \ DOMAIN s.wrote : Sees(m, s)[x] = m[x]
         /\ \A x \in DOMAIN Sees(m, s) : Sees(m, s)[x] \in Row
         /\ Named(m) /\ Named(s.wrote) => Named(Sees(m, s))
<1>1. s.wrote \in RowSet
  BY DEF Session
<1>2. /\ Sees(m, s) \in RowSet
      /\ DOMAIN Sees(m, s) = DOMAIN m \cup DOMAIN s.wrote
      /\ \A x \in DOMAIN s.wrote : Sees(m, s)[x] = s.wrote[x]
      /\ \A x \in DOMAIN m \ DOMAIN s.wrote : Sees(m, s)[x] = m[x]
  BY <1>1, WithFacts DEF Sees
<1>3. \A x \in DOMAIN Sees(m, s) : Sees(m, s)[x] \in Row
  BY <1>2, RowSetFacts
<1>4. Named(m) /\ Named(s.wrote) => Named(Sees(m, s))
  BY <1>2 DEF Named
<1> QED
  BY <1>2, <1>3, <1>4

\* What a transaction sees, but for the row in hand, is as settled as the table.
LEMMA SeesSettled ==
  ASSUME NEW m \in RowSet, NEW s \in Session, Settled(m), Versioned(m, s)
  PROVE  /\ Named(Sees(m, s))
         /\ \A x \in DOMAIN Sees(m, s) :
              /\ ~Sees(m, s)[x].current => \E y \in DOMAIN Sees(m, s) : Beats(y, x)
              /\ Sees(m, s)[x].supersededBy # None =>
                   /\ Sees(m, s)[x].supersededBy \in DOMAIN Sees(m, s)
                   /\ Placing(s, x) \/ ~Sees(m, s)[x].current
<1>1. Named(Sees(m, s))
  BY SeesFacts DEF Settled, Versioned
<1>2. ASSUME NEW x \in DOMAIN Sees(m, s)
      PROVE  /\ ~Sees(m, s)[x].current => \E y \in DOMAIN Sees(m, s) : Beats(y, x)
             /\ Sees(m, s)[x].supersededBy # None =>
                  /\ Sees(m, s)[x].supersededBy \in DOMAIN Sees(m, s)
                  /\ Placing(s, x) \/ ~Sees(m, s)[x].current
  <2> DEFINE seen == Sees(m, s)
  <2>0. /\ DOMAIN seen = DOMAIN m \cup DOMAIN s.wrote /\ x \in DOMAIN seen
        /\ x \in DOMAIN s.wrote => seen[x] = s.wrote[x]
        /\ x \in DOMAIN m \ DOMAIN s.wrote => seen[x] = m[x]
    BY SeesFacts
  <2> HIDE DEF seen
  <2>1. CASE x \in DOMAIN s.wrote
    <3>1. /\ ~s.wrote[x].current => \E y \in DOMAIN m \cup DOMAIN s.wrote : Beats(y, x)
          /\ s.wrote[x].supersededBy # None =>
               /\ s.wrote[x].supersededBy \in DOMAIN m \cup DOMAIN s.wrote
               /\ Placing(s, x) \/ ~s.wrote[x].current
      BY <2>1 DEF Versioned
    <3> QED
      BY <2>0, <2>1, <3>1 DEF seen
  <2>2. CASE x \notin DOMAIN s.wrote
    <3>1. x \in DOMAIN m /\ Sees(m, s)[x] = m[x] /\ DOMAIN m \subseteq DOMAIN Sees(m, s)
      BY <2>0, <2>2 DEF seen
    <3>2. /\ ~m[x].current => \E y \in DOMAIN m : Beats(y, x)
          /\ m[x].supersededBy # None => m[x].supersededBy \in DOMAIN m /\ ~m[x].current
      BY <3>1 DEF Settled
    <3> QED
      BY <3>1, <3>2
  <2> QED
    BY <2>1, <2>2
<1> QED
  BY <1>1, <1>2

LEMMA LooksVersioned ==
  ASSUME NEW m \in RowSet, NEW j, NEW s \in Session, Settled(m), Versioned(m, s),
         NEW t, Looks(m, j, s, t)
  PROVE  Versioned(m, t)
<1>1. /\ s.pc = "next" /\ t.pc = "write" /\ t.wrote = s.wrote /\ t.created \in BOOLEAN
  BY DEF Looks, Session
<1>2. Sees(m, t) = Sees(m, s)
  BY <1>1 DEF Sees
<1>3. \A x \in DOMAIN t.view :
        \/ x \in DOMAIN s.view /\ t.view[x] = s.view[x]
        \/ x \in DOMAIN Sees(m, s) /\ t.view[x] = Sees(m, s)[x]
  BY <1>1 DEF Looks
<1>4. Named(t.view)
  BY <1>3, SeesSettled DEF Named, Versioned
<1>5. \A x : ~Placing(s, x) /\ ~Placing(t, x)
  BY <1>1 DEF Placing
<1> QED
  BY <1>1, <1>2, <1>3, <1>4, <1>5 DEF Versioned

LEMMA FlushedFields ==
  ASSUME NEW r, NEW v, NEW is
  PROVE  LET f == Flushed(r, v, is)
         IN  /\ is.current = v.current => f.current = r.current
             /\ is.current # v.current => f.current = is.current
             /\ f.current \in {r.current, is.current}
             /\ is.supersededBy = v.supersededBy => f.supersededBy = r.supersededBy
             /\ f.supersededBy \in {r.supersededBy, is.supersededBy}
             /\ f.found \in {r.found, is.found}
BY DEF Flushed

LEMMA WritesVersioned ==
  ASSUME VersionsNumbered, NEW m \in RowSet, NEW s \in Session, Orderly(m, s),
         Settled(m), Versioned(m, s),
         NEW t \in Session, Orderly(m, t), Writes(m, s, t)
  PROVE  Versioned(m, t)
<1> DEFINE c == s.offered[s.at]
           d == Here(s)
           is == IF s.created THEN Inserted(c) ELSE Rediscovered(s.view[d], c)
           seen == Sees(m, s)
<1>1. /\ s.pc = "write" /\ s.at <= Len(s.offered) /\ (s.created \/ d \in DOMAIN s.view)
      /\ s.created => d \notin DOMAIN m
  BY DEF Writes, Orderly
<1>2. c \in Candidate /\ d \in Document /\ Identity(c) = d
  BY <1>1, HereFacts DEF Here
<1>3. t.pc = "place" /\ Here(t) = d
  BY DEF Writes, Session, Here
<1>4. /\ DOMAIN t.wrote = DOMAIN s.wrote \cup {d}
      /\ t.wrote[d] = IF s.created THEN is ELSE Flushed(seen[d], s.view[d], is)
      /\ \A x \in DOMAIN s.wrote \ {d} : t.wrote[x] = s.wrote[x]
      /\ t.siblings = Siblings(Sees(m, t), d)
      /\ DOMAIN t.view = DOMAIN s.view \cup t.siblings \cup {d} /\ t.view[d] = is
      /\ \A x \in DOMAIN s.view \ {d} : t.view[x] = s.view[x]
      /\ \A x \in t.siblings \ DOMAIN s.view : t.view[x] = seen[x]
  BY DEF Writes
<1>5. ~s.created => d \in DOMAIN s.view /\ d \in DOMAIN seen
  BY <1>1, SeesFacts DEF Orderly
<1>6. /\ is.current = TRUE /\ is.found = c
      /\ s.created => is.supersededBy = None
      /\ ~s.created => is.supersededBy = s.view[d].supersededBy
  <2>1. ~s.created => s.view[d] \in Row
    BY <1>5, RowSetFacts DEF Session
  <2> QED
    BY <2>1 DEF Inserted, Rediscovered, Row
<1>7. /\ Named(seen)
      /\ \A x \in DOMAIN seen :
           /\ ~seen[x].current => \E y \in DOMAIN seen : Beats(y, x)
           /\ seen[x].supersededBy # None => seen[x].supersededBy \in DOMAIN seen /\ ~seen[x].current
  BY <1>1, SeesSettled DEF Placing
<1> HIDE DEF is, c, d, seen
\* What the flush leaves of the row: no more current than it was.
<1>8. /\ Identity(t.wrote[d].found) = d
      /\ s.created => t.wrote[d].current /\ t.wrote[d].supersededBy = None
      /\ ~s.created => /\ t.wrote[d].supersededBy = seen[d].supersededBy
                       /\ ~t.wrote[d].current => ~seen[d].current
  <2>1. CASE s.created
    BY <2>1, <1>2, <1>4, <1>6
  <2>2. CASE ~s.created
    <3>1. t.wrote[d] = Flushed(seen[d], s.view[d], is)
      BY <2>2, <1>4
    <3>2. /\ t.wrote[d].found \in {seen[d].found, is.found}
          /\ is.supersededBy = s.view[d].supersededBy =>
               t.wrote[d].supersededBy = seen[d].supersededBy
          /\ t.wrote[d].current \in {seen[d].current, is.current}
      BY <3>1, FlushedFields
    <3>3. Identity(seen[d].found) = d
      BY <2>2, <1>5, <1>7 DEF Named
    <3> QED
      BY <2>2, <3>2, <3>3, <1>2, <1>6
  <2> QED
    BY <2>1, <2>2
<1>9. /\ DOMAIN Sees(m, t) = DOMAIN m \cup DOMAIN t.wrote
      /\ DOMAIN seen = DOMAIN m \cup DOMAIN s.wrote
      /\ \A x \in DOMAIN seen \ {d} : Sees(m, t)[x] = seen[x]
      /\ Sees(m, t)[d] = t.wrote[d]
      /\ \A x \in DOMAIN Sees(m, t) : Sees(m, t)[x] \in Row
      /\ \A x \in DOMAIN s.wrote : seen[x] = s.wrote[x]
  <2>1. /\ DOMAIN seen = DOMAIN m \cup DOMAIN s.wrote
        /\ \A x \in DOMAIN s.wrote : seen[x] = s.wrote[x]
        /\ \A x \in DOMAIN m \ DOMAIN s.wrote : seen[x] = m[x]
    BY SeesFacts DEF seen
  <2>2. /\ DOMAIN Sees(m, t) = DOMAIN m \cup DOMAIN t.wrote
        /\ \A x \in DOMAIN t.wrote : Sees(m, t)[x] = t.wrote[x]
        /\ \A x \in DOMAIN m \ DOMAIN t.wrote : Sees(m, t)[x] = m[x]
        /\ \A x \in DOMAIN Sees(m, t) : Sees(m, t)[x] \in Row
    BY SeesFacts
  <2> QED
    BY <1>4, <2>1, <2>2
<1>10. Named(t.wrote) /\ Named(Sees(m, t))
  <2>1. Named(t.wrote)
    BY <1>4, <1>8 DEF Named, Versioned
  <2> QED
    BY <2>1, SeesFacts DEF Settled
<1>11. d \notin t.siblings /\ t.siblings \subseteq DOMAIN Sees(m, t) \ {d}
       /\ t.siblings \subseteq DOMAIN seen
  BY <1>4, <1>9 DEF Siblings
<1>12. \A x \in t.siblings : Kin(x, d)
  <2> SUFFICES ASSUME NEW x \in t.siblings PROVE Kin(x, d)
    OBVIOUS
  <2>1. Logical(Sees(m, t)[x].found) = Logical(Sees(m, t)[d].found)
    BY <1>4 DEF Siblings
  <2>2. /\ Sees(m, t)[x] \in Row /\ Sees(m, t)[d] \in Row
        /\ Identity(Sees(m, t)[x].found) = x /\ Identity(Sees(m, t)[d].found) = d
    BY <1>4, <1>9, <1>10, <1>11 DEF Named
  <2> QED
    BY <2>1, <2>2, RowsTell
<1>13. (\E y \in DOMAIN seen : Beats(y, d)) => Beaten(t)
  <2> SUFFICES ASSUME NEW y \in DOMAIN seen, Beats(y, d)
               PROVE  y \in t.siblings
    BY <1>3 DEF Beaten
  <2>1. y \in DOMAIN Sees(m, t)
    BY <1>4, <1>9
  <2>2. /\ Sees(m, t)[y] \in Row /\ Sees(m, t)[d] \in Row
        /\ Identity(Sees(m, t)[y].found) = y /\ Identity(Sees(m, t)[d].found) = d
    BY <1>4, <1>9, <1>10, <2>1 DEF Named
  <2>3. y # d /\ Logical(Sees(m, t)[y].found) = Logical(Sees(m, t)[d].found)
    BY <2>2, RowsTell
  <2> QED
    BY <2>1, <2>3, <1>4 DEF Siblings
<1>14. Named(t.view)
  BY <1>2, <1>4, <1>6, <1>7, <1>11 DEF Named, Versioned
<1>15. \A x : Placing(t, x) <=> x = d
  BY <1>3 DEF Placing
<1>16. \A x : ~Placing(s, x)
  BY <1>1 DEF Placing
<1>17. ASSUME NEW x \in DOMAIN t.wrote
       PROVE  /\ ~t.wrote[x].current => \E y \in DOMAIN m \cup DOMAIN t.wrote : Beats(y, x)
              /\ t.wrote[x].supersededBy # None =>
                   /\ t.wrote[x].supersededBy \in DOMAIN m \cup DOMAIN t.wrote
                   /\ Placing(t, x) \/ ~t.wrote[x].current
              /\ x \in DOMAIN m /\ ~m[x].current => Placing(t, x) \/ ~t.wrote[x].current
  <2>1. CASE x = d
    BY <2>1, <1>4, <1>5, <1>7, <1>8, <1>9, <1>15
  <2>2. CASE x # d
    BY <2>2, <1>4, <1>16 DEF Versioned
  <2> QED
    BY <2>1, <2>2
<1>18. ASSUME NEW x \in DOMAIN t.view, ~t.view[x].current
       PROVE  ~Placing(t, x) /\ ~Sees(m, t)[x].current
  <2>1. x # d
    BY <1>4, <1>6, <1>18
  <2>2. x \in DOMAIN seen /\ ~seen[x].current
    BY <2>1, <1>4, <1>9, <1>11, <1>18 DEF Versioned, Orderly, seen
  <2> QED
    BY <2>1, <2>2, <1>9, <1>15
<1>19. /\ ~t.wrote[d].current => Beaten(t)
       /\ t.wrote[d].supersededBy # None => Beaten(t)
       /\ d \in DOMAIN m /\ ~m[d].current => Beaten(t)
  <2>1. ~t.wrote[d].current => Beaten(t)
    BY <1>5, <1>7, <1>8, <1>13
  <2>2. t.wrote[d].supersededBy # None => Beaten(t)
    BY <1>5, <1>7, <1>8, <1>13
  <2>3. d \in DOMAIN m /\ ~m[d].current => Beaten(t)
    BY <1>9, <1>13 DEF Settled
  <2> QED
    BY <2>1, <2>2, <2>3
<1> QED
  BY <1>3, <1>10, <1>12, <1>14, <1>17, <1>18, <1>19 DEF Versioned

LEMMA PlacesVersioned ==
  ASSUME VersionsNumbered, NEW m \in RowSet, NEW j, NEW s \in Session, Orderly(m, s),
         Settled(m), Versioned(m, s),
         NEW t \in Session, Places(m, j, s, t)
  PROVE  /\ Versioned(m, t)
         /\ t.view[Here(s)].current => t.wrote[Here(s)].current
         /\ t.wrote[Here(s)].current => ~Beaten(s)
         /\ DOMAIN Sees(m, t) = DOMAIN Sees(m, s)
         /\ \A x \in DOMAIN Sees(m, t) \ {Here(s)} :
              /\ Sees(m, t)[x].current => Sees(m, s)[x].current
              /\ s.created /\ x \in s.siblings /\ ~Beaten(s) => ~Sees(m, t)[x].current
<1> DEFINE d == Here(s)
           seen == Sees(m, s)
<1>1. /\ s.pc = "place"
      /\ d \in DOMAIN s.wrote /\ d \in DOMAIN s.view /\ d \notin s.siblings
      /\ s.siblings \subseteq DOMAIN s.view /\ DOMAIN s.view \subseteq DOMAIN m \cup DOMAIN s.wrote
      /\ DOMAIN s.wrote \subseteq DOMAIN s.view
  BY DEF Places, Orderly
<1>2. /\ \A x \in DOMAIN s.view : s.view[x] \in Row
      /\ Named(s.view) /\ Named(s.wrote) /\ Named(seen)
      /\ s.view[d].current = TRUE
      /\ \A x \in s.siblings : Kin(x, d)
  <2>1. \A x \in DOMAIN s.view : s.view[x] \in Row
    BY RowSetFacts DEF Session
  <2>2. s.view[d].current
    BY <1>1 DEF Versioned, Placing
  <2>3. s.view[d].current \in BOOLEAN
    BY <1>1, <2>1 DEF Row
  <2> QED
    BY <1>1, <2>1, <2>2, <2>3, SeesSettled DEF Versioned
<1>3. PICK older \in SUBSET s.siblings : \E last \in older \cup {None} :
       /\ \A x \in s.siblings : x \in older <=> s.created /\ Older(s.view[x], s.view[d])
       /\ DOMAIN t.view = DOMAIN s.view
       /\ DOMAIN t.wrote = DOMAIN s.wrote \cup older
       /\ t.view[d] = Placed(s.view[d], {s.view[x] : x \in s.siblings}, last)
       /\ \A x \in older : t.view[x] = Superseded(s.view[x], d)
       /\ \A x \in DOMAIN s.view \ (older \cup {d}) : t.view[x] = s.view[x]
       /\ \A x \in older \cup {d} : t.wrote[x] = Flushed(seen[x], s.view[x], t.view[x])
       /\ \A x \in DOMAIN s.wrote \ (older \cup {d}) : t.wrote[x] = s.wrote[x]
  BY DEF Places
<1>4. PICK last \in older \cup {None} :
       t.view[d] = Placed(s.view[d], {s.view[x] : x \in s.siblings}, last)
  BY <1>3
<1>5. t.pc = "next"
  BY DEF Places, Session
<1>6. /\ DOMAIN seen = DOMAIN m \cup DOMAIN s.wrote
      /\ \A x \in DOMAIN s.wrote : seen[x] = s.wrote[x]
      /\ \A x \in DOMAIN m \ DOMAIN s.wrote : seen[x] = m[x]
      /\ \A x \in DOMAIN seen : seen[x] \in Row
  BY SeesFacts
<1>7. /\ DOMAIN Sees(m, t) = DOMAIN m \cup DOMAIN t.wrote
      /\ \A x \in DOMAIN t.wrote : Sees(m, t)[x] = t.wrote[x]
      /\ \A x \in DOMAIN m \ DOMAIN t.wrote : Sees(m, t)[x] = m[x]
  BY SeesFacts
<1> HIDE DEF d, seen
\* The row in hand is current, in the session and in the database, if and only
\* if no sibling is newer.
<1>8. /\ t.view[d].current <=> ~Beaten(s)
      /\ t.view[d].current \in BOOLEAN
      /\ t.view[d].found = s.view[d].found /\ t.view[d].supersededBy = s.view[d].supersededBy
  <2>1. s.view[d] \in Row
    BY <1>1, <1>2
  <2>2. /\ t.view[d].current = (s.view[d].current /\ \A x \in s.siblings : Older(s.view[x], s.view[d]))
        /\ t.view[d].found = s.view[d].found /\ t.view[d].supersededBy = s.view[d].supersededBy
    BY <1>4, <2>1 DEF Placed, Row
  <2>3. ASSUME NEW x \in s.siblings
        PROVE  Older(s.view[x], s.view[d]) <=> ~Beats(x, d)
    <3>1. /\ s.view[x] \in Row /\ Identity(s.view[x].found) = x
          /\ Identity(s.view[d].found) = d /\ Kin(x, d)
      BY <1>1, <1>2 DEF Named
    <3> QED
      BY <2>1, <3>1, RowsTell
  <2>4. Beaten(s) <=> \E x \in s.siblings : Beats(x, d)
    BY DEF Beaten, d
  <2> QED
    BY <1>2, <2>2, <2>3, <2>4
<1>9. /\ Beaten(s) => ~t.wrote[d].current
      /\ ~Beaten(s) => t.wrote[d].current
      /\ t.wrote[d].supersededBy = s.wrote[d].supersededBy
      /\ Identity(t.wrote[d].found) = d
  <2>1. t.wrote[d] = Flushed(seen[d], s.view[d], t.view[d]) /\ seen[d] = s.wrote[d]
    BY <1>1, <1>3, <1>6
  <2>2. /\ t.wrote[d].supersededBy = s.wrote[d].supersededBy
        /\ t.wrote[d].found \in {s.wrote[d].found, s.view[d].found}
    BY <1>8, <2>1, FlushedFields
  <2>3. Identity(t.wrote[d].found) = d
    BY <1>1, <1>2, <2>2 DEF Named
  <2>4. CASE Beaten(s)
    <3>1. t.view[d].current # s.view[d].current /\ ~t.view[d].current
      BY <1>2, <1>8, <2>4
    <3>2. t.wrote[d].current = t.view[d].current
      BY <2>1, <3>1, FlushedFields
    <3> QED
      BY <2>2, <2>3, <2>4, <3>1, <3>2
  <2>5. CASE ~Beaten(s)
    <3>1. t.view[d].current = s.view[d].current
      BY <1>2, <1>8, <2>5
    <3>2. t.wrote[d].current = s.wrote[d].current
      BY <2>1, <3>1, FlushedFields
    <3>3. s.wrote[d].current
      BY <1>1, <2>5 DEF Versioned, d
    <3> QED
      BY <2>2, <2>3, <2>5, <3>2, <3>3
  <2> QED
    BY <2>4, <2>5
\* The older siblings end revoked, in the session and in the database.
<1>10. ASSUME NEW x \in older
       PROVE  /\ ~t.view[x].current /\ ~t.wrote[x].current
              /\ t.view[x].found = s.view[x].found /\ Identity(t.wrote[x].found) = x
              /\ t.wrote[x].supersededBy \in {seen[x].supersededBy, d}
              /\ Beats(d, x) /\ x # d /\ x \in DOMAIN s.view /\ x \in DOMAIN seen
  <2>1. /\ x \in DOMAIN s.view /\ x \in DOMAIN seen /\ x # d
        /\ s.view[x] \in Row /\ s.view[d] \in Row /\ Kin(x, d)
        /\ Identity(s.view[x].found) = x /\ Identity(s.view[d].found) = d
        /\ Identity(seen[x].found) = x
    BY <1>1, <1>2, <1>6 DEF Named
  <2>2. Beats(d, x)
    BY <1>3, <2>1, RowsTell
  <2>3. /\ t.view[x].current = FALSE /\ t.view[x].found = s.view[x].found
        /\ t.view[x].supersededBy = d
    BY <1>3, <2>1 DEF Superseded, Row
  <2>4. t.wrote[x] = Flushed(seen[x], s.view[x], t.view[x])
    BY <1>3
  <2>5. /\ t.wrote[x].supersededBy \in {seen[x].supersededBy, d}
        /\ t.wrote[x].found \in {seen[x].found, s.view[x].found}
    BY <2>3, <2>4, FlushedFields
  <2>6. CASE s.view[x].current
    <3>1. t.view[x].current # s.view[x].current
      BY <2>3, <2>6
    <3> QED
      BY <2>1, <2>2, <2>3, <2>4, <2>5, <3>1, FlushedFields
  <2>7. CASE ~s.view[x].current
    <3>1. ~seen[x].current
      BY <2>1, <2>7 DEF Versioned, seen
    <3>2. t.view[x].current = s.view[x].current
      BY <2>1, <2>3, <2>7 DEF Row
    <3>3. t.wrote[x].current = seen[x].current
      BY <2>4, <3>2, FlushedFields
    <3> QED
      BY <2>1, <2>2, <2>3, <2>5, <3>1, <3>3
  <2> QED
    BY <2>6, <2>7
<1>11. \A x : ~Placing(t, x)
  BY <1>5 DEF Placing
<1>12. Named(t.view) /\ Named(t.wrote)
  BY <1>1, <1>2, <1>3, <1>8, <1>9, <1>10 DEF Named
<1>13. ASSUME NEW x \in DOMAIN t.wrote
       PROVE  /\ ~t.wrote[x].current => \E y \in DOMAIN m \cup DOMAIN t.wrote : Beats(y, x)
              /\ t.wrote[x].supersededBy # None =>
                   /\ t.wrote[x].supersededBy \in DOMAIN m \cup DOMAIN t.wrote
                   /\ ~t.wrote[x].current
              /\ x \in DOMAIN m /\ ~m[x].current => ~t.wrote[x].current
  <2>1. CASE x = d
    <3>1. Beaten(s) => \E y \in DOMAIN m \cup DOMAIN t.wrote : Beats(y, d)
      BY <1>1, <1>3 DEF Beaten, d
    <3>2. /\ s.wrote[d].supersededBy # None =>
               Beaten(s) /\ s.wrote[d].supersededBy \in DOMAIN m \cup DOMAIN s.wrote
          /\ d \in DOMAIN m /\ ~m[d].current => Beaten(s)
      BY <1>1 DEF Versioned, d
    <3> QED
      BY <2>1, <1>3, <1>9, <3>1, <3>2
  <2>2. CASE x \in older
    <3>1. seen[x].supersededBy # None => seen[x].supersededBy \in DOMAIN seen
      BY <1>10, <2>2, SeesSettled DEF seen
    <3> QED
      BY <2>2, <3>1, <1>1, <1>3, <1>6, <1>10
  <2>3. CASE x \notin older \cup {d}
    BY <2>3, <1>3 DEF Versioned, Placing, d
  <2> QED
    BY <2>1, <2>2, <2>3
<1>14. ASSUME NEW x \in DOMAIN t.view, ~t.view[x].current
       PROVE  ~Sees(m, t)[x].current
  <2>1. CASE x = d
    BY <2>1, <1>1, <1>3, <1>7, <1>8, <1>9, <1>14
  <2>2. CASE x \in older
    BY <2>2, <1>3, <1>7, <1>10
  <2>3. CASE x \notin older \cup {d}
    <3>1. x \in DOMAIN s.view /\ ~seen[x].current
      BY <2>3, <1>3, <1>14 DEF Versioned, seen
    <3>2. Sees(m, t)[x] = seen[x]
      BY <2>3, <3>1, <1>1, <1>3, <1>6, <1>7
    <3> QED
      BY <3>1, <3>2
  <2> QED
    BY <2>1, <2>2, <2>3
<1>15. Versioned(m, t)
  BY <1>5, <1>11, <1>12, <1>13, <1>14 DEF Versioned
<1>16. DOMAIN Sees(m, t) = DOMAIN seen
  BY <1>1, <1>3, <1>6, <1>7
<1>17. ASSUME NEW x \in DOMAIN Sees(m, t) \ {d}
       PROVE  /\ Sees(m, t)[x].current => seen[x].current
              /\ s.created /\ x \in s.siblings /\ ~Beaten(s) => ~Sees(m, t)[x].current
  <2>1. x \in older => ~Sees(m, t)[x].current
    BY <1>3, <1>7, <1>10
  <2>2. x \notin older => Sees(m, t)[x] = seen[x]
    BY <1>3, <1>6, <1>7, <1>16
  <2>3. s.created /\ x \in s.siblings /\ ~Beaten(s) => x \in older
    <3> SUFFICES ASSUME s.created, x \in s.siblings, ~Beaten(s)
                 PROVE  Older(s.view[x], s.view[d])
      BY <1>3
    <3>1. /\ s.view[x] \in Row /\ s.view[d] \in Row /\ Kin(x, d) /\ ~Beats(x, d)
          /\ Identity(s.view[x].found) = x /\ Identity(s.view[d].found) = d
      BY <1>1, <1>2 DEF Named, Beaten, d
    <3> QED
      BY <3>1, RowsTell
  <2> QED
    BY <2>1, <2>2, <2>3
<1> QED
  BY <1>8, <1>9, <1>15, <1>16, <1>17 DEF d, seen

LEMMA IdleVersioned ==
  ASSUME NEW m, NEW t, t.view = NoRows, t.wrote = NoRows, t.pc # "place"
  PROVE  Versioned(m, t)
<1>1. DOMAIN NoRows = {}
  BY DEF NoRows
<1> QED
  BY <1>1 DEF Versioned, Named

LEMMA StepsVersioned ==
  ASSUME VersionsNumbered, NEW m \in RowSet, NEW j, NEW s \in Session, Orderly(m, s),
         Settled(m), Versioned(m, s),
         NEW t \in Session, Orderly(m, t), Steps(m, j, s, t)
  PROVE  Versioned(m, t)
<1>1. CASE t = Idle
  BY <1>1, IdleVersioned DEF Idle
<1>2. ASSUME NEW list \in Seq(Candidate), Begins(t, list)
      PROVE  Versioned(m, t)
  <2>1. t.view = NoRows /\ t.wrote = NoRows /\ t.pc = "next"
    BY <1>2 DEF Begins, Idle
  <2> QED
    BY <2>1, IdleVersioned
<1>3. CASE Skips(s, t)
  <2>1. t.pc = "next" /\ s.pc = "next" /\ t.view = s.view /\ t.wrote = s.wrote
    BY <1>3 DEF Skips, Session
  <2>2. Sees(m, t) = Sees(m, s)
    BY <2>1 DEF Sees
  <2>3. \A x : ~Placing(s, x) /\ ~Placing(t, x)
    BY <2>1 DEF Placing
  <2> QED
    BY <2>1, <2>2, <2>3 DEF Versioned
<1> QED
  BY <1>1, <1>2, <1>3, LooksVersioned, WritesVersioned, PlacesVersioned DEF Steps

\* A commit leaves the table settled.
LEMMA CommitSettled ==
  ASSUME NEW m \in RowSet, NEW s \in Session, Settled(m), Versioned(m, s), s.pc = "next"
  PROVE  Settled(Sees(m, s))
BY SeesSettled DEF Settled, Placing

\* The commit of s is nothing to the versions another session r knows of: it
\* revokes rows, it makes none current, and it has none of the rows r has locked.
LEMMA CommitVersioned ==
  ASSUME NEW m \in RowSet, NEW s \in Session, Versioned(m, s), s.pc = "next",
         NEW r \in Session, Orderly(m, r), Versioned(m, r),
         DOMAIN s.wrote \cap DOMAIN r.wrote = {}
  PROVE  Versioned(Sees(m, s), r)
<1> DEFINE n == Sees(m, s)
<1>1. /\ n \in RowSet
      /\ DOMAIN n = DOMAIN m \cup DOMAIN s.wrote
      /\ \A x \in DOMAIN s.wrote : n[x] = s.wrote[x]
      /\ \A x \in DOMAIN m \ DOMAIN s.wrote : n[x] = m[x]
  BY SeesFacts
<1> HIDE DEF n
<1>2. /\ \A x \in DOMAIN r.wrote : Sees(n, r)[x] = r.wrote[x] /\ Sees(m, r)[x] = r.wrote[x]
      /\ \A x \in DOMAIN n \ DOMAIN r.wrote : Sees(n, r)[x] = n[x]
      /\ \A x \in DOMAIN m \ DOMAIN r.wrote : Sees(m, r)[x] = m[x]
  <2>1. n \in RowSet
    BY <1>1
  <2>2. /\ \A x \in DOMAIN r.wrote : Sees(n, r)[x] = r.wrote[x]
        /\ \A x \in DOMAIN n \ DOMAIN r.wrote : Sees(n, r)[x] = n[x]
    BY <2>1, SeesFacts
  <2>3. /\ \A x \in DOMAIN r.wrote : Sees(m, r)[x] = r.wrote[x]
        /\ \A x \in DOMAIN m \ DOMAIN r.wrote : Sees(m, r)[x] = m[x]
    BY SeesFacts
  <2> QED
    BY <2>2, <2>3
<1>3. \A x \in DOMAIN r.wrote : x \in DOMAIN n => x \in DOMAIN m /\ n[x] = m[x]
  BY <1>1
<1>4. ASSUME NEW x \in DOMAIN r.view, ~r.view[x].current
      PROVE  ~Placing(r, x) /\ ~Sees(n, r)[x].current
  <2>1. ~Placing(r, x) /\ ~Sees(m, r)[x].current
    BY <1>4 DEF Versioned
  <2>2. CASE x \in DOMAIN r.wrote
    BY <2>1, <2>2, <1>2
  <2>3. CASE x \notin DOMAIN r.wrote
    <3>1. x \in DOMAIN m /\ ~m[x].current /\ Sees(n, r)[x] = n[x]
      BY <2>1, <2>3, <1>1, <1>2 DEF Orderly
    <3>2. CASE x \in DOMAIN s.wrote
      <4>1. ~s.wrote[x].current
        BY <3>1, <3>2 DEF Versioned, Placing
      <4> QED
        BY <2>1, <3>1, <3>2, <4>1, <1>1
    <3>3. CASE x \notin DOMAIN s.wrote
      BY <2>1, <3>1, <3>3, <1>1
    <3> QED
      BY <3>2, <3>3
  <2> QED
    BY <2>2, <2>3
<1>5. r.pc = "place" => Here(r) \in DOMAIN r.wrote
  BY DEF Orderly
<1> QED
  BY <1>1, <1>3, <1>4, <1>5 DEF Versioned, n

LEMMA VersionStep ==
  ASSUME VersionsNumbered, VersionInv, Next
  PROVE  VersionInv'
<1>1. PICK p \in Collector : Alone(p) \/ Ends(p)
  BY NextStep DEF VersionInv
<1>2. /\ manifest \in RowSet /\ IsFiniteSet(jobs)
      /\ tx \in [Collector -> Session]
      /\ \A q \in Collector : Orderly(manifest, tx[q]) /\ Frugal(jobs, tx[q])
      /\ \A q \in Collector : Versioned(manifest, tx[q])
      /\ Settled(manifest)
  BY DEF VersionInv, QueueInv, Typed
<1>3. QueueInv'
  BY QueueStep DEF VersionInv
<1>4. CASE Alone(p)
  <2>1. /\ manifest' = manifest /\ \A q \in Collector \ {p} : tx'[q] = tx[q]
        /\ Steps(manifest, jobs, tx[p], tx'[p])
    BY <1>2, <1>4 DEF Alone
  <2>2. tx'[p] \in Session /\ Orderly(manifest, tx'[p])
    BY <1>2, <2>1, StepsKeep
  <2>3. Versioned(manifest, tx'[p])
    BY <1>2, <2>1, <2>2, StepsVersioned
  <2>4. \A q \in Collector : Versioned(manifest', tx'[q])
    BY <1>2, <2>1, <2>3
  <2> QED
    BY <1>2, <1>3, <2>1, <2>4 DEF VersionInv
<1>5. CASE Ends(p)
  <2>1. /\ manifest' = Sees(manifest, tx[p]) /\ tx[p].pc = "next"
        /\ tx'[p] = Idle /\ \A q \in Collector \ {p} : tx'[q] = tx[q]
    BY <1>5, Replaced DEF Ends, VersionInv
  <2>2. Settled(manifest')
    BY <1>2, <2>1, CommitSettled
  <2>3. ASSUME NEW q \in Collector \ {p}
        PROVE  Versioned(manifest', tx'[q])
    <3>1. DOMAIN tx[p].wrote \cap DOMAIN tx[q].wrote = {}
      BY DEF VersionInv, QueueInv, LocksApart
    <3> QED
      BY <1>2, <2>1, <3>1, CommitVersioned
  <2>4. Versioned(manifest', Idle)
    BY IdleVersioned DEF Idle
  <2>5. \A q \in Collector : Versioned(manifest', tx'[q])
    BY <2>1, <2>3, <2>4
  <2> QED
    BY <1>3, <2>2, <2>5 DEF VersionInv
<1> QED
  BY <1>1, <1>4, <1>5

LEMMA VersionInvariant ==
  ASSUME VersionsNumbered
  PROVE  Spec => []VersionInv
<1>1. Init => VersionInv
  <2> SUFFICES ASSUME Init PROVE VersionInv
    OBVIOUS
  <2>1. QueueInv
    BY QueueInit
  <2>2. Settled(manifest)
    BY DEF Init, Settled, Named, NoRows
  <2>3. \A p \in Collector : Versioned(manifest, tx[p])
    BY IdleVersioned DEF Init, Idle
  <2> QED
    BY <2>1, <2>2, <2>3 DEF VersionInv
<1>2. VersionInv /\ [Next]_vars => VersionInv'
  <2>1. CASE UNCHANGED vars
    BY <2>1 DEF vars, VersionInv, QueueInv, Typed, LocksApart
  <2> QED
    BY <2>1, VersionStep
<1> QED
  BY <1>1, <1>2, PTL DEF Spec

\* The newest version of a document is current, in whatever order, by however
\* many collectors at once and with whatever failures its versions are found:
\* a row is revoked for a newer one only, in the table or in the transaction
\* that writes both.
THEOREM NewestStaysCurrent ==
  ASSUME VersionsNumbered
  PROVE  Spec => []NewestCurrent
<1>1. VersionInv => NewestCurrent
  <2> SUFFICES ASSUME VersionInv, NEW d \in DOMAIN manifest, ~manifest[d].current
               PROVE  \E v \in Versions(d) :
                        ~(Rank(manifest[v].found) <= Rank(manifest[d].found))
    BY DEF NewestCurrent
  <2>1. PICK x \in DOMAIN manifest : Beats(x, d)
    BY DEF VersionInv, Settled
  <2>2. /\ manifest[x] \in Row /\ manifest[d] \in Row
        /\ Identity(manifest[x].found) = x /\ Identity(manifest[d].found) = d
    BY RowSetFacts DEF VersionInv, QueueInv, Typed, Settled, Named
  <2>3. /\ x # d /\ ~Older(manifest[x], manifest[d])
        /\ Logical(manifest[x].found) = Logical(manifest[d].found)
    BY <2>1, <2>2, RowsTell
  <2> QED
    BY <2>3 DEF Versions, Siblings, Older
<1> QED
  BY <1>1, VersionInvariant, PTL

\* A row that has been superseded stays so, whatever stale object of the row a
\* session writes back: who writes it has seen the newer one.
THEOREM SupersededForGood ==
  ASSUME VersionsNumbered
  PROVE  Spec => []SupersededNotCurrent
<1>1. VersionInv => SupersededNotCurrent
  BY DEF VersionInv, Settled, SupersededNotCurrent
<1> QED
  BY <1>1, VersionInvariant, PTL

\* A job is inserted only for a row that is current in the database too.
THEOREM QueuedCurrent ==
  ASSUME VersionsNumbered
  PROVE  Spec => QueuedWhileCurrent
<1>1. ASSUME VersionInv, Next, NEW p \in Collector, NEW d \in tx'[p].jobs \ tx[p].jobs
      PROVE  tx'[p].wrote[d].current
  <2>1. /\ manifest \in RowSet /\ tx \in [Collector -> Session]
        /\ IsFiniteSet(jobs) /\ Orderly(manifest, tx[p]) /\ Frugal(jobs, tx[p])
        /\ Versioned(manifest, tx[p]) /\ Settled(manifest)
    BY <1>1 DEF VersionInv, QueueInv, Typed
  <2>2. PICK q \in Collector : Alone(q) \/ Ends(q)
    BY <1>1, NextStep DEF VersionInv
  <2>3. p = q /\ Alone(p)
    <3>1. Idle.jobs = {}
      BY DEF Idle
    <3>2. CASE Ends(q)
      BY <1>1, <2>1, <3>1, <3>2 DEF Ends
    <3>3. CASE Alone(q)
      BY <1>1, <2>1, <3>3 DEF Alone
    <3> QED
      BY <2>2, <3>2, <3>3
  <2>4. Steps(manifest, jobs, tx[p], tx'[p])
    BY <2>3 DEF Alone
  <2>5. tx'[p] \in Session
    BY <2>1, <2>4, StepsKeep
  <2>6. Places(manifest, jobs, tx[p], tx'[p])
    <3>1. Idle.jobs = {}
      BY DEF Idle
    <3>2. \A list : Begins(tx'[p], list) => tx'[p].jobs = {}
      BY DEF Begins, Idle
    <3>3. Skips(tx[p], tx'[p]) => tx'[p].jobs = tx[p].jobs
      BY <2>1 DEF Skips, Session
    <3>4. Looks(manifest, jobs, tx[p], tx'[p]) => tx'[p].jobs = tx[p].jobs
      BY <2>1 DEF Looks, Session
    <3>5. Writes(manifest, tx[p], tx'[p]) => tx'[p].jobs = tx[p].jobs
      BY <2>1 DEF Writes, Session
    <3> QED
      BY <1>1, <2>4, <3>1, <3>2, <3>3, <3>4, <3>5 DEF Steps
  <2>7. d = Here(tx[p]) /\ tx'[p].view[d].current
    BY <1>1, <2>6 DEF Places
  <2> QED
    BY <2>1, <2>5, <2>6, <2>7, PlacesVersioned
<1>2. VersionInv /\ [Next]_vars =>
        [\A p \in Collector : \A d \in tx'[p].jobs \ tx[p].jobs : tx'[p].wrote[d].current]_vars
  BY <1>1
<1> QED
  BY <1>2, VersionInvariant, PTL DEF Spec, QueuedWhileCurrent

------------------------------------------------------------------------------
(* Nothing offered is lost, where the source identifies its documents.     *)

Identified == \A c \in Candidate : c.source # None

\* The candidates a session is done with have rows.
Done(m, s) ==
  \A k \in 1..(s.at - 1) : Identity(s.offered[k]) \in DOMAIN m \cup DOMAIN s.wrote

LEMMA StepsDone ==
  ASSUME Identified, NEW m \in RowSet, NEW j, NEW s \in Session, Orderly(m, s), Done(m, s),
         NEW t, Steps(m, j, s, t)
  PROVE  Done(m, t)
<1>1. s.at \in Nat \ {0} /\ s.offered \in Seq(Candidate)
  BY DEF Session
<1>2. CASE t = Idle
  BY <1>2 DEF Idle, Done
<1>3. ASSUME NEW list, Begins(t, list) PROVE Done(m, t)
  BY <1>3 DEF Begins, Idle, Done
<1>4. CASE Skips(s, t)
  <2>1. t.at = s.at + 1 /\ t.offered = s.offered /\ t.wrote = s.wrote /\ s.at <= Len(s.offered)
    BY <1>4 DEF Skips, Session
  <2>2. PICK k \in 1..(s.at - 1) : DuplicateKey(s.offered[k]) = DuplicateKey(s.offered[s.at])
    BY <1>4 DEF Skips
  <2>3. s.offered[k] \in Candidate /\ s.offered[s.at] \in Candidate
    BY <1>1, <2>1
  <2>4. Identity(s.offered[k]) = Identity(s.offered[s.at])
    BY <2>2, <2>3 DEF Identified, DuplicateKey, Identity, Stable, VersionText
  <2>5. Identity(s.offered[s.at]) \in DOMAIN m \cup DOMAIN s.wrote
    BY <2>2, <2>4 DEF Done
  <2>6. \A i \in 1..(t.at - 1) : i = s.at \/ i \in 1..(s.at - 1)
    BY <1>1, <2>1
  <2> QED
    BY <2>1, <2>5, <2>6 DEF Done
<1>5. CASE Looks(m, j, s, t)
  BY <1>5 DEF Looks, Session, Done
<1>6. CASE Writes(m, s, t)
  <2>1. t.at = s.at /\ t.offered = s.offered /\ DOMAIN s.wrote \subseteq DOMAIN t.wrote
    BY <1>6 DEF Writes, Session
  <2> QED
    BY <2>1 DEF Done
<1>7. CASE Places(m, j, s, t)
  <2>1. t.at = s.at + 1 /\ t.offered = s.offered /\ DOMAIN s.wrote \subseteq DOMAIN t.wrote
    BY <1>7 DEF Places, Session
  <2>2. Identity(s.offered[s.at]) \in DOMAIN s.wrote
    BY <1>7 DEF Places, Orderly, Here
  <2> QED
    BY <1>1, <2>1, <2>2 DEF Done
<1> QED
  BY <1>2, <1>3, <1>4, <1>5, <1>6, <1>7 DEF Steps

DoneInv == QueueInv /\ \A p \in Collector : Done(manifest, tx[p])

LEMMA DoneInvariant ==
  ASSUME Identified
  PROVE  Spec => []DoneInv
<1>1. Init => DoneInv
  BY QueueInit DEF Init, DoneInv, Done, Idle
<1>2. DoneInv /\ [Next]_vars => DoneInv'
  <2> SUFFICES ASSUME DoneInv, [Next]_vars PROVE DoneInv'
    OBVIOUS
  <2>1. CASE UNCHANGED vars
    BY <2>1 DEF vars, DoneInv, QueueInv, Typed, LocksApart
  <2>2. CASE Next
    <3>1. QueueInv'
      BY <2>2, QueueStep DEF DoneInv
    <3>2. PICK p \in Collector : Alone(p) \/ Ends(p)
      BY <2>2, NextStep DEF DoneInv
    <3>3. /\ manifest \in RowSet /\ tx \in [Collector -> Session]
          /\ \A q \in Collector : Orderly(manifest, tx[q]) /\ Done(manifest, tx[q])
      BY DEF DoneInv, QueueInv, Typed
    <3>4. CASE Alone(p)
      <4>1. /\ manifest' = manifest /\ \A q \in Collector \ {p} : tx'[q] = tx[q]
            /\ Steps(manifest, jobs, tx[p], tx'[p])
        BY <3>3, <3>4 DEF Alone
      <4>2. Done(manifest, tx'[p])
        BY <3>3, <4>1, StepsDone
      <4>3. \A q \in Collector : Done(manifest', tx'[q])
        BY <3>3, <4>1, <4>2
      <4> QED
        BY <3>1, <4>3 DEF DoneInv
    <3>5. CASE Ends(p)
      <4>1. /\ manifest' = Sees(manifest, tx[p]) /\ tx'[p] = Idle
            /\ \A q \in Collector \ {p} : tx'[q] = tx[q]
        BY <3>5, Replaced DEF Ends, DoneInv
      <4>2. DOMAIN manifest \subseteq DOMAIN manifest'
        BY <3>3, <4>1, SeesFacts
      <4>3. Done(manifest', Idle)
        BY DEF Done, Idle
      <4>4. \A q \in Collector : Done(manifest', tx'[q])
        BY <3>3, <4>1, <4>2, <4>3 DEF Done
      <4> QED
        BY <3>1, <4>4 DEF DoneInv
    <3> QED
      BY <3>2, <3>4, <3>5
  <2> QED
    BY <2>1, <2>2
<1> QED
  BY <1>1, <1>2, PTL DEF Spec

\* After a commit every candidate offered has a row, if the source identifies
\* its documents; where it does not, two of them are taken for one.
THEOREM NothingOfferedLost ==
  ASSUME Identified
  PROVE  Spec => OfferedPreserved
<1>1. ASSUME DoneInv, Next, NEW p \in Collector,
             tx[p].pc = "next", tx'[p].pc = "idle", manifest' # manifest,
             NEW k \in DOMAIN tx[p].offered
      PROVE  Identity(tx[p].offered[k]) \in DOMAIN manifest'
  <2>1. PICK q \in Collector : Ends(q)
    BY <1>1, NextStep DEF DoneInv, Alone
  <2>2. p = q
    BY <1>1, <2>1 DEF Ends
  <2>3. /\ manifest \in RowSet /\ tx[p] \in Session /\ Done(manifest, tx[p])
    BY <1>1 DEF DoneInv, QueueInv, Typed
  <2>4. k \in 1..(tx[p].at - 1)
    <3>1. tx[p].offered \in Seq(Candidate) /\ tx[p].at \in Nat \ {0}
      BY <2>3 DEF Session
    <3>2. k \in 1..Len(tx[p].offered) /\ ~(tx[p].at <= Len(tx[p].offered))
      BY <1>1, <2>1, <2>2, <3>1 DEF Ends
    <3> QED
      BY <3>1, <3>2
  <2>5. manifest' = Sees(manifest, tx[p])
    BY <2>1, <2>2 DEF Ends
  <2> QED
    BY <2>3, <2>4, <2>5, SeesFacts DEF Done
<1>2. DoneInv /\ [Next]_vars =>
        [\A p \in Collector :
           tx[p].pc = "next" /\ tx'[p].pc = "idle" /\ manifest' # manifest =>
             \A k \in DOMAIN tx[p].offered : Identity(tx[p].offered[k]) \in DOMAIN manifest']_vars
  BY <1>1
<1> QED
  BY <1>2, DoneInvariant, PTL DEF Spec, OfferedPreserved

==============================================================================
