------------------------ MODULE IntelligenceWorkerProofs ------------------------
(***************************************************************************)
(* For any texts, table of labels, documents, artifacts, workers, readers  *)
(* and limits: extractions are replaced and never lost, a document's       *)
(* columns come from its own texts, what a run records of a text is what   *)
(* the text states, and reconciliation makes at most one fact of a field   *)
(* effective, the right one.                                               *)
(***************************************************************************)
EXTENDS IntelligenceWorker, FiniteSetTheorems, TLAPS

-----------------------------------------------------------------------------
(* The extraction workers, whoever reads their extractions.                 *)

\* What a worker may have in its transaction: the extractions it updates are
\* of the document in hand.
OwnDocument ==
  \A w \in Worker : worker[w].updated # {} =>
    worker[w].updated \subseteq SameDocument(InHand(w))

\* What a worker has loaded: columns that the document has had.
Extracting == {"loaded", "clear", "insert"}
LoadedGiven ==
  \A w \in Worker : worker[w].pc \in Extracting =>
    \A c \in Column : worker[w].loaded[c] \in Given(Writes(w), c) \cup {Untold[c]}

WorkerState ==
  [ pc : {"idle", "next"} \cup Extracting, batch : Seq(Artifact),
    held : SUBSET Artifact, loaded : [Column -> Value], updated : SUBSET Artifact ]

\* The inductive form of TypeOK: worker is a function to records.
TypeInv == TypeOK /\ worker \in [Worker -> WorkerState]

Inv == TypeInv /\ OwnDocument /\ LoadedGiven /\ ColumnsGiven

\* A run that goes on to its next artifact keeps its invariants.
LEMMA RestingType ==
  ASSUME NEW b \in Seq(Artifact)
  PROVE  /\ Resting(b) \in WorkerState
         /\ Resting(b).batch = b
         /\ Resting(b).held = {}
         /\ Resting(b).updated = {}
         /\ Resting(b).pc \in {"idle", "next"}
         /\ Resting(b).pc = "idle" <=> b = <<>>
  BY ExtractionAssumption DEF Resting, Run, WorkerState

LEMMA TailOfBatch ==
  ASSUME NEW b \in Seq(Artifact), b # <<>>
  PROVE  /\ Head(b) \in Artifact
         /\ 1 \in DOMAIN b
         /\ Head(b) = b[1]
         /\ Tail(b) \in Seq(Artifact)
         /\ \A k \in DOMAIN Tail(b) : k + 1 \in DOMAIN b /\ Tail(b)[k] = b[k + 1]
  OBVIOUS

\* The state of a worker after it is done with the artifact in hand.
LEMMA NextArtifactStep ==
  ASSUME TypeInv, NEW w \in Worker, worker[w].pc # "idle", worker' = NextArtifact(w),
         stored \subseteq stored', extracted \subseteq extracted'
  PROVE  /\ worker' \in [Worker -> WorkerState]
         /\ worker'[w].updated = {} /\ worker'[w].held = {}
         /\ \A v \in Worker \ {w} : worker'[v] = worker[v]
         /\ \A k \in DOMAIN worker'[w].batch : worker'[w].batch[k] \in stored
         /\ worker'[w].pc \in {"idle", "next"}
         /\ worker'[w].pc = "idle" <=> worker'[w].batch = <<>>
         /\ InHand(w) \in stored
<1> DEFINE b == worker[w].batch
<1>1. b \in Seq(Artifact) /\ b # <<>> /\ \A k \in DOMAIN b : b[k] \in stored
  BY DEF TypeInv, TypeOK
<1>2. worker' = [worker EXCEPT ![w] = Resting(Tail(b))]
  BY DEF NextArtifact
<1>3. worker \in [Worker -> WorkerState]
  BY DEF TypeInv
<1> HIDE DEF b
<1>4. /\ Tail(b) \in Seq(Artifact) /\ Head(b) \in stored
      /\ \A k \in DOMAIN Tail(b) : Tail(b)[k] \in stored
  BY <1>1, TailOfBatch
<1>5. worker'[w] = Resting(Tail(b)) /\ \A v \in Worker \ {w} : worker'[v] = worker[v]
  BY <1>2, <1>3
<1>6. /\ Resting(Tail(b)) \in WorkerState
      /\ Resting(Tail(b)).batch = Tail(b) /\ Resting(Tail(b)).held = {}
      /\ Resting(Tail(b)).updated = {} /\ Resting(Tail(b)).pc \in {"idle", "next"}
      /\ Resting(Tail(b)).pc = "idle" <=> Tail(b) = <<>>
  BY <1>4, RestingType
<1>7. worker' \in [Worker -> WorkerState]
  BY <1>2, <1>3, <1>6
<1> QED
  BY <1>4, <1>5, <1>6, <1>7 DEF InHand, b

\* What a step leaves of the type invariant to show: who moved, and that the
\* others' part of it is kept because the tables only grow.
LEMMA OneWorkerMoves ==
  ASSUME TypeInv, NEW w \in Worker,
         stored \subseteq stored', extracted \subseteq extracted',
         extracted' \subseteq stored', stored' \subseteq Artifact,
         current' \subseteq extracted',
         described' \in [Document -> [Column -> Value]],
         faults' \in 0..MaxFaults,
         worker' \in [Worker -> WorkerState],
         \A v \in Worker \ {w} : worker'[v] = worker[v],
         \A k \in DOMAIN worker'[w].batch : worker'[w].batch[k] \in stored',
         worker'[w].pc = "idle" <=> worker'[w].batch = <<>>,
         worker'[w].held \subseteq stored',
         worker'[w].updated \subseteq extracted'
  PROVE  TypeInv'
<1> SUFFICES ASSUME NEW v \in Worker
             PROVE  /\ worker'[v].pc \in {"idle", "next", "loaded", "clear", "insert"}
                    /\ worker'[v].batch \in Seq(Artifact)
                    /\ \A k \in DOMAIN worker'[v].batch : worker'[v].batch[k] \in stored'
                    /\ worker'[v].pc = "idle" <=> worker'[v].batch = <<>>
                    /\ worker'[v].held \subseteq stored'
                    /\ worker'[v].loaded \in [Column -> Value]
                    /\ worker'[v].updated \subseteq extracted'
  BY DEF TypeInv, TypeOK
<1>1. worker'[v] \in WorkerState
  OBVIOUS
<1>2. CASE v = w
  BY <1>1, <1>2 DEF WorkerState, Extracting
<1>3. CASE v # w
  <2>1. worker'[v] = worker[v]
    BY <1>3
  <2> QED
    BY <1>1, <2>1 DEF WorkerState, TypeInv, TypeOK
<1> QED
  BY <1>2, <1>3

LEMMA InitTyped == Init => Inv
<1> SUFFICES ASSUME Init PROVE Inv
  OBVIOUS
<1>1. Idle \in WorkerState /\ Idle.batch = <<>> /\ Idle.pc = "idle"
      /\ Idle.held = {} /\ Idle.loaded = Untold /\ Idle.updated = {}
  BY ExtractionAssumption DEF Idle, Resting, Run, WorkerState
<1>2. \A w \in Worker : worker[w] = Idle
  BY DEF Init
<1>3. worker \in [Worker -> WorkerState]
  BY <1>1 DEF Init
<1>4. faults \in 0..MaxFaults
  BY ExtractionAssumption DEF Init
<1>5. \A k \in DOMAIN <<>> : <<>>[k] \in stored
  OBVIOUS
<1>6. \A w \in Worker :
        /\ worker[w].pc \in {"idle", "next", "loaded", "clear", "insert"}
        /\ worker[w].batch \in Seq(Artifact)
        /\ \A k \in DOMAIN worker[w].batch : worker[w].batch[k] \in stored
        /\ worker[w].pc = "idle" <=> worker[w].batch = <<>>
        /\ worker[w].held \subseteq stored
        /\ worker[w].loaded \in [Column -> Value]
        /\ worker[w].updated \subseteq extracted
  <2> TAKE w \in Worker
  <2>1. worker[w] = Idle
    BY <1>2
  <2>2. Idle.batch \in Seq(Artifact)
    BY <1>1
  <2> HIDE DEF Idle
  <2> QED
    BY <1>1, <1>5, <2>1, <2>2, ExtractionAssumption
<1>7. TypeOK
  BY <1>4, <1>6, ExtractionAssumption DEF Init, TypeOK
<1>8. \A w \in Worker : worker[w].pc = "idle" /\ worker[w].updated = {}
  BY <1>1, <1>2
<1>9. OwnDocument /\ LoadedGiven
  BY <1>8 DEF OwnDocument, LoadedGiven, Extracting
<1>10. ColumnsGiven
  BY DEF Init, ColumnsGiven, Given, TextsOf
<1> QED
  BY <1>3, <1>7, <1>9, <1>10 DEF Inv, TypeInv

\* What the texts of a document have given is there for good.
LEMMA GivenGrows ==
  ASSUME extracted \subseteq extracted', NEW d, NEW c
  PROVE  Given(d, c) \subseteq Given(d, c)'
BY DEF Given, TextsOf

\* A worker that has come to rest has loaded nothing that matters, and the
\* others what they had.
LEMMA LoadedStays ==
  ASSUME LoadedGiven, NEW w \in Worker, extracted \subseteq extracted',
         worker'[w].pc \notin Extracting,
         \A v \in Worker \ {w} : worker'[v] = worker[v]
  PROVE  LoadedGiven'
<1> SUFFICES ASSUME NEW v \in Worker, worker'[v].pc \in Extracting, NEW c \in Column
             PROVE  worker'[v].loaded[c] \in Given(Writes(v), c)' \cup {Untold[c]}
  BY DEF LoadedGiven, Extracting
<1>1. v # w /\ worker'[v] = worker[v]
  OBVIOUS
<1>2. Writes(v)' = Writes(v)
  BY <1>1 DEF Writes, InHand
<1>3. worker[v].loaded[c] \in Given(Writes(v), c) \cup {Untold[c]}
  BY <1>1 DEF LoadedGiven
<1>4. Given(Writes(v), c) \subseteq Given(Writes(v), c)'
  BY <1>2 DEF Given, TextsOf
<1> QED
  BY <1>1, <1>3, <1>4

\* Steps that end an artifact and write nothing.
LEMMA NothingWritten ==
  ASSUME Inv, NEW w \in Worker, worker[w].pc # "idle", worker' = NextArtifact(w),
         faults' \in 0..MaxFaults,
         UNCHANGED <<stored, extracted, current, described>>
  PROVE  Inv'
<1>1. TypeInv'
  BY NextArtifactStep, OneWorkerMoves DEF Inv, TypeInv, TypeOK
<1>2. OwnDocument'
  BY NextArtifactStep DEF Inv, OwnDocument, InHand
<1>3. ColumnsGiven'
  BY DEF Inv, ColumnsGiven, Given, TextsOf
<1>4. LoadedGiven'
  BY NextArtifactStep, LoadedStays DEF Inv, Extracting
<1> QED
  BY <1>1, <1>2, <1>3, <1>4 DEF Inv

\* A step of one worker within an artifact: only pc, loaded and updated change.
LEMMA WithinArtifact ==
  ASSUME Inv, NEW w \in Worker, worker[w].pc # "idle",
         NEW pc \in Extracting, NEW columns \in [Column -> Value], NEW rows,
         rows \subseteq extracted, rows \subseteq SameDocument(InHand(w)),
         \A c \in Column : columns[c] \in Given(Writes(w), c) \cup {Untold[c]},
         worker' = [worker EXCEPT ![w] =
                      [@ EXCEPT !.pc = pc, !.loaded = columns, !.updated = rows]],
         UNCHANGED <<stored, extracted, current, described, faults>>
  PROVE  Inv'
<1>1. worker \in [Worker -> WorkerState] /\ worker[w] \in WorkerState
  BY DEF Inv, TypeInv
<1>2. worker[w].batch \in Seq(Artifact) /\ worker[w].batch # <<>>
      /\ worker[w].held \subseteq stored
      /\ \A k \in DOMAIN worker[w].batch : worker[w].batch[k] \in stored
  BY DEF Inv, TypeInv, TypeOK
<1>3. rows \subseteq Artifact
  BY DEF Inv, TypeInv, TypeOK
<1>4. /\ worker'[w].pc = pc /\ worker'[w].batch = worker[w].batch
      /\ worker'[w].held = worker[w].held
      /\ worker'[w].loaded = columns /\ worker'[w].updated = rows
      /\ worker'[w] \in WorkerState
      /\ \A v \in Worker \ {w} : worker'[v] = worker[v]
  BY <1>1, <1>3 DEF WorkerState
<1>5. worker' \in [Worker -> WorkerState]
  BY <1>1, <1>4
<1>6. TypeInv'
  BY <1>2, <1>4, <1>5, OneWorkerMoves DEF Inv, TypeInv, TypeOK, Extracting
<1>7. OwnDocument'
  BY <1>4 DEF Inv, OwnDocument, InHand
<1>8. ColumnsGiven'
  BY DEF Inv, ColumnsGiven, Given, TextsOf
<1>9. LoadedGiven'
  BY <1>4 DEF Inv, LoadedGiven, Given, TextsOf, Writes, InHand
<1> QED
  BY <1>6, <1>7, <1>8, <1>9 DEF Inv

LEMMA ArriveStep ==
  ASSUME Inv, NEW a \in Artifact, Arrive(a)
  PROVE  Inv'
<1>1. TypeInv'
  BY DEF Inv, TypeInv, TypeOK, Arrive
<1>2. OwnDocument'
  BY DEF Inv, OwnDocument, InHand, Arrive
<1>3. LoadedGiven'
  BY DEF Inv, LoadedGiven, Given, TextsOf, Writes, InHand, Arrive
<1>4. ColumnsGiven'
  BY DEF Inv, ColumnsGiven, Given, TextsOf, Arrive
<1> QED
  BY <1>1, <1>2, <1>3, <1>4 DEF Inv

\* A rediscovery makes a column what it is in a new document.
LEMMA RediscoverStep ==
  ASSUME Inv, NEW d \in Document, Rediscover(d)
  PROVE  Inv'
<1>1. described \in [Document -> [Column -> Value]] /\ described[d] \in [Column -> Value]
  BY DEF Inv, TypeInv, TypeOK
<1>2. "text" \in Column /\ Untold["text"] \in Value
  BY ExtractionAssumption
<1>3. /\ described' = [described EXCEPT ![d] = [@ EXCEPT !["text"] = Untold["text"]]]
      /\ UNCHANGED <<stored, extracted, current, worker, faults>>
  BY DEF Rediscover
<1>4. described' \in [Document -> [Column -> Value]]
  BY <1>1, <1>2, <1>3
<1>5. TypeInv'
  BY <1>3, <1>4 DEF Inv, TypeInv, TypeOK
<1>6. OwnDocument' /\ LoadedGiven'
  BY <1>3 DEF Inv, OwnDocument, LoadedGiven, Given, TextsOf, Writes, InHand
<1>7. ColumnsGiven'
  <2> SUFFICES ASSUME NEW e \in Document, NEW c \in Column
               PROVE  \/ described'[e][c] \in Given(e, c)
                      \/ described'[e][c] = Untold[c] /\ (c = "text" \/ Given(e, c) = {})
    BY <1>3 DEF ColumnsGiven, Given, TextsOf
  <2>1. CASE e = d /\ c = "text"
    BY <1>1, <1>3, <2>1
  <2>2. CASE ~(e = d /\ c = "text")
    <3>1. described'[e][c] = described[e][c]
      BY <1>1, <1>3, <2>2
    <3> QED
      BY <3>1 DEF Inv, ColumnsGiven
  <2> QED
    BY <2>1, <2>2
<1> QED
  BY <1>5, <1>6, <1>7 DEF Inv

LEMMA ClaimStep ==
  ASSUME Inv, NEW w \in Worker, Claim(w)
  PROVE  Inv'
<1> DEFINE free == (stored \ extracted) \ HeldByOthers(w)
<1>1. PICK n \in 1..BatchSize : \E batch \in [1..n -> free] :
        worker' = [worker EXCEPT ![w] =
          Run(batch, {batch[k] : k \in 1..n})]
  BY DEF Claim
<1>2. PICK batch \in [1..n -> free] :
        worker' = [worker EXCEPT ![w] =
          Run(batch, {batch[k] : k \in 1..n})]
  BY <1>1
<1> DEFINE held == {batch[k] : k \in 1..n}
<1>3. n \in Nat \ {0} /\ free \subseteq stored /\ stored \subseteq Artifact
  BY ExtractionAssumption DEF Inv, TypeInv, TypeOK
<1>4. batch \in Seq(Artifact) /\ batch # <<>> /\ DOMAIN batch = 1..n
      /\ held \subseteq stored /\ \A k \in DOMAIN batch : batch[k] \in stored
  BY <1>3
<1> HIDE DEF free, held
<1>5. Run(batch, held)
        = [pc |-> "next", batch |-> batch, held |-> held, loaded |-> Untold, updated |-> {}]
  BY <1>4 DEF Run
<1>6. Run(batch, held) \in WorkerState
  BY <1>3, <1>4, <1>5, ExtractionAssumption DEF WorkerState
<1>7. worker \in [Worker -> WorkerState]
  BY DEF Inv, TypeInv
<1>8. /\ worker' \in [Worker -> WorkerState]
      /\ worker'[w] = [pc |-> "next", batch |-> batch, held |-> held,
                       loaded |-> Untold, updated |-> {}]
      /\ \A v \in Worker \ {w} : worker'[v] = worker[v]
  BY <1>2, <1>5, <1>6, <1>7 DEF held
<1>9. UNCHANGED <<stored, extracted, current, described, faults>>
  BY DEF Claim
<1>10. TypeInv'
  BY <1>4, <1>8, <1>9, OneWorkerMoves DEF Inv, TypeInv, TypeOK
<1>11. OwnDocument'
  BY <1>8, <1>9 DEF Inv, OwnDocument, InHand
<1>12. LoadedGiven'
  BY <1>8, <1>9, LoadedStays DEF Inv, Extracting
<1>13. ColumnsGiven'
  BY <1>9 DEF Inv, ColumnsGiven, Given, TextsOf
<1> QED
  BY <1>10, <1>11, <1>12, <1>13 DEF Inv

\* The columns that the worker in hand writes: what it has parsed, or what was
\* there and is not written because it had loaded what it has parsed.
LEMMA FlushedColumn ==
  ASSUME NEW c \in Column, NEW database, NEW was, NEW is
  PROVE  Flushed(database, was, is)[c] = IF is[c] = was[c] THEN database[c] ELSE is[c]
BY DEF Flushed

LEMMA FlushedType ==
  ASSUME NEW database \in [Column -> Value], NEW was, NEW is \in [Column -> Value]
  PROVE  Flushed(database, was, is) \in [Column -> Value]
BY DEF Flushed

LEMMA InsertStep ==
  ASSUME Inv, NEW w \in Worker, Insert(w)
  PROVE  Inv'
<1> DEFINE a == InHand(w)
           new == Flushed(described[DocumentOf[a]], worker[w].loaded, Assigned[a])
<1>1. /\ worker[w].pc = "insert" /\ a \notin extracted
      /\ extracted' = extracted \cup {a}
      /\ current' = (current \ worker[w].updated) \cup {a}
      /\ worker' = NextArtifact(w) /\ UNCHANGED <<stored, faults>>
  BY DEF Insert, MayInsert
<1>2. /\ worker' \in [Worker -> WorkerState]
      /\ worker'[w].updated = {} /\ worker'[w].held = {}
      /\ worker'[w].pc \in {"idle", "next"}
      /\ \A v \in Worker \ {w} : worker'[v] = worker[v]
      /\ \A k \in DOMAIN worker'[w].batch : worker'[w].batch[k] \in stored
      /\ worker'[w].pc = "idle" <=> worker'[w].batch = <<>>
      /\ a \in stored
  BY <1>1, NextArtifactStep DEF Inv
<1>3. a \in Artifact /\ DocumentOf[a] \in Document /\ Assigned[a] \in [Column -> Value]
  <2>1. a \in Artifact
    BY <1>2 DEF Inv, TypeInv, TypeOK
  <2> HIDE DEF a
  <2> QED
    BY <2>1, ExtractionAssumption
<1>4. described' = [described EXCEPT ![DocumentOf[a]] = new]
  <2>1. described' = Described(w)
    BY DEF Insert
  <2>2. Described(w) = [described EXCEPT ![DocumentOf[a]] = new]
    BY DEF Described, Writes
  <2> QED
    BY <2>1, <2>2
<1>5. \A c \in Column : worker[w].loaded[c] \in Given(DocumentOf[a], c) \cup {Untold[c]}
  BY <1>1 DEF Inv, LoadedGiven, Extracting, Writes
<1>6. described \in [Document -> [Column -> Value]]
  BY DEF Inv, TypeInv, TypeOK
<1>7. new \in [Column -> Value]
  BY <1>3, <1>6, FlushedType
<1>8. \A c \in Column :
        new[c] = IF Assigned[a][c] = worker[w].loaded[c]
                 THEN described[DocumentOf[a]][c] ELSE Assigned[a][c]
  BY FlushedColumn
<1> HIDE DEF a, new
<1>9. TypeInv'
  <2>1. described' \in [Document -> [Column -> Value]]
    BY <1>4, <1>6, <1>7
  <2> QED
    BY <1>1, <1>2, <1>3, <2>1, OneWorkerMoves DEF Inv, TypeInv, TypeOK
<1>10. OwnDocument'
  BY <1>2 DEF Inv, OwnDocument, InHand
<1>11. LoadedGiven'
  BY <1>1, <1>2, LoadedStays DEF Inv, Extracting
<1>12. ColumnsGiven'
  <2> SUFFICES ASSUME NEW d \in Document, NEW c \in Column
               PROVE  \/ described'[d][c] \in Given(d, c)'
                      \/ described'[d][c] = Untold[c] /\ (c = "text" \/ Given(d, c)' = {})
    BY DEF ColumnsGiven
  <2>1. \/ described[d][c] \in Given(d, c)
        \/ described[d][c] = Untold[c] /\ (c = "text" \/ Given(d, c) = {})
    BY DEF Inv, ColumnsGiven
  <2>2. Given(d, c) \subseteq Given(d, c)'
    BY <1>1, GivenGrows
  <2>3. CASE d # DocumentOf[a]
    <3>1. described'[d] = described[d]
      BY <1>4, <1>6, <2>3
    <3>2. Given(d, c)' = Given(d, c)
      BY <1>1, <2>3 DEF Given, TextsOf
    <3> QED
      BY <2>1, <3>1, <3>2
  <2>4. CASE d = DocumentOf[a]
    <3>1. described'[d][c] = new[c]
      BY <1>3, <1>4, <1>6, <2>4
    <3>2. Assigned[a][c] \in Given(d, c)'
      <4>1. a \in TextsOf(d)'
        BY <1>1, <2>4 DEF TextsOf
      <4> QED
        BY <4>1 DEF Given
    <3>3. CASE Assigned[a][c] # worker[w].loaded[c]
      BY <1>8, <3>1, <3>2, <3>3
    <3>4. CASE Assigned[a][c] = worker[w].loaded[c]
      <4>1. described'[d][c] = described[d][c]
        BY <1>8, <2>4, <3>1, <3>4
      <4>2. CASE Given(d, c) = {}
        <5>1. worker[w].loaded[c] = Untold[c]
          BY <1>5, <2>4, <4>2
        <5> QED
          BY <2>1, <3>2, <3>4, <4>1, <4>2, <5>1
      <4>3. CASE Given(d, c) # {}
        BY <2>1, <2>2, <4>1, <4>3
      <4> QED
        BY <4>2, <4>3
    <3> QED
      BY <3>3, <3>4
  <2> QED
    BY <2>3, <2>4
<1> QED
  BY <1>9, <1>10, <1>11, <1>12 DEF Inv

\* Every other step of a worker ends its artifact with nothing written, or
\* moves within it.
LEMMA FaultStep ==
  ASSUME Inv, NEW w \in Worker, Fault(w)
  PROVE  Inv'
<1>1. /\ worker[w].pc # "idle" /\ faults' \in 0..MaxFaults
      /\ UNCHANGED <<stored, extracted, current, described>>
  BY ExtractionAssumption DEF Fault, Inv, TypeInv, TypeOK
<1>2. CASE worker' = NextArtifact(w)
  BY <1>1, <1>2, NothingWritten
<1>3. CASE worker' = [worker EXCEPT ![w] = Idle]
  <2>1. Idle \in WorkerState /\ Idle.batch = <<>> /\ Idle.pc = "idle"
        /\ Idle.held = {} /\ Idle.updated = {} /\ \A k \in DOMAIN Idle.batch : FALSE
    BY ExtractionAssumption DEF Idle, Resting, Run, WorkerState
  <2>2. /\ worker' \in [Worker -> WorkerState] /\ worker'[w] = Idle
        /\ \A v \in Worker \ {w} : worker'[v] = worker[v]
    BY <1>3, <2>1 DEF Inv, TypeInv
  <2>3. TypeInv'
    BY <1>1, <2>1, <2>2, OneWorkerMoves DEF Inv, TypeInv, TypeOK
  <2>4. OwnDocument'
    BY <2>1, <2>2 DEF Inv, OwnDocument, InHand
  <2>5. LoadedGiven'
    <3>1. worker'[w].pc \notin Extracting
      BY <2>1, <2>2 DEF Extracting
    <3> QED
      BY <1>1, <2>2, <3>1, LoadedStays DEF Inv
  <2>6. ColumnsGiven'
    BY <1>1 DEF Inv, ColumnsGiven, Given, TextsOf
  <2> QED
    BY <2>3, <2>4, <2>5, <2>6 DEF Inv
<1> QED
  BY <1>2, <1>3 DEF Fault

LEMMA ProcessStep ==
  ASSUME Inv, NEW w \in Worker, Process(w)
  PROVE  Inv'
<1>0. worker \in [Worker -> WorkerState] /\ worker[w].loaded \in [Column -> Value]
  BY DEF Inv, TypeInv, TypeOK
<1>1. faults \in 0..MaxFaults /\ current \subseteq extracted
  BY DEF Inv, TypeInv, TypeOK
<1>2. CASE Refuse(w)
  BY <1>1, <1>2, NothingWritten DEF Refuse
<1>3. CASE Reuse(w)
  BY <1>1, <1>3, NothingWritten DEF Reuse
<1>4. CASE Parse(w)
  <2>1. current \cap SameDocument(InHand(w)) \subseteq extracted
    BY <1>1
  <2>2. worker[w].pc = "loaded"
    BY <1>4 DEF Parse
  <2>3. \A c \in Column : worker[w].loaded[c] \in Given(Writes(w), c) \cup {Untold[c]}
    BY <2>2 DEF Inv, LoadedGiven, Extracting
  <2>4. worker' = [worker EXCEPT ![w] =
          [@ EXCEPT !.pc = "clear", !.loaded = worker[w].loaded,
                    !.updated = current \cap SameDocument(InHand(w))]]
    BY <1>4, <1>0 DEF Parse, WorkerState
  <2> QED
    BY <1>4, <1>0, <2>1, <2>2, <2>3, <2>4, WithinArtifact DEF Parse, Extracting
<1>5. CASE Clear(w)
  <2>1. worker[w].updated \cap current \subseteq SameDocument(InHand(w))
    BY DEF Inv, OwnDocument
  <2>2. worker[w].updated \cap current \subseteq extracted
    BY <1>1
  <2>3. worker[w].pc = "clear"
    BY <1>5 DEF Clear
  <2>4. \A c \in Column : worker[w].loaded[c] \in Given(Writes(w), c) \cup {Untold[c]}
    BY <2>3 DEF Inv, LoadedGiven, Extracting
  <2>5. worker' = [worker EXCEPT ![w] =
          [@ EXCEPT !.pc = "insert", !.loaded = worker[w].loaded,
                    !.updated = worker[w].updated \cap current]]
    BY <1>5, <1>0 DEF Clear, WorkerState
  <2> QED
    BY <1>5, <1>0, <2>1, <2>2, <2>3, <2>4, <2>5, WithinArtifact DEF Clear, Extracting
<1>6. CASE Insert(w)
  BY <1>6, InsertStep
<1>7. CASE InsertConflicts(w)
  BY <1>1, <1>7, NothingWritten DEF InsertConflicts, MayInsert
<1>9. CASE Load(w)
  <2>1. worker[w].pc = "next" /\ worker[w].updated \subseteq extracted
    BY <1>9 DEF Load, Inv, TypeInv, TypeOK
  <2>2. worker[w].updated \subseteq SameDocument(InHand(w))
    BY DEF Inv, OwnDocument
  <2>3. Writes(w) \in Document
    <3>1. worker[w].batch \in Seq(Artifact) /\ worker[w].batch # <<>>
      BY <2>1 DEF Inv, TypeInv, TypeOK
    <3>2. InHand(w) \in Artifact
      BY <3>1, TailOfBatch DEF InHand
    <3> QED
      BY <3>2, ExtractionAssumption DEF Writes
  <2>4. described[Writes(w)] \in [Column -> Value]
    BY <2>3 DEF Inv, TypeInv, TypeOK
  <2>5. \A c \in Column : described[Writes(w)][c] \in Given(Writes(w), c) \cup {Untold[c]}
    BY <2>3 DEF Inv, ColumnsGiven
  <2>6. worker' = [worker EXCEPT ![w] =
          [@ EXCEPT !.pc = "loaded", !.loaded = described[Writes(w)],
                    !.updated = worker[w].updated]]
    BY <1>9, <1>0 DEF Load, WorkerState
  <2> QED
    BY <1>9, <2>1, <2>2, <2>4, <2>5, <2>6, WithinArtifact DEF Load, Extracting
<1>8. CASE Deadlock(w)
  <2>1. worker[w].pc # "idle"
    BY <1>8 DEF Deadlock, WaitsFor
  <2> QED
    BY <1>1, <1>8, <2>1, NothingWritten DEF Deadlock
<1> QED
  BY <1>2, <1>3, <1>4, <1>5, <1>6, <1>7, <1>8, <1>9 DEF Process

LEMMA InvInductive == Inv /\ [Next]_vars => Inv'
<1> SUFFICES ASSUME Inv, [Next]_vars PROVE Inv'
  OBVIOUS
<1>1. CASE UNCHANGED vars
  <2>1. TypeInv' /\ OwnDocument'
    BY <1>1 DEF vars, Inv, TypeInv, TypeOK, OwnDocument, InHand
  <2>2. LoadedGiven' /\ ColumnsGiven'
    BY <1>1 DEF vars, Inv, LoadedGiven, ColumnsGiven, Given, TextsOf, Writes, InHand
  <2> QED
    BY <2>1, <2>2 DEF Inv
<1>2. CASE Next
  BY <1>2, ArriveStep, RediscoverStep, ClaimStep, ProcessStep, FaultStep DEF Next
<1> QED
  BY <1>1, <1>2

\* Every variable of the extraction worker keeps its type.
THEOREM ExtractionTypeCorrect == Spec => []TypeOK
<1>1. Inv => TypeOK
  BY DEF Inv, TypeInv
<1> QED
  BY <1>1, InitTyped, InvInductive, PTL DEF Spec

\* Only an insert ends the currency of extractions, of its own document's.
LEMMA StepReplaces ==
  ASSUME Inv, [Next]_vars, NEW a \in current \ current'
  PROVE  \E b \in current' \cap (extracted' \ extracted) : DocumentOf[b] = DocumentOf[a]
<1>1. CASE UNCHANGED vars
  BY <1>1 DEF vars
<1>2. ASSUME NEW w \in Worker, Insert(w)
      PROVE  \E b \in current' \cap (extracted' \ extracted) : DocumentOf[b] = DocumentOf[a]
  <2> DEFINE b == InHand(w)
  <2>1. /\ b \notin extracted /\ extracted' = extracted \cup {b}
        /\ current' = (current \ worker[w].updated) \cup {b}
    BY <1>2 DEF Insert
  <2>2. a \in worker[w].updated
    BY <2>1
  <2>3. DocumentOf[a] = DocumentOf[b]
    BY <2>2 DEF Inv, OwnDocument, SameDocument
  <2> HIDE DEF b
  <2>4. b \in current' \cap (extracted' \ extracted)
    BY <2>1
  <2> QED
    BY <2>3, <2>4
<1>3. ASSUME Next, \A w \in Worker : ~Insert(w) PROVE current' = current
  BY <1>3 DEF Next, Arrive, Rediscover, Claim, Process, Refuse, Reuse, Load, Parse, Clear,
              InsertConflicts, Deadlock, Fault
<1> QED
  BY <1>1, <1>2, <1>3

\* However many workers extract however many bodies of a document at once, and
\* whichever of them fail, an extraction stops being current only as a new one
\* of its document starts to be.
THEOREM ExtractionsReplaced == Spec => ReplacedNotLost
<1>1. Inv /\ [Next]_vars =>
        [\A a \in current \ current' :
           \E b \in current' \cap (extracted' \ extracted) : DocumentOf[b] = DocumentOf[a]]_vars
  BY StepReplaces
<1> QED
  BY <1>1, InitTyped, InvInductive, PTL DEF Spec, ReplacedNotLost

\* Two workers that have loaded the document before either writes it may leave
\* columns of both; what they leave is always of its own texts.
THEOREM ColumnsOfOwnTexts == Spec => []ColumnsGiven
<1>1. Inv => ColumnsGiven
  BY DEF Inv
<1> QED
  BY <1>1, InitTyped, InvInductive, PTL DEF Spec

-----------------------------------------------------------------------------
(* The facts of a text, and the readers of the current extractions.         *)

\* _dedupe goes through the facts of all blocks.
Dedupe == INSTANCE FoldInduction WITH Op <- NewFact

-----------------------------------------------------------------------------
(* Sequences put one after another.                                         *)

LEMMA ToSetSeq ==
  ASSUME NEW S, NEW s \in Seq(S)
  PROVE  ToSet(s) = {s[i] : i \in 1..Len(s)} /\ ToSet(s) \subseteq S /\ s \in Seq(ToSet(s))
BY DEF ToSet

\* What FlattenSeq makes of sequences is a sequence, of all of their elements.
LEMMA FlattenElements ==
  ASSUME NEW S, NEW n \in Nat, NEW seqs \in [1..n -> Seq(S)]
  PROVE  /\ FlattenSeq(seqs) \in Seq(S)
         /\ ToSet(FlattenSeq(seqs)) = UNION {ToSet(seqs[i]) : i \in 1..n}
<1>1. FlattenSeq(seqs) = Dedupe!FlattenSeq(seqs)
  BY DEF FlattenSeq, Dedupe!FlattenSeq
<1>2. \A t : ToSet(t) = Dedupe!ToSet(t)
  BY DEF ToSet, Dedupe!ToSet
<1>3. /\ Dedupe!FlattenSeq(seqs) \in Seq(S)
      /\ Dedupe!ToSet(Dedupe!FlattenSeq(seqs)) = UNION {Dedupe!ToSet(seqs[i]) : i \in 1..n}
  BY Dedupe!FlattenElements
<1> QED
  BY <1>1, <1>2, <1>3

-----------------------------------------------------------------------------
(* The facts of a text.                                                     *)

\* Each of the first k facts found is there, once for all that are the same.
Deduped(facts, found, k) ==
  /\ facts \in Seq({found[j] : j \in 1..k})
  /\ \A j \in 1..k : \E i \in 1..Len(facts) : Same(facts[i], found[j])
  /\ \A i, j \in 1..Len(facts) : Same(facts[i], facts[j]) => i = j

LEMMA NewFactDedupes ==
  ASSUME NEW n \in Nat, NEW found, NEW k \in 1..n, NEW facts, Deduped(facts, found, k - 1)
  PROVE  Deduped(NewFact(facts, found[k]), found, k)
<1> DEFINE Before == {found[j] : j \in 1..(k - 1)}
           Upto == {found[j] : j \in 1..k}
           more == Append(facts, found[k])
<1>1. facts \in Seq(Before) /\ Before \subseteq Upto /\ found[k] \in Upto
  BY DEF Deduped
<1>2. facts \in Seq(Upto)
  <2> HIDE DEF Before, Upto
  <2> QED
    BY <1>1
<1>3. /\ \A j \in 1..(k - 1) : \E i \in 1..Len(facts) : Same(facts[i], found[j])
      /\ \A i, j \in 1..Len(facts) : Same(facts[i], facts[j]) => i = j
  BY DEF Deduped
<1>4. DOMAIN facts = 1..Len(facts) /\ Len(facts) \in Nat
  BY <1>2
<1>5. CASE \E i \in DOMAIN facts : Same(facts[i], found[k])
  <2>1. NewFact(facts, found[k]) = facts
    BY <1>5 DEF NewFact
  <2>2. \A j \in 1..k : \E i \in 1..Len(facts) : Same(facts[i], found[j])
    BY <1>3, <1>4, <1>5
  <2> QED
    BY <1>2, <1>3, <2>1, <2>2 DEF Deduped
<1>6. CASE ~\E i \in DOMAIN facts : Same(facts[i], found[k])
  <2>1. NewFact(facts, found[k]) = more
    BY <1>6 DEF NewFact
  <2>2. /\ more \in Seq(Upto) /\ Len(more) = Len(facts) + 1
        /\ more[Len(facts) + 1] = found[k]
        /\ \A i \in 1..Len(facts) : more[i] = facts[i]
    <3> HIDE DEF Upto
    <3> QED
      BY <1>1, <1>2
  <2> HIDE DEF more
  <2>3. \A i \in 1..Len(facts) : ~Same(facts[i], found[k]) /\ ~Same(found[k], facts[i])
    BY <1>4, <1>6 DEF Same
  <2>4. ASSUME NEW j \in 1..k PROVE \E i \in 1..Len(more) : Same(more[i], found[j])
    <3>1. CASE j = k
      <4>1. Same(more[Len(facts) + 1], found[k])
        BY <2>2 DEF Same
      <4> QED
        BY <1>4, <2>2, <3>1, <4>1
    <3>2. CASE j \in 1..(k - 1)
      <4>1. PICK i \in 1..Len(facts) : Same(facts[i], found[j])
        BY <1>3, <3>2
      <4> QED
        BY <1>4, <2>2, <4>1
    <3> QED
      BY <3>1, <3>2
  <2>5. ASSUME NEW i \in 1..Len(more), NEW j \in 1..Len(more), Same(more[i], more[j])
        PROVE  i = j
    <3>1. i \in 1..Len(facts) \/ i = Len(facts) + 1
      BY <1>4, <2>2
    <3>2. j \in 1..Len(facts) \/ j = Len(facts) + 1
      BY <1>4, <2>2
    <3> QED
      BY <1>3, <2>2, <2>3, <2>5, <3>1, <3>2
  <2> QED
    BY <2>1, <2>2, <2>4, <2>5 DEF Deduped
<1> QED
  BY <1>5, <1>6

LEMMA FoldDedupes ==
  ASSUME NEW n \in Nat, NEW found, DOMAIN found = 1..n
  PROVE  Deduped(FoldLeft(NewFact, <<>>, found), found, n)
<1>1. FoldLeft(NewFact, <<>>, found) = Dedupe!Folded(<<>>, found)
  BY DEF Dedupe!Folded, FoldLeft, MapThenFoldSet, Dedupe!MapThenFoldSet,
         Max, Dedupe!Max
<1>2. PICK h : /\ h[0] = <<>>
               /\ \A i \in 1..n : h[i] = NewFact(h[i - 1], found[i])
               /\ Dedupe!Folded(<<>>, found) = h[n]
  BY Dedupe!FoldSteps
<1> DEFINE T == {k \in 0..n : Deduped(h[k], found, k)}
<1>3. 0 \in T
  <2>1. Deduped(<<>>, found, 0)
    BY DEF Deduped
  <2> QED
    BY <1>2, <2>1
<1>4. ASSUME NEW k \in 1..n, k - 1 \in T PROVE k \in T
  <2>1. Deduped(h[k - 1], found, k - 1)
    BY <1>4
  <2>2. Deduped(NewFact(h[k - 1], found[k]), found, k)
    BY <2>1, NewFactDedupes
  <2> QED
    BY <1>2, <2>2
<1> HIDE DEF T
<1>5. n \in T
  BY <1>3, <1>4, Dedupe!Induction
<1> QED
  BY <1>1, <1>2, <1>5 DEF T

\* The facts that the labels of a block state.
StatedBy(block) == {[field |-> f, value |-> block.labels[f]] : f \in DOMAIN block.labels}

\* Every label of a block is found, by the table that names every field.
LEMMA FoundStated ==
  ASSUME NEW block, DOMAIN block.labels \subseteq ToSet(Labels)
  PROVE  Found(block) \in Seq(StatedBy(block)) /\ ToSet(Found(block)) = StatedBy(block)
<1> DEFINE n == Len(Labels)
           Fact(f) == [field |-> f, value |-> block.labels[f]]
           Part(i) == IF Labels[i] \in DOMAIN block.labels THEN <<Fact(Labels[i])>> ELSE <<>>
           parts == [i \in 1..n |-> Part(i)]
<1>1. n \in Nat /\ DOMAIN Labels = 1..n
  BY LabelTable
<1>2. Found(block) = FlattenSeq(parts)
  BY <1>1 DEF Found
<1>3. ASSUME NEW i \in 1..n
      PROVE  /\ Part(i) \in Seq(StatedBy(block))
             /\ ToSet(Part(i)) = {Fact(f) : f \in DOMAIN block.labels \cap {Labels[i]}}
  <2>1. CASE Labels[i] \in DOMAIN block.labels
    <3>1. Fact(Labels[i]) \in StatedBy(block)
      BY <2>1 DEF StatedBy
    <3>2. Part(i) = <<Fact(Labels[i])>>
      BY <2>1
    <3>3. DOMAIN block.labels \cap {Labels[i]} = {Labels[i]}
      BY <2>1
    <3> QED
      BY <3>1, <3>2, <3>3 DEF ToSet
  <2>2. CASE Labels[i] \notin DOMAIN block.labels
    <3>1. Part(i) = <<>> /\ DOMAIN block.labels \cap {Labels[i]} = {}
      BY <2>2
    <3> QED
      BY <3>1 DEF ToSet
  <2> QED
    BY <2>1, <2>2
<1>4. parts \in [1..n -> Seq(StatedBy(block))]
  BY <1>3
<1>5. /\ FlattenSeq(parts) \in Seq(StatedBy(block))
      /\ ToSet(FlattenSeq(parts)) = UNION {ToSet(parts[i]) : i \in 1..n}
  <2> HIDE DEF parts, n
  <2> QED
    BY <1>1, <1>4, FlattenElements
<1>6. ASSUME NEW f \in DOMAIN block.labels PROVE \E i \in 1..n : Fact(f) \in ToSet(parts[i])
  <2>1. PICK i \in 1..n : f = Labels[i]
    BY <1>1 DEF ToSet
  <2>2. ToSet(Part(i)) = {Fact(g) : g \in DOMAIN block.labels \cap {Labels[i]}}
    BY <1>3
  <2>3. Fact(f) \in ToSet(Part(i))
    BY <2>1, <2>2
  <2> QED
    BY <2>3
<1>7. StatedBy(block) \subseteq ToSet(FlattenSeq(parts))
  BY <1>5, <1>6 DEF StatedBy
<1>8. ToSet(FlattenSeq(parts)) \subseteq StatedBy(block)
  <2> HIDE DEF parts
  <2> QED
    BY <1>5 DEF ToSet
<1> QED
  BY <1>2, <1>5, <1>7, <1>8

\* The facts of a text, before they are cut at their limit.
FactsStated(blocks) == UNION {StatedBy(blocks[b]) : b \in DOMAIN blocks}

LEMMA FactsInStated ==
  ASSUME NEW S, NEW blocks \in Seq(S),
         \A b \in DOMAIN blocks : DOMAIN blocks[b].labels \subseteq ToSet(Labels)
  PROVE  /\ FactsIn(blocks) \in Seq(FactsStated(blocks))
         /\ \A fact \in FactsStated(blocks) :
              \E i \in 1..Len(FactsIn(blocks)) : Same(FactsIn(blocks)[i], fact)
         /\ \A i, j \in 1..Len(FactsIn(blocks)) :
              Same(FactsIn(blocks)[i], FactsIn(blocks)[j]) => i = j
<1> DEFINE n == Len(blocks)
           parts == [b \in 1..n |-> Found(blocks[b])]
           found == FlattenSeq(parts)
           facts == FactsIn(blocks)
           All == FactsStated(blocks)
<1>1. n \in Nat /\ DOMAIN blocks = 1..n
  OBVIOUS
<1>2. ASSUME NEW b \in 1..n
      PROVE  Found(blocks[b]) \in Seq(All) /\ ToSet(Found(blocks[b])) = StatedBy(blocks[b])
  <2>1. Found(blocks[b]) \in Seq(StatedBy(blocks[b])) /\ ToSet(Found(blocks[b])) = StatedBy(blocks[b])
    BY <1>1, FoundStated
  <2>2. StatedBy(blocks[b]) \subseteq All
    BY <1>1 DEF FactsStated
  <2> HIDE DEF All
  <2> QED
    BY <2>1, <2>2
<1>3. parts \in [1..n -> Seq(All)]
  BY <1>2
<1>4. found \in Seq(All) /\ ToSet(found) = UNION {ToSet(parts[b]) : b \in 1..n}
  <2> HIDE DEF parts, n, All
  <2> QED
    BY <1>1, <1>3, FlattenElements
<1>5. All \subseteq ToSet(found)
  BY <1>1, <1>2, <1>4 DEF FactsStated
<1>6. facts = FoldLeft(NewFact, <<>>, found)
  BY <1>1 DEF FactsIn
<1> HIDE DEF parts, found, All, facts
<1>7. Len(found) \in Nat /\ DOMAIN found = 1..Len(found)
  BY <1>4
<1>8. Deduped(facts, found, Len(found))
  BY <1>6, <1>7, FoldDedupes
<1>9. facts \in Seq(All)
  <2>1. {found[j] : j \in 1..Len(found)} \subseteq All
    BY <1>4
  <2>2. facts \in Seq({found[j] : j \in 1..Len(found)})
    BY <1>8 DEF Deduped
  <2> QED
    BY <2>1, <2>2
<1>10. ASSUME NEW fact \in All PROVE \E i \in 1..Len(facts) : Same(facts[i], fact)
  <2>1. PICK j \in 1..Len(found) : fact = found[j]
    BY <1>5, <1>7 DEF ToSet
  <2> QED
    BY <1>8, <2>1 DEF Deduped
<1>11. \A i, j \in 1..Len(facts) : Same(facts[i], facts[j]) => i = j
  BY <1>8 DEF Deduped
<1> QED
  BY <1>9, <1>10, <1>11 DEF All, facts

\* Numbers that name different things count them.
LEMMA Counted ==
  ASSUME NEW n \in Nat, NEW f, DOMAIN f = 1..n, \A i, j \in 1..n : f[i] = f[j] => i = j
  PROVE  Cardinality({f[i] : i \in 1..n}) = n
<1> DEFINE S == {f[i] : i \in 1..n}
           g == [i \in 1..n |-> f[i]]
<1>1. g \in Bijection(1..n, S)
  <2>1. g \in [1..n -> S]
    OBVIOUS
  <2>2. IsInjective(g)
    BY DEF IsInjective
  <2>3. \A x \in S : \E i \in 1..n : g[i] = x
    OBVIOUS
  <2> QED
    BY <2>1, <2>2, <2>3 DEF Bijection, Injection, Surjection, IsInjective
<1>2. ExistsBijection(1..n, S)
  BY <1>1 DEF ExistsBijection
<1> HIDE DEF S
<1>3. Cardinality(S) = n
  BY <1>2, FS_CountingElements
<1> QED
  BY <1>3 DEF S

\* What TextRepresented says of a run, of the result of reading a text.
Represents(result, blocks) ==
  LET labels == UNION {{<<f, b.labels[f]>> : f \in DOMAIN b.labels} : b \in ToSet(blocks)}
      stated == {<<l[1], l[2][1]>> : l \in labels}
      facts == result.facts
      recorded == {<<facts[i].field, facts[i].value[1]>> : i \in DOMAIN facts}
  IN /\ \A i \in DOMAIN facts : <<facts[i].field, facts[i].value>> \in labels
     /\ Cardinality(recorded) = Len(facts)
     /\ recorded # stated => Len(facts) = MaxFields
     /\ result.fields = Cardinality(stated)

LEMMA UnderstoodRepresents ==
  ASSUME NEW S, NEW blocks \in Seq(S),
         \A b \in DOMAIN blocks : DOMAIN blocks[b].labels \subseteq ToSet(Labels),
         NEW warned
  PROVE  Represents(Understood(blocks, warned), blocks)
<1> DEFINE labels == UNION {{<<f, b.labels[f]>> : f \in DOMAIN b.labels} : b \in ToSet(blocks)}
           stated == {<<l[1], l[2][1]>> : l \in labels}
           every == FactsIn(blocks)
           facts == First(every, MaxFields)
           Key(i) == <<every[i].field, every[i].value[1]>>
           n == Len(every)
           m == Len(facts)
<1>1. /\ every \in Seq(FactsStated(blocks))
      /\ \A fact \in FactsStated(blocks) : \E i \in 1..n : Same(every[i], fact)
      /\ \A i, j \in 1..n : Same(every[i], every[j]) => i = j
  BY FactsInStated
<1>2. \A fact \in FactsStated(blocks) :
        /\ <<fact.field, fact.value>> \in labels
        /\ <<fact.field, fact.value[1]>> \in stated
  <2> SUFFICES ASSUME NEW fact \in FactsStated(blocks)
               PROVE  /\ <<fact.field, fact.value>> \in labels
                      /\ <<fact.field, fact.value[1]>> \in stated
    OBVIOUS
  <2>1. PICK b \in DOMAIN blocks : fact \in StatedBy(blocks[b])
    BY DEF FactsStated
  <2>2. PICK f \in DOMAIN blocks[b].labels : fact = [field |-> f, value |-> blocks[b].labels[f]]
    BY <2>1 DEF StatedBy
  <2>3. blocks[b] \in ToSet(blocks)
    BY DEF ToSet
  <2>4. <<f, blocks[b].labels[f]>> \in labels
    BY <2>3
  <2>5. <<f, blocks[b].labels[f][1]>> \in stated
    <3> HIDE DEF labels
    <3>1. <<f, blocks[b].labels[f]>>[1] = f /\ <<f, blocks[b].labels[f]>>[2] = blocks[b].labels[f]
      OBVIOUS
    <3> QED
      BY <2>4, <3>1
  <2> QED
    BY <2>2, <2>4, <2>5
<1>3. \A s \in stated : \E fact \in FactsStated(blocks) : s = <<fact.field, fact.value[1]>>
  <2> SUFFICES ASSUME NEW l \in labels
               PROVE  \E fact \in FactsStated(blocks) : <<l[1], l[2][1]>> = <<fact.field, fact.value[1]>>
    OBVIOUS
  <2>1. PICK b \in DOMAIN blocks : l \in {<<f, blocks[b].labels[f]>> : f \in DOMAIN blocks[b].labels}
    BY DEF ToSet
  <2>2. PICK f \in DOMAIN blocks[b].labels : l = <<f, blocks[b].labels[f]>>
    BY <2>1
  <2> DEFINE fact == [field |-> f, value |-> blocks[b].labels[f]]
  <2>3. fact \in FactsStated(blocks)
    BY DEF FactsStated, StatedBy
  <2>4. l[1] = fact.field /\ l[2] = fact.value
    BY <2>2
  <2> HIDE DEF fact
  <2> QED
    BY <2>3, <2>4
<1> HIDE DEF labels, stated, every
<1>4. n \in Nat /\ DOMAIN every = 1..n
  BY <1>1
<1>5. \A i, j \in 1..n : Key(i) = Key(j) => i = j
  BY <1>1 DEF Same
<1>6. {Key(i) : i \in 1..n} = stated
  <2>1. \A i \in 1..n : Key(i) \in stated
    <3>1. \A i \in 1..n : every[i] \in FactsStated(blocks)
      BY <1>1, <1>4
    <3> QED
      BY <3>1, <1>2
  <2>2. ASSUME NEW s \in stated PROVE \E i \in 1..n : s = Key(i)
    <3>1. PICK fact \in FactsStated(blocks) : s = <<fact.field, fact.value[1]>>
      BY <1>3
    <3>2. PICK i \in 1..n : Same(every[i], fact)
      BY <1>1
    <3> QED
      BY <3>1, <3>2 DEF Same
  <2> QED
    BY <2>1, <2>2
<1>7. ASSUME NEW k \in 0..n PROVE Cardinality({Key(i) : i \in 1..k}) = k
  <2> DEFINE f == [i \in 1..k |-> Key(i)]
  <2>1. \A i, j \in 1..k : f[i] = f[j] => i = j
    BY <1>5
  <2>2. DOMAIN f = 1..k /\ k \in Nat
    OBVIOUS
  <2>3. {f[i] : i \in 1..k} = {Key(i) : i \in 1..k}
    OBVIOUS
  <2> HIDE DEF f
  <2>4. Cardinality({f[i] : i \in 1..k}) = k
    BY <2>1, <2>2, Counted
  <2> QED
    BY <2>3, <2>4
<1>8. /\ facts \in Seq(FactsStated(blocks)) /\ m \in 0..n
      /\ m = (IF MaxFields < n THEN MaxFields ELSE n)
      /\ DOMAIN facts = 1..m /\ \A i \in 1..m : facts[i] = every[i]
  BY <1>1, <1>4, FactBounds DEF First
<1> HIDE DEF facts
<1> DEFINE recorded == {<<facts[i].field, facts[i].value[1]>> : i \in DOMAIN facts}
<1>9. recorded = {Key(i) : i \in 1..m}
  BY <1>8
<1>10. \A i \in DOMAIN facts : <<facts[i].field, facts[i].value>> \in labels
  <2>1. \A i \in DOMAIN facts : facts[i] \in FactsStated(blocks)
    BY <1>8
  <2> QED
    BY <2>1, <1>2
<1>11. Cardinality(recorded) = m
  BY <1>7, <1>8, <1>9
<1>12. recorded # stated => m = MaxFields
  BY <1>6, <1>8, <1>9
<1>13. Cardinality(stated) = n
  <2>1. n \in 0..n
    BY <1>4
  <2> HIDE DEF n
  <2> QED
    BY <1>6, <1>7, <2>1
<1>14. Understood(blocks, warned).facts = facts /\ Understood(blocks, warned).fields = n
  BY DEF Understood, facts, every
<1> QED
  BY <1>10, <1>11, <1>12, <1>13, <1>14 DEF Represents, labels, stated

LEMMA FirstOf ==
  ASSUME NEW S, NEW s \in Seq(S), NEW n \in Nat
  PROVE  First(s, n) \in Seq(S)
<1> DEFINE m == IF n < Len(s) THEN n ELSE Len(s)
<1>1. m \in 0..Len(s)
  OBVIOUS
<1>2. First(s, n) = SubSeq(s, 1, m)
  BY DEF First
<1> HIDE DEF m
<1> QED
  BY <1>1, <1>2

\* The facts of a run are a sequence, of facts of fields of the table.
TableFact == {fact \in UNION {StatedBy(b) : b \in UNION {ToSet(TextOf[a]) : a \in Artifact}} :
                fact.field \in Nat}

LEMMA UnderstoodFacts ==
  ASSUME NEW a \in Artifact, NEW warned
  PROVE  Understood(TextOf[a], warned).facts \in Seq(TableFact)
<1> DEFINE blocks == TextOf[a]
<1>1. /\ blocks \in Seq(ToSet(blocks))
      /\ \A b \in DOMAIN blocks : DOMAIN blocks[b].labels \subseteq ToSet(Labels)
  BY TextsRead
<1>2. FactsIn(blocks) \in Seq(FactsStated(blocks))
  <2> HIDE DEF blocks
  <2> QED
    BY <1>1, FactsInStated
<1>3. ToSet(Labels) \subseteq Nat
  BY LabelTable, ToSetSeq
<1>4. FactsStated(blocks) \subseteq TableFact
  <2> SUFFICES ASSUME NEW b \in DOMAIN blocks, NEW fact \in StatedBy(blocks[b])
               PROVE  fact \in TableFact
    BY DEF FactsStated
  <2>1. fact.field \in Nat
    BY <1>1, <1>3 DEF StatedBy
  <2>2. blocks[b] \in UNION {ToSet(TextOf[c]) : c \in Artifact}
    BY DEF ToSet
  <2> QED
    BY <2>1, <2>2 DEF TableFact
<1>5. FactsIn(blocks) \in Seq(TableFact)
  <2> HIDE DEF blocks
  <2> QED
    BY <1>2, <1>4
<1>6. First(FactsIn(blocks), MaxFields) \in Seq(TableFact)
  BY <1>5, FactBounds, FirstOf
<1> QED
  BY <1>6 DEF Understood

-----------------------------------------------------------------------------
(* Reconciliation of whatever has been stated.                             *)

\* What EffectiveRules says of one field.
RulesOf(stated, f) ==
  LET status == Reconciled(stated)
      say == {i \in DOMAIN stated : stated[i].field = f /\ Controls(stated[i].authority, f)}
      effective == {i \in DOMAIN stated : stated[i].field = f /\ status[i] = "effective"}
      outranked == {i \in say : \E j \in say :
                      Precedence[stated[j].authority] > Precedence[stated[i].authority]}
      disputed == \E i, j \in say \ outranked : stated[i].value # stated[j].value
  IN /\ Cardinality(effective) = (IF say = {} \/ disputed THEN 0 ELSE 1)
     /\ effective \cap outranked = {}
     /\ effective \subseteq say

LEMMA OneEffective ==
  ASSUME NEW n \in Nat, NEW stated, DOMAIN stated = 1..n,
         \A i \in 1..n : stated[i].field \in Nat, NEW f \in Reached(stated)
  PROVE  RulesOf(stated, f)
<1> DEFINE status == Reconciled(stated)
           say == MaySay(stated, f)
           rank == [i \in 1..n |-> Precedence[stated[i].authority]]
           effective == {i \in DOMAIN stated : stated[i].field = f /\ status[i] = "effective"}
           outranked == {i \in say : \E j \in say : rank[j] > rank[i]}
           top == Controlling(stated, f)
           disputed == \E i, j \in top : stated[i].value # stated[j].value
<1>1. f \in FieldsOf(stated) /\ f \in Nat /\ ~Unranked(stated, f)
  <2>1. f \in FieldsOf(stated) /\ f \in Nat
    BY DEF Reached, FieldsOf
  <2>2. f <= f
    BY <2>1
  <2> QED
    BY <2>1, <2>2 DEF Reached
<1>2. say \in SUBSET (1..n)
  BY DEF MaySay
<1>3. \A i \in say : rank[i] \in Nat /\ 100 - rank[i] \in Nat
  <2>1. /\ DOMAIN Precedence =
             {"cancellation_notice", "revised_primary", "formal_amendment", "formal_addendum",
              "official_questions_and_answers", "primary_solicitation", "pricing_attachment",
              "supplemental_attachment", "informational_notice", "intent_to_award",
              "award_notice", "unofficial_or_unknown"}
        /\ Precedence["cancellation_notice"] = 100 /\ Precedence["revised_primary"] = 90
        /\ Precedence["formal_amendment"] = 80 /\ Precedence["formal_addendum"] = 80
        /\ Precedence["official_questions_and_answers"] = 70
        /\ Precedence["primary_solicitation"] = 60 /\ Precedence["pricing_attachment"] = 55
        /\ Precedence["supplemental_attachment"] = 50 /\ Precedence["informational_notice"] = 30
        /\ Precedence["intent_to_award"] = 20 /\ Precedence["award_notice"] = 20
        /\ Precedence["unofficial_or_unknown"] = 10
    BY DEF Precedence
  <2>2. ASSUME NEW x \in DOMAIN Precedence
        PROVE  Precedence[x] \in Nat /\ 100 - Precedence[x] \in Nat
    BY <2>1
  <2>3. \A i \in say : stated[i].authority \in DOMAIN Precedence
    BY <1>1 DEF Unranked
  <2> QED
    BY <1>2, <2>2, <2>3
<1>4. top = say \ outranked
  <2>1. top = {i \in say : \A j \in say : rank[j] <= rank[i]}
    BY <1>2 DEF Controlling
  <2> HIDE DEF say, rank, top
  <2>2. ASSUME NEW i \in say, NEW j \in say PROVE rank[j] <= rank[i] <=> ~(rank[j] > rank[i])
    <3>1. rank[i] \in Nat /\ rank[j] \in Nat
      BY <1>3
    <3> QED
      BY <3>1
  <2> QED
    BY <2>1, <2>2
<1>5. ASSUME say # {} PROVE top # {}
  <2> DEFINE below == {100 - rank[i] : i \in say}
  <2> HIDE DEF say, rank
  <2>1. below \in SUBSET Nat /\ below # {}
    <3>1. \A i \in say : 100 - rank[i] \in Nat
      BY <1>3
    <3>2. PICK i : i \in say
      BY <1>5
    <3>3. 100 - rank[i] \in below
      BY <3>2
    <3> QED
      BY <3>1, <3>3
  <2>2. PICK d \in below : \A e \in below : d <= e
    <3> HIDE DEF below
    <3> QED
      BY <2>1, Dedupe!LeastNumber
  <2>3. PICK i \in say : d = 100 - rank[i]
    OBVIOUS
  <2>4. \A j \in say : ~(rank[j] > rank[i])
    <3> SUFFICES ASSUME NEW j \in say PROVE ~(rank[j] > rank[i])
      OBVIOUS
    <3>1. 100 - rank[j] \in below
      OBVIOUS
    <3>2. 100 - rank[i] <= 100 - rank[j]
      BY <2>2, <2>3, <3>1
    <3>3. rank[i] \in Nat /\ rank[j] \in Nat
      BY <1>3
    <3> QED
      BY <3>2, <3>3
  <2> QED
    BY <1>4, <2>4
<1>6. ASSUME NEW i \in DOMAIN stated, stated[i].field = f
      PROVE  status[i] = (IF top # {} THEN Outcome(stated, top, i) ELSE "candidate")
  BY <1>6, Zenon DEF Reconciled
<1>7. effective = {i \in top : ~disputed /\ \A j \in top : j <= i}
  <2>1. \A i \in top : i \in DOMAIN stated /\ stated[i].field = f
    BY DEF Controlling, MaySay
  <2>2. ASSUME NEW i \in DOMAIN stated, stated[i].field = f
        PROVE  status[i] = "effective" <=> i \in top /\ ~disputed /\ \A j \in top : j <= i
    <3>1. CASE top # {}
      <4>1. status[i] = Outcome(stated, top, i)
        BY <1>6, <2>2, <3>1
      <4> HIDE DEF status, top
      <4> QED
        BY <4>1 DEF Outcome
    <3>2. CASE top = {}
      <4>1. status[i] = "candidate"
        BY <1>6, <2>2, <3>2
      <4> HIDE DEF status, top
      <4> QED
        BY <3>2, <4>1
    <3> QED
      BY <3>1, <3>2
  <2> HIDE DEF status, top, disputed
  <2> QED
    BY <2>1, <2>2
<1> HIDE DEF status, top
<1>8. Cardinality(effective) = (IF say = {} \/ disputed THEN 0 ELSE 1)
  <2>1. CASE say = {} \/ disputed
    <3>1. effective = {}
      <4> HIDE DEF effective, say, rank, disputed
      <4> QED
        BY <1>4, <1>7, <2>1
    <3> HIDE DEF effective, say, disputed
    <3> QED
      BY <2>1, <3>1, FS_EmptySet
  <2>2. CASE say # {} /\ ~disputed
    <3>1. top # {} /\ top \in SUBSET (1..n)
      <4> HIDE DEF say
      <4> QED
        BY <1>2, <1>4, <1>5, <2>2
    <3>2. Dedupe!Max(top) \in top /\ \A i \in top : i <= Dedupe!Max(top)
      BY <3>1, Dedupe!Greatest
    <3> DEFINE last == Dedupe!Max(top)
    <3> HIDE DEF last
    <3>3. \A i \in top : (\A j \in top : j <= i) => i = last
      <4>1. last \in top /\ \A i \in top : i <= last
        BY <3>2 DEF last
      <4>2. \A i \in top : i \in Nat
        BY <3>1
      <4> SUFFICES ASSUME NEW i \in top, \A j \in top : j <= i PROVE i = last
        OBVIOUS
      <4>3. last <= i /\ i <= last /\ i \in Nat /\ last \in Nat
        BY <4>1, <4>2
      <4> QED
        BY <4>3
    <3>4. effective = {last}
      <4> HIDE DEF effective, say, disputed
      <4> QED
        BY <1>7, <2>2, <3>2, <3>3 DEF last
    <3>5. Cardinality({last}) = 1
      BY FS_Singleton
    <3> HIDE DEF effective, say, disputed
    <3> QED
      BY <2>2, <3>4, <3>5
  <2> QED
    BY <2>1, <2>2
<1>9. effective \cap outranked = {} /\ effective \subseteq say
  <2> HIDE DEF effective, say, rank, disputed
  <2> QED
    BY <1>4, <1>7
<1>10. RulesOf(stated, f) =
         (/\ Cardinality(effective) =
               (IF say = {} \/ (\E i, j \in say \ outranked : stated[i].value # stated[j].value)
                THEN 0 ELSE 1)
          /\ effective \cap outranked = {}
          /\ effective \subseteq say)
  <2>1. outranked = {i \in say : \E j \in say :
                       Precedence[stated[j].authority] > Precedence[stated[i].authority]}
    BY <1>2
  <2> HIDE DEF outranked
  <2> QED
    BY <2>1 DEF RulesOf, MaySay, status
<1> QED
  BY <1>4, <1>8, <1>9, <1>10

-----------------------------------------------------------------------------
(* Every state.                                                            *)

ReadInv == \A a \in Artifact : run[a] = None \/ run[a] = Understood(TextOf[a], a \in Warned)

\* What the extraction worker keeps, a list of extractions, and runs that are
\* what reading the text gives, whichever reader has committed them.
ReadingInv == Inv /\ order \in Seq(Artifact) /\ ReadInv

LEMMA SetToSeqFew ==
  /\ SetToSeq({}) = <<>>
  /\ \A a : SetToSeq({a}) = <<a>>
<1>1. SetToSeq({}) = <<>>
  <2>1. Cardinality({}) = 0
    BY FS_EmptySet
  <2> DEFINE f == [i \in 1..0 |-> i]
  <2>2. f \in [1..0 -> {}] /\ IsInjective(f)
    BY DEF IsInjective
  <2> HIDE DEF f
  <2>3. SetToSeq({}) \in [1..0 -> {}]
    BY <2>1, <2>2 DEF SetToSeq
  <2> QED
    BY <2>3
<1>2. ASSUME NEW a PROVE SetToSeq({a}) = <<a>>
  <2>1. Cardinality({a}) = 1
    BY FS_Singleton
  <2> DEFINE f == [i \in 1..1 |-> a]
  <2>2. f \in [1..1 -> {a}] /\ IsInjective(f)
    BY DEF IsInjective
  <2> HIDE DEF f
  <2>3. SetToSeq({a}) \in [1..1 -> {a}]
    BY <2>1, <2>2 DEF SetToSeq
  <2> QED
    BY <2>3
<1> QED
  BY <1>1, <1>2

\* A step of the extraction worker adds one extraction, if any.
LEMMA OneExtracted ==
  ASSUME Next
  PROVE  extracted' = extracted \/ \E a : extracted' = extracted \cup {a}
BY DEF Next, Arrive, Rediscover, Claim, Process, Refuse, Reuse, Load, Parse, Clear, Insert,
       InsertConflicts, Deadlock, Fault

LEMMA ReadingInit == IntelligenceInit => ReadingInv
<1> SUFFICES ASSUME IntelligenceInit PROVE ReadingInv
  OBVIOUS
<1>1. Inv
  BY InitTyped DEF IntelligenceInit
<1>2. order \in Seq(Artifact) /\ ReadInv
  BY DEF IntelligenceInit, ReadInv
<1> QED
  BY <1>1, <1>2 DEF ReadingInv

LEMMA ReadingNext == ReadingInv /\ [IntelligenceNext]_all => ReadingInv'
<1> SUFFICES ASSUME ReadingInv, [IntelligenceNext]_all PROVE ReadingInv'
  OBVIOUS
<1>1. CASE UNCHANGED all
  <2>1. UNCHANGED vars /\ UNCHANGED order /\ UNCHANGED run
    BY <1>1 DEF all
  <2>2. Inv'
    BY <2>1, InvInductive DEF ReadingInv
  <2> QED
    BY <2>1, <2>2 DEF ReadingInv, ReadInv
<1>2. CASE ExtractionStep
  <2>1. Inv'
    BY <1>2, InvInductive DEF ReadingInv, ExtractionStep
  <2>2. extracted' \subseteq Artifact
    BY <2>1 DEF Inv, TypeInv, TypeOK
  <2>3. SetToSeq(extracted' \ extracted) \in Seq(Artifact)
    <3>1. extracted' = extracted \/ \E a : extracted' = extracted \cup {a}
      BY <1>2, OneExtracted DEF ExtractionStep
    <3> DEFINE D == extracted' \ extracted
    <3>2. CASE D = {}
      <4> HIDE DEF D
      <4>1. SetToSeq(D) = <<>>
        BY <3>2, SetToSeqFew
      <4>2. SetToSeq(D) \in Seq(Artifact)
        BY <4>1
      <4> QED
        BY <4>2 DEF D
    <3>3. CASE D # {}
      <4>1. PICK a : extracted' = extracted \cup {a}
        BY <3>1, <3>3
      <4>2. D = {a} /\ a \in Artifact
        BY <2>2, <3>3, <4>1
      <4> HIDE DEF D
      <4>3. SetToSeq(D) = <<a>>
        BY <4>2, SetToSeqFew
      <4>4. SetToSeq(D) \in Seq(Artifact)
        <5>1. a \in Artifact
          BY <4>2
        <5>2. <<a>> \in Seq(Artifact)
          BY <5>1
        <5> QED
          BY <4>3, <5>2
      <4> QED
        BY <4>4 DEF D
    <3> QED
      BY <3>2, <3>3
  <2>4. order' = order \o SetToSeq(extracted' \ extracted) /\ UNCHANGED run
    BY <1>2 DEF ExtractionStep, readerVars
  <2>5. order' \in Seq(Artifact)
    BY <2>3, <2>4 DEF ReadingInv
  <2> QED
    BY <2>1, <2>4, <2>5 DEF ReadingInv, ReadInv
<1>3. ASSUME NEW r \in Reader, Select(r) \/ ReuseRun(r) \/ ReadText(r) \/ RecordRun(r) \/ CollideRun(r)
      PROVE  ReadingInv'
  <2>1. UNCHANGED vars /\ UNCHANGED order /\ UNCHANGED run
    BY <1>3 DEF Select, ReuseRun, ReadText, RecordRun, CollideRun
  <2>2. Inv'
    BY <2>1, InvInductive DEF ReadingInv
  <2> QED
    BY <2>1, <2>2 DEF ReadingInv, ReadInv
<1>4. ASSUME NEW r \in Reader, CommitBatch(r) PROVE ReadingInv'
  <2>1. UNCHANGED vars /\ UNCHANGED order
    BY <1>4 DEF CommitBatch
  <2>2. Inv'
    BY <2>1, InvInductive DEF ReadingInv
  <2>3. ReadInv'
    BY <1>4 DEF CommitBatch, ReadingInv, ReadInv
  <2> QED
    BY <2>1, <2>2, <2>3 DEF ReadingInv
<1>5. ASSUME NEW r \in Reader, ReaderFault(r) PROVE ReadingInv'
  <2>1. /\ UNCHANGED <<stored, extracted, current, described, worker, order, run>>
        /\ faults' = faults + 1 /\ faults < MaxFaults
    BY <1>5 DEF ReaderFault
  <2>2. faults' \in 0..MaxFaults
    BY <2>1, ExtractionAssumption DEF ReadingInv, Inv, TypeInv, TypeOK
  <2>3. Inv'
    BY <2>1, <2>2 DEF ReadingInv, Inv, TypeInv, TypeOK, OwnDocument, LoadedGiven, ColumnsGiven,
                      Given, TextsOf, Writes, InHand
  <2> QED
    BY <2>1, <2>3 DEF ReadingInv, ReadInv
<1> QED
  BY <1>1, <1>2, <1>3, <1>4, <1>5 DEF IntelligenceNext, ReaderStep

\* Readers, and their failures, leave what the extraction workers keep.
THEOREM ReadersLeaveExtractions ==
  IntelligenceSpec => [](TypeOK /\ ColumnsGiven) /\ ReplacedNotLost
<1>1. ReadingInv => TypeOK /\ ColumnsGiven
  BY DEF ReadingInv, Inv, TypeInv
<1>2. ReadingInv /\ [IntelligenceNext]_all =>
        [\A a \in current \ current' :
           \E b \in current' \cap (extracted' \ extracted) : DocumentOf[b] = DocumentOf[a]]_vars
  <2> SUFFICES ASSUME ReadingInv, [IntelligenceNext]_all, NEW a \in current \ current'
               PROVE  \E b \in current' \cap (extracted' \ extracted) : DocumentOf[b] = DocumentOf[a]
    OBVIOUS
  <2>1. Inv
    BY DEF ReadingInv
  <2>2. CASE ExtractionStep
    BY <2>1, <2>2, StepReplaces DEF ExtractionStep
  <2>3. ASSUME ~ExtractionStep PROVE current' = current
    BY <2>3 DEF IntelligenceNext, all, vars, ReaderStep, Select, ReuseRun, ReadText, RecordRun,
                CollideRun, CommitBatch, ReaderFault
  <2> QED
    BY <2>2, <2>3
<1> QED
  BY <1>1, <1>2, ReadingInit, ReadingNext, PTL DEF IntelligenceSpec, ReplacedNotLost

\* What a committed run records of a text is what the labels of the text state:
\* the facts that DeterministicSolicitationExtractor finds are not lost between
\* readers that fail, collide or are rolled back, for any texts and limits.
THEOREM EveryTextRepresented == IntelligenceSpec => []TextRepresented
<1>1. ReadingInv => TextRepresented
  <2> SUFFICES ASSUME ReadingInv, NEW a \in Read PROVE Represents(run[a], TextOf[a])
    BY DEF TextRepresented, Represents, FactsOf
  <2>1. a \in Artifact /\ run[a] = Understood(TextOf[a], a \in Warned)
    BY DEF ReadingInv, ReadInv, Read
  <2>2. /\ TextOf[a] \in Seq(ToSet(TextOf[a]))
        /\ \A b \in DOMAIN TextOf[a] : DOMAIN TextOf[a][b].labels \subseteq ToSet(Labels)
    BY <2>1, TextsRead
  <2> QED
    BY <2>1, <2>2, UnderstoodRepresents
<1> QED
  BY <1>1, ReadingInit, ReadingNext, PTL DEF IntelligenceSpec

\* What reconcile is given is a sequence, of facts whose fields are numbers.
LEMMA StatedWell ==
  ASSUME ReadingInv, NEW words
  PROVE  /\ DOMAIN Stated(words) = 1..Len(Stated(words)) /\ Len(Stated(words)) \in Nat
         /\ \A i \in 1..Len(Stated(words)) : Stated(words)[i].field \in Nat
<1> DEFINE n == Len(order)
           All == UNION {ToSet(StatedIn(a, words)) : a \in Read}
           Part(i) == IF order[i] \in Read THEN StatedIn(order[i], words) ELSE <<>>
           parts == [i \in 1..n |-> Part(i)]
<1>1. n \in Nat /\ DOMAIN order = 1..n
  BY DEF ReadingInv
<1>2. ASSUME NEW a \in Read
      PROVE  /\ StatedIn(a, words) \in Seq(ToSet(StatedIn(a, words)))
             /\ \A s \in ToSet(StatedIn(a, words)) : s.field \in Nat
  <2>1. FactsOf(a) \in Seq(TableFact)
    <3>1. a \in Artifact /\ run[a] = Understood(TextOf[a], a \in Warned)
      BY DEF ReadingInv, ReadInv, Read
    <3> QED
      BY <3>1, UnderstoodFacts DEF FactsOf
  <2>2. \A i \in DOMAIN FactsOf(a) : FactsOf(a)[i].field \in Nat
    BY <2>1 DEF TableFact
  <2>3. DOMAIN FactsOf(a) = 1..Len(FactsOf(a)) /\ Len(FactsOf(a)) \in Nat
    BY <2>1
  <2> QED
    BY <2>2, <2>3 DEF StatedIn, ToSet
<1>3. ASSUME NEW i \in 1..n PROVE Part(i) \in Seq(All)
  <2>1. CASE order[i] \in Read
    <3>1. StatedIn(order[i], words) \in Seq(ToSet(StatedIn(order[i], words)))
      BY <1>2, <2>1
    <3>2. ToSet(StatedIn(order[i], words)) \subseteq All
      BY <2>1
    <3> HIDE DEF All
    <3> QED
      BY <2>1, <3>1, <3>2
  <2>2. CASE order[i] \notin Read
    BY <2>2
  <2> QED
    BY <2>1, <2>2
<1>4. Stated(words) = FlattenSeq(parts)
  BY <1>1 DEF Stated
<1>5. parts \in [1..n -> Seq(All)]
  BY <1>3
<1>6. Stated(words) \in Seq(All)
  <2> HIDE DEF parts, n, All
  <2> QED
    BY <1>1, <1>4, <1>5, FlattenElements
<1>7. \A s \in All : s.field \in Nat
  BY <1>2
<1> HIDE DEF All
<1> QED
  BY <1>6, <1>7

\* A field that SolicitationReconciler.reconcile gets to has exactly one
\* effective fact, of the highest authority that may say it, or none when the
\* highest dispute its value, whatever the texts, the documents' names and the
\* order in which the texts were extracted and read.
THEOREM OneEffectiveFact == IntelligenceSpec => []EffectiveRules
<1>1. ReadingInv => EffectiveRules
  <2> SUFFICES ASSUME ReadingInv, NEW words \in Descriptions, NEW f \in Reached(Stated(words))
               PROVE  RulesOf(Stated(words), f)
    BY DEF EffectiveRules, RulesOf
  <2> DEFINE stated == Stated(words)
  <2>1. /\ DOMAIN stated = 1..Len(stated) /\ Len(stated) \in Nat
        /\ \A i \in 1..Len(stated) : stated[i].field \in Nat
    BY StatedWell
  <2> HIDE DEF stated
  <2>2. f \in Reached(stated)
    BY DEF stated
  <2>3. RulesOf(stated, f)
    BY <2>1, <2>2, OneEffective
  <2> QED
    BY <2>3 DEF stated
<1> QED
  BY <1>1, ReadingInit, ReadingNext, PTL DEF IntelligenceSpec
================================================================================
