--------------------------- MODULE ExtractionWorker ---------------------------
(***************************************************************************)
(* The extraction worker (documents/extraction_worker.py, run_once) and    *)
(* DocumentExtractionService.extract (documents/extraction_service.py).    *)
(*                                                                         *)
(* A run locks a batch of artifacts that have no extraction, and extracts  *)
(* them one by one, each with a commit or a rollback of its own; either    *)
(* ends the transaction and with it the locks of the whole batch.          *)
(*                                                                         *)
(* The database is READ COMMITTED.  An UPDATE picks its rows when it       *)
(* starts, waits for those that others have written, and then writes the   *)
(* ones that still satisfy its condition.  The session writes those columns *)
(* of the document that are not what it loaded.                            *)
(***************************************************************************)
EXTENDS Integers, Sequences, FiniteSets

CONSTANTS
  Artifact,     \* rows of document_artifacts
  Document,
  DocumentOf,   \* artifact -> its document
  RetrievedAt,  \* artifact -> when its body was retrieved
  Unparseable,  \* artifacts on which extract always raises
  Column,       \* columns of a document that extract sets: "text" and others
  Value,
  Assigned,     \* artifact -> column -> what extract sets it to
  Untold,       \* column -> its value in a new document
  Worker,       \* processes that run the worker
  BatchSize,    \* document_extraction_batch_size
  MaxFaults     \* bound on failures that have nothing to do with the artifact

ASSUME ExtractionAssumption ==
  /\ DocumentOf \in [Artifact -> Document]
  /\ RetrievedAt \in [Artifact -> Nat]
  /\ \A a, b \in Artifact : RetrievedAt[a] = RetrievedAt[b] => a = b
  /\ Unparseable \subseteq Artifact
  /\ "text" \in Column
  /\ Assigned \in [Artifact -> [Column -> Value]]
  /\ Untold \in [Column -> Value]
  /\ BatchSize \in Nat \ {0}
  /\ MaxFaults \in Nat

VARIABLES
  stored,     \* artifacts whose row is committed
  extracted,  \* artifacts with a committed row of document_extractions
  current,    \* those whose extraction has is_current
  described,  \* document -> its columns
  worker,     \* worker -> its run and transaction
  faults      \* failures so far

vars == <<stored, extracted, current, described, worker, faults>>

\* A run with `batch` still to do.  An extraction is named by its artifact.
Run(batch, held) ==
  [ pc      |-> IF batch = <<>> THEN "idle" ELSE "next",
    batch   |-> batch,
    held    |-> held,  \* artifacts locked FOR UPDATE
    loaded  |-> Untold,\* columns of the document when the session loaded it
    updated |-> {} ]   \* extractions that the UPDATE has picked or, once it is done, written

\* Between two transactions.
Resting(batch) == Run(batch, {})

Idle == Resting(<<>>)

Init ==
  /\ stored = {}
  /\ extracted = {}
  /\ current = {}
  /\ described = [d \in Document |-> Untold]
  /\ worker = [w \in Worker |-> Idle]
  /\ faults = 0

InHand(w) == Head(worker[w].batch)
Writes(w) == DocumentOf[InHand(w)]

\* Commit and rollback both end the transaction: every lock is gone.
NextArtifact(w) == [worker EXCEPT ![w] = Resting(Tail(@.batch))]

HeldByOthers(w) == UNION {worker[v].held : v \in Worker \ {w}}

\* Extractions that are no longer current in an uncommitted transaction.
Cleared(w) == IF worker[w].pc = "insert" THEN worker[w].updated ELSE {}

------------------------------------------------------------------------------

\* The download worker commits the row of an artifact; not in the order in
\* which the bodies were retrieved.
Arrive(a) ==
  /\ a \notin stored
  /\ stored' = stored \cup {a}
  /\ UNCHANGED <<extracted, current, described, worker, faults>>

\* batch is the ordered list of the first artifacts of S, BatchSize at most.
SelectedBy(batch, S) ==
  /\ \A i, k \in DOMAIN batch : i < k => RetrievedAt[batch[i]] < RetrievedAt[batch[k]]
  /\ \A a \in S : \/ \E k \in DOMAIN batch : batch[k] = a
                 \/ /\ Len(batch) = BatchSize
                    /\ \A k \in DOMAIN batch : RetrievedAt[batch[k]] < RetrievedAt[a]

Claim(w) ==
  LET free == (stored \ extracted) \ HeldByOthers(w) IN
  /\ worker[w].pc = "idle"
  /\ \E n \in 1..BatchSize : \E batch \in [1..n -> free] :
       /\ SelectedBy(batch, free)
       /\ worker' = [worker EXCEPT ![w] = Run(batch, {batch[k] : k \in 1..n})]
  /\ UNCHANGED <<stored, extracted, current, described, faults>>

\* For comparison: the exception ends the run.
RefuseEndsRun(w) ==
  /\ worker[w].pc = "next"
  /\ InHand(w) \in Unparseable
  /\ worker' = [worker EXCEPT ![w] = Idle]
  /\ UNCHANGED <<stored, extracted, current, described, faults>>

\* extract raises: an unreadable, oversized, unsupported or malformed body.
\* Nothing of it is recorded.
Refuse(w) ==
  /\ worker[w].pc = "next"
  /\ InHand(w) \in Unparseable
  /\ worker' = NextArtifact(w)
  /\ UNCHANGED <<stored, extracted, current, described, faults>>

\* The extraction exists already.
Reuse(w) ==
  /\ worker[w].pc = "next"
  /\ InHand(w) \in extracted
  /\ worker' = NextArtifact(w)
  /\ UNCHANGED <<stored, extracted, current, described, faults>>

\* The document is loaded, and there is no extraction of the artifact yet.
Load(w) ==
  /\ worker[w].pc = "next"
  /\ InHand(w) \notin Unparseable \cup extracted
  /\ worker' = [worker EXCEPT ![w] = [@ EXCEPT !.pc = "loaded", !.loaded = described[Writes(w)]]]
  /\ UNCHANGED <<stored, extracted, current, described, faults>>

SameDocument(a) == {b \in Artifact : DocumentOf[b] = DocumentOf[a]}

\* For comparison: the extractions of every document are picked.
ParseForAll(w) ==
  /\ worker[w].pc = "loaded"
  /\ worker' = [worker EXCEPT ![w] = [@ EXCEPT !.pc = "clear", !.updated = current]]
  /\ UNCHANGED <<stored, extracted, current, described, faults>>

\* The body is parsed; the UPDATE of the document's extractions starts.
Parse(w) ==
  /\ worker[w].pc = "loaded"
  /\ worker' = [worker EXCEPT ![w] =
       [@ EXCEPT !.pc = "clear", !.updated = current \cap SameDocument(InHand(w))]]
  /\ UNCHANGED <<stored, extracted, current, described, faults>>

Clear(w) ==
  /\ worker[w].pc = "clear"
  /\ \A v \in Worker \ {w} : worker[w].updated \cap Cleared(v) = {}
  /\ worker' = [worker EXCEPT ![w] =
       [@ EXCEPT !.pc = "insert", !.updated = worker[w].updated \cap current]]
  /\ UNCHANGED <<stored, extracted, current, described, faults>>

\* The insert refers to the artifact and waits for who has locked it.
MayInsert(w) == worker[w].pc = "insert" /\ InHand(w) \notin HeldByOthers(w)

\* The flush writes what is assigned and was not loaded.
Flushed(database, was, is) ==
  [c \in Column |-> IF is[c] = was[c] THEN database[c] ELSE is[c]]
Described(w) ==
  [described EXCEPT ![Writes(w)] = Flushed(@, worker[w].loaded, Assigned[InHand(w)])]

\* For comparison: the document is not told, or the new extraction is current
\* before it is there.
InsertUndescribed(w) ==
  LET a == InHand(w) IN
  /\ MayInsert(w)
  /\ a \notin extracted
  /\ extracted' = extracted \cup {a}
  /\ current' = (current \ worker[w].updated) \cup {a}
  /\ worker' = NextArtifact(w)
  /\ UNCHANGED <<stored, described, faults>>
InsertUnrecorded(w) ==
  LET a == InHand(w) IN
  /\ MayInsert(w)
  /\ a \notin extracted
  /\ current' = (current \ worker[w].updated) \cup {a}
  /\ described' = Described(w)
  /\ worker' = NextArtifact(w)
  /\ UNCHANGED <<stored, extracted, faults>>

Insert(w) ==
  LET a == InHand(w) IN
  /\ MayInsert(w)
  /\ a \notin extracted
  /\ extracted' = extracted \cup {a}
  /\ current' = (current \ worker[w].updated) \cup {a}
  /\ described' = Described(w)
  /\ worker' = NextArtifact(w)
  /\ UNCHANGED <<stored, faults>>

\* uq_extraction_identity: another worker has inserted it since.
InsertConflicts(w) ==
  /\ MayInsert(w)
  /\ InHand(w) \in extracted
  /\ worker' = NextArtifact(w)
  /\ UNCHANGED <<stored, extracted, current, described, faults>>

WaitsFor(w, v) ==
  \/ worker[w].pc = "clear" /\ worker[w].updated \cap Cleared(v) # {}
  \/ worker[w].pc = "insert" /\ InHand(w) \in worker[v].held

\* Two workers wait for each other: the database ends one transaction.
Deadlock(w) ==
  /\ \E v \in Worker \ {w} : WaitsFor(w, v) /\ WaitsFor(v, w)
  /\ worker' = NextArtifact(w)
  /\ UNCHANGED <<stored, extracted, current, described, faults>>

\* A failure that has nothing to do with the artifact: it is rolled back and
\* the run goes on, or the process dies.
Fault(w) ==
  /\ worker[w].pc # "idle"
  /\ faults < MaxFaults
  /\ faults' = faults + 1
  /\ \/ worker' = NextArtifact(w)
     \/ worker' = [worker EXCEPT ![w] = Idle]
  /\ UNCHANGED <<stored, extracted, current, described>>

\* A collector finds the document again (DocumentManifestService.upsert) and
\* resets one of the columns.
Rediscover(d) ==
  /\ described[d]["text"] # Untold["text"]
  /\ described' = [described EXCEPT ![d] = [@ EXCEPT !["text"] = Untold["text"]]]
  /\ UNCHANGED <<stored, extracted, current, worker, faults>>

Process(w) ==
  \/ Refuse(w) \/ Reuse(w) \/ Load(w) \/ Parse(w) \/ Clear(w) \/ Insert(w)
  \/ InsertConflicts(w) \/ Deadlock(w)

Next ==
  \/ \E a \in Artifact : Arrive(a)
  \/ \E d \in Document : Rediscover(d)
  \/ \E w \in Worker : Claim(w) \/ Process(w) \/ Fault(w)

Spec == Init /\ [][Next]_vars

\* A scheduler runs the worker again and again, a run goes on, and the database
\* grants a lock to who waits for it before it grants it again to others.
Scheduled ==
  Spec /\ \A w \in Worker :
    /\ WF_vars(Claim(w)) /\ WF_vars(Process(w))
    /\ SF_vars(Clear(w)) /\ SF_vars(Insert(w) \/ InsertConflicts(w))

------------------------------------------------------------------------------
(* Properties.                                                             *)

\* Every variable has its type; only what is stored is extracted, and a
\* current extraction exists.
TypeOK ==
  /\ stored \subseteq Artifact
  /\ extracted \subseteq stored
  /\ current \subseteq extracted
  /\ described \in [Document -> [Column -> Value]]
  /\ \A w \in Worker :
       /\ worker[w].pc \in {"idle", "next", "loaded", "clear", "insert"}
       /\ worker[w].batch \in Seq(Artifact)
       /\ \A k \in DOMAIN worker[w].batch : worker[w].batch[k] \in stored
       /\ worker[w].pc = "idle" <=> worker[w].batch = <<>>
       /\ worker[w].held \subseteq stored
       /\ worker[w].loaded \in [Column -> Value]
       /\ worker[w].updated \subseteq extracted
  /\ faults \in 0..MaxFaults

\* Whoever reads at any moment, and whatever fails between the UPDATE and the
\* insert: an extraction stops being current only as a new one of the same
\* document starts to be, so that a document with a text always has a current one.
ReplacedNotLost ==
  [][\A a \in current \ current' :
       \E b \in current' \cap (extracted' \ extracted) : DocumentOf[b] = DocumentOf[a]]_vars

\* Two workers on one document may leave a column of each, because neither
\* writes a column that is as it was loaded.  Still each column is what one of
\* the document's own extractions set it to, or as in a new document if it has
\* none; a rediscovery takes back that there is a text.
TextsOf(d) == {a \in extracted : DocumentOf[a] = d}
Given(d, c) == {Assigned[a][c] : a \in TextsOf(d)}
ColumnsGiven ==
  \A d \in Document, c \in Column :
    \/ described[d][c] \in Given(d, c)
    \/ described[d][c] = Untold[c] /\ (c = "text" \/ Given(d, c) = {})

\* "Older results are retained while only the newest is marked current": one
\* extraction of a document at a time is current.
OneCurrentExtraction ==
  \A a, b \in current : DocumentOf[a] = DocumentOf[b] => a = b

\* An artifact that can be extracted is extracted, although others cannot be:
\* failure is isolated to one document.
EveryTextExtracted ==
  \A a \in Artifact \ Unparseable : a \in stored ~> a \in extracted
==============================================================================
