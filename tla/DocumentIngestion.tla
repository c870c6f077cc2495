--------------------------- MODULE DocumentIngestion ---------------------------
(***************************************************************************)
(* DocumentOrchestrationService.ingest (services/document_orchestration.py) *)
(* on the manifest: collectors that persist the candidates of one          *)
(* opportunity, each list in one transaction of its own session, which its *)
(* caller commits.                                                         *)
(*                                                                         *)
(* The database is READ COMMITTED: a query sees what is committed and what *)
(* its own transaction has flushed, a row that another transaction has     *)
(* written waits for that one's end.  The session keeps the objects it has *)
(* loaded and does not read them again.                                    *)
(***************************************************************************)
EXTENDS DocumentManifest, Sequences, FiniteSets

CONSTANTS
  Collector,   \* processes that ingest
  MaxOffered,  \* document_max_per_opportunity
  QueueLimit   \* document_max_queued_per_collection - queued_in_collection

ASSUME IngestionAssumption ==
  /\ MaxOffered \in Nat \ {0}
  /\ QueueLimit \in Nat

VARIABLES
  manifest,  \* committed rows of solicitation_documents, by identity
  jobs,      \* documents with a committed row of document_retrieval_jobs
  tx         \* collector -> its session and transaction

vars == <<manifest, jobs, tx>>

NoRows == [d \in {} |-> None]

Idle ==
  [ pc      |-> "idle",
    offered |-> <<>>,     \* the candidates, cut to the limit
    at      |-> 1,        \* the candidate in hand
    created |-> FALSE,    \* upsert's `created`
    view    |-> NoRows,   \* objects of the session, as it sees them
    wrote   |-> NoRows,   \* rows it has flushed: uncommitted and locked
    siblings |-> {},      \* what the query for the siblings returned
    jobs    |-> {},       \* job rows it has inserted
    before  |-> 0,        \* job rows counted before the upsert
    counted |-> 0 ]       \* summary.retrieval_jobs_created

Init ==
  /\ manifest = NoRows
  /\ jobs = {}
  /\ tx = [p \in Collector |-> Idle]

------------------------------------------------------------------------------
(* What a transaction sees.                                                *)

\* Rows, with some of them written over or added.
With(rows, written) ==
  [d \in DOMAIN rows \cup DOMAIN written |->
     IF d \in DOMAIN written THEN written[d] ELSE rows[d]]

Rows(p) == With(manifest, tx[p].wrote)

JobRows(p) == jobs \cup tx[p].jobs

Locked(p, d) == \E q \in Collector \ {p} : d \in DOMAIN tx[q].wrote

InHand(p) == tx[p].offered[tx[p].at]

\* The object the session has of a row: the one loaded before, else the row.
Loaded(p, ids) ==
  [d \in DOMAIN tx[p].view \cup ids |->
     IF d \in DOMAIN tx[p].view THEN tx[p].view[d] ELSE Rows(p)[d]]

------------------------------------------------------------------------------
(* One candidate list.                                                     *)

Offer(p, list) ==
  /\ tx[p].pc = "idle"
  /\ tx' = [tx EXCEPT ![p] = [Idle EXCEPT !.pc = "next", !.offered = list]]
  /\ UNCHANGED <<manifest, jobs>>

\* For comparison: the versions of a document count as one candidate.
DuplicateKeyVersionless(c) == <<c.source, c.label>>

DuplicateKey(c) == <<c.source, c.label, c.number>>

Repeated(p) ==
  \E k \in 1..(tx[p].at - 1) : DuplicateKey(tx[p].offered[k]) = DuplicateKey(InHand(p))

HasNext(p) == tx[p].pc = "next" /\ tx[p].at <= Len(tx[p].offered)

Skip(p) ==
  /\ HasNext(p) /\ Repeated(p)
  /\ tx' = [tx EXCEPT ![p].at = @ + 1]
  /\ UNCHANGED <<manifest, jobs>>

\* upsert: the row of this identity, if the transaction sees one.
Lookup(p) ==
  LET d == Identity(InHand(p))
      found == d \in DOMAIN Rows(p)
  IN
  /\ HasNext(p) /\ ~Repeated(p)
  /\ tx' = [tx EXCEPT ![p] =
       [@ EXCEPT !.pc = "write", !.created = ~found, !.before = Cardinality(JobRows(p)),
                 !.view = IF found THEN Loaded(p, {d}) ELSE tx[p].view]]
  /\ UNCHANGED <<manifest, jobs>>

\* flush: insert or update the row, and load its siblings.
Write(p) ==
  LET c == InHand(p)
      d == Identity(c)
      is == IF tx[p].created THEN Inserted(c) ELSE Rediscovered(tx[p].view[d], c)
      written == IF tx[p].created THEN is ELSE Flushed(Rows(p)[d], tx[p].view[d], is)
      row == [x \in {d} |-> written]
      siblings == Siblings(With(Rows(p), row), d)
  IN
  /\ tx[p].pc = "write"
  /\ ~Locked(p, d)
  /\ tx[p].created => d \notin DOMAIN manifest
  /\ tx' = [tx EXCEPT ![p] =
       [@ EXCEPT !.pc = "place", !.wrote = With(tx[p].wrote, row), !.siblings = siblings,
                 !.view = With(Loaded(p, siblings), [x \in {d} |-> is])]]
  /\ UNCHANGED <<manifest, jobs>>

\* uq_document_identity: another collector has committed the row since.
InsertConflicts(p) ==
  /\ tx[p].pc = "write"
  /\ tx[p].created /\ Identity(InHand(p)) \in DOMAIN manifest
  /\ tx' = [tx EXCEPT ![p] = Idle]
  /\ UNCHANGED <<manifest, jobs>>

\* For comparison: the limit, or the version, is not asked for.
MayEnqueueUnlimited(p, row) == row.current /\ row.found.eligible
MayEnqueueAnyVersion(p, row) == tx[p].counted < QueueLimit /\ row.found.eligible

MayEnqueue(p, row) ==
  tx[p].counted < QueueLimit /\ row.current /\ row.found.eligible

\* For comparison: the document's job is not looked up.
EnqueuedAgain(d) == {d}

\* enqueue: at most one job of a document.
Enqueued(d) == {d} \ jobs

\* The siblings are placed and flushed, the job is inserted, the jobs counted.
Place(p) ==
  LET d == Identity(InHand(p))
      view == tx[p].view
      siblings == tx[p].siblings
      older == IF tx[p].created THEN {s \in siblings : Older(view[s], view[d])} ELSE {}
  IN
  /\ tx[p].pc = "place"
  /\ \A s \in older : ~Locked(p, s)
  /\ \E last \in IF older = {} THEN {None} ELSE older :
       LET is == [x \in older \cup {d} |->
                    IF x = d THEN Placed(view[d], {view[s] : s \in siblings}, last)
                             ELSE Superseded(view[x], d)]
           flushed == [x \in DOMAIN is |-> Flushed(Rows(p)[x], view[x], is[x])]
           own == tx[p].jobs \cup (IF MayEnqueue(p, is[d]) THEN Enqueued(d) ELSE {})
           counted == IF Cardinality(jobs \cup own) > tx[p].before
                        THEN tx[p].counted + 1 ELSE tx[p].counted
       IN tx' = [tx EXCEPT ![p] =
            [@ EXCEPT !.pc = "next", !.at = tx[p].at + 1, !.siblings = {},
                      !.wrote = With(tx[p].wrote, flushed), !.view = With(view, is),
                      !.jobs = own, !.counted = counted]]
  /\ UNCHANGED <<manifest, jobs>>

\* For comparison: the jobs are committed before the rows they belong to.
CommitJobsFirst(p) ==
  /\ tx[p].pc = "next" /\ ~HasNext(p)
  /\ jobs' = JobRows(p)
  /\ tx' = [tx EXCEPT ![p] = Idle]
  /\ UNCHANGED manifest

Commit(p) ==
  /\ tx[p].pc = "next" /\ ~HasNext(p)
  /\ manifest' = Rows(p)
  /\ jobs' = JobRows(p)
  /\ tx' = [tx EXCEPT ![p] = Idle]

\* The process dies, the connection breaks, or the database ends a deadlock.
Rollback(p) ==
  /\ tx[p].pc # "idle"
  /\ tx' = [tx EXCEPT ![p] = Idle]
  /\ UNCHANGED <<manifest, jobs>>

Next ==
  \E p \in Collector :
    \/ \E n \in 1..MaxOffered : \E list \in [1..n -> Candidate] : Offer(p, list)
    \/ Skip(p) \/ Lookup(p) \/ Write(p) \/ InsertConflicts(p) \/ Place(p)
    \/ Commit(p) \/ Rollback(p)

Spec == Init /\ [][Next]_vars

------------------------------------------------------------------------------
(* Properties.                                                             *)

IsRows(f) == DOMAIN f \subseteq Document /\ \A d \in DOMAIN f : f[d] \in Row

\* Every variable has its type; what a transaction has flushed, its session
\* has loaded.
TypeOK ==
  /\ IsRows(manifest)
  /\ jobs \subseteq DOMAIN manifest
  /\ \A p \in Collector :
       /\ tx[p].pc \in {"idle", "next", "write", "place"}
       /\ tx[p].offered \in Seq(Candidate) /\ Len(tx[p].offered) <= MaxOffered
       /\ tx[p].at \in 1..(Len(tx[p].offered) + 1)
       /\ IsRows(tx[p].view) /\ IsRows(tx[p].wrote)
       /\ DOMAIN tx[p].wrote \subseteq DOMAIN tx[p].view
       /\ tx[p].jobs \subseteq DOMAIN tx[p].wrote

Versions(d) == {d} \cup Siblings(manifest, d)

\* The newest version of a document is current, in whatever order, by however
\* many collectors at once and with whatever failures its versions are found.
NewestCurrent ==
  \A d \in DOMAIN manifest :
    (\A v \in Versions(d) : Rank(manifest[v].found) <= Rank(manifest[d].found))
      => manifest[d].current

\* A document is never left without a current version, nor with older ones only,
\* when its versions have equal numbers or none: of the versions that no other
\* one exceeds, one at least is current.  (Two that are equal may both be:
\* collectors that insert them at the same time do not see each other's.  And it
\* is not so of a version found now under a number, now under a label that spells
\* the same: it is one row, whose rank falls to 0 after it has kept others out.)
ANewestCurrent ==
  \A d \in DOMAIN manifest :
    \E v \in Versions(d) :
      /\ manifest[v].current
      /\ \A s \in Versions(d) : Rank(manifest[s].found) <= Rank(manifest[v].found)

\* A row that has been superseded stays so: no rediscovery, from however old
\* a view of the row, makes it current again.
SupersededNotCurrent ==
  \A d \in DOMAIN manifest :
    manifest[d].supersededBy # None =>
      /\ manifest[d].supersededBy \in DOMAIN manifest
      /\ ~manifest[d].current

\* The insert of a job never meets the constraint of one job per document:
\* the lock of the document's row keeps other collectors away until commit.
JobsApart ==
  \A p \in Collector :
    tx[p].jobs \cap (jobs \cup UNION {tx[q].jobs : q \in Collector \ {p}}) = {}

\* No ingestion inserts more jobs than its caller's limit leaves, although it
\* counts by the size of the table, which others grow at the same time.
LimitKept == \A p \in Collector : Cardinality(tx[p].jobs) <= QueueLimit

\* A job is inserted only for a row that is current in the database too, not
\* merely in the session that decides.  (Its eligibility is the session's: the
\* worker asks the row for it again before it fetches.)
QueuedWhileCurrent ==
  [][\A p \in Collector : \A d \in tx'[p].jobs \ tx[p].jobs : tx'[p].wrote[d].current]_vars

\* "Login, registration, payment, unavailable, and unknown candidates are
\* preserved without retrieval": after a commit every candidate offered has a
\* row of its own.
OfferedPreserved ==
  [][\A p \in Collector :
       tx[p].pc = "next" /\ tx'[p].pc = "idle" /\ manifest' # manifest =>
         \A k \in DOMAIN tx[p].offered : Identity(tx[p].offered[k]) \in DOMAIN manifest']_vars
==============================================================================
