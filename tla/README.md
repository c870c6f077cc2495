# Formal models of the SLED aggregator

The SLED aggregator collects public solicitations of state and local governments, keeps a manifest of their documents, downloads the public ones, extracts text and structured facts from them and serves the result read-only. This directory holds TLA+ models of its core, the TLC configurations that check them and proofs checked by TLAPS. Paths below are relative to `src/` unless they start with another directory; `S/` stands for `src/sled_aggregator/`.

## 1. The system

```
 connectors --RawOpportunity--> OpportunityService --> opportunities (commits)
                                       |
                                       v   (same session, caller commits)
                        DocumentOrchestrationService.ingest
                                       |
                                       v
   DocumentManifestService.upsert --> solicitation_documents
                       .enqueue --> document_retrieval_jobs <--> DocumentQueueService
                                                                       ^
                                                                       | claim, settle, retry
   server <--HTTP-- PublicDocumentFetcher <-- DocumentDownloadWorker (n processes)
                                                   |            |
                                                   v            v
                                      LocalDocumentStorage   document_artifacts, attempts
                                                   |            |
                                                   v            v
                            extraction_worker --> document_extractions, blocks, tables
                                                   |
                                                   v
                            intelligence_worker --> runs, facts, evidence --> export, API
```

All state is in PostgreSQL (READ COMMITTED, one SQLAlchemy session per unit of work) and in a directory of files. Nothing runs in the background: every worker is a command that handles one bounded batch and exits, and an external scheduler repeats it (`docs/architecture.md`).

### Inventory

| Component (code) | State it keeps | Operations | What must hold | Model |
|---|---|---|---|---|
| Connectors (`S/connectors/*.py`, 21 classes) | failure counter, last failure, access state, guest session; of a run: rows held, pages seen | discover, health_check, details, document_candidates | a run ends, stays within its bounds, yields nothing twice, finds all a portal shows; a failure is not an empty portal; an unavailable portal is left alone; gated documents are offered as such | `ConnectorRun`, `ConnectorDiscovery` and a module per class or group of classes; `ConnectorDocuments`; `OpportunityIdentity` |
| Opportunity service and repository (`S/services/opportunity_service.py`, `normalizer.py`, `S/db/repositories.py`) | `opportunities` | ingest, upsert | a notice that is shown is kept, with its documents, under an identity of its own | `OpportunityIngestion` |
| Document orchestration (`S/services/document_orchestration.py`) | none of its own | ingest, candidates_from_payload | limits, de-duplication, nothing offered is lost | `DocumentIngestion`, `ConnectorDocuments` |
| Document classifier, URLs (`S/services/document_classifier.py`, `document_urls.py`) | none | classify, canonicalize | which candidates are retrieved | partly, in `ConnectorDocuments` |
| Document manifest (`S/services/document_manifest.py`, `DocumentManifestService`) | `solicitation_documents` | upsert, enqueue | one row per identity, the newest version is current and stays so, never none; newer supersedes older | `DocumentManifest` |
| Retrieval state machine (`S/services/document_state.py`) | none | `transition` | only permitted moves of a job's state | `RetrievalStates` |
| Retrieval queue (`DocumentQueueService`) | `document_retrieval_jobs` | claim, recover_expired, validate_lease, complete, renew, terminal, retry | one holder at a time, only the holder acknowledges, nothing is stranded, retries counted | `RetrievalQueue`, `JobLifecycle` |
| Download worker (`S/documents/worker.py`) | batch in memory; attempts, artifacts, manifest columns | run_once, _process, _record_failure | fencing, audit trail agrees with jobs, rows refer to stored bodies | `DownloadWorker` |
| Fetcher, policy, validation (`S/documents/fetcher.py`, `policy.py`, `validation.py`) | temporary files | fetch | redirects end and every hop is checked, each failure has its kind, temporary files are removed | `PublicFetch`, `DocumentRetrieval` |
| Document storage (`S/documents/storage.py`) | files under their SHA-256, staging files | commit | a visible file is complete; commit is idempotent | `ArtifactStorage`, `ArtifactStore` |
| Text extraction (`S/documents/extraction_service.py`, `extraction_worker.py`) | `document_extractions`, three manifest columns | run_once, extract | a document with a text always has a current extraction, its columns are its own, failures do not hold up others | `ExtractionWorker` |
| Structured intelligence (`S/documents/intelligence*.py`) | runs, facts, evidence | run_once, extract, reconcile, export | each text is understood, what it states is represented, authority decides | `IntelligenceWorker`, `SolicitationFacts`; the export is not modelled |
| Parsers (`S/documents/parsers.py`, `normalization.py`, `ocr.py`) | none | parse | bounded work; deterministic | an outcome per artifact |
| Validation harness (`S/validation/`) | none that outlives a call | run by hand | a report | not modelled |
| Coverage registry (`S/coverage/`) | JSON files | reports | consistency of reports | not modelled: batch reports over static data |
| API (`S/api`, `S/main.py`) | none | GET routes | bounded pages | not modelled: read-only |

**Hard behaviours.** Several processes run every worker at once and meet only in the database. Transactions are READ COMMITTED and, except for two batch selections with `FOR UPDATE SKIP LOCKED`, read without locks; a decision is taken on objects of a session that are not read again. Leases expire by the clock while a worker downloads, computes and stores. A failure may roll one item back, lose a lease, or end the process with a batch in memory. Portals and servers answer as they like, and each of the twenty-one connectors walks its listing with a loop of its own. The hazards are listed with their lines in `PROJECT.json`.

## 2. The modules

| Module | Role |
|---|---|
| `RetrievalStates` | the transition table |
| `RetrievalQueue` | a job row, the operations on one row, which rows `claim` and `recover_expired` select |
| `JobLifecycle` | abstract specification: what the queue promises a document |
| `DownloadWorker` | worker processes, upserts, clock and maintenance around the queue |
| `DocumentManifest` | a manifest row: identity, versions, what an upsert makes of a row and its siblings |
| `DocumentIngestion` | collectors that ingest candidate lists, each in one transaction |
| `OpportunityIdentity` | the identity each connector family gives a notice, and the canonical key |
| `OpportunityIngestion` | `OpportunityService.ingest` in its two transactions, composed with `DocumentIngestion` |
| `ExtractionWorker` | workers that extract artifacts in batches |
| `SolicitationFacts` | what is read from a text, and the reconciliation of several, as operators |
| `IntelligenceWorker` | readers of current extractions, composed with `ExtractionWorker` |
| `ConnectorRun` | a run of `discover()` as a record, and the moves every class is built from |
| `BoundedListing`, `CollectedListing`, `YieldingListing` | the three patterns that several classes share |
| `BoundedConnectors` | BidNet, Public Purchase, PlanetBids, Maryland eMMA, Georgia GPR, DemandStar |
| `CollectedConnectors` | Bonfire, IonWave, Jaggaer |
| `YieldingConnectors` | PeopleSoft, Infotech, Periscope |
| `WebProcureConnector`, `StateConnectors` (eVA, Texas, RIVIP, Pennsylvania), `OracleConnector`, `TylerConnector`, `CgiConnector`, `OpenGovConnector` | the other classes |
| `ConnectorDiscovery` | one connector, its portal, its clock and its runs |
| `ConnectorDocuments` | from the links of a page to the candidates, the manifest and what is eligible |
| `PublicFetch` | the policy on a url, the redirect rules, the verdict on an answer, as operators |
| `ArtifactStorage`, `ArtifactStore` | the storage in its steps, and what it promises |
| `DocumentRetrieval` | fetches and commits of several processes, composed of the three above |
| `...Proofs` | theorems: `DocumentRetrievalProofs` also about `ArtifactStorage`, `IntelligenceWorkerProofs` also about `ExtractionWorker`, `ConnectorDiscoveryProofs`, `ListingWalkProofs` and `CollectedProofs` about `ConnectorDiscovery` and the classes of connectors, the others about the module they are named for |
| `FoldInduction` | what the proofs know of `FoldLeft` and `FlattenSeq`: induction over the sequence, for one operator per instance |
| `MC...` | values of the constants for TLC |

### 2.1 `DownloadWorker`

State: `job[d]` is the row of `document_retrieval_jobs` of document `d` (state, attempts, next attempt, lease; `grants` counts the leases given and names the lease: it stands for the fresh UUID token), `attempt[d]` the rows of `document_download_attempts`, `artifact[d]` and `content[d]` the artifact rows and `content_sha256`, `stored[d]` the files, `eligible[d]` the part of `_eligible` that the manifest decides, `worker[w]` a process.

A worker process is at one of these places:

| `pc` | in `worker.py` | actions that leave it |
|---|---|---|
| `idle` | between runs | `Claim` (:58-66) |
| `next` | before the first transaction of `_process` | `Open` (:79-111), `Reject` (:88-93), `LoseLease` |
| `fetching` | in `fetcher.fetch` (:113) | `Fetched`, `NotModified`, `FetchFailed` (`_record_failure`), `LoseLease` |
| `storing` | after `validate_lease` (:127), before `storage.commit` (:155) | `Store` |
| `committing` | everything read and computed, UPDATE not yet sent | `Commit` |

`Abort` (any exception, :73) and `Crash` may happen at every place but `idle`. When another worker has committed the same body first, `uq_artifact_document_hash` leaves `Abort` as the only way out of `committing` (`Conflicting`). The second transaction reads the job row without a lock and writes it by its primary key. What it computes from the read is kept in `worker[w].write`, and what it writes replaces the row's columns whatever they are by then: the model does not assume that the row is still the one that was read.

Two parameters say which environment is meant. `Maintenance` is the set of queue operations that somebody calls from outside: nothing in the repository calls `recover_expired` or `renew`, so it is empty as shipped. `PromptCommit` says that a transaction that has validated its lease commits before the lease expires; the code does not enforce it.

`JobLifecycle` is the abstract specification: a document's job is absent, queued, leased under the n-th lease or settled; a lease lapses or is acknowledged once; retries are counted by acknowledgements. `DownloadWorker` implements it under a refinement mapping of the row to a phase, the number of grants and the acknowledged tokens (property `LifecycleSpec`).

### 2.2 `DocumentManifest` and `DocumentIngestion`

State: `manifest` and `jobs` are the committed rows, `tx[p]` the session and transaction of a collector: the list it ingests, the objects it has loaded (`view`), the rows it has flushed (`wrote`, uncommitted and locked), the jobs it has inserted and its counters. `Lookup` is the first SELECT of `upsert`; `Write` is the flush of the row and the SELECT of its siblings, which sees its own rows and the committed ones only; `Place` is the loop over the siblings, its flush, `enqueue` and the count of jobs; `Commit` belongs to the caller. An UPDATE carries the columns that changed in the session since they were loaded (`Flushed`), so a stale object overwrites only what it changes. A row somebody else has written makes the writer wait (`Locked`), an identity somebody else has committed makes the insert fail (`InsertConflicts`), and everything may fail at any time (`Rollback`), which is also what the database does to end a deadlock.

The columns copied from a candidate are one value (`found`): nothing tells them apart. Candidates refused before the upsert (another opportunity, a category that is not allowed, an invalid value) have no effect on the rows and count as not offered; the list is already cut to `document_max_per_opportunity`. Merging the steps of `Place` is sound because the document's own row is locked from `Write` on and the siblings to be superseded are free when it fires.

That a document is eligible is read from the session's object: after an UPDATE by another collector a job may be inserted for a row that is no longer eligible in the table. It does no harm, because the worker asks the row again before it fetches (`Reject`), and `QueuedWhileCurrent` says nothing of it.

### 2.3 `ExtractionWorker`

State: `stored` artifact rows, `extracted` those with an extraction row, `current` those whose extraction is current, `described[d]` the columns of document `d` that an extraction sets (`extracted_text_available`, here `"text"`, and two states), `worker[w]` a run: its batch, the artifact rows it has locked, the document's columns as its session loaded them, the extraction rows its UPDATE has picked or written. `Claim` locks the batch; the first commit or rollback of the run ends the transaction and releases the whole batch (`Resting(Tail(batch))`), while the run goes on. `Load` reads the document (and finds no extraction of the artifact), `Parse` is everything up to the start of the UPDATE of old extractions, `Clear` its end after it waited for rows that others had written, and which it then checks again; `Insert` is the insert, the document's columns and the commit. The columns are assigned to the object loaded by `Load`, and the flush writes those that differ from what was loaded (`Flushed`): what a concurrent worker has committed in the others stays. The insert's foreign key needs a share lock on the artifact, so it waits for a worker that has locked it. `Refuse` is an `ExtractionFailure` or any other exception that the artifact causes every time: nothing is recorded. `Fault` is one that has nothing to do with the artifact, or a crash; `MaxFaults` bounds them. `Deadlock` is the database's answer to two workers that wait for each other. `Rediscover` is what a collector's upsert does to these columns: it sets `extracted_text_available` to false (`document_manifest.py:73`).

Several artifacts of one document are reachable: a late commit as in `stale_ack` leaves two bodies of one document when the server changed it between the two fetches.

### 2.4 The connectors

`run` is one run of `discover()` as a record (`ConnectorRun`): the stage of the request that is awaited (session, form, page, detail), the attempt, the page, the rows `held` and those still in the `queue` for their detail page, the marks by which a class recognises a page it has seen, and what it has yielded. A class is a handful of operators: `XStart` is `discover` up to its first request, `XVerdict` what its request method makes of an answer (a page, another attempt, the end), `XPage` and `XDetail` the loops between two awaits, `XOpen` its circuit, `XStatus` its reading of a status text, `XAccess` and `XOffer` what it makes of a link. `ConnectorDiscovery` chooses the class by `setting.family`, keeps in `met` which gates and outages the run in hand was shown (history), and has one action per await: `Answer` (the portal answers as it should, or with the fault of the day), `Refuse` (the open circuit), `Discover`, `HealthCheck` and `Tick`. Each request and the code up to the next one is one step: a connector is a single coroutine and shares nothing but its own counters.

A row is its identifier, the version it shows and the words of its status; markup and parsing are abstracted to whether an answer can be read (`garbled`). Random jitter is below the unit of the clock. Where `ENABLED` of the large `Answer` would be needed, the fairness is written out (`Due`).

`ConnectorDocuments` follows the links of one page through `document_candidates` (or the payload), the de-duplication of `ingest`, the classifier and the URL rules, to the documents a worker may ask for.

### 2.5 `DocumentRetrieval`, `PublicFetch`, `ArtifactStorage`

`fetch[p]` is a fetch in hand: the chain of urls requested, whether the document says it is HTML (then HTML is taken), the answer, how many chunks have been read. One action per await of `PublicDocumentFetcher.fetch`: a redirect is followed (`Follow`), an answer is classified (`Answer`), a chunk is read (`Read`), the body is complete (`Complete`) or the connection breaks (`Lose`, `Break`). `temporary` are the files of `mkstemp`, `ended[p]` how the fetches of a process have ended, in order. `commit` of the storage is in the steps of the code: an object that exists is verified (`BeginExisting`), or a staging file is copied (`BeginCopy`, `Copy`), checked (`Verify`) and put in place (`Publish`), with the `finally` that removes it and the temporary file; what comes before the `try` (the key, `mkdir`) may raise without it (`BeginFails`), and so may what the worker does between the fetch and the storage (`FailUnstored`: `worker.py:119-154`); any step may fail, a process may die between them, and a stored file may be damaged (`Decay`). `ArtifactStore` is the abstract specification: an object appears in one step, whole. The staging file carries the process id, so that processes have ids of their own is the assumption `PidsApart`.

### 2.6 `OpportunityIngestion`

`call[p]` is the part of `ingest` before the documents: `Receive` is the normalizer and the query of `upsert`, `Upsert` its commit, `UpsertFails` one of the two unique constraints (`Collides`), `Begin` hands the candidates to `DocumentIngestion`, whose actions (`Ingest`) go on in the transaction that the caller commits. `Fault` may end the process anywhere in between. A source identity is the sequence of its parts, a part its words and its spelling, which is what `casefold` and the slugs of the canonical key look at. Columns copied from a notice are one value: what two collectors with two editions of one notice leave, when their UPDATEs carry only the columns that changed, is not modelled.

### 2.7 `IntelligenceWorker` and `SolicitationFacts`

A reader selects the oldest current extractions without a lock (`Select`), goes through them in one transaction (`ReuseRun`, `ReadText`, `RecordRun`) and commits once (`CommitBatch`); a run that another reader has committed since is an `IntegrityError` that ends the process (`CollideRun`). The text of an artifact is a sequence of blocks with the labelled values, words and codes that the rules look for; `Understood` is what the service records of it, bounded by the settings, and `Reconciled` is `SolicitationReconciler.reconcile` on the facts of all runs in the order they were extracted. `order` is the order of `created_at`.

## 3. Runs

| Run | Instance | Question and answer |
|---|---|---|
| `recovery` | 1 document, 2 workers, recovery and renewal, prompt commits | the holder commits, no stale acknowledgement, only permitted moves, exact counts, audit rows agree with jobs, rows refer to stored bodies, the queue implements `JobLifecycle` |
| `progress` | 3 documents of different priority, batch 2, 1 worker, recovery; two are queued at first, the most urgent may be queued at any time (`WaitingSpec`); one has been superseded, and none changes its eligibility | expired leases return; due jobs are claimed although more urgent ones come before them, late and again after a failure; batches end |
| `stale_ack` | as `recovery`, but commits may be late | **violation**: the late commit acknowledges under another worker's lease |
| `abandoned` | as shipped (nothing recovers), with fairness | **violation**: a job whose worker failed stays LEASED for ever |
| `manifest` | 2 collectors, lists of up to 2 of 3 numbered versions, one of them restricted | the newest version is current, superseded ones are not, one job per document, the limit of jobs holds, jobs only for rows that are current in the table too |
| `collection` | every family with two portals (or agencies, or kinds) and four notices; two racing collectors; one collector with lists of up to 3 of the versions of a document, two without a number; two collectors with the unnumbered ones | every notice is at last kept for good with its documents; a document is never without a current version of the highest rank; every candidate offered has a row |
| `unidentified` | 1 collector, 2 documents without a source identifier | **violation**: the second gets no row |
| `extraction` | 2 workers, 4 artifacts (3 of one document, 1 unparseable), batch 2, 1 fault, rediscoveries | an extraction stops being current only as a new one of the document starts to be; each column of a document is of an extraction of its own; everything that parses is extracted in the end; nobody is stuck (deadlock is checked) |
| `connectors` | 23 variants of the 21 classes, 6 listings, 9 faults that happen once, twice, four times or for ever, 3 queries, 3 runs | nothing is yielded twice or beyond the limit; a portal that answers is collected whole; a failure is not an empty portal; the open circuit leaves the portal alone; every run ends |
| `retrieval` | every family with 5 pages of links; 12 redirecting and 18 other answers; 2 processes that store one body; 3 fetches of a body that changes | hops are checked; gated documents are not asked for; public ones are retrieved; temporary files go but where the code leaves them; the storage implements `ArtifactStore`; fetches end |
| `intelligence` | 1 extraction worker, 2 readers, batch 2, 4 texts of 3 documents (the fourth stored after the third), 3 ways to name the documents, 1 fault | every statement of a text is represented; the effective fact is of the highest authority that has a say; every text in a batch's reach is understood |
| `two_current` | 2 workers, 2 bodies of one document, batch 1 | **violation**: both extractions are current |

Each property has a variant of the code's model in `PROJECT.json` that breaks it under the same configuration; the variants stand beside the definitions they replace, marked "For comparison".

**Bounds.** Two processes are enough for every interleaving the properties speak of: a transaction can be disturbed between its read and its write by one other, and leases are passed from one to another. Three documents and batches of two are the least with which a batch can be full of more urgent jobs and leave one behind; three versions for an older and a newer sibling of the same row, three bodies for a body that comes while two others are extracted. The clock stops at `MaxTime`, chosen so that a lease granted after a retry, or a circuit, can still run out; attempts are limited by the code itself. `MaxOffered`, `QueueLimit`, `BatchSize`, `Batch`, `ReaderBatch`, `PageSize`, `MaxPages`, `MaxDetails`, `MaxResults`, `MaxRetries`, `Threshold`, `Cooldown`, `MaxRedirects`, `MaxChunks`, `MaxDocuments` and `MaxFields` are settings of the code; their values here are the smallest at which a list repeats, a page is full and is followed by another, a limit is reached and a batch is longer than one. `MaxFaults` bounds the failures, `MaxRuns` the runs of a connector (three: two that open a circuit and one that meets it), `Lasting` stands for a fault that never ends.

**Deadlock.** Runs of `DownloadWorker`, `connectors` and `retrieval` set `CHECK_DEADLOCK FALSE`: the clock, the runs and the fetches of a behaviour are bounded, and every job may be settled. The others are checked for deadlock: a collector can always begin again, and an unparseable artifact always comes back.

**Fairness.** The documents leave the repetition of workers to an external scheduler, so `Claim` and a process's own steps are weakly fair; so are the clock and, in `progress`, `recover_expired`, which an operator must call for that run to describe a deployment. In `extraction` the two statements that wait for a lock are strongly fair: PostgreSQL queues the waiters of a row and grants it to them in turn. Under weak fairness alone TLC finds two workers that end each other's transactions by deadlock for ever. In `connectors` a request that is due is answered, lost or refused, and time passes; in `retrieval` a process goes on with its fetch (every await has a timeout); in `collection` a collector that has begun goes on, and a notice that a portal goes on showing is found again and again, which is strong fairness of finding it; in `intelligence` a reader that can go on does. Crashes, aborts, faults and renewals are not fair, and nothing is assumed of what a portal or a server answers.

## 4. Findings

1. `stale_ack`: the lease check and the write are not one step, and the UPDATE names the row by id alone. The fence holds (and is proved) only where a validated transaction commits before its lease expires.
2. `abandoned`: `recover_expired` has no caller.
3. `unidentified`: de-duplication ignores the URL; documents without a source identifier collapse into one.
4. `two_current`: ending the old extractions and inserting the new one are two statements, and nothing locks the document; two workers leave two current extractions (against `README.md:178`).

Limits of the properties, each seen with TLC and named where the property is stated:

- That one version of a document alone is current (`docs/architecture.md:123`) is not the code's. Versions that have a label but no number all rank 0 (`document_manifest.py:81`): finding the first one again makes it current beside the newer. Two collectors that insert two versions at once leave both current, each being superseded by no one the other sees. So `NewestCurrent` (numbered versions, any collectors) and `ANewestCurrent` (equal and missing numbers, any collectors) say that the newest is among the current ones, and that there is one.
- `ANewestCurrent` exempts a version found now under a number, now under a label that spells the same (the identity takes the number where there is one and the label otherwise, `document_manifest.py:38-39`): it is one row, whose rank falls back to 0 after it has kept others from being current, and none is. In `collection` two collectors offer unnumbered versions one to a transaction; two collectors with several versions each are in `manifest`.
- `DueJobClaimed` is stated of behaviours in which leases are not recovered for ever. An urgent document that kills its worker every time returns with every recovery, and nothing counts it; as many of them as a batch holds keep all others waiting, as do urgent documents without end.
- That the columns of a document are all those of one extraction is not the code's: of two workers on one document each may write some. `ColumnsGiven` says that each is one of the document's own. A rediscovery resets `extracted_text_available` and nothing sets it again.
- `TemporaryRemoved` names the ends that leave a temporary file: a crash, a lease lost after the fetch, an error between the return of the fetch and the `try` of `commit`, a destination that fails its check.
- `reconcile` calls `ReconciliationPolicy.controls` (`intelligence.py:420`) with its default, that a text modifies the solicitation (`intelligence.py:399`). So an answer overrules the solicitation also where it only repeats a value, which `README.md:785` and `docs/architecture.md:580` say it should not. The model has the call as it is, and no property is stated of it: nothing the reconciler is given tells the two kinds of answers apart. A field that a bid form states raises `KeyError` (`intelligence.py:424`); `EffectiveRules` is about the fields reached before.
- `EveryTextExtracted` needs a batch larger than the number of artifacts whose extraction raises: they leave no row and come first in every later batch (`extraction_worker.py:28`). In the same way the intelligence worker never gets beyond the oldest batch of current extractions.
- `EveryNoticeKept` exempts notices of one portal that differ in case or punctuation only (the canonical key of the second is taken), and WebProcure and Periscope, whose identities do not name the portal.
- `CollectedAll` holds of listings a class can tell the pages of (`Readable`): every page but the last is full and unlike those before it. BidBuy measures a page after it has dropped the unusable rows, so there a page with an unusable row is taken for the last. Oracle moves by whole pages though it asks for as many rows as are missing, and DemandStar's interface counts rows: the property is about listings that show each record once there, without unusable rows for Oracle. A third page of RIVIP is always reported as a pagination cycle (`rhode_island_rivip.py:237`).
- `NoFalseEmpty` exempts the classes that drop a row when its detail request meets a gate (PeopleSoft, Infotech, Periscope, Pennsylvania, CGI), and captchas where a class does not look for them (PlanetBids, DemandStar, Tyler).
- `LeftAlone` exempts RIVIP, which has no circuit, and timeouts of Tyler, which do not count.
- `OfferedKept` exempts the families whose documents stay in the payload (CGI, Jaggaer) or carry no identifier (RIVIP, Pennsylvania, live IonWave), Oracle beyond its first page of attachments, OpenGov (all need a login) and Tyler pages with one foreign link.
- The category is part of a version's group but not of the identity of a row, so a document found under another category moves to that group and the version it had superseded stays superseded.

## 5. Proofs

All theorems hold for any finite or infinite sets and any values of the constants that satisfy the named assumptions of the modules.

| Theorem | States | Argument |
|---|---|---|
| `TypeCorrect` | `Spec => []TypeOK` | inductive with `StoreInv` |
| `StoredBeforeReferred` | `Spec => []FileBeforeRow` | `StorageInv`: a process that is about to commit a body carries one that is stored |
| `FencedCommits` | `Spec => []HolderCommits` if commits are prompt or nothing recovers leases | `FenceInv`: the lease columns of a row are set exactly while it is LEASED; a validated worker's job is leased to it under its token and, where leases are recovered, not yet expired. Neither `Claim` (QUEUED rows only), nor `RecoverExpired` (expired ones only), nor another worker's commit (its token would have to be the same) can take it away |
| `NoStaleAcknowledgements` | `Spec => NoStaleAcknowledgement`, same assumption | from `FenceInv`: only `Commit` closes an attempt, and its worker holds the lease |
| `RetriesExact` | `Spec => []RetriesCounted`, same assumption | with `LedgerInv`, below |
| `AuditTrailAgrees` | `Spec => []AuditAgrees`, same assumption | with `LedgerInv`: an attempt with a final outcome was closed together with the row, which nothing moves again |
| `MovesPermitted` | `Spec => PermittedMoves`, same assumption | what a worker is about to write is settled, or a retry of a job that is leased to it (`Proper`); every move of a row is one of six (`Moves`), and the table permits each |
| `QueueImplementsLifecycle` | `Spec => LifecycleSpec`, same assumption | each of the six moves maps to a step of `JobLifecycle` or a stutter; opening an attempt is a stutter |
| `RetryNeverExhausted` | `retry` is never called for an exhausted job | its caller's condition is the stronger one |
| `ExtractionTypeCorrect` | `Spec => []TypeOK` | with the invariant below |
| `ColumnsOfOwnTexts` | `Spec => []ColumnsGiven` | `Inv` with `OwnDocument` (a worker has picked extractions of the document in hand only) and `LoadedGiven` (what a session has loaded was, and stays, given by the document's extractions or new): the flush writes a column of the new extraction or keeps a given one. A column that equals the stale value keeps what another worker set, which is given too |
| `ExtractionsReplaced` | `Spec => ReplacedNotLost` | `Inv`: only `Insert` ends a current extraction, of the rows its UPDATE has picked, and those are of the document it inserts for |
| `PublishesWhole` | `StorageSpec => []ObjectsWhole` | `StorageInv` with `CheckedCopies`: a copy that has been checked is still what was checked when it is put in place, because processes have ids of their own (`PidsApart`) and so staging files of their own |
| `StorageImplementsStore` | `StorageSpec => StoreSpec` | every step of a commit is a stutter of `ArtifactStore` but the one that puts the file in place |
| `RetrievalTypeCorrect` | `Spec => []RetrievalType` of `DocumentRetrieval` | `RetrievalInv`, below |
| `EveryHopChecked` | `Spec => []HopsChecked` | `RetrievalInv` with `HopsHaveHosts`: a chain in hand only has urls that the policy has let through, so the next hop is compared with a host and a scheme that are there |
| `TemporaryFilesRemoved` | `Spec => []TemporaryRemoved` | `RetrievalInv` with `FilesNumbered`: the file of a fetch in hand is the one of its own number, and numbers are not used again. It holds for every end but those that leave the file, with the errors between the fetch and the copy in the model |
| `OnlyOpenAsked` | `Spec => []GatedNeverAsked` | `AskedEligible`: what was asked for is the url of an eligible document, and whatever the page, a class's candidate that is public comes from a link that is shown openly (`CandidatesOpenly`, one lemma per class) |
| `WantedKept` | `Spec => []OfferedKept` | what a class offers of a page (`Offers`) holds each wanted link, and no rival of it under the same key (`CandidatesSought`); so the ingestion takes it, the manifest finds it retrievable and the worker finds it eligible |
| `RetrievalUsesStorage`, `RetrievalImplementsStore` | `Spec => StorageSpec`, hence `Spec => StoreSpec` | every step of worker and fetcher is a step of the storage's own specification or leaves its variables alone |
| `ReadersLeaveExtractions` | `IntelligenceSpec => [](TypeOK /\ ColumnsGiven) /\ ReplacedNotLost` | readers change neither artifacts nor extractions |
| `EveryTextRepresented` | `IntelligenceSpec => []TextRepresented` | `ReadingInv`: what a run has recorded of an artifact is what `SolicitationFacts` makes of its text; that it states each label once and loses none is an induction over the fold that collects it |
| `OneEffectiveFact` | `IntelligenceSpec => []EffectiveRules` | from `ReadingInv`, which gives the reconciler a sequence of well-formed facts, and a case analysis of its passes: the controlling facts of highest authority agree, and the first of them is marked, or they dispute |
| `RunsAreKept` | `Spec => []RunsInv` of `ConnectorDiscovery` | what each class keeps of its runs, below |
| `ConnectorTypeCorrect`, `NoneYieldedTwice`, `LimitsAreKept` | `Spec => []TypeOK`, `Spec => []YieldedOnce`, `Spec => []LimitKept` | from `RunsInv` |
| `AllIsCollected` | `Spec => []CollectedAll` | `CollectInv` with `RunsInv`: while every request has been answered, what was read of the listing is yielded, held or queued, each class in its own way, below |
| `GatesAreReported` | `Spec => []NoFalseEmpty` | `GatesInv` with `RunsInv`: as long as a run goes on, and when it is done, it has met no gate its class looks for, below |
| `CircuitKept`, `PortalLeftAlone` | `Spec => []CircuitInv`, `Spec => LeftAlone` | the failures a connector counts never fall behind the outages in a row, below |
| `IngestionTypeCorrect` | `Spec => []TypeOK` | inductive with `QueueInv`: the session is where it says and has loaded what it works on (`Orderly`) |
| `JobsNeverConflict` | `Spec => []JobsApart` | `QueueInv`: jobs belong to rows their transaction has written, and no row is written by two transactions at once (`LocksApart`) |
| `QueueLimitKept` | `Spec => []LimitKept` | `QueueInv` with `Frugal`: while a candidate is in hand the table of jobs only grows, so an insert of one's own is always counted |
| `NewestStaysCurrent` | `Spec => []NewestCurrent` if `VersionsNumbered` | `VersionInv`, below |
| `SupersededForGood` | `Spec => []SupersededNotCurrent`, same assumption | `VersionInv` |
| `QueuedCurrent` | `Spec => QueuedWhileCurrent`, same assumption | `VersionInv`: the row in hand ends current in the table exactly when it does in the session |
| `NothingOfferedLost` | `Spec => OfferedPreserved` if `Identified` | `DoneInv`: what a collector has passed of its list has a row in its transaction. A candidate is skipped for its key, and under `Identified` (every candidate has a source identifier) an equal key is an equal identity; finding `unidentified` is what happens otherwise |

`LedgerInv` is `FenceInv` with two things. `Books` says of one document's row and attempts that the token of a leased row is the number of grants, that no two attempts have the same token and none one that was not granted, that attempts of the present lease are open, and that the retried ones are counted by the row. `Working` says what a process knows: at `next` it has not opened an attempt under its lease, what it is about to write is `Proper`. `RetriesCounted` alone is not inductive, because a commit closes the attempts of a token and counts one: it needs that there is exactly one.

`VersionInv` is `QueueInv` with `Settled` for the table and `Versioned` for every session: a row that is not current has a newer sibling, committed or in the same transaction; a row that the table has revoked is revoked in every transaction that has written it; a row that a session takes for revoked is revoked in the table too; and for the row in hand between its flush and the placing of its siblings, all that would revoke it is among the siblings in hand. `NewestCurrent` alone is not inductive: the objects of a session may be as old as its first query. `VersionsNumbered` says that candidates of one identity have one category and number, and that a document has no two versions of one number. Without it the version that is found last wins (`Older` is `<=`), and a document without numbers has no newest.

`HolderCommits` is not inductive: it says nothing of a row's lease columns, so a step of another worker from an unreachable state could break it. The same holds for `FileBeforeRow` without the body in hand, and for `ColumnsGiven` without `LoadedGiven`, since a flush writes beside what the session loaded.

`RetrievalInv` is the storage's `StorageInv` with types, hops and temporary files of all fetches at once: `TemporaryRemoved` alone says nothing of the file a fetch in hand is writing, and `HopsChecked` alone does not say that the urls of the chain have hosts to compare the next one with.

`RunsInv` says of each run what its class keeps (`Keeps`). All of them keep the run within its pages, attempts and limit and, between two requests, with room for a record and a row to ask a detail page for (`Sound`). Beyond that the classes differ, in what makes their records distinct: those that yield as they read compare each row with what they have yielded (`Single`); those that gather the listing first have nothing yielded before the first detail page, and keep rows held and queued apart from each other and from the yielded ones (`Queued`; `Listed` for the classes that look at the limit only after the listing; `Fresh` where the rows of one page are completed before the next); OpenGov's records are among the identities looked at, and the head of its queue is not (`Looking`). `YieldedOnce` and `LimitKept` alone are not inductive, because a row in the queue that equals a yielded one, or a run with no room left, breaks them at the next answer. What `FoldLeft` with `KeepFirst`, `KeepLast`, `KeepNewest` and the row loops of the classes makes of a page of any length is proved by induction over the page, through `FoldInduction`. A CASE of these modules has guards that exclude each other; where the code tries conditions in turn, the definition is a chain of IF, since TLA+ leaves the choice open when several guards of a CASE hold.

`CircuitInv` relates the outages in a row to the health the connector keeps. While the cooldown of the last outage lasts (`Cooling`), no fewer failures are counted than there were outages and the last is not older (`FailuresCounted`), whichever of its answers a class counts: each attempt, each request or each run; so no look at the circuit can forget them (`CoolingOpen`). Once they open the circuit, only a class that asks before each request can have a run, at the first attempt of a request (`LeftToCool`), and that one is refused. `LeftAlone` relates two states and needs all of it: a run of a class that asks only once would go on if it could still be active when the threshold is met.

`GatesInv` is `NoFalseEmpty` for runs that go on as well. It is inductive by the way of an answer: a fault of the day that shows a gate is a page of certain words and status; each class's verdict on it is a refusal (`...Gated`, one lemma per class), by the first of its table of boundary words that the page has (`NamedFirst`); a refusal, after its retries or at once, ends the run as anything but `done`, and a page the portal answers in full brings no gate. An outage that is retried is met when the retries are spent, which is where `Met` counts it.

`CollectInv` says where a run is in the listing, as long as every request was answered as it should, the class can read the listing and the bounds leave room for all of it. `Before(pages, n)` is what the first `n` pages show, and `Upto(pages, n)` those pages, of which a run's marks are some. The classes walk the listing in five ways, which `Collects` puts together: those that yield as they read have yielded all that is before their page, or have it queued (`Streams`, and for BidBuy `Within`: nothing else, which is how it tells its last page); those that gather first hold all that is before their page and, once they ask row by row, have all but the misses yielded or queued (`Gathers`); OpenGov has what it looked at yielded (`Completes`); Oracle's records are the ids of the rows before its offset (`Windows`); and DemandStar's interface has its one search before its rows (`Searches`). `CollectedAll` alone is not inductive: it says nothing of a run that goes on. The hard steps are those that end a run: a limit is met only when all are yielded, because distinct records cannot outnumber what there is (`CountCovers`); a page that is short, empty or a repetition is not read as the last one before it is (`Reading`, `Posting` for BidBuy, from `Readable` by `PageRead` and `PagePosted`); a class that gives up after `MaxPages` has seen them all. `ListingWalkProofs` has one lemma per class and step, by induction over the rows of a page; `CollectedProofs` puts them together.

What a class offers of the links of a page is a fold for all but Pennsylvania and the classes that keep their documents in the payload. `FoldOffers` says once, for every fold whose step takes the element, skips it or finds it taken, that the result is a sequence of elements that are not to be skipped, and has each of them or one like it; a class's lemma says what it skips and what it takes for alike. `OfferedKept` asks that no other link of the page is a rival, because every class lets the first of two links to one place stand for both. `GatedNeverAsked` is about urls: a page that shows one url behind a login and openly too has it asked for, since it is open.

Induction over data is within reach where the folded operator is closed, since the induction of `FoldInduction` is stated for sets and for one operator per instance; the library's theorems with an operator for parameter stay out of reach.

The assumptions the proofs rest on are the named ones of the modules: bounds are numbers (`WorkerAssumption`, `QueueAssumption`, `ExtractionAssumption`, `FetchBounds`, `FactBounds`, `ConnectorBounds`, ...); `PidsApart`; `None`, `Nil` and the names of failures are not confused with times and answers (`NoneIsNoTime`, `NilIsNoFailure`); a body has a key (`BodiesHaveKeys`); the labels looked for are a sequence of numbers (`LabelTable`), a text is a sequence of blocks that show such labels (`TextsRead`); a listing is a sequence of sequences of a known class (`ListingsOfRows`), a query asks for a number of records (`QueriesLimited`), a page is a sequence of links of a known class (`PagesOfConnectors`), the number of documents is bounded by a number (`DocumentsBounded`), and the absence of a host is not the portal's (`NoneIsNoHost`).

Only model-checked: the liveness properties (`ExpiredLeaseReturns`, `DueJobClaimed`, `BatchEnds`, `EveryTextExtracted`, `EveryTextUnderstood`, `EveryNoticeKept`, `EveryRunEnds`, `FetchEnds`), which are out of the prover's reach; and what `collection` and `intelligence` check of the compositions beyond the theorems about their parts.

## 6. Not modelled

HTTP validators (`etag`, `last-modified`) beyond an answer 304; columns that decide nothing; markup, regular expressions and file formats, which are outcomes or words; the rewriting of query strings; the command lines; Infotech's and Periscope's document lists; `db/memory.py`, which only tests use; the registry of connectors, a dictionary filled at start-up. A job that ends QUARANTINED (or otherwise terminal) is never enqueued again, as the code has it; no property promises more. The export of facts, the parsers, the validation harness (commands run by hand, whose state does not outlive them), the coverage registry and the API are left out for the reasons in the inventory.

## 7. Plan

1. The composition of ingestion, download and extraction in one module: quarantine of a version that becomes current again.
2. Two editions of one notice under column-wise UPDATEs in `OpportunityIngestion`.
3. Proofs: the ledger of `OpportunityIngestion`.
4. The validation toolkit's budget of requests, should it become a service.
