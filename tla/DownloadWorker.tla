---------------------------- MODULE DownloadWorker ----------------------------
(***************************************************************************)
(* DocumentDownloadWorker (documents/worker.py) on the retrieval queue:    *)
(* several worker processes, manifest ingestion, the clock and the queue's *)
(* maintenance calls.                                                      *)
(*                                                                         *)
(* A worker claims a batch in one transaction and then takes its jobs one  *)
(* by one.  For each it reads and validates the row, records an attempt    *)
(* and commits; fetches with no transaction open; then reads and validates *)
(* the row again, stores the body, and only then writes the row.  The      *)
(* reads take no row lock, so the read and the write of a transaction are  *)
(* two steps here and anything may happen between them (READ COMMITTED).   *)
(***************************************************************************)
EXTENDS RetrievalQueue

CONSTANTS
  Batch,          \* document_download_batch_size
  DownloadMax,    \* document_download_max_attempts
  Content,        \* bodies a server may return, told apart by their SHA-256
  NoContent,
  FailureKind,    \* kinds of DownloadFailure a fetch may raise
  RetryAfter,     \* seconds a Retry-After header may ask for
  Maintenance,    \* calls of the queue service made from outside the worker
  PromptCommit,   \* a validated transaction commits before its lease expires
  MaxTime         \* bound on the clock

ASSUME WorkerAssumption ==
  /\ Batch \in Nat \ {0}
  /\ DownloadMax \in Nat \ {0}
  /\ NoContent \notin Content
  /\ RetryAfter \subseteq Nat
  /\ Maintenance \subseteq {"recover", "renew"}
  /\ PromptCommit \in BOOLEAN
  /\ MaxTime \in Nat

VARIABLES
  eligible,  \* document is public, likely, current (the part of _eligible it decides)
  worker,    \* worker -> where its process is
  attempt,   \* document -> its rows of document_download_attempts
  artifact,  \* document -> contents with a row of document_artifacts
  content,   \* document -> content_sha256 of its manifest row
  stored     \* document -> contents whose file is in the document storage

vars == <<now, job, eligible, worker, attempt, artifact, content, stored>>

\* An attempt row belongs to the lease it was opened under; its outcome is
\* NULL ("open") until the attempt is completed.
Outcome == RetrievalState \cup {"open", "retried"}
Attempt == [token : Nat, number : Nat, outcome : Outcome]

\* The UPDATE of a job row a transaction has prepared.
Write == [state : RetrievalState, attempts : Nat, next : Int, outcome : Outcome]
Settling(state) ==
  [state |-> state, attempts |-> 0, next |-> 0, outcome |-> state]

\* A process between two jobs, with `batch` still to do.
Resting(batch) ==
  [ pc      |-> IF batch = <<>> THEN "idle" ELSE "next",
    batch   |-> batch,                 \* job ids claimed and not yet processed
    token   |-> 0,                     \* token, read from the current job's row
    content |-> NoContent,             \* what the fetch returned
    write   |-> Settling("FAILED") ]   \* no meaning before it is prepared
Idle == Resting(<<>>)

Init ==
  /\ now = 0
  /\ job = [d \in Document |-> NoJob]
  /\ eligible = [d \in Document |-> FALSE]
  /\ worker = [w \in Worker |-> Idle]
  /\ attempt = [d \in Document |-> {}]
  /\ artifact = [d \in Document |-> {}]
  /\ content = [d \in Document |-> NoContent]
  /\ stored = [d \in Document |-> {}]

------------------------------------------------------------------------------
(* Manifest ingestion, maintenance and time.                               *)

\* An upsert decides the document's eligibility anew and, when it holds and
\* the caller's queue limit permits, enqueues a job unless there is one.
Upsert(d, isEligible, enqueue) ==
  /\ eligible' = [eligible EXCEPT ![d] = isEligible]
  /\ job' = IF isEligible /\ enqueue /\ job[d].state = "ABSENT"
              THEN [job EXCEPT ![d] = Enqueued]
              ELSE job
  /\ UNCHANGED <<now, worker, attempt, artifact, content, stored>>

RecoverExpired ==
  /\ "recover" \in Maintenance
  /\ Expired # {}
  /\ job' = [d \in Document |-> IF d \in Expired THEN Recovered(job[d]) ELSE job[d]]
  /\ UNCHANGED <<now, eligible, worker, attempt, artifact, content, stored>>

Validated(w) == worker[w].pc \in {"storing", "committing"}

Current(w) == Head(worker[w].batch)

\* Bound: the clock stops at MaxTime.
Tick ==
  /\ now < MaxTime
  /\ PromptCommit =>
       \A w \in Worker : Validated(w) => job[Current(w)].lease.expires > now + 1
  /\ now' = now + 1
  /\ UNCHANGED <<job, eligible, worker, attempt, artifact, content, stored>>

------------------------------------------------------------------------------
(* The worker process.                                                     *)

\* For comparison: the end of the batch is not noticed.
FinishedNotIdle(w) == [Resting(Tail(worker[w].batch)) EXCEPT !.pc = "next"]

Finished(w) == Resting(Tail(worker[w].batch))

\* run_once: claim a batch and commit.
Claim(w) ==
  /\ worker[w].pc = "idle"
  /\ \E n \in 1..Batch : \E q \in [1..n -> Claimable] :
       /\ SelectedBy(q, Batch)
       /\ job' = [d \in Document |->
                    IF \E i \in 1..n : q[i] = d THEN Leased(job[d], w) ELSE job[d]]
       /\ worker' = [worker EXCEPT ![w] = Resting(q)]
  /\ UNCHANGED <<now, eligible, attempt, artifact, content, stored>>

MayAttempt(d) ==
  eligible[d] /\ job[d].state = "LEASED" /\ job[d].attempts < MaxAttempts

\* _process, first transaction.  The token is the one the row holds now.
ReadsOwnLease(w) ==
  worker[w].pc = "next" /\ HoldsLease(job[Current(w)], w, job[Current(w)].lease.token)

Open(w) ==
  LET d == Current(w) IN
  /\ ReadsOwnLease(w)
  /\ MayAttempt(d)
  /\ attempt' = [attempt EXCEPT ![d] = @ \cup
       {[token |-> job[d].lease.token, number |-> job[d].attempts + 1, outcome |-> "open"]}]
  /\ worker' = [worker EXCEPT ![w] = [@ EXCEPT !.pc = "fetching", !.token = job[d].lease.token]]
  /\ UNCHANGED <<now, job, eligible, artifact, content, stored>>

Reject(w) ==
  LET d == Current(w) IN
  /\ ReadsOwnLease(w)
  /\ ~MayAttempt(d)
  /\ worker' = [worker EXCEPT ![w] = [@ EXCEPT !.pc = "committing", !.token = job[d].lease.token,
                              !.write = Settling("QUARANTINED")]]
  /\ UNCHANGED <<now, job, eligible, attempt, artifact, content, stored>>

\* For comparison: the lease is not checked again after the fetch.
ReturnsUnchecked(w) == worker[w].pc = "fetching"

\* The fetch has returned or raised, and the lease is still valid.
Returns(w) ==
  worker[w].pc = "fetching" /\ HoldsLease(job[Current(w)], w, worker[w].token)

\* For comparison: the rows are written without storing the body.
FetchedUnstored(w, c) ==
  /\ Returns(w)
  /\ worker' = [worker EXCEPT ![w] = [@ EXCEPT !.pc = "committing", !.content = c,
                              !.write = Settling("DOWNLOADED")]]
  /\ UNCHANGED <<now, job, eligible, attempt, artifact, content, stored>>

Fetched(w, c) ==
  LET d == Current(w)
      known == c \in artifact[d] \/ content[d] = c
  IN
  /\ Returns(w)
  /\ worker' = [worker EXCEPT ![w] = [@ EXCEPT !.pc = "storing", !.content = c,
       !.write = Settling(IF known THEN "UNCHANGED" ELSE "DOWNLOADED")]]
  /\ UNCHANGED <<now, job, eligible, attempt, artifact, content, stored>>

NotModified(w) ==
  /\ Returns(w)
  /\ worker' = [worker EXCEPT ![w] = [@ EXCEPT !.pc = "committing", !.write = Settling("UNCHANGED")]]
  /\ UNCHANGED <<now, job, eligible, attempt, artifact, content, stored>>

\* _record_failure.  retry()'s own exhausted branch cannot be taken: WillRetry
\* excludes it.
WillRetry(j) == j.attempts + 1 < Least(MaxAttempts, DownloadMax)

FailedState(kind) ==
  IF kind \in {"LOGIN_REQUIRED", "REGISTRATION_REQUIRED", "CAPTCHA", "RESTRICTED", "NOT_FOUND"}
    THEN kind
    ELSE "QUARANTINED"

\* For comparison: a retry is not counted.
RetryingUncounted(j, delay) ==
  [state |-> "QUEUED", attempts |-> j.attempts, next |-> now + delay,
   outcome |-> "retried"]

Retrying(j, delay) ==
  [state |-> "QUEUED", attempts |-> j.attempts + 1, next |-> now + delay,
   outcome |-> "retried"]

FetchFailed(w, kind) ==
  LET j == job[Current(w)] IN
  /\ Returns(w)
  /\ \/ /\ kind = "TRANSIENT" /\ WillRetry(j)
        /\ \E delay \in {Backoff(j.attempts)} \cup {Least(r, RetryMax) : r \in RetryAfter} :
             worker' = [worker EXCEPT ![w] = [@ EXCEPT !.pc = "committing", !.write = Retrying(j, delay)]]
     \/ /\ ~(kind = "TRANSIENT" /\ WillRetry(j))
        /\ worker' = [worker EXCEPT ![w] = [@ EXCEPT !.pc = "committing",
                                    !.write = Settling(FailedState(kind))]]
  /\ UNCHANGED <<now, job, eligible, attempt, artifact, content, stored>>

\* An exception ends the work on a job: roll back and go on with the next one.
\* The row keeps its lease, an attempt already opened stays open.
Fail(w) ==
  /\ worker' = [worker EXCEPT ![w] = Finished(w)]
  /\ UNCHANGED <<now, job, eligible, attempt, artifact, content, stored>>

\* For comparison: a lease lost during the fetch is waited for.
LoseLeaseAtLoad(w) ==
  /\ worker[w].pc = "next"
  /\ ~HoldsLease(job[Current(w)], w, job[Current(w)].lease.token)
  /\ Fail(w)

\* InvalidLease: "lease_lost".
LoseLease(w) ==
  LET d == Current(w) IN
  /\ \/ worker[w].pc = "next" /\ ~HoldsLease(job[d], w, job[d].lease.token)
     \/ worker[w].pc = "fetching" /\ ~HoldsLease(job[d], w, worker[w].token)
  /\ Fail(w)

\* storage.commit: the body is durable before any row refers to it.
Store(w) ==
  /\ worker[w].pc = "storing"
  /\ stored' = [stored EXCEPT ![Current(w)] = @ \cup {worker[w].content}]
  /\ worker' = [worker EXCEPT ![w] = [@ EXCEPT !.pc = "committing"]]
  /\ UNCHANGED <<now, job, eligible, attempt, artifact, content>>

\* The UPDATE of the job row by id: the columns the transaction changed, to
\* the values it computed from the row it had read.
Written(j, u) ==
  IF u.state = "QUEUED"
    THEN [Settled(j, u.state) EXCEPT !.attempts = u.attempts, !.next = u.next]
    ELSE Settled(j, u.state)

\* uq_artifact_document_hash: the body was unknown when the row was read.
ArtifactConflict(d, c, u) == u.state = "DOWNLOADED" /\ c \in artifact[d]

Conflicting(w) ==
  /\ worker[w].pc = "committing"
  /\ ArtifactConflict(Current(w), worker[w].content, worker[w].write)

Closed(rows, token, outcome) ==
  {IF a.token = token THEN [a EXCEPT !.outcome = outcome] ELSE a : a \in rows}

Commit(w) ==
  LET d == Current(w)
      u == worker[w].write
      c == worker[w].content
  IN
  /\ worker[w].pc = "committing"
  /\ ~Conflicting(w)
  /\ job' = [job EXCEPT ![d] = Written(@, u)]
  /\ attempt' = [attempt EXCEPT ![d] = Closed(@, worker[w].token, u.outcome)]
  /\ artifact' = [artifact EXCEPT ![d] = @ \cup ({c} \ {NoContent})]
  /\ content' = [content EXCEPT ![d] = IF c = NoContent THEN @ ELSE c]
  /\ worker' = [worker EXCEPT ![w] = Finished(w)]
  /\ UNCHANGED <<now, eligible, stored>>

\* Any other exception is "failed": a protocol, storage or database error may
\* come at any time, and is all that a conflicting artifact has left.
Abort(w) == worker[w].pc # "idle" /\ Fail(w)

\* The process dies; what it had claimed is known to the database only.
Crash(w) ==
  /\ worker[w].pc # "idle"
  /\ worker' = [worker EXCEPT ![w] = Idle]
  /\ UNCHANGED <<now, job, eligible, attempt, artifact, content, stored>>

\* renew has no caller in the worker: a holder that fetches may be given one.
Renew(w) ==
  LET d == Current(w) IN
  /\ "renew" \in Maintenance
  /\ Returns(w)
  /\ job' = [job EXCEPT ![d] = Renewed(@)]
  /\ UNCHANGED <<now, eligible, worker, attempt, artifact, content, stored>>

Process(w) ==
  \/ Open(w) \/ Reject(w)
  \/ \E c \in Content : Fetched(w, c)
  \/ NotModified(w)
  \/ \E kind \in FailureKind : FetchFailed(w, kind)
  \/ LoseLease(w) \/ Store(w) \/ Commit(w)

Next ==
  \/ \E d \in Document, isEligible, enqueue \in BOOLEAN : Upsert(d, isEligible, enqueue)
  \/ RecoverExpired
  \/ Tick
  \/ \E w \in Worker : Claim(w) \/ Process(w) \/ Abort(w) \/ Crash(w) \/ Renew(w)

Spec == Init /\ [][Next]_vars

\* The scheduler keeps running workers, a process that runs makes progress, a
\* constraint raises, the maintenance call is made again and again, and time passes.
Fairness ==
  /\ \A w \in Worker : WF_vars(Claim(w)) /\ WF_vars(Process(w))
                     /\ WF_vars(Conflicting(w) /\ Abort(w))
  /\ WF_vars(RecoverExpired)
  /\ WF_vars(Tick)

FairSpec == Spec /\ Fairness

------------------------------------------------------------------------------
(* Properties.                                                             *)

WorkerState ==
  [ pc      : {"idle", "next", "fetching", "storing", "committing"},
    batch   : Seq(Document),
    token   : Nat,
    content : Content \cup {NoContent},
    write   : Write ]

\* Every variable has its type, and a process has a current job exactly while
\* it is not idle: `for job_id in job_ids` of run_once.
TypeOK ==
  /\ now \in Nat
  /\ job \in [Document -> Job]
  /\ eligible \in [Document -> BOOLEAN]
  /\ worker \in [Worker -> WorkerState]
  /\ \A w \in Worker : worker[w].pc = "idle" <=> worker[w].batch = <<>>
  /\ attempt \in [Document -> SUBSET Attempt]
  /\ artifact \in [Document -> SUBSET Content]
  /\ content \in [Document -> Content \cup {NoContent}]
  /\ stored \in [Document -> SUBSET Content]

\* Between validating a lease and committing under it a worker still holds
\* it: nobody has recovered, re-leased, acknowledged or settled the job
\* meanwhile.  The second transaction of _process, and _record_failure.
HolderCommits ==
  \A w \in Worker : Validated(w) =>
    LET j == job[Current(w)]
    IN  j.state = "LEASED" /\ j.lease.owner = w /\ j.lease.token = worker[w].token

\* A row never refers to a body that is not in the storage, whatever dies
\* between storing and committing, and a job is DOWNLOADED only with a body.
FileBeforeRow ==
  \A d \in Document :
    /\ artifact[d] \subseteq stored[d]
    /\ content[d] \in artifact[d] \cup {NoContent}
    /\ job[d].state = "DOWNLOADED" => content[d] # NoContent

\* attempt_count is the number of attempts that ended in a scheduled retry,
\* none lost and none counted twice, and stays below both configured limits.
RetriesCounted ==
  \A d \in Document :
    /\ job[d].attempts = Cardinality({a \in attempt[d] : a.outcome = "retried"})
    /\ job[d].attempts < Least(MaxAttempts, DownloadMax)

\* The audit trail and the job row tell the same story: an attempt recorded
\* with a final outcome is the one that settled the job, and so the only one.
AuditAgrees ==
  \A d \in Document :
    /\ \A a \in attempt[d] : a.outcome \in SettledStates => job[d].state = a.outcome
    /\ \A a, b \in attempt[d] : {a.outcome, b.outcome} \subseteq SettledStates => a = b

\* An attempt is completed only while its own lease is the job's present one:
\* the owner/token check of complete, terminal and _record_failure.
NoStaleAcknowledgement ==
  [][\A d \in Document : \A a \in attempt[d] :
       a.outcome = "open" /\ a \notin attempt'[d] => job[d].lease.token = a.token]_vars

Phase(d) ==
  CASE job[d].state = "ABSENT" -> "absent"
    [] job[d].state = "QUEUED" -> "queued"
    [] job[d].state = "LEASED" -> "leased"
    [] OTHER                   -> "settled"

Lifecycle ==
  INSTANCE JobLifecycle
  WITH phase   <- [d \in Document |-> Phase(d)],
       lease   <- [d \in Document |-> job[d].grants],
       retries <- [d \in Document |-> job[d].attempts],
       acked   <- [d \in Document |->
                     {a.token : a \in {b \in attempt[d] : b.outcome # "open"}}]

\* The queue keeps the promises of JobLifecycle: claim grants, recovery
\* lapses, and a worker's transaction retries or settles under its lease.
LifecycleSpec == Lifecycle!Spec

\* Every change of a job's state is a move, or two moves through DOWNLOADING,
\* that the state machine of document_state.py permits; this covers the
\* assignments that do not call `transition`.
PermittedMoves ==
  [][\A d \in Document :
       LET s == job[d].state
           t == job'[d].state
       IN  \/ s = t \/ s = "ABSENT" \/ MayMove(s, t)
           \/ MayMove(s, "DOWNLOADING") /\ MayMove("DOWNLOADING", t)]_vars

LeaseOver(d) == job[d].state = "LEASED" /\ job[d].lease.expires <= now

\* A lease that has run out does not keep its job for ever: the job returns to
\* the queue (or its holder settles it after all).
ExpiredLeaseReturns == \A d \in Document : LeaseOver(d) ~> ~LeaseOver(d)

\* A job that is due is claimed in the end although more urgent ones fill the
\* batches, arrive late and come back after every failure, provided leases are
\* not recovered for ever: claim serves strictly by priority, and an urgent job
\* whose worker dies each time and which is recovered each time, or urgent jobs
\* without end, do keep the others waiting.
DueJobClaimed ==
  <>[][~RecoverExpired]_vars =>
    \A d \in Document :
      job[d].state = "QUEUED" /\ job[d].next <= now ~> job[d].state # "QUEUED"

\* A worker gets through its batch: no order of lost leases, failures and
\* retries keeps it busy for ever.
BatchEnds ==
  \A w \in Worker : worker[w].pc # "idle" ~> worker[w].pc = "idle"
==============================================================================
