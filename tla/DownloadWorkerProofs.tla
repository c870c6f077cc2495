------------------------- MODULE DownloadWorkerProofs -------------------------
(***************************************************************************)
(* Proofs about DownloadWorker, for all values of its constants: first its *)
(* types, its leases and its files, then its books.                        *)
(***************************************************************************)
EXTENDS DownloadWorker, FiniteSetTheorems, TLAPS

USE QueueAssumption, WorkerAssumption

LEMMA StatesAssigned ==
  {"QUEUED", "LEASED", "UNCHANGED", "DOWNLOADED", "QUARANTINED", "FAILED",
   "LOGIN_REQUIRED", "REGISTRATION_REQUIRED", "CAPTCHA", "RESTRICTED", "NOT_FOUND"}
  \subseteq RetrievalState
BY DEF RetrievalState

(* The operations on a row return a row.                                   *)

LEMMA RowOperationsTyped ==
  ASSUME now \in Nat, NEW j \in Job, NEW w \in Worker,
         NEW state \in RetrievalState
  PROVE  /\ Enqueued \in Job
         /\ Leased(j, w) \in Job
         /\ Recovered(j) \in Job
         /\ Renewed(j) \in Job
         /\ Settled(j, state) \in Job
<1>1. NoLease \in Lease
  BY DEF NoLease, Lease
<1>2. ASSUME NEW o \in Worker \cup {NoOne}, NEW t \in Nat
      PROVE  NewLease(o, t) \in Lease
  BY <1>2 DEF NewLease, Lease
<1>3. Enqueued \in Job
  BY <1>1, StatesAssigned DEF Enqueued, Job
<1>4. Leased(j, w) \in Job
  <2>1. j.grants + 1 \in Nat
    BY DEF Job
  <2>2. NewLease(w, j.grants + 1) \in Lease
    BY <2>1, <1>2
  <2> QED
    BY <2>1, <2>2, StatesAssigned DEF Leased, Job
<1>5. Recovered(j) \in Job
  BY <1>1, StatesAssigned DEF Recovered, Job
<1>6. Renewed(j) \in Job
  <2>1. j.lease.owner \in Worker \cup {NoOne} /\ j.lease.token \in Nat
    BY DEF Job, Lease
  <2> QED
    BY <2>1, <1>2 DEF Renewed, Job
<1>7. Settled(j, state) \in Job
  BY <1>1 DEF Settled, Job
<1> QED
  BY <1>3, <1>4, <1>5, <1>6, <1>7

LEMMA WritesTyped ==
  ASSUME now \in Nat, NEW j \in Job, NEW delay \in Int, NEW state \in RetrievalState,
         NEW n \in Nat, NEW kind, NEW u \in Write
  PROVE  /\ Settling(state) \in Write
         /\ Retrying(j, delay) \in Write
         /\ FailedState(kind) \in RetrievalState
         /\ Backoff(n) \in Int
         /\ Written(j, u) \in Job
<1>1. Settling(state) \in Write
  BY DEF Settling, Write, Outcome
<1>2. Retrying(j, delay) \in Write
  BY StatesAssigned DEF Retrying, Write, Outcome, Job
<1>3. FailedState(kind) \in RetrievalState
  BY StatesAssigned DEF FailedState
<1>4. Backoff(n) \in Int
  BY DEF Backoff, Least
<1>5. Written(j, u) \in Job
  <2>1. NoLease \in Lease
    BY DEF NoLease, Lease
  <2>2. Settled(j, u.state) \in Job
    BY <2>1 DEF Settled, Job, Write
  <2> QED
    BY <2>2 DEF Written, Job, Write
<1> QED
  BY <1>1, <1>2, <1>3, <1>4, <1>5

LEMMA RestingTyped ==
  ASSUME NEW q \in Seq(Document)
  PROVE  /\ Resting(q) \in WorkerState
         /\ Resting(q).batch = q
         /\ Resting(q).pc = "idle" <=> q = <<>>
         /\ Resting(q).pc \in {"idle", "next"}
<1>1. Settling("FAILED") \in Write
  BY StatesAssigned DEF Settling, Write, Outcome
<1> QED
  BY <1>1 DEF Resting, WorkerState

LEMMA CurrentTyped ==
  ASSUME TypeOK, NEW w \in Worker, worker[w].pc # "idle"
  PROVE  /\ Current(w) \in Document
         /\ Tail(worker[w].batch) \in Seq(Document)
<1>1. worker[w].batch \in Seq(Document) /\ worker[w].batch # <<>>
  BY DEF TypeOK, WorkerState
<1> QED
  BY <1>1 DEF Current

------------------------------------------------------------------------------
(* Type correctness.                                                       *)

\* A process stores a body that a fetch returned.
StoreInv == \A w \in Worker : worker[w].pc = "storing" => worker[w].content \in Content

LEMMA InitTyped == Init => TypeOK
<1> SUFFICES ASSUME Init PROVE TypeOK
  OBVIOUS
<1>1. <<>> \in Seq(Document)
  OBVIOUS
<1>2. Idle \in WorkerState /\ Idle.pc = "idle" /\ Idle.batch = <<>>
  BY <1>1, RestingTyped DEF Idle
<1>3. NoJob \in Job
  BY DEF NoJob, NoLease, Job, Lease
<1> QED
  BY <1>2, <1>3 DEF Init, TypeOK

\* What a step may change of one process.
LEMMA ProcessStepTyped ==
  ASSUME TypeOK, NEW w \in Worker, NEW p \in WorkerState,
         p.pc = "idle" <=> p.batch = <<>>,
         worker' = [worker EXCEPT ![w] = p]
  PROVE  /\ worker' \in [Worker -> WorkerState]
         /\ \A v \in Worker : worker'[v].pc = "idle" <=> worker'[v].batch = <<>>
BY DEF TypeOK

LEMMA RestingStepTyped ==
  ASSUME TypeOK, NEW w \in Worker, NEW q \in Seq(Document),
         worker' = [worker EXCEPT ![w] = Resting(q)]
  PROVE  /\ worker' \in [Worker -> WorkerState]
         /\ \A v \in Worker : worker'[v].pc = "idle" <=> worker'[v].batch = <<>>
<1> DEFINE p == Resting(q)
<1>1. p \in WorkerState /\ (p.pc = "idle" <=> p.batch = <<>>)
  BY RestingTyped
<1>2. worker' = [worker EXCEPT ![w] = p]
  OBVIOUS
<1> HIDE DEF p
<1> QED
  BY <1>1, <1>2, ProcessStepTyped

LEMMA UpsertTyped ==
  ASSUME TypeOK, NEW d \in Document, NEW e \in BOOLEAN, NEW q \in BOOLEAN,
         Upsert(d, e, q)
  PROVE  TypeOK'
<1>1. Enqueued \in Job
  BY DEF TypeOK, Enqueued, NoLease, Lease, Job, RetrievalState
<1> QED
  BY <1>1 DEF TypeOK, Upsert

LEMMA RecoverExpiredTyped ==
  ASSUME TypeOK, RecoverExpired
  PROVE  TypeOK'
<1>1. ASSUME NEW d \in Document PROVE Recovered(job[d]) \in Job
  <2>1. job[d] \in Job /\ NoLease \in Lease
    BY DEF TypeOK, NoLease, Lease
  <2> QED
    BY <2>1, StatesAssigned DEF Recovered, Job
<1> QED
  BY <1>1 DEF TypeOK, RecoverExpired

LEMMA ClaimTyped ==
  ASSUME TypeOK, NEW w \in Worker, Claim(w)
  PROVE  TypeOK'
<1>0. PICK n \in 1..Batch : \E q \in [1..n -> Claimable] :
        /\ job' = [d \in Document |->
                     IF \E i \in 1..n : q[i] = d THEN Leased(job[d], w) ELSE job[d]]
        /\ worker' = [worker EXCEPT ![w] = Resting(q)]
  BY DEF Claim
<1>1. PICK q \in [1..n -> Claimable] :
        /\ job' = [d \in Document |->
                     IF \E i \in 1..n : q[i] = d THEN Leased(job[d], w) ELSE job[d]]
        /\ worker' = [worker EXCEPT ![w] = Resting(q)]
  BY <1>0
<1>2. q \in Seq(Document)
  BY <1>1 DEF Claimable
<1>3. \A d \in Document : Leased(job[d], w) \in Job
  BY RowOperationsTyped, StatesAssigned DEF TypeOK
<1>4. job' \in [Document -> Job]
  BY <1>1, <1>3 DEF TypeOK
<1>5. /\ worker' \in [Worker -> WorkerState]
      /\ \A v \in Worker : worker'[v].pc = "idle" <=> worker'[v].batch = <<>>
  BY <1>1, <1>2, RestingStepTyped
<1> QED
  BY <1>4, <1>5 DEF TypeOK, Claim

\* A process that stays busy with its current job.
LEMMA BusyStepTyped ==
  ASSUME TypeOK, NEW w \in Worker, worker[w].pc # "idle",
         NEW p \in WorkerState, p.pc # "idle", p.batch = worker[w].batch,
         worker' = [worker EXCEPT ![w] = p]
  PROVE  /\ worker' \in [Worker -> WorkerState]
         /\ \A v \in Worker : worker'[v].pc = "idle" <=> worker'[v].batch = <<>>
BY ProcessStepTyped DEF TypeOK

LEMMA FinishStepTyped ==
  ASSUME TypeOK, NEW w \in Worker, worker[w].pc # "idle",
         worker' = [worker EXCEPT ![w] = Finished(w)]
  PROVE  /\ worker' \in [Worker -> WorkerState]
         /\ \A v \in Worker : worker'[v].pc = "idle" <=> worker'[v].batch = <<>>
BY CurrentTyped, RestingStepTyped DEF Finished

\* The row and the process a handler starts from.
LEMMA BusyTyped ==
  ASSUME TypeOK, NEW w \in Worker, worker[w].pc # "idle"
  PROVE  /\ Current(w) \in Document
         /\ job[Current(w)] \in Job
         /\ job[Current(w)].lease \in Lease
         /\ job[Current(w)].lease.token \in Nat
         /\ job[Current(w)].attempts \in Nat
         /\ worker[w] \in WorkerState
<1>1. Current(w) \in Document
  BY CurrentTyped
<1>2. job[Current(w)] \in Job /\ worker[w] \in WorkerState
  BY <1>1 DEF TypeOK
<1>3. job[Current(w)].lease \in Lease /\ job[Current(w)].attempts \in Nat
  BY <1>2 DEF Job
<1> QED
  BY <1>1, <1>2, <1>3 DEF Lease

LEMMA OpenTyped ==
  ASSUME TypeOK, NEW w \in Worker, Open(w)
  PROVE  TypeOK'
<1> DEFINE d == Current(w)
           t == job[d].lease.token
           a == [token |-> t, number |-> job[d].attempts + 1, outcome |-> "open"]
           p == [worker[w] EXCEPT !.pc = "fetching", !.token = t]
<1>1. worker[w].pc = "next"
  BY DEF Open, ReadsOwnLease
<1>2. d \in Document /\ t \in Nat /\ a \in Attempt
  BY <1>1, BusyTyped DEF Attempt, Outcome
<1>3. p \in WorkerState /\ p.pc # "idle" /\ p.batch = worker[w].batch
  BY <1>1, <1>2, BusyTyped DEF WorkerState
<1>4. /\ worker' = [worker EXCEPT ![w] = p]
      /\ attempt' = [attempt EXCEPT ![d] = @ \cup {a}]
  BY DEF Open
<1> HIDE DEF d, t, a, p
<1>5. attempt' \in [Document -> SUBSET Attempt]
  BY <1>2, <1>4 DEF TypeOK
<1>6. /\ worker' \in [Worker -> WorkerState]
      /\ \A v \in Worker : worker'[v].pc = "idle" <=> worker'[v].batch = <<>>
  BY <1>1, <1>3, <1>4, BusyStepTyped
<1> QED
  BY <1>5, <1>6 DEF TypeOK, Open

\* Reject, NotModified and FetchFailed prepare a write and nothing else.
LEMMA PrepareTyped ==
  ASSUME TypeOK, NEW w \in Worker, worker[w].pc # "idle", NEW u \in Write,
         NEW token \in Nat,
         worker' = [worker EXCEPT ![w] =
                      [@ EXCEPT !.pc = "committing", !.token = token, !.write = u]],
         UNCHANGED <<now, job, eligible, attempt, artifact, content, stored>>
  PROVE  TypeOK'
<1> DEFINE p == [worker[w] EXCEPT !.pc = "committing", !.token = token, !.write = u]
<1>1. p \in WorkerState /\ p.pc # "idle" /\ p.batch = worker[w].batch
  BY BusyTyped DEF WorkerState
<1>2. worker' = [worker EXCEPT ![w] = p]
  OBVIOUS
<1> HIDE DEF p
<1>3. /\ worker' \in [Worker -> WorkerState]
      /\ \A v \in Worker : worker'[v].pc = "idle" <=> worker'[v].batch = <<>>
  BY <1>1, <1>2, BusyStepTyped
<1> QED
  BY <1>3 DEF TypeOK

LEMMA RejectTyped ==
  ASSUME TypeOK, NEW w \in Worker, Reject(w)
  PROVE  TypeOK'
<1>1. worker[w].pc = "next"
  BY DEF Reject, ReadsOwnLease
<1>2. Settling("QUARANTINED") \in Write
  BY StatesAssigned DEF Settling, Write, Outcome
<1>3. job[Current(w)].lease.token \in Nat
  BY <1>1, BusyTyped
<1> QED
  BY <1>1, <1>2, <1>3, PrepareTyped DEF Reject

\* The token of a fetching process is the one it read when it opened the attempt.
LEMMA KeepTokenTyped ==
  ASSUME TypeOK, NEW w \in Worker, worker[w].pc # "idle", NEW u \in Write,
         worker' = [worker EXCEPT ![w] = [@ EXCEPT !.pc = "committing", !.write = u]],
         UNCHANGED <<now, job, eligible, attempt, artifact, content, stored>>
  PROVE  TypeOK'
<1> DEFINE p == [worker[w] EXCEPT !.pc = "committing", !.write = u]
<1>1. p \in WorkerState /\ p.pc # "idle" /\ p.batch = worker[w].batch
  BY BusyTyped DEF WorkerState
<1>2. worker' = [worker EXCEPT ![w] = p]
  OBVIOUS
<1> HIDE DEF p
<1>3. /\ worker' \in [Worker -> WorkerState]
      /\ \A v \in Worker : worker'[v].pc = "idle" <=> worker'[v].batch = <<>>
  BY <1>1, <1>2, BusyStepTyped
<1> QED
  BY <1>3 DEF TypeOK

LEMMA NotModifiedTyped ==
  ASSUME TypeOK, NEW w \in Worker, NotModified(w)
  PROVE  TypeOK'
<1>1. worker[w].pc = "fetching"
  BY DEF NotModified, Returns
<1>2. Settling("UNCHANGED") \in Write
  BY StatesAssigned DEF Settling, Write, Outcome
<1> QED
  BY <1>1, <1>2, KeepTokenTyped DEF NotModified

LEMMA FetchFailedTyped ==
  ASSUME TypeOK, NEW w \in Worker, NEW kind \in FailureKind, FetchFailed(w, kind)
  PROVE  TypeOK'
<1> DEFINE j == job[Current(w)]
<1>1. worker[w].pc = "fetching"
  BY DEF FetchFailed, Returns
<1>2. j \in Job /\ j.attempts \in Nat /\ now \in Nat
  BY <1>1, BusyTyped DEF TypeOK
<1>3. PICK u \in Write :
        worker' = [worker EXCEPT ![w] = [@ EXCEPT !.pc = "committing", !.write = u]]
  <2>1. CASE kind = "TRANSIENT" /\ WillRetry(j)
    <3>1. PICK delay \in {Backoff(j.attempts)} \cup {Least(r, RetryMax) : r \in RetryAfter} :
            worker' = [worker EXCEPT ![w] =
                         [@ EXCEPT !.pc = "committing", !.write = Retrying(j, delay)]]
      BY <2>1 DEF FetchFailed
    <3>2. delay \in Int
      BY <1>2 DEF Backoff, Least
    <3>3. Retrying(j, delay) \in Write
      BY <1>2, <3>2, StatesAssigned DEF Retrying, Write, Outcome
    <3> QED
      BY <3>1, <3>3
  <2>2. CASE ~(kind = "TRANSIENT" /\ WillRetry(j))
    <3>1. FailedState(kind) \in RetrievalState
      BY StatesAssigned DEF FailedState
    <3>2. Settling(FailedState(kind)) \in Write
      BY <3>1 DEF Settling, Write, Outcome
    <3> QED
      BY <2>2, <3>2 DEF FetchFailed
  <2> QED
    BY <2>1, <2>2
<1> QED
  BY <1>1, <1>3, KeepTokenTyped DEF FetchFailed

LEMMA FetchedTyped ==
  ASSUME TypeOK, NEW w \in Worker, NEW c \in Content, Fetched(w, c)
  PROVE  TypeOK'
<1>1. worker[w].pc = "fetching"
  BY DEF Fetched, Returns
<1>2. Settling("UNCHANGED") \in Write /\ Settling("DOWNLOADED") \in Write
  BY StatesAssigned DEF Settling, Write, Outcome
<1>3. PICK u \in Write :
        worker' = [worker EXCEPT ![w] =
                     [@ EXCEPT !.pc = "storing", !.content = c, !.write = u]]
  BY <1>2 DEF Fetched
<1> DEFINE p == [worker[w] EXCEPT !.pc = "storing", !.content = c, !.write = u]
<1>4. p \in WorkerState /\ p.pc # "idle" /\ p.batch = worker[w].batch
  BY <1>1, BusyTyped DEF WorkerState
<1>5. worker' = [worker EXCEPT ![w] = p]
  BY <1>3
<1> HIDE DEF p
<1>6. /\ worker' \in [Worker -> WorkerState]
      /\ \A v \in Worker : worker'[v].pc = "idle" <=> worker'[v].batch = <<>>
  BY <1>1, <1>4, <1>5, BusyStepTyped
<1> QED
  BY <1>6 DEF TypeOK, Fetched

LEMMA StoreTyped ==
  ASSUME TypeOK, StoreInv, NEW w \in Worker, Store(w)
  PROVE  TypeOK'
<1> DEFINE p == [worker[w] EXCEPT !.pc = "committing"]
<1>1. worker[w].pc = "storing"
  BY DEF Store
<1>2. p \in WorkerState /\ p.pc # "idle" /\ p.batch = worker[w].batch
  BY <1>1, BusyTyped DEF WorkerState
<1>3. /\ worker' = [worker EXCEPT ![w] = p]
      /\ stored' = [stored EXCEPT ![Current(w)] = @ \cup {worker[w].content}]
  BY DEF Store
<1> HIDE DEF p
<1>4. /\ worker' \in [Worker -> WorkerState]
      /\ \A v \in Worker : worker'[v].pc = "idle" <=> worker'[v].batch = <<>>
  BY <1>1, <1>2, <1>3, BusyStepTyped
<1>5. worker[w].content \in Content
  BY <1>1 DEF StoreInv
<1>6. stored' \in [Document -> SUBSET Content]
  BY <1>1, <1>3, <1>5, BusyTyped DEF TypeOK
<1> QED
  BY <1>4, <1>6 DEF TypeOK, Store

LEMMA CommitTyped ==
  ASSUME TypeOK, NEW w \in Worker, Commit(w)
  PROVE  TypeOK'
<1> DEFINE d == Current(w)
           u == worker[w].write
           c == worker[w].content
<1>1. /\ worker[w].pc = "committing"
      /\ job' = [job EXCEPT ![d] = Written(@, u)]
      /\ attempt' = [attempt EXCEPT ![d] = Closed(@, worker[w].token, u.outcome)]
      /\ artifact' = [artifact EXCEPT ![d] = @ \cup ({c} \ {NoContent})]
      /\ content' = [content EXCEPT ![d] = IF c = NoContent THEN @ ELSE c]
      /\ worker' = [worker EXCEPT ![w] = Finished(w)]
      /\ UNCHANGED <<now, eligible, stored>>
  BY DEF Commit
<1>2. d \in Document /\ job[d] \in Job /\ worker[w] \in WorkerState /\ now \in Nat
  BY <1>1, BusyTyped DEF TypeOK
<1>3. u \in Write /\ c \in Content \cup {NoContent} /\ u.outcome \in Outcome
  BY <1>2 DEF WorkerState, Write
<1>4. Written(job[d], u) \in Job
  BY <1>2, <1>3, WritesTyped, StatesAssigned
<1>5. Closed(attempt[d], worker[w].token, u.outcome) \subseteq Attempt
  <2>1. attempt[d] \subseteq Attempt
    BY <1>2 DEF TypeOK
  <2>2. \A a \in Attempt : [a EXCEPT !.outcome = u.outcome] \in Attempt
    BY <1>3 DEF Attempt
  <2> QED
    BY <2>1, <2>2 DEF Closed
<1>6. /\ worker' \in [Worker -> WorkerState]
      /\ \A v \in Worker : worker'[v].pc = "idle" <=> worker'[v].batch = <<>>
  BY <1>1, FinishStepTyped
<1> HIDE DEF d, u, c
<1>7. job' \in [Document -> Job] /\ attempt' \in [Document -> SUBSET Attempt]
  BY <1>1, <1>2, <1>4, <1>5 DEF TypeOK
<1>8. artifact' \in [Document -> SUBSET Content] /\ content' \in [Document -> Content \cup {NoContent}]
  BY <1>1, <1>2, <1>3 DEF TypeOK
<1> QED
  BY <1>1, <1>6, <1>7, <1>8 DEF TypeOK

\* LoseLease, Abort: drop the job and go on.
LEMMA FailTyped ==
  ASSUME TypeOK, NEW w \in Worker, worker[w].pc # "idle", Fail(w)
  PROVE  TypeOK'
BY FinishStepTyped DEF TypeOK, Fail

LEMMA CrashTyped ==
  ASSUME TypeOK, NEW w \in Worker, Crash(w)
  PROVE  TypeOK'
<1>1. <<>> \in Seq(Document)
  OBVIOUS
<1> QED
  BY <1>1, RestingStepTyped DEF TypeOK, Crash, Idle

LEMMA RenewTyped ==
  ASSUME TypeOK, NEW w \in Worker, Renew(w)
  PROVE  TypeOK'
<1>1. worker[w].pc = "fetching" /\ job' = [job EXCEPT ![Current(w)] = Renewed(@)]
  BY DEF Renew, Returns
<1>2. Renewed(job[Current(w)]) \in Job
  BY <1>1, BusyTyped, RowOperationsTyped, StatesAssigned DEF TypeOK
<1> QED
  BY <1>1, <1>2, BusyTyped DEF TypeOK, Renew

\* Every step preserves the types.
LEMMA NextTyped ==
  ASSUME TypeOK, StoreInv, [Next]_vars
  PROVE  TypeOK'
<1>1. ASSUME NEW d \in Document, NEW e \in BOOLEAN, NEW q \in BOOLEAN, Upsert(d, e, q)
      PROVE  TypeOK'
  BY <1>1, UpsertTyped
<1>2. CASE RecoverExpired
  BY <1>2, RecoverExpiredTyped
<1>3. CASE Tick
  BY <1>3 DEF Tick, TypeOK
<1>4. ASSUME NEW w \in Worker, Claim(w) PROVE TypeOK'
  BY <1>4, ClaimTyped
<1>5. ASSUME NEW w \in Worker, Process(w) PROVE TypeOK'
  <2>1. CASE Open(w)
    BY <2>1, OpenTyped
  <2>2. CASE Reject(w)
    BY <2>2, RejectTyped
  <2>3. ASSUME NEW c \in Content, Fetched(w, c) PROVE TypeOK'
    BY <2>3, FetchedTyped
  <2>4. CASE NotModified(w)
    BY <2>4, NotModifiedTyped
  <2>5. ASSUME NEW kind \in FailureKind, FetchFailed(w, kind) PROVE TypeOK'
    BY <2>5, FetchFailedTyped
  <2>6. CASE LoseLease(w)
    BY <2>6, FailTyped DEF LoseLease, Fail
  <2>7. CASE Store(w)
    BY <2>7, StoreTyped
  <2>8. CASE Commit(w)
    BY <2>8, CommitTyped
  <2> QED
    BY <1>5, <2>1, <2>2, <2>3, <2>4, <2>5, <2>6, <2>7, <2>8 DEF Process
<1>6. ASSUME NEW w \in Worker, Abort(w) PROVE TypeOK'
  BY <1>6, FailTyped DEF Abort
<1>7. ASSUME NEW w \in Worker, Crash(w) PROVE TypeOK'
  BY <1>7, CrashTyped
<1>8. ASSUME NEW w \in Worker, Renew(w) PROVE TypeOK'
  BY <1>8, RenewTyped
<1>9. CASE UNCHANGED vars
  BY <1>9 DEF vars, TypeOK
<1> QED
  BY <1>1, <1>2, <1>3, <1>4, <1>5, <1>6, <1>7, <1>8, <1>9 DEF Next

\* A process that stores has a body to store.
LEMMA StoreStep ==
  ASSUME TypeOK, StoreInv, NEW w \in Worker, NEW p, worker' = [worker EXCEPT ![w] = p],
         p.pc = "storing" => p.content \in Content
  PROVE  StoreInv'
BY DEF TypeOK, StoreInv

LEMMA StoreKept ==
  ASSUME TypeOK, StoreInv, [Next]_vars
  PROVE  StoreInv'
<1>1. CASE worker' = worker
  BY <1>1 DEF StoreInv
<1>2. ASSUME NEW w \in Worker, Claim(w) PROVE StoreInv'
  <2>1. PICK n \in 1..Batch : \E q \in [1..n -> Claimable] :
          worker' = [worker EXCEPT ![w] = Resting(q)]
    BY <1>2 DEF Claim
  <2>2. PICK q \in [1..n -> Claimable] : worker' = [worker EXCEPT ![w] = Resting(q)]
    BY <2>1
  <2>3. Resting(q).pc # "storing"
    BY DEF Resting
  <2> QED
    BY <2>2, <2>3, StoreStep
<1>3. ASSUME NEW w \in Worker, NEW q, worker' = [worker EXCEPT ![w] = Resting(q)]
      PROVE  StoreInv'
  <2>1. Resting(q).pc # "storing"
    BY DEF Resting
  <2> QED
    BY <1>3, <2>1, StoreStep
<1>4. ASSUME NEW w \in Worker, Process(w) PROVE StoreInv'
  <2>0. worker[w] \in WorkerState
    BY DEF TypeOK
  <2>1. CASE Open(w)
    BY <2>0, <2>1, StoreStep DEF Open, WorkerState
  <2>2. CASE Reject(w)
    BY <2>0, <2>2, StoreStep DEF Reject, WorkerState
  <2>3. ASSUME NEW c \in Content, Fetched(w, c) PROVE StoreInv'
    <3>1. PICK u : worker' = [worker EXCEPT ![w] =
                                [@ EXCEPT !.pc = "storing", !.content = c, !.write = u]]
      BY <2>3 DEF Fetched
    <3> QED
      BY <2>0, <3>1, StoreStep DEF WorkerState
  <2>4. CASE NotModified(w)
    BY <2>0, <2>4, StoreStep DEF NotModified, WorkerState
  <2>5. ASSUME NEW kind \in FailureKind, FetchFailed(w, kind) PROVE StoreInv'
    <3>1. PICK u : worker' = [worker EXCEPT ![w] = [@ EXCEPT !.pc = "committing", !.write = u]]
      BY <2>5 DEF FetchFailed
    <3> QED
      BY <2>0, <3>1, StoreStep DEF WorkerState
  <2>6. CASE LoseLease(w) \/ Commit(w)
    BY <1>3, <2>6 DEF LoseLease, Commit, Fail, Finished
  <2>7. CASE Store(w)
    BY <2>0, <2>7, StoreStep DEF Store, WorkerState
  <2> QED
    BY <1>4, <2>1, <2>2, <2>3, <2>4, <2>5, <2>6, <2>7 DEF Process
<1>5. ASSUME NEW w \in Worker, Abort(w) \/ Crash(w) PROVE StoreInv'
  BY <1>3, <1>5 DEF Abort, Crash, Fail, Finished, Idle
<1> QED
  BY <1>1, <1>2, <1>4, <1>5 DEF Next, vars, Upsert, RecoverExpired, Tick, Renew

------------------------------------------------------------------------------
(* Fencing.  The inductive invariant says of a process between validation  *)
(* and commit that its lease is in the row and, where commits are prompt,  *)
(* has not run out; a job with an owner is LEASED.                         *)

Secure(w) ==
  LET j == job[Current(w)]
  IN  /\ j.state = "LEASED" /\ j.lease.owner = w /\ j.lease.token = worker[w].token
      /\ PromptCommit => j.lease.expires > now

LeaseColumns == \A d \in Document : job[d].lease.owner # NoOne => job[d].state = "LEASED"

Fenced == LeaseColumns /\ \A w \in Worker : Validated(w) => Secure(w)

TypeInv == TypeOK /\ StoreInv
FenceInv == TypeInv /\ Fenced

\* What the operations on a row do to its state and its lease.
LEMMA RowOperationsFence ==
  ASSUME NEW j \in Job
  PROVE  /\ Enqueued.lease.owner = NoOne
         /\ \A w : Leased(j, w).state = "LEASED"
         /\ Recovered(j).lease.owner = NoOne
         /\ Renewed(j).state = j.state /\ Renewed(j).lease.owner = j.lease.owner
         /\ \A s \in RetrievalState : Settled(j, s).lease.owner = NoOne
         /\ \A u \in Write : Written(j, u).lease.owner = NoOne
BY DEF Enqueued, Leased, Recovered, Renewed, Settled, Written, NoLease, NewLease, Job, Lease

LEMMA ValidatedIsBusy ==
  ASSUME TypeOK, NEW w \in Worker, Validated(w)
  PROVE  Current(w) \in Document /\ job[Current(w)] \in Job
BY BusyTyped DEF Validated, TypeOK

\* A step that leaves a validated process and its row alone keeps it secure.
LEMMA Undisturbed ==
  ASSUME NEW v \in Worker, Secure(v), worker'[v] = worker[v], now' = now,
         job'[Current(v)] = job[Current(v)]
  PROVE  Secure(v)'
BY DEF Secure, Current

\* No two processes are secure with the same job.
LEMMA SecureApart ==
  ASSUME NEW v \in Worker, NEW w \in Worker, Secure(v), Secure(w), v # w
  PROVE  Current(v) # Current(w)
BY DEF Secure

\* A process after a step that changes only one record and does not validate
\* anything: every validated process was so before.
LEMMA OthersValidated ==
  ASSUME TypeOK, NEW w \in Worker, NEW p, worker' = [worker EXCEPT ![w] = p],
         p.pc \notin {"storing", "committing"}, NEW v \in Worker, Validated(v)'
  PROVE  v # w /\ worker'[v] = worker[v] /\ Validated(v)
BY DEF Validated, TypeOK

LEMMA LocalStep ==
  ASSUME FenceInv, NEW w \in Worker, NEW p, worker' = [worker EXCEPT ![w] = p],
         p.pc \notin {"storing", "committing"}, UNCHANGED <<now, job>>
  PROVE  Fenced'
<1>1. ASSUME NEW v \in Worker, Validated(v)' PROVE Secure(v)'
  BY <1>1, OthersValidated, Undisturbed DEF FenceInv, TypeInv, Fenced
<1> QED
  BY <1>1 DEF FenceInv, Fenced, LeaseColumns

\* The steps that validate, or keep, the process's own lease.
LEMMA ValidatingStep ==
  ASSUME FenceInv, NEW w \in Worker, NEW p, worker' = [worker EXCEPT ![w] = p],
         p.batch = worker[w].batch, worker[w].pc # "idle",
         \/ HoldsLease(job[Current(w)], w, p.token)
         \/ Validated(w) /\ p.token = worker[w].token,
         UNCHANGED <<now, job>>
  PROVE  Fenced'
<1>1. worker'[w] = p /\ \A v \in Worker : v # w => worker'[v] = worker[v]
  BY DEF FenceInv, TypeInv, TypeOK
<1>2. Secure(w)'
  <2>1. Current(w)' = Current(w) /\ worker'[w].token = p.token
    BY <1>1 DEF Current
  <2>2. CASE HoldsLease(job[Current(w)], w, p.token)
    <3>1. /\ job[Current(w)].lease.owner = w
          /\ job[Current(w)].lease.token = p.token
          /\ job[Current(w)].lease.expires > now
      BY <2>2 DEF HoldsLease
    <3>2. Current(w) \in Document
      BY BusyTyped DEF FenceInv, TypeInv
    <3>3. job[Current(w)].state = "LEASED"
      BY <3>1, <3>2, QueueAssumption DEF FenceInv, Fenced, LeaseColumns
    <3>4. job'[Current(w)'] = job[Current(w)] /\ now' = now
      BY <2>1
    <3> QED
      BY <2>1, <3>1, <3>3, <3>4 DEF Secure
  <2>3. CASE Validated(w) /\ p.token = worker[w].token
    <3>1. Secure(w) /\ job' = job /\ now' = now
      BY <2>3 DEF FenceInv, Fenced
    <3> QED
      BY <2>1, <2>3, <3>1 DEF Secure
  <2> QED
    BY <2>2, <2>3
<1>3. ASSUME NEW v \in Worker, Validated(v)', v # w PROVE Secure(v)'
  <2>1. worker'[v] = worker[v] /\ Validated(v)
    BY <1>1, <1>3 DEF Validated
  <2> QED
    BY <2>1, Undisturbed DEF FenceInv, Fenced
<1> QED
  BY <1>1, <1>2, <1>3 DEF FenceInv, Fenced, LeaseColumns

\* The steps of the queue that touch no row of a validated process.
LEMMA UpsertFenced ==
  ASSUME FenceInv, NEW d \in Document, NEW e, NEW q, Upsert(d, e, q)
  PROVE  Fenced'
<1>1. job \in [Document -> Job] /\ worker' = worker /\ now' = now
  BY DEF FenceInv, TypeInv, TypeOK, Upsert
<1>2. ASSUME NEW x \in Document
      PROVE  job'[x] = job[x] \/ (job[x].state = "ABSENT" /\ job'[x] = Enqueued)
  BY <1>1 DEF Upsert
<1>3. LeaseColumns'
  BY <1>2 DEF FenceInv, Fenced, LeaseColumns, Enqueued, NoLease
<1>4. ASSUME NEW v \in Worker, Validated(v)' PROVE Secure(v)'
  <2>1. Validated(v) /\ Secure(v)
    BY <1>1, <1>4 DEF Validated, FenceInv, Fenced
  <2>2. job'[Current(v)] = job[Current(v)]
    BY <1>2, <2>1, ValidatedIsBusy DEF FenceInv, TypeInv, Secure
  <2> QED
    BY <1>1, <2>1, <2>2, Undisturbed
<1> QED
  BY <1>3, <1>4 DEF Fenced

LEMMA RecoverFenced ==
  ASSUME FenceInv, PromptCommit \/ "recover" \notin Maintenance, RecoverExpired
  PROVE  Fenced'
<1>1. PromptCommit /\ worker' = worker /\ now' = now
  BY DEF RecoverExpired
<1>2. ASSUME NEW d \in Document
      PROVE  IF d \in Expired THEN job'[d].lease.owner = NoOne ELSE job'[d] = job[d]
  <2>1. job[d] \in Job
    BY DEF FenceInv, TypeInv, TypeOK
  <2>2. Recovered(job[d]).lease.owner = NoOne
    BY <2>1, RowOperationsFence
  <2> QED
    BY <2>2 DEF RecoverExpired
<1>3. LeaseColumns'
  BY <1>2 DEF FenceInv, Fenced, LeaseColumns
<1>4. ASSUME NEW v \in Worker, Validated(v)' PROVE Secure(v)'
  <2>1. Validated(v) /\ Secure(v) /\ worker'[v] = worker[v]
    BY <1>1, <1>4 DEF Validated, FenceInv, Fenced
  <2>2. Current(v) \in Document /\ job[Current(v)].lease.expires \in Nat /\ now \in Nat
    BY <2>1, ValidatedIsBusy DEF FenceInv, TypeInv, TypeOK, Job, Lease
  <2>3. Current(v) \notin Expired
    BY <1>1, <2>1, <2>2 DEF Secure, Expired
  <2>4. job'[Current(v)] = job[Current(v)]
    BY <1>2, <2>2, <2>3
  <2> QED
    BY <1>1, <2>1, <2>4, Undisturbed
<1> QED
  BY <1>3, <1>4 DEF Fenced

LEMMA TickFenced ==
  ASSUME FenceInv, Tick
  PROVE  Fenced'
<1>1. job' = job /\ worker' = worker /\ now' = now + 1
  BY DEF Tick
<1>2. ASSUME NEW v \in Worker, Validated(v)' PROVE Secure(v)'
  <2>1. Validated(v) /\ Secure(v)
    BY <1>1, <1>2 DEF Validated, FenceInv, Fenced
  <2>2. PromptCommit => job[Current(v)].lease.expires > now + 1
    BY <2>1 DEF Tick
  <2>3. Current(v)' = Current(v)
    BY <1>1 DEF Current
  <2> QED
    BY <1>1, <2>1, <2>2, <2>3 DEF Secure
<1> QED
  BY <1>1, <1>2 DEF FenceInv, Fenced, LeaseColumns

\* A claim takes QUEUED rows only, and so no row of a validated process.
LEMMA ClaimFenced ==
  ASSUME FenceInv, NEW w \in Worker, Claim(w)
  PROVE  Fenced'
<1>0. PICK n \in 1..Batch : \E q \in [1..n -> Claimable] :
        /\ job' = [d \in Document |->
                     IF \E i \in 1..n : q[i] = d THEN Leased(job[d], w) ELSE job[d]]
        /\ worker' = [worker EXCEPT ![w] = Resting(q)]
  BY DEF Claim
<1>1. PICK q \in [1..n -> Claimable] :
        /\ job' = [d \in Document |->
                     IF \E i \in 1..n : q[i] = d THEN Leased(job[d], w) ELSE job[d]]
        /\ worker' = [worker EXCEPT ![w] = Resting(q)]
  BY <1>0
<1>2. ASSUME NEW d \in Document
      PROVE  job'[d] = job[d] \/ (job[d].state = "QUEUED" /\ job'[d].state = "LEASED")
  <2>1. job[d] \in Job
    BY DEF FenceInv, TypeInv, TypeOK
  <2>2. Leased(job[d], w).state = "LEASED"
    BY <2>1, RowOperationsFence
  <2> QED
    BY <1>1, <2>2 DEF Claimable
<1>3. LeaseColumns'
  BY <1>2 DEF FenceInv, Fenced, LeaseColumns
<1>4. ASSUME NEW v \in Worker, Validated(v)' PROVE Secure(v)'
  <2>1. q \in Seq(Document)
    BY <1>1 DEF Claimable
  <2>2. Resting(q).pc \notin {"storing", "committing"}
    BY DEF Resting
  <2>3. worker'[v] = worker[v] /\ Validated(v) /\ Secure(v)
    BY <1>1, <1>4, <2>2, OthersValidated DEF FenceInv, TypeInv, Fenced
  <2>4. job'[Current(v)] = job[Current(v)]
    BY <1>2, <2>3, ValidatedIsBusy DEF FenceInv, TypeInv, Secure
  <2> QED
    BY <2>3, <2>4, Undisturbed DEF Claim
<1> QED
  BY <1>3, <1>4 DEF Fenced

\* A commit, or a renewal, of w's own row leaves every other validated
\* process its row: what it owns, w does not.
LEMMA OwnRowStep ==
  ASSUME FenceInv, NEW w \in Worker, worker[w].pc # "idle",
         job[Current(w)].lease.owner = w,
         NEW r, job' = [job EXCEPT ![Current(w)] = r],
         r.lease.owner # NoOne => r.state = "LEASED", now' = now,
         \A v \in Worker : Validated(v)' =>
           v # w /\ Validated(v) /\ worker'[v] = worker[v]
  PROVE  Fenced'
<1>1. \A d \in Document : job'[d] = IF d = Current(w) THEN r ELSE job[d]
  BY DEF FenceInv, TypeInv, TypeOK
<1>2. LeaseColumns'
  BY <1>1 DEF FenceInv, Fenced, LeaseColumns
<1>3. ASSUME NEW v \in Worker, Validated(v)' PROVE Secure(v)'
  <2>1. v # w /\ Validated(v) /\ worker'[v] = worker[v] /\ Secure(v)
    BY <1>3 DEF FenceInv, Fenced
  <2>2. Current(v) # Current(w) /\ Current(v) \in Document
    BY <2>1, ValidatedIsBusy DEF Secure, FenceInv, TypeInv
  <2>3. job'[Current(v)] = job[Current(v)]
    BY <1>1, <2>2
  <2> QED
    BY <2>1, <2>3, Undisturbed
<1> QED
  BY <1>2, <1>3 DEF Fenced

LEMMA CommitFenced ==
  ASSUME FenceInv, NEW w \in Worker, Commit(w)
  PROVE  Fenced'
<1> DEFINE r == Written(job[Current(w)], worker[w].write)
<1>1. /\ worker[w].pc = "committing" /\ now' = now
      /\ job' = [job EXCEPT ![Current(w)] = r]
      /\ worker' = [worker EXCEPT ![w] = Finished(w)]
  BY DEF Commit
<1>2. Validated(w) /\ job[Current(w)].lease.owner = w
  BY <1>1 DEF Validated, FenceInv, Fenced, Secure
<1>3. r.lease.owner = NoOne
  <2>1. job[Current(w)] \in Job /\ worker[w].write \in Write
    BY <1>1, BusyTyped DEF FenceInv, TypeInv, WorkerState
  <2> QED
    BY <2>1, RowOperationsFence
<1>4. Finished(w).pc \notin {"storing", "committing"}
  BY DEF Finished, Resting
<1>5. \A v \in Worker : Validated(v)' => v # w /\ Validated(v) /\ worker'[v] = worker[v]
  BY <1>1, <1>4, OthersValidated DEF FenceInv, TypeInv
<1> HIDE DEF r
<1> QED
  BY <1>1, <1>2, <1>3, <1>5, OwnRowStep

LEMMA RenewFenced ==
  ASSUME FenceInv, NEW w \in Worker, Renew(w)
  PROVE  Fenced'
<1> DEFINE r == Renewed(job[Current(w)])
<1>1. /\ worker[w].pc = "fetching" /\ now' = now /\ worker' = worker
      /\ job[Current(w)].lease.owner = w
      /\ job' = [job EXCEPT ![Current(w)] = r]
  BY DEF Renew, Returns, HoldsLease
<1>2. Current(w) \in Document /\ job[Current(w)] \in Job
  BY <1>1, BusyTyped DEF FenceInv, TypeInv
<1>3. r.lease.owner # NoOne => r.state = "LEASED"
  <2>1. r.state = job[Current(w)].state /\ r.lease.owner = job[Current(w)].lease.owner
    BY <1>2, RowOperationsFence
  <2> QED
    BY <1>2, <2>1 DEF FenceInv, Fenced, LeaseColumns
<1>4. \A v \in Worker : Validated(v)' => v # w /\ Validated(v) /\ worker'[v] = worker[v]
  BY <1>1 DEF Validated
<1> HIDE DEF r
<1> QED
  BY <1>1, <1>3, <1>4, OwnRowStep

LEMMA ReturningStep ==
  ASSUME FenceInv, NEW w \in Worker, Returns(w), NEW p,
         worker' = [worker EXCEPT ![w] = p],
         p.batch = worker[w].batch, p.token = worker[w].token, UNCHANGED <<now, job>>
  PROVE  Fenced'
BY ValidatingStep DEF Returns

LEMMA FailFenced ==
  ASSUME FenceInv, NEW w \in Worker, Fail(w)
  PROVE  Fenced'
<1>1. Finished(w).pc \notin {"storing", "committing"}
  BY DEF Finished, Resting
<1> QED
  BY <1>1, LocalStep DEF Fail

LEMMA CrashFenced ==
  ASSUME FenceInv, NEW w \in Worker, Crash(w)
  PROVE  Fenced'
<1>1. Idle.pc \notin {"storing", "committing"}
  BY DEF Idle, Resting
<1> QED
  BY <1>1, LocalStep DEF Crash

LEMMA ProcessFenced ==
  ASSUME FenceInv, NEW w \in Worker, Process(w)
  PROVE  Fenced'
<1>1. CASE Open(w)
  <2>1. worker' = [worker EXCEPT ![w] =
          [@ EXCEPT !.pc = "fetching", !.token = job[Current(w)].lease.token]]
    BY <1>1 DEF Open
  <2> DEFINE p == [worker[w] EXCEPT !.pc = "fetching", !.token = job[Current(w)].lease.token]
  <2>2. p.pc \notin {"storing", "committing"}
    BY DEF FenceInv, TypeInv, TypeOK, WorkerState
  <2>3. worker' = [worker EXCEPT ![w] = p] /\ UNCHANGED <<now, job>>
    BY <1>1, <2>1 DEF Open
  <2> HIDE DEF p
  <2> QED
    BY <2>2, <2>3, LocalStep
<1>2. CASE Reject(w)
  <2> DEFINE p == [worker[w] EXCEPT !.pc = "committing", !.token = job[Current(w)].lease.token,
                     !.write = Settling("QUARANTINED")]
  <2>1. /\ worker[w].pc = "next" /\ worker' = [worker EXCEPT ![w] = p]
        /\ HoldsLease(job[Current(w)], w, job[Current(w)].lease.token)
        /\ UNCHANGED <<now, job>>
    BY <1>2 DEF Reject, ReadsOwnLease
  <2>2. p.batch = worker[w].batch /\ p.token = job[Current(w)].lease.token
    BY DEF FenceInv, TypeInv, TypeOK, WorkerState
  <2> HIDE DEF p
  <2> QED
    BY <2>1, <2>2, ValidatingStep
<1>3. ASSUME NEW c \in Content, Fetched(w, c) PROVE Fenced'
  <2> DEFINE u == Settling(IF c \in artifact[Current(w)] \/ content[Current(w)] = c
                             THEN "UNCHANGED" ELSE "DOWNLOADED")
             p == [worker[w] EXCEPT !.pc = "storing", !.content = c, !.write = u]
  <2>1. Returns(w) /\ worker' = [worker EXCEPT ![w] = p] /\ UNCHANGED <<now, job>>
    BY <1>3 DEF Fetched
  <2>2. p.batch = worker[w].batch /\ p.token = worker[w].token
    BY DEF FenceInv, TypeInv, TypeOK, WorkerState
  <2> HIDE DEF u, p
  <2> QED
    BY <2>1, <2>2, ReturningStep
<1>4. CASE NotModified(w)
  <2> DEFINE p == [worker[w] EXCEPT !.pc = "committing", !.write = Settling("UNCHANGED")]
  <2>1. Returns(w) /\ worker' = [worker EXCEPT ![w] = p] /\ UNCHANGED <<now, job>>
    BY <1>4 DEF NotModified
  <2>2. p.batch = worker[w].batch /\ p.token = worker[w].token
    BY DEF FenceInv, TypeInv, TypeOK, WorkerState
  <2> HIDE DEF p
  <2> QED
    BY <2>1, <2>2, ReturningStep
<1>5. ASSUME NEW kind \in FailureKind, FetchFailed(w, kind) PROVE Fenced'
  <2>1. PICK u : worker' = [worker EXCEPT ![w] = [@ EXCEPT !.pc = "committing", !.write = u]]
    BY <1>5 DEF FetchFailed
  <2> DEFINE p == [worker[w] EXCEPT !.pc = "committing", !.write = u]
  <2>2. Returns(w) /\ worker' = [worker EXCEPT ![w] = p] /\ UNCHANGED <<now, job>>
    BY <1>5, <2>1 DEF FetchFailed
  <2>3. p.batch = worker[w].batch /\ p.token = worker[w].token
    BY DEF FenceInv, TypeInv, TypeOK, WorkerState
  <2> HIDE DEF p
  <2> QED
    BY <2>2, <2>3, ReturningStep
<1>6. CASE LoseLease(w)
  BY <1>6, FailFenced DEF LoseLease, Fail
<1>7. CASE Store(w)
  <2> DEFINE p == [worker[w] EXCEPT !.pc = "committing"]
  <2>1. /\ worker[w].pc = "storing" /\ worker' = [worker EXCEPT ![w] = p]
        /\ UNCHANGED <<now, job>>
    BY <1>7 DEF Store
  <2>2. p.batch = worker[w].batch /\ p.token = worker[w].token
    BY DEF FenceInv, TypeInv, TypeOK, WorkerState
  <2> HIDE DEF p
  <2> QED
    BY <2>1, <2>2, ValidatingStep DEF Validated
<1>8. CASE Commit(w)
  BY <1>8, CommitFenced
<1> QED
  BY <1>1, <1>2, <1>3, <1>4, <1>5, <1>6, <1>7, <1>8 DEF Process

\* Every step keeps the fence, provided that no recovery can come between a
\* validation and its commit.
LEMMA NextFenced ==
  ASSUME FenceInv, PromptCommit \/ "recover" \notin Maintenance, [Next]_vars
  PROVE  Fenced'
<1>1. ASSUME NEW d \in Document, NEW e \in BOOLEAN, NEW q \in BOOLEAN, Upsert(d, e, q)
      PROVE  Fenced'
  BY <1>1, UpsertFenced
<1>2. CASE RecoverExpired
  BY <1>2, RecoverFenced
<1>3. CASE Tick
  BY <1>3, TickFenced
<1>4. ASSUME NEW w \in Worker, Claim(w) \/ Process(w) \/ Abort(w) \/ Crash(w) \/ Renew(w)
      PROVE  Fenced'
  BY <1>4, ClaimFenced, ProcessFenced, FailFenced, CrashFenced, RenewFenced DEF Abort
<1>5. CASE UNCHANGED vars
  BY <1>5 DEF vars, FenceInv, Fenced, LeaseColumns, Validated, Secure, Current
<1> QED
  BY <1>1, <1>2, <1>3, <1>4, <1>5 DEF Next

------------------------------------------------------------------------------
(* The theorems.                                                           *)

LEMMA InitFenceInv == Init => FenceInv
<1> SUFFICES ASSUME Init PROVE FenceInv
  OBVIOUS
<1>1. \A w \in Worker : worker[w].pc = "idle"
  BY DEF Init, Idle, Resting
<1>2. \A d \in Document : job[d].lease.owner = NoOne
  BY DEF Init, NoJob, NoLease
<1> QED
  BY <1>1, <1>2, InitTyped DEF FenceInv, TypeInv, StoreInv, Fenced, LeaseColumns, Validated

LEMMA NextTypeInv ==
  ASSUME TypeInv, [Next]_vars
  PROVE  TypeInv'
BY NextTyped, StoreKept DEF TypeInv

\* Every variable has its type in every reachable state: no operation of the
\* queue or the worker writes a state outside RetrievalState or loses the
\* current job of a busy process.
THEOREM TypeCorrect == Spec => []TypeOK
<1>1. Init => TypeInv
  BY InitFenceInv DEF FenceInv
<1>2. TypeInv /\ [Next]_vars => TypeInv'
  BY NextTypeInv
<1>3. TypeInv => TypeOK
  BY DEF TypeInv
<1> QED
  BY <1>1, <1>2, <1>3, PTL DEF Spec

\* An open attempt goes only by a commit under its own token.
LEMMA AttemptStep ==
  ASSUME FenceInv, [Next]_vars, NEW d \in Document, NEW a \in attempt[d],
         a.outcome = "open", a \notin attempt'[d]
  PROVE  job[d].lease.token = a.token
<1>1. PICK w \in Worker : Commit(w)
  <2>1. CASE attempt' = attempt
    BY <2>1
  <2>2. ASSUME NEW w \in Worker, Open(w) PROVE FALSE
    BY <2>2 DEF Open, FenceInv, TypeInv, TypeOK
  <2> QED
    BY <2>1, <2>2 DEF Next, vars, Upsert, RecoverExpired, Tick, Claim, Process, Reject,
         Fetched, NotModified, FetchFailed, LoseLease, Fail, Store,
         Abort, Crash, Renew
<1>2. attempt' = [attempt EXCEPT ![Current(w)] =
                    Closed(@, worker[w].token, worker[w].write.outcome)]
  BY <1>1 DEF Commit
<1>3. d = Current(w) /\ a.token = worker[w].token
  BY <1>2 DEF Closed, FenceInv, TypeInv, TypeOK
<1>4. Secure(w)
  BY <1>1 DEF Commit, Validated, FenceInv, Fenced
<1> QED
  BY <1>3, <1>4 DEF Secure

LEMMA FenceInvariant ==
  ASSUME PromptCommit \/ "recover" \notin Maintenance
  PROVE  Spec => []FenceInv
<1>1. Init => FenceInv
  BY InitFenceInv
<1>2. FenceInv /\ [Next]_vars => FenceInv'
  BY NextTypeInv, NextFenced DEF FenceInv
<1> QED
  BY <1>1, <1>2, PTL DEF Spec

\* A worker that has validated its lease still owns the job, under the same
\* token, until it commits (the second transaction of _process): always where
\* nothing recovers leases, as shipped, and with recovery if a validated
\* transaction commits before its lease expires.
THEOREM FencedCommits ==
  ASSUME PromptCommit \/ "recover" \notin Maintenance
  PROVE  Spec => []HolderCommits
<1>1. Spec => []FenceInv
  BY FenceInvariant
<1>2. FenceInv => HolderCommits
  BY DEF FenceInv, Fenced, Secure, HolderCommits
<1> QED
  BY <1>1, <1>2, PTL

\* Under the same assumption no attempt is acknowledged under another lease
\* than its own: Commit completes the attempts of the token it validated, and
\* that token is the row's.
THEOREM NoStaleAcknowledgements ==
  ASSUME PromptCommit \/ "recover" \notin Maintenance
  PROVE  Spec => NoStaleAcknowledgement
<1> DEFINE Step == \A d \in Document : \A a \in attempt[d] :
             a.outcome = "open" /\ a \notin attempt'[d] => job[d].lease.token = a.token
<1>1. Spec => []FenceInv
  BY FenceInvariant
<1>2. FenceInv /\ [Next]_vars => [Step]_vars
  BY AttemptStep
<1>3. Spec => [][Next]_vars
  BY PTL DEF Spec
<1> QED
  BY <1>1, <1>2, <1>3, PTL DEF NoStaleAcknowledgement

------------------------------------------------------------------------------
(* Storage.  The inductive invariant follows a body from the fetch to the  *)
(* row: a process that has not fetched carries none, one that commits      *)
(* carries none or one that is stored, and it writes DOWNLOADED only with  *)
(* one.                                                                    *)

Carries(p, files) ==
  /\ p.pc \in {"next", "fetching"} => p.content = NoContent
  /\ p.pc = "committing" =>
       /\ p.content \in files \cup {NoContent}
       /\ p.write.state = "DOWNLOADED" => p.content # NoContent
  /\ p.pc = "storing" => p.content # NoContent

BodyCarried == \A w \in Worker : Carries(worker[w], stored[Current(w)])

StorageInv == TypeInv /\ BodyCarried /\ FileBeforeRow

\* The steps of one process that leave files, rows and its current job alone.
LEMMA CarryStep ==
  ASSUME StorageInv, NEW w \in Worker, NEW p, worker' = [worker EXCEPT ![w] = p],
         Carries(p, stored[Head(p.batch)]),
         UNCHANGED <<stored, artifact, content, job>>
  PROVE  BodyCarried' /\ FileBeforeRow'
<1>1. \A v \in Worker : worker'[v] = IF v = w THEN p ELSE worker[v]
  BY DEF StorageInv, TypeInv, TypeOK
<1>2. ASSUME NEW v \in Worker
      PROVE  Carries(worker'[v], stored[Head(worker'[v].batch)])
  BY <1>1 DEF StorageInv, BodyCarried, Current
<1>3. BodyCarried'
  BY <1>2 DEF BodyCarried, Current, Carries
<1>4. FileBeforeRow'
  BY DEF StorageInv, FileBeforeRow
<1> QED
  BY <1>3, <1>4

LEMMA RestingCarries ==
  ASSUME NEW q, NEW files
  PROVE  Carries(Resting(q), files)
BY DEF Resting, Carries

\* The states a process may write without a body.
LEMMA BodylessWrites ==
  /\ Settling("QUARANTINED").state # "DOWNLOADED"
  /\ Settling("UNCHANGED").state # "DOWNLOADED"
  /\ \A kind : Settling(FailedState(kind)).state # "DOWNLOADED"
  /\ \A j, delay : Retrying(j, delay).state # "DOWNLOADED"
BY DEF Settling, FailedState, Retrying

\* From the fetch, or before it, to the commit of a write without a body.
LEMMA BodylessStep ==
  ASSUME StorageInv, NEW w \in Worker, worker[w].pc \in {"next", "fetching"},
         NEW p, p.pc = "committing", p.content = worker[w].content,
         p.write.state # "DOWNLOADED", worker' = [worker EXCEPT ![w] = p],
         UNCHANGED <<stored, artifact, content, job>>
  PROVE  BodyCarried' /\ FileBeforeRow'
<1>1. worker[w].content = NoContent
  BY DEF StorageInv, BodyCarried, Carries
<1>2. Carries(p, stored[Head(p.batch)])
  BY <1>1 DEF Carries
<1> QED
  BY <1>2, CarryStep

\* The steps of the queue: rows may change, but none becomes DOWNLOADED.
LEMMA RowStep ==
  ASSUME StorageInv, UNCHANGED <<stored, artifact, content>>,
         \A d \in Document : job'[d].state = "DOWNLOADED" => job[d].state = "DOWNLOADED"
  PROVE  FileBeforeRow'
BY DEF StorageInv, FileBeforeRow

LEMMA FailStored ==
  ASSUME StorageInv, NEW w \in Worker, NEW q, worker' = [worker EXCEPT ![w] = Resting(q)],
         UNCHANGED <<stored, artifact, content>>,
         \A d \in Document : job'[d].state = "DOWNLOADED" => job[d].state = "DOWNLOADED"
  PROVE  BodyCarried' /\ FileBeforeRow'
<1>1. \A v \in Worker : worker'[v] = IF v = w THEN Resting(q) ELSE worker[v]
  BY DEF StorageInv, TypeInv, TypeOK
<1>2. ASSUME NEW v \in Worker
      PROVE  Carries(worker'[v], stored[Head(worker'[v].batch)])
  BY <1>1, RestingCarries DEF StorageInv, BodyCarried, Current
<1>3. BodyCarried'
  BY <1>2 DEF BodyCarried, Current, Carries
<1> QED
  BY <1>3, RowStep

LEMMA ClaimStored ==
  ASSUME StorageInv, NEW w \in Worker, Claim(w)
  PROVE  BodyCarried' /\ FileBeforeRow'
<1>0. PICK n \in 1..Batch : \E q \in [1..n -> Claimable] :
        /\ job' = [d \in Document |->
                     IF \E i \in 1..n : q[i] = d THEN Leased(job[d], w) ELSE job[d]]
        /\ worker' = [worker EXCEPT ![w] = Resting(q)]
  BY DEF Claim
<1>1. PICK q \in [1..n -> Claimable] :
        /\ job' = [d \in Document |->
                     IF \E i \in 1..n : q[i] = d THEN Leased(job[d], w) ELSE job[d]]
        /\ worker' = [worker EXCEPT ![w] = Resting(q)]
  BY <1>0
<1>2. ASSUME NEW d \in Document, job'[d].state = "DOWNLOADED" PROVE job[d].state = "DOWNLOADED"
  <2>1. Leased(job[d], w).state = "LEASED"
    BY RowOperationsFence DEF StorageInv, TypeInv, TypeOK
  <2> QED
    BY <1>1, <1>2, <2>1
<1> QED
  BY <1>1, <1>2, FailStored DEF Claim

\* The body is stored while the process is at "storing".
LEMMA StoreStored ==
  ASSUME StorageInv, NEW w \in Worker, Store(w)
  PROVE  BodyCarried' /\ FileBeforeRow'
<1> DEFINE d == Current(w)
<1>1. /\ worker[w].pc = "storing" /\ UNCHANGED <<artifact, content, job>>
      /\ stored' = [stored EXCEPT ![d] = @ \cup {worker[w].content}]
      /\ worker' = [worker EXCEPT ![w] = [@ EXCEPT !.pc = "committing"]]
  BY DEF Store
<1>2. d \in Document /\ worker[w] \in WorkerState
  BY <1>1, BusyTyped DEF StorageInv, TypeInv
<1>3. \A x \in Document : stored[x] \subseteq stored'[x]
  BY <1>1 DEF StorageInv, TypeInv, TypeOK
<1>4. worker[w].content \in stored'[d] /\ worker[w].content # NoContent
  BY <1>1, <1>2 DEF StorageInv, TypeInv, TypeOK, BodyCarried, Carries
<1>5. ASSUME NEW v \in Worker PROVE Carries(worker'[v], stored'[Current(v)'])
  <2>1. CASE v = w
    <3>1. /\ worker'[w].pc = "committing" /\ worker'[w].content = worker[w].content
          /\ worker'[w].batch = worker[w].batch
      BY <1>1, <1>2 DEF StorageInv, TypeInv, TypeOK, WorkerState
    <3> QED
      BY <2>1, <3>1, <1>4 DEF Carries, Current
  <2>2. CASE v # w
    <3>1. worker'[v] = worker[v] /\ Current(v)' = Current(v)
      BY <1>1, <2>2 DEF StorageInv, TypeInv, TypeOK, Current
    <3>2. Carries(worker[v], stored[Current(v)])
      BY DEF StorageInv, BodyCarried
    <3>3. worker[v].pc # "idle" => Current(v) \in Document
      BY BusyTyped DEF StorageInv, TypeInv
    <3> QED
      BY <3>1, <3>2, <3>3, <1>3 DEF Carries
  <2> QED
    BY <2>1, <2>2
<1>6. FileBeforeRow'
  BY <1>1, <1>3 DEF StorageInv, FileBeforeRow
<1> QED
  BY <1>5, <1>6 DEF BodyCarried, Carries, Current

\* The rows that refer to a body are written after it is stored.
LEMMA CommitStored ==
  ASSUME StorageInv, NEW w \in Worker, Commit(w)
  PROVE  BodyCarried' /\ FileBeforeRow'
<1> DEFINE d == Current(w)
           c == worker[w].content
           u == worker[w].write
<1>1. /\ worker[w].pc = "committing" /\ stored' = stored
      /\ job' = [job EXCEPT ![d] = Written(@, u)]
      /\ artifact' = [artifact EXCEPT ![d] = @ \cup ({c} \ {NoContent})]
      /\ content' = [content EXCEPT ![d] = IF c = NoContent THEN @ ELSE c]
      /\ worker' = [worker EXCEPT ![w] = Finished(w)]
  BY DEF Commit
<1>2. d \in Document /\ job[d] \in Job
  BY <1>1, BusyTyped DEF StorageInv, TypeInv
<1>3. c \in stored[d] \cup {NoContent} /\ (u.state = "DOWNLOADED" => c # NoContent)
  BY <1>1 DEF StorageInv, BodyCarried, Carries
<1>4. Written(job[d], u).state = u.state
  BY <1>2 DEF Written, Settled, Job
<1>5. \A x \in Document : x # d =>
        job'[x] = job[x] /\ artifact'[x] = artifact[x] /\ content'[x] = content[x]
  BY <1>1 DEF StorageInv, TypeInv, TypeOK
<1>6. /\ job'[d].state = u.state
      /\ artifact'[d] = artifact[d] \cup ({c} \ {NoContent})
      /\ content'[d] = IF c = NoContent THEN content[d] ELSE c
  BY <1>1, <1>2, <1>4 DEF StorageInv, TypeInv, TypeOK
<1>7. BodyCarried'
  <2>1. ASSUME NEW v \in Worker PROVE Carries(worker'[v], stored[Head(worker'[v].batch)])
    BY <1>1, RestingCarries DEF Finished, StorageInv, TypeInv, TypeOK, BodyCarried, Current
  <2> QED
    BY <1>1, <2>1 DEF BodyCarried, Current, Carries
<1> HIDE DEF d, c, u
<1>8. FileBeforeRow'
  <2>1. ASSUME NEW x \in Document
        PROVE  /\ artifact'[x] \subseteq stored'[x]
               /\ content'[x] \in artifact'[x] \cup {NoContent}
               /\ job'[x].state = "DOWNLOADED" => content'[x] # NoContent
    <3>1. CASE x = d
      BY <1>1, <1>3, <1>6, <3>1 DEF StorageInv, FileBeforeRow
    <3>2. CASE x # d
      BY <1>1, <1>5, <3>2 DEF StorageInv, FileBeforeRow
    <3> QED
      BY <3>1, <3>2
  <2> QED
    BY <2>1 DEF FileBeforeRow
<1> QED
  BY <1>7, <1>8

LEMMA ProcessStored ==
  ASSUME StorageInv, NEW w \in Worker, Process(w)
  PROVE  BodyCarried' /\ FileBeforeRow'
<1>0. worker[w] \in WorkerState
  BY DEF StorageInv, TypeInv, TypeOK
<1>1. CASE Open(w)
  <2> DEFINE p == [worker[w] EXCEPT !.pc = "fetching", !.token = job[Current(w)].lease.token]
  <2>1. /\ worker[w].pc = "next" /\ worker' = [worker EXCEPT ![w] = p]
        /\ UNCHANGED <<stored, artifact, content, job>>
    BY <1>1 DEF Open, ReadsOwnLease
  <2>2. p.pc = "fetching" /\ p.content = worker[w].content
    BY <1>0 DEF WorkerState
  <2>3. Carries(p, stored[Head(p.batch)])
    BY <2>1, <2>2 DEF StorageInv, BodyCarried, Carries
  <2> HIDE DEF p
  <2> QED
    BY <2>1, <2>3, CarryStep
<1>2. CASE Reject(w)
  <2> DEFINE p == [worker[w] EXCEPT !.pc = "committing", !.token = job[Current(w)].lease.token,
                     !.write = Settling("QUARANTINED")]
  <2>1. /\ worker[w].pc = "next" /\ worker' = [worker EXCEPT ![w] = p]
        /\ UNCHANGED <<stored, artifact, content, job>>
    BY <1>2 DEF Reject, ReadsOwnLease
  <2>2. p.pc = "committing" /\ p.content = worker[w].content /\ p.write.state # "DOWNLOADED"
    BY <1>0, BodylessWrites DEF WorkerState
  <2> HIDE DEF p
  <2> QED
    BY <2>1, <2>2, BodylessStep
<1>3. ASSUME NEW c \in Content, Fetched(w, c) PROVE BodyCarried' /\ FileBeforeRow'
  <2>1. PICK u : worker' = [worker EXCEPT ![w] =
                              [@ EXCEPT !.pc = "storing", !.content = c, !.write = u]]
    BY <1>3 DEF Fetched
  <2> DEFINE p == [worker[w] EXCEPT !.pc = "storing", !.content = c, !.write = u]
  <2>2. worker' = [worker EXCEPT ![w] = p] /\ UNCHANGED <<stored, artifact, content, job>>
    BY <1>3, <2>1 DEF Fetched
  <2>3. p.pc = "storing" /\ p.content # NoContent
    BY <1>0 DEF WorkerState
  <2>4. Carries(p, stored[Head(p.batch)])
    BY <2>3 DEF Carries
  <2> HIDE DEF p
  <2> QED
    BY <2>2, <2>4, CarryStep
<1>4. ASSUME NEW u, u.state # "DOWNLOADED", worker[w].pc = "fetching",
             worker' = [worker EXCEPT ![w] = [@ EXCEPT !.pc = "committing", !.write = u]],
             UNCHANGED <<stored, artifact, content, job>>
      PROVE  BodyCarried' /\ FileBeforeRow'
  <2> DEFINE p == [worker[w] EXCEPT !.pc = "committing", !.write = u]
  <2>1. worker' = [worker EXCEPT ![w] = p]
    BY <1>4
  <2>2. p.pc = "committing" /\ p.content = worker[w].content /\ p.write.state # "DOWNLOADED"
    BY <1>0, <1>4 DEF WorkerState
  <2> HIDE DEF p
  <2> QED
    BY <1>4, <2>1, <2>2, BodylessStep
<1>5. CASE NotModified(w)
  BY <1>4, <1>5, BodylessWrites DEF NotModified, Returns
<1>6. ASSUME NEW kind \in FailureKind, FetchFailed(w, kind)
      PROVE  BodyCarried' /\ FileBeforeRow'
  <2>1. PICK u : /\ worker' = [worker EXCEPT ![w] = [@ EXCEPT !.pc = "committing", !.write = u]]
                 /\ u.state # "DOWNLOADED"
    BY <1>6, BodylessWrites DEF FetchFailed
  <2> QED
    BY <1>4, <1>6, <2>1 DEF FetchFailed, Returns
<1>7. CASE LoseLease(w)
  BY <1>7, FailStored DEF LoseLease, Fail, Finished
<1>8. CASE Store(w)
  BY <1>8, StoreStored
<1>9. CASE Commit(w)
  BY <1>9, CommitStored
<1> QED
  BY <1>1, <1>2, <1>3, <1>5, <1>6, <1>7, <1>8, <1>9 DEF Process

LEMMA NextStored ==
  ASSUME StorageInv, [Next]_vars
  PROVE  BodyCarried' /\ FileBeforeRow'
<1>1. ASSUME UNCHANGED <<worker, stored>> PROVE BodyCarried'
  BY <1>1 DEF StorageInv, BodyCarried, Current, Carries
<1>2. ASSUME NEW d \in Document, NEW e \in BOOLEAN, NEW q \in BOOLEAN, Upsert(d, e, q)
      PROVE  BodyCarried' /\ FileBeforeRow'
  <2>1. Enqueued.state # "DOWNLOADED"
    BY DEF Enqueued
  <2> QED
    BY <1>1, <1>2, <2>1, RowStep DEF Upsert, StorageInv, TypeInv, TypeOK
<1>3. CASE RecoverExpired
  <2>1. \A d \in Document : Recovered(job[d]).state # "DOWNLOADED"
    BY DEF Recovered, StorageInv, TypeInv, TypeOK, Job
  <2> QED
    BY <1>1, <1>3, <2>1, RowStep DEF RecoverExpired
<1>4. CASE Tick
  BY <1>1, <1>4, RowStep DEF Tick
<1>5. ASSUME NEW w \in Worker, Abort(w) \/ Crash(w) PROVE BodyCarried' /\ FileBeforeRow'
  BY <1>5, FailStored DEF Abort, Crash, Fail, Finished, Idle
<1>6. ASSUME NEW w \in Worker, Renew(w) PROVE BodyCarried' /\ FileBeforeRow'
  <2>1. Renewed(job[Current(w)]).state = job[Current(w)].state
    <3>1. job[Current(w)] \in Job
      BY <1>6, BusyTyped DEF Renew, Returns, StorageInv, TypeInv
    <3> QED
      BY <3>1, RowOperationsFence
  <2> QED
    BY <1>1, <1>6, <2>1, RowStep DEF Renew, StorageInv, TypeInv, TypeOK
<1>7. CASE UNCHANGED vars
  BY <1>1, <1>7, RowStep DEF vars
<1> QED
  BY <1>2, <1>3, <1>4, <1>5, <1>6, <1>7, ClaimStored, ProcessStored DEF Next

\* Whatever dies, is aborted, recovered or retried, and however late a commit
\* is: no artifact row, and no content_sha256 of a manifest row, refers to a
\* body that storage.commit has not made durable, and DOWNLOADED implies one.
THEOREM StoredBeforeReferred == Spec => []FileBeforeRow
<1>1. Init => StorageInv
  <2> SUFFICES ASSUME Init PROVE StorageInv
    OBVIOUS
  <2>1. TypeInv
    BY InitFenceInv DEF FenceInv
  <2>2. BodyCarried /\ FileBeforeRow
    BY DEF Init, Idle, Resting, NoJob, BodyCarried, Carries, FileBeforeRow
  <2> QED
    BY <2>1, <2>2 DEF StorageInv
<1>2. StorageInv /\ [Next]_vars => StorageInv'
  BY NextTypeInv, NextStored DEF StorageInv
<1>3. StorageInv => FileBeforeRow
  BY DEF StorageInv
<1> QED
  BY <1>1, <1>2, <1>3, PTL DEF Spec

\* retry() quarantines a job whose attempts are exhausted and leaves its lease
\* on the row; _record_failure never calls it then, so no job row is left so.
THEOREM RetryNeverExhausted ==
  ASSUME NEW j \in Job, MaxAttempts \in Nat, DownloadMax \in Nat, WillRetry(j)
  PROVE  ~Exhausted(j)
  BY DEF WillRetry, Exhausted, Least, Job

-----------------------------------------------------------------------------
(* The worker keeps its books: retries are counted exactly, the audit      *)
(* trail agrees with the jobs, a job's state makes permitted moves only,   *)
(* and the queue implements JobLifecycle.  As above this needs prompt      *)
(* commits, or a deployment in which nothing recovers leases.              *)
(*                                                                         *)
(* The argument has three parts: what a step may do to one document's row  *)
(* and attempts (Moves), what each of these moves keeps (Ledger), and what *)
(* the processes know that limits them to these moves (Working).           *)

Limit == Least(MaxAttempts, DownloadMax)

Tokens(rows) == {a.token : a \in rows}
Retried(rows) == {a \in rows : a.outcome = "retried"}

\* The outcomes a worker settles a job with.
Outcomes ==
  {"UNCHANGED", "DOWNLOADED", "QUARANTINED", "LOGIN_REQUIRED",
   "REGISTRATION_REQUIRED", "CAPTCHA", "RESTRICTED", "NOT_FOUND"}

\* The books of one document: its job row and its attempts.
Ledger(j, rows) ==
  /\ j.state \in {"ABSENT", "QUEUED", "LEASED"} \cup Outcomes
  /\ j.state = "ABSENT" => rows = {} /\ j.attempts = 0 /\ j.grants = 0
  /\ j.state = "LEASED" => j.lease.token = j.grants
  /\ \A a \in rows : a.token <= j.grants
  /\ \A a, b \in rows : a.token = b.token => a = b
  /\ \A a \in rows : a.outcome \in {"open", "retried"} \cup Outcomes
  /\ \A a \in rows : a.outcome \in Outcomes => j.state = a.outcome
  /\ \A a, b \in rows : {a.outcome, b.outcome} \subseteq Outcomes => a = b
  /\ j.state = "LEASED" => \A a \in rows : a.token = j.grants => a.outcome = "open"
  /\ IsFiniteSet(rows)
  /\ j.attempts = Cardinality(Retried(rows))
  /\ j.attempts < Limit

\* A write that its transaction may commit.
Settles(u) == u.state \in Outcomes /\ u.outcome = u.state
Retries(u, j, rows) ==
  /\ u.state = "QUEUED" /\ u.outcome = "retried"
  /\ u.attempts = j.attempts + 1 /\ u.attempts < Limit
  /\ j.grants \in Tokens(rows)
Proper(u, j, rows) == Settles(u) \/ Retries(u, j, rows)

\* No attempt has been opened under the lease that w holds on d.
Unopened(w, d) == job[d].lease.owner = w => job[d].grants \notin Tokens(attempt[d])

\* What a process knows of the jobs of its batch.
Working(w) ==
  LET p == worker[w]
      d == Current(w)
  IN  /\ \A i, k \in 1..Len(p.batch) : p.batch[i] = p.batch[k] => i = k
      /\ p.pc \in {"fetching", "storing"} => p.token \in Tokens(attempt[d])
      /\ p.pc = "storing" => Settles(p.write)
      /\ p.pc = "committing" => Proper(p.write, job[d], attempt[d])
      /\ \A i \in 1..Len(p.batch) : i > 1 \/ p.pc = "next" => Unopened(w, p.batch[i])

Books == \A d \in Document : Ledger(job[d], attempt[d])
LedgerInv == FenceInv /\ Books /\ \A w \in Worker : Working(w)

------------------------------------------------------------------------------
(* What a step may do to one document.                                     *)

Keeps(d)    == attempt'[d] = attempt[d]
Stays(d)    == job'[d] = job[d] /\ Keeps(d)
Renews(d)   == job'[d] = Renewed(job[d]) /\ Keeps(d)
Enqueues(d) == job[d].state = "ABSENT" /\ job'[d] = Enqueued /\ Keeps(d)
Grants(d)   == /\ job[d].state = "QUEUED" /\ Keeps(d)
               /\ \E v \in Worker : job'[d] = Leased(job[d], v)
Lapses(d)   == job[d].state = "LEASED" /\ job'[d] = Recovered(job[d]) /\ Keeps(d)
Opens(w, d) ==
  /\ job[d].state = "LEASED" /\ job[d].lease.owner = w
  /\ job[d].grants \notin Tokens(attempt[d])
  /\ job'[d] = job[d]
  /\ \E n \in Nat : attempt'[d] = attempt[d] \cup
       {[token |-> job[d].grants, number |-> n, outcome |-> "open"]}
Acknowledges(d) ==
  /\ job[d].state = "LEASED"
  /\ \E u \in Write :
       /\ Proper(u, job[d], attempt[d])
       /\ job'[d] = Written(job[d], u)
       /\ attempt'[d] = Closed(attempt[d], job[d].grants, u.outcome)

\* Every move but the opening of an attempt, and every move but one of v's own.
Moves(d) ==
  \/ Stays(d) \/ Renews(d) \/ Enqueues(d) \/ Grants(d) \/ Lapses(d)
  \/ Acknowledges(d)
Spares(v, d) == Moves(d) \/ \E w : w # v /\ Opens(w, d)

LEMMA RowFields ==
  ASSUME NEW j \in Job
  PROVE  /\ Enqueued.state = "QUEUED" /\ Enqueued.lease.owner = NoOne
         /\ Enqueued.grants = 0 /\ Enqueued.attempts = 0
         /\ \A w : /\ Leased(j, w).state = "LEASED" /\ Leased(j, w).lease.owner = w
                   /\ Leased(j, w).grants = j.grants + 1
                   /\ Leased(j, w).lease.token = j.grants + 1
                   /\ Leased(j, w).attempts = j.attempts
         /\ Recovered(j).state = "QUEUED" /\ Recovered(j).lease.owner = NoOne
         /\ Recovered(j).grants = j.grants /\ Recovered(j).attempts = j.attempts
         /\ Renewed(j).state = j.state /\ Renewed(j).lease.owner = j.lease.owner
         /\ Renewed(j).lease.token = j.lease.token
         /\ Renewed(j).grants = j.grants /\ Renewed(j).attempts = j.attempts
         /\ \A u \in Write :
              /\ Written(j, u).state = u.state /\ Written(j, u).lease.owner = NoOne
              /\ Written(j, u).grants = j.grants
              /\ Written(j, u).attempts = IF u.state = "QUEUED" THEN u.attempts ELSE j.attempts
BY DEF Enqueued, Leased, Recovered, Renewed, Settled, Written, NoLease, NewLease, Job, Lease, Write

LEMMA OutcomesApart ==
  /\ Outcomes \subseteq SettledStates
  /\ \A s \in Outcomes : s \notin {"ABSENT", "QUEUED", "LEASED", "open", "retried"}
BY DEF Outcomes, SettledStates, TerminalStates

------------------------------------------------------------------------------
(* Every move keeps the books.                                             *)

\* Closing touches the one attempt of the token, if there is one.
LEMMA ClosedRows ==
  ASSUME NEW rows, rows \subseteq Attempt, NEW t, NEW o,
         \A a, b \in rows : a.token = b.token => a = b
  PROVE  /\ t \notin Tokens(rows) => Closed(rows, t, o) = rows
         /\ \A a \in rows : a.token = t =>
              Closed(rows, t, o) = (rows \ {a}) \cup {[a EXCEPT !.outcome = o]}
<1>1. t \notin Tokens(rows) => Closed(rows, t, o) = rows
  BY DEF Closed, Tokens
<1>2. ASSUME NEW a \in rows, a.token = t
      PROVE  Closed(rows, t, o) = (rows \ {a}) \cup {[a EXCEPT !.outcome = o]}
  <2>1. \A b \in rows : b.token = t <=> b = a
    BY <1>2
  <2> QED
    BY <2>1 DEF Closed
<1> QED
  BY <1>1, <1>2

\* A row that keeps its state, and attempts that stay.
LEMMA SameBooks ==
  ASSUME NEW j, NEW k, NEW rows, Ledger(j, rows), k.grants = j.grants,
         k.attempts = j.attempts, k.state = j.state, k.lease.token = j.lease.token
  PROVE  Ledger(k, rows)
BY DEF Ledger

LEMMA EnqueuesKeeps ==
  ASSUME TypeOK, NEW d \in Document, Ledger(job[d], attempt[d]), Enqueues(d)
  PROVE  Ledger(job'[d], attempt'[d])
<1>1. job[d] \in Job
  BY DEF TypeOK
<1>2. /\ job'[d].state = "QUEUED" /\ job'[d].attempts = job[d].attempts
      /\ job'[d].grants = job[d].grants /\ attempt'[d] = {} /\ attempt[d] = {}
  BY <1>1, RowFields DEF Enqueues, Keeps, Ledger
<1> QED
  BY <1>2 DEF Ledger

LEMMA GrantsKeeps ==
  ASSUME TypeOK, NEW d \in Document, Ledger(job[d], attempt[d]), Grants(d)
  PROVE  Ledger(job'[d], attempt'[d])
<1>1. job[d] \in Job /\ job[d].grants \in Nat /\ attempt[d] \subseteq Attempt
  BY DEF TypeOK, Job
<1>2. /\ job[d].state = "QUEUED" /\ job'[d].state = "LEASED"
      /\ job'[d].grants = job[d].grants + 1 /\ job'[d].lease.token = job[d].grants + 1
      /\ job'[d].attempts = job[d].attempts /\ attempt'[d] = attempt[d]
  BY <1>1, RowFields DEF Grants, Keeps
<1>3. \A a \in attempt[d] : a.token \in Nat
  BY <1>1 DEF Attempt
<1>4. \A a \in attempt[d] : a.token <= job[d].grants + 1 /\ a.token # job[d].grants + 1
  BY <1>1, <1>3 DEF Ledger
<1>5. \A a \in attempt[d] : a.outcome \notin Outcomes
  BY <1>2, OutcomesApart DEF Ledger
<1> QED
  BY <1>2, <1>4, <1>5 DEF Ledger

LEMMA LapsesKeeps ==
  ASSUME TypeOK, NEW d \in Document, Ledger(job[d], attempt[d]), Lapses(d)
  PROVE  Ledger(job'[d], attempt'[d])
<1>1. job[d] \in Job
  BY DEF TypeOK
<1>2. /\ job[d].state = "LEASED" /\ job'[d].state = "QUEUED"
      /\ job'[d].grants = job[d].grants
      /\ job'[d].attempts = job[d].attempts /\ attempt'[d] = attempt[d]
  BY <1>1, RowFields DEF Lapses, Keeps
<1>3. \A a \in attempt[d] : a.outcome \notin Outcomes
  BY <1>2, OutcomesApart DEF Ledger
<1> QED
  BY <1>2, <1>3 DEF Ledger

LEMMA OpensKeeps ==
  ASSUME TypeOK, NEW w, NEW d \in Document, Ledger(job[d], attempt[d]), Opens(w, d)
  PROVE  Ledger(job'[d], attempt'[d])
<1> DEFINE j == job[d]
           rows == attempt[d]
<1>1. PICK n \in Nat : attempt'[d] = rows \cup {[token |-> j.grants, number |-> n, outcome |-> "open"]}
  BY DEF Opens
<1> DEFINE new == [token |-> j.grants, number |-> n, outcome |-> "open"]
<1>2. new.token = j.grants /\ new.outcome = "open"
  OBVIOUS
<1>3. /\ job'[d] = j /\ j.state = "LEASED" /\ attempt'[d] = rows \cup {new}
      /\ j.grants \in Nat /\ \A a \in rows : a.token # j.grants
  BY <1>1 DEF Opens, Tokens, TypeOK, Job
<1>4. IsFiniteSet(rows \cup {new})
  <2>1. IsFiniteSet(rows)
    BY DEF Ledger
  <2> HIDE DEF rows, new
  <2> QED
    BY <2>1, FS_AddElement
<1> HIDE DEF new
<1>5. Retried(rows \cup {new}) = Retried(rows)
  BY <1>2 DEF Retried
<1>6. "open" \notin Outcomes
  BY OutcomesApart
<1> HIDE DEF j, rows
<1>7. Ledger(j, rows)
  BY DEF j, rows
<1> QED
  BY <1>2, <1>3, <1>4, <1>5, <1>6, <1>7 DEF Ledger

LEMMA AcknowledgesKeeps ==
  ASSUME TypeOK, NEW d \in Document, Ledger(job[d], attempt[d]), Acknowledges(d)
  PROVE  Ledger(job'[d], attempt'[d])
<1> DEFINE j == job[d]
           rows == attempt[d]
           t == j.grants
<1>1. PICK u \in Write :
        /\ Proper(u, j, rows)
        /\ job'[d] = Written(j, u)
        /\ attempt'[d] = Closed(rows, t, u.outcome)
  BY DEF Acknowledges
<1> DEFINE k == job'[d]
           o == u.outcome
           new == Closed(rows, t, o)
<1>2. j \in Job /\ rows \subseteq Attempt /\ t \in Nat /\ j.attempts \in Nat
  BY DEF TypeOK, Job
<1>3. /\ k.state = u.state /\ k.grants = t
      /\ k.attempts = IF u.state = "QUEUED" THEN u.attempts ELSE j.attempts
  BY <1>1, <1>2, RowFields
<1>4. j.state = "LEASED" /\ Ledger(j, rows)
  BY DEF Acknowledges
<1>5. \A a \in rows : a.outcome \notin Outcomes
  BY <1>4, OutcomesApart DEF Ledger
<1>6. \A a, b \in rows : a.token = b.token => a = b
  BY <1>4 DEF Ledger
<1>7. /\ t \notin Tokens(rows) => new = rows
      /\ \A a \in rows : a.token = t => new = (rows \ {a}) \cup {[a EXCEPT !.outcome = o]}
  BY <1>2, <1>6, ClosedRows
<1>8. attempt'[d] = new
  BY <1>1
<1> HIDE DEF new, k, j, rows, t, o
<1>9. CASE t \notin Tokens(rows)
  <2>1. new = rows
    BY <1>7, <1>9
  <2>2. u.state \in Outcomes
    BY <1>1, <1>9 DEF Proper, Settles, Retries, t, j, rows
  <2>3. k.attempts = j.attempts /\ k.state \in Outcomes /\ k.grants = j.grants
    BY <1>3, <2>2, OutcomesApart DEF t
  <2>4. Ledger(k, rows)
    BY <1>4, <1>5, <2>3, OutcomesApart DEF Ledger
  <2> QED
    BY <1>8, <2>1, <2>4 DEF k
<1>10. CASE t \in Tokens(rows)
  <2>1. PICK a \in rows : a.token = t
    BY <1>10 DEF Tokens
  <2> DEFINE c == [a EXCEPT !.outcome = o]
  <2>2. a \in Attempt /\ a.outcome = "open"
    BY <1>2, <1>4, <2>1 DEF Ledger, t
  <2>3. c.token = t /\ c.outcome = o
    BY <2>1, <2>2 DEF Attempt
  <2>4. new = (rows \ {a}) \cup {c}
    BY <1>7, <2>1
  <2> HIDE DEF c
  <2>5. \A b \in rows : b.token = t => b = a
    BY <1>6, <2>1
  <2>6. c \in rows => c = a
    BY <2>3, <2>5
  <2>7. IsFiniteSet(new) /\ IsFiniteSet(Retried(rows))
    <3>1. IsFiniteSet(rows)
      BY <1>4 DEF Ledger
    <3>2. IsFiniteSet(rows \ {a})
      BY <3>1, FS_RemoveElement
    <3>3. IsFiniteSet(new)
      BY <2>4, <3>2, FS_AddElement
    <3>4. Retried(rows) \in SUBSET rows
      BY DEF Retried
    <3> QED
      BY <3>1, <3>3, <3>4, FS_Subset
  <2>8. \A b \in new : b.token <= t
    BY <1>2, <1>4, <2>3, <2>4 DEF Ledger, t
  <2>9. \A b, e \in new : b.token = e.token => b = e
    BY <1>6, <2>3, <2>4, <2>5
  <2>10. CASE Settles(u)
    <3>1. o \in Outcomes /\ k.state = o /\ k.attempts = j.attempts
      BY <1>3, <2>10, OutcomesApart DEF Settles, o
    <3>2. \A b \in new : b.outcome \in Outcomes <=> b = c
      BY <1>5, <2>3, <2>4, <3>1
    <3>3. Retried(new) = Retried(rows)
      <4>1. o # "retried"
        BY <3>1, OutcomesApart
      <4> QED
        BY <2>2, <2>3, <2>4, <4>1 DEF Retried
    <3>4. k.state # "LEASED" /\ k.state # "ABSENT"
      BY <3>1, OutcomesApart
    <3>5. \A b \in new : b.outcome \in {"open", "retried"} \cup Outcomes
      BY <1>4, <2>3, <2>4, <3>1 DEF Ledger
    <3>6. \A b, e \in new : {b.outcome, e.outcome} \subseteq Outcomes => b = e
      BY <3>2
    <3>7. \A b \in new : b.outcome \in Outcomes => k.state = b.outcome
      BY <2>3, <3>1, <3>2
    <3>8. j.attempts = Cardinality(Retried(rows)) /\ j.attempts < Limit
      BY <1>4 DEF Ledger
    <3>9. Ledger(k, new)
      BY <1>3, <2>7, <2>8, <2>9, <3>1, <3>3, <3>4, <3>5, <3>6, <3>7, <3>8 DEF Ledger
    <3> QED
      BY <1>8, <3>9 DEF k
  <2>11. CASE Retries(u, j, rows)
    <3>1. /\ o = "retried" /\ k.state = "QUEUED" /\ k.attempts = j.attempts + 1
          /\ k.attempts < Limit
      BY <1>3, <2>11 DEF Retries, o
    <3>2. \A b \in new : b.outcome \notin Outcomes
      BY <1>5, <2>3, <2>4, <3>1, OutcomesApart
    <3>3. Retried(new) = Retried(rows) \cup {c} /\ c \notin Retried(rows)
      BY <2>2, <2>3, <2>4, <2>6, <3>1 DEF Retried
    <3>4. Cardinality(Retried(new)) = Cardinality(Retried(rows)) + 1
      BY <2>7, <3>3, FS_AddElement
    <3>5. \A b \in new : b.outcome \in {"open", "retried"} \cup Outcomes
      BY <1>4, <2>3, <2>4, <3>1 DEF Ledger
    <3>6. j.attempts = Cardinality(Retried(rows))
      BY <1>4 DEF Ledger
    <3>7. Ledger(k, new)
      BY <1>3, <2>7, <2>8, <2>9, <3>1, <3>2, <3>4, <3>5, <3>6 DEF Ledger
    <3> QED
      BY <1>8, <3>7 DEF k
  <2> QED
    BY <1>1, <2>10, <2>11 DEF Proper, j, rows
<1> QED
  BY <1>9, <1>10

LEMMA MovesKeep ==
  ASSUME TypeOK, NEW w, NEW d \in Document, Ledger(job[d], attempt[d]), Moves(d) \/ Opens(w, d)
  PROVE  Ledger(job'[d], attempt'[d])
<1>1. CASE Stays(d)
  BY <1>1 DEF Stays, Keeps
<1>2. CASE Renews(d)
  <2>1. job[d] \in Job
    BY DEF TypeOK
  <2> QED
    BY <1>2, <2>1, RowFields, SameBooks DEF Renews, Keeps
<1> QED
  BY <1>1, <1>2, EnqueuesKeeps, GrantsKeeps, LapsesKeeps, OpensKeeps, AcknowledgesKeeps DEF Moves

------------------------------------------------------------------------------
(* What a process knows stays true while others move.                      *)

LEMMA TokensKept ==
  ASSUME TypeOK, NEW w, NEW d \in Document, Ledger(job[d], attempt[d]), Moves(d) \/ Opens(w, d)
  PROVE  Tokens(attempt[d]) \subseteq Tokens(attempt'[d])
<1>1. CASE Keeps(d)
  BY <1>1 DEF Keeps
<1>2. CASE Opens(w, d)
  BY <1>2 DEF Opens, Tokens
<1>3. CASE Acknowledges(d)
  <2>1. PICK u \in Write : attempt'[d] = Closed(attempt[d], job[d].grants, u.outcome)
    BY <1>3 DEF Acknowledges
  <2>2. attempt[d] \subseteq Attempt
    BY DEF TypeOK
  <2>3. \A a \in attempt[d] : [a EXCEPT !.outcome = u.outcome].token = a.token
    BY <2>2 DEF Attempt
  <2>4. ASSUME NEW a \in attempt[d] PROVE \E b \in attempt'[d] : b.token = a.token
    <3>1. CASE a.token = job[d].grants
      <4>1. [a EXCEPT !.outcome = u.outcome] \in attempt'[d]
        BY <2>1, <3>1 DEF Closed
      <4> QED
        BY <2>3, <4>1
    <3>2. CASE a.token # job[d].grants
      BY <2>1, <3>2 DEF Closed
    <3> QED
      BY <3>1, <3>2
  <2> QED
    BY <2>4 DEF Tokens
<1> QED
  BY <1>1, <1>2, <1>3 DEF Moves, Stays, Renews, Enqueues, Grants, Lapses

\* A lease under which nothing is opened stays so until its owner opens.
LEMMA UnopenedKept ==
  ASSUME TypeOK, NEW v \in Worker, NEW d \in Document, Ledger(job[d], attempt[d]),
         Spares(v, d), Unopened(v, d)
  PROVE  job'[d].lease.owner = v => job'[d].grants \notin Tokens(attempt'[d])
<1> SUFFICES ASSUME job'[d].lease.owner = v
             PROVE  job'[d].grants \notin Tokens(attempt'[d])
  OBVIOUS
<1>1. job[d] \in Job /\ job[d].grants \in Nat /\ attempt[d] \subseteq Attempt /\ v # NoOne
  BY QueueAssumption DEF TypeOK, Job
<1>2. CASE Stays(d) \/ Renews(d)
  <2>1. /\ job'[d].lease.owner = job[d].lease.owner /\ job'[d].grants = job[d].grants
        /\ attempt'[d] = attempt[d]
    BY <1>1, <1>2, RowFields DEF Stays, Renews, Keeps
  <2> QED
    BY <2>1 DEF Unopened
<1>3. CASE Enqueues(d) \/ Lapses(d)
  BY <1>1, <1>3, RowFields DEF Enqueues, Lapses
<1>4. CASE Acknowledges(d)
  BY <1>1, <1>4, RowFields DEF Acknowledges
<1>5. CASE Grants(d)
  <2>1. job'[d].grants = job[d].grants + 1 /\ attempt'[d] = attempt[d]
    BY <1>1, <1>5, RowFields DEF Grants, Keeps
  <2>2. \A a \in attempt[d] : a.token \in Nat /\ a.token <= job[d].grants
    BY <1>1 DEF Ledger, Attempt
  <2> QED
    BY <1>1, <2>1, <2>2 DEF Tokens
<1>6. CASE \E w : w # v /\ Opens(w, d)
  BY <1>6 DEF Opens
<1> QED
  BY <1>2, <1>3, <1>4, <1>5, <1>6 DEF Spares, Moves

\* A write that was proper is so while its process holds the lease.
LEMMA ProperKept ==
  ASSUME TypeOK, NEW v \in Worker, NEW d \in Document, Ledger(job[d], attempt[d]),
         Spares(v, d), NEW u, Proper(u, job[d], attempt[d]),
         job[d].state = "LEASED", job[d].lease.owner = v, job'[d].state = "LEASED"
  PROVE  Proper(u, job'[d], attempt'[d])
<1>1. job[d] \in Job
  BY DEF TypeOK
<1>2. CASE Stays(d) \/ Renews(d)
  <2>1. /\ job'[d].grants = job[d].grants /\ job'[d].attempts = job[d].attempts
        /\ attempt'[d] = attempt[d]
    BY <1>1, <1>2, RowFields DEF Stays, Renews, Keeps
  <2> QED
    BY <2>1 DEF Proper, Retries
<1>3. CASE Acknowledges(d)
  <2>1. PICK x \in Write : Proper(x, job[d], attempt[d]) /\ job'[d] = Written(job[d], x)
    BY <1>3 DEF Acknowledges
  <2>2. job'[d].state = x.state
    BY <1>1, <2>1, RowFields
  <2> QED
    BY <2>1, <2>2, OutcomesApart DEF Proper, Settles, Retries
<1>4. CASE Lapses(d)
  BY <1>1, <1>4, RowFields DEF Lapses
<1> QED
  BY <1>2, <1>3, <1>4 DEF Spares, Moves, Enqueues, Grants, Opens

LEMMA Bystander ==
  ASSUME LedgerInv, TypeOK', Fenced', NEW v \in Worker, worker'[v] = worker[v],
         \A d \in Document : Spares(v, d)
  PROVE  Working(v)'
<1> DEFINE p == worker[v]
           d == Current(v)
<1>1. TypeOK /\ Fenced /\ Books /\ Working(v)
  BY DEF LedgerInv, FenceInv, TypeInv
<1>2. p \in WorkerState /\ p.batch \in Seq(Document) /\ Current(v)' = d
  BY <1>1 DEF TypeOK, WorkerState, Current
<1>3. p.pc # "idle" => d \in Document
  BY <1>1, BusyTyped
<1>4. p.pc \in {"fetching", "storing"} => p.token \in Tokens(attempt'[d])
  <2> SUFFICES ASSUME p.pc \in {"fetching", "storing"} PROVE p.token \in Tokens(attempt'[d])
    OBVIOUS
  <2>1. d \in Document /\ p.token \in Tokens(attempt[d])
    BY <1>1, <1>3 DEF Working
  <2>2. \E w : Moves(d) \/ Opens(w, d)
    BY <2>1 DEF Spares
  <2> QED
    BY <1>1, <2>1, <2>2, TokensKept DEF Books
<1>5. p.pc = "committing" => Proper(p.write, job'[d], attempt'[d])
  <2> SUFFICES ASSUME p.pc = "committing" PROVE Proper(p.write, job'[d], attempt'[d])
    OBVIOUS
  <2>1. d \in Document /\ Proper(p.write, job[d], attempt[d])
    BY <1>1, <1>3 DEF Working
  <2>2. Secure(v) /\ Secure(v)'
    BY <1>1 DEF Fenced, Validated
  <2>3. job[d].state = "LEASED" /\ job[d].lease.owner = v /\ job'[d].state = "LEASED"
    BY <1>2, <2>2 DEF Secure
  <2> QED
    BY <1>1, <2>1, <2>3, ProperKept DEF Books
<1>6. ASSUME NEW i \in 1..Len(p.batch), i > 1 \/ p.pc = "next"
      PROVE  Unopened(v, p.batch[i])'
  <2>1. p.batch[i] \in Document /\ Unopened(v, p.batch[i])
    BY <1>1, <1>2, <1>6 DEF Working
  <2> DEFINE e == p.batch[i]
  <2>2. e = worker'[v].batch[i]
    OBVIOUS
  <2>3. job'[e].lease.owner = v => job'[e].grants \notin Tokens(attempt'[e])
    BY <1>1, <2>1, UnopenedKept DEF Books
  <2> QED
    BY <2>2, <2>3 DEF Unopened
<1>7. \A i, k \in 1..Len(p.batch) : p.batch[i] = p.batch[k] => i = k
  BY <1>1 DEF Working
<1>8. p.pc = "storing" => Settles(p.write)
  BY <1>1 DEF Working
<1> QED
  BY <1>2, <1>4, <1>5, <1>6, <1>7, <1>8 DEF Working, Proper, Settles, Retries, Tokens, Limit, Unopened

------------------------------------------------------------------------------
(* The queue's own steps: no process moves.                                *)

LEMMA QueueMoves ==
  ASSUME TypeOK, NEW d \in Document,
         \/ \E x \in Document, e, q \in BOOLEAN : Upsert(x, e, q)
         \/ RecoverExpired \/ Tick
         \/ \E w \in Worker : Renew(w)
         \/ UNCHANGED vars
  PROVE  Moves(d) /\ worker' = worker
<1>1. ASSUME NEW x \in Document, NEW e \in BOOLEAN, NEW q \in BOOLEAN, Upsert(x, e, q)
      PROVE  Moves(d) /\ worker' = worker
  BY <1>1 DEF Upsert, Moves, Stays, Enqueues, Keeps, TypeOK
<1>2. CASE RecoverExpired
  BY <1>2 DEF RecoverExpired, Expired, Moves, Stays, Lapses, Keeps, TypeOK
<1>3. CASE Tick \/ UNCHANGED vars
  BY <1>3 DEF Tick, vars, Moves, Stays, Keeps
<1>4. ASSUME NEW w \in Worker, Renew(w) PROVE Moves(d) /\ worker' = worker
  BY <1>4 DEF Renew, Moves, Stays, Renews, Keeps, TypeOK
<1> QED
  BY <1>1, <1>2, <1>3, <1>4

------------------------------------------------------------------------------
(* The steps of a process.                                                 *)

\* A process that begins a batch, or goes on with the rest of one.
LEMMA RestingWorks ==
  ASSUME TypeOK, NEW w \in Worker, NEW q \in Seq(Document),
         worker' = [worker EXCEPT ![w] = Resting(q)],
         \A i, k \in 1..Len(q) : q[i] = q[k] => i = k,
         \A i \in 1..Len(q) : job'[q[i]].lease.owner = w =>
                                job'[q[i]].grants \notin Tokens(attempt'[q[i]])
  PROVE  Working(w)'
<1>1. worker'[w] = Resting(q)
  BY DEF TypeOK
<1>2. worker'[w].batch = q /\ worker'[w].pc \in {"idle", "next"}
  BY <1>1, RestingTyped
<1> QED
  BY <1>2 DEF Working, Unopened, Tokens

\* Dropping the first job of a batch.
LEMMA FinishedWorks ==
  ASSUME LedgerInv, NEW w \in Worker, worker[w].pc # "idle",
         worker' = [worker EXCEPT ![w] = Finished(w)],
         \A d \in Document : Spares(w, d)
  PROVE  Working(w)'
<1> DEFINE s == worker[w].batch
           q == Tail(s)
<1>1. TypeOK /\ Books /\ Working(w)
  BY DEF LedgerInv, FenceInv, TypeInv
<1>2. s \in Seq(Document) /\ s # <<>>
  BY <1>1 DEF TypeOK, WorkerState
<1>3. /\ q \in Seq(Document) /\ Len(q) = Len(s) - 1 /\ Len(s) \in Nat
      /\ \A i \in 1..Len(q) : q[i] = s[i + 1] /\ i + 1 \in 1..Len(s)
  BY <1>2
<1>4. \A i, k \in 1..Len(s) : s[i] = s[k] => i = k
  BY <1>1 DEF Working
<1>5. \A i, k \in 1..Len(q) : q[i] = q[k] => i = k
  BY <1>3, <1>4
<1>6. ASSUME NEW i \in 1..Len(q)
      PROVE  job'[q[i]].lease.owner = w => job'[q[i]].grants \notin Tokens(attempt'[q[i]])
  <2>1. q[i] \in Document /\ q[i] = s[i + 1] /\ i + 1 \in 1..Len(s) /\ i + 1 > 1
    BY <1>3
  <2>2. Unopened(w, q[i])
    BY <1>1, <2>1 DEF Working
  <2> HIDE DEF q
  <2> QED
    BY <1>1, <2>1, <2>2, UnopenedKept DEF Books
<1>7. worker' = [worker EXCEPT ![w] = Resting(q)]
  BY DEF Finished
<1> HIDE DEF q
<1> QED
  BY <1>1, <1>3, <1>5, <1>6, <1>7, RestingWorks

\* Going on with the current job.
LEMMA BusyWorks ==
  ASSUME LedgerInv, NEW w \in Worker, NEW p, worker' = [worker EXCEPT ![w] = p],
         p.batch = worker[w].batch, p.pc # "next", UNCHANGED <<job, attempt>>,
         p.pc \in {"fetching", "storing"} => p.token \in Tokens(attempt[Current(w)]),
         p.pc = "storing" => Settles(p.write),
         p.pc = "committing" => Proper(p.write, job[Current(w)], attempt[Current(w)])
  PROVE  Working(w)'
<1>1. Working(w) /\ worker'[w] = p /\ Current(w)' = Current(w)
  BY DEF LedgerInv, FenceInv, TypeInv, TypeOK, Current
<1>2. \A i \in 1..Len(p.batch) : i > 1 => Unopened(w, p.batch[i])
  BY <1>1 DEF Working
<1> QED
  BY <1>1, <1>2 DEF Working, Unopened, Proper, Settles, Retries, Tokens, Limit

\* Claimed documents are in the order of the queue and so all different.
LEMMA SelectedApart ==
  ASSUME TypeOK, NEW n \in Nat, NEW q \in [1..n -> Claimable], SelectedBy(q, Batch)
  PROVE  \A i, k \in 1..n : q[i] = q[k] => i = k
<1>1. \A d \in Document : ~Precedes(d, d)
  <2> SUFFICES ASSUME NEW d \in Document PROVE ~Precedes(d, d)
    OBVIOUS
  <2>0. \A x \in Int : ~(x < x) /\ ~(x > x)
    OBVIOUS
  <2>1. job[d] \in Job /\ Priority[d] \in 0..100 /\ d \in Nat
    BY QueueAssumption DEF TypeOK
  <2>2. job[d].next \in Int /\ job[d].created \in Nat
    BY <2>1 DEF Job
  <2>3. Priority[d] \in Int /\ d \in Int
    <3>1. \A x \in 0..100 : x \in Int
      OBVIOUS
    <3>2. Priority[d] \in Int
      BY <2>1, <3>1
    <3>3. d \in Int
      BY <2>1
    <3> QED
      BY <3>2, <3>3
  <2>4. ~(Priority[d] > Priority[d]) /\ ~(d < d)
    BY <2>0, <2>3
  <2>5. ~(job[d].next < job[d].next) /\ ~(job[d].created < job[d].created)
    BY <2>0, <2>2
  <2> QED
    BY <2>4, <2>5 DEF Precedes
<1>2. \A i, k \in 1..n : i < k => Precedes(q[i], q[k])
  BY DEF SelectedBy
<1>3. \A i \in 1..n : q[i] \in Document
  BY DEF Claimable
<1>4. \A i, k \in 1..n : i < k \/ k < i \/ i = k
  OBVIOUS
<1> QED
  BY <1>1, <1>2, <1>3, <1>4, Zenon

LEMMA ClaimMoves ==
  ASSUME LedgerInv, NEW w \in Worker, Claim(w)
  PROVE  Working(w)' /\ \A d \in Document : Moves(d)
<1>0. PICK n \in 1..Batch : \E q \in [1..n -> Claimable] :
        /\ SelectedBy(q, Batch)
        /\ job' = [d \in Document |->
                     IF \E i \in 1..n : q[i] = d THEN Leased(job[d], w) ELSE job[d]]
        /\ worker' = [worker EXCEPT ![w] = Resting(q)]
  BY DEF Claim
<1>1. PICK q \in [1..n -> Claimable] :
        /\ SelectedBy(q, Batch)
        /\ job' = [d \in Document |->
                     IF \E i \in 1..n : q[i] = d THEN Leased(job[d], w) ELSE job[d]]
        /\ worker' = [worker EXCEPT ![w] = Resting(q)]
  BY <1>0
<1>2. TypeOK /\ Books /\ attempt' = attempt
  BY DEF LedgerInv, FenceInv, TypeInv, Claim
<1>3. ASSUME NEW d \in Document
      PROVE  /\ Moves(d)
             /\ (\E i \in 1..n : q[i] = d) => Grants(d)
  <2>1. CASE \E i \in 1..n : q[i] = d
    <3>1. job[d].state = "QUEUED"
      BY <2>1 DEF Claimable
    <3>2. job'[d] = Leased(job[d], w)
      BY <1>1, <2>1
    <3> QED
      BY <1>2, <3>1, <3>2 DEF Moves, Grants, Keeps
  <2>2. CASE ~\E i \in 1..n : q[i] = d
    BY <1>1, <1>2, <2>2 DEF Moves, Stays, Keeps
  <2> QED
    BY <2>1, <2>2
<1>4. n \in Nat /\ q \in Seq(Document) /\ Len(q) = n
  BY WorkerAssumption DEF Claimable
<1>5. \A i, k \in 1..n : q[i] = q[k] => i = k
  BY <1>1, <1>2, <1>4, SelectedApart
<1>6. ASSUME NEW i \in 1..n PROVE job'[q[i]].grants \notin Tokens(attempt'[q[i]])
  <2> DEFINE d == q[i]
  <2>1. d \in Document /\ Grants(d)
    BY <1>3 DEF Claimable
  <2>2. job[d] \in Job /\ job[d].grants \in Nat /\ attempt[d] \subseteq Attempt
    BY <1>2, <2>1 DEF TypeOK, Job
  <2>3. job'[d].grants = job[d].grants + 1
    BY <2>1, <2>2, RowFields DEF Grants
  <2>4. \A a \in attempt[d] : a.token \in Nat /\ a.token <= job[d].grants
    <3>1. \A a \in attempt[d] : a.token \in Nat
      BY <2>2 DEF Attempt
    <3>2. Ledger(job[d], attempt[d])
      BY <1>2, <2>1 DEF Books
    <3>3. \A a \in attempt[d] : a.token <= job[d].grants
      BY <3>2 DEF Ledger
    <3> QED
      BY <3>1, <3>3
  <2> QED
    BY <1>2, <2>2, <2>3, <2>4 DEF Tokens
<1>7. Working(w)'
  BY <1>1, <1>2, <1>4, <1>5, <1>6, RestingWorks
<1> QED
  BY <1>3, <1>7

\* The job of a process that has just validated its lease.
LEMMA HeldJob ==
  ASSUME LedgerInv, NEW w \in Worker, worker[w].pc # "idle", NEW t,
         HoldsLease(job[Current(w)], w, t)
  PROVE  /\ Current(w) \in Document
         /\ job[Current(w)].state = "LEASED" /\ job[Current(w)].lease.owner = w
         /\ job[Current(w)].grants = t
<1>1. Current(w) \in Document
  BY BusyTyped DEF LedgerInv, FenceInv, TypeInv
<1>2. job[Current(w)].lease.owner = w /\ job[Current(w)].lease.token = t
  BY DEF HoldsLease
<1>3. job[Current(w)].state = "LEASED"
  BY <1>1, <1>2, QueueAssumption DEF LedgerInv, FenceInv, Fenced, LeaseColumns
<1> QED
  BY <1>1, <1>2, <1>3 DEF LedgerInv, Books, Ledger

LEMMA OpenMoves ==
  ASSUME LedgerInv, NEW w \in Worker, Open(w)
  PROVE  Working(w)' /\ \A d \in Document : Moves(d) \/ Opens(w, d)
<1> DEFINE c == Current(w)
           t == job[c].lease.token
           new == [token |-> t, number |-> job[c].attempts + 1, outcome |-> "open"]
           p == [worker[w] EXCEPT !.pc = "fetching", !.token = t]
<1>1. /\ worker[w].pc = "next" /\ HoldsLease(job[c], w, t) /\ job' = job
      /\ attempt' = [attempt EXCEPT ![c] = @ \cup {new}]
      /\ worker' = [worker EXCEPT ![w] = p]
  BY DEF Open, ReadsOwnLease
<1>2. TypeOK /\ Working(w) /\ worker[w] \in WorkerState /\ worker[w].batch \in Seq(Document)
  BY DEF LedgerInv, FenceInv, TypeInv, TypeOK, WorkerState
<1>3. c \in Document /\ job[c].state = "LEASED" /\ job[c].lease.owner = w /\ job[c].grants = t
  BY <1>1, HeldJob
<1>4. worker[w].batch # <<>>
  BY <1>1, <1>2 DEF TypeOK
<1>5. 1 \in 1..Len(worker[w].batch) /\ c = worker[w].batch[1]
  BY <1>2, <1>4 DEF Current
<1>6. t \notin Tokens(attempt[c])
  BY <1>1, <1>2, <1>3, <1>5 DEF Working, Unopened
<1>7. job[c].attempts + 1 \in Nat
  <2>1. job[c] \in Job
    BY <1>2, <1>3 DEF TypeOK
  <2>2. job[c].attempts \in Nat
    BY <2>1 DEF Job
  <2> QED
    BY <2>2
<1>8. attempt'[c] = attempt[c] \cup {new}
  BY <1>1, <1>2, <1>3 DEF TypeOK
<1>9. Opens(w, c)
  BY <1>1, <1>3, <1>6, <1>7, <1>8 DEF Opens
<1>10. \A d \in Document : d # c => Moves(d)
  BY <1>1, <1>2 DEF Moves, Stays, Keeps, TypeOK
<1>11. /\ worker'[w] = p /\ p.pc = "fetching" /\ p.batch = worker[w].batch /\ p.token = t
       /\ Current(w)' = c
  BY <1>1, <1>2 DEF TypeOK, WorkerState, Current
<1>12. t \in Tokens(attempt'[c])
  <2>1. new \in attempt'[c] /\ new.token = t
    BY <1>8
  <2> QED
    BY <2>1 DEF Tokens
<1>13. ASSUME NEW i \in 1..Len(worker'[w].batch), i > 1
       PROVE  Unopened(w, worker[w].batch[i])'
  <2> DEFINE e == worker[w].batch[i]
  <2>1. Unopened(w, e) /\ e # c /\ e = worker'[w].batch[i] /\ e \in Document
    BY <1>2, <1>5, <1>11, <1>13 DEF Working
  <2>2. attempt'[e] = attempt[e]
    BY <1>1, <1>2, <2>1 DEF TypeOK
  <2>3. job'[e].lease.owner = w => job'[e].grants \notin Tokens(attempt'[e])
    BY <1>1, <2>1, <2>2 DEF Unopened
  <2> QED
    BY <2>1, <2>3 DEF Unopened, Tokens
<1>14. Working(w)'
  <2>1. \A i, k \in 1..Len(p.batch) : p.batch[i] = p.batch[k] => i = k
    BY <1>2, <1>11 DEF Working
  <2> HIDE DEF p, new, t, c
  <2>2. \A i \in 1..Len(worker'[w].batch) :
          i > 1 \/ worker'[w].pc = "next" => Unopened(w, worker[w].batch[i])'
    BY <1>11, <1>13
  <2>3. worker'[w].token \in Tokens(attempt[Current(w)])'
    BY <1>11, <1>12 DEF Tokens
  <2> QED
    BY <1>11, <2>1, <2>2, <2>3 DEF Working
<1> QED
  BY <1>9, <1>10, <1>14

LEMMA CommitMoves ==
  ASSUME LedgerInv, NEW w \in Worker, Commit(w)
  PROVE  Working(w)' /\ \A d \in Document : Moves(d)
<1> DEFINE c == Current(w)
           u == worker[w].write
<1>1. /\ worker[w].pc = "committing"
      /\ job' = [job EXCEPT ![c] = Written(@, u)]
      /\ attempt' = [attempt EXCEPT ![c] = Closed(@, worker[w].token, u.outcome)]
      /\ worker' = [worker EXCEPT ![w] = Finished(w)]
  BY DEF Commit
<1>2. TypeOK /\ Fenced /\ Books /\ Working(w)
  BY DEF LedgerInv, FenceInv, TypeInv
<1>3. c \in Document /\ u \in Write
  BY <1>1, <1>2, BusyTyped DEF WorkerState
<1>4. Secure(w)
  BY <1>1, <1>2 DEF Fenced, Validated
<1>5. job[c].state = "LEASED" /\ job[c].grants = worker[w].token
  BY <1>2, <1>3, <1>4 DEF Secure, Books, Ledger
<1>6. Proper(u, job[c], attempt[c])
  BY <1>1, <1>2 DEF Working
<1>7. job'[c] = Written(job[c], u) /\ attempt'[c] = Closed(attempt[c], worker[w].token, u.outcome)
  BY <1>1, <1>2, <1>3 DEF TypeOK
<1>8. Acknowledges(c)
  BY <1>3, <1>5, <1>6, <1>7 DEF Acknowledges
<1>9. \A d \in Document : d # c => Stays(d)
  BY <1>1, <1>2 DEF Stays, Keeps, TypeOK
<1>10. \A d \in Document : Moves(d)
  BY <1>8, <1>9 DEF Moves
<1> QED
  BY <1>1, <1>10, FinishedWorks DEF Spares

LEMMA ProcessMoves ==
  ASSUME LedgerInv, NEW w \in Worker, Process(w)
  PROVE  Working(w)' /\ \A d \in Document : Moves(d) \/ Opens(w, d)
<1> DEFINE c == Current(w)
           rows == attempt[c]
<1>0. /\ TypeOK /\ Working(w) /\ worker[w] \in WorkerState
      /\ \A s \in Outcomes : Settles(Settling(s))
  BY DEF LedgerInv, FenceInv, TypeInv, TypeOK, Settles, Settling
<1>1. ASSUME UNCHANGED <<job, attempt>> PROVE \A d \in Document : Moves(d)
  BY <1>1 DEF Moves, Stays, Keeps
<1>2. ASSUME Returns(w)
      PROVE  /\ c \in Document /\ worker[w].token \in Tokens(rows)
             /\ job[c].grants = worker[w].token
  BY <1>0, <1>2, HeldJob DEF Returns, Working
<1>3. CASE Reject(w)
  <2> DEFINE p == [worker[w] EXCEPT !.pc = "committing", !.token = job[c].lease.token,
                     !.write = Settling("QUARANTINED")]
  <2>1. worker' = [worker EXCEPT ![w] = p] /\ UNCHANGED <<job, attempt>>
    BY <1>3 DEF Reject
  <2>2. p.pc = "committing" /\ p.batch = worker[w].batch /\ p.write = Settling("QUARANTINED")
    BY <1>0 DEF WorkerState
  <2>3. Proper(p.write, job[c], rows)
    BY <1>0, <2>2 DEF Proper, Outcomes
  <2> HIDE DEF p
  <2> QED
    BY <1>1, <2>1, <2>2, <2>3, BusyWorks
<1>4. ASSUME NEW b \in Content, Fetched(w, b)
      PROVE  Working(w)' /\ \A d \in Document : Moves(d)
  <2>1. PICK s \in {"UNCHANGED", "DOWNLOADED"} :
          worker' = [worker EXCEPT ![w] =
                       [@ EXCEPT !.pc = "storing", !.content = b, !.write = Settling(s)]]
    BY <1>4 DEF Fetched
  <2> DEFINE p == [worker[w] EXCEPT !.pc = "storing", !.content = b, !.write = Settling(s)]
  <2>2. worker' = [worker EXCEPT ![w] = p] /\ UNCHANGED <<job, attempt>> /\ Returns(w)
    BY <1>4, <2>1 DEF Fetched
  <2>3. /\ p.pc = "storing" /\ p.batch = worker[w].batch /\ p.write = Settling(s)
        /\ p.token = worker[w].token
    BY <1>0 DEF WorkerState
  <2>4. Settles(p.write)
    BY <1>0, <2>3 DEF Outcomes
  <2> HIDE DEF p
  <2> QED
    BY <1>1, <1>2, <2>2, <2>3, <2>4, BusyWorks
<1>5. ASSUME NEW u, Returns(w), UNCHANGED <<job, attempt>>, Proper(u, job[c], rows),
             worker' = [worker EXCEPT ![w] = [@ EXCEPT !.pc = "committing", !.write = u]]
      PROVE  Working(w)' /\ \A d \in Document : Moves(d)
  <2> DEFINE p == [worker[w] EXCEPT !.pc = "committing", !.write = u]
  <2>1. worker' = [worker EXCEPT ![w] = p]
    BY <1>5
  <2>2. p.pc = "committing" /\ p.batch = worker[w].batch /\ p.write = u
    BY <1>0 DEF WorkerState
  <2> HIDE DEF p
  <2> QED
    BY <1>1, <1>5, <2>1, <2>2, BusyWorks
<1>6. CASE NotModified(w)
  <2>1. Proper(Settling("UNCHANGED"), job[c], rows)
    BY <1>0 DEF Proper, Outcomes
  <2> QED
    BY <1>5, <1>6, <2>1 DEF NotModified
<1>7. ASSUME NEW kind \in FailureKind, FetchFailed(w, kind)
      PROVE  Working(w)' /\ \A d \in Document : Moves(d)
  <2>1. Returns(w) /\ UNCHANGED <<job, attempt>>
    BY <1>7 DEF FetchFailed
  <2>2. CASE kind = "TRANSIENT" /\ WillRetry(job[c])
    <3>1. PICK delay : worker' = [worker EXCEPT ![w] =
                         [@ EXCEPT !.pc = "committing", !.write = Retrying(job[c], delay)]]
      BY <1>7, <2>2 DEF FetchFailed
    <3>2. Retries(Retrying(job[c], delay), job[c], rows)
      BY <1>2, <2>1, <2>2 DEF Retries, Retrying, WillRetry, Limit
    <3> QED
      BY <1>5, <2>1, <3>1, <3>2 DEF Proper
  <2>3. CASE ~(kind = "TRANSIENT" /\ WillRetry(job[c]))
    <3>1. worker' = [worker EXCEPT ![w] =
                       [@ EXCEPT !.pc = "committing", !.write = Settling(FailedState(kind))]]
      BY <1>7, <2>3 DEF FetchFailed
    <3>2. FailedState(kind) \in Outcomes
      BY DEF FailedState, Outcomes
    <3> QED
      BY <1>0, <1>5, <2>1, <3>1, <3>2 DEF Proper
  <2> QED
    BY <2>2, <2>3
<1>8. CASE LoseLease(w)
  <2>1. worker[w].pc # "idle" /\ worker' = [worker EXCEPT ![w] = Finished(w)]
        /\ UNCHANGED <<job, attempt>>
    BY <1>8 DEF LoseLease, Fail
  <2> QED
    BY <1>1, <2>1, FinishedWorks DEF Spares
<1>9. CASE Store(w)
  <2> DEFINE p == [worker[w] EXCEPT !.pc = "committing"]
  <2>1. /\ worker[w].pc = "storing" /\ worker' = [worker EXCEPT ![w] = p]
        /\ UNCHANGED <<job, attempt>>
    BY <1>9 DEF Store
  <2>2. p.pc = "committing" /\ p.batch = worker[w].batch /\ p.write = worker[w].write
    BY <1>0 DEF WorkerState
  <2>3. Proper(p.write, job[c], rows)
    BY <1>0, <2>1, <2>2 DEF Working, Proper
  <2> HIDE DEF p
  <2> QED
    BY <1>1, <2>1, <2>2, <2>3, BusyWorks
<1> QED
  BY <1>3, <1>4, <1>6, <1>7, <1>8, <1>9, OpenMoves, CommitMoves DEF Process

\* One process moves, or none, and only it has anything new to know.
LEMMA StepMoves ==
  ASSUME LedgerInv, [Next]_vars
  PROVE  \E w \in Worker \cup {NoOne} :
           /\ \A d \in Document : Moves(d) \/ Opens(w, d)
           /\ w \in Worker => Working(w)'
           /\ \A v \in Worker : v # w => worker'[v] = worker[v]
<1>0. TypeOK
  BY DEF LedgerInv, FenceInv, TypeInv
<1> DEFINE Goal(w) ==
             /\ \A d \in Document : Moves(d) \/ Opens(w, d)
             /\ w \in Worker => Working(w)'
             /\ \A v \in Worker : v # w => worker'[v] = worker[v]
<1>1. CASE \/ \E x \in Document, e, q \in BOOLEAN : Upsert(x, e, q)
           \/ RecoverExpired \/ Tick
           \/ \E w \in Worker : Renew(w)
           \/ UNCHANGED vars
  <2>1. \A d \in Document : Moves(d) /\ worker' = worker
    BY <1>0, <1>1, QueueMoves
  <2>2. worker' = worker
    BY <1>1 DEF Upsert, RecoverExpired, Tick, Renew, vars
  <2>3. Goal(NoOne)
    BY <2>1, <2>2, QueueAssumption
  <2> QED
    BY <2>3
<1>2. ASSUME NEW w \in Worker, NEW p, worker' = [worker EXCEPT ![w] = p],
             \A d \in Document : Moves(d) \/ Opens(w, d), Working(w)'
      PROVE  Goal(w)
  BY <1>0, <1>2 DEF TypeOK
<1>3. ASSUME NEW w \in Worker, Claim(w) PROVE Goal(w)
  <2>1. PICK n \in 1..Batch : \E q \in [1..n -> Claimable] :
          worker' = [worker EXCEPT ![w] = Resting(q)]
    BY <1>3 DEF Claim
  <2>2. PICK q \in [1..n -> Claimable] : worker' = [worker EXCEPT ![w] = Resting(q)]
    BY <2>1
  <2> QED
    BY <1>2, <1>3, <2>2, ClaimMoves
<1>4. ASSUME NEW w \in Worker, Process(w) PROVE Goal(w)
  <2>1. \E p : worker' = [worker EXCEPT ![w] = p]
    BY <1>4 DEF Process, Open, Reject, Fetched, NotModified, FetchFailed, LoseLease, Fail,
                Store, Commit
  <2> QED
    BY <1>2, <1>4, <2>1, ProcessMoves
<1>5. ASSUME NEW w \in Worker, Abort(w) PROVE Goal(w)
  <2>1. /\ worker[w].pc # "idle" /\ worker' = [worker EXCEPT ![w] = Finished(w)]
        /\ \A d \in Document : Moves(d)
    BY <1>5 DEF Abort, Fail, Moves, Stays, Keeps
  <2>2. Working(w)'
    BY <2>1, FinishedWorks DEF Spares
  <2> QED
    BY <1>2, <2>1, <2>2
<1>6. ASSUME NEW w \in Worker, Crash(w) PROVE Goal(w)
  <2>1. /\ worker' = [worker EXCEPT ![w] = Resting(<<>>)]
        /\ \A d \in Document : Moves(d)
    BY <1>6 DEF Crash, Idle, Moves, Stays, Keeps
  <2>2. worker'[w].batch = <<>> /\ worker'[w].pc = "idle"
    BY <1>0, <2>1 DEF TypeOK, Resting
  <2>3. Len(<<>>) = 0
    OBVIOUS
  <2>4. Working(w)'
    BY <2>2, <2>3 DEF Working
  <2> QED
    BY <1>2, <2>1, <2>4
<1> HIDE DEF Goal
<1>7. \E w \in Worker \cup {NoOne} : Goal(w)
  BY <1>1, <1>3, <1>4, <1>5, <1>6 DEF Next, Goal
<1> QED
  BY <1>7 DEF Goal

LEMMA LedgerStep ==
  ASSUME LedgerInv, PromptCommit \/ "recover" \notin Maintenance, [Next]_vars
  PROVE  LedgerInv'
<1>1. TypeOK /\ Books
  BY DEF LedgerInv, FenceInv, TypeInv
<1>2. FenceInv'
  BY NextTypeInv, NextFenced DEF LedgerInv, FenceInv
<1>3. PICK w \in Worker \cup {NoOne} :
        /\ \A d \in Document : Moves(d) \/ Opens(w, d)
        /\ w \in Worker => Working(w)'
        /\ \A v \in Worker : v # w => worker'[v] = worker[v]
  BY StepMoves
<1>4. Books'
  <2>1. \A d \in Document : Ledger(job'[d], attempt'[d])
    BY <1>1, <1>3, MovesKeep DEF Books
  <2> QED
    BY <2>1 DEF Books, Ledger, Tokens, Retried, Limit
<1>5. ASSUME NEW v \in Worker PROVE Working(v)'
  <2>1. CASE v = w
    BY <1>3, <2>1
  <2>2. CASE v # w
    <3>1. worker'[v] = worker[v] /\ \A d \in Document : Spares(v, d)
      BY <1>3, <2>2 DEF Spares
    <3>2. TypeOK' /\ Fenced'
      BY <1>2 DEF FenceInv, TypeInv
    <3> QED
      BY <3>1, <3>2, Bystander
  <2> QED
    BY <2>1, <2>2
<1> QED
  BY <1>2, <1>4, <1>5 DEF LedgerInv

LEMMA InitLedger == Init => LedgerInv
<1> SUFFICES ASSUME Init PROVE LedgerInv
  OBVIOUS
<1>1. FenceInv
  BY InitFenceInv
<1>2. 0 < Limit
  BY QueueAssumption, WorkerAssumption DEF Limit, Least
<1>3. IsFiniteSet({}) /\ Cardinality({}) = 0
  BY FS_EmptySet
<1>4. Retried({}) = {}
  BY DEF Retried
<1>5. \A d \in Document : Ledger(job[d], attempt[d])
  BY <1>2, <1>3, <1>4 DEF Init, NoJob, Ledger
<1>6. ASSUME NEW w \in Worker PROVE Working(w)
  <2>1. worker[w].batch = <<>> /\ worker[w].pc = "idle" /\ Len(<<>>) = 0
    BY DEF Init, Idle, Resting
  <2> QED
    BY <2>1 DEF Working
<1> QED
  BY <1>1, <1>5, <1>6 DEF LedgerInv, Books

LEMMA LedgerInvariant ==
  ASSUME PromptCommit \/ "recover" \notin Maintenance
  PROVE  Spec => []LedgerInv
<1>1. Init => LedgerInv
  BY InitLedger
<1>2. LedgerInv /\ [Next]_vars => LedgerInv'
  BY LedgerStep
<1> QED
  BY <1>1, <1>2, PTL DEF Spec

------------------------------------------------------------------------------
(* The theorems.                                                           *)

\* attempt_count is exactly the number of attempts that ended in a scheduled
\* retry and stays below both limits: no crash, lost lease or late answer
\* makes _record_failure and retry() count an attempt twice or not at all.
THEOREM RetriesExact ==
  ASSUME PromptCommit \/ "recover" \notin Maintenance
  PROVE  Spec => []RetriesCounted
<1>1. Spec => []LedgerInv
  BY LedgerInvariant
<1>2. LedgerInv => RetriesCounted
  BY DEF LedgerInv, Books, Ledger, Retried, Limit, RetriesCounted
<1> QED
  BY <1>1, <1>2, PTL

\* An attempt row with a final outcome is the only one of its job, and the job
\* row says the same: the two are written by one transaction of _process, and
\* nothing writes a settled job again.
THEOREM AuditTrailAgrees ==
  ASSUME PromptCommit \/ "recover" \notin Maintenance
  PROVE  Spec => []AuditAgrees
<1>1. Spec => []LedgerInv
  BY LedgerInvariant
<1>2. LedgerInv => AuditAgrees
  <2>1. "open" \notin SettledStates /\ "retried" \notin SettledStates
    BY DEF SettledStates, TerminalStates
  <2> QED
    BY <2>1 DEF LedgerInv, Books, Ledger, AuditAgrees
<1> QED
  BY <1>1, <1>2, PTL

\* What one step does to the state of a job is a move, or two through
\* DOWNLOADING, that `transition` of document_state.py permits.
LEMMA MovesArePermitted ==
  ASSUME TypeOK, NEW w, NEW d \in Document, Ledger(job[d], attempt[d]), Moves(d) \/ Opens(w, d)
  PROVE  LET s == job[d].state
             t == job'[d].state
         IN  \/ s = t \/ s = "ABSENT" \/ MayMove(s, t)
             \/ MayMove(s, "DOWNLOADING") /\ MayMove("DOWNLOADING", t)
<1>1. job[d] \in Job
  BY DEF TypeOK
<1>2. /\ MayMove("QUEUED", "LEASED") /\ MayMove("LEASED", "QUEUED")
      /\ MayMove("LEASED", "DOWNLOADING")
  BY DEF MayMove, AllowedTransitions
<1>3. \A s \in Outcomes : MayMove("DOWNLOADING", s)
  BY DEF Outcomes, MayMove, AllowedTransitions, Quarantinable
<1>4. CASE Stays(d) \/ Renews(d) \/ Opens(w, d)
  BY <1>1, <1>4, RowFields DEF Stays, Renews, Opens
<1>5. CASE Enqueues(d)
  BY <1>5 DEF Enqueues
<1>6. CASE Grants(d) \/ Lapses(d)
  BY <1>1, <1>2, <1>6, RowFields DEF Grants, Lapses
<1>7. CASE Acknowledges(d)
  <2>1. PICK u \in Write : Proper(u, job[d], attempt[d]) /\ job'[d] = Written(job[d], u)
    BY <1>7 DEF Acknowledges
  <2>2. job'[d].state = u.state /\ job[d].state = "LEASED"
    BY <1>1, <1>7, <2>1, RowFields DEF Acknowledges
  <2>3. u.state = "QUEUED" \/ u.state \in Outcomes
    BY <2>1 DEF Proper, Settles, Retries
  <2> QED
    BY <1>2, <1>3, <2>2, <2>3
<1> QED
  BY <1>4, <1>5, <1>6, <1>7 DEF Moves

\* Every change of a job's state is permitted by document_state.py, also the
\* assignments of claim, recover_expired and retry that do not ask it.
THEOREM MovesPermitted ==
  ASSUME PromptCommit \/ "recover" \notin Maintenance
  PROVE  Spec => PermittedMoves
<1> DEFINE Step == \A d \in Document :
             LET s == job[d].state
                 t == job'[d].state
             IN  \/ s = t \/ s = "ABSENT" \/ MayMove(s, t)
                 \/ MayMove(s, "DOWNLOADING") /\ MayMove("DOWNLOADING", t)
<1>1. Spec => []LedgerInv
  BY LedgerInvariant
<1>2. LedgerInv /\ [Next]_vars => [Step]_vars
  <2> SUFFICES ASSUME LedgerInv, [Next]_vars PROVE Step
    OBVIOUS
  <2>1. PICK w : \A d \in Document : Moves(d) \/ Opens(w, d)
    BY StepMoves
  <2> QED
    BY <2>1, MovesArePermitted DEF LedgerInv, FenceInv, TypeInv, Books
<1>3. Spec => [][Next]_vars
  BY PTL DEF Spec
<1> QED
  BY <1>1, <1>2, <1>3, PTL DEF PermittedMoves

------------------------------------------------------------------------------
(* The refinement of JobLifecycle.                                         *)

Acked(rows) == {a.token : a \in {b \in rows : b.outcome # "open"}}

\* What the refinement mapping makes of one document before and after a step.
LEMMA AckedByAttempts ==
  ASSUME TypeOK, NEW w, NEW d \in Document, Ledger(job[d], attempt[d]), Moves(d) \/ Opens(w, d)
  PROVE  /\ ~Acknowledges(d) => Acked(attempt'[d]) = Acked(attempt[d])
         /\ Acknowledges(d) =>
              /\ job[d].grants \notin Acked(attempt[d])
              /\ \/ Acked(attempt'[d]) = Acked(attempt[d]) \cup {job[d].grants}
                 \/ Acked(attempt'[d]) = Acked(attempt[d]) /\ job'[d].state # "QUEUED"
<1>1. ASSUME ~Acknowledges(d) PROVE Acked(attempt'[d]) = Acked(attempt[d])
  <2>1. CASE Keeps(d)
    BY <2>1 DEF Keeps
  <2>2. CASE Opens(w, d)
    <3>1. PICK n \in Nat : attempt'[d] = attempt[d] \cup
            {[token |-> job[d].grants, number |-> n, outcome |-> "open"]}
      BY <2>2 DEF Opens
    <3>2. {b \in attempt'[d] : b.outcome # "open"} = {b \in attempt[d] : b.outcome # "open"}
      BY <3>1
    <3> QED
      BY <3>2 DEF Acked
  <2> QED
    BY <1>1, <2>1, <2>2 DEF Moves, Stays, Renews, Enqueues, Grants, Lapses
<1>2. ASSUME Acknowledges(d)
      PROVE  /\ job[d].grants \notin Acked(attempt[d])
             /\ \/ Acked(attempt'[d]) = Acked(attempt[d]) \cup {job[d].grants}
                \/ Acked(attempt'[d]) = Acked(attempt[d]) /\ job'[d].state # "QUEUED"
  <2> DEFINE j == job[d]
             rows == attempt[d]
             t == j.grants
  <2>1. PICK u \in Write :
          /\ Proper(u, j, rows)
          /\ job'[d] = Written(j, u)
          /\ attempt'[d] = Closed(rows, t, u.outcome)
    BY <1>2 DEF Acknowledges
  <2>2. j \in Job /\ rows \subseteq Attempt /\ j.state = "LEASED" /\ Ledger(j, rows)
    BY <1>2 DEF TypeOK, Acknowledges
  <2>3. job'[d].state = u.state /\ u.outcome # "open"
    <3>1. job'[d].state = u.state
      BY <2>1, <2>2, RowFields
    <3> QED
      BY <2>1, <3>1, OutcomesApart DEF Proper, Settles, Retries
  <2>4. /\ \A a, b \in rows : a.token = b.token => a = b
        /\ \A a \in rows : a.token = t => a.outcome = "open"
    BY <2>2 DEF Ledger
  <2>5. t \notin Acked(rows)
    BY <2>4 DEF Acked
  <2> DEFINE o == u.outcome
             new == Closed(rows, t, o)
  <2>6. /\ t \notin Tokens(rows) => new = rows
        /\ \A a \in rows : a.token = t => new = (rows \ {a}) \cup {[a EXCEPT !.outcome = o]}
    BY <2>2, <2>4, ClosedRows
  <2>7. attempt'[d] = new
    BY <2>1
  <2> HIDE DEF new, o, t, rows, j
  <2>8. CASE t \notin Tokens(rows)
    <3>1. u.state # "QUEUED"
      BY <2>1, <2>8, OutcomesApart DEF Proper, Settles, Retries, t, rows, j
    <3> QED
      BY <2>3, <2>5, <2>6, <2>7, <2>8, <3>1 DEF t, rows, j
  <2>9. CASE t \in Tokens(rows)
    <3>1. PICK a \in rows : a.token = t
      BY <2>9 DEF Tokens
    <3> DEFINE c == [a EXCEPT !.outcome = o]
    <3>2. a \in Attempt
      BY <2>2, <3>1
    <3>3. c.token = t /\ c.outcome = o
      BY <3>1, <3>2 DEF Attempt
    <3>4. new = (rows \ {a}) \cup {c}
      BY <2>6, <3>1
    <3> HIDE DEF c
    <3>5. {b \in new : b.outcome # "open"} = {b \in rows : b.outcome # "open"} \cup {c}
      BY <2>3, <2>4, <3>1, <3>3, <3>4 DEF o
    <3>6. Acked(new) = Acked(rows) \cup {t}
      BY <3>3, <3>5 DEF Acked
    <3> QED
      BY <2>5, <2>7, <3>6 DEF t, rows, j
  <2> QED
    BY <2>8, <2>9
<1> QED
  BY <1>1, <1>2

LEMMA Phases ==
  ASSUME NEW d \in Document
  PROVE  /\ job[d].state = "ABSENT" => Phase(d) = "absent"
         /\ job[d].state = "QUEUED" => Phase(d) = "queued"
         /\ job[d].state = "LEASED" => Phase(d) = "leased"
         /\ job[d].state \in Outcomes => Phase(d) = "settled"
         /\ job'[d].state = "ABSENT" => Phase(d)' = "absent"
         /\ job'[d].state = "QUEUED" => Phase(d)' = "queued"
         /\ job'[d].state = "LEASED" => Phase(d)' = "leased"
         /\ job'[d].state \in Outcomes => Phase(d)' = "settled"
         /\ job'[d].state = job[d].state => Phase(d)' = Phase(d)
BY OutcomesApart DEF Phase

\* The moves of a row are the moves of JobLifecycle.
LEMMA LifecycleMoves ==
  ASSUME TypeOK, NEW w, NEW d \in Document, Ledger(job[d], attempt[d]), Moves(d) \/ Opens(w, d)
  PROVE  LET from(p) == Phase(d) = p
             to(p) == Phase(d)' = p
             sameLease == job'[d].grants = job[d].grants
             sameRetries == job'[d].attempts = job[d].attempts
             sameAcked == Acked(attempt'[d]) = Acked(attempt[d])
             acknowledged == Acked(attempt'[d]) = Acked(attempt[d]) \cup {job[d].grants}
             fresh == job[d].grants \notin Acked(attempt[d])
         IN  \/ from("absent") /\ to("queued") /\ sameLease /\ sameRetries /\ sameAcked
             \/ /\ from("queued") /\ to("leased") /\ job'[d].grants = job[d].grants + 1
                /\ sameRetries /\ sameAcked
             \/ from("leased") /\ to("queued") /\ sameLease /\ sameRetries /\ sameAcked
             \/ /\ from("leased") /\ to("queued") /\ fresh /\ acknowledged
                /\ job'[d].attempts = job[d].attempts + 1 /\ sameLease
             \/ /\ from("leased") /\ to("settled") /\ fresh
                /\ (acknowledged \/ sameAcked) /\ sameLease /\ sameRetries
             \/ Phase(d)' = Phase(d) /\ sameLease /\ sameRetries /\ sameAcked
<1>1. job[d] \in Job
  BY DEF TypeOK
<1>2. CASE Acknowledges(d)
  <2>1. /\ job[d].grants \notin Acked(attempt[d])
        /\ \/ Acked(attempt'[d]) = Acked(attempt[d]) \cup {job[d].grants}
           \/ Acked(attempt'[d]) = Acked(attempt[d]) /\ job'[d].state # "QUEUED"
    BY <1>2, AckedByAttempts
  <2>2. PICK u \in Write : Proper(u, job[d], attempt[d]) /\ job'[d] = Written(job[d], u)
    BY <1>2 DEF Acknowledges
  <2>3. /\ job[d].state = "LEASED" /\ job'[d].state = u.state
        /\ job'[d].grants = job[d].grants
        /\ job'[d].attempts = IF u.state = "QUEUED" THEN u.attempts ELSE job[d].attempts
    BY <1>1, <1>2, <2>2, RowFields DEF Acknowledges
  <2>4. CASE Settles(u)
    <3>1. u.state \in Outcomes /\ u.state # "QUEUED"
      BY <2>4, OutcomesApart DEF Settles
    <3>2. Phase(d) = "leased" /\ Phase(d)' = "settled"
      BY <2>3, <3>1, Phases
    <3> QED
      BY <2>1, <2>3, <3>1, <3>2
  <2>5. CASE Retries(u, job[d], attempt[d])
    <3>1. u.state = "QUEUED" /\ u.attempts = job[d].attempts + 1
      BY <2>5 DEF Retries
    <3>2. Phase(d) = "leased" /\ Phase(d)' = "queued"
      BY <2>3, <3>1, Phases
    <3> QED
      BY <2>1, <2>3, <3>1, <3>2
  <2> QED
    BY <2>2, <2>4, <2>5 DEF Proper
<1>3. CASE ~Acknowledges(d)
  <2>1. Acked(attempt'[d]) = Acked(attempt[d])
    BY <1>3, AckedByAttempts
  <2>2. CASE Stays(d) \/ Renews(d) \/ Opens(w, d)
    <3>1. /\ job'[d].state = job[d].state /\ job'[d].grants = job[d].grants
          /\ job'[d].attempts = job[d].attempts
      BY <1>1, <2>2, RowFields DEF Stays, Renews, Opens
    <3> QED
      BY <2>1, <3>1, Phases
  <2>3. CASE Enqueues(d)
    <3>1. /\ job[d].state = "ABSENT" /\ job'[d].state = "QUEUED"
          /\ job'[d].grants = job[d].grants /\ job'[d].attempts = job[d].attempts
      BY <1>1, <2>3, RowFields DEF Enqueues, Ledger
    <3> QED
      BY <2>1, <3>1, Phases
  <2>4. CASE Grants(d)
    <3>1. /\ job[d].state = "QUEUED" /\ job'[d].state = "LEASED"
          /\ job'[d].grants = job[d].grants + 1 /\ job'[d].attempts = job[d].attempts
      BY <1>1, <2>4, RowFields DEF Grants
    <3> QED
      BY <2>1, <3>1, Phases
  <2>5. CASE Lapses(d)
    <3>1. /\ job[d].state = "LEASED" /\ job'[d].state = "QUEUED"
          /\ job'[d].grants = job[d].grants /\ job'[d].attempts = job[d].attempts
      BY <1>1, <2>5, RowFields DEF Lapses
    <3> QED
      BY <2>1, <3>1, Phases
  <2> QED
    BY <1>3, <2>2, <2>3, <2>4, <2>5 DEF Moves
<1> QED
  BY <1>2, <1>3

LEMMA LifecycleStep ==
  ASSUME LedgerInv, [Next]_vars
  PROVE  Lifecycle!Next
<1> SUFFICES ASSUME NEW d \in Document
             PROVE  \/ Lifecycle!Enqueue(d) \/ Lifecycle!Grant(d) \/ Lifecycle!Lapse(d)
                    \/ Lifecycle!Retry(d) \/ Lifecycle!Settle(d) \/ Lifecycle!Stay(d)
  BY DEF Lifecycle!Next
<1>1. PICK w : \A e \in Document : Moves(e) \/ Opens(w, e)
  BY StepMoves
<1>2. TypeOK /\ Ledger(job[d], attempt[d]) /\ (Moves(d) \/ Opens(w, d))
  BY <1>1 DEF LedgerInv, FenceInv, TypeInv, Books
<1> DEFINE phase == [e \in Document |-> Phase(e)]
           lease == [e \in Document |-> job[e].grants]
           retries == [e \in Document |-> job[e].attempts]
           acked == [e \in Document |->
                       {a.token : a \in {b \in attempt[e] : b.outcome # "open"}}]
           sameLease == job'[d].grants = job[d].grants
           sameRetries == job'[d].attempts = job[d].attempts
           sameAcked == Acked(attempt'[d]) = Acked(attempt[d])
           acknowledged == Acked(attempt'[d]) = Acked(attempt[d]) \cup {job[d].grants}
           fresh == job[d].grants \notin Acked(attempt[d])
<1>3. /\ phase[d] = Phase(d) /\ phase'[d] = Phase(d)'
      /\ lease[d] = job[d].grants /\ lease'[d] = job'[d].grants
      /\ retries[d] = job[d].attempts /\ retries'[d] = job'[d].attempts
      /\ acked[d] = Acked(attempt[d]) /\ acked'[d] = Acked(attempt'[d])
  BY DEF Acked
<1>4. ASSUME Phase(d) = "absent", Phase(d)' = "queued", sameLease, sameRetries, sameAcked
      PROVE  Lifecycle!Enqueue(d)
  BY <1>3, <1>4 DEF Lifecycle!Enqueue, Lifecycle!Move, Lifecycle!Keep
<1>5. ASSUME Phase(d) = "queued", Phase(d)' = "leased", job'[d].grants = job[d].grants + 1,
             sameRetries, sameAcked
      PROVE  Lifecycle!Grant(d)
  BY <1>3, <1>5 DEF Lifecycle!Grant, Lifecycle!Move, Lifecycle!Keep
<1>6. ASSUME Phase(d) = "leased", Phase(d)' = "queued", sameLease, sameRetries, sameAcked
      PROVE  Lifecycle!Lapse(d)
  BY <1>3, <1>6 DEF Lifecycle!Lapse, Lifecycle!Move, Lifecycle!Keep
<1>7. ASSUME Phase(d) = "leased", Phase(d)' = "queued", fresh, acknowledged,
             job'[d].attempts = job[d].attempts + 1, sameLease
      PROVE  Lifecycle!Retry(d)
  BY <1>3, <1>7 DEF Lifecycle!Retry, Lifecycle!Move, Lifecycle!Keep, Lifecycle!Acknowledge
<1>8. ASSUME Phase(d) = "leased", Phase(d)' = "settled", fresh, acknowledged \/ sameAcked,
             sameLease, sameRetries
      PROVE  Lifecycle!Settle(d)
  BY <1>3, <1>8 DEF Lifecycle!Settle, Lifecycle!Move, Lifecycle!Keep, Lifecycle!Acknowledge
<1>9. ASSUME Phase(d)' = Phase(d), sameLease, sameRetries, sameAcked
      PROVE  Lifecycle!Stay(d)
  BY <1>3, <1>9 DEF Lifecycle!Stay, Lifecycle!Keep
<1>10. \/ Phase(d) = "absent" /\ Phase(d)' = "queued" /\ sameLease /\ sameRetries /\ sameAcked
       \/ /\ Phase(d) = "queued" /\ Phase(d)' = "leased" /\ job'[d].grants = job[d].grants + 1
          /\ sameRetries /\ sameAcked
       \/ Phase(d) = "leased" /\ Phase(d)' = "queued" /\ sameLease /\ sameRetries /\ sameAcked
       \/ /\ Phase(d) = "leased" /\ Phase(d)' = "queued" /\ fresh /\ acknowledged
          /\ job'[d].attempts = job[d].attempts + 1 /\ sameLease
       \/ /\ Phase(d) = "leased" /\ Phase(d)' = "settled" /\ fresh
          /\ (acknowledged \/ sameAcked) /\ sameLease /\ sameRetries
       \/ Phase(d)' = Phase(d) /\ sameLease /\ sameRetries /\ sameAcked
  BY <1>2, LifecycleMoves
<1> HIDE DEF sameLease, sameRetries, sameAcked, acknowledged, fresh
<1> QED
  BY <1>4, <1>5, <1>6, <1>7, <1>8, <1>9, <1>10

\* The queue implements what JobLifecycle promises: Claim grants, RecoverExpired
\* lapses, a commit of the worker retries or settles under its own lease, and
\* every other step leaves a document's job where it is.
THEOREM QueueImplementsLifecycle ==
  ASSUME PromptCommit \/ "recover" \notin Maintenance
  PROVE  Spec => LifecycleSpec
<1>1. Spec => []LedgerInv
  BY LedgerInvariant
<1>2. LedgerInv /\ [Next]_vars => [Lifecycle!Next]_(Lifecycle!lifecycle)
  BY LifecycleStep
<1>3. Init => Lifecycle!Init
  BY DEF Init, NoJob, Phase, Lifecycle!Init
<1>4. Spec => Init /\ [][Next]_vars
  BY DEF Spec
<1> QED
  BY <1>1, <1>2, <1>3, <1>4, PTL DEF LifecycleSpec, Lifecycle!Spec
==============================================================================
