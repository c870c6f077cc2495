---------------------------- MODULE RetrievalQueue ----------------------------
(***************************************************************************)
(* DocumentQueueService (services/document_manifest.py): the rows of       *)
(* document_retrieval_jobs, at most one per document, and the operations   *)
(* on one row.  Time is a shared clock in seconds.  A lease is the columns *)
(* lease_owner, lease_token and lease_expires_at; its token (a uuid in the *)
(* code) is the number of leases granted on the job so far.                *)
(***************************************************************************)
EXTENDS Integers, Sequences, FiniteSets, RetrievalStates

CONSTANTS
  Document,      \* documents; numbers, their order is the order of the job ids
  Worker,        \* worker processes, each a lease owner of its own
  NoOne,         \* NULL owner
  Priority,      \* priority of each document's job, 0..100
  MaxAttempts,   \* job.max_attempts (document_queue_max_attempts)
  LeaseSeconds,  \* document_queue_lease_seconds
  RetryBase,     \* document_download_retry_base_seconds
  RetryMax       \* document_download_retry_max_seconds

ASSUME QueueAssumption ==
  /\ Document \subseteq Nat
  /\ NoOne \notin Worker
  /\ Priority \in [Document -> 0..100]
  /\ MaxAttempts \in Nat \ {0}
  /\ LeaseSeconds \in Nat \ {0}
  /\ RetryBase \in Nat
  /\ RetryMax \in Nat /\ RetryMax >= RetryBase

VARIABLES
  now,   \* the clock the worker and the queue read
  job    \* document -> its row of document_retrieval_jobs

Lease == [owner : Worker \cup {NoOne}, token : Nat, expires : Nat]

NoLease == [owner |-> NoOne, token |-> 0, expires |-> 0]  \* three NULLs

Job == [ state    : RetrievalState \cup {"ABSENT"},
         lease    : Lease,
         next     : Int,   \* next_attempt_at
         attempts : Nat,   \* attempt_count
         created  : Nat,
         grants   : Nat ]  \* leases granted so far

NoJob == [ state |-> "ABSENT", lease |-> NoLease, next |-> 0, attempts |-> 0,
           created |-> 0, grants |-> 0 ]

------------------------------------------------------------------------------
(* Operations on one row.  Each returns the row the operation leaves.      *)

Least(a, b) == IF a <= b THEN a ELSE b

\* enqueue: the row inserted for a document that has none.
Enqueued == [ state |-> "QUEUED", lease |-> NoLease, next |-> now, attempts |-> 0,
              created |-> now, grants |-> 0 ]

NewLease(w, token) == [owner |-> w, token |-> token, expires |-> now + LeaseSeconds]

\* For comparison: every lease of a job gets the same token.
LeasedAgain(j, w) ==
  [j EXCEPT !.state = "LEASED", !.lease = NewLease(w, 1), !.grants = 1]

\* claim: one selected row.
Leased(j, w) ==
  [j EXCEPT !.state = "LEASED", !.lease = NewLease(w, j.grants + 1),
            !.grants = j.grants + 1]

\* For comparison: a lease is still good in the second it expires.
HoldsLeaseAtExpiry(j, w, token) ==
  j.lease.owner = w /\ j.lease.token = token /\ j.lease.expires >= now

\* validate_lease, and the test complete() makes.
HoldsLease(j, w, token) ==
  j.lease.owner = w /\ j.lease.token = token /\ j.lease.expires > now

\* For comparison: recovery forgets the state, or goes one state too far back.
RecoveredStillLeased(j) == [j EXCEPT !.lease = NoLease]
RecoveredToEligible(j) == [j EXCEPT !.state = "ELIGIBLE", !.lease = NoLease]

\* recover_expired: one expired row.
Recovered(j) == [j EXCEPT !.state = "QUEUED", !.lease = NoLease]

\* renew
Renewed(j) == [j EXCEPT !.lease = NewLease(j.lease.owner, j.lease.token)]

\* complete and terminal
Settled(j, state) == [j EXCEPT !.state = state, !.lease = NoLease]

\* retry: the delay doubles with every attempt already counted.
Backoff(attempts) == Least(RetryMax, RetryBase * 2^attempts)

Exhausted(j) == j.attempts >= MaxAttempts

------------------------------------------------------------------------------
(* claim_statement: due QUEUED rows by priority, then next_attempt_at,     *)
(* created_at and id.  SKIP LOCKED makes concurrent claims select as if    *)
(* one had run after the other.                                            *)

\* For comparison: jobs in any state are claimed, or a job waits while a more
\* urgent one is leased.
ClaimableAnyState ==
  {d \in Document : job[d].state # "ABSENT" /\ job[d].next <= now}
ClaimableInTurn ==
  {d \in Document :
     /\ job[d].state = "QUEUED" /\ job[d].next <= now
     /\ \A e \in Document : job[e].state = "LEASED" => Priority[e] <= Priority[d]}

Claimable == {d \in Document : job[d].state = "QUEUED" /\ job[d].next <= now}

Precedes(d, e) ==
  \/ Priority[d] > Priority[e]
  \/ /\ Priority[d] = Priority[e]
     /\ \/ job[d].next < job[e].next
        \/ /\ job[d].next = job[e].next
           /\ \/ job[d].created < job[e].created
              \/ job[d].created = job[e].created /\ d < e

\* q is the ordered list of the first `limit` claimable documents.
SelectedBy(q, limit) ==
  /\ Len(q) = Least(limit, Cardinality(Claimable))
  /\ \A i, k \in DOMAIN q : i < k => Precedes(q[i], q[k])
  /\ \A i \in DOMAIN q, d \in Claimable :
        d \in {q[k] : k \in DOMAIN q} \/ Precedes(q[i], d)

Expired == {d \in Document : job[d].state = "LEASED" /\ job[d].lease.expires <= now}
==============================================================================
