----------------------------- MODULE JobLifecycle -----------------------------
(***************************************************************************)
(* What the retrieval queue promises its documents: a job is leased by one *)
(* holder at a time, only the holder of the present lease acknowledges the *)
(* work, each acknowledged retry is counted once, and a settled job is     *)
(* never touched again.  A step may move several jobs (a claim leases a    *)
(* batch), each by one of the moves below.                                 *)
(***************************************************************************)
EXTENDS Naturals

CONSTANT Document

VARIABLES
  phase,    \* "absent", "queued", "leased" or "settled"
  lease,    \* how many leases have been granted on the job
  retries,  \* retries counted against the job's budget
  acked     \* the leases under which work was acknowledged

lifecycle == <<phase, lease, retries, acked>>

Init ==
  /\ phase = [d \in Document |-> "absent"]
  /\ lease = [d \in Document |-> 0]
  /\ retries = [d \in Document |-> 0]
  /\ acked = [d \in Document |-> {}]

Move(d, from, to) == phase[d] = from /\ phase'[d] = to

Keep(d, f) == f'[d] = f[d]

Acknowledge(d) == acked'[d] = acked[d] \cup {lease[d]}

Enqueue(d) ==
  /\ Move(d, "absent", "queued")
  /\ Keep(d, lease) /\ Keep(d, retries) /\ Keep(d, acked)

Grant(d) ==
  /\ Move(d, "queued", "leased")
  /\ lease'[d] = lease[d] + 1
  /\ Keep(d, retries) /\ Keep(d, acked)

\* The lease runs out and the job returns to the queue: nothing is counted.
Lapse(d) ==
  /\ Move(d, "leased", "queued")
  /\ Keep(d, lease) /\ Keep(d, retries) /\ Keep(d, acked)

Retry(d) ==
  /\ Move(d, "leased", "queued")
  /\ lease[d] \notin acked[d] /\ Acknowledge(d)
  /\ retries'[d] = retries[d] + 1
  /\ Keep(d, lease)

\* The outcome of an attempt, or the rejection of a job never attempted.
Settle(d) ==
  /\ Move(d, "leased", "settled")
  /\ lease[d] \notin acked[d]
  /\ Acknowledge(d) \/ Keep(d, acked)
  /\ Keep(d, lease) /\ Keep(d, retries)

Stay(d) == Keep(d, phase) /\ Keep(d, lease) /\ Keep(d, retries) /\ Keep(d, acked)

Next ==
  \A d \in Document :
    Enqueue(d) \/ Grant(d) \/ Lapse(d) \/ Retry(d) \/ Settle(d) \/ Stay(d)

Spec == Init /\ [][Next]_lifecycle
==============================================================================
