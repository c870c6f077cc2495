--------------------------- MODULE MCDownloadWorker ---------------------------
(* Instances of DownloadWorker for TLC. *)
EXTENDS DownloadWorker

\* Every caller enqueues with document_queue_default_priority.
DefaultPriority == [d \in Document |-> 50]

\* Job 1 is served before every other.
UnequalPriority == [d \in Document |-> IF d = 1 THEN 90 ELSE 50]

\* A queue longer than a batch: every job but the urgent one, which may come at
\* any time, is waiting, and a document other than the first two has been
\* superseded, so that its job will be rejected.
Waiting ==
  /\ now = 0
  /\ job = [d \in Document |-> IF d = 1 THEN NoJob ELSE Enqueued]
  /\ eligible = [d \in Document |-> d \in {1, 2}]
  /\ worker = [w \in Worker |-> Idle]
  /\ attempt = [d \in Document |-> {}]
  /\ artifact = [d \in Document |-> {}]
  /\ content = [d \in Document |-> NoContent]
  /\ stored = [d \in Document |-> {}]

\* Bound: no upsert changes the eligibility of a document.
WaitingSpec == Waiting /\ [][Next /\ UNCHANGED eligible]_vars /\ Fairness
==============================================================================
