--------------------------- MODULE RetrievalStates ---------------------------
(***************************************************************************)
(* The retrieval state machine of services/document_state.py: which moves  *)
(* `transition` permits, and which states the module calls terminal.       *)
(* "ABSENT" stands for a document that has no retrieval job row.           *)
(***************************************************************************)
EXTENDS Naturals

RetrievalState ==
  { "DISCOVERED", "ELIGIBLE", "INELIGIBLE", "QUEUED", "LEASED", "DOWNLOADING",
    "DOWNLOADED", "UNCHANGED", "SUPERSEDED", "RESTRICTED", "LOGIN_REQUIRED",
    "REGISTRATION_REQUIRED", "CAPTCHA", "NOT_FOUND", "FAILED", "QUARANTINED",
    "CANCELED" }

AllowedTransitions ==
  ({"DISCOVERED"}  \X {"ELIGIBLE", "INELIGIBLE"})    \cup
  ({"ELIGIBLE"}    \X {"QUEUED"})                    \cup
  ({"QUEUED"}      \X {"LEASED", "CANCELED"})        \cup
  ({"LEASED"}      \X {"QUEUED", "DOWNLOADING"})     \cup
  ({"DOWNLOADING"} \X {"DOWNLOADED", "UNCHANGED", "RESTRICTED",
                       "LOGIN_REQUIRED", "REGISTRATION_REQUIRED", "CAPTCHA",
                       "NOT_FOUND", "FAILED"})       \cup
  ({"DOWNLOADED"}  \X {"SUPERSEDED"})                \cup
  ({"FAILED"}      \X {"QUEUED"})

Quarantinable ==
  {"DISCOVERED", "ELIGIBLE", "QUEUED", "LEASED", "DOWNLOADING", "FAILED"}

TerminalStates ==
  { "INELIGIBLE", "UNCHANGED", "SUPERSEDED", "RESTRICTED", "LOGIN_REQUIRED",
    "REGISTRATION_REQUIRED", "CAPTCHA", "NOT_FOUND", "QUARANTINED", "CANCELED" }

\* `transition(current, target)` returns instead of raising.
MayMove(current, target) ==
  \/ <<current, target>> \in AllowedTransitions
  \/ target = "QUARANTINED" /\ current \in Quarantinable

\* The states a job leaves the queue in: the terminal states and DOWNLOADED,
\* whose only successor (SUPERSEDED) no code assigns.
SettledStates == TerminalStates \cup {"DOWNLOADED"}
==============================================================================
