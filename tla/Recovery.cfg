SPECIFICATION Spec
CHECK_DEADLOCK FALSE
CONSTANTS
  Document = {1}
  Worker = {w1, w2}
  w1 = w1
  w2 = w2
  c1 = c1
  c2 = c2
  NoOne = NoOne
  NoContent = NoContent
  Priority <- DefaultPriority
  MaxAttempts = 3
  DownloadMax = 3
  LeaseSeconds = 2
  RetryBase = 1
  RetryMax = 2
  RetryAfter = {0}
  Batch = 1
  Content = {c1, c2}
  FailureKind = {"TRANSIENT", "LOGIN_REQUIRED"}
  Maintenance = {"recover", "renew"}
  PromptCommit = TRUE
  MaxTime = 4
INVARIANT TypeOK
INVARIANT HolderCommits
INVARIANT FileBeforeRow
INVARIANT AuditAgrees
INVARIANT RetriesCounted
PROPERTY LifecycleSpec
PROPERTY PermittedMoves
PROPERTY NoStaleAcknowledgement
