SPECIFICATION WaitingSpec
CHECK_DEADLOCK FALSE
CONSTANTS
  Document = {1, 2, 3}
  Worker = {w1}
  w1 = w1
  c1 = c1
  NoOne = NoOne
  NoContent = NoContent
  Priority <- UnequalPriority
  MaxAttempts = 2
  DownloadMax = 2
  LeaseSeconds = 1
  RetryBase = 0
  RetryMax = 0
  RetryAfter = {}
  Batch = 2
  Content = {c1}
  FailureKind = {"TRANSIENT"}
  Maintenance = {"recover"}
  PromptCommit = TRUE
  MaxTime = 1
PROPERTY ExpiredLeaseReturns
PROPERTY DueJobClaimed
PROPERTY BatchEnds
