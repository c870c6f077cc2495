SPECIFICATION FairSpec
CHECK_DEADLOCK FALSE
CONSTANTS
  Document = {1}
  Worker = {w1}
  w1 = w1
  c1 = c1
  NoOne = NoOne
  NoContent = NoContent
  Priority <- DefaultPriority
  MaxAttempts = 2
  DownloadMax = 2
  LeaseSeconds = 1
  RetryBase = 1
  RetryMax = 1
  RetryAfter = {}
  Batch = 1
  Content = {c1}
  FailureKind = {"TRANSIENT", "UNSAFE_URL"}
  Maintenance = {}
  PromptCommit = TRUE
  MaxTime = 2
PROPERTY ExpiredLeaseReturns
