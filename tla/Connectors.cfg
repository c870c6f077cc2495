SPECIFICATION Spec
CONSTANTS
  None = None
  MaxRetries = 1
  MaxPages = 3
  MaxDetails = 2
  MaxResults = 5
  PageSize = 2
  Threshold = 2
  Cooldown = 2
  Untitled = {"u"}
  Misses = {"m"}
  Brief = {"h", "i"}
  MaxTime = 2
  MaxRuns = 3
  Lasting = 99
  Settings <- MCSettings
  Queries <- MCQueries
INVARIANT TypeOK
INVARIANT YieldedOnce
INVARIANT LimitKept
INVARIANT CollectedAll
INVARIANT NoFalseEmpty
CHECK_DEADLOCK FALSE
PROPERTY LeftAlone
PROPERTY EveryRunEnds
