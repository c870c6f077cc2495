SPECIFICATION Collection
CONSTANTS
  p1 = p1
  p2 = p2
  Collector = {p1, p2}
  None = None
  Unsaid = Unsaid
  Candidate <- Labelled
  MaxOffered = 3
  QueueLimit = 2
  Settings <- MCSettings
  MaxNotices = 4
  MaxFaults = 2
INVARIANT ANewestCurrent
PROPERTY OfferedPreserved
PROPERTY EveryNoticeKept
