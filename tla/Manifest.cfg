SPECIFICATION Spec
CONSTANTS
  p1 = p1
  p2 = p2
  Collector = {p1, p2}
  None = None
  Candidate <- Numbered
  MaxOffered = 2
  QueueLimit = 1
INVARIANT TypeOK
INVARIANT NewestCurrent
INVARIANT SupersededNotCurrent
INVARIANT JobsApart
INVARIANT LimitKept
PROPERTY QueuedWhileCurrent
