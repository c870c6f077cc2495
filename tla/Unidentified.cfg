SPECIFICATION Spec
CONSTANTS
  p1 = p1
  Collector = {p1}
  None = None
  Candidate <- Unidentified
  MaxOffered = 2
  QueueLimit = 2
PROPERTY OfferedPreserved
