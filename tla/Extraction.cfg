SPECIFICATION Scheduled
CONSTANTS
  Artifact = {1, 2, 3, 4}
  Document = {"d1", "d2"}
  DocumentOf <- Bodies
  RetrievedAt <- InOrder
  Unparseable = {1}
  Column = {"text", "state", "ocr"}
  Value = {"true", "false", "completed", "completed_with_warnings", "not_needed", "unavailable", None}
  Assigned <- Outcomes
  Untold <- New
  w1 = w1
  w2 = w2
  Worker = {w1, w2}
  BatchSize = 2
  MaxFaults = 1
  None = None
INVARIANT TypeOK
INVARIANT ColumnsGiven
PROPERTY ReplacedNotLost
PROPERTY EveryTextExtracted
