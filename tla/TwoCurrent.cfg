SPECIFICATION Spec
CONSTANTS
  Artifact = {2, 3}
  Document = {"d1"}
  DocumentOf <- Bodies
  RetrievedAt <- InOrder
  Unparseable = {}
  Column = {"text", "state", "ocr"}
  Value = {"true", "false", "completed", "completed_with_warnings", "not_needed", "unavailable", None}
  Assigned <- Outcomes
  Untold <- New
  w1 = w1
  w2 = w2
  Worker = {w1, w2}
  BatchSize = 1
  MaxFaults = 0
  None = None
INVARIANT OneCurrentExtraction
