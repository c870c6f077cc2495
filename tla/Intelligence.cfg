SPECIFICATION StoredSpec
CONSTANTS
  Artifact = {1, 2, 3, 4}
  Document = {"d1", "d2", "d3"}
  DocumentOf <- Bodies
  RetrievedAt <- InOrder
  Unparseable = {}
  Column = {"text"}
  Value = {"false"}
  Assigned <- Outcomes
  Untold <- Alike
  w1 = w1
  Worker = {w1}
  BatchSize = 1
  MaxFaults = 1
  None = None
  Labels <- LabelOrder
  MaxFields = 3
  MaxRequirements = 1
  MaxListed = 1
  AwardFields = {}
  StatusField = 9
  TextOf <- Texts
  Warned = {2}
  Descriptions <- Titles
  r1 = r1
  r2 = r2
  Reader = {r1, r2}
  ReaderBatch = 2
INVARIANT TextRepresented
 
PROPERTY EveryTextUnderstood
