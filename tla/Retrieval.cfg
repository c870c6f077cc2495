SPECIFICATION Spec
CONSTANTS
  None = None
  Nil = Nil
  p1 = p1
  p2 = p2
  Process = {p1, p2}
  Key = {"k1", "k2"}
  NoKey = NoKey
  Pid <- MCPid
  AllowedHosts = {}
  LocalHosts = {"local"}
  OddPorts = {"oddport"}
  Numerals = {"numeric"}
  Inner = {"inner"}
  MaxRedirects = 2
  MaxChunks = 2
  MaxDocuments = 4
  Settings <- MCSettings
  MaxRetries = 1
  MaxPages = 3
  MaxDetails = 2
  MaxResults = 5
  PageSize = 4
  Threshold = 2
  Cooldown = 2
  Untitled = {}
  Misses = {}
  Brief = {}
CHECK_DEADLOCK FALSE
INVARIANT HopsChecked
INVARIANT TemporaryRemoved
INVARIANT GatedNeverAsked
INVARIANT OfferedKept
PROPERTY StoreSpec
PROPERTY FetchEnds
