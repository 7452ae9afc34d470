SPECIFICATION FairStatusSpec
CONSTANTS
  Clients = {c1}
  Cap = 2
  States = {"pending", "installing", "installed", "failed", "completed"}
  Ending = {"completed", "failed"}
  Nodes = {n1}
  LOs = {lo1}
  SharedDb = TRUE
  Wasm = {}
  Imaged = {n1}
  None = None
INVARIANTS
  StatusTypeOK
  InBroadcastOrder
  NothingSkipped
  NoSendOnClosed
  SettledIsTrue
  ClientSeesProgress
PROPERTIES
  FinalStays
  ReportsSettle
  FailureEndsStream
CHECK_DEADLOCK FALSE
