SPECIFICATION FairStatusSpec
CONSTANTS
  Clients = {c1}
  Cap = 2
  States = {"pending", "installing", "installed", "failed", "completed"}
  Ending = {"completed", "failed"}
  Nodes = {n1}
  LOs = {lo1}
  SharedDb = TRUE
  Wasm = {n1}
  Imaged = {}
  None = None
PROPERTY StreamEndsWhenDone
CHECK_DEADLOCK FALSE
