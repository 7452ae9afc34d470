SPECIFICATION StatusSpec
CONSTANTS
  Clients = {}
  Cap = 2
  States = {"pending", "installing", "installed", "failed", "completed"}
  Ending = {"completed", "failed"}
  Nodes = {n1}
  LOs = {lo1}
  SharedDb = TRUE
  Wasm = {}
  Imaged = {n1}
  None = None
INVARIANTS
  ComponentsFollow
CHECK_DEADLOCK FALSE
