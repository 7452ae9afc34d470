SPECIFICATION FairEdgeSpec
CONSTANTS
  d1 = d1  d2 = d2  d3 = d3  v1 = v1  v2 = v2
  Requests <- MCRequests
  Wasm = FALSE
  None = None
INVARIANTS
  EdgeTypeOK
  InstalledOnce
  InstalledIsThere
PROPERTIES
  ImplementsReports
  RequestsEnd
CHECK_DEADLOCK FALSE
