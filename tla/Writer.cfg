SPECIFICATION FairWriterSpec
CONSTANTS
  Deployments = {d1, d2, d3, d4}
  Local = FALSE
  None = None
INVARIANTS
  WriterTypeOK
  OneCallWorks
  NothingIsTakenAway
PROPERTIES
  ImplementsRepo
  CallsReturn
