SPECIFICATION Spec
CONSTANTS
  Deployments = {d1, d2, d3, foreign}
  Nodes = {n1}
  here = here  there = there  foreign = foreign
  Site = here
  SiteOf <- MCSiteOf
  Empty = {d2}
  Local = FALSE
  QueueCap = 2
INVARIANTS
  TypeOK
  CursorsInOrder
  HandedOnce
  InCommitOrder
  GitPolledIsValid
  OneWatcher
  AskedOnce
  CommitsAreChanges
PROPERTIES
  PublishedIsFinal
  MissedForAReason
  ImplementsLedger
