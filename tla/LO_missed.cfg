SPECIFICATION Spec
CONSTANTS
  Deployments = {d1, foreign}
  Nodes = {n1}
  here = here  there = there  foreign = foreign
  Site = here
  SiteOf <- MCSiteOf
  Empty = {}
  Local = FALSE
  QueueCap = 1
INVARIANT NothingIsMissed
