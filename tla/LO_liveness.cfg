SPECIFICATION FairSpec
CONSTANTS
  Deployments = {d1, d2, foreign}
  Nodes = {n1}
  here = here  there = there  foreign = foreign
  Site = here
  SiteOf <- MCSiteOf
  Empty = {d2}
  Local = FALSE
  QueueCap = 1
PROPERTIES
  PublishedIsDecided
  WatcherIsStarted
  RoundsFinish
