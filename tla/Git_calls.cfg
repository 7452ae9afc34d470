SPECIFICATION FairGitSpec
CONSTANTS
  Callers = {p1, p2}
  None = None
INVARIANTS
  GitTypeOK
  HalfOnlyAfterKill
PROPERTY OnlyPullHangs
CHECK_DEADLOCK FALSE
