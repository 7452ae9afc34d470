SPECIFICATION FairGitSpec
CONSTANTS
  Callers = {p1}
  None = None
PROPERTY PullRecovers
CHECK_DEADLOCK FALSE
