\* One replica, everything that can disturb it.
CONSTANTS
  NumApps = 2
  PullRequests = {1, 2}
  Branches = {"main", "f1", "f2"}
  NoBranch = ""
  Home <- MCHome
  Environment <- MCEnvironment
  ContainOther <- FirstIsParent
  SourceBranch <- MCSource
  DestinationBranch <- MCDestination
  Events <- CoreEvents
  Workers = {w1}
  Touches <- TouchAll
  Behind <- UpToDate
  Managed = {2}
  MaxQueue = 1
  MaxRun = 1
  Disturbances = {"apiError", "crash", "advance", "lateComment", "resync"}
SPECIFICATION Spec
INVARIANTS TypeOK HomeRecoverable LockMatchesPullRequest DeployExcludesOthers LockReplyTrue SuccessComplete
PROPERTIES ImplementsAppLock
CHECK_DEADLOCK FALSE
