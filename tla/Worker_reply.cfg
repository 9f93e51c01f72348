\* A rollback that finds another pull request's lock first.
CONSTANTS
  NumApps = 2
  PullRequests = {1, 2}
  Branches = {"main", "f1", "f2"}
  NoBranch = ""
  Home <- MCHome
  Environment <- MCEnvironment
  ContainOther <- NoParents
  SourceBranch <- MCSource
  DestinationBranch <- MCDestination
  Events <- ReplyEvents
  Workers = {w1}
  Touches <- TouchAll
  Behind <- UpToDate
  Managed = {}
  MaxQueue = 1
  MaxRun = 1
  Disturbances = {}
SPECIFICATION Spec
INVARIANTS UnlockReplyTrue
CHECK_DEADLOCK FALSE
