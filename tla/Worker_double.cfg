\* An app of apps, and runs counted up to 3.
CONSTANTS
  NumApps = 2
  PullRequests = {1, 2}
  Branches = {"main", "f1", "f2"}
  NoBranch = ""
  Home <- MCHome
  Environment <- MCEnvironment
  ContainOther <- FirstIsParent
  SourceBranch <- MCSource
  DestinationBranch <- MCDestination
  Events <- DeployOnly
  Workers = {w1}
  Touches <- TouchAll
  Behind <- UpToDate
  Managed = {2}
  MaxQueue = 1
  MaxRun = 3
  Disturbances = {}
SPECIFICATION Spec
INVARIANTS DoubleLock
CHECK_DEADLOCK FALSE
