\* A push takes an application out of the diff after the deploy.
CONSTANTS
  NumApps = 2
  PullRequests = {1, 2}
  Branches = {"main", "f1", "f2"}
  NoBranch = ""
  Home <- MCHome
  Environment <- MCEnvironment
  ContainOther <- NoParents
  SourceBranch <- MCSource
  DestinationBranch <- MCDestination
  Events <- DeployOnly
  Workers = {w1}
  Touches <- TouchAll
  Behind <- UpToDate
  Managed = {}
  MaxQueue = 1
  MaxRun = 1
  Disturbances = {"push"}
SPECIFICATION Spec
INVARIANTS RollbackFreesAll
CHECK_DEADLOCK FALSE
