\* Two replicas, as during a rolling update.
CONSTANTS
  NumApps = 1
  PullRequests = {1, 2}
  Branches = {"main", "f1", "f2"}
  NoBranch = ""
  Home <- MCHome
  Environment <- MCEnvironment
  ContainOther <- NoParents
  SourceBranch <- MCSource
  DestinationBranch <- MCDestination
  Events <- TwoReplicasEvents
  Workers = {w1, w2}
  Touches <- TouchAll
  Behind <- UpToDate
  Managed = {}
  MaxQueue = 1
  MaxRun = 1
  Disturbances = {}
SPECIFICATION Spec
INVARIANTS HomeRecoverable
CHECK_DEADLOCK FALSE
