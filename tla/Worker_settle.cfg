\* One replica, no faults: what a closed pull request leaves behind.
CONSTANTS
  NumApps = 2
  PullRequests = {1, 3}
  Branches = {"main", "release", "f1", "f3"}
  NoBranch = ""
  Home <- MCHome
  Environment <- MCEnvironment
  ContainOther <- NoParents
  SourceBranch <- MCSource
  DestinationBranch <- MCDestination
  Events <- SettleEvents
  Workers = {w1}
  Touches <- TouchAll
  Behind <- FirstIsBehind
  Managed = {}
  MaxQueue = 2
  MaxRun = 1
  Disturbances = {"push", "overtake"}
SPECIFICATION Spec
INVARIANTS SettledHoldsNothing LockMatchesPullRequest
CHECK_DEADLOCK FALSE
