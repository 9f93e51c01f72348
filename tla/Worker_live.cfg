\* One replica, an app of apps and its child, syncs of the child.
CONSTANTS
  NumApps = 2
  PullRequests = {1, 2}
  Branches = {"main", "f1", "f2"}
  NoBranch = ""
  Home <- MCHome
  Environment <- OneEnvironment
  ContainOther <- FirstIsParent
  SourceBranch <- MCSource
  DestinationBranch <- MCDestination
  Events <- LiveEvents
  Workers = {w1}
  Touches <- SecondTouchesTwo
  Behind <- UpToDate
  Managed = {2}
  MaxQueue = 1
  MaxRun = 1
  Disturbances = {"resync"}
  Handlers = {h1}
  Noticed = {2}
  NoticeFails = TRUE
SPECIFICATION NotifyFairSpec
INVARIANTS NoticeTrue
PROPERTIES QueueServed ChildFollowsParent
CHECK_DEADLOCK FALSE
