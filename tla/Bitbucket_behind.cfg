\* A pull request that is behind, and a git provider that fails.
CONSTANTS
  NumApps = 2
  PullRequests = {1}
  Branches = {"main", "f1"}
  NoBranch = ""
  Home <- MCHome
  Environment <- MCEnvironment
  ContainOther <- NoParents
  SourceBranch <- MCSource
  DestinationBranch <- MCDestination
  Events <- ParsedEvents
  Workers = {w1}
  Touches <- MCTouches
  Behind <- FirstIsBehind
  Managed = {}
  MaxQueue = 1
  MaxRun = 1
  Disturbances = {"apiError"}
  Slash = "/"
  Dot = "."
  BaseName <- MCBaseName
  ComponentsName <- MCComponentsName
  Users <- MCUsers
  asked = asked
  other = other
  Reviewers <- MCReviewers
  Keys = {"pullrequest:comment_created", "pullrequest:fulfilled"}
  Comments <- MCComments
  NoComment <- Silence
  Repository = "mono"
  Manifests <- MCManifests
  FirstDiff <- MCFirstDiff
  Diffs <- MCDiffs
  PageLen = 2
SPECIFICATION BitbucketSpec
INVARIANTS LockedUpToDate
CHECK_DEADLOCK FALSE
