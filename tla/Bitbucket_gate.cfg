\* Reviews, diffs and a destination that moves.
CONSTANTS
  NumApps = 2
  PullRequests = {1}
  Branches = {"main", "f1"}
  NoBranch = ""
  Home <- MCHome
  Environment <- MCEnvironment
  ContainOther <- NoParents
  SourceBranch <- MCSource
  DestinationBranch <- MCDestination
  Events <- ParsedEvents
  Workers = {w1}
  Touches <- MCTouches
  Behind <- UpToDate
  Managed = {}
  MaxQueue = 1
  MaxRun = 1
  Disturbances = {"push", "advance"}
  Slash = "/"
  Dot = "."
  BaseName <- MCBaseName
  ComponentsName <- MCComponentsName
  Users <- MCUsers
  asked = asked
  other = other
  Reviewers <- MCReviewers
  Keys = {"pullrequest:comment_created", "pullrequest:fulfilled"}
  Comments <- MCComments
  NoComment <- Silence
  Repository = "mono"
  Manifests <- MCManifests
  FirstDiff <- MCFirstDiff
  Diffs <- MCDiffs
  PageLen = 2
SPECIFICATION BitbucketSpec
INVARIANTS RelatedFound LockedWhenReviewed LockedUpToDate
CHECK_DEADLOCK FALSE
