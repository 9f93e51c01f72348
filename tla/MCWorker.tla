------------------------------ MODULE MCWorker ------------------------------
(* Small instances of Worker for TLC.                                      *)
EXTENDS Worker

\* The applications all follow main.  App 1 is in dev, and app 2 in test.
MCHome == [a \in Apps |-> "main"]
MCEnvironment == [a \in Apps |-> IF a = 1 THEN "dev" ELSE "test"]
OneEnvironment == [a \in Apps |-> "dev"]
NoParents == [a \in Apps |-> FALSE]
FirstIsParent == [a \in Apps |-> a = 1]

\* Pull request p deploys feature branch p, and 1 and 2 merge into main.
MCSource == [p \in PullRequests |-> <<"f1", "f2", "f3">>[p]]
MCDestination == [p \in PullRequests |-> IF p = 3 THEN "release" ELSE "main"]

TouchAll == [p \in PullRequests |-> Apps]
SecondTouchesTwo == [p \in PullRequests |-> IF p = 1 THEN Apps ELSE {2}]
UpToDate == [p \in PullRequests |-> FALSE]
FirstIsBehind == [p \in PullRequests |-> p = 1]

\* Events: all reviewers approved unless it says otherwise.
Make(type, p, command, env) ==
  [type |-> type, pr |-> p, command |-> command, env |-> env,
   reviewers |-> 1, approved |-> 1, requestChanged |-> 0]
Deploy(p, env) == Make("commented", p, "lock", env)
Rollback(p, env) == Make("commented", p, "unlock", env)
Merged(p) == Make("merged", p, "none", "")
Declined(p) == Make("declined", p, "none", "")
Unapproved(p) == [Deploy(p, "all") EXCEPT !.approved = 0]
Disputed(p) == [Deploy(p, "all") EXCEPT !.requestChanged = 1]
Chat(p) == Make("commented", p, "none", "")

CoreEvents ==
  {Deploy(1, "all"), Rollback(1, "all"), Merged(1), Unapproved(1),
   Deploy(2, "test"), Rollback(2, "all"), Declined(2)}

\* Pull request 1 is behind, and 3 merges into another branch than main.
SettleEvents ==
  {Deploy(1, "all"), Rollback(1, "dev"), Merged(1), Chat(1), Disputed(1),
   Deploy(3, "test"), Declined(3)}
LiveEvents == {Deploy(1, "all"), Rollback(1, "all"), Deploy(2, "all")}
TwoReplicasEvents == {Deploy(1, "all"), Rollback(1, "all"), Deploy(2, "all")}
ReplyEvents == {Deploy(2, "dev"), Deploy(1, "test"), Rollback(1, "all")}
DeployOnly == {Deploy(1, "all"), Rollback(1, "all"), Deploy(2, "test")}
=============================================================================
