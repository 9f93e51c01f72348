---------------------------- MODULE EventService ----------------------------
(***************************************************************************)
(* The decisions of internal/event/service.go: which action an event asks  *)
(* for and on which environment, whether the pull request may be deployed, *)
(* and what the reply says of each application.                            *)
(***************************************************************************)
EXTENDS Application

CONSTANTS
  SourceBranch,       \* SourceBranch[p]: the branch that p wants to deploy
  DestinationBranch,  \* DestinationBranch[p]: the branch that p merges into
  Events              \* the webhook events that the model exchanges

(* A parsed event. A comment is reduced to the command the regular         *)
(* expression finds in it and the word after the command ("" if none).     *)
Event == [type : {"opened", "updated", "declined", "merged", "commented",
                  "unknown"},
          pr : PullRequests,
          command : {"lock", "unlock", "none"},
          env : STRING,
          reviewers : Nat, approved : Nat, requestChanged : Nat]

ASSUME EventAssumption ==
  /\ SourceBranch \in [PullRequests -> Branches]
  /\ DestinationBranch \in [PullRequests -> Branches]
  /\ Events \subseteq Event

IsClosing(e) == e.type \in {"merged", "declined"}

getActionFromEvent(e) ==
  CASE IsClosing(e) -> [action |-> "unlock", env |-> "all"]
    [] e.type = "commented" /\ e.command # "none" ->
         [action |-> e.command, env |-> e.env]
    [] OTHER -> [action |-> "unknown", env |-> ""]

filterByEnv(apps, env) ==
  [a \in {b \in DOMAIN apps : Environment[b] = env \/ env = "all"} |->
     Sanitize(apps[a])]

(* Mutant of IsAnyContainApps: only a list of nothing but apps of apps.    *)
AreAllContainApps(apps) == \A a \in DOMAIN apps : ContainOther[a]

IsAnyContainApps(apps) == \E a \in DOMAIN apps : ContainOther[a]

(* Mutant of Refusal: commits behind are not looked at.                    *)
RefusalUpToDate(e, commitsBehind) ==
  IF e.approved = 0 /\ e.reviewers # 0 THEN "notApproved"
  ELSE IF e.requestChanged > 0 THEN "changesRequested"
  ELSE ""

(* The checks that a lock command must pass, in the order of the code.     *)
Refusal(e, commitsBehind) ==
  IF e.approved = 0 /\ e.reviewers # 0 THEN "notApproved"
  ELSE IF e.requestChanged > 0 THEN "changesRequested"
  ELSE IF commitsBehind THEN "behind"
  ELSE ""

(* Mutants of LockStatus: whose lock it is, and which branch the           *)
(* application follows, are not looked at.                                 *)
LockStatusOfAnyone(app, p) ==
  IF app.Locked THEN "Locked"
  ELSE IF app.Branch # DestinationBranch[p] THEN "branchMismatch"
  ELSE "Unlocked"

LockStatusOfAnyBranch(app, p) ==
  IF ~app.Locked THEN "Unlocked"
  ELSE IF app.PullRequestId # p THEN "blocked"
  ELSE "Locked"

(* The line of the reply for one application, before anything is changed.  *)
UnlockStatus(app, p) ==
  IF ~app.Locked THEN "Unlocked"
  ELSE IF app.PullRequestId # p THEN "blocked"
  ELSE "Locked"

LockStatus(app, p) ==
  IF ~app.Locked /\ app.Branch # DestinationBranch[p] THEN "branchMismatch"
  ELSE UnlockStatus(app, p)

Statuses == {"blocked", "Locked", "branchMismatch", "Unlocked",
             "lockError", "unlockError"}

Summaries == UNION {[S -> Statuses] : S \in SUBSET Apps}
Response == [Success : BOOLEAN,
             Message : {"", "notApproved", "changesRequested", "behind"},
             Summary : Summaries]

NoSummary == [a \in {} |-> "Unlocked"]
Refused(reason) == [Success |-> FALSE, Message |-> reason, Summary |-> NoSummary]

LockResponse(apps, p) ==
  LET status == [a \in DOMAIN apps |-> LockStatus(apps[a], p)]
  IN [Success |-> \A a \in DOMAIN apps : status[a] \in {"Locked", "Unlocked"},
      Message |-> "", Summary |-> status]

UnlockResponse(apps, p) ==
  [Success |-> TRUE, Message |-> "",
   Summary |-> [a \in DOMAIN apps |-> UnlockStatus(apps[a], p)]]

ToLock(apps) == {a \in DOMAIN apps : ~apps[a].Locked}

(* Mutant of ToUnlock: every locked application is taken for one's own.    *)
ToUnlockOfAnyone(apps, p) == {a \in DOMAIN apps : apps[a].Locked}

ToUnlock(apps, p) ==
  {a \in DOMAIN apps : apps[a].Locked /\ apps[a].PullRequestId = p}

(* unlockPullRequest indexes the summary, which has a line for every       *)
(* application found, by the place of a in the list of those to unlock.    *)
Position(S, a) == Cardinality({b \in S : b <= a})
SummaryLine(all, some, a) ==
  CHOOSE b \in all : Position(all, b) = Position(some, a)

(* The reply after one application was changed, and after a call failed.   *)
Report(resp, line, status) == [resp EXCEPT !.Summary[line] = status]

(* Mutant of ReportError: the command is still called a success.           *)
ReportErrorAsSuccess(resp, line, status) ==
  [resp EXCEPT !.Summary[line] = status]

ReportError(resp, line, status) ==
  [resp EXCEPT !.Success = FALSE, !.Summary[line] = status]
=============================================================================
