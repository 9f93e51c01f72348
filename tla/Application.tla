---------------------------- MODULE Application ----------------------------
(***************************************************************************)
(* The application slice of GitBot (internal/app): what an ArgoCD          *)
(* Application object in the cluster looks like to the bot, how it is      *)
(* converted to the bot's own record and back, and how a record is locked  *)
(* to a pull request's branch and unlocked again.                          *)
(*                                                                         *)
(* An application is named by its place in the API server's list, which is *)
(* the order every loop of the program visits applications in.             *)
(***************************************************************************)
EXTENDS Integers, FiniteSets

CONSTANTS
  NumApps,        \* how many ArgoCD applications the cluster has
  PullRequests,   \* ids of the pull requests
  Branches,       \* git branches
  NoBranch,       \* the empty string where a branch is expected
  Home,           \* Home[a]: the branch a follows when no pull request holds it
  Environment,    \* Environment[a]: the environment a belongs to
  ContainOther    \* ContainOther[a]: a is an app of apps

Apps == 1 .. NumApps
Unlocked == -1    \* the pull request id that unlockApp writes
NoPullRequest == 0 \* what Atoi yields when the annotation is absent
PullRequestIds == PullRequests \union {Unlocked, NoPullRequest}
BranchNames == Branches \union {NoBranch}

ASSUME ApplicationAssumption ==
  /\ NumApps \in Nat
  /\ PullRequests \subseteq Nat \ {0}
  /\ NoBranch \notin Branches
  /\ Home \in [Apps -> Branches]
  /\ ContainOther \in [Apps -> BOOLEAN]

-----------------------------------------------------------------------------
(* The object kept by the API server: three annotations of the bot and the *)
(* branch that ArgoCD deploys. "absent" says that the annotations are not  *)
(* there: the bot writes and removes all three together.                   *)
Object == [locked : {"absent", "false", "true"},
           pullRequest : PullRequestIds,
           rollback : BranchNames,
           targetRevision : BranchNames]

(* The bot's own view of an object.                                        *)
Application == [Branch : BranchNames,
                Locked : BOOLEAN,
                PullRequestId : PullRequestIds,
                LastBranch : BranchNames]

(* A copy of some of the applications, by name.                            *)
Selection == UNION {[S -> Application] : S \in SUBSET Apps}

(* An application that the bot never touched.                              *)
Untouched(a) == [locked |-> "absent", pullRequest |-> NoPullRequest,
                 rollback |-> NoBranch, targetRevision |-> Home[a]]

ConvertToApplication(obj) ==
  [Branch |-> obj.targetRevision,
   Locked |-> obj.locked = "true",
   PullRequestId |-> obj.pullRequest,
   LastBranch |-> obj.rollback]

(* A lock whose branch is back at the branch it was taken from is no lock. *)
Sanitize(app) ==
  [app EXCEPT !.Locked = @ /\ app.LastBranch # app.Branch]

(* Mutants of lockApp: the branch is overwritten before it is kept, and    *)
(* the owner of an earlier lock is kept.                                   *)
lockAppKeepsTarget(app, targetBranch, prID) ==
  IF app.Locked THEN app
  ELSE [Branch |-> targetBranch, Locked |-> TRUE,
        PullRequestId |-> prID, LastBranch |-> targetBranch]

lockAppKeepsOwner(app, targetBranch, prID) ==
  IF app.Locked THEN app
  ELSE [Branch |-> targetBranch, Locked |-> TRUE, LastBranch |-> app.Branch,
        PullRequestId |-> IF app.PullRequestId \in PullRequests
                            THEN app.PullRequestId ELSE prID]

lockApp(app, targetBranch, prID) ==
  IF app.Locked THEN app
  ELSE [Branch |-> targetBranch, Locked |-> TRUE,
        PullRequestId |-> prID, LastBranch |-> app.Branch]

unlockApp(app) ==
  IF ~app.Locked THEN app
  ELSE [Branch |-> app.LastBranch, Locked |-> FALSE,
        PullRequestId |-> Unlocked, LastBranch |-> NoBranch]

(* The merge patch of Update: it writes all the fields of the object that  *)
(* the bot owns, whatever they hold by then (no resourceVersion is sent).  *)
ConvertToRequest(app) ==
  [locked |-> IF app.Locked THEN "true" ELSE "false",
   pullRequest |-> app.PullRequestId,
   rollback |-> app.LastBranch,
   targetRevision |-> app.Branch]

(* Clean: the JSON patch removes the three annotations and nothing else;   *)
(* the API server refuses it when one of them is missing.                  *)
Cleanable(obj) == obj.locked # "absent"
Clean(obj) ==
  [obj EXCEPT !.locked = "absent", !.pullRequest = NoPullRequest,
              !.rollback = NoBranch]

(* One list call reads all objects; "matched" are the applications with a  *)
(* path that a changed file of the pull request matches.                   *)
List(cluster) == [a \in Apps |-> ConvertToApplication(cluster[a])]

filterAppByRepoAndFiles(apps, matched) ==
  [a \in matched |-> Sanitize(apps[a])]

FindAppsByRepoAndFiles(cluster, matched) ==
  filterAppByRepoAndFiles(List(cluster), matched)

-----------------------------------------------------------------------------
(* The pull request that an object is locked to, as the bot would read it. *)
HeldBy(obj, p) ==
  LET app == Sanitize(ConvertToApplication(obj))
  IN app.Locked /\ app.PullRequestId = p
=============================================================================
