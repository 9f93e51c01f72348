---------------------------- MODULE Notification ----------------------------
(***************************************************************************)
(* ArgoCD tells the bot how a sync went, and the bot passes it on to the   *)
(* pull request that the application is locked to                          *)
(* (internal/notification/notification.go with the client of               *)
(* internal/providers/argocd).  Each request has a handler goroutine that  *)
(* reads the application and then writes a comment, beside the worker that *)
(* locks and unlocks applications in the meantime.                         *)
(***************************************************************************)
EXTENDS Worker

CONSTANTS
  Handlers,     \* goroutines that handle notifications
  Noticed,      \* the applications that notifications are about
  NoticeFails   \* the handlers' calls may fail, and their process may end

ASSUME NotificationAssumption ==
  /\ Noticed \subseteq Apps
  /\ NoticeFails \in BOOLEAN

NoApp == 0  \* the empty name, or one that the cluster does not have

VARIABLES
  note,     \* the notification that each handler is busy with
  carriers  \* history: the pull requests whose lock its application has
            \* carried since it came, NoPullRequest for none

notifyVars == <<vars, note, carriers>>

Note == [step : {"idle", "write", "done"}, app : Noticed \union {NoApp},
         status : {200, 400, 404, 500}, target : PullRequestIds,
         written : PullRequestIds]
Noted(step, app, status, target, written) ==
  [step |-> step, app |-> app, status |-> status, target |-> target,
   written |-> written]
NoNote == Noted("idle", NoApp, 200, NoPullRequest, NoPullRequest)

NotifyTypeOK ==
  /\ note \in [Handlers -> Note]
  /\ carriers \in [Handlers -> SUBSET PullRequestIds]

NotifyInit ==
  /\ Init
  /\ note = [h \in Handlers |-> NoNote]
  /\ carriers = [h \in Handlers |-> {}]

-----------------------------------------------------------------------------
(* http.Error: the first status that is written stands.                    *)
Error(written, status) == IF written = 200 THEN status ELSE written

(* Mutant of GetApplication: a lock is taken for the presence of its       *)
(* annotations, which are still there between the two calls of an unlock.  *)
GetApplicationAnnotated(a) ==
  [ConvertToApplication(cluster[a]) EXCEPT !.Locked = cluster[a].locked # "absent"]

(* The same conversion as List's, but nothing is sanitized afterwards.     *)
GetApplication(a) == ConvertToApplication(cluster[a])

(* The body is decoded and the application is read, the first that the     *)
(* handler shares with anybody.  A body that is not JSON leaves the        *)
(* notification empty, one with a field of another type leaves that field  *)
(* empty; the handler answers 400 to both and goes on.                     *)
Read(h, a) ==
  /\ note[h].step = "idle"
  /\ \E status \in {200, 400} :
       \/ /\ a \in Apps
          /\ GetApplication(a).Locked
          /\ note' = [note EXCEPT ![h] =
               Noted("write", a, status, GetApplication(a).PullRequestId, NoPullRequest)]
       \/ /\ a \in Apps
          /\ ~GetApplication(a).Locked
          /\ note' = [note EXCEPT ![h] =
               Noted("done", a, status, NoPullRequest, NoPullRequest)]
       \/ /\ a = NoApp \/ NoticeFails
          /\ note' = [note EXCEPT ![h] =
               Noted("done", a, Error(status, 404), NoPullRequest, NoPullRequest)]

(* A comment that is not confirmed may have been written all the same.     *)
WriteComment(h) ==
  LET n == note[h]
      Finish(status, written) ==
        note' = [note EXCEPT ![h] = Noted("done", n.app, status, n.target, written)]
  IN /\ n.step = "write"
     /\ \/ Finish(n.status, n.target)
        \/ /\ NoticeFails
           /\ \E written \in {n.target, NoPullRequest} :
                Finish(Error(n.status, 500), written)

Answer(h) ==
  /\ note[h].step = "done"
  /\ note' = [note EXCEPT ![h] = NoNote]

(* The handler ends without an answer: with its process, or because        *)
(* WriteComment dereferences the response it did not get, which the HTTP   *)
(* server recovers from.                                                   *)
Abort(h) ==
  /\ NoticeFails
  /\ note[h].step = "write"
  /\ note' = [note EXCEPT ![h] = NoNote]

HandleNotification(h) ==
  \/ \E a \in Noticed \union {NoApp} : Read(h, a)
  \/ WriteComment(h) \/ Answer(h) \/ Abort(h)

-----------------------------------------------------------------------------
Carrier(obj) == IF obj.locked = "true" THEN obj.pullRequest ELSE NoPullRequest

KeepCarriers ==
  carriers' = [h \in Handlers |->
                 IF note'[h].step = "idle" THEN {}
                 ELSE IF note'[h].app = NoApp THEN {NoPullRequest}
                 ELSE carriers[h] \union {Carrier(cluster'[note'[h].app])}]

NotifyNext ==
  /\ \/ Next /\ UNCHANGED note
     \/ \E h \in Handlers : HandleNotification(h) /\ UNCHANGED vars
  /\ KeepCarriers

NotifySpec == NotifyInit /\ [][NotifyNext]_notifyVars
NotifyFairSpec == NotifySpec /\ Fairness
-----------------------------------------------------------------------------
(* What became of a notification is true of some moment since it came,     *)
(* whatever the worker did meanwhile: it was passed on to a pull request   *)
(* whose lock the application carried, it was answered with 200 and not    *)
(* passed on only if there was a moment without a lock (in the middle of   *)
(* an unlock for instance), and an answer of 404 means that nothing was    *)
(* written.  (400 does not: see Read.)                                     *)
NoticeTrue ==
  \A h \in Handlers :
    note[h].step = "done" =>
      /\ note[h].written \in carriers[h] \union {NoPullRequest}
      /\ note[h].status = 200 => note[h].written \in carriers[h]
      /\ note[h].status = 404 => note[h].written = NoPullRequest
=============================================================================
