------------------------------- MODULE Worker -------------------------------
(***************************************************************************)
(* The event worker at work (internal/event/worker.go and handler.go with  *)
(* the provider and application services they call): webhooks come in, the *)
(* handler of each puts its event into an in-memory queue, one goroutine   *)
(* per replica takes events from it, fetches the pull request's data,      *)
(* reads the applications from the API server, and then locks or unlocks   *)
(* them one remote call at a time from the copy it has read.               *)
(*                                                                         *)
(* A replica is a member of Workers: its process holds a queue and one     *)
(* worker goroutine.  The cluster and the git provider are shared.  Every  *)
(* remote call is a step of its own, and everything between two calls is   *)
(* part of the first.                                                      *)
(***************************************************************************)
EXTENDS EventService, Sequences

Seqs == INSTANCE SequencesExt

CONSTANTS
  Workers,       \* the replicas of the bot
  Touches,       \* Touches[p]: the apps that p's diff matches when it is opened
  Behind,        \* Behind[p]: p's branch lacks commits when it is opened
  Managed,       \* the apps whose objects an app of apps keeps in sync with git
  MaxQueue,      \* webhooks are sent to a replica while fewer than this many
                 \* events are on their way to it or in its queue
  MaxRun,        \* runs of one queue item are counted up to this
  Disturbances   \* which of PossibleDisturbances may happen

PossibleDisturbances ==
  {"apiError",    \* a call to the git provider or to the API server fails
   "crash",       \* a replica stops anywhere, loses its memory and restarts
   "push",        \* a push changes a diff, or syncs a branch
   "advance",     \* a destination gets commits that pull requests lack
   "lateComment", \* comments are written on a closed pull request
   "overtake",    \* the handler of a webhook is faster than an earlier one's
   "resync"}      \* a sync of an app of apps resets the branch of a child

ASSUME WorkerAssumption ==
  /\ Touches \in [PullRequests -> SUBSET Apps]
  /\ Behind \in [PullRequests -> BOOLEAN]
  /\ Managed \subseteq Apps
  /\ MaxQueue \in Nat
  /\ MaxRun \in Nat \ {0}
  /\ Disturbances \subseteq PossibleDisturbances

VARIABLES
  cluster,   \* the applications' objects in the API server
  pulls,     \* the git provider's pull requests
  incoming,  \* the webhooks sent to a replica that are not in its queue yet
  overtaken, \* history: pull requests whose closing event was put into a
             \* queue before an event that was sent earlier
  queue,     \* the replicas' MemoryQueues
  pc,        \* where the worker goroutine stands
  next,      \* the item it took from the queue
  attempt,   \* the attempt at GetData, 1 to 3
  data,      \* what GetData has filled into the event
  apps,      \* the applications found, as read
  todo,      \* those of them that are still to be locked or unlocked
  resp,      \* the reply in the making
  retry      \* whether the item goes back to the queue

vars == <<cluster, pulls, incoming, overtaken, queue, pc, next, attempt, data,
          apps, todo, resp, retry>>

Item == [event : Event, run : 1 .. MaxRun]
NoItem == [event |-> [type |-> "opened"], run |-> 0]
NoData == [files |-> {}, behind |-> FALSE]
NoApps == [a \in {} |-> Untouched(a)]
NoResponse == Refused("")

PullRequest == [open : BOOLEAN, files : SUBSET Apps, behind : BOOLEAN]

TypeOK ==
  /\ cluster \in [Apps -> Object]
  /\ pulls \in [PullRequests -> PullRequest]
  /\ incoming \in [Workers -> Seq(Events)]
  /\ overtaken \subseteq PullRequests
  /\ queue \in [Workers -> Seq(Item)]
  /\ pc \in [Workers -> {"idle", "files", "behind", "process", "lock",
                         "unlock", "clean", "retry", "respond"}]
  /\ \A w \in Workers : pc[w] # "idle" => next[w] \in Item
  /\ next \in [Workers -> Item \union {NoItem}]
  /\ attempt \in [Workers -> 1 .. 3]
  /\ data \in [Workers -> [files : SUBSET Apps, behind : BOOLEAN]]
  /\ apps \in [Workers -> Selection]
  /\ todo \in [Workers -> SUBSET Apps]
  /\ \A w \in Workers :
       /\ todo[w] \subseteq DOMAIN apps[w]
       /\ pc[w] \notin {"lock", "unlock", "clean"} => todo[w] = {}
  /\ resp \in [Workers -> Response]
  /\ retry \in [Workers -> BOOLEAN]

Init ==
  /\ cluster = [a \in Apps |-> Untouched(a)]
  /\ pulls = [p \in PullRequests |->
                [open |-> TRUE, files |-> Touches[p], behind |-> Behind[p]]]
  /\ incoming = [w \in Workers |-> <<>>]
  /\ overtaken = {}
  /\ queue = [w \in Workers |-> <<>>]
  /\ pc = [w \in Workers |-> "idle"]
  /\ next = [w \in Workers |-> NoItem]
  /\ attempt = [w \in Workers |-> 1]
  /\ data = [w \in Workers |-> NoData]
  /\ apps = [w \in Workers |-> NoApps]
  /\ todo = [w \in Workers |-> {}]
  /\ resp = [w \in Workers |-> NoResponse]
  /\ retry = [w \in Workers |-> FALSE]

-----------------------------------------------------------------------------
(* Helpers: the event a worker is busy with, and moves of its goroutine.   *)
EventOf(w) == next[w].event
ActionOf(w) == getActionFromEvent(EventOf(w))

Goto(w, place) == pc' = [pc EXCEPT ![w] = place]

(* The loop body ends: its variables go out of scope.                      *)
Continue(w) ==
  /\ Goto(w, "idle")
  /\ next' = [next EXCEPT ![w] = NoItem]
  /\ attempt' = [attempt EXCEPT ![w] = 1]
  /\ data' = [data EXCEPT ![w] = NoData]
  /\ apps' = [apps EXCEPT ![w] = NoApps]
  /\ todo' = [todo EXCEPT ![w] = {}]
  /\ resp' = [resp EXCEPT ![w] = NoResponse]
  /\ retry' = [retry EXCEPT ![w] = FALSE]

-----------------------------------------------------------------------------
(* The surroundings: git provider, HTTP handler, cluster, process.         *)

(* A merge adds commits to the destination; pull requests into the same    *)
(* branch, the merged one with its merge commit included, may lack them.   *)
Overtaken(e) ==
  IF e.type = "merged"
    THEN {p \in PullRequests : DestinationBranch[p] = DestinationBranch[e.pr]}
    ELSE {}

(* What an event says has happened to the pull requests.                   *)
Happened(e) ==
  \E late \in SUBSET Overtaken(e) :
    pulls' = [p \in PullRequests |->
                [pulls[p] EXCEPT !.open = @ /\ ~(p = e.pr /\ IsClosing(e)),
                                 !.behind = @ \/ p \in late]]

(* Something happens to a pull request, and the git provider sends an      *)
(* event to some replica.  Closing events are sent once; the payload's     *)
(* counts of reviewers are whatever the event holds.                       *)
Webhook(w, e) ==
  /\ Len(incoming[w]) + Len(queue[w]) < MaxQueue
  /\ pulls[e.pr].open \/ (e.type = "commented" /\ "lateComment" \in Disturbances)
  /\ Happened(e)
  /\ incoming' = [incoming EXCEPT ![w] = Append(@, e)]
  /\ UNCHANGED <<cluster, overtaken, queue, pc, next, attempt, data, apps, todo,
                 resp, retry>>

(* A closing event is put into the queue before those it has overtaken.    *)
Overtakes(w, i) ==
  {p \in PullRequests :
     /\ incoming[w][i].pr = p
     /\ IsClosing(incoming[w][i])
     /\ \E j \in 1 .. i - 1 : incoming[w][j].pr = p}

(* Mutant of Handle: the last event is the first to be served.             *)
HandleLast(w, i) ==
  /\ i = 1 \/ "overtake" \in Disturbances
  /\ incoming' = [incoming EXCEPT ![w] = Seqs!RemoveAt(@, i)]
  /\ overtaken' = overtaken \union Overtakes(w, i)
  /\ queue' = [queue EXCEPT ![w] = <<[event |-> incoming[w][i], run |-> 1]>> \o @]
  /\ UNCHANGED <<cluster, pulls, pc, next, attempt, data, apps, todo, resp, retry>>

(* The handler of the i-th webhook on its way puts the event into the      *)
(* queue.  Every request has a goroutine of its own: nothing keeps them in *)
(* the order in which the webhooks were sent.                              *)
Handle(w, i) ==
  /\ i = 1 \/ "overtake" \in Disturbances
  /\ incoming' = [incoming EXCEPT ![w] = Seqs!RemoveAt(@, i)]
  /\ overtaken' = overtaken \union Overtakes(w, i)
  /\ queue' = [queue EXCEPT ![w] = Append(@, [event |-> incoming[w][i], run |-> 1])]
  /\ UNCHANGED <<cluster, pulls, pc, next, attempt, data, apps, todo, resp, retry>>

(* A push to an open pull request changes the applications that its diff   *)
(* matches, and may bring a branch that is behind up to date.              *)
PushTo(p, files, behind) ==
  /\ "push" \in Disturbances
  /\ pulls[p].open
  /\ behind => pulls[p].behind
  /\ pulls' = [pulls EXCEPT ![p].files = files, ![p].behind = behind]
  /\ UNCHANGED <<cluster, incoming, overtaken, queue, pc, next, attempt, data,
                 apps, todo, resp, retry>>

Push(p) == \E files \in SUBSET Apps, behind \in BOOLEAN : PushTo(p, files, behind)

(* Somebody else's commits reach the destination of p.                     *)
Advance(p) ==
  /\ "advance" \in Disturbances
  /\ pulls' = [pulls EXCEPT ![p].behind = TRUE]
  /\ UNCHANGED <<cluster, incoming, overtaken, queue, pc, next, attempt, data,
                 apps, todo, resp, retry>>

(* The sync of an app of apps rewrites the spec of a child from git, where *)
(* the child follows its own branch; annotations that git lacks stay.      *)
Resync(a) ==
  /\ "resync" \in Disturbances
  /\ a \in Managed
  /\ \E c \in Apps : ContainOther[c]
  /\ cluster' = [cluster EXCEPT ![a].targetRevision = Home[a]]
  /\ UNCHANGED <<pulls, incoming, overtaken, queue, pc, next, attempt, data,
                 apps, todo, resp, retry>>

(* The process ends anywhere, the webhooks on their way to it are lost,    *)
(* and it is started again with an empty queue.  A transport error of      *)
(* GetFilesChanged or WriteComment does this too: the missing response is  *)
(* dereferenced on the worker's goroutine.                                 *)
Crash(w) ==
  /\ "crash" \in Disturbances
  /\ incoming' = [incoming EXCEPT ![w] = <<>>]
  /\ queue' = [queue EXCEPT ![w] = <<>>]
  /\ Continue(w)
  /\ UNCHANGED <<cluster, pulls, overtaken>>

-----------------------------------------------------------------------------
(* Worker.Start: take an item, then at most three attempts at GetData.     *)

Dequeue(w) ==
  /\ pc[w] = "idle"
  /\ queue[w] # <<>>
  /\ queue' = [queue EXCEPT ![w] = Tail(@)]
  /\ next' = [next EXCEPT ![w] = Head(queue[w])]
  /\ Goto(w, "files")
  /\ UNCHANGED <<cluster, pulls, incoming, overtaken, attempt, data, apps, todo,
                 resp, retry>>

GetFilesChanged(w) ==
  /\ pc[w] = "files"
  /\ data' = [data EXCEPT ![w].files = pulls[EventOf(w).pr].files]
  /\ Goto(w, "behind")
  /\ UNCHANGED <<cluster, pulls, incoming, overtaken, queue, next, attempt,
                 apps, todo, resp, retry>>

CompareBranchCommitTotal(w) ==
  /\ pc[w] = "behind"
  /\ data' = [data EXCEPT ![w].behind = pulls[EventOf(w).pr].behind]
  /\ Goto(w, "process")
  /\ UNCHANGED <<cluster, pulls, incoming, overtaken, queue, next, attempt,
                 apps, todo, resp, retry>>

(* Mutant of GetDataFails: one attempt too many.                           *)
GetDataFailsFourTimes(w) ==
  /\ "apiError" \in Disturbances
  /\ pc[w] \in {"files", "behind"}
  /\ \/ /\ attempt[w] <= 3
        /\ attempt' = [attempt EXCEPT ![w] = @ + 1]
        /\ data' = [data EXCEPT ![w] = NoData]
        /\ Goto(w, "files")
     \/ /\ attempt[w] > 3
        /\ Goto(w, "process")
        /\ UNCHANGED <<attempt, data>>
  /\ UNCHANGED <<cluster, pulls, incoming, overtaken, queue, next, apps, todo,
                 resp, retry>>

(* Either call of GetData fails.  The next attempt starts from the item's  *)
(* event again; after the third the event is processed with what the last  *)
(* attempt has filled in.                                                  *)
GetDataFails(w) ==
  /\ "apiError" \in Disturbances
  /\ pc[w] \in {"files", "behind"}
  /\ \/ /\ attempt[w] < 3
        /\ attempt' = [attempt EXCEPT ![w] = @ + 1]
        /\ data' = [data EXCEPT ![w] = NoData]
        /\ Goto(w, "files")
     \/ /\ attempt[w] = 3
        /\ Goto(w, "process")
        /\ UNCHANGED <<attempt, data>>
  /\ UNCHANGED <<cluster, pulls, incoming, overtaken, queue, next, apps, todo,
                 resp, retry>>

-----------------------------------------------------------------------------
(* Service.Process up to the first write: the applications are listed once *)
(* and the decision is taken on that copy.                                 *)

Found(w) ==
  filterByEnv(FindAppsByRepoAndFiles(cluster, data[w].files), ActionOf(w).env)

(* No reply: the event asks for nothing, the list call fails, or no        *)
(* application matches.                                                    *)
ProcessNothing(w) ==
  /\ pc[w] = "process"
  /\ \/ ActionOf(w).action = "unknown"
     \/ "apiError" \in Disturbances
     \/ DOMAIN Found(w) = {}
  /\ Continue(w)
  /\ UNCHANGED <<cluster, pulls, incoming, overtaken, queue>>

Decide(w, action) ==
  /\ pc[w] = "process"
  /\ ActionOf(w).action = action
  /\ DOMAIN Found(w) # {}
  /\ apps' = [apps EXCEPT ![w] = Found(w)]
  /\ UNCHANGED <<cluster, pulls, incoming, overtaken, queue, next, attempt, data>>

ProcessRefused(w) ==
  LET reason == Refusal(EventOf(w), data[w].behind)
  IN /\ Decide(w, "lock")
     /\ reason # ""
     /\ resp' = [resp EXCEPT ![w] = Refused(reason)]
     /\ Goto(w, "respond")
     /\ UNCHANGED <<todo, retry>>

(* lockPullRequest: all applications must be free (or held by this pull    *)
(* request) and follow the destination branch before any is locked.        *)
ProcessLock(w) ==
  LET response == LockResponse(Found(w), EventOf(w).pr)
      again == IsAnyContainApps(Found(w))
  IN /\ Decide(w, "lock")
     /\ Refusal(EventOf(w), data[w].behind) = ""
     /\ resp' = [resp EXCEPT ![w] = response]
     /\ retry' = [retry EXCEPT ![w] = again]
     /\ \/ /\ response.Success
           /\ todo' = [todo EXCEPT ![w] = ToLock(Found(w))]
           /\ Goto(w, "lock")
        \/ /\ ~response.Success
           /\ Goto(w, IF again THEN "retry" ELSE "respond")
           /\ UNCHANGED todo

(* unlockPullRequest: nothing to unlock is no news for a closing event.    *)
ProcessUnlock(w) ==
  LET mine == ToUnlock(Found(w), EventOf(w).pr)
  IN /\ Decide(w, "unlock")
     /\ mine # {}
     /\ resp' = [resp EXCEPT ![w] = UnlockResponse(Found(w), EventOf(w).pr)]
     /\ todo' = [todo EXCEPT ![w] = mine]
     /\ Goto(w, "unlock")
     /\ UNCHANGED retry

ProcessNothingLocked(w) ==
  /\ pc[w] = "process"
  /\ ActionOf(w).action = "unlock"
  /\ DOMAIN Found(w) # {}
  /\ ToUnlock(Found(w), EventOf(w).pr) = {}
  /\ \/ /\ IsClosing(EventOf(w))
        /\ Continue(w)
        /\ UNCHANGED <<cluster, pulls, incoming, overtaken, queue>>
     \/ /\ ~IsClosing(EventOf(w))
        /\ Decide(w, "unlock")
        /\ resp' = [resp EXCEPT ![w] = UnlockResponse(Found(w), EventOf(w).pr)]
        /\ Goto(w, "respond")
        /\ UNCHANGED <<todo, retry>>

-----------------------------------------------------------------------------
(* The writes.  A call that fails may still have reached the API server.   *)

IsNext(w, a) == a \in todo[w] /\ \A b \in todo[w] : a <= b

Update(a, app) == cluster' = [cluster EXCEPT ![a] = ConvertToRequest(app)]
MayUpdate(a, app) == Update(a, app) \/ UNCHANGED cluster

Fail(w, line, status) ==
  /\ resp' = [resp EXCEPT ![w] = ReportError(@, line, status)]
  /\ todo' = [todo EXCEPT ![w] = {}]
  /\ Goto(w, IF retry[w] THEN "retry" ELSE "respond")
  /\ UNCHANGED <<pulls, incoming, overtaken, queue, next, attempt, data, apps, retry>>

(* LockApp for the next application that is not locked.                    *)
Locked(w, a) ==
  lockApp(apps[w][a], SourceBranch[EventOf(w).pr], EventOf(w).pr)

LockApp(w, a) ==
  /\ pc[w] = "lock"
  /\ IsNext(w, a)
  /\ Update(a, Locked(w, a))
  /\ resp' = [resp EXCEPT ![w] = Report(@, a, "Locked")]
  /\ todo' = [todo EXCEPT ![w] = @ \ {a}]
  /\ UNCHANGED <<pulls, incoming, overtaken, queue, pc, next, attempt, data,
                 apps, retry>>

(* Mutant of LockAppFails: the error is not looked at.                     *)
LockAppFailsUnnoticed(w, a) ==
  /\ "apiError" \in Disturbances
  /\ pc[w] = "lock"
  /\ IsNext(w, a)
  /\ MayUpdate(a, Locked(w, a))
  /\ Fail(w, a, "Locked")

LockAppFails(w, a) ==
  /\ "apiError" \in Disturbances
  /\ pc[w] = "lock"
  /\ IsNext(w, a)
  /\ MayUpdate(a, Locked(w, a))
  /\ Fail(w, a, "lockError")

LockDone(w) ==
  /\ pc[w] = "lock"
  /\ todo[w] = {}
  /\ Goto(w, IF retry[w] THEN "retry" ELSE "respond")
  /\ UNCHANGED <<cluster, pulls, incoming, overtaken, queue, next, attempt,
                 data, apps, todo, resp, retry>>

(* UnlockApp is two calls: Update gives the branch back and writes the     *)
(* annotations of an unlocked application, Clean removes them.             *)
Line(w, a) ==
  SummaryLine(DOMAIN apps[w], ToUnlock(apps[w], EventOf(w).pr), a)

UnlockUpdate(w, a) ==
  /\ pc[w] = "unlock"
  /\ IsNext(w, a)
  /\ Update(a, unlockApp(apps[w][a]))
  /\ Goto(w, "clean")
  /\ UNCHANGED <<pulls, incoming, overtaken, queue, next, attempt, data, apps,
                 todo, resp, retry>>

UnlockUpdateFails(w, a) ==
  /\ "apiError" \in Disturbances
  /\ pc[w] = "unlock"
  /\ IsNext(w, a)
  /\ MayUpdate(a, unlockApp(apps[w][a]))
  /\ Fail(w, Line(w, a), "unlockError")

UnlockClean(w, a) ==
  /\ pc[w] = "clean"
  /\ IsNext(w, a)
  /\ Cleanable(cluster[a])
  /\ cluster' = [cluster EXCEPT ![a] = Clean(@)]
  /\ resp' = [resp EXCEPT ![w] = Report(@, Line(w, a), "Unlocked")]
  /\ todo' = [todo EXCEPT ![w] = @ \ {a}]
  /\ Goto(w, "unlock")
  /\ UNCHANGED <<pulls, incoming, overtaken, queue, next, attempt, data, apps, retry>>

UnlockCleanFails(w, a) ==
  /\ pc[w] = "clean"
  /\ IsNext(w, a)
  /\ \/ /\ "apiError" \in Disturbances
        /\ cluster' = [cluster EXCEPT ![a] = Clean(@)]
     \/ /\ "apiError" \in Disturbances \/ ~Cleanable(cluster[a])
        /\ UNCHANGED cluster
  /\ Fail(w, Line(w, a), "unlockError")

UnlockDone(w) ==
  /\ pc[w] = "unlock"
  /\ todo[w] = {}
  /\ \/ /\ IsClosing(EventOf(w))
        /\ Continue(w)
     \/ /\ ~IsClosing(EventOf(w))
        /\ Goto(w, "respond")
        /\ UNCHANGED <<next, attempt, data, apps, todo, resp, retry>>
  /\ UNCHANGED <<cluster, pulls, incoming, overtaken, queue>>

-----------------------------------------------------------------------------
(* The item goes back to the end of the queue, and the reply is written.   *)

(* Mutant of Requeue: the item goes back to the front.                     *)
RequeueFirst(w) ==
  /\ pc[w] = "retry"
  /\ queue' = [queue EXCEPT ![w] = <<next[w]>> \o @]
  /\ Goto(w, "respond")
  /\ UNCHANGED <<cluster, pulls, incoming, overtaken, next, attempt, data, apps,
                 todo, resp, retry>>

Requeue(w) ==
  LET run == IF next[w].run < MaxRun THEN next[w].run + 1 ELSE MaxRun
  IN /\ pc[w] = "retry"
     /\ queue' = [queue EXCEPT ![w] = Append(@, [next[w] EXCEPT !.run = run])]
     /\ Goto(w, "respond")
     /\ UNCHANGED <<cluster, pulls, incoming, overtaken, next, attempt, data,
                    apps, todo, resp, retry>>

(* responseProvider: a failing WriteComment is only logged.                *)
responseProvider(w) ==
  /\ pc[w] = "respond"
  /\ Continue(w)
  /\ UNCHANGED <<cluster, pulls, incoming, overtaken, queue>>

-----------------------------------------------------------------------------
Process(w) ==
  \/ ProcessNothing(w) \/ ProcessRefused(w) \/ ProcessLock(w)
  \/ ProcessUnlock(w) \/ ProcessNothingLocked(w)

Calls(w, a) ==
  \/ LockApp(w, a) \/ LockAppFails(w, a)
  \/ UnlockUpdate(w, a) \/ UnlockUpdateFails(w, a)
  \/ UnlockClean(w, a) \/ UnlockCleanFails(w, a)

Start(w) ==
  \/ Dequeue(w)
  \/ GetFilesChanged(w) \/ CompareBranchCommitTotal(w) \/ GetDataFails(w)
  \/ Process(w)
  \/ \E a \in Apps : Calls(w, a)
  \/ LockDone(w) \/ UnlockDone(w)
  \/ Requeue(w) \/ responseProvider(w)

Surroundings ==
  \/ \E w \in Workers, e \in Events : Webhook(w, e)
  \/ \E w \in Workers : \E i \in DOMAIN incoming[w] : Handle(w, i)
  \/ \E p \in PullRequests : Push(p) \/ Advance(p)
  \/ \E a \in Apps : Resync(a)
  \/ \E w \in Workers : Crash(w)

Next == Surroundings \/ \E w \in Workers : Start(w)

Spec == Init /\ [][Next]_vars

(* The goroutine of every replica is scheduled, and its sleeps end.        *)
Fairness == \A w \in Workers : WF_vars(Start(w))
FairSpec == Spec /\ Fairness
-----------------------------------------------------------------------------
(* Safety.                                                                 *)

KeepsHome(obj, a) ==
  IF obj.locked = "true" THEN obj.rollback = Home[a]
  ELSE obj.targetRevision = Home[a]

(* The branch an application followed before the bot touched it is never   *)
(* lost: either the application follows it, or its rollback annotation     *)
(* names it and a rollback will give it back - in the middle of a lock or  *)
(* of the two calls of an unlock, after a failed call and after a crash.   *)
HomeRecoverable == \A a \in Apps : KeepsHome(cluster[a], a)

(* An application locked to a pull request deploys that pull request's own *)
(* branch, and only when the pull request merges into the application's    *)
(* branch: the annotations and the branch never tell different stories.    *)
LockMatchesPullRequest ==
  \A a \in Apps, p \in PullRequests :
    HeldBy(cluster[a], p) =>
      /\ cluster[a].targetRevision = SourceBranch[p]
      /\ DestinationBranch[p] = Home[a]

(* "If the app is already locked by another PR, the deployment will be     *)
(* rejected": while a worker locks applications for one pull request, none *)
(* of the applications of its command is locked to another one, those that *)
(* it has not reached yet included.                                        *)
DeployExcludesOthers ==
  \A w \in Workers :
    pc[w] = "lock" =>
      \A a \in DOMAIN apps[w], q \in PullRequests \ {EventOf(w).pr} :
        ~HeldBy(cluster[a], q)

CarriesLock(a, p) == cluster[a].locked = "true" /\ cluster[a].pullRequest = p

(* The reply to a deploy command is true of the cluster when it is sent,   *)
(* also when a call failed halfway: a line "Locked" means that the         *)
(* application carries this pull request's lock, a line "blocked" that it  *)
(* carries another's, and a line "Unlocked" that it does not carry this    *)
(* pull request's lock.                                                    *)
LockReplyTrue ==
  \A w \in Workers :
    pc[w] \in {"retry", "respond"} /\ ActionOf(w).action = "lock" =>
      \A a \in DOMAIN resp[w].Summary :
        LET p == EventOf(w).pr
            line == resp[w].Summary[a]
        IN /\ line = "Locked" => CarriesLock(a, p)
           /\ line = "blocked" =>
                \E q \in PullRequests \ {p} : CarriesLock(a, q)
           /\ line = "Unlocked" => ~HeldBy(cluster[a], p)

(* The same of the reply to a rollback command.                            *)
UnlockReplyTrue ==
  \A w \in Workers :
    pc[w] = "respond" /\ ActionOf(w).action = "unlock" =>
      \A a \in DOMAIN resp[w].Summary :
        LET line == resp[w].Summary[a]
        IN /\ line = "Locked" => HeldBy(cluster[a], EventOf(w).pr)
           /\ line = "Unlocked" => \A p \in PullRequests : ~HeldBy(cluster[a], p)

ClosingPending(p) ==
  \E w \in Workers :
    \/ \E i \in DOMAIN incoming[w] :
         incoming[w][i].pr = p /\ IsClosing(incoming[w][i])
    \/ \E i \in DOMAIN queue[w] :
         queue[w][i].event.pr = p /\ IsClosing(queue[w][i].event)
    \/ pc[w] # "idle" /\ EventOf(w).pr = p /\ IsClosing(EventOf(w))

(* Once the closing event of a pull request has gone through the queue, no *)
(* application of its final diff is locked to it any more, and none ever   *)
(* will be: a lock command that was sent before has been carried out and   *)
(* undone, in whatever order the handlers of other pull requests came.     *)
(* (A closing event that overtook a command of its own pull request is too *)
(* early; applications that a push took out of the diff: RollbackFreesAll.)*)
SettledHoldsNothing ==
  \A p \in PullRequests \ overtaken :
    ~pulls[p].open /\ ~ClosingPending(p) =>
      \A a \in pulls[p].files : ~HeldBy(cluster[a], p)

(* "Rolls back all apps in the specified environment to their previous     *)
(* state and removes any locks": when a rollback is reported a success, no *)
(* application of the environment is locked to the pull request any more.  *)
RollbackFreesAll ==
  \A w \in Workers :
    pc[w] = "respond" /\ ActionOf(w).action = "unlock" /\ resp[w].Success =>
      \A a \in Apps :
        ActionOf(w).env \in {"all", Environment[a]} =>
          ~HeldBy(cluster[a], EventOf(w).pr)

(* A command that is reported a success has done all that it was asked to  *)
(* do: every application of its environment carries the pull request's     *)
(* lock, or is not locked to it any more.  Retries of GetData, calls that  *)
(* failed halfway and locks that a crash left behind make no difference:   *)
(* writing the command again is the remedy for all of them.                *)
SuccessComplete ==
  \A w \in Workers :
    pc[w] \in {"retry", "respond"} /\ resp[w].Success =>
      \A a \in data[w].files :
        ActionOf(w).env \in {"all", Environment[a]} =>
          IF ActionOf(w).action = "lock"
            THEN CarriesLock(a, EventOf(w).pr)
            ELSE ~HeldBy(cluster[a], EventOf(w).pr)

(* "Double lock for apps of apps": a deploy command that covers an app of  *)
(* apps is run twice, not more often.                                      *)
DoubleLock ==
  \A w \in Workers : \A i \in DOMAIN queue[w] : queue[w][i].run <= 2

(* AppLock's view of an object, and of a worker.                           *)
Holder(obj) ==
  LET app == Sanitize(ConvertToApplication(obj))
  IN IF app.Locked THEN app.PullRequestId ELSE NoPullRequest

Serving(w) ==
  IF pc[w] \in {"lock", "unlock", "clean"}
  THEN [action |-> IF pc[w] = "lock" THEN "lock" ELSE "unlock",
        pr |-> EventOf(w).pr]
  ELSE [action |-> "none", pr |-> NoPullRequest]

Lock == INSTANCE AppLock WITH
  None <- NoPullRequest,
  holder <- [a \in Apps |-> Holder(cluster[a])],
  serving <- [w \in Workers |-> Serving(w)]

(* The bot is a lock service: "locking ensures a single PR controls the    *)
(* lifecycle of each application".  An application changes hands only by   *)
(* being released first, it is taken and released only by the command of   *)
(* the pull request concerned, and a fault takes no lock away.             *)
ImplementsAppLock == Lock!Spec

-----------------------------------------------------------------------------
(* Liveness.                                                               *)

(* Every event that reaches a queue is taken from it, however often other  *)
(* items go back to the queue: a deploy command for an app of apps, which  *)
(* goes back each time, starves nobody.                                    *)
QueueServed ==
  \A w \in Workers, e \in Events :
    (\E i \in DOMAIN queue[w] : queue[w][i].event = e)
      ~> (pc[w] = "files" /\ EventOf(w) = e)

Taken(a, p) == \E q \in PullRequests \ {p} : HeldBy(cluster[a], q)

(* Why deploy commands for an app of apps are run again: a child that lost *)
(* its lock to a sync while its app of apps is locked is locked again,     *)
(* unless another pull request has taken it in the meantime, the app of    *)
(* apps has been rolled back, or the branch has fallen behind.             *)
ChildFollowsParent ==
  \A p \in PullRequests, c \in Apps, a \in Managed :
    (ContainOther[c] /\ HeldBy(cluster[c], p) /\ ~HeldBy(cluster[a], p))
      ~> (\/ HeldBy(cluster[a], p) \/ Taken(a, p)
          \/ ~HeldBy(cluster[c], p) \/ pulls[p].behind)
=============================================================================
