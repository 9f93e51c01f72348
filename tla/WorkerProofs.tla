---------------------------- MODULE WorkerProofs ----------------------------
(***************************************************************************)
(* Theorems about Worker, for every number of applications, pull requests, *)
(* branches, events and queue lengths, and for every set of disturbances.  *)
(***************************************************************************)
EXTENDS Worker, SequenceTheorems, TLAPS

-----------------------------------------------------------------------------
(* The operators of Application and EventService keep to their types.      *)

LEMMA UntouchedType ==
  ASSUME NEW a \in Apps
  PROVE  Untouched(a) \in Object
BY ApplicationAssumption DEF Untouched, Object, PullRequestIds, BranchNames

LEMMA SanitizeType ==
  ASSUME NEW app \in Application
  PROVE  Sanitize(app) \in Application
BY DEF Sanitize, Application

LEMMA ConvertType ==
  ASSUME NEW obj \in Object
  PROVE  ConvertToApplication(obj) \in Application
BY DEF ConvertToApplication, Object, Application

LEMMA lockAppType ==
  ASSUME NEW app \in Application, NEW b \in Branches, NEW p \in PullRequests
  PROVE  lockApp(app, b, p) \in Application
BY DEF lockApp, Application, PullRequestIds, BranchNames

LEMMA unlockAppType ==
  ASSUME NEW app \in Application
  PROVE  unlockApp(app) \in Application
BY DEF unlockApp, Application, PullRequestIds, BranchNames

LEMMA RequestType ==
  ASSUME NEW app \in Application
  PROVE  ConvertToRequest(app) \in Object
BY DEF ConvertToRequest, Object, Application

LEMMA CleanType ==
  ASSUME NEW obj \in Object
  PROVE  Clean(obj) \in Object
BY DEF Clean, Object, PullRequestIds, BranchNames

LEMMA FoundType ==
  ASSUME TypeOK, NEW w \in Workers
  PROVE  Found(w) \in Selection
<1> DEFINE files == data[w].files
           list == FindAppsByRepoAndFiles(cluster, files)
<1>1. files \subseteq Apps
  BY DEF TypeOK
<1>2. list \in [files -> Application]
  BY <1>1, ConvertType, SanitizeType
     DEF FindAppsByRepoAndFiles, filterAppByRepoAndFiles, List, TypeOK
<1>3. \A S \in SUBSET files : [a \in S |-> Sanitize(list[a])] \in [S -> Application]
  BY <1>2, SanitizeType
<1> HIDE DEF list
<1>4. DOMAIN list = files
  BY <1>2
<1> DEFINE S == {b \in files : Environment[b] = ActionOf(w).env \/ ActionOf(w).env = "all"}
<1>5. Found(w) = [a \in S |-> Sanitize(list[a])]
  BY <1>4 DEF Found, filterByEnv, list
<1>6. Found(w) \in [S -> Application]
  BY <1>3, <1>5
<1>7. S \in SUBSET Apps
  BY <1>1
<1> QED
  BY <1>6, <1>7 DEF Selection

LEMMA ResponseType ==
  ASSUME NEW sel \in Selection, NEW p \in PullRequests
  PROVE  /\ LockResponse(sel, p) \in Response
         /\ UnlockResponse(sel, p) \in Response
<1>1. PICK S \in SUBSET Apps : sel \in [S -> Application]
  BY DEF Selection
<1>2. \A a \in S : LockStatus(sel[a], p) \in Statuses /\ UnlockStatus(sel[a], p) \in Statuses
  BY DEF LockStatus, UnlockStatus, Statuses
<1>3. /\ [a \in DOMAIN sel |-> LockStatus(sel[a], p)] \in Summaries
      /\ [a \in DOMAIN sel |-> UnlockStatus(sel[a], p)] \in Summaries
  BY <1>1, <1>2 DEF Summaries
<1> QED
  BY <1>3 DEF LockResponse, UnlockResponse, Response

LEMMA RefusedType ==
  /\ NoResponse \in Response
  /\ \A e, behind : Refused(Refusal(e, behind)) \in Response
<1>1. NoSummary \in Summaries
  BY DEF NoSummary, Summaries
<1> QED
  BY <1>1 DEF NoResponse, Refused, Refusal, Response

LEMMA ReportType ==
  ASSUME NEW r \in Response, NEW line, NEW status \in Statuses
  PROVE  Report(r, line, status) \in Response /\ ReportError(r, line, status) \in Response
<1>1. \A s \in Summaries : [s EXCEPT ![line] = status] \in Summaries
  BY DEF Summaries
<1> QED
  BY <1>1 DEF Report, ReportError, Response

-----------------------------------------------------------------------------
(* The type invariant.                                                     *)

LEMMA NoAppsType == NoApps \in Selection /\ DOMAIN NoApps = {}
<1>1. NoApps \in [{} -> Application]
  BY DEF NoApps
<1> QED
  BY <1>1 DEF Selection

LEMMA TypeInit == Init => TypeOK
<1> SUFFICES ASSUME Init PROVE TypeOK
  OBVIOUS
<1>1. cluster \in [Apps -> Object]
  BY UntouchedType DEF Init
<1>3. queue \in [Workers -> Seq(Item)]
  BY EmptySeq DEF Init
<1>2. incoming \in [Workers -> Seq(Events)]
  BY EmptySeq DEF Init
<1>4. pulls \in [PullRequests -> PullRequest]
  BY WorkerAssumption DEF Init, PullRequest
<1> QED
  BY <1>1, <1>2, <1>3, <1>4, NoAppsType, RefusedType DEF Init, TypeOK, NoData

(* The end of the loop body, which several actions share.                  *)
LEMMA TypeContinue ==
  ASSUME TypeOK, NEW w \in Workers, Continue(w),
         cluster' \in [Apps -> Object],
         pulls' \in [PullRequests -> PullRequest],
         incoming' \in [Workers -> Seq(Events)],
         overtaken' \subseteq PullRequests,
         queue' \in [Workers -> Seq(Item)]
  PROVE  TypeOK'
<1>2. pc' = [pc EXCEPT ![w] = "idle"]
  BY DEF Continue, Goto
<1>3. \A v \in Workers :
        /\ todo'[v] \subseteq DOMAIN apps'[v]
        /\ pc'[v] \notin {"lock", "unlock", "clean"} => todo'[v] = {}
  BY <1>2, NoAppsType DEF Continue, TypeOK
<1>4. \A v \in Workers : pc'[v] # "idle" => next'[v] \in Item
  BY <1>2 DEF Continue, TypeOK
<1> QED
  BY <1>2, <1>3, <1>4, NoAppsType, RefusedType DEF Continue, TypeOK, NoData

(* A sequence without its i-th element: the others keep their order.       *)
LEMMA RemoveAtProperties ==
  ASSUME NEW S, NEW s \in Seq(S), NEW i \in 1 .. Len(s)
  PROVE  /\ Seqs!RemoveAt(s, i) \in Seq(S)
         /\ Len(Seqs!RemoveAt(s, i)) = Len(s) - 1
         /\ \A j \in 1 .. Len(s) - 1 :
              Seqs!RemoveAt(s, i)[j] = s[IF j < i THEN j ELSE j + 1]
<1> DEFINE before == SubSeq(s, 1, i - 1)
           after == SubSeq(s, i + 1, Len(s))
<1>1. Len(s) \in Nat
  BY LenProperties
<1>2. /\ before \in Seq(S)
      /\ Len(before) = i - 1
      /\ \A j \in 1 .. i - 1 : before[j] = s[j]
  BY <1>1, SubSeqProperties
<1>3. /\ after \in Seq(S)
      /\ Len(after) = Len(s) - i
      /\ \A j \in 1 .. Len(s) - i : after[j] = s[i + j]
  BY <1>1, SubSeqProperties
<1> HIDE DEF before, after
<1>4. /\ before \o after \in Seq(S)
      /\ Len(before \o after) = Len(before) + Len(after)
      /\ \A j \in 1 .. Len(before) + Len(after) :
           (before \o after)[j] =
             IF j <= Len(before) THEN before[j] ELSE after[j - Len(before)]
  BY <1>2, <1>3, ConcatProperties, Zenon
<1>5. ASSUME NEW j \in 1 .. Len(s) - 1
      PROVE  (before \o after)[j] = s[IF j < i THEN j ELSE j + 1]
  BY <1>1, <1>2, <1>3, <1>4
<1>6. Len(before \o after) = Len(s) - 1
  BY <1>1, <1>2, <1>3, <1>4
<1> QED
  BY <1>4, <1>5, <1>6 DEF Seqs!RemoveAt, before, after

LEMMA TypeSurroundings ==
  ASSUME TypeOK, Surroundings
  PROVE  TypeOK'
<1>1. ASSUME NEW w \in Workers, NEW e \in Events, Webhook(w, e) PROVE TypeOK'
  <2>1. incoming' \in [Workers -> Seq(Events)]
    BY <1>1, AppendProperties DEF Webhook, TypeOK
  <2>2. PICK late \in SUBSET Overtaken(e) :
          pulls' = [p \in PullRequests |->
                      [pulls[p] EXCEPT !.open = @ /\ ~(p = e.pr /\ IsClosing(e)),
                                       !.behind = @ \/ p \in late]]
    BY <1>1 DEF Webhook, Happened
  <2>3. \A r \in PullRequest, b, d \in BOOLEAN :
          [r EXCEPT !.open = @ /\ b, !.behind = @ \/ d] \in PullRequest
    BY DEF PullRequest
  <2>4. pulls' \in [PullRequests -> PullRequest]
    BY <2>2, <2>3 DEF TypeOK, IsClosing
  <2> QED
    BY <1>1, <2>1, <2>4 DEF Webhook, TypeOK
<1>2. ASSUME NEW w \in Workers, NEW i \in DOMAIN incoming[w], Handle(w, i)
      PROVE  TypeOK'
  <2>1. incoming[w] \in Seq(Events) /\ i \in 1 .. Len(incoming[w])
    BY LenProperties DEF TypeOK
  <2>2. \A j \in 1 .. Len(incoming[w]) : incoming[w][j] \in Events
    BY <2>1, ElementOfSeq
  <2>3. overtaken' \subseteq PullRequests
    BY <1>2 DEF Handle, Overtakes, TypeOK
  <2>4. incoming' \in [Workers -> Seq(Events)]
    BY <1>2, <2>1, RemoveAtProperties DEF Handle, TypeOK
  <2>5. [event |-> incoming[w][i], run |-> 1] \in Item
    BY <2>1, <2>2, EventAssumption, WorkerAssumption DEF Item
  <2>6. queue' \in [Workers -> Seq(Item)]
    BY <1>2, <2>5, AppendProperties DEF Handle, TypeOK
  <2> QED
    BY <1>2, <2>3, <2>4, <2>6 DEF Handle, TypeOK
<1>3. ASSUME NEW p \in PullRequests, Push(p) PROVE TypeOK'
  <2>1. PICK files \in SUBSET Apps, behind \in BOOLEAN : PushTo(p, files, behind)
    BY <1>3 DEF Push
  <2>2. \A r \in PullRequest :
          [r EXCEPT !.files = files, !.behind = behind] \in PullRequest
    BY DEF PullRequest
  <2>3. pulls' \in [PullRequests -> PullRequest]
    BY <2>1, <2>2 DEF PushTo, TypeOK
  <2> QED
    BY <2>1, <2>3 DEF PushTo, TypeOK
<1>4. ASSUME NEW a \in Apps, Resync(a) PROVE TypeOK'
  <2>1. \A obj \in Object : [obj EXCEPT !.targetRevision = Home[a]] \in Object
    BY ApplicationAssumption DEF Object, BranchNames
  <2>2. cluster' \in [Apps -> Object]
    BY <1>4, <2>1 DEF Resync, TypeOK
  <2> QED
    BY <1>4, <2>2 DEF Resync, TypeOK
<1>5. ASSUME NEW w \in Workers, Crash(w) PROVE TypeOK'
  <2>1. queue' \in [Workers -> Seq(Item)]
    BY <1>5, EmptySeq DEF Crash, TypeOK
  <2>2. incoming' \in [Workers -> Seq(Events)]
    BY <1>5, EmptySeq DEF Crash, TypeOK
  <2> QED
    BY <1>5, <2>1, <2>2, TypeContinue DEF Crash, TypeOK
<1>6. ASSUME NEW p \in PullRequests, Advance(p) PROVE TypeOK'
  <2>1. \A r \in PullRequest : [r EXCEPT !.behind = TRUE] \in PullRequest
    BY DEF PullRequest
  <2>2. pulls' \in [PullRequests -> PullRequest]
    BY <1>6, <2>1 DEF Advance, TypeOK
  <2> QED
    BY <1>6, <2>2 DEF Advance, TypeOK
<1> QED
  BY <1>1, <1>2, <1>3, <1>4, <1>5, <1>6 DEF Surroundings

LEMMA TypeFetch ==
  ASSUME TypeOK, NEW w \in Workers,
         \/ Dequeue(w) \/ GetFilesChanged(w)
         \/ CompareBranchCommitTotal(w) \/ GetDataFails(w)
  PROVE  TypeOK'
<1>1. CASE Dequeue(w)
  <2>1. Head(queue[w]) \in Item /\ Tail(queue[w]) \in Seq(Item)
    BY <1>1, HeadTailProperties DEF Dequeue, TypeOK
  <2> QED
    BY <1>1, <2>1 DEF Dequeue, Goto, TypeOK
<1> DEFINE Data == [files : SUBSET Apps, behind : BOOLEAN]
<1>2. pc[w] # "idle" => EventOf(w).pr \in PullRequests
  BY DEF TypeOK, EventOf, Item, Event
<1>2a. \A d \in Data, S \in SUBSET Apps, b \in BOOLEAN :
        [d EXCEPT !.files = S] \in Data /\ [d EXCEPT !.behind = b] \in Data
  OBVIOUS
<1>2b. data \in [Workers -> Data] /\ attempt[w] \in 1 .. 3
  BY DEF TypeOK
<1> HIDE DEF Data
<1>3. CASE GetFilesChanged(w)
  <2>1. pulls[EventOf(w).pr].files \in SUBSET Apps
    BY <1>2, <1>3 DEF GetFilesChanged, TypeOK, PullRequest
  <2>3. data' \in [Workers -> Data]
    BY <1>2a, <1>2b, <1>3, <2>1 DEF GetFilesChanged
  <2> QED
    BY <1>3, <2>3 DEF GetFilesChanged, Goto, TypeOK, Data
<1>4. CASE CompareBranchCommitTotal(w)
  <2>1. pulls[EventOf(w).pr].behind \in BOOLEAN
    BY <1>2, <1>4 DEF CompareBranchCommitTotal, TypeOK, PullRequest
  <2>3. data' \in [Workers -> Data]
    BY <1>2a, <1>2b, <1>4, <2>1 DEF CompareBranchCommitTotal
  <2> QED
    BY <1>4, <2>3 DEF CompareBranchCommitTotal, Goto, TypeOK, Data
<1>5. CASE GetDataFails(w)
  <2>1. attempt' \in [Workers -> 1 .. 3] /\ data' \in [Workers -> Data]
    <3>1. NoData \in Data
      BY DEF NoData, Data
    <3>2. CASE attempt[w] < 3
      <4>1. attempt[w] + 1 \in 1 .. 3
        BY <1>2b, <3>2
      <4>2. attempt \in [Workers -> 1 .. 3]
        BY DEF TypeOK
      <4> QED
        BY <1>2b, <1>5, <3>1, <3>2, <4>1, <4>2 DEF GetDataFails
    <3>3. CASE attempt[w] = 3
      BY <1>2b, <1>5, <3>3 DEF GetDataFails, TypeOK
    <3> QED
      BY <1>5, <3>2, <3>3 DEF GetDataFails
  <2> QED
    BY <1>5, <2>1 DEF GetDataFails, Goto, TypeOK, Data
<1> QED
  BY <1>1, <1>3, <1>4, <1>5

LEMMA BusyType ==
  ASSUME TypeOK, NEW w \in Workers, pc[w] # "idle"
  PROVE  /\ next[w] \in Item
         /\ EventOf(w).pr \in PullRequests
         /\ SourceBranch[EventOf(w).pr] \in Branches
BY EventAssumption DEF TypeOK, EventOf, Item, Event

LEMMA TypeProcess ==
  ASSUME TypeOK, NEW w \in Workers, Process(w)
  PROVE  TypeOK'
<1> DEFINE found == Found(w)
           pr == EventOf(w).pr
<1>1. pc[w] = "process"
  BY DEF Process, ProcessNothing, ProcessRefused, ProcessLock, ProcessUnlock,
         ProcessNothingLocked, Decide
<1>2. found \in Selection /\ DOMAIN found \subseteq Apps
  BY FoundType DEF Selection
<1>3. next[w] \in Item /\ pr \in PullRequests
  BY <1>1, BusyType
<1>4. /\ LockResponse(found, pr) \in Response
      /\ UnlockResponse(found, pr) \in Response
  BY <1>2, <1>3, ResponseType
<1> HIDE DEF found, pr
<1>5. CASE ProcessNothing(w)
  BY <1>5, TypeContinue DEF ProcessNothing, TypeOK
<1>6. ASSUME Decide(w, ActionOf(w).action),
             NEW S \in SUBSET DOMAIN found, todo' = [todo EXCEPT ![w] = S],
             NEW r \in Response, resp' = [resp EXCEPT ![w] = r],
             NEW b \in BOOLEAN, retry' = [retry EXCEPT ![w] = b],
             NEW place \in {"lock", "unlock", "retry", "respond"}, Goto(w, place),
             place \in {"retry", "respond"} => S = {}
      PROVE  TypeOK'
  <2>1. apps' = [apps EXCEPT ![w] = found]
    BY <1>6 DEF Decide, found
  <2>2. apps' \in [Workers -> Selection] /\ todo' \in [Workers -> SUBSET Apps]
    BY <1>2, <1>6, <2>1 DEF TypeOK
  <2>3. \A v \in Workers :
          /\ todo'[v] \subseteq DOMAIN apps'[v]
          /\ pc'[v] \notin {"lock", "unlock", "clean"} => todo'[v] = {}
    BY <1>6, <2>1 DEF Goto, TypeOK
  <2>4. resp' \in [Workers -> Response] /\ retry' \in [Workers -> BOOLEAN]
    BY <1>6 DEF TypeOK
  <2>5. pc' \in [Workers -> {"idle", "files", "behind", "process", "lock",
                            "unlock", "clean", "retry", "respond"}]
    BY <1>6 DEF Goto, TypeOK
  <2>6. \A v \in Workers : pc'[v] # "idle" => next'[v] \in Item
    BY <1>3, <1>6 DEF Decide, Goto, TypeOK
  <2> QED
    BY <1>6, <2>2, <2>3, <2>4, <2>5, <2>6 DEF Decide, TypeOK
<1>7. /\ todo = [todo EXCEPT ![w] = {}]
      /\ retry = [retry EXCEPT ![w] = retry[w]]
      /\ retry[w] \in BOOLEAN
  BY <1>1 DEF TypeOK
<1>8. CASE ProcessRefused(w)
  BY <1>6, <1>7, <1>8, RefusedType DEF ProcessRefused, Decide
<1>9. CASE ProcessLock(w)
  <2>1. /\ IsAnyContainApps(found) \in BOOLEAN
        /\ ToLock(found) \in SUBSET DOMAIN found
    BY DEF IsAnyContainApps, ToLock
  <2> QED
    BY <1>4, <1>6, <1>7, <1>9, <2>1 DEF ProcessLock, Decide, found, pr
<1>10. ToUnlock(found, pr) \in SUBSET DOMAIN found
  BY DEF ToUnlock
<1>11. CASE ProcessUnlock(w)
  BY <1>4, <1>6, <1>7, <1>10, <1>11 DEF ProcessUnlock, Decide, found, pr
<1>12. CASE ProcessNothingLocked(w)
  <2>1. CASE IsClosing(EventOf(w)) /\ Continue(w)
    BY <1>12, <2>1, TypeContinue DEF ProcessNothingLocked, Decide, TypeOK
  <2>2. CASE ~IsClosing(EventOf(w)) /\ Decide(w, "unlock")
    BY <1>4, <1>6, <1>7, <1>12, <2>2 DEF ProcessNothingLocked, Decide, found, pr
  <2> QED
    BY <1>12, <2>1, <2>2 DEF ProcessNothingLocked
<1> QED
  BY <1>5, <1>8, <1>9, <1>11, <1>12 DEF Process

(* A call that failed ends the command.                                    *)
LEMMA TypeFail ==
  ASSUME TypeOK, NEW w \in Workers, pc[w] # "idle",
         NEW line, NEW status \in Statuses, Fail(w, line, status),
         cluster' \in [Apps -> Object]
  PROVE  TypeOK'
<1>1. resp' \in [Workers -> Response]
  BY ReportType DEF Fail, TypeOK
<1>2. /\ todo' \in [Workers -> SUBSET Apps]
      /\ \A v \in Workers :
           /\ todo'[v] \subseteq DOMAIN apps'[v]
           /\ pc'[v] \notin {"lock", "unlock", "clean"} => todo'[v] = {}
  BY DEF Fail, Goto, TypeOK
<1>3. \A v \in Workers : pc'[v] # "idle" => next'[v] \in Item
  BY DEF Fail, Goto, TypeOK
<1> QED
  BY <1>1, <1>2, <1>3 DEF Fail, Goto, TypeOK

(* One application of the command is done.                                 *)
LEMMA TypeCallDone ==
  ASSUME TypeOK, NEW w \in Workers, pc[w] \in {"lock", "clean"},
         NEW a \in Apps, NEW line, NEW status \in Statuses,
         NEW place \in {"lock", "unlock"}, Goto(w, place),
         resp' = [resp EXCEPT ![w] = Report(resp[w], line, status)],
         todo' = [todo EXCEPT ![w] = todo[w] \ {a}],
         UNCHANGED <<pulls, incoming, overtaken, queue, next, attempt, data, apps, retry>>,
         cluster' \in [Apps -> Object]
  PROVE  TypeOK'
<1>1. resp' \in [Workers -> Response]
  BY ReportType DEF TypeOK
<1>2. /\ todo' \in [Workers -> SUBSET Apps]
      /\ \A v \in Workers :
           /\ todo'[v] \subseteq DOMAIN apps'[v]
           /\ pc'[v] \notin {"lock", "unlock", "clean"} => todo'[v] = {}
  BY DEF Goto, TypeOK
<1>3. \A v \in Workers : pc'[v] # "idle" => next'[v] \in Item
  BY DEF Goto, TypeOK
<1> QED
  BY <1>1, <1>2, <1>3 DEF Goto, TypeOK

LEMMA CallTypes ==
  ASSUME TypeOK, NEW w \in Workers, pc[w] # "idle", NEW a \in todo[w]
  PROVE  /\ apps[w][a] \in Application
         /\ ConvertToRequest(Locked(w, a)) \in Object
         /\ ConvertToRequest(unlockApp(apps[w][a])) \in Object
<1>1. PICK S \in SUBSET Apps : apps[w] \in [S -> Application]
  BY DEF TypeOK, Selection
<1>2. a \in S
  BY <1>1 DEF TypeOK
<1>3. apps[w][a] \in Application
  BY <1>1, <1>2
<1>4. Locked(w, a) \in Application /\ unlockApp(apps[w][a]) \in Application
  BY <1>3, BusyType, lockAppType, unlockAppType DEF Locked
<1> QED
  BY <1>3, <1>4, RequestType

LEMMA TypeCalls ==
  ASSUME TypeOK, NEW w \in Workers, NEW a \in Apps, Calls(w, a)
  PROVE  TypeOK'
<1>1. pc[w] \in {"lock", "unlock", "clean"} /\ a \in todo[w]
  BY DEF Calls, LockApp, LockAppFails, UnlockUpdate, UnlockUpdateFails,
         UnlockClean, UnlockCleanFails, IsNext
<1>2. /\ ConvertToRequest(Locked(w, a)) \in Object
      /\ ConvertToRequest(unlockApp(apps[w][a])) \in Object
  BY <1>1, CallTypes
<1>3. \A obj \in Object :
        [cluster EXCEPT ![a] = obj] \in [Apps -> Object]
  BY DEF TypeOK
<1>4. [cluster EXCEPT ![a] = Clean(cluster[a])] \in [Apps -> Object]
  BY <1>3, CleanType DEF TypeOK
<1>5. cluster \in [Apps -> Object] /\ pc = [pc EXCEPT ![w] = pc[w]]
  BY DEF TypeOK
<1>6. {"Locked", "Unlocked", "lockError", "unlockError"} \subseteq Statuses
  BY DEF Statuses
<1>7. CASE LockApp(w, a)
  BY <1>2, <1>3, <1>5, <1>6, <1>7, TypeCallDone DEF LockApp, Update, Goto
<1>8. CASE LockAppFails(w, a)
  BY <1>2, <1>3, <1>5, <1>6, <1>8, TypeFail DEF LockAppFails, MayUpdate, Update
<1>9. CASE UnlockUpdate(w, a)
  <2>1. cluster' \in [Apps -> Object]
    BY <1>2, <1>3, <1>9 DEF UnlockUpdate, Update
  <2> QED
    BY <1>9, <2>1 DEF UnlockUpdate, Goto, TypeOK
<1>10. CASE UnlockUpdateFails(w, a)
  BY <1>2, <1>3, <1>5, <1>6, <1>10, TypeFail DEF UnlockUpdateFails, MayUpdate, Update
<1>11. CASE UnlockClean(w, a)
  BY <1>4, <1>6, <1>11, TypeCallDone DEF UnlockClean
<1>12. CASE UnlockCleanFails(w, a)
  BY <1>4, <1>5, <1>6, <1>12, TypeFail DEF UnlockCleanFails
<1> QED
  BY <1>7, <1>8, <1>9, <1>10, <1>11, <1>12 DEF Calls

LEMMA TypeEnd ==
  ASSUME TypeOK, NEW w \in Workers,
         LockDone(w) \/ UnlockDone(w) \/ Requeue(w) \/ responseProvider(w)
  PROVE  TypeOK'
<1>1. CASE LockDone(w)
  BY <1>1 DEF LockDone, Goto, TypeOK
<1>2. CASE UnlockDone(w)
  <2>1. CASE IsClosing(EventOf(w)) /\ Continue(w)
    BY <1>2, <2>1, TypeContinue DEF UnlockDone, TypeOK
  <2>2. CASE ~IsClosing(EventOf(w)) /\ Goto(w, "respond")
    BY <1>2, <2>2 DEF UnlockDone, Goto, TypeOK
  <2> QED
    BY <1>2, <2>1, <2>2 DEF UnlockDone
<1>3. CASE Requeue(w)
  <2> DEFINE run == IF next[w].run < MaxRun THEN next[w].run + 1 ELSE MaxRun
             item == [next[w] EXCEPT !.run = run]
  <2>1. next[w] \in Item
    BY <1>3, BusyType DEF Requeue
  <2>2. run \in 1 .. MaxRun
    BY <2>1, WorkerAssumption DEF Item
  <2>3. item \in Item
    BY <2>1, <2>2 DEF Item
  <2>4. queue' \in [Workers -> Seq(Item)]
    BY <1>3, <2>3, AppendProperties DEF Requeue, TypeOK
  <2> QED
    BY <1>3, <2>4 DEF Requeue, Goto, TypeOK
<1>4. CASE responseProvider(w)
  BY <1>4, TypeContinue DEF responseProvider, TypeOK
<1> QED
  BY <1>1, <1>2, <1>3, <1>4

LEMMA TypeStep == TypeOK /\ [Next]_vars => TypeOK'
<1> SUFFICES ASSUME TypeOK, [Next]_vars PROVE TypeOK'
  OBVIOUS
<1>1. CASE Surroundings
  BY <1>1, TypeSurroundings
<1>2. ASSUME NEW w \in Workers, Start(w) PROVE TypeOK'
  BY <1>2, TypeFetch, TypeProcess, TypeCalls, TypeEnd DEF Start
<1>3. CASE UNCHANGED vars
  BY <1>3 DEF vars, TypeOK
<1> QED
  BY <1>1, <1>2, <1>3 DEF Next

(* The variables of the event worker keep their types, whatever events     *)
(* arrive and whatever fails: in particular the reply has lines only for   *)
(* applications, at most three attempts are made at GetData, and what is   *)
(* still to be locked or unlocked was found and read before.               *)
THEOREM TypeCorrect == Spec => []TypeOK
<1> QED
  BY TypeInit, TypeStep, PTL DEF Spec

-----------------------------------------------------------------------------
(* HomeRecoverable, for one replica.                                       *)

(* What the copy that the worker has read says of the branches.  It holds  *)
(* for any number of replicas: a copy does not change.                     *)
CopiesKnowHome ==
  \A w \in Workers : \A a \in todo[w] :
    /\ pc[w] = "lock" => ~apps[w][a].Locked /\ apps[w][a].Branch = Home[a]
    /\ pc[w] \in {"unlock", "clean"} =>
         apps[w][a].Locked /\ apps[w][a].LastBranch = Home[a]

(* Between the two calls of an unlock the application is unlocked.  With a *)
(* second replica another pull request may lock it there, and Clean would  *)
(* then remove the only trace of the branch it followed.                   *)
CleanFindsUnlocked ==
  \A w \in Workers, a \in Apps :
    pc[w] = "clean" /\ IsNext(w, a) => cluster[a].locked # "true"

HomeInv == TypeOK /\ HomeRecoverable /\ CopiesKnowHome /\ CleanFindsUnlocked

LEMMA LockKeepsHome ==
  ASSUME NEW a \in Apps, NEW app \in Application, NEW b, NEW p,
         ~app.Locked, app.Branch = Home[a]
  PROVE  KeepsHome(ConvertToRequest(lockApp(app, b, p)), a)
BY DEF KeepsHome, ConvertToRequest, lockApp

LEMMA UnlockKeepsHome ==
  ASSUME NEW a \in Apps, NEW app \in Application,
         app.Locked, app.LastBranch = Home[a]
  PROVE  /\ ConvertToRequest(unlockApp(app)).locked = "false"
         /\ KeepsHome(ConvertToRequest(unlockApp(app)), a)
BY DEF KeepsHome, ConvertToRequest, unlockApp

LEMMA CleanKeepsHome ==
  ASSUME NEW a \in Apps, NEW obj \in Object,
         KeepsHome(obj, a), obj.locked # "true"
  PROVE  KeepsHome(Clean(obj), a)
BY DEF KeepsHome, Clean, Object

LEMMA ResyncKeepsHome ==
  ASSUME NEW a \in Apps, NEW obj \in Object, KeepsHome(obj, a)
  PROVE  KeepsHome([obj EXCEPT !.targetRevision = Home[a]], a)
BY DEF KeepsHome, Object

(* What Process reads: a free application follows its home branch, and a   *)
(* locked one remembers it.                                                *)
LEMMA FoundKnowsHome ==
  ASSUME TypeOK, HomeRecoverable, NEW w \in Workers, NEW a \in DOMAIN Found(w)
  PROVE  IF Found(w)[a].Locked THEN Found(w)[a].LastBranch = Home[a]
         ELSE Found(w)[a].Branch = Home[a]
<1> DEFINE once == Sanitize(ConvertToApplication(cluster[a]))
<1>1. a \in data[w].files /\ a \in Apps
  BY DEF Found, filterByEnv, FindAppsByRepoAndFiles,
         filterAppByRepoAndFiles, List, TypeOK
<1>2. Found(w)[a] = Sanitize(once)
  BY <1>1 DEF Found, filterByEnv, FindAppsByRepoAndFiles,
              filterAppByRepoAndFiles, List
<1>3. cluster[a] \in Object /\ KeepsHome(cluster[a], a)
  BY <1>1 DEF TypeOK, HomeRecoverable
<1>4. IF once.Locked THEN once.LastBranch = Home[a] ELSE once.Branch = Home[a]
  BY <1>3 DEF KeepsHome, Sanitize, ConvertToApplication, Object
<1>5. once \in Application
  BY <1>3, ConvertType, SanitizeType
<1> QED
  BY <1>2, <1>4, <1>5 DEF Sanitize, Application

HomeParts == HomeRecoverable /\ CopiesKnowHome /\ CleanFindsUnlocked

LEMMA HomeInit == Init => HomeParts
BY DEF Init, HomeParts, HomeRecoverable, KeepsHome, Untouched, CopiesKnowHome,
       CleanFindsUnlocked

(* A write of one application keeps the others.                            *)
LEMMA HomeWrite ==
  ASSUME TypeOK, HomeRecoverable, NEW a \in Apps, NEW obj,
         KeepsHome(obj, a),
         cluster' = [cluster EXCEPT ![a] = obj] \/ UNCHANGED cluster
  PROVE  HomeRecoverable'
BY DEF TypeOK, HomeRecoverable

(* Nothing is left to lock or unlock.                                      *)
LEMMA HomeNothingToDo ==
  ASSUME \A v \in Workers : pc'[v] \notin {"lock", "unlock", "clean"}
  PROVE  CopiesKnowHome' /\ CleanFindsUnlocked'
BY DEF CopiesKnowHome, CleanFindsUnlocked

LEMMA HomeSurroundings ==
  ASSUME \A v, w \in Workers : v = w, HomeInv, Surroundings
  PROVE  HomeParts'
<1> USE DEF HomeInv
<1>1. ASSUME NEW w \in Workers, NEW e \in Events, Webhook(w, e) PROVE HomeParts'
  BY <1>1 DEF Webhook, HomeParts, HomeRecoverable, CopiesKnowHome,
              CleanFindsUnlocked, IsNext
<1>2. ASSUME NEW w \in Workers, NEW i \in DOMAIN incoming[w], Handle(w, i)
      PROVE  HomeParts'
  BY <1>2 DEF Handle, HomeParts, HomeRecoverable, CopiesKnowHome,
              CleanFindsUnlocked, IsNext
<1>3. ASSUME NEW p \in PullRequests, Push(p) PROVE HomeParts'
  BY <1>3 DEF Push, PushTo, HomeParts, HomeRecoverable, CopiesKnowHome,
              CleanFindsUnlocked, IsNext
<1>4. ASSUME NEW a \in Apps, Resync(a) PROVE HomeParts'
  <2> DEFINE obj == [cluster[a] EXCEPT !.targetRevision = Home[a]]
  <2>1. cluster' = [cluster EXCEPT ![a] = obj]
    BY <1>4 DEF Resync
  <2>2. cluster[a] \in Object /\ KeepsHome(cluster[a], a)
    BY DEF TypeOK, HomeRecoverable
  <2>3. KeepsHome(obj, a) /\ obj.locked = cluster[a].locked
    BY <2>2, ResyncKeepsHome DEF Object
  <2> HIDE DEF obj
  <2>4. HomeRecoverable'
    BY <2>1, <2>3, HomeWrite
  <2>5. CopiesKnowHome'
    BY <1>4 DEF Resync, CopiesKnowHome
  <2>6. CleanFindsUnlocked'
    BY <1>4, <2>1, <2>3 DEF Resync, CleanFindsUnlocked, IsNext, TypeOK
  <2> QED
    BY <2>4, <2>5, <2>6 DEF HomeParts
<1>5. ASSUME NEW w \in Workers, Crash(w) PROVE HomeParts'
  <2>1. \A v \in Workers : pc'[v] = "idle"
    BY <1>5 DEF Crash, Continue, Goto, TypeOK
  <2> QED
    BY <1>5, <2>1, HomeNothingToDo DEF Crash, HomeParts, HomeRecoverable
<1>6. ASSUME NEW p \in PullRequests, Advance(p) PROVE HomeParts'
  BY <1>6 DEF Advance, HomeParts, HomeRecoverable, CopiesKnowHome,
              CleanFindsUnlocked, IsNext
<1> QED
  BY <1>1, <1>2, <1>3, <1>4, <1>5, <1>6 DEF Surroundings

LEMMA HomeProcess ==
  ASSUME \A v, w \in Workers : v = w, HomeInv, NEW w \in Workers, Process(w)
  PROVE  HomeParts'
<1> USE DEF HomeInv
<1>1. UNCHANGED cluster
  BY DEF Process, ProcessNothing, ProcessRefused, ProcessLock, ProcessUnlock,
         ProcessNothingLocked, Decide
<1>2. HomeRecoverable'
  BY <1>1 DEF HomeRecoverable
<1>3. CASE pc'[w] \notin {"lock", "unlock", "clean"}
  BY <1>2, <1>3, HomeNothingToDo DEF HomeParts
<1>4. CASE pc'[w] = "lock"
  <2>1. /\ todo' = [todo EXCEPT ![w] = ToLock(Found(w))]
        /\ apps' = [apps EXCEPT ![w] = Found(w)]
    BY <1>4 DEF Process, ProcessNothing, ProcessRefused, ProcessLock,
                ProcessUnlock, ProcessNothingLocked, Decide, Continue, Goto, TypeOK
  <2>2. \A v \in Workers : /\ v = w
                           /\ todo'[v] = ToLock(Found(w))
                           /\ apps'[v] = Found(w)
                           /\ pc'[v] = "lock"
    BY <1>4, <2>1 DEF TypeOK
  <2> QED
    BY <1>2, <2>2, FoundKnowsHome
       DEF HomeParts, CopiesKnowHome, CleanFindsUnlocked, ToLock
<1>5. CASE pc'[w] \in {"unlock", "clean"}
  <2>1. /\ pc'[w] = "unlock"
        /\ todo' = [todo EXCEPT ![w] = ToUnlock(Found(w), EventOf(w).pr)]
        /\ apps' = [apps EXCEPT ![w] = Found(w)]
    BY <1>5 DEF Process, ProcessNothing, ProcessRefused, ProcessLock,
                ProcessUnlock, ProcessNothingLocked, Decide, Continue, Goto, TypeOK
  <2>2. \A v \in Workers : /\ v = w
                           /\ todo'[v] = ToUnlock(Found(w), EventOf(w).pr)
                           /\ apps'[v] = Found(w)
                           /\ pc'[v] = "unlock"
    BY <2>1 DEF TypeOK
  <2> QED
    BY <1>2, <2>2, FoundKnowsHome
       DEF HomeParts, CopiesKnowHome, CleanFindsUnlocked, ToUnlock
<1> QED
  BY <1>3, <1>4, <1>5

LEMMA HomeCalls ==
  ASSUME \A v, w \in Workers : v = w, HomeInv,
         NEW w \in Workers, NEW a \in Apps, Calls(w, a)
  PROVE  HomeParts'
<1> USE DEF HomeInv
<1>1. a \in todo[w] /\ pc[w] \in {"lock", "unlock", "clean"}
  BY DEF Calls, LockApp, LockAppFails, UnlockUpdate, UnlockUpdateFails,
         UnlockClean, UnlockCleanFails, IsNext
<1>2. apps[w][a] \in Application
  BY <1>1, CallTypes
<1>3. pc[w] = "lock" => KeepsHome(ConvertToRequest(Locked(w, a)), a)
  BY <1>1, <1>2, LockKeepsHome DEF CopiesKnowHome, Locked
<1>4. pc[w] \in {"unlock", "clean"} =>
        /\ ConvertToRequest(unlockApp(apps[w][a])).locked = "false"
        /\ KeepsHome(ConvertToRequest(unlockApp(apps[w][a])), a)
  BY <1>1, <1>2, UnlockKeepsHome DEF CopiesKnowHome
<1>5. pc[w] = "clean" /\ IsNext(w, a) => KeepsHome(Clean(cluster[a]), a)
  BY CleanKeepsHome DEF CleanFindsUnlocked, TypeOK, HomeRecoverable
<1>6. ASSUME NEW line, NEW status, Fail(w, line, status)
      PROVE  CopiesKnowHome' /\ CleanFindsUnlocked'
  <2>1. \A v \in Workers : pc'[v] \in {"retry", "respond"}
    BY <1>6 DEF Fail, Goto, TypeOK
  <2> QED
    BY <2>1, HomeNothingToDo
<1>7. CASE LockApp(w, a)
  <2>1. HomeRecoverable'
    BY <1>3, <1>7, HomeWrite DEF LockApp, Update
  <2>2. CopiesKnowHome' /\ CleanFindsUnlocked'
    BY <1>7 DEF LockApp, CopiesKnowHome, CleanFindsUnlocked, TypeOK
  <2> QED
    BY <2>1, <2>2 DEF HomeParts
<1>8. CASE LockAppFails(w, a)
  <2>1. HomeRecoverable'
    BY <1>3, <1>8, HomeWrite DEF LockAppFails, MayUpdate, Update
  <2> QED
    BY <1>6, <1>8, <2>1 DEF LockAppFails, HomeParts
<1>9. CASE UnlockUpdate(w, a)
  <2> DEFINE obj == ConvertToRequest(unlockApp(apps[w][a]))
  <2>1. cluster' = [cluster EXCEPT ![a] = obj]
    BY <1>9 DEF UnlockUpdate, Update
  <2>2. obj.locked = "false" /\ KeepsHome(obj, a)
    BY <1>4, <1>9 DEF UnlockUpdate
  <2> HIDE DEF obj
  <2>3. HomeRecoverable'
    BY <2>1, <2>2, HomeWrite
  <2>4. CopiesKnowHome'
    BY <1>9 DEF UnlockUpdate, Goto, CopiesKnowHome, TypeOK
  <2>5. ASSUME NEW b \in Apps, IsNext(w, b)' PROVE b = a
    BY <1>9, <2>5 DEF UnlockUpdate, IsNext, Apps
  <2>6. CleanFindsUnlocked'
    BY <2>1, <2>2, <2>5 DEF CleanFindsUnlocked, TypeOK
  <2> QED
    BY <2>3, <2>4, <2>6 DEF HomeParts
<1>10. CASE UnlockUpdateFails(w, a)
  <2>1. HomeRecoverable'
    BY <1>4, <1>10, HomeWrite DEF UnlockUpdateFails, MayUpdate, Update
  <2> QED
    BY <1>6, <1>10, <2>1 DEF UnlockUpdateFails, HomeParts
<1>11. CASE UnlockClean(w, a)
  <2>1. HomeRecoverable'
    BY <1>5, <1>11, HomeWrite DEF UnlockClean
  <2>2. CopiesKnowHome'
    BY <1>11 DEF UnlockClean, Goto, CopiesKnowHome, TypeOK
  <2>3. CleanFindsUnlocked'
    BY <1>11 DEF UnlockClean, Goto, CleanFindsUnlocked, TypeOK
  <2> QED
    BY <2>1, <2>2, <2>3 DEF HomeParts
<1>12. CASE UnlockCleanFails(w, a)
  <2>1. HomeRecoverable'
    BY <1>5, <1>12, HomeWrite DEF UnlockCleanFails
  <2> QED
    BY <1>6, <1>12, <2>1 DEF UnlockCleanFails, HomeParts
<1> QED
  BY <1>7, <1>8, <1>9, <1>10, <1>11, <1>12 DEF Calls

LEMMA HomeOther ==
  ASSUME \A v, w \in Workers : v = w, HomeInv, NEW w \in Workers,
         \/ Dequeue(w) \/ GetFilesChanged(w)
         \/ CompareBranchCommitTotal(w) \/ GetDataFails(w)
         \/ LockDone(w) \/ UnlockDone(w) \/ Requeue(w) \/ responseProvider(w)
  PROVE  HomeParts'
<1> USE DEF HomeInv
<1>1. UNCHANGED cluster
  BY DEF Dequeue, GetFilesChanged, CompareBranchCommitTotal, GetDataFails,
         LockDone, UnlockDone, Requeue, responseProvider
<1>2. \A v \in Workers : pc'[v] \notin {"lock", "unlock", "clean"}
  BY DEF Dequeue, GetFilesChanged, CompareBranchCommitTotal, GetDataFails,
         LockDone, UnlockDone, Requeue, responseProvider, Continue, Goto, TypeOK
<1> QED
  BY <1>1, <1>2, HomeNothingToDo DEF HomeParts, HomeRecoverable

LEMMA HomeStep ==
  ASSUME \A v, w \in Workers : v = w, HomeInv, [Next]_vars
  PROVE  HomeInv'
<1>1. TypeOK'
  BY TypeStep DEF HomeInv
<1>2. CASE Surroundings
  BY <1>1, <1>2, HomeSurroundings DEF HomeInv, HomeParts
<1>3. ASSUME NEW w \in Workers, Start(w) PROVE HomeInv'
  BY <1>1, <1>3, HomeProcess, HomeCalls, HomeOther DEF Start, HomeInv, HomeParts
<1>4. CASE UNCHANGED vars
  BY <1>1, <1>4 DEF vars, HomeInv, HomeRecoverable, CopiesKnowHome,
                    CleanFindsUnlocked, IsNext
<1> QED
  BY <1>2, <1>3, <1>4 DEF Next

(* With one replica, the branch that an application followed before the    *)
(* bot touched it is never lost: not when a command fails or the process   *)
(* ends between any two remote calls, and not when syncs reset branches or *)
(* commands are repeated.  (Two replicas can lose it.)                     *)
THEOREM HomeSafe ==
  ASSUME \A v, w \in Workers : v = w
  PROVE  Spec => []HomeRecoverable
<1>1. Init => HomeInv
  BY TypeInit, HomeInit DEF HomeInv, HomeParts
<1>2. HomeInv /\ [Next]_vars => HomeInv'
  BY HomeStep
<1>3. HomeInv => HomeRecoverable
  BY DEF HomeInv
<1> QED
  BY <1>1, <1>2, <1>3, PTL DEF Spec

=============================================================================
