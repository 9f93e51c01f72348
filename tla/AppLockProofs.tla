--------------------------- MODULE AppLockProofs ---------------------------
(***************************************************************************)
(* One replica implements the lock service of AppLock, for all values of   *)
(* the constants, and its locks are those of the pull requests they name.  *)
(***************************************************************************)
EXTENDS WorkerProofs

-----------------------------------------------------------------------------
(* The invariant.  A lock in the cluster names a pull request that merges  *)
(* into the home branch, and the application follows that pull request's   *)
(* branch or was reset to its home branch by a sync.                       *)
Owned(obj, a) ==
  obj.locked = "true" =>
    /\ obj.pullRequest \in PullRequests
    /\ obj.targetRevision \in {Home[a], SourceBranch[obj.pullRequest]}
    /\ DestinationBranch[obj.pullRequest] = Home[a]

LocksOwned == \A a \in Apps : Owned(cluster[a], a)

(* The copy that a command works from is still true of the cluster: what   *)
(* it is about to lock is free, no application of a deploy command is held *)
(* by another pull request, and what it is about to unlock is its own or   *)
(* was freed by a sync.  A second replica breaks each part.                *)
FreeOrOf(a, p) == Holder(cluster[a]) \in {NoPullRequest, p}

CopiesFresh ==
  \A w \in Workers :
    /\ pc[w] = "lock" =>
         /\ \A a \in DOMAIN apps[w] : FreeOrOf(a, EventOf(w).pr)
         /\ \A a \in todo[w] :
              /\ Holder(cluster[a]) = NoPullRequest
              /\ DestinationBranch[EventOf(w).pr] = Home[a]
    /\ pc[w] \in {"unlock", "clean"} =>
         \A a \in todo[w] : FreeOrOf(a, EventOf(w).pr)

LockInv == HomeInv /\ LocksOwned /\ CopiesFresh

-----------------------------------------------------------------------------
(* Objects and their holders.                                              *)

LEMMA HolderRange ==
  ASSUME NEW a \in Apps, NEW obj \in Object, Owned(obj, a)
  PROVE  Holder(obj) \in PullRequests \union {NoPullRequest}
BY DEF Owned, Holder, Sanitize, ConvertToApplication, Object

LEMMA HeldByHolder ==
  ASSUME NEW obj \in Object, NEW p \in PullRequests
  PROVE  HeldBy(obj, p) <=> Holder(obj) = p
BY ApplicationAssumption
   DEF HeldBy, Holder, Sanitize, ConvertToApplication, Object, NoPullRequest

LEMMA FreeObject ==
  ASSUME NEW obj \in Object, obj.locked # "true"
  PROVE  Holder(obj) = NoPullRequest
BY DEF Holder, Sanitize, ConvertToApplication, Object

LEMMA LockedObject ==
  ASSUME NEW a \in Apps, NEW app \in Application,
         ~app.Locked, app.Branch = Home[a],
         NEW p \in PullRequests, DestinationBranch[p] = Home[a]
  PROVE  LET obj == ConvertToRequest(lockApp(app, SourceBranch[p], p))
         IN Owned(obj, a) /\ Holder(obj) \in {NoPullRequest, p}
BY DEF Owned, Holder, ConvertToRequest, lockApp, Sanitize, ConvertToApplication

LEMMA UnlockedObject ==
  ASSUME NEW a \in Apps, NEW app \in Application, app.Locked
  PROVE  LET obj == ConvertToRequest(unlockApp(app))
         IN Owned(obj, a) /\ Holder(obj) = NoPullRequest
BY DEF Owned, Holder, ConvertToRequest, unlockApp, Sanitize, ConvertToApplication

LEMMA CleanedObject ==
  ASSUME NEW a \in Apps, NEW obj \in Object
  PROVE  Owned(Clean(obj), a) /\ Holder(Clean(obj)) = NoPullRequest
BY DEF Owned, Holder, Clean, Sanitize, ConvertToApplication, Object

LEMMA ResyncedObject ==
  ASSUME NEW a \in Apps, NEW obj \in Object, Owned(obj, a), KeepsHome(obj, a)
  PROVE  LET new == [obj EXCEPT !.targetRevision = Home[a]]
         IN Owned(new, a) /\ Holder(new) = NoPullRequest
BY DEF Owned, Holder, KeepsHome, Sanitize, ConvertToApplication, Object

(* What Process reads of an application tells who holds it.                *)
LEMMA FoundHolder ==
  ASSUME TypeOK, NEW w \in Workers, NEW a \in DOMAIN Found(w)
  PROVE  Holder(cluster[a]) = IF Found(w)[a].Locked THEN Found(w)[a].PullRequestId
                              ELSE NoPullRequest
<1> DEFINE once == Sanitize(ConvertToApplication(cluster[a]))
<1>1. a \in data[w].files /\ a \in Apps
  BY DEF Found, filterByEnv, FindAppsByRepoAndFiles,
         filterAppByRepoAndFiles, List, TypeOK
<1>2. Found(w)[a] = Sanitize(once)
  BY <1>1 DEF Found, filterByEnv, FindAppsByRepoAndFiles,
              filterAppByRepoAndFiles, List
<1>3. once \in Application
  BY <1>1, ConvertType, SanitizeType DEF TypeOK
<1>4. /\ Found(w)[a].Locked = once.Locked
      /\ Found(w)[a].PullRequestId = once.PullRequestId
  BY <1>2, <1>3, ConvertType DEF Sanitize, ConvertToApplication, Application
<1> QED
  BY <1>4 DEF Holder

-----------------------------------------------------------------------------
(* The invariant is kept.                                                  *)

LockParts == LocksOwned /\ CopiesFresh

LEMMA LockInit == Init => LockParts
BY DEF Init, LockParts, LocksOwned, Owned, Untouched, CopiesFresh

LEMMA LockWrite ==
  ASSUME TypeOK, LocksOwned, NEW a \in Apps, NEW obj, Owned(obj, a),
         cluster' = [cluster EXCEPT ![a] = obj] \/ UNCHANGED cluster
  PROVE  LocksOwned'
BY DEF TypeOK, LocksOwned

LEMMA LockNothingToDo ==
  ASSUME \A v \in Workers : pc'[v] \notin {"lock", "unlock", "clean"}
  PROVE  CopiesFresh'
BY DEF CopiesFresh

(* Nobody but the worker concerned changes holders, except that a sync     *)
(* takes them away.                                                        *)
LEMMA FreshCopies ==
  ASSUME TypeOK, CopiesFresh, UNCHANGED <<pc, next, apps, todo>>,
         \A a \in Apps : Holder(cluster'[a]) \in {NoPullRequest, Holder(cluster[a])}
  PROVE  CopiesFresh'
<1> SUFFICES ASSUME NEW w \in Workers
             PROVE  /\ pc'[w] = "lock" =>
                         /\ \A a \in DOMAIN apps'[w] : FreeOrOf(a, EventOf(w).pr)'
                         /\ \A a \in todo'[w] :
                              /\ Holder(cluster'[a]) = NoPullRequest
                              /\ DestinationBranch[EventOf(w)'.pr] = Home[a]
                    /\ pc'[w] \in {"unlock", "clean"} =>
                         \A a \in todo'[w] : FreeOrOf(a, EventOf(w).pr)'
  BY DEF CopiesFresh
<1>1. DOMAIN apps[w] \subseteq Apps /\ todo[w] \subseteq Apps
  BY DEF TypeOK, Selection
<1> QED
  BY <1>1 DEF CopiesFresh, FreeOrOf, EventOf

LEMMA LockSurroundings ==
  ASSUME LockInv, Surroundings
  PROVE  LockParts'
<1> USE DEF LockInv, HomeInv
<1>1. ASSUME NEW w \in Workers, NEW e \in Events, Webhook(w, e) PROVE LockParts'
  BY <1>1, FreshCopies DEF Webhook, LockParts, LocksOwned
<1>2. ASSUME NEW w \in Workers, NEW i \in DOMAIN incoming[w], Handle(w, i)
      PROVE  LockParts'
  BY <1>2, FreshCopies DEF Handle, LockParts, LocksOwned
<1>3. ASSUME NEW p \in PullRequests, Push(p) PROVE LockParts'
  BY <1>3, FreshCopies DEF Push, PushTo, LockParts, LocksOwned
<1>4. ASSUME NEW a \in Apps, Resync(a) PROVE LockParts'
  <2> DEFINE obj == [cluster[a] EXCEPT !.targetRevision = Home[a]]
  <2>1. cluster' = [cluster EXCEPT ![a] = obj]
    BY <1>4 DEF Resync
  <2>2. cluster[a] \in Object /\ KeepsHome(cluster[a], a) /\ Owned(cluster[a], a)
    BY DEF TypeOK, HomeRecoverable, LocksOwned
  <2>3. Owned(obj, a) /\ Holder(obj) = NoPullRequest
    BY <2>2, ResyncedObject
  <2> HIDE DEF obj
  <2>4. LocksOwned'
    BY <2>1, <2>3, LockWrite
  <2>5. \A b \in Apps : Holder(cluster'[b]) \in {NoPullRequest, Holder(cluster[b])}
    BY <2>1, <2>3 DEF TypeOK
  <2>6. CopiesFresh'
    BY <1>4, <2>5, FreshCopies DEF Resync
  <2> QED
    BY <2>4, <2>6 DEF LockParts
<1>5. ASSUME NEW w \in Workers, Crash(w) PROVE LockParts'
  <2>1. pc' = [pc EXCEPT ![w] = "idle"] /\ UNCHANGED cluster
    BY <1>5 DEF Crash, Continue, Goto
  <2>2. ASSUME NEW v \in Workers, v # w
        PROVE  UNCHANGED <<pc[v], next[v], apps[v], todo[v]>>
    BY <1>5, <2>2 DEF Crash, Continue, Goto, TypeOK
  <2>3. CopiesFresh'
    BY <2>1, <2>2 DEF CopiesFresh, FreeOrOf, EventOf, TypeOK
  <2> QED
    BY <2>1, <2>3 DEF LockParts, LocksOwned
<1>6. ASSUME NEW p \in PullRequests, Advance(p) PROVE LockParts'
  BY <1>6, FreshCopies DEF Advance, LockParts, LocksOwned
<1> QED
  BY <1>1, <1>2, <1>3, <1>4, <1>5, <1>6 DEF Surroundings

LEMMA LockProcess ==
  ASSUME \A v, w \in Workers : v = w, LockInv, NEW w \in Workers, Process(w)
  PROVE  LockParts'
<1> USE DEF LockInv, HomeInv
<1> DEFINE found == Found(w)
           p == EventOf(w).pr
<1>1. UNCHANGED cluster /\ pc[w] = "process"
  BY DEF Process, ProcessNothing, ProcessRefused, ProcessLock, ProcessUnlock,
         ProcessNothingLocked, Decide
<1>2. LocksOwned'
  BY <1>1 DEF LocksOwned
<1>3. CASE pc'[w] \notin {"lock", "unlock", "clean"}
  BY <1>2, <1>3, LockNothingToDo DEF LockParts
<1>4. CASE pc'[w] = "lock"
  <2>1. /\ todo' = [todo EXCEPT ![w] = ToLock(found)]
        /\ apps' = [apps EXCEPT ![w] = found]
        /\ UNCHANGED next
        /\ LockResponse(found, p).Success
    BY <1>1, <1>4 DEF Process, ProcessNothing, ProcessRefused, ProcessLock,
                ProcessUnlock, ProcessNothingLocked, Decide, Continue, Goto, TypeOK
  <2>2. \A a \in DOMAIN found : LockStatus(found[a], p) \in {"Locked", "Unlocked"}
    BY <2>1 DEF LockResponse
  <2>3. ASSUME NEW a \in DOMAIN found PROVE FreeOrOf(a, p)
    <3>1. ~found[a].Locked \/ found[a].PullRequestId = p
      BY <2>2 DEF LockStatus, UnlockStatus
    <3> QED
      BY <3>1, FoundHolder DEF FreeOrOf
  <2>4. ASSUME NEW a \in ToLock(found)
        PROVE  Holder(cluster[a]) = NoPullRequest /\ DestinationBranch[p] = Home[a]
    BY <2>2, FoundHolder, FoundKnowsHome DEF LockStatus, UnlockStatus, ToLock
  <2>5. \A v \in Workers : /\ v = w
                           /\ todo'[v] = ToLock(found)
                           /\ apps'[v] = found
                           /\ pc'[v] = "lock"
                           /\ EventOf(v)' = EventOf(w)
    BY <1>4, <2>1 DEF TypeOK, EventOf
  <2>6. CopiesFresh'
    BY <1>1, <2>3, <2>4, <2>5 DEF CopiesFresh, FreeOrOf
  <2> QED
    BY <1>2, <2>6 DEF LockParts
<1>5. CASE pc'[w] \in {"unlock", "clean"}
  <2>1. /\ pc'[w] = "unlock"
        /\ todo' = [todo EXCEPT ![w] = ToUnlock(found, p)]
        /\ UNCHANGED next
    BY <1>1, <1>5 DEF Process, ProcessNothing, ProcessRefused, ProcessLock,
                ProcessUnlock, ProcessNothingLocked, Decide, Continue, Goto, TypeOK
  <2>2. ASSUME NEW a \in ToUnlock(found, p) PROVE FreeOrOf(a, p)
    BY FoundHolder DEF ToUnlock, FreeOrOf
  <2>3. \A v \in Workers : /\ v = w
                           /\ todo'[v] = ToUnlock(found, p)
                           /\ pc'[v] = "unlock"
                           /\ EventOf(v)' = EventOf(w)
    BY <2>1 DEF TypeOK, EventOf
  <2>4. CopiesFresh'
    BY <1>1, <2>2, <2>3 DEF CopiesFresh, FreeOrOf
  <2> QED
    BY <1>2, <2>4 DEF LockParts
<1> QED
  BY <1>3, <1>4, <1>5

(* What a call writes.                                                     *)
LEMMA CallWrites ==
  ASSUME LockInv, NEW w \in Workers, NEW a \in todo[w]
  PROVE  LET p == EventOf(w).pr
             locked == ConvertToRequest(Locked(w, a))
             unlocked == ConvertToRequest(unlockApp(apps[w][a]))
         IN /\ pc[w] = "lock" =>
                 /\ p \in PullRequests
                 /\ Owned(locked, a)
                 /\ Holder(locked) \in {NoPullRequest, p}
            /\ pc[w] \in {"unlock", "clean"} =>
                 Owned(unlocked, a) /\ Holder(unlocked) = NoPullRequest
<1> USE DEF LockInv, HomeInv
<1>1. a \in Apps
  BY DEF TypeOK
<1>2. pc[w] # "idle" => apps[w][a] \in Application /\ EventOf(w).pr \in PullRequests
  BY CallTypes, BusyType
<1>3. pc[w] = "lock" => /\ ~apps[w][a].Locked
                        /\ apps[w][a].Branch = Home[a]
                        /\ DestinationBranch[EventOf(w).pr] = Home[a]
  BY DEF CopiesKnowHome, CopiesFresh
<1>4. pc[w] \in {"unlock", "clean"} => apps[w][a].Locked
  BY DEF CopiesKnowHome
<1> QED
  BY <1>1, <1>2, <1>3, <1>4, LockedObject, UnlockedObject DEF Locked

LEMMA LockCalls ==
  ASSUME \A v, w \in Workers : v = w, LockInv,
         NEW w \in Workers, NEW a \in Apps, Calls(w, a)
  PROVE  LockParts'
<1> USE DEF LockInv, HomeInv
<1> DEFINE p == EventOf(w).pr
           locked == ConvertToRequest(Locked(w, a))
           unlocked == ConvertToRequest(unlockApp(apps[w][a]))
<1>1. a \in todo[w] /\ pc[w] \in {"lock", "unlock", "clean"}
  BY DEF Calls, LockApp, LockAppFails, UnlockUpdate, UnlockUpdateFails,
         UnlockClean, UnlockCleanFails, IsNext
<1>2. /\ pc[w] = "lock" => Owned(locked, a) /\ Holder(locked) \in {NoPullRequest, p}
      /\ pc[w] \in {"unlock", "clean"} => Owned(unlocked, a) /\ Holder(unlocked) = NoPullRequest
  BY <1>1, CallWrites
<1>3. Owned(Clean(cluster[a]), a) /\ Holder(Clean(cluster[a])) = NoPullRequest
  BY CleanedObject DEF TypeOK
<1> HIDE DEF locked, unlocked
<1>4. LocksOwned'
  BY <1>2, <1>3, LockWrite
     DEF Calls, LockApp, LockAppFails, UnlockUpdate, UnlockUpdateFails,
         UnlockClean, UnlockCleanFails, Update, MayUpdate, locked, unlocked
<1>5. ASSUME NEW obj, cluster' = [cluster EXCEPT ![a] = obj],
             UNCHANGED <<next, apps>>, todo'[w] \subseteq todo[w],
             \/ /\ pc[w] = "lock" /\ pc'[w] = "lock"
                /\ todo'[w] = todo[w] \ {a}
                /\ Holder(obj) \in {NoPullRequest, p}
             \/ /\ pc[w] \in {"unlock", "clean"} /\ pc'[w] \in {"unlock", "clean"}
                /\ Holder(obj) = NoPullRequest
      PROVE  CopiesFresh'
  <2>1. DOMAIN apps[w] \subseteq Apps /\ todo[w] \subseteq Apps
    BY DEF TypeOK, Selection
  <2>2. \A b \in Apps : Holder(cluster'[b]) = IF b = a THEN Holder(obj) ELSE Holder(cluster[b])
    BY <1>5 DEF TypeOK
  <2> QED
    BY <1>5, <2>1, <2>2 DEF CopiesFresh, FreeOrOf, EventOf
<1>6. ASSUME NEW line, NEW status, Fail(w, line, status) PROVE CopiesFresh'
  <2>1. \A v \in Workers : pc'[v] \in {"retry", "respond"}
    BY <1>6 DEF Fail, Goto, TypeOK
  <2> QED
    BY <2>1, LockNothingToDo
<1>7. CASE LockApp(w, a)
  <2>1. /\ cluster' = [cluster EXCEPT ![a] = locked]
        /\ pc[w] = "lock" /\ pc'[w] = "lock"
        /\ todo'[w] = todo[w] \ {a}
        /\ UNCHANGED <<next, apps>>
    BY <1>7 DEF LockApp, Update, TypeOK, locked
  <2> QED
    BY <1>2, <1>4, <1>5, <2>1 DEF LockParts
<1>8. CASE UnlockUpdate(w, a)
  <2>1. /\ cluster' = [cluster EXCEPT ![a] = unlocked]
        /\ pc[w] = "unlock" /\ pc'[w] = "clean"
        /\ UNCHANGED <<next, apps, todo>>
    BY <1>8 DEF UnlockUpdate, Update, Goto, TypeOK, unlocked
  <2> QED
    BY <1>2, <1>4, <1>5, <2>1 DEF LockParts
<1>9. CASE UnlockClean(w, a)
  <2>1. /\ cluster' = [cluster EXCEPT ![a] = Clean(cluster[a])]
        /\ pc[w] = "clean" /\ pc'[w] = "unlock"
        /\ todo'[w] \subseteq todo[w]
        /\ UNCHANGED <<next, apps>>
    BY <1>9 DEF UnlockClean, Goto, TypeOK
  <2> QED
    BY <1>3, <1>4, <1>5, <2>1 DEF LockParts
<1>10. CASE LockAppFails(w, a) \/ UnlockUpdateFails(w, a) \/ UnlockCleanFails(w, a)
  BY <1>4, <1>6, <1>10
     DEF LockAppFails, UnlockUpdateFails, UnlockCleanFails, LockParts
<1> QED
  BY <1>7, <1>8, <1>9, <1>10 DEF Calls

LEMMA LockOther ==
  ASSUME \A v, w \in Workers : v = w, LockInv, NEW w \in Workers,
         \/ Dequeue(w) \/ GetFilesChanged(w)
         \/ CompareBranchCommitTotal(w) \/ GetDataFails(w)
         \/ LockDone(w) \/ UnlockDone(w) \/ Requeue(w) \/ responseProvider(w)
  PROVE  LockParts'
<1> USE DEF LockInv, HomeInv
<1>1. UNCHANGED cluster
  BY DEF Dequeue, GetFilesChanged, CompareBranchCommitTotal, GetDataFails,
         LockDone, UnlockDone, Requeue, responseProvider
<1>2. \A v \in Workers : pc'[v] \notin {"lock", "unlock", "clean"}
  BY DEF Dequeue, GetFilesChanged, CompareBranchCommitTotal, GetDataFails,
         LockDone, UnlockDone, Requeue, responseProvider, Continue, Goto, TypeOK
<1> QED
  BY <1>1, <1>2, LockNothingToDo DEF LockParts, LocksOwned

LEMMA LockStep ==
  ASSUME \A v, w \in Workers : v = w, LockInv, [Next]_vars
  PROVE  LockInv'
<1>1. HomeInv'
  BY HomeStep DEF LockInv
<1>2. CASE Surroundings
  BY <1>1, <1>2, LockSurroundings DEF LockInv, LockParts
<1>3. ASSUME NEW w \in Workers, Start(w) PROVE LockInv'
  BY <1>1, <1>3, LockProcess, LockCalls, LockOther DEF Start, LockInv, LockParts
<1>4. CASE UNCHANGED vars
  BY <1>1, <1>4, FreshCopies DEF vars, LockInv, HomeInv, LocksOwned
<1> QED
  BY <1>2, <1>3, <1>4 DEF Next

LEMMA LockInvariant ==
  ASSUME \A v, w \in Workers : v = w
  PROVE  Spec => []LockInv
<1>1. Init => LockInv
  BY TypeInit, HomeInit, LockInit DEF HomeInv, HomeParts, LockInv, LockParts
<1>2. LockInv /\ [Next]_vars => LockInv'
  BY LockStep
<1> QED
  BY <1>1, <1>2, PTL DEF Spec

-----------------------------------------------------------------------------
(* Safety theorems.                                                        *)

(* With one replica, an application that is locked to a pull request       *)
(* follows that pull request's branch, and the pull request merges into    *)
(* the application's home branch.                                          *)
THEOREM LocksMatch ==
  ASSUME \A v, w \in Workers : v = w
  PROVE  Spec => []LockMatchesPullRequest
<1>1. ASSUME LockInv, NEW a \in Apps, NEW p \in PullRequests, HeldBy(cluster[a], p)
      PROVE  cluster[a].targetRevision = SourceBranch[p] /\ DestinationBranch[p] = Home[a]
  <2>1. cluster[a] \in Object /\ Owned(cluster[a], a) /\ KeepsHome(cluster[a], a)
    BY <1>1 DEF LockInv, HomeInv, TypeOK, LocksOwned, HomeRecoverable
  <2>2. /\ cluster[a].locked = "true"
        /\ cluster[a].pullRequest = p
        /\ cluster[a].rollback # cluster[a].targetRevision
    BY <1>1, <2>1 DEF HeldBy, Sanitize, ConvertToApplication, Object
  <2> QED
    BY <2>1, <2>2 DEF Owned, KeepsHome
<1>2. LockInv => LockMatchesPullRequest
  BY <1>1 DEF LockMatchesPullRequest
<1> QED
  BY <1>2, LockInvariant, PTL

(* With one replica, a deploy command is carried out only while none of    *)
(* its applications is locked to another pull request.                     *)
THEOREM DeployExclusive ==
  ASSUME \A v, w \in Workers : v = w
  PROVE  Spec => []DeployExcludesOthers
<1>1. ASSUME LockInv, NEW w \in Workers, pc[w] = "lock",
             NEW a \in DOMAIN apps[w], NEW q \in PullRequests \ {EventOf(w).pr}
      PROVE  ~HeldBy(cluster[a], q)
  <2>1. a \in Apps /\ cluster[a] \in Object
    BY <1>1 DEF LockInv, HomeInv, TypeOK, Selection
  <2>2. Holder(cluster[a]) \in {NoPullRequest, EventOf(w).pr}
    BY <1>1 DEF LockInv, CopiesFresh, FreeOrOf
  <2>3. q # NoPullRequest
    BY ApplicationAssumption DEF NoPullRequest
  <2> QED
    BY <2>1, <2>2, <2>3, HeldByHolder
<1>2. LockInv => DeployExcludesOthers
  BY <1>1 DEF DeployExcludesOthers
<1> QED
  BY <1>2, LockInvariant, PTL

-----------------------------------------------------------------------------
(* The refinement.                                                         *)

holders == [a \in Apps |-> Holder(cluster[a])]
servings == [w \in Workers |-> Serving(w)]

LEMMA AbstractInit == Init => Lock!Init
<1> SUFFICES ASSUME Init PROVE Lock!Init
  OBVIOUS
<1>1. \A a \in Apps : Holder(cluster[a]) = NoPullRequest
  BY UntouchedType, FreeObject DEF Init, Untouched
<1>2. \A w \in Workers : Serving(w) = Lock!Idle
  BY DEF Init, Serving, Lock!Idle
<1> QED
  BY <1>1, <1>2 DEF Lock!Init

LEMMA HoldersAfterWrite ==
  ASSUME TypeOK, NEW a \in Apps, NEW obj, cluster' = [cluster EXCEPT ![a] = obj]
  PROVE  holders' = [holders EXCEPT ![a] = Holder(obj)]
BY DEF holders, TypeOK

LEMMA ServingsAfterStep ==
  ASSUME TypeOK, NEW w \in Workers,
         \A v \in Workers \ {w} : UNCHANGED <<pc[v], next[v]>>
  PROVE  servings' = [servings EXCEPT ![w] = Serving(w)']
BY DEF servings, Serving, EventOf

(* Each step of the bot is one of these for the lock service.              *)
LEMMA AbstractSteps ==
  ASSUME NEW w \in Workers
  PROVE  LET step == [Lock!Next]_<<holders, servings>>
             end == servings' = [servings EXCEPT ![w] = Lock!Idle]
         IN /\ UNCHANGED <<holders, servings>> => step
            /\ \A c \in Lock!Command :
                 /\ UNCHANGED holders
                 /\ servings[w] = Lock!Idle
                 /\ servings' = [servings EXCEPT ![w] = c]
                 => step
            /\ UNCHANGED holders /\ end => step
            /\ \A a \in Apps, p \in PullRequests :
                 /\ servings[w] = [action |-> "lock", pr |-> p]
                 /\ holders[a] = NoPullRequest
                 /\ holders' = [holders EXCEPT ![a] = p]
                 /\ UNCHANGED servings \/ end
                 => step
            /\ \A a \in Apps, p \in PullRequests :
                 /\ servings[w] = [action |-> "unlock", pr |-> p]
                 /\ holders[a] = p
                 /\ holders' = [holders EXCEPT ![a] = NoPullRequest]
                 /\ UNCHANGED servings \/ end
                 => step
BY DEF Lock!Next, Lock!Begin, Lock!End, Lock!GoOn, Lock!Acquire, Lock!Release,
       holders, servings

LEMMA AbstractSurroundings ==
  ASSUME LockInv, Surroundings
  PROVE  [Lock!Next]_<<holders, servings>>
<1> USE DEF LockInv, HomeInv
<1> DEFINE step == [Lock!Next]_<<holders, servings>>
<1>1. UNCHANGED <<cluster, pc, next>> => step
  BY DEF holders, servings, Serving, EventOf
<1>2. ASSUME NEW w \in Workers, NEW e \in Events, Webhook(w, e) PROVE step
  BY <1>1, <1>2 DEF Webhook
<1>3. ASSUME NEW w \in Workers, NEW i \in DOMAIN incoming[w], Handle(w, i)
      PROVE  step
  BY <1>1, <1>3 DEF Handle
<1>4. ASSUME NEW p \in PullRequests, Push(p) PROVE step
  BY <1>1, <1>4 DEF Push, PushTo
<1>5. ASSUME NEW a \in Apps, Resync(a) PROVE step
  <2> DEFINE obj == [cluster[a] EXCEPT !.targetRevision = Home[a]]
  <2>1. cluster' = [cluster EXCEPT ![a] = obj]
    BY <1>5 DEF Resync
  <2>2. Holder(obj) = NoPullRequest
    BY ResyncedObject DEF TypeOK, HomeRecoverable, LocksOwned
  <2> HIDE DEF obj
  <2>3. holders' = [holders EXCEPT ![a] = NoPullRequest]
    BY <2>1, <2>2, HoldersAfterWrite
  <2>4. UNCHANGED servings /\ a \in Managed
    BY <1>5 DEF Resync, servings, Serving, EventOf
  <2> QED
    BY <2>3, <2>4 DEF Lock!Next, Lock!Lose, holders, servings
<1>6. ASSUME NEW w \in Workers, Crash(w) PROVE step
  <2>1. UNCHANGED holders /\ pc' = [pc EXCEPT ![w] = "idle"]
    BY <1>6 DEF Crash, Continue, Goto, holders
  <2>2. servings' = [servings EXCEPT ![w] = Serving(w)']
    BY <1>6, ServingsAfterStep DEF Crash, Continue, Goto, TypeOK
  <2>3. Serving(w)' = Lock!Idle
    BY <2>1 DEF Serving, Lock!Idle, TypeOK
  <2> QED
    BY <2>1, <2>2, <2>3, AbstractSteps
<1>7. ASSUME NEW p \in PullRequests, Advance(p) PROVE step
  BY <1>1, <1>7 DEF Advance
<1> QED
  BY <1>2, <1>3, <1>4, <1>5, <1>6, <1>7 DEF Surroundings

(* A step of a worker that leaves the cluster alone begins a command, ends *)
(* one, or does neither.                                                   *)
LEMMA AbstractQuiet ==
  ASSUME LockInv, NEW w \in Workers, UNCHANGED cluster,
         \A v \in Workers \ {w} : UNCHANGED <<pc[v], next[v]>>,
         \/ pc'[w] \notin {"lock", "unlock", "clean"}
         \/ UNCHANGED next /\ pc[w] = "clean" /\ pc'[w] = "unlock"
         \/ UNCHANGED next /\ pc[w] = "process" /\ pc'[w] \in {"lock", "unlock"}
  PROVE  [Lock!Next]_<<holders, servings>>
<1> USE DEF LockInv, HomeInv
<1>1. UNCHANGED holders
  BY DEF holders
<1>2. servings' = [servings EXCEPT ![w] = Serving(w)']
  BY ServingsAfterStep
<1>3. CASE pc'[w] \notin {"lock", "unlock", "clean"}
  <2>1. Serving(w)' = Lock!Idle
    BY <1>3 DEF Serving, Lock!Idle
  <2> QED
    BY <1>1, <1>2, <2>1, AbstractSteps
<1>4. CASE UNCHANGED next /\ pc[w] = "clean" /\ pc'[w] = "unlock"
  <2>1. Serving(w)' = Serving(w)
    BY <1>4 DEF Serving, EventOf
  <2>2. UNCHANGED servings
    BY <1>2, <2>1 DEF servings
  <2> QED
    BY <1>1, <2>2, AbstractSteps
<1>5. CASE UNCHANGED next /\ pc[w] = "process" /\ pc'[w] \in {"lock", "unlock"}
  <2>1. servings[w] = Lock!Idle
    BY <1>5 DEF Serving, servings, Lock!Idle
  <2>2. EventOf(w).pr \in PullRequests
    BY <1>5, BusyType
  <2>3. Serving(w)' \in Lock!Command
    BY <1>5, <2>2 DEF Serving, EventOf, Lock!Command
  <2> QED
    BY <1>1, <1>2, <2>1, <2>3, AbstractSteps
<1> QED
  BY <1>3, <1>4, <1>5

LEMMA AbstractProcess ==
  ASSUME LockInv, NEW w \in Workers, Process(w)
  PROVE  [Lock!Next]_<<holders, servings>>
<1> USE DEF LockInv, HomeInv
<1>1. UNCHANGED cluster /\ pc[w] = "process"
  BY DEF Process, ProcessNothing, ProcessRefused, ProcessLock, ProcessUnlock,
         ProcessNothingLocked, Decide
<1>2. \A v \in Workers \ {w} : UNCHANGED <<pc[v], next[v]>>
  BY DEF Process, ProcessNothing, ProcessRefused, ProcessLock, ProcessUnlock,
         ProcessNothingLocked, Decide, Continue, Goto, TypeOK
<1>3. \/ pc'[w] \notin {"lock", "unlock", "clean"}
      \/ UNCHANGED next /\ pc'[w] \in {"lock", "unlock"}
  BY DEF Process, ProcessNothing, ProcessRefused, ProcessLock, ProcessUnlock,
         ProcessNothingLocked, Decide, Continue, Goto, TypeOK
<1> QED
  BY <1>1, <1>2, <1>3, AbstractQuiet

LEMMA AbstractOther ==
  ASSUME LockInv, NEW w \in Workers,
         \/ Dequeue(w) \/ GetFilesChanged(w)
         \/ CompareBranchCommitTotal(w) \/ GetDataFails(w)
         \/ LockDone(w) \/ UnlockDone(w) \/ Requeue(w) \/ responseProvider(w)
  PROVE  [Lock!Next]_<<holders, servings>>
<1> USE DEF LockInv, HomeInv
<1>1. UNCHANGED cluster
  BY DEF Dequeue, GetFilesChanged, CompareBranchCommitTotal, GetDataFails,
         LockDone, UnlockDone, Requeue, responseProvider
<1>2. pc'[w] \notin {"lock", "unlock", "clean"}
  BY DEF Dequeue, GetFilesChanged, CompareBranchCommitTotal, GetDataFails,
         LockDone, UnlockDone, Requeue, responseProvider, Continue, Goto, TypeOK
<1>3. \A v \in Workers \ {w} : UNCHANGED <<pc[v], next[v]>>
  BY DEF Dequeue, GetFilesChanged, CompareBranchCommitTotal, GetDataFails,
         LockDone, UnlockDone, Requeue, responseProvider, Continue, Goto, TypeOK
<1> QED
  BY <1>1, <1>2, <1>3, AbstractQuiet

(* A write acquires, releases or changes nobody's hold, and a write that   *)
(* fails ends the command besides.                                         *)
LEMMA AbstractCalls ==
  ASSUME LockInv, NEW w \in Workers, NEW a \in Apps, Calls(w, a)
  PROVE  [Lock!Next]_<<holders, servings>>
<1> USE DEF LockInv, HomeInv
<1> DEFINE p == EventOf(w).pr
           lock == [action |-> "lock", pr |-> p]
           unlock == [action |-> "unlock", pr |-> p]
           locked == ConvertToRequest(Locked(w, a))
           unlocked == ConvertToRequest(unlockApp(apps[w][a]))
           end == servings' = [servings EXCEPT ![w] = Lock!Idle]
<1>1. a \in todo[w] /\ pc[w] \in {"lock", "unlock", "clean"}
  BY DEF Calls, LockApp, LockAppFails, UnlockUpdate, UnlockUpdateFails,
         UnlockClean, UnlockCleanFails, IsNext
<1>2. p \in PullRequests
  BY <1>1, BusyType
<1>3. /\ pc[w] = "lock" => /\ Holder(locked) \in {NoPullRequest, p}
                           /\ Holder(cluster[a]) = NoPullRequest
      /\ pc[w] \in {"unlock", "clean"} => /\ Holder(unlocked) = NoPullRequest
                                          /\ Holder(cluster[a]) \in {NoPullRequest, p}
  BY <1>1, CallWrites DEF CopiesFresh, FreeOrOf
<1>4. pc[w] = "clean" => /\ Holder(cluster[a]) = NoPullRequest
                         /\ Holder(Clean(cluster[a])) = NoPullRequest
  <2>1. cluster[a] \in Object
    BY DEF TypeOK
  <2>2. pc[w] = "clean" => cluster[a].locked # "true"
    <3>1. pc[w] = "clean" => IsNext(w, a)
      BY DEF Calls, LockApp, LockAppFails, UnlockUpdate, UnlockUpdateFails,
             UnlockClean, UnlockCleanFails
    <3> QED
      BY <3>1 DEF CleanFindsUnlocked
  <2> QED
    BY <2>1, <2>2, FreeObject, CleanedObject
<1>5. /\ holders[a] = Holder(cluster[a])
      /\ pc[w] = "lock" => servings[w] = lock
      /\ pc[w] \in {"unlock", "clean"} => servings[w] = unlock
  BY DEF holders, servings, Serving
<1>6. Fail(w, a, "lockError") \/ Fail(w, Line(w, a), "unlockError") => end
  <2> SUFFICES ASSUME NEW line, NEW status, Fail(w, line, status) PROVE end
    OBVIOUS
  <2>1. \A v \in Workers \ {w} : UNCHANGED <<pc[v], next[v]>>
    BY DEF Fail, Goto, TypeOK
  <2>2. Serving(w)' = Lock!Idle
    BY DEF Fail, Goto, TypeOK, Serving, Lock!Idle
  <2> QED
    BY <2>1, <2>2, ServingsAfterStep
<1>7. ASSUME UNCHANGED <<pc, next>> PROVE UNCHANGED servings
  BY <1>7 DEF servings, Serving, EventOf
<1>8. ASSUME pc[w] \in {"unlock", "clean"}, pc' = [pc EXCEPT ![w] = pc'[w]],
             pc'[w] \in {"unlock", "clean"}, UNCHANGED next
      PROVE  UNCHANGED servings
  BY <1>8 DEF servings, Serving, EventOf, TypeOK
<1>9. UNCHANGED cluster => UNCHANGED holders
  BY DEF holders
<1> HIDE DEF locked, unlocked
<1>10. ASSUME cluster' = [cluster EXCEPT ![a] = locked], pc[w] = "lock",
              UNCHANGED servings \/ end
       PROVE  [Lock!Next]_<<holders, servings>>
  <2>1. holders' = [holders EXCEPT ![a] = Holder(locked)]
    BY <1>10, HoldersAfterWrite
  <2>2. CASE Holder(locked) = NoPullRequest
    <3>1. UNCHANGED holders
      BY <1>3, <1>5, <1>10, <2>1, <2>2 DEF holders
    <3> QED
      BY <1>10, <3>1, AbstractSteps
  <2>3. CASE Holder(locked) = p
    BY <1>2, <1>3, <1>5, <1>10, <2>1, <2>3, AbstractSteps
  <2> QED
    BY <1>3, <1>10, <2>2, <2>3
<1>11. ASSUME cluster' = [cluster EXCEPT ![a] = unlocked], pc[w] = "unlock",
              UNCHANGED servings \/ end
       PROVE  [Lock!Next]_<<holders, servings>>
  <2>1. holders' = [holders EXCEPT ![a] = NoPullRequest]
    <3>1. holders' = [holders EXCEPT ![a] = Holder(unlocked)]
      BY <1>11, HoldersAfterWrite
    <3> QED
      BY <1>3, <1>11, <3>1
  <2>2. CASE holders[a] = NoPullRequest
    <3>1. UNCHANGED holders
      BY <2>1, <2>2 DEF holders
    <3> QED
      BY <1>11, <3>1, AbstractSteps
  <2>3. CASE holders[a] = p
    BY <1>2, <1>5, <1>11, <2>1, <2>3, AbstractSteps
  <2> QED
    BY <1>3, <1>5, <1>11, <2>2, <2>3
<1>12. ASSUME cluster' = [cluster EXCEPT ![a] = Clean(cluster[a])] \/ UNCHANGED cluster,
              pc[w] = "clean", UNCHANGED servings \/ end
       PROVE  [Lock!Next]_<<holders, servings>>
  <2>1. UNCHANGED holders
    <3>1. CASE cluster' = [cluster EXCEPT ![a] = Clean(cluster[a])]
      <4>1. holders' = [holders EXCEPT ![a] = Holder(Clean(cluster[a]))]
        BY <3>1, HoldersAfterWrite
      <4>2. holders[a] = NoPullRequest
        BY <1>4, <1>5, <1>12
      <4> QED
        BY <1>4, <1>12, <4>1, <4>2 DEF holders
    <3> QED
      BY <1>9, <1>12, <3>1
  <2> QED
    BY <1>12, <2>1, AbstractSteps
<1>13. CASE LockApp(w, a)
  BY <1>7, <1>10, <1>13 DEF LockApp, Update, locked
<1>14. CASE LockAppFails(w, a)
  BY <1>6, <1>9, <1>10, <1>14, AbstractSteps DEF LockAppFails, MayUpdate, Update, locked
<1>15. CASE UnlockUpdate(w, a)
  <2>1. UNCHANGED servings
    BY <1>8, <1>15 DEF UnlockUpdate, Goto, TypeOK
  <2> QED
    BY <1>11, <1>15, <2>1 DEF UnlockUpdate, Update, unlocked
<1>16. CASE UnlockUpdateFails(w, a)
  BY <1>6, <1>9, <1>11, <1>16, AbstractSteps
     DEF UnlockUpdateFails, MayUpdate, Update, unlocked
<1>17. CASE UnlockClean(w, a)
  <2>1. UNCHANGED servings
    BY <1>8, <1>17 DEF UnlockClean, Goto, TypeOK
  <2> QED
    BY <1>12, <1>17, <2>1 DEF UnlockClean
<1>18. CASE UnlockCleanFails(w, a)
  BY <1>6, <1>12, <1>18 DEF UnlockCleanFails
<1> QED
  BY <1>13, <1>14, <1>15, <1>16, <1>17, <1>18 DEF Calls

LEMMA AbstractStep ==
  ASSUME LockInv, [Next]_vars
  PROVE  [Lock!Next]_<<holders, servings>>
<1>1. CASE Surroundings
  BY <1>1, AbstractSurroundings
<1>2. ASSUME NEW w \in Workers, Start(w)
      PROVE  [Lock!Next]_<<holders, servings>>
  BY <1>2, AbstractProcess, AbstractCalls, AbstractOther DEF Start
<1>3. CASE UNCHANGED vars
  BY <1>3 DEF vars, holders, servings, Serving, EventOf
<1> QED
  BY <1>1, <1>2, <1>3 DEF Next

(* With one replica, the bot implements the lock service: an application   *)
(* changes hands only by being released first, it is taken and released    *)
(* only by the command of the pull request concerned, and neither a failed *)
(* call nor a crash takes a lock away.                                     *)
THEOREM Refinement ==
  ASSUME \A v, w \in Workers : v = w
  PROVE  Spec => ImplementsAppLock
<1>1. Init => Lock!Init
  BY AbstractInit
<1>2. LockInv /\ [Next]_vars => [Lock!Next]_<<holders, servings>>
  BY AbstractStep
<1>3. Spec => []LockInv
  BY LockInvariant
<1> QED
  BY <1>1, <1>2, <1>3, PTL DEF Spec, ImplementsAppLock, Lock!Spec, holders, servings

-----------------------------------------------------------------------------
(* The replies.                                                            *)

LineTrue(line, a, p) ==
  /\ line = "Locked" => CarriesLock(a, p)
  /\ line = "blocked" => \E q \in PullRequests \ {p} : CarriesLock(a, q)
  /\ line = "Unlocked" => ~HeldBy(cluster[a], p)

(* The lines for a deploy command are true from the decision on: a lock is *)
(* reported with the call that makes it, and nothing else changes hands.   *)
LinesOf(w) ==
  pc[w] \in {"lock", "retry", "respond"} /\ ActionOf(w).action = "lock" =>
    \A a \in DOMAIN resp[w].Summary :
      LineTrue(resp[w].Summary[a], a, EventOf(w).pr)

(* The applications that a command is about, and what is done of it: what  *)
(* is not still to be done.                                                *)
Covered(w) ==
  {a \in data[w].files : ActionOf(w).env \in {"all", Environment[a]}}

Done(w, a) ==
  IF ActionOf(w).action = "lock" THEN CarriesLock(a, EventOf(w).pr)
  ELSE ~HeldBy(cluster[a], EventOf(w).pr)

WorkOf(w) ==
  /\ pc[w] = "lock" => ActionOf(w).action = "lock"
  /\ pc[w] \in {"unlock", "clean"} => ActionOf(w).action = "unlock"
  /\ pc[w] \in {"lock", "unlock", "clean"} =>
       \A a \in Covered(w) \ todo[w] : Done(w, a)
  /\ pc[w] \in {"retry", "respond"} /\ resp[w].Success =>
       \A a \in Covered(w) : Done(w, a)

ReplyInv == \A w \in Workers : LinesOf(w) /\ WorkOf(w)

(* What ReplyInv says of an application stays true of it while its         *)
(* annotations do not change and nobody takes it.                          *)
Unharmed(a) ==
  \A p \in PullRequests : /\ CarriesLock(a, p) => CarriesLock(a, p)'
                          /\ ~HeldBy(cluster[a], p) => ~HeldBy(cluster'[a], p)

LEMMA ReplySubjects ==
  ASSUME TypeOK, NEW w \in Workers
  PROVE  /\ Covered(w) \subseteq Apps
         /\ DOMAIN resp[w].Summary \subseteq Apps
         /\ pc[w] # "idle" => EventOf(w).pr \in PullRequests
<1>1. resp[w].Summary \in Summaries
  BY DEF TypeOK, Response
<1>2. DOMAIN resp[w].Summary \subseteq Apps
  BY <1>1 DEF Summaries
<1>3. Covered(w) \subseteq Apps
  BY DEF TypeOK, Covered
<1> QED
  BY <1>2, <1>3, BusyType

LEMMA ReplyKept ==
  ASSUME TypeOK, ReplyInv, UNCHANGED <<pc, next, data, todo, resp>>,
         \A a \in Apps : Unharmed(a)
  PROVE  ReplyInv'
<1> SUFFICES ASSUME NEW w \in Workers PROVE LinesOf(w)' /\ WorkOf(w)'
  BY DEF ReplyInv
<1>1. /\ UNCHANGED <<EventOf(w), ActionOf(w), Covered(w)>>
      /\ UNCHANGED <<pc[w], todo[w], resp[w]>>
  BY DEF EventOf, ActionOf, Covered
<1>2. ASSUME pc[w] # "idle", NEW a \in Covered(w), Done(w, a) PROVE Done(w, a)'
  BY <1>1, <1>2, ReplySubjects DEF Done, Unharmed
<1>3. ASSUME pc[w] # "idle", NEW a \in DOMAIN resp[w].Summary,
             LineTrue(resp[w].Summary[a], a, EventOf(w).pr)
      PROVE  LineTrue(resp[w].Summary[a], a, EventOf(w).pr)'
  BY <1>1, <1>3, ReplySubjects DEF LineTrue, Unharmed
<1>4. LinesOf(w)'
  BY <1>1, <1>3 DEF LinesOf, ReplyInv
<1>5. WorkOf(w)'
  BY <1>1, <1>2 DEF WorkOf, ReplyInv
<1> QED
  BY <1>4, <1>5

LEMMA ReplyNothing ==
  ASSUME \A v \in Workers :
           pc'[v] \notin {"lock", "unlock", "clean", "retry", "respond"}
  PROVE  ReplyInv'
BY DEF ReplyInv, LinesOf, WorkOf

LEMMA ReplySurroundings ==
  ASSUME LockInv, ReplyInv, \A v, w \in Workers : v = w, Surroundings
  PROVE  ReplyInv'
<1> USE DEF LockInv, HomeInv
<1>1. UNCHANGED cluster => \A a \in Apps : Unharmed(a)
  BY DEF Unharmed, CarriesLock
<1>2. ASSUME NEW w \in Workers, NEW e \in Events, Webhook(w, e) PROVE ReplyInv'
  BY <1>1, <1>2, ReplyKept DEF Webhook
<1>3. ASSUME NEW w \in Workers, NEW i \in DOMAIN incoming[w], Handle(w, i)
      PROVE  ReplyInv'
  BY <1>1, <1>3, ReplyKept DEF Handle
<1>4. ASSUME NEW p \in PullRequests, Push(p) \/ Advance(p) PROVE ReplyInv'
  BY <1>1, <1>4, ReplyKept DEF Push, PushTo, Advance
<1>5. ASSUME NEW a \in Apps, Resync(a) PROVE ReplyInv'
  <2> DEFINE obj == [cluster[a] EXCEPT !.targetRevision = Home[a]]
  <2>1. cluster' = [cluster EXCEPT ![a] = obj] /\ cluster[a] \in Object
    BY <1>5 DEF Resync, TypeOK
  <2>2. Holder(obj) = NoPullRequest /\ obj \in Object
    BY <2>1, ResyncedObject, ApplicationAssumption
       DEF HomeRecoverable, LocksOwned, Object, BranchNames
  <2>3. /\ obj.locked = cluster[a].locked
        /\ obj.pullRequest = cluster[a].pullRequest
        /\ \A p \in PullRequests : ~HeldBy(obj, p)
    BY <2>1, <2>2, HeldByHolder, ApplicationAssumption DEF Object, NoPullRequest
  <2> HIDE DEF obj
  <2>4. \A b \in Apps : cluster'[b] = IF b = a THEN obj ELSE cluster[b]
    BY <2>1 DEF TypeOK
  <2>5. \A b \in Apps : Unharmed(b)
    BY <2>3, <2>4 DEF Unharmed, CarriesLock
  <2> QED
    BY <1>5, <2>5, ReplyKept DEF Resync
<1>6. ASSUME NEW w \in Workers, Crash(w) PROVE ReplyInv'
  <2>1. \A v \in Workers : pc'[v] = "idle"
    BY <1>6 DEF Crash, Continue, Goto, TypeOK
  <2> QED
    BY <2>1, ReplyNothing
<1> QED
  BY <1>2, <1>3, <1>4, <1>5, <1>6 DEF Surroundings

(* What Process decides is true of the copy it has just read.              *)
LEMMA FoundCarries ==
  ASSUME TypeOK, LocksOwned, NEW w \in Workers, NEW a \in DOMAIN Found(w)
  PROVE  /\ a \in Apps
         /\ Found(w)[a].Locked =>
              /\ CarriesLock(a, Found(w)[a].PullRequestId)
              /\ Found(w)[a].PullRequestId \in PullRequests
         /\ \A p \in PullRequests :
              ~Found(w)[a].Locked \/ Found(w)[a].PullRequestId # p => ~HeldBy(cluster[a], p)
<1> DEFINE once == Sanitize(ConvertToApplication(cluster[a]))
<1>1. a \in data[w].files /\ a \in Apps
  BY DEF Found, filterByEnv, FindAppsByRepoAndFiles,
         filterAppByRepoAndFiles, List, TypeOK
<1>2. Found(w)[a] = Sanitize(once)
  BY <1>1 DEF Found, filterByEnv, FindAppsByRepoAndFiles,
              filterAppByRepoAndFiles, List
<1>3. cluster[a] \in Object /\ Owned(cluster[a], a)
  BY <1>1 DEF TypeOK, LocksOwned
<1>4. Found(w)[a].Locked =>
        /\ cluster[a].locked = "true"
        /\ cluster[a].pullRequest = Found(w)[a].PullRequestId
  BY <1>2, <1>3 DEF Sanitize, ConvertToApplication
<1>5. ASSUME NEW p \in PullRequests,
             ~Found(w)[a].Locked \/ Found(w)[a].PullRequestId # p
      PROVE  ~HeldBy(cluster[a], p)
  BY <1>3, <1>5, FoundHolder, HeldByHolder, ApplicationAssumption DEF NoPullRequest
<1> QED
  BY <1>1, <1>3, <1>4, <1>5 DEF Owned, CarriesLock

LEMMA CoveredFound ==
  ASSUME NEW w \in Workers
  PROVE  Covered(w) = DOMAIN Found(w)
BY DEF Covered, Found, filterByEnv, FindAppsByRepoAndFiles,
       filterAppByRepoAndFiles, List

LEMMA ReplyProcess ==
  ASSUME LockInv, \A v, w \in Workers : v = w, NEW w \in Workers, Process(w)
  PROVE  ReplyInv'
<1> USE DEF LockInv, HomeInv
<1> DEFINE found == Found(w)
           p == EventOf(w).pr
<1>1. CASE pc'[w] = "idle"
  BY <1>1, ReplyNothing
<1>2. CASE pc'[w] # "idle"
  <2>1. /\ ActionOf(w).action \in {"lock", "unlock"}
        /\ UNCHANGED <<cluster, next, data>>
        /\ p \in PullRequests
    BY <1>2, BusyType DEF Process, ProcessNothing, ProcessRefused, ProcessLock,
       ProcessUnlock, ProcessNothingLocked, Decide, Continue, Goto, TypeOK
  <2>2. /\ EventOf(w)' = EventOf(w)
        /\ ActionOf(w)' = ActionOf(w)
        /\ Covered(w)' = DOMAIN found
        /\ \A a, q : /\ CarriesLock(a, q)' = CarriesLock(a, q)
                     /\ HeldBy(cluster'[a], q) = HeldBy(cluster[a], q)
    BY <2>1, CoveredFound DEF EventOf, ActionOf, Covered, CarriesLock
  <2> SUFFICES LinesOf(w)' /\ WorkOf(w)'
    BY DEF ReplyInv
  <2>3. CASE ProcessRefused(w)
    <3>1. pc'[w] = "respond" /\ resp'[w].Success = FALSE /\ DOMAIN resp'[w].Summary = {}
      BY <2>3 DEF ProcessRefused, Refused, NoSummary, Goto, TypeOK
    <3> QED
      BY <3>1 DEF LinesOf, WorkOf
  <2>4. CASE ProcessLock(w)
    <3> DEFINE response == LockResponse(found, p)
    <3>1. /\ ActionOf(w).action = "lock"
          /\ resp'[w] = response
          /\ \/ response.Success /\ todo'[w] = ToLock(found) /\ pc'[w] = "lock"
             \/ ~response.Success /\ pc'[w] \in {"retry", "respond"}
      BY <2>4 DEF ProcessLock, Decide, Goto, TypeOK
    <3>2. /\ DOMAIN response.Summary = DOMAIN found
          /\ \A a \in DOMAIN found : response.Summary[a] = LockStatus(found[a], p)
          /\ response.Success =>
               \A a \in DOMAIN found : LockStatus(found[a], p) \in {"Locked", "Unlocked"}
      BY DEF LockResponse
    <3>3. ASSUME NEW a \in DOMAIN found
          PROVE  LineTrue(LockStatus(found[a], p), a, p)
      BY <2>1, FoundCarries DEF LineTrue, LockStatus, UnlockStatus
    <3>4. ASSUME NEW a \in DOMAIN found \ ToLock(found), response.Success
          PROVE  CarriesLock(a, p)
      BY <3>2, <3>4, FoundCarries DEF LockStatus, UnlockStatus, ToLock
    <3> HIDE DEF response, found
    <3>5. LinesOf(w)'
      BY <2>2, <3>1, <3>2, <3>3 DEF LinesOf, LineTrue
    <3>6. WorkOf(w)'
      BY <2>2, <3>1, <3>4 DEF WorkOf, Done
    <3> QED
      BY <3>5, <3>6
  <2>5. CASE ProcessUnlock(w) \/ ProcessNothingLocked(w)
    <3>1. /\ ActionOf(w).action = "unlock"
          /\ \/ pc'[w] = "unlock" /\ todo'[w] = ToUnlock(found, p)
             \/ pc'[w] = "respond" /\ ToUnlock(found, p) = {}
      BY <1>2, <2>5 DEF ProcessUnlock, ProcessNothingLocked, Decide, Continue, Goto, TypeOK
    <3>2. ASSUME NEW a \in DOMAIN found \ ToUnlock(found, p)
          PROVE  ~HeldBy(cluster[a], p)
      BY <2>1, FoundCarries DEF ToUnlock
    <3> HIDE DEF found
    <3> QED
      BY <2>2, <3>1, <3>2 DEF LinesOf, WorkOf, Done
  <2>6. ~ProcessNothing(w)
    BY <1>2 DEF ProcessNothing, Continue, Goto, TypeOK
  <2> QED
    BY <2>3, <2>4, <2>5, <2>6 DEF Process
<1> QED
  BY <1>1, <1>2

LEMMA ReplyCalls ==
  ASSUME LockInv, ReplyInv, \A v, w \in Workers : v = w,
         NEW w \in Workers, NEW a \in Apps, Calls(w, a)
  PROVE  ReplyInv'
<1> USE DEF LockInv, HomeInv
<1> DEFINE p == EventOf(w).pr
<1>1. /\ a \in todo[w] /\ pc[w] \in {"lock", "unlock", "clean"}
      /\ UNCHANGED <<next, data>>
      /\ \A b \in Apps \ {a} : cluster'[b] = cluster[b]
  BY DEF Calls, LockApp, LockAppFails, UnlockUpdate, UnlockUpdateFails, UnlockClean,
         UnlockCleanFails, IsNext, Fail, Update, MayUpdate, TypeOK
<1>2. /\ p \in PullRequests
      /\ EventOf(w)' = EventOf(w)
      /\ ActionOf(w)' = ActionOf(w)
      /\ Covered(w)' = Covered(w)
      /\ Covered(w) \subseteq Apps /\ DOMAIN resp[w].Summary \subseteq Apps
  BY <1>1, ReplySubjects DEF EventOf, ActionOf, Covered
<1>3. \A b \in Apps \ {a} : \A q :
        /\ CarriesLock(b, q)' = CarriesLock(b, q)
        /\ HeldBy(cluster'[b], q) = HeldBy(cluster[b], q)
  BY <1>1 DEF CarriesLock
<1>4. /\ pc[w] = "lock" => ActionOf(w).action = "lock"
      /\ pc[w] # "lock" => ActionOf(w).action = "unlock"
      /\ \A b \in Covered(w) \ todo[w] : Done(w, b)
  BY <1>1 DEF ReplyInv, WorkOf
<1>5. \A b \in Covered(w) \ todo[w] : Done(w, b)'
  BY <1>1, <1>2, <1>3, <1>4 DEF Done
<1>6. ASSUME pc[w] = "lock", NEW b \in DOMAIN resp[w].Summary \ {a}, NEW line,
             line = resp[w].Summary[b]
      PROVE  LineTrue(line, b, p)'
  <2>1. LineTrue(line, b, p) /\ b \in Apps \ {a}
    BY <1>2, <1>4, <1>6 DEF ReplyInv, LinesOf
  <2> QED
    BY <1>2, <1>3, <2>1 DEF LineTrue
<1> SUFFICES LinesOf(w)' /\ WorkOf(w)'
  BY DEF ReplyInv
<1>7. CASE LockApp(w, a)
  <2> DEFINE obj == ConvertToRequest(Locked(w, a))
  <2>1. /\ pc[w] = "lock" /\ UNCHANGED pc
        /\ cluster'[a] = obj
        /\ resp'[w] = [resp[w] EXCEPT !.Summary[a] = "Locked"]
        /\ todo'[w] = todo[w] \ {a}
    BY <1>7 DEF LockApp, Update, Report, TypeOK
  <2>2. ~apps[w][a].Locked
    BY <1>1, <2>1 DEF CopiesKnowHome
  <2>3. obj.locked = "true" /\ obj.pullRequest = p
    BY <2>2 DEF ConvertToRequest, Locked, lockApp
  <2>4. CarriesLock(a, p)'
    BY <1>2, <2>1, <2>3 DEF CarriesLock
  <2>5. LinesOf(w)'
    BY <1>2, <1>6, <2>1, <2>4 DEF LinesOf, LineTrue
  <2>6. WorkOf(w)'
    BY <1>2, <1>4, <1>5, <2>1, <2>4 DEF WorkOf, Done
  <2> QED
    BY <2>5, <2>6
<1>8. CASE LockAppFails(w, a)
  <2>1. /\ pc[w] = "lock" /\ pc'[w] \in {"retry", "respond"}
        /\ resp'[w] = [resp[w] EXCEPT !.Success = FALSE, !.Summary[a] = "lockError"]
    BY <1>8 DEF LockAppFails, Fail, ReportError, Goto, TypeOK
  <2>2. resp[w] \in Response
    BY DEF TypeOK
  <2>3. /\ resp'[w].Success = FALSE
        /\ DOMAIN resp'[w].Summary = DOMAIN resp[w].Summary
        /\ a \in DOMAIN resp[w].Summary => resp'[w].Summary[a] = "lockError"
        /\ \A b \in DOMAIN resp[w].Summary \ {a} :
             resp'[w].Summary[b] = resp[w].Summary[b]
    BY <2>1, <2>2, ZenonT(40) DEF Response, Summaries
  <2>4. LinesOf(w)'
    BY <1>2, <1>6, <2>1, <2>3 DEF LinesOf, LineTrue
  <2> QED
    BY <2>1, <2>3, <2>4 DEF WorkOf
<1>9. CASE UnlockUpdate(w, a)
  <2>1. pc[w] = "unlock" /\ pc'[w] = "clean" /\ UNCHANGED todo
    BY <1>9 DEF UnlockUpdate, Goto, TypeOK
  <2> QED
    BY <1>2, <1>4, <1>5, <2>1 DEF LinesOf, WorkOf
<1>10. CASE UnlockClean(w, a)
  <2>1. /\ pc[w] = "clean" /\ pc'[w] = "unlock"
        /\ cluster'[a] = Clean(cluster[a])
        /\ todo'[w] = todo[w] \ {a}
    BY <1>10 DEF UnlockClean, Goto, TypeOK
  <2>2. ~HeldBy(cluster'[a], p)
    <3>1. cluster[a] \in Object
      BY DEF TypeOK
    <3>2. cluster'[a].locked = "absent"
      BY <2>1, <3>1 DEF Clean, Object
    <3> QED
      BY <3>2 DEF HeldBy, Sanitize, ConvertToApplication
  <2> QED
    BY <1>2, <1>4, <1>5, <2>1, <2>2 DEF LinesOf, WorkOf, Done
<1>11. CASE UnlockUpdateFails(w, a) \/ UnlockCleanFails(w, a)
  <2>1. /\ pc[w] \in {"unlock", "clean"} /\ pc'[w] \in {"retry", "respond"}
        /\ resp'[w] = ReportError(resp[w], Line(w, a), "unlockError")
    BY <1>11 DEF UnlockUpdateFails, UnlockCleanFails, Fail, Goto, TypeOK
  <2>2. resp'[w].Success = FALSE
    <3>1. resp[w] \in Response
      BY DEF TypeOK
    <3> QED
      BY <2>1, <3>1 DEF ReportError, Response
  <2> QED
    BY <1>2, <1>4, <2>1, <2>2 DEF LinesOf, WorkOf
<1> QED
  BY <1>7, <1>8, <1>9, <1>10, <1>11 DEF Calls

LEMMA ReplyOther ==
  ASSUME LockInv, ReplyInv, \A v, w \in Workers : v = w, NEW w \in Workers,
         \/ Dequeue(w) \/ GetFilesChanged(w)
         \/ CompareBranchCommitTotal(w) \/ GetDataFails(w)
         \/ LockDone(w) \/ UnlockDone(w) \/ Requeue(w) \/ responseProvider(w)
  PROVE  ReplyInv'
<1> USE DEF LockInv, HomeInv
<1>1. CASE Dequeue(w) \/ GetFilesChanged(w) \/ CompareBranchCommitTotal(w)
           \/ GetDataFails(w) \/ responseProvider(w)
  <2>1. \A v \in Workers :
          pc'[v] \notin {"lock", "unlock", "clean", "retry", "respond"}
    BY <1>1 DEF Dequeue, GetFilesChanged, CompareBranchCommitTotal, GetDataFails,
                responseProvider, Continue, Goto, TypeOK
  <2> QED
    BY <2>1, ReplyNothing
<1>2. CASE (LockDone(w) \/ UnlockDone(w) \/ Requeue(w)) /\ pc'[w] # "idle"
  <2>1. UNCHANGED <<cluster, next, data, resp>>
    BY <1>2 DEF LockDone, UnlockDone, Requeue, Continue, Goto, TypeOK
  <2>2. \/ pc[w] \in {"lock", "unlock"} /\ todo[w] = {}
        \/ pc[w] = "retry"
    BY <1>2 DEF LockDone, UnlockDone, Requeue
  <2>3. pc'[w] \in {"retry", "respond"} /\ (pc[w] = "unlock" => pc'[w] = "respond")
    BY <1>2 DEF LockDone, UnlockDone, Requeue, Continue, Goto, TypeOK
  <2>4. /\ EventOf(w)' = EventOf(w)
        /\ ActionOf(w)' = ActionOf(w)
        /\ Covered(w)' = Covered(w)
        /\ resp'[w] = resp[w]
        /\ \A a : Done(w, a)' = Done(w, a)
        /\ \A line, a, p : LineTrue(line, a, p)' = LineTrue(line, a, p)
    BY <2>1 DEF EventOf, ActionOf, Covered, Done, CarriesLock, LineTrue
  <2>5. LinesOf(w) /\ WorkOf(w)
    BY DEF ReplyInv
  <2>6. LinesOf(w)'
    BY <2>2, <2>3, <2>4, <2>5 DEF LinesOf, WorkOf
  <2>7. WorkOf(w)'
    BY <2>2, <2>3, <2>4, <2>5 DEF WorkOf
  <2> QED
    BY <2>6, <2>7 DEF ReplyInv
<1>3. CASE pc'[w] = "idle"
  BY <1>3, ReplyNothing
<1> QED
  BY <1>1, <1>2, <1>3

LEMMA ReplyStep ==
  ASSUME \A v, w \in Workers : v = w, LockInv, ReplyInv, [Next]_vars
  PROVE  ReplyInv'
<1>1. CASE Surroundings
  BY <1>1, ReplySurroundings
<1>2. ASSUME NEW w \in Workers, Start(w) PROVE ReplyInv'
  BY <1>2, ReplyProcess, ReplyCalls, ReplyOther DEF Start
<1>3. CASE UNCHANGED vars
  BY <1>3, ReplyKept DEF vars, LockInv, HomeInv, Unharmed, CarriesLock
<1> QED
  BY <1>1, <1>2, <1>3 DEF Next

LEMMA ReplyInvariant ==
  ASSUME \A v, w \in Workers : v = w
  PROVE  Spec => []ReplyInv
<1>1. Init => ReplyInv
  BY DEF Init, ReplyInv, LinesOf, WorkOf
<1>2. LockInv /\ ReplyInv /\ [Next]_vars => ReplyInv'
  BY ReplyStep
<1> QED
  BY <1>1, <1>2, LockInvariant, PTL DEF Spec

(* With one replica, the reply to a deploy command says of every           *)
(* application what is true of the cluster when the reply is sent, also    *)
(* when a call failed halfway or a sync reset a branch in between.         *)
THEOREM LockRepliesTrue ==
  ASSUME \A v, w \in Workers : v = w
  PROVE  Spec => []LockReplyTrue
<1>1. ReplyInv => LockReplyTrue
  BY DEF ReplyInv, LinesOf, LineTrue, LockReplyTrue
<1> QED
  BY <1>1, ReplyInvariant, PTL

(* With one replica, a command whose reply is a success has been carried   *)
(* out on every application that it is about.                              *)
THEOREM SuccessesComplete ==
  ASSUME \A v, w \in Workers : v = w
  PROVE  Spec => []SuccessComplete
<1>1. ReplyInv => SuccessComplete
  BY DEF ReplyInv, WorkOf, Covered, Done, SuccessComplete
<1> QED
  BY <1>1, ReplyInvariant, PTL

-----------------------------------------------------------------------------
(* What a closed pull request leaves behind.                               *)

(* When it leaves nothing: one replica, no failing calls and no crashes,   *)
(* no comments on closed pull requests, and no app of apps, whose commands *)
(* are run again.  Each of these would leave a lock.  Pushes, syncs and    *)
(* commits on the destination branch may happen at any time, and handlers  *)
(* may overtake each other.                                                *)
Undisturbed ==
  /\ \A v, w \in Workers : v = w
  /\ Disturbances \subseteq {"push", "advance", "overtake", "resync"}
  /\ \A a \in Apps : ~ContainOther[a]

(* Events of a pull request in a sequence, the closing one being the last. *)
Has(events, p) == \E i \in DOMAIN events : events[i].pr = p

HasClosing(events, p) ==
  \E i \in DOMAIN events : events[i].pr = p /\ IsClosing(events[i])

LastOf(events, p) ==
  \A i, j \in DOMAIN events :
    i < j /\ events[i].pr = p /\ IsClosing(events[i]) => events[j].pr # p

LEMMA HasAppend ==
  ASSUME NEW S, NEW s \in Seq(S), NEW e \in S, NEW p
  PROVE  /\ Has(Append(s, e), p) <=> Has(s, p) \/ e.pr = p
         /\ HasClosing(Append(s, e), p) <=>
              HasClosing(s, p) \/ (e.pr = p /\ IsClosing(e))
         /\ LastOf(s, p) /\ (HasClosing(s, p) => e.pr # p) => LastOf(Append(s, e), p)
<1> DEFINE t == Append(s, e)
<1>1. Len(s) \in Nat /\ DOMAIN s = 1 .. Len(s)
  BY LenProperties
<1>2. /\ DOMAIN t = DOMAIN s \union {Len(s) + 1}
      /\ \A i \in DOMAIN s : t[i] = s[i] /\ i < Len(s) + 1 /\ i \in Nat
      /\ t[Len(s) + 1] = e
  <2>1. /\ t \in Seq(S) /\ Len(t) = Len(s) + 1
        /\ \A i \in 1 .. Len(s) : t[i] = s[i]
        /\ t[Len(s) + 1] = e
    BY AppendProperties
  <2>2. DOMAIN t = 1 .. Len(s) + 1
    BY <2>1, LenProperties
  <2> HIDE DEF t
  <2>3. 1 .. Len(s) + 1 = (1 .. Len(s)) \union {Len(s) + 1}
    BY <1>1
  <2>4. \A i \in 1 .. Len(s) : i < Len(s) + 1 /\ i \in Nat
    BY <1>1
  <2> QED
    BY <1>1, <2>1, <2>2, <2>3, <2>4, Zenon
<1> HIDE DEF t
<1> DEFINE n == Len(s) + 1
<1>3. \A i \in DOMAIN s : ~(n < i)
  BY <1>1
<1>4. ~(n < n)
  BY <1>1
<1> HIDE DEF n
<1>5. Has(t, p) <=> Has(s, p) \/ e.pr = p
  BY <1>2, Zenon DEF Has, n
<1>6. HasClosing(t, p) <=> HasClosing(s, p) \/ (e.pr = p /\ IsClosing(e))
  BY <1>2, Zenon DEF HasClosing, n
<1>7. ASSUME LastOf(s, p), HasClosing(s, p) => e.pr # p PROVE LastOf(t, p)
  <2> SUFFICES ASSUME NEW i \in DOMAIN t, NEW j \in DOMAIN t,
                      i < j, t[i].pr = p, IsClosing(t[i])
               PROVE  t[j].pr # p
    BY DEF LastOf
  <2>1. i \in DOMAIN s
    BY <1>2, <1>3, <1>4 DEF n
  <2>2. CASE j \in DOMAIN s
    BY <1>2, <1>7, <2>1, <2>2 DEF LastOf
  <2>3. CASE j = n
    BY <1>2, <1>7, <2>1, <2>3 DEF HasClosing, n
  <2> QED
    BY <1>2, <2>2, <2>3 DEF n
<1> QED
  BY <1>5, <1>6, <1>7 DEF t

(* All events of s but the i-th are in rest, and no others.                *)
LEMMA HasOrIs ==
  ASSUME NEW s, NEW rest, NEW i \in DOMAIN s, NEW p,
         \A j \in DOMAIN rest : \E k \in DOMAIN s : rest[j] = s[k],
         \A k \in DOMAIN s : k = i \/ \E j \in DOMAIN rest : s[k] = rest[j]
  PROVE  /\ Has(s, p) <=> s[i].pr = p \/ Has(rest, p)
         /\ HasClosing(s, p) <=>
              (s[i].pr = p /\ IsClosing(s[i])) \/ HasClosing(rest, p)
<1>1. ASSUME Has(s, p), s[i].pr # p PROVE Has(rest, p)
  BY <1>1 DEF Has
<1>2. s[i].pr = p \/ Has(rest, p) => Has(s, p)
  BY DEF Has
<1>3. ASSUME HasClosing(s, p), ~(s[i].pr = p /\ IsClosing(s[i]))
      PROVE  HasClosing(rest, p)
  <2>1. PICK k \in DOMAIN s : s[k].pr = p /\ IsClosing(s[k])
    BY <1>3 DEF HasClosing
  <2>2. PICK j \in DOMAIN rest : s[k] = rest[j]
    BY <1>3, <2>1
  <2> QED
    BY <2>1, <2>2, Zenon DEF HasClosing
<1>4. ASSUME HasClosing(rest, p) PROVE HasClosing(s, p)
  <2>1. PICK j \in DOMAIN rest : rest[j].pr = p /\ IsClosing(rest[j])
    BY <1>4 DEF HasClosing
  <2>2. PICK k \in DOMAIN s : rest[j] = s[k]
    BY <2>1
  <2> QED
    BY <2>1, <2>2, Zenon DEF HasClosing
<1>5. s[i].pr = p /\ IsClosing(s[i]) => HasClosing(s, p)
  BY DEF HasClosing
<1> QED
  BY <1>1, <1>2, <1>3, <1>4, <1>5

LEMMA HasRemoved ==
  ASSUME NEW S, NEW s \in Seq(S), NEW i \in 1 .. Len(s), NEW p
  PROVE  LET rest == Seqs!RemoveAt(s, i)
         IN /\ Has(s, p) <=> s[i].pr = p \/ Has(rest, p)
            /\ HasClosing(s, p) <=>
                 (s[i].pr = p /\ IsClosing(s[i])) \/ HasClosing(rest, p)
            /\ LastOf(s, p) => LastOf(rest, p)
            /\ LastOf(s, p) /\ s[i].pr = p /\ IsClosing(s[i])
                 /\ (\A j \in 1 .. i - 1 : s[j].pr # p) => ~Has(rest, p)
<1> DEFINE rest == Seqs!RemoveAt(s, i)
           from(j) == IF j < i THEN j ELSE j + 1
<1>1. Len(s) \in Nat /\ DOMAIN s = 1 .. Len(s)
  BY LenProperties
<1>2. /\ DOMAIN rest = 1 .. Len(s) - 1
      /\ \A j \in 1 .. Len(s) - 1 : rest[j] = s[from(j)]
  BY RemoveAtProperties, LenProperties
<1> HIDE DEF rest
<1>3. \A j \in 1 .. Len(s) - 1 : from(j) \in 1 .. Len(s) /\ from(j) # i
  BY <1>1
<1>4. \A k \in 1 .. Len(s) : k = i \/ \E j \in 1 .. Len(s) - 1 : k = from(j)
  <2> TAKE k \in 1 .. Len(s)
  <2>1. k < i => k \in 1 .. Len(s) - 1 /\ k = from(k)
    BY <1>1
  <2>2. i < k => k - 1 \in 1 .. Len(s) - 1 /\ k = from(k - 1)
    BY <1>1
  <2>3. k < i \/ k = i \/ i < k
    BY <1>1
  <2> QED
    BY <2>1, <2>2, <2>3, Zenon
<1>5. \A j, k \in 1 .. Len(s) - 1 : j < k => from(j) < from(k)
  BY <1>1
<1>6. \A k \in 1 .. Len(s) : k \in 1 .. i - 1 \/ k = i \/ i < k
  BY <1>1
<1> HIDE DEF from
<1>7. /\ \A j \in DOMAIN rest : \E k \in DOMAIN s : rest[j] = s[k]
      /\ \A k \in DOMAIN s : k = i \/ \E j \in DOMAIN rest : s[k] = rest[j]
  BY <1>1, <1>2, <1>3, <1>4, Zenon
<1>8. /\ Has(s, p) <=> s[i].pr = p \/ Has(rest, p)
      /\ HasClosing(s, p) <=>
           (s[i].pr = p /\ IsClosing(s[i])) \/ HasClosing(rest, p)
  BY <1>1, <1>7, HasOrIs
<1>9. LastOf(s, p) => LastOf(rest, p)
  BY <1>1, <1>2, <1>3, <1>5, Zenon DEF LastOf
<1>10. ASSUME LastOf(s, p), s[i].pr = p, IsClosing(s[i]),
              \A j \in 1 .. i - 1 : s[j].pr # p
       PROVE  ~Has(rest, p)
  <2>1. \A k \in 1 .. Len(s) : k # i => s[k].pr # p
    BY <1>1, <1>6, <1>10, Zenon DEF LastOf
  <2> QED
    BY <1>2, <1>3, <2>1, Zenon DEF Has
<1> QED
  BY <1>8, <1>9, <1>10 DEF rest

LEMMA HasTail ==
  ASSUME NEW S, NEW s \in Seq(S), s # <<>>, NEW p
  PROVE  /\ Has(s, p) <=> Head(s).pr = p \/ Has(Tail(s), p)
         /\ HasClosing(s, p) <=>
              (Head(s).pr = p /\ IsClosing(Head(s))) \/ HasClosing(Tail(s), p)
         /\ LastOf(s, p) =>
              /\ LastOf(Tail(s), p)
              /\ Head(s).pr = p /\ IsClosing(Head(s)) => ~Has(Tail(s), p)
<1>1. Len(s) \in Nat /\ DOMAIN s = 1 .. Len(s) /\ 1 \in 1 .. Len(s)
  BY LenProperties, EmptySeq
<1>2. Head(s) = s[1] /\ Tail(s) \in Seq(S) /\ Len(Tail(s)) = Len(s) - 1
      /\ \A j \in 1 .. Len(s) - 1 : Tail(s)[j] = s[j + 1]
  BY HeadTailProperties
<1>3. DOMAIN Tail(s) = 1 .. Len(s) - 1
  BY <1>2, LenProperties
<1>4. \A j \in 1 .. Len(s) - 1 : j + 1 \in 1 .. Len(s) /\ 1 < j + 1
  BY <1>1
<1>5. \A k \in 1 .. Len(s) : k = 1 \/ \E j \in 1 .. Len(s) - 1 : k = j + 1
  <2> TAKE k \in 1 .. Len(s)
  <2>1. k # 1 => k - 1 \in 1 .. Len(s) - 1 /\ k = (k - 1) + 1
    BY <1>1
  <2> QED
    BY <2>1, Zenon
<1>6. \A j, k \in 1 .. Len(s) - 1 : j < k => j + 1 < k + 1
  BY <1>1
<1>7. /\ \A j \in DOMAIN Tail(s) : \E k \in DOMAIN s : Tail(s)[j] = s[k]
      /\ \A k \in DOMAIN s : k = 1 \/ \E j \in DOMAIN Tail(s) : s[k] = Tail(s)[j]
  <2> DEFINE t == Tail(s)
             after(j) == j + 1
  <2>1. /\ \A j \in 1 .. Len(s) - 1 : t[j] = s[after(j)] /\ after(j) \in 1 .. Len(s)
        /\ \A k \in 1 .. Len(s) : k = 1 \/ \E j \in 1 .. Len(s) - 1 : k = after(j)
    BY <1>2, <1>4, <1>5
  <2> HIDE DEF t, after
  <2> QED
    BY <1>1, <1>3, <2>1, ZenonT(40) DEF t
<1>8. /\ Has(s, p) <=> Head(s).pr = p \/ Has(Tail(s), p)
      /\ HasClosing(s, p) <=>
           (Head(s).pr = p /\ IsClosing(Head(s))) \/ HasClosing(Tail(s), p)
  <2>1. /\ Has(s, p) <=> s[1].pr = p \/ Has(Tail(s), p)
        /\ HasClosing(s, p) <=>
             (s[1].pr = p /\ IsClosing(s[1])) \/ HasClosing(Tail(s), p)
    BY <1>1, <1>7, HasOrIs, Zenon
  <2> QED
    BY <1>2, <2>1, Zenon
<1>9. LastOf(s, p) => LastOf(Tail(s), p)
  BY <1>1, <1>2, <1>3, <1>4, <1>6, Zenon DEF LastOf
<1>10. LastOf(s, p) /\ Head(s).pr = p /\ IsClosing(Head(s)) => ~Has(Tail(s), p)
  BY <1>1, <1>2, <1>3, <1>4, Zenon DEF LastOf, Has
<1> QED
  BY <1>8, <1>9, <1>10

(* The events that a replica has queued, and the one in its hands.         *)
Queued(w) == [i \in DOMAIN queue[w] |-> queue[w][i].event]

InHand(w, p) == pc[w] # "idle" /\ EventOf(w).pr = p
ClosingInHand(w, p) == InHand(w, p) /\ IsClosing(EventOf(w))

Waits(p) ==
  \E w \in Workers : Has(incoming[w], p) \/ Has(Queued(w), p) \/ InHand(w, p)

(* Nothing of a pull request stands behind its closing event, unless that  *)
(* has overtaken it.                                                       *)
ClosingIsLast ==
  \A w \in Workers, p \in PullRequests \ overtaken :
    /\ LastOf(incoming[w], p) /\ LastOf(Queued(w), p)
    /\ HasClosing(Queued(w), p) => ~Has(incoming[w], p)
    /\ ClosingInHand(w, p) => ~Has(Queued(w), p) /\ ~Has(incoming[w], p)

(* What still waits of a closed pull request waits before a closing event. *)
ClosedAwaitsClosing ==
  \A p \in PullRequests :
    /\ ClosingPending(p) => ~pulls[p].open
    /\ Waits(p) /\ ~pulls[p].open /\ p \notin overtaken => ClosingPending(p)

(* A closing event is served with the final diff, and never answered.      *)
ClosingServed ==
  \A w \in Workers :
    pc[w] # "idle" /\ IsClosing(EventOf(w)) =>
      /\ pc[w] \in {"files", "behind", "process", "unlock", "clean"}
      /\ pc[w] # "files" => data[w].files = pulls[EventOf(w).pr].files

NothingRepeated == \A w \in Workers : ~retry[w] /\ pc[w] # "retry"

(* Clean finds the annotations that Update wrote.                          *)
CleanFindsAnnotations ==
  \A w \in Workers, a \in Apps :
    pc[w] = "clean" /\ IsNext(w, a) => Cleanable(cluster[a])

Order == ClosingIsLast /\ ClosedAwaitsClosing
Service == ClosingServed /\ NothingRepeated /\ CleanFindsAnnotations
SettleInv == Order /\ Service /\ SettledHoldsNothing

LEMMA QueuedType ==
  ASSUME TypeOK, NEW w \in Workers
  PROVE  Queued(w) \in Seq(Event) /\ incoming[w] \in Seq(Events)
<1>1. queue[w] \in Seq(Item) /\ incoming[w] \in Seq(Events)
  BY DEF TypeOK
<1>2. /\ DOMAIN queue[w] = 1 .. Len(queue[w]) /\ Len(queue[w]) \in Nat
      /\ \A i \in 1 .. Len(queue[w]) : queue[w][i] \in Item
  BY <1>1, LenProperties, ElementOfSeq
<1>3. \A item \in Item : item.event \in Event
  BY DEF Item
<1>4. Queued(w) = [i \in 1 .. Len(queue[w]) |-> queue[w][i].event]
  BY <1>2 DEF Queued
<1> QED
  BY <1>1, <1>2, <1>3, <1>4, IsASeq

LEMMA QueuedAppend ==
  ASSUME TypeOK, NEW w \in Workers, NEW e \in Events, NEW n,
         queue'[w] = Append(queue[w], [event |-> e, run |-> n])
  PROVE  Queued(w)' = Append(Queued(w), e)
<1> DEFINE item == [event |-> e, run |-> n]
<1>1. queue[w] \in Seq(Item \union {item}) /\ item \in Item \union {item}
  BY DEF TypeOK
<1>2. /\ DOMAIN queue[w] = 1 .. Len(queue[w]) /\ Len(queue[w]) \in Nat
      /\ DOMAIN queue'[w] = 1 .. Len(queue[w]) + 1
      /\ \A i \in 1 .. Len(queue[w]) : queue'[w][i] = queue[w][i]
      /\ queue'[w][Len(queue[w]) + 1] = item
  BY <1>1, AppendProperties, LenProperties
<1>3. item.event = e
  OBVIOUS
<1> HIDE DEF item
<1> QED
  BY <1>2, <1>3, QueuedType DEF Queued

LEMMA QueuedTail ==
  ASSUME TypeOK, NEW w \in Workers, queue[w] # <<>>, queue'[w] = Tail(queue[w])
  PROVE  /\ Queued(w) # <<>> /\ Head(Queued(w)) = Head(queue[w]).event
         /\ Queued(w)' = Tail(Queued(w))
<1>1. queue[w] \in Seq(Item)
  BY DEF TypeOK
<1>2. /\ DOMAIN queue[w] = 1 .. Len(queue[w]) /\ Len(queue[w]) \in Nat \ {0}
      /\ DOMAIN queue'[w] = 1 .. Len(queue[w]) - 1
      /\ Head(queue[w]) = queue[w][1]
      /\ \A i \in 1 .. Len(queue[w]) - 1 : queue'[w][i] = queue[w][i + 1]
  BY <1>1, HeadTailProperties, LenProperties, EmptySeq
<1> QED
  BY <1>2, QueuedType DEF Queued

(* With one replica, what waits and what is pending is what waits there.   *)
LEMMA OneReplica ==
  ASSUME Undisturbed, NEW w \in Workers, NEW p
  PROVE  /\ Waits(p) <=> Has(incoming[w], p) \/ Has(Queued(w), p) \/ InHand(w, p)
         /\ ClosingPending(p) <=> \/ HasClosing(incoming[w], p)
                                  \/ HasClosing(Queued(w), p)
                                  \/ ClosingInHand(w, p)
<1>1. \A v \in Workers : v = w
  BY DEF Undisturbed
<1>2. HasClosing(Queued(w), p) <=>
        \E i \in DOMAIN queue[w] :
          queue[w][i].event.pr = p /\ IsClosing(queue[w][i].event)
  BY DEF HasClosing, Queued
<1> QED
  BY <1>1, <1>2 DEF Waits, ClosingPending, HasClosing, ClosingInHand, InHand

LEMMA OneReplicaNext ==
  ASSUME Undisturbed, NEW w \in Workers, NEW p
  PROVE  /\ Waits(p)' <=>
              Has(incoming'[w], p) \/ Has(Queued(w)', p) \/ InHand(w, p)'
         /\ ClosingPending(p)' <=> \/ HasClosing(incoming'[w], p)
                                   \/ HasClosing(Queued(w)', p)
                                   \/ ClosingInHand(w, p)'
<1>1. \A v \in Workers : v = w
  BY DEF Undisturbed
<1>2. HasClosing(Queued(w)', p) <=>
        \E i \in DOMAIN queue'[w] :
          queue'[w][i].event.pr = p /\ IsClosing(queue'[w][i].event)
  BY DEF HasClosing, Queued
<1> QED
  BY <1>1, <1>2 DEF Waits, ClosingPending, Has, HasClosing, ClosingInHand, InHand

(* A step that delivers and takes nothing keeps the order.                 *)
LEMMA OrderQuiet ==
  ASSUME Order, UNCHANGED <<incoming, overtaken, queue, next>>,
         \A w \in Workers : pc'[w] = "idle" <=> pc[w] = "idle",
         \A p \in PullRequests : pulls'[p].open = pulls[p].open
  PROVE  /\ Order'
         /\ \A p \in PullRequests : ClosingPending(p)' = ClosingPending(p)
<1>1. \A w \in Workers : EventOf(w)' = EventOf(w) /\ Queued(w)' = Queued(w)
  BY DEF EventOf, Queued
<1>2. \A w \in Workers, p \in PullRequests :
        InHand(w, p)' = InHand(w, p) /\ ClosingInHand(w, p)' = ClosingInHand(w, p)
  BY <1>1 DEF InHand, ClosingInHand
<1>3. \A p \in PullRequests : ClosingPending(p)' = ClosingPending(p)
  BY <1>1 DEF ClosingPending
<1>4. \A p \in PullRequests : Waits(p)' = Waits(p)
  BY <1>1, <1>2 DEF Waits
<1>5. ClosingIsLast'
  BY <1>1, <1>2 DEF Order, ClosingIsLast
<1> QED
  BY <1>3, <1>4, <1>5 DEF Order, ClosedAwaitsClosing

(* The promise is kept while nobody is held anew and no event is done.     *)
LEMMA SettledStill ==
  ASSUME SettledHoldsNothing, overtaken \subseteq overtaken',
         \A p \in PullRequests \ overtaken :
           ~pulls'[p].open /\ ~ClosingPending(p)' =>
             /\ ~pulls[p].open /\ ~ClosingPending(p)
             /\ pulls'[p].files = pulls[p].files
             /\ \A a \in pulls[p].files : ~HeldBy(cluster[a], p) => ~HeldBy(cluster'[a], p)
  PROVE  SettledHoldsNothing'
BY DEF SettledHoldsNothing

LEMMA SettleInit == Init => SettleInv
<1> SUFFICES ASSUME Init PROVE SettleInv
  OBVIOUS
<1>1. \A w \in Workers : /\ queue[w] = <<>> /\ incoming[w] = <<>>
                         /\ pc[w] = "idle" /\ ~retry[w]
  BY DEF Init
<1>2. \A w \in Workers : DOMAIN Queued(w) = {} /\ DOMAIN incoming[w] = {}
  BY <1>1 DEF Queued
<1>3. \A w \in Workers, p \in PullRequests :
        /\ ~Has(Queued(w), p) /\ ~HasClosing(Queued(w), p) /\ LastOf(Queued(w), p)
        /\ ~Has(incoming[w], p) /\ ~HasClosing(incoming[w], p) /\ LastOf(incoming[w], p)
        /\ ~InHand(w, p) /\ ~ClosingInHand(w, p)
  BY <1>1, <1>2 DEF Has, HasClosing, LastOf, InHand, ClosingInHand
<1>4. \A p \in PullRequests : pulls[p].open /\ ~ClosingPending(p) /\ ~Waits(p)
  BY <1>1, <1>3 DEF Init, ClosingPending, Waits
<1>5. Order
  BY <1>3, <1>4 DEF Order, ClosingIsLast, ClosedAwaitsClosing
<1>6. Service
  BY <1>1 DEF Service, ClosingServed, NothingRepeated, CleanFindsAnnotations
<1> QED
  BY <1>4, <1>5, <1>6 DEF SettleInv, SettledHoldsNothing

(* A webhook is sent: the last on its way, and a closing one the first of  *)
(* its pull request to be it.                                              *)
LEMMA SettleWebhook ==
  ASSUME TypeOK, SettleInv, Undisturbed,
         NEW w \in Workers, NEW e \in Events, Webhook(w, e)
  PROVE  SettleInv'
<1>1. /\ pulls[e.pr].open /\ e.pr \in PullRequests
      /\ UNCHANGED <<cluster, overtaken, queue, pc, next, data, todo, retry>>
      /\ \A v \in Workers : v = w
  BY EventAssumption DEF Webhook, Undisturbed, Event
<1>2. incoming'[w] = Append(incoming[w], e) /\ incoming[w] \in Seq(Events)
  BY DEF Webhook, TypeOK
<1>3. \A p \in PullRequests :
        /\ Has(incoming'[w], p) <=> Has(incoming[w], p) \/ e.pr = p
        /\ HasClosing(incoming'[w], p) <=>
             HasClosing(incoming[w], p) \/ (e.pr = p /\ IsClosing(e))
        /\ LastOf(incoming[w], p) /\ (HasClosing(incoming[w], p) => e.pr # p)
             => LastOf(incoming'[w], p)
  BY <1>2, HasAppend
<1>4. \A p \in PullRequests :
        /\ pulls'[p].open = (pulls[p].open /\ ~(p = e.pr /\ IsClosing(e)))
        /\ pulls'[p].files = pulls[p].files
  <2> DEFINE closes(p) == p = e.pr /\ IsClosing(e)
  <2>1. PICK late \in SUBSET Overtaken(e) :
          pulls' = [p \in PullRequests |->
                      [pulls[p] EXCEPT !.open = @ /\ ~closes(p),
                                       !.behind = @ \/ p \in late]]
    BY DEF Webhook, Happened
  <2>2. \A p \in PullRequests : pulls[p] \in PullRequest
    BY DEF TypeOK
  <2> HIDE DEF closes
  <2>3. \A p \in PullRequests : /\ pulls'[p].open = (pulls[p].open /\ ~closes(p))
                                /\ pulls'[p].files = pulls[p].files
    BY <2>1, <2>2 DEF PullRequest
  <2> QED
    BY <2>3 DEF closes
<1>5. ~ClosingPending(e.pr)
  BY <1>1 DEF SettleInv, Order, ClosedAwaitsClosing
<1>6. /\ EventOf(w)' = EventOf(w) /\ Queued(w)' = Queued(w)
      /\ \A p \in PullRequests :
           InHand(w, p)' = InHand(w, p) /\ ClosingInHand(w, p)' = ClosingInHand(w, p)
  BY <1>1 DEF EventOf, Queued, InHand, ClosingInHand
<1>7. \A p \in PullRequests :
        /\ ClosingPending(p)' <=> ClosingPending(p) \/ (e.pr = p /\ IsClosing(e))
        /\ Waits(p)' <=> Waits(p) \/ e.pr = p
  BY <1>3, <1>6, OneReplica, OneReplicaNext
<1>8. ClosingIsLast'
  <2> SUFFICES ASSUME NEW p \in PullRequests \ overtaken
               PROVE  /\ LastOf(incoming'[w], p) /\ LastOf(Queued(w)', p)
                      /\ HasClosing(Queued(w)', p) => ~Has(incoming'[w], p)
                      /\ ClosingInHand(w, p)' =>
                           ~Has(Queued(w)', p) /\ ~Has(incoming'[w], p)
    BY <1>1 DEF ClosingIsLast
  <2>1. /\ LastOf(incoming[w], p) /\ LastOf(Queued(w), p)
        /\ HasClosing(Queued(w), p) => ~Has(incoming[w], p)
        /\ ClosingInHand(w, p) => ~Has(Queued(w), p) /\ ~Has(incoming[w], p)
    BY DEF SettleInv, Order, ClosingIsLast
  <2> QED
    BY <1>3, <1>5, <1>6, <2>1, OneReplica
<1>9. ClosedAwaitsClosing'
  BY <1>1, <1>4, <1>7 DEF SettleInv, Order, ClosedAwaitsClosing
<1>10. Service'
  <2>1. pc[w] # "idle" => EventOf(w).pr \in PullRequests
    BY BusyType
  <2>2. ClosingServed'
    BY <1>1, <1>4, <1>6, <2>1 DEF SettleInv, Service, ClosingServed
  <2>3. NothingRepeated' /\ CleanFindsAnnotations'
    BY <1>1 DEF SettleInv, Service, NothingRepeated, CleanFindsAnnotations, IsNext
  <2> QED
    BY <2>2, <2>3 DEF Service
<1>11. SettledHoldsNothing'
  BY <1>1, <1>4, <1>7, SettledStill DEF SettleInv
<1> QED
  BY <1>8, <1>9, <1>10, <1>11 DEF SettleInv, Order

(* A handler puts its event into the queue: the last there, and of its     *)
(* pull request the first on its way if it is a closing one, unless it     *)
(* overtakes others.                                                       *)
LEMMA SettleHandle ==
  ASSUME TypeOK, SettleInv, Undisturbed,
         NEW w \in Workers, NEW i \in DOMAIN incoming[w], Handle(w, i)
  PROVE  SettleInv'
<1> DEFINE e == incoming[w][i]
<1>1. /\ UNCHANGED <<cluster, pulls, pc, next, data, todo, retry>>
      /\ \A v \in Workers : v = w
  BY DEF Handle, Undisturbed
<1>2. /\ incoming[w] \in Seq(Events) /\ i \in 1 .. Len(incoming[w])
      /\ Queued(w) \in Seq(Event) /\ e \in Events /\ e \in Event
  BY QueuedType, LenProperties, ElementOfSeq, EventAssumption
<1>3. /\ incoming'[w] = Seqs!RemoveAt(incoming[w], i)
      /\ queue'[w] = Append(queue[w], [event |-> e, run |-> 1])
      /\ overtaken' = overtaken \union Overtakes(w, i)
  BY DEF Handle, TypeOK
<1> HIDE DEF e
<1>4. Queued(w)' = Append(Queued(w), e)
  BY <1>2, <1>3, QueuedAppend
<1>5. /\ EventOf(w)' = EventOf(w)
      /\ \A p \in PullRequests :
           InHand(w, p)' = InHand(w, p) /\ ClosingInHand(w, p)' = ClosingInHand(w, p)
  BY <1>1 DEF EventOf, InHand, ClosingInHand
<1>6. \A p \in PullRequests :
        /\ Has(incoming[w], p) <=> e.pr = p \/ Has(incoming'[w], p)
        /\ HasClosing(incoming[w], p) <=>
             (e.pr = p /\ IsClosing(e)) \/ HasClosing(incoming'[w], p)
        /\ LastOf(incoming[w], p) => LastOf(incoming'[w], p)
        /\ LastOf(incoming[w], p) /\ e.pr = p /\ IsClosing(e)
             /\ (\A j \in 1 .. i - 1 : incoming[w][j].pr # p) => ~Has(incoming'[w], p)
  BY <1>2, <1>3, HasRemoved, ZenonT(40) DEF e
<1>7. \A p \in PullRequests :
        /\ Has(Queued(w)', p) <=> Has(Queued(w), p) \/ e.pr = p
        /\ HasClosing(Queued(w)', p) <=>
             HasClosing(Queued(w), p) \/ (e.pr = p /\ IsClosing(e))
        /\ LastOf(Queued(w), p) /\ (HasClosing(Queued(w), p) => e.pr # p)
             => LastOf(Queued(w)', p)
  BY <1>2, <1>4, HasAppend
<1>8. \A p \in PullRequests :
        p \notin overtaken' /\ e.pr = p /\ IsClosing(e)
          => \A j \in 1 .. i - 1 : incoming[w][j].pr # p
  BY <1>3 DEF Overtakes, e
<1>9. \A p \in PullRequests :
        /\ ClosingPending(p)' <=> ClosingPending(p)
        /\ Waits(p)' <=> Waits(p)
  BY <1>5, <1>6, <1>7, OneReplica, OneReplicaNext
<1>10. ClosingIsLast'
  <2> SUFFICES ASSUME NEW p \in PullRequests \ overtaken'
               PROVE  /\ LastOf(incoming'[w], p) /\ LastOf(Queued(w)', p)
                      /\ HasClosing(Queued(w)', p) => ~Has(incoming'[w], p)
                      /\ ClosingInHand(w, p)' =>
                           ~Has(Queued(w)', p) /\ ~Has(incoming'[w], p)
    BY <1>1 DEF ClosingIsLast
  <2>1. p \in PullRequests \ overtaken
    BY <1>3
  <2>2. /\ LastOf(incoming[w], p) /\ LastOf(Queued(w), p)
        /\ HasClosing(Queued(w), p) => ~Has(incoming[w], p)
        /\ ClosingInHand(w, p) => ~Has(Queued(w), p) /\ ~Has(incoming[w], p)
    BY <2>1 DEF SettleInv, Order, ClosingIsLast
  <2> QED
    BY <1>5, <1>6, <1>7, <1>8, <2>2
<1>11. overtaken \subseteq overtaken'
  BY <1>3
<1>12. ClosedAwaitsClosing'
  BY <1>1, <1>9, <1>11 DEF SettleInv, Order, ClosedAwaitsClosing
<1>13. Service'
  BY <1>1, <1>5 DEF SettleInv, Service, ClosingServed, NothingRepeated,
                    CleanFindsAnnotations, IsNext
<1>14. SettledHoldsNothing'
  BY <1>1, <1>9, <1>11, SettledStill DEF SettleInv
<1> QED
  BY <1>10, <1>12, <1>13, <1>14 DEF SettleInv, Order

LEMMA SettleSurroundings ==
  ASSUME HomeInv, LocksOwned, SettleInv, Undisturbed, Surroundings
  PROVE  SettleInv'
<1> USE DEF HomeInv
<1>1. ASSUME NEW w \in Workers, NEW e \in Events, Webhook(w, e) PROVE SettleInv'
  BY <1>1, SettleWebhook
<1>2. ASSUME NEW w \in Workers, NEW i \in DOMAIN incoming[w], Handle(w, i)
      PROVE  SettleInv'
  BY <1>2, SettleHandle
<1>3. ASSUME NEW p \in PullRequests, Push(p) \/ Advance(p) PROVE SettleInv'
  <2>1. /\ UNCHANGED <<cluster, incoming, overtaken, queue, pc, next, data, todo, retry>>
        /\ \A r \in PullRequests :
             /\ pulls'[r].open = pulls[r].open
             /\ ~pulls[r].open => pulls'[r].files = pulls[r].files
    <3>1. \A r \in PullRequests : pulls[r] \in PullRequest
      BY DEF TypeOK
    <3>2. CASE Push(p)
      <4>1. PICK files \in SUBSET Apps, behind \in BOOLEAN : PushTo(p, files, behind)
        BY <3>2 DEF Push
      <4> QED
        BY <3>1, <4>1 DEF PushTo, TypeOK, PullRequest
    <3>3. CASE Advance(p)
      BY <3>1, <3>3 DEF Advance, TypeOK, PullRequest
    <3> QED
      BY <1>3, <3>2, <3>3
  <2>2. /\ Order'
        /\ \A r \in PullRequests : ClosingPending(r)' = ClosingPending(r)
    BY <2>1, OrderQuiet DEF SettleInv
  <2>3. ClosingServed'
    <3> SUFFICES ASSUME NEW w \in Workers, pc[w] # "idle", IsClosing(EventOf(w))
                 PROVE  /\ pc[w] \in {"files", "behind", "process", "unlock", "clean"}
                        /\ pc[w] # "files" => data[w].files = pulls'[EventOf(w).pr].files
      BY <2>1 DEF ClosingServed, EventOf
    <3>1. EventOf(w).pr \in PullRequests
      BY BusyType
    <3>2. ~pulls[EventOf(w).pr].open
      BY <3>1 DEF SettleInv, Order, ClosedAwaitsClosing, ClosingPending
    <3> QED
      BY <2>1, <3>1, <3>2 DEF SettleInv, Service, ClosingServed
  <2>4. NothingRepeated' /\ CleanFindsAnnotations'
    BY <2>1 DEF SettleInv, Service, NothingRepeated, CleanFindsAnnotations, IsNext
  <2>5. SettledHoldsNothing'
    BY <2>1, <2>2, SettledStill DEF SettleInv
  <2> QED
    BY <2>2, <2>3, <2>4, <2>5 DEF SettleInv, Service
<1>4. ASSUME NEW a \in Apps, Resync(a) PROVE SettleInv'
  BY <1>4 DEF Resync, Undisturbed
<1>5. ASSUME NEW w \in Workers, Crash(w) PROVE SettleInv'
  BY <1>5 DEF Crash, Undisturbed
<1> QED
  BY <1>1, <1>2, <1>3, <1>4, <1>5 DEF Surroundings

(* An event is taken: it was first in the queue and is in hand now.        *)
LEMMA SettleDequeue ==
  ASSUME TypeOK, SettleInv, Undisturbed, NEW w \in Workers, Dequeue(w)
  PROVE  SettleInv'
<1>1. /\ pc[w] = "idle" /\ queue[w] # <<>>
      /\ queue'[w] = Tail(queue[w])
      /\ next'[w] = Head(queue[w]) /\ pc'[w] = "files"
      /\ UNCHANGED <<cluster, pulls, incoming, overtaken, data, todo, retry>>
      /\ \A v \in Workers : v = w
  BY DEF Dequeue, Goto, TypeOK, Undisturbed
<1> DEFINE e == Head(Queued(w))
<1>2. /\ Queued(w) \in Seq(Event) /\ Queued(w) # <<>>
      /\ Queued(w)' = Tail(Queued(w)) /\ EventOf(w)' = e
  BY <1>1, QueuedType, QueuedTail DEF EventOf
<1> HIDE DEF e
<1>3. \A p \in PullRequests :
        /\ Has(Queued(w), p) <=> e.pr = p \/ Has(Queued(w)', p)
        /\ HasClosing(Queued(w), p) <=>
             (e.pr = p /\ IsClosing(e)) \/ HasClosing(Queued(w)', p)
        /\ LastOf(Queued(w), p) =>
             /\ LastOf(Queued(w)', p)
             /\ e.pr = p /\ IsClosing(e) => ~Has(Queued(w)', p)
  BY <1>2, HasTail DEF e
<1>4. \A p \in PullRequests :
        /\ ~InHand(w, p) /\ ~ClosingInHand(w, p)
        /\ InHand(w, p)' <=> e.pr = p
        /\ ClosingInHand(w, p)' <=> e.pr = p /\ IsClosing(e)
  BY <1>1, <1>2 DEF InHand, ClosingInHand
<1>5. \A p \in PullRequests :
        /\ ClosingPending(p)' <=> ClosingPending(p)
        /\ Waits(p)' <=> Waits(p)
  BY <1>1, <1>3, <1>4, OneReplica, OneReplicaNext
<1>6. ClosingIsLast'
  <2> SUFFICES ASSUME NEW p \in PullRequests \ overtaken
               PROVE  /\ LastOf(incoming[w], p) /\ LastOf(Queued(w)', p)
                      /\ HasClosing(Queued(w)', p) => ~Has(incoming[w], p)
                      /\ ClosingInHand(w, p)' =>
                           ~Has(Queued(w)', p) /\ ~Has(incoming[w], p)
    BY <1>1 DEF ClosingIsLast
  <2>1. /\ LastOf(incoming[w], p) /\ LastOf(Queued(w), p)
        /\ HasClosing(Queued(w), p) => ~Has(incoming[w], p)
    BY DEF SettleInv, Order, ClosingIsLast
  <2> QED
    BY <1>3, <1>4, <2>1
<1>7. ClosedAwaitsClosing'
  BY <1>1, <1>5 DEF SettleInv, Order, ClosedAwaitsClosing
<1>8. Service'
  BY <1>1 DEF SettleInv, Service, ClosingServed, NothingRepeated, CleanFindsAnnotations
<1>9. SettledHoldsNothing'
  BY <1>1, <1>5, SettledStill DEF SettleInv
<1> QED
  BY <1>6, <1>7, <1>8, <1>9 DEF SettleInv, Order

(* An event is done with.  Of a closing one, nothing else waits.           *)
LEMMA SettleEnd ==
  ASSUME TypeOK, SettleInv, Undisturbed, NEW w \in Workers, Continue(w),
         UNCHANGED <<cluster, pulls, incoming, overtaken, queue>>, pc[w] # "idle",
         IsClosing(EventOf(w)) =>
           \A a \in pulls[EventOf(w).pr].files : ~HeldBy(cluster[a], EventOf(w).pr)
  PROVE  SettleInv'
<1>1. /\ pc'[w] = "idle" /\ retry'[w] = FALSE
      /\ \A v \in Workers : v = w
  BY DEF Continue, Goto, TypeOK, Undisturbed
<1>2. /\ Queued(w)' = Queued(w)
      /\ \A p \in PullRequests : ~InHand(w, p)' /\ ~ClosingInHand(w, p)'
  BY <1>1 DEF Queued, InHand, ClosingInHand
<1>3. \A p \in PullRequests :
        /\ ClosingPending(p) <=> ClosingPending(p)' \/ ClosingInHand(w, p)
        /\ Waits(p) <=> Waits(p)' \/ InHand(w, p)
  BY <1>2, OneReplica, OneReplicaNext
<1>4. \A p \in PullRequests \ overtaken : ClosingInHand(w, p) => ~Waits(p)'
  BY <1>2, OneReplicaNext DEF SettleInv, Order, ClosingIsLast
<1>5. ClosingIsLast'
  BY <1>1, <1>2 DEF SettleInv, Order, ClosingIsLast
<1>6. ClosedAwaitsClosing'
  BY <1>3, <1>4 DEF SettleInv, Order, ClosedAwaitsClosing
<1>7. Service'
  BY <1>1 DEF Service, ClosingServed, NothingRepeated, CleanFindsAnnotations
<1>8. SettledHoldsNothing'
  BY <1>3 DEF SettleInv, SettledHoldsNothing, ClosingInHand, InHand
<1> QED
  BY <1>5, <1>6, <1>7, <1>8 DEF SettleInv, Order

(* A step of a worker with an event in hand locks for nobody else, and     *)
(* that pull request still waits for its closing event.                    *)
LEMMA SettleBusy ==
  ASSUME TypeOK, SettleInv, Undisturbed, NEW w \in Workers,
         UNCHANGED <<pulls, incoming, overtaken, queue, next>>,
         pc[w] # "idle", pc'[w] # "idle",
         IsClosing(EventOf(w)) =>
           /\ pc'[w] \in {"files", "behind", "process", "unlock", "clean"}
           /\ pc'[w] # "files" => data'[w].files = pulls[EventOf(w).pr].files,
         ~retry'[w], pc'[w] # "retry",
         \A a \in Apps : pc'[w] = "clean" /\ IsNext(w, a)' => Cleanable(cluster'[a]),
         \A a \in Apps, p \in PullRequests :
           HeldBy(cluster'[a], p) => HeldBy(cluster[a], p) \/ p = EventOf(w).pr
  PROVE  SettleInv'
<1>1. \A v \in Workers : v = w
  BY DEF Undisturbed
<1>2. EventOf(w)' = EventOf(w)
  BY DEF EventOf
<1>3. /\ Order'
      /\ \A p \in PullRequests : ClosingPending(p)' = ClosingPending(p)
  BY <1>1, OrderQuiet DEF SettleInv
<1>4. Service'
  BY <1>1, <1>2 DEF Service, ClosingServed, NothingRepeated, CleanFindsAnnotations
<1>5. Waits(EventOf(w).pr) /\ EventOf(w).pr \in PullRequests
  BY BusyType DEF Waits, InHand
<1>6. \A p \in PullRequests \ overtaken :
        ~pulls[p].open /\ ~ClosingPending(p) => p # EventOf(w).pr
  BY <1>5 DEF SettleInv, Order, ClosedAwaitsClosing
<1>7. \A p \in PullRequests : pulls[p].files \subseteq Apps
  BY DEF TypeOK, PullRequest
<1>8. SettledHoldsNothing'
  BY <1>3, <1>6, <1>7, SettledStill DEF SettleInv
<1> QED
  BY <1>3, <1>4, <1>8 DEF SettleInv

(* A closing event gives back all that its pull request touches.           *)
LEMMA ClosingCovers ==
  ASSUME NEW w \in Workers, IsClosing(EventOf(w))
  PROVE  ActionOf(w).action = "unlock" /\ Covered(w) = data[w].files
<1>1. ActionOf(w) = [action |-> "unlock", env |-> "all"]
  BY DEF ActionOf, getActionFromEvent, IsClosing
<1>2. ActionOf(w).action = "unlock" /\ ActionOf(w).env = "all"
  BY <1>1
<1> QED
  BY <1>2 DEF Covered

LEMMA SettleFetch ==
  ASSUME TypeOK, SettleInv, Undisturbed, NEW w \in Workers,
         GetFilesChanged(w) \/ CompareBranchCommitTotal(w)
  PROVE  SettleInv'
<1>1. /\ UNCHANGED <<cluster, pulls, incoming, overtaken, queue, next, retry>>
      /\ pc[w] \in {"files", "behind"} /\ pc'[w] \in {"behind", "process"}
  BY DEF GetFilesChanged, CompareBranchCommitTotal, Goto, TypeOK
<1>2. data'[w].files = IF pc[w] = "files" THEN pulls[EventOf(w).pr].files
                       ELSE data[w].files
  BY DEF GetFilesChanged, CompareBranchCommitTotal, TypeOK
<1>3. ~retry[w]
  BY DEF SettleInv, Service, NothingRepeated
<1>4. IsClosing(EventOf(w)) =>
        (pc[w] # "files" => data[w].files = pulls[EventOf(w).pr].files)
  BY <1>1 DEF SettleInv, Service, ClosingServed
<1> QED
  BY <1>1, <1>2, <1>3, <1>4, SettleBusy

(* No application found is an app of apps, so no command is put back.      *)
LEMMA SettleProcess ==
  ASSUME HomeInv, LocksOwned, SettleInv, Undisturbed,
         NEW w \in Workers, Process(w)
  PROVE  SettleInv'
<1> USE DEF HomeInv
<1> DEFINE p == EventOf(w).pr
<1>1. /\ UNCHANGED <<cluster, pulls, incoming, overtaken, queue>> /\ pc[w] = "process"
      /\ "apiError" \notin Disturbances
  BY DEF Process, ProcessNothing, ProcessRefused, ProcessLock, ProcessUnlock,
         ProcessNothingLocked, Decide, Undisturbed
<1>2. ~IsAnyContainApps(Found(w)) /\ DOMAIN Found(w) \subseteq Apps
  BY FoundCarries DEF IsAnyContainApps, Undisturbed
<1>3. p \in PullRequests /\ ~retry[w]
  BY <1>1, BusyType DEF SettleInv, Service, NothingRepeated
<1>4. IsClosing(EventOf(w)) =>
        /\ ActionOf(w).action = "unlock"
        /\ Covered(w) = pulls[p].files
  BY <1>1, ClosingCovers DEF SettleInv, Service, ClosingServed
<1>5. CASE pc'[w] = "idle"
  <2>1. /\ Continue(w)
        /\ IsClosing(EventOf(w)) =>
             DOMAIN Found(w) = {} \/ ToUnlock(Found(w), p) = {}
    BY <1>1, <1>4, <1>5 DEF Process, ProcessNothing, ProcessRefused, ProcessLock,
       ProcessUnlock, ProcessNothingLocked, Decide, Goto, TypeOK
  <2>2. IsClosing(EventOf(w)) => \A a \in DOMAIN Found(w) : ~HeldBy(cluster[a], p)
    BY <1>3, <2>1, FoundCarries DEF ToUnlock
  <2>3. IsClosing(EventOf(w)) => \A a \in pulls[p].files : ~HeldBy(cluster[a], p)
    BY <1>4, <2>2, CoveredFound
  <2> QED
    BY <1>1, <2>1, <2>3, SettleEnd
<1>6. CASE pc'[w] # "idle"
  <2>1. /\ UNCHANGED <<next, data>>
        /\ pc'[w] \in {"lock", "unlock", "respond"}
        /\ ~retry'[w]
        /\ ActionOf(w).action = "unlock" /\ IsClosing(EventOf(w)) => pc'[w] = "unlock"
    BY <1>1, <1>2, <1>3, <1>6 DEF Process, ProcessNothing, ProcessRefused, ProcessLock,
       ProcessUnlock, ProcessNothingLocked, Decide, Continue, Goto, TypeOK
  <2>2. IsClosing(EventOf(w)) => data[w].files = pulls[p].files
    BY <1>1 DEF SettleInv, Service, ClosingServed
  <2> QED
    BY <1>1, <1>4, <1>6, <2>1, <2>2, SettleBusy
<1> QED
  BY <1>5, <1>6

(* A call locks for the pull request in hand or frees an application, and  *)
(* Update leaves annotations for Clean.                                    *)
LEMMA SettleCalls ==
  ASSUME LockInv, SettleInv, Undisturbed, NEW w \in Workers, NEW a \in Apps,
         Calls(w, a)
  PROVE  SettleInv'
<1> USE DEF LockInv, HomeInv
<1> DEFINE p == EventOf(w).pr
           locked == ConvertToRequest(Locked(w, a))
           unlocked == ConvertToRequest(unlockApp(apps[w][a]))
<1>1. /\ "apiError" \notin Disturbances
      /\ pc[w] = "clean" /\ IsNext(w, a) => Cleanable(cluster[a])
      /\ ~retry[w]
  BY DEF Undisturbed, SettleInv, Service, CleanFindsAnnotations, NothingRepeated
<1>2. LockApp(w, a) \/ UnlockUpdate(w, a) \/ UnlockClean(w, a)
  BY <1>1 DEF Calls, LockAppFails, UnlockUpdateFails, UnlockCleanFails
<1>3. /\ IsNext(w, a) /\ a \in todo[w]
      /\ UNCHANGED <<pulls, incoming, overtaken, queue, next, data, retry>>
      /\ \/ pc[w] = "lock" /\ pc'[w] = "lock" /\ cluster' = [cluster EXCEPT ![a] = locked]
         \/ /\ pc[w] = "unlock" /\ pc'[w] = "clean" /\ UNCHANGED todo
            /\ cluster' = [cluster EXCEPT ![a] = unlocked]
         \/ /\ pc[w] = "clean" /\ pc'[w] = "unlock"
            /\ cluster' = [cluster EXCEPT ![a] = Clean(cluster[a])]
  BY <1>2 DEF LockApp, UnlockUpdate, UnlockClean, IsNext, Update, Goto, TypeOK
<1>4. /\ pc[w] = "lock" => Holder(locked) \in {NoPullRequest, p}
      /\ pc[w] = "unlock" => Holder(unlocked) = NoPullRequest
      /\ Holder(Clean(cluster[a])) = NoPullRequest
  BY <1>3, CallWrites, CleanedObject DEF TypeOK
<1>5. /\ apps[w][a] \in Application /\ p \in PullRequests
      /\ SourceBranch[p] \in Branches
  BY <1>3, CallTypes, BusyType
<1>6. locked \in Object /\ unlocked \in Object /\ Clean(cluster[a]) \in Object
  BY <1>5, RequestType, lockAppType, unlockAppType, CleanType
     DEF Locked, BranchNames, PullRequestIds, TypeOK
<1>7. Cleanable(unlocked)
  BY DEF Cleanable, ConvertToRequest
<1> HIDE DEF locked, unlocked
<1>8. ASSUME NEW b \in Apps, NEW q \in PullRequests, HeldBy(cluster'[b], q)
      PROVE  HeldBy(cluster[b], q) \/ q = p
  <2>1. CASE b # a
    BY <1>3, <1>8, <2>1 DEF TypeOK
  <2>2. CASE b = a
    <3>1. cluster'[a] \in Object /\ Holder(cluster'[a]) \in {NoPullRequest, p}
      BY <1>3, <1>4, <1>6 DEF TypeOK
    <3> QED
      BY <1>8, <2>2, <3>1, HeldByHolder, ApplicationAssumption DEF NoPullRequest
  <2> QED
    BY <2>1, <2>2
<1>9. \A b \in Apps : pc'[w] = "clean" /\ IsNext(w, b)' => Cleanable(cluster'[b])
  <2> SUFFICES ASSUME NEW b \in Apps, pc'[w] = "clean", IsNext(w, b)'
               PROVE  Cleanable(cluster'[b])
    OBVIOUS
  <2>1. UNCHANGED todo /\ cluster' = [cluster EXCEPT ![a] = unlocked]
    BY <1>3
  <2>2. b <= a /\ a <= b
    BY <1>3, <2>1 DEF IsNext
  <2>3. a = b
    BY <2>2, ApplicationAssumption DEF Apps
  <2> QED
    BY <1>7, <2>1, <2>3 DEF TypeOK
<1>10. IsClosing(EventOf(w)) =>
         /\ pc[w] # "lock"
         /\ pc[w] # "files" => data[w].files = pulls[p].files
  BY <1>3 DEF SettleInv, Service, ClosingServed
<1> QED
  BY <1>1, <1>3, <1>8, <1>9, <1>10, SettleBusy

(* The end of a command: all that a closing event covers has been freed.   *)
LEMMA SettleOther ==
  ASSUME LockInv, ReplyInv, SettleInv, Undisturbed, NEW w \in Workers,
         LockDone(w) \/ UnlockDone(w) \/ Requeue(w) \/ responseProvider(w)
  PROVE  SettleInv'
<1> USE DEF LockInv, HomeInv
<1> DEFINE p == EventOf(w).pr
<1>1. ~retry[w] /\ pc[w] # "retry"
  BY DEF SettleInv, Service, NothingRepeated
<1>2. IsClosing(EventOf(w)) /\ pc[w] # "idle" =>
        /\ pc[w] \in {"files", "behind", "process", "unlock", "clean"}
        /\ pc[w] # "files" => data[w].files = pulls[p].files
  BY DEF SettleInv, Service, ClosingServed
<1>3. CASE LockDone(w)
  <2>1. /\ pc[w] = "lock" /\ pc'[w] = "respond"
        /\ UNCHANGED <<cluster, pulls, incoming, overtaken, queue, next, data, retry>>
    BY <1>1, <1>3 DEF LockDone, Goto, TypeOK
  <2> QED
    BY <1>1, <1>2, <2>1, SettleBusy
<1>4. CASE UnlockDone(w) /\ IsClosing(EventOf(w))
  <2>1. /\ pc[w] = "unlock" /\ todo[w] = {} /\ Continue(w)
        /\ UNCHANGED <<cluster, pulls, incoming, overtaken, queue>>
    BY <1>4 DEF UnlockDone
  <2>2. \A a \in Covered(w) : Done(w, a)
    BY <2>1 DEF ReplyInv, WorkOf
  <2>3. ActionOf(w).action = "unlock" /\ Covered(w) = pulls[p].files
    BY <1>2, <1>4, <2>1, ClosingCovers
  <2>4. \A a \in pulls[p].files : ~HeldBy(cluster[a], p)
    BY <2>2, <2>3 DEF Done
  <2> QED
    BY <2>1, <2>4, SettleEnd
<1>5. CASE UnlockDone(w) /\ ~IsClosing(EventOf(w))
  <2>1. /\ pc[w] = "unlock" /\ pc'[w] = "respond"
        /\ UNCHANGED <<cluster, pulls, incoming, overtaken, queue, next, data, retry>>
    BY <1>5 DEF UnlockDone, Goto, TypeOK
  <2> QED
    BY <1>1, <1>5, <2>1, SettleBusy
<1>6. CASE responseProvider(w)
  <2>1. /\ pc[w] = "respond" /\ Continue(w)
        /\ UNCHANGED <<cluster, pulls, incoming, overtaken, queue>>
    BY <1>6 DEF responseProvider
  <2> QED
    BY <1>2, <2>1, SettleEnd
<1> QED
  BY <1>1, <1>3, <1>4, <1>5, <1>6 DEF Requeue

LEMMA SettleStep ==
  ASSUME LockInv, ReplyInv, SettleInv, Undisturbed, [Next]_vars
  PROVE  SettleInv'
<1> USE DEF LockInv, HomeInv
<1>1. CASE Surroundings
  BY <1>1, SettleSurroundings
<1>2. ASSUME NEW w \in Workers, Start(w) PROVE SettleInv'
  <2>1. ~GetDataFails(w)
    BY DEF GetDataFails, Undisturbed
  <2> QED
    BY <1>2, <2>1, SettleDequeue, SettleFetch, SettleProcess, SettleCalls, SettleOther
       DEF Start
<1>3. CASE UNCHANGED vars
  <2>1. UNCHANGED <<cluster, pulls, incoming, overtaken, queue, pc, next, data, todo, retry>>
    BY <1>3 DEF vars
  <2>2. /\ Order'
        /\ \A p \in PullRequests : ClosingPending(p)' = ClosingPending(p)
    BY <2>1, OrderQuiet DEF SettleInv
  <2>3. Service'
    BY <2>1 DEF SettleInv, Service, ClosingServed, NothingRepeated,
                CleanFindsAnnotations, IsNext, EventOf
  <2>4. SettledHoldsNothing'
    BY <2>1, <2>2, SettledStill DEF SettleInv
  <2> QED
    BY <2>2, <2>3, <2>4 DEF SettleInv
<1> QED
  BY <1>1, <1>2, <1>3 DEF Next

(* With one replica, no failures, no comments on closed pull requests and  *)
(* no app of apps: once the closing event of a pull request has gone       *)
(* through the queue, no application of its final diff is locked to it any *)
(* more, whatever commands waited before it and whatever was pushed.       *)
THEOREM ClosedHoldsNothing ==
  ASSUME Undisturbed
  PROVE  Spec => []SettledHoldsNothing
<1>1. \A v, w \in Workers : v = w
  BY DEF Undisturbed
<1>2. Init => SettleInv
  BY SettleInit
<1>3. LockInv /\ ReplyInv /\ SettleInv /\ [Next]_vars => SettleInv'
  BY SettleStep
<1>4. SettleInv => SettledHoldsNothing
  BY DEF SettleInv
<1>5. Spec => []LockInv /\ []ReplyInv
  BY <1>1, LockInvariant, ReplyInvariant
<1> QED
  BY <1>2, <1>3, <1>4, <1>5, PTL DEF Spec

-----------------------------------------------------------------------------
(* What a rollback frees while no push changes a diff.                     *)

DiffsFixed == \A p \in PullRequests : pulls[p].files = Touches[p]

(* What GetData has read is the diff, or nothing at all after the third    *)
(* attempt; and with nothing, no application is found.                     *)
FilesRead ==
  \A w \in Workers :
    /\ pc[w] \in {"idle", "files"} => data[w].files = {}
    /\ pc[w] = "process" => data[w].files \in {{}, Touches[EventOf(w).pr]}
    /\ pc[w] \notin {"idle", "files", "process"} =>
         data[w].files = Touches[EventOf(w).pr]
    /\ todo[w] \subseteq data[w].files

LocksTouched ==
  \A a \in Apps, p \in PullRequests : HeldBy(cluster[a], p) => a \in Touches[p]

TouchInv == DiffsFixed /\ FilesRead /\ LocksTouched

(* Whoever is locked anew is touched.                                      *)
LEMMA LocksTouchedStill ==
  ASSUME LocksTouched,
         \A a \in Apps, p \in PullRequests :
           HeldBy(cluster'[a], p) => HeldBy(cluster[a], p) \/ a \in Touches[p]
  PROVE  LocksTouched'
BY DEF LocksTouched

LEMMA FilesReadStill ==
  ASSUME TypeOK, FilesRead, NEW w \in Workers,
         \A v \in Workers \ {w} : UNCHANGED <<pc[v], next[v], data[v], todo[v]>>,
         /\ pc'[w] \in {"idle", "files"} => data'[w].files = {}
         /\ pc'[w] = "process" => data'[w].files \in {{}, Touches[EventOf(w)'.pr]}
         /\ pc'[w] \notin {"idle", "files", "process"} =>
              data'[w].files = Touches[EventOf(w)'.pr]
         /\ todo'[w] \subseteq data'[w].files
  PROVE  FilesRead'
BY DEF FilesRead, EventOf

LEMMA TouchSurroundings ==
  ASSUME LockInv, TouchInv, "push" \notin Disturbances, Surroundings
  PROVE  TouchInv'
<1> USE DEF LockInv, HomeInv
<1>1. ASSUME UNCHANGED <<cluster, pc, next, data, todo>>,
             \A p \in PullRequests : pulls'[p].files = pulls[p].files
      PROVE  TouchInv'
  BY <1>1 DEF TouchInv, DiffsFixed, FilesRead, LocksTouched, EventOf
<1>2. ASSUME NEW w \in Workers, NEW e \in Events, Webhook(w, e) PROVE TouchInv'
  <2>1. PICK late \in SUBSET Overtaken(e) :
          pulls' = [p \in PullRequests |->
                      [pulls[p] EXCEPT !.open = @ /\ ~(p = e.pr /\ IsClosing(e)),
                                       !.behind = @ \/ p \in late]]
    BY <1>2 DEF Webhook, Happened
  <2>2. \A p \in PullRequests : pulls'[p].files = pulls[p].files
    <3> TAKE p \in PullRequests
    <3>1. pulls[p] \in PullRequest
      BY DEF TypeOK
    <3> DEFINE open == pulls[p].open /\ ~(p = e.pr /\ IsClosing(e))
               behind == pulls[p].behind \/ p \in late
    <3>2. pulls'[p] = [pulls[p] EXCEPT !.open = open, !.behind = behind]
      BY <2>1
    <3> HIDE DEF open, behind
    <3> QED
      BY <3>1, <3>2 DEF PullRequest
  <2> QED
    BY <1>1, <1>2, <2>2, SMTT(40) DEF Webhook
<1>3. ASSUME NEW w \in Workers, NEW i \in DOMAIN incoming[w], Handle(w, i)
      PROVE  TouchInv'
  BY <1>1, <1>3 DEF Handle
<1>4. ASSUME NEW p \in PullRequests, Push(p) PROVE TouchInv'
  BY <1>4 DEF Push, PushTo
<1>5. ASSUME NEW p \in PullRequests, Advance(p) PROVE TouchInv'
  <2>1. \A r \in PullRequests : pulls[r] \in PullRequest
    BY DEF TypeOK
  <2>2. \A r \in PullRequests : pulls'[r].files = pulls[r].files
    BY <1>5, <2>1 DEF Advance, TypeOK, PullRequest
  <2> QED
    BY <1>1, <1>5, <2>2 DEF Advance
<1>6. ASSUME NEW a \in Apps, Resync(a) PROVE TouchInv'
  <2> DEFINE obj == [cluster[a] EXCEPT !.targetRevision = Home[a]]
  <2>1. cluster' = [cluster EXCEPT ![a] = obj] /\ cluster[a] \in Object
    BY <1>6 DEF Resync, TypeOK
  <2>2. Holder(obj) = NoPullRequest /\ obj \in Object
    BY <2>1, ResyncedObject, ApplicationAssumption
       DEF HomeRecoverable, LocksOwned, Object, BranchNames
  <2> HIDE DEF obj
  <2>3. \A p \in PullRequests : ~HeldBy(obj, p)
    BY <2>2, HeldByHolder, ApplicationAssumption DEF NoPullRequest
  <2>4. LocksTouched'
    BY <2>1, <2>3, LocksTouchedStill DEF TouchInv, TypeOK
  <2>5. DiffsFixed' /\ FilesRead'
    BY <1>6 DEF Resync, TouchInv, DiffsFixed, FilesRead, EventOf
  <2> QED
    BY <2>4, <2>5 DEF TouchInv
<1>7. ASSUME NEW w \in Workers, Crash(w) PROVE TouchInv'
  <2>1. /\ UNCHANGED <<cluster, pulls>>
        /\ pc'[w] = "idle" /\ data'[w] = NoData /\ todo'[w] = {}
        /\ \A v \in Workers \ {w} : UNCHANGED <<pc[v], next[v], data[v], todo[v]>>
    BY <1>7 DEF Crash, Continue, Goto, TypeOK
  <2>2. FilesRead'
    BY <2>1, FilesReadStill DEF TouchInv, NoData
  <2> QED
    BY <2>1, <2>2 DEF TouchInv, DiffsFixed, LocksTouched
<1> QED
  BY <1>2, <1>3, <1>4, <1>5, <1>6, <1>7 DEF Surroundings

LEMMA TouchQuiet ==
  ASSUME LockInv, TouchInv, NEW w \in Workers,
         \/ Dequeue(w) \/ GetFilesChanged(w) \/ CompareBranchCommitTotal(w)
         \/ GetDataFails(w) \/ Process(w)
         \/ LockDone(w) \/ UnlockDone(w) \/ Requeue(w) \/ responseProvider(w)
  PROVE  TouchInv'
<1> USE DEF LockInv, HomeInv
<1> DEFINE kept == /\ UNCHANGED <<cluster, pulls>>
                   /\ \A v \in Workers \ {w} :
                        UNCHANGED <<pc[v], next[v], data[v], todo[v]>>
                   /\ pc'[w] \in {"idle", "files"} => data'[w].files = {}
                   /\ pc'[w] = "process" =>
                        data'[w].files \in {{}, Touches[EventOf(w)'.pr]}
                   /\ pc'[w] \notin {"idle", "files", "process"} =>
                        data'[w].files = Touches[EventOf(w)'.pr]
                   /\ todo'[w] \subseteq data'[w].files
<1>1. /\ pc[w] \in {"idle", "files"} => data[w].files = {}
      /\ pc[w] = "process" => data[w].files \in {{}, Touches[EventOf(w).pr]}
      /\ pc[w] \notin {"idle", "files", "process"} =>
           data[w].files = Touches[EventOf(w).pr]
      /\ todo[w] \subseteq data[w].files
      /\ pc[w] \notin {"lock", "unlock", "clean"} => todo[w] = {}
      /\ pc[w] # "idle" => pulls[EventOf(w).pr].files = Touches[EventOf(w).pr]
  BY BusyType DEF TouchInv, FilesRead, DiffsFixed, TypeOK
<1>2. ASSUME Dequeue(w) \/ GetFilesChanged(w) \/ CompareBranchCommitTotal(w)
      PROVE  kept
  BY <1>1, <1>2 DEF Dequeue, GetFilesChanged, CompareBranchCommitTotal, Goto,
                    EventOf, TypeOK
<1>3. ASSUME GetDataFails(w) PROVE kept
  BY <1>1, <1>3 DEF GetDataFails, Goto, EventOf, NoData, TypeOK
<1>4. ASSUME Continue(w), UNCHANGED <<cluster, pulls>> PROVE kept
  BY <1>4 DEF Continue, Goto, NoData, TypeOK
<1>5. ASSUME Process(w), pc'[w] # "idle" PROVE kept
  <2>1. /\ pc[w] = "process" /\ DOMAIN Found(w) # {}
        /\ UNCHANGED <<cluster, pulls, next, data>>
        /\ pc'[w] \notin {"idle", "files", "process"}
        /\ todo'[w] \in {{}, ToLock(Found(w)), ToUnlock(Found(w), EventOf(w).pr)}
        /\ \A v \in Workers \ {w} : UNCHANGED <<pc[v], todo[v]>>
    BY <1>1, <1>5, ZenonT(40) DEF Process, ProcessNothing, ProcessRefused, ProcessLock,
       ProcessUnlock, ProcessNothingLocked, Decide, Continue, Goto, TypeOK
  <2>2. DOMAIN Found(w) \subseteq data[w].files
    BY CoveredFound DEF Covered
  <2>3. todo'[w] \subseteq data[w].files
    BY <2>1, <2>2 DEF ToLock, ToUnlock
  <2>4. data[w].files = Touches[EventOf(w).pr]
    BY <1>1, <2>1, <2>2
  <2> QED
    BY <2>1, <2>3, <2>4 DEF EventOf
<1>6. ASSUME Process(w), pc'[w] = "idle" PROVE kept
  <2>1. Continue(w) /\ UNCHANGED <<cluster, pulls>>
    BY <1>6 DEF Process, ProcessNothing, ProcessRefused, ProcessLock,
       ProcessUnlock, ProcessNothingLocked, Decide, Goto, TypeOK
  <2> QED
    BY <1>4, <2>1
<1>7. ASSUME LockDone(w) \/ UnlockDone(w) \/ Requeue(w) \/ responseProvider(w)
      PROVE  kept
  BY <1>1, <1>4, <1>7 DEF LockDone, UnlockDone, Requeue, responseProvider, Goto,
                          EventOf, TypeOK
<1>8. kept
  BY <1>2, <1>3, <1>5, <1>6, <1>7
<1>9. FilesRead'
  BY <1>8, FilesReadStill DEF TouchInv
<1> QED
  BY <1>8, <1>9 DEF TouchInv, DiffsFixed, LocksTouched

LEMMA TouchCalls ==
  ASSUME LockInv, TouchInv, NEW w \in Workers, NEW a \in Apps, Calls(w, a)
  PROVE  TouchInv'
<1> USE DEF LockInv, HomeInv
<1> DEFINE p == EventOf(w).pr
           locked == ConvertToRequest(Locked(w, a))
           unlocked == ConvertToRequest(unlockApp(apps[w][a]))
<1>1. /\ a \in todo[w] /\ pc[w] \in {"lock", "unlock", "clean"}
      /\ UNCHANGED <<pulls, next, data>>
      /\ todo'[w] \subseteq todo[w]
      /\ pc'[w] \notin {"idle", "files", "process"}
      /\ \A v \in Workers \ {w} : UNCHANGED <<pc[v], todo[v]>>
  BY DEF Calls, LockApp, LockAppFails, UnlockUpdate, UnlockUpdateFails, UnlockClean,
         UnlockCleanFails, IsNext, Fail, Goto, TypeOK
<1>2. \/ UNCHANGED cluster
      \/ pc[w] = "lock" /\ cluster' = [cluster EXCEPT ![a] = locked]
      \/ pc[w] = "unlock" /\ cluster' = [cluster EXCEPT ![a] = unlocked]
      \/ cluster' = [cluster EXCEPT ![a] = Clean(cluster[a])]
  BY DEF Calls, LockApp, LockAppFails, UnlockUpdate, UnlockUpdateFails, UnlockClean,
         UnlockCleanFails, Update, MayUpdate
<1>3. /\ pc[w] = "lock" => Holder(locked) \in {NoPullRequest, p}
      /\ pc[w] = "unlock" => Holder(unlocked) = NoPullRequest
      /\ Holder(Clean(cluster[a])) = NoPullRequest
  BY <1>1, CallWrites, CleanedObject DEF TypeOK
<1>4. /\ apps[w][a] \in Application /\ p \in PullRequests
      /\ SourceBranch[p] \in Branches
  BY <1>1, CallTypes, BusyType
<1>5. locked \in Object /\ unlocked \in Object /\ Clean(cluster[a]) \in Object
  BY <1>4, RequestType, lockAppType, unlockAppType, CleanType
     DEF Locked, BranchNames, PullRequestIds, TypeOK
<1> HIDE DEF locked, unlocked
<1>6. a \in Touches[p] /\ data[w].files = Touches[p] /\ todo[w] \subseteq Touches[p]
  BY <1>1 DEF TouchInv, FilesRead
<1>7. ASSUME NEW b \in Apps, NEW q \in PullRequests, HeldBy(cluster'[b], q)
      PROVE  HeldBy(cluster[b], q) \/ b \in Touches[q]
  <2>1. CASE b # a \/ UNCHANGED cluster
    BY <1>2, <1>7, <2>1 DEF TypeOK
  <2>2. CASE b = a /\ cluster' # cluster
    <3>1. cluster'[a] \in Object /\ Holder(cluster'[a]) \in {NoPullRequest, p}
      BY <1>2, <1>3, <1>5, <2>2 DEF TypeOK
    <3> QED
      BY <1>6, <1>7, <2>2, <3>1, HeldByHolder, ApplicationAssumption DEF NoPullRequest
  <2> QED
    BY <2>1, <2>2
<1>8. LocksTouched'
  BY <1>7, LocksTouchedStill DEF TouchInv
<1>9. FilesRead'
  <2>1. EventOf(w)'.pr = p
    BY <1>1 DEF EventOf
  <2> QED
    BY <1>1, <1>6, <2>1, FilesReadStill DEF TouchInv
<1> QED
  BY <1>1, <1>8, <1>9 DEF TouchInv, DiffsFixed

(* With one replica, and while no push changes a diff, a rollback that is  *)
(* reported a success has freed every application of its environment, also *)
(* after crashes, failed calls and interrupted commands.                   *)
THEOREM RollbacksFreeAll ==
  ASSUME \A v, w \in Workers : v = w, "push" \notin Disturbances
  PROVE  Spec => []RollbackFreesAll
<1>1. Init => TouchInv
  <2> SUFFICES ASSUME Init PROVE TouchInv
    OBVIOUS
  <2>1. DiffsFixed /\ FilesRead
    BY DEF Init, DiffsFixed, FilesRead, NoData
  <2>2. \A a \in Apps, p \in PullRequests : ~HeldBy(cluster[a], p)
    BY DEF Init, HeldBy, Sanitize, ConvertToApplication, Untouched
  <2> QED
    BY <2>1, <2>2 DEF TouchInv, LocksTouched
<1>2. LockInv /\ TouchInv /\ [Next]_vars => TouchInv'
  <2> SUFFICES ASSUME LockInv, TouchInv, [Next]_vars PROVE TouchInv'
    OBVIOUS
  <2>1. CASE Surroundings
    BY <2>1, TouchSurroundings
  <2>2. ASSUME NEW w \in Workers, Start(w) PROVE TouchInv'
    BY <2>2, TouchQuiet, TouchCalls DEF Start
  <2>3. CASE UNCHANGED vars
    BY <2>3 DEF vars, TouchInv, DiffsFixed, FilesRead, LocksTouched, EventOf
  <2> QED
    BY <2>1, <2>2, <2>3 DEF Next
<1>3. LockInv /\ ReplyInv /\ TouchInv => RollbackFreesAll
  <2> SUFFICES ASSUME LockInv, ReplyInv, TouchInv, NEW w \in Workers,
                      pc[w] = "respond", ActionOf(w).action = "unlock",
                      resp[w].Success, NEW a \in Apps,
                      ActionOf(w).env \in {"all", Environment[a]}
               PROVE  ~HeldBy(cluster[a], EventOf(w).pr)
    BY DEF RollbackFreesAll
  <2>1. EventOf(w).pr \in PullRequests
    BY BusyType DEF LockInv, HomeInv
  <2>2. \A b \in Covered(w) : ~HeldBy(cluster[b], EventOf(w).pr)
    BY DEF ReplyInv, WorkOf, Done
  <2>3. data[w].files = Touches[EventOf(w).pr]
    BY DEF TouchInv, FilesRead
  <2> QED
    BY <2>1, <2>2, <2>3 DEF TouchInv, LocksTouched, Covered
<1> QED
  BY <1>1, <1>2, <1>3, LockInvariant, ReplyInvariant, PTL DEF Spec
=============================================================================
