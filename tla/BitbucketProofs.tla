-------------------------- MODULE BitbucketProofs --------------------------
(***************************************************************************)
(* Theorems about the worker with Bitbucket, for any number of replicas,   *)
(* reviewers and files: what a deploy command must have passed when a lock *)
(* is made, and that Bitbucket adds nothing to the worker's own steps.     *)
(***************************************************************************)
EXTENDS Bitbucket, WorkerProofs, PathMatchProofs, FiniteSetTheorems

-----------------------------------------------------------------------------
(* All steps are steps of the worker.                                      *)

LEMMA SentIsKnown ==
  ASSUME BitbucketTypeOK, NEW p \in PullRequests, NEW key \in Keys,
         NEW comment \in Comments \union {NoComment}
  PROVE  ParseEvent(Payload(key, p, comment, opinion[p])) \in Events
BY BitbucketAssumption DEF BitbucketTypeOK

LEMMA WorkerStep ==
  ASSUME BitbucketTypeOK, [BitbucketNext]_bitbucketVars
  PROVE  [Next]_vars
<1>1. ASSUME NEW w \in Workers, NEW p \in PullRequests, NEW key \in Keys,
             NEW comment \in Comments \union {NoComment},
             Send(w, p, key, comment)
      PROVE  Next
  BY <1>1, SentIsKnown DEF Send, Next, Surroundings
<1>2. ASSUME NEW p \in PullRequests, NEW u \in Users, Review(p, u)
      PROVE  UNCHANGED vars
  BY <1>2 DEF Review
<1>3. ASSUME NEW p \in PullRequests, PushFiles(p) PROVE Next
  <2>1. PICK d \in Diffs, behind \in BOOLEAN : PushTo(p, Matches[d], behind)
    BY <1>3 DEF PushFiles
  <2>2. Matches[d] \in SUBSET Apps
    BY DEF Matches, Matched, AllDiffs
  <2> QED
    BY <2>1, <2>2 DEF Push, Next, Surroundings
<1>4. ASSUME Others PROVE Next
  BY <1>4 DEF Others, Next, Surroundings
<1>5. ASSUME UNCHANGED bitbucketVars PROVE UNCHANGED vars
  BY <1>5 DEF bitbucketVars
<1> QED
  BY <1>1, <1>2, <1>3, <1>4, <1>5 DEF BitbucketNext

LEMMA BitbucketTypes == BitbucketInit => BitbucketTypeOK
<1> SUFFICES ASSUME BitbucketInit PROVE BitbucketTypeOK
  OBVIOUS
<1>1. \A p \in PullRequests : opinion[p] \in [Users -> Opinions]
  BY DEF BitbucketInit, Opinions
<1>2. diff \in [PullRequests -> AllDiffs]
  BY BitbucketAssumption DEF BitbucketInit
<1> QED
  BY <1>1, <1>2 DEF BitbucketInit, BitbucketTypeOK

LEMMA BitbucketTypeStep ==
  ASSUME BitbucketTypeOK, [BitbucketNext]_bitbucketVars
  PROVE  BitbucketTypeOK'
<1>1. CASE BitbucketNext
  <2>1. fresh' \in [Workers -> BOOLEAN]
    BY <1>1 DEF BitbucketNext, KeepFresh
  <2>2. opinion' \in [PullRequests -> [Users -> Opinions]]
    <3>1. ASSUME NEW p \in PullRequests, NEW u \in Users, Review(p, u)
          PROVE  opinion' \in [PullRequests -> [Users -> Opinions]]
      <4>1. PICK o \in Opinions : opinion' = [opinion EXCEPT ![p][u] = o]
        BY <3>1 DEF Review
      <4>2. [opinion[p] EXCEPT ![u] = o] \in [Users -> Opinions]
        BY DEF BitbucketTypeOK
      <4> QED
        BY <4>1, <4>2 DEF BitbucketTypeOK
    <3>2. ASSUME ~(\E p \in PullRequests, u \in Users : Review(p, u))
          PROVE  UNCHANGED opinion
      BY <1>1, <3>2 DEF BitbucketNext, Send, PushFiles, Others
    <3> QED
      BY <3>1, <3>2 DEF BitbucketTypeOK
  <2>3. diff' \in [PullRequests -> AllDiffs]
    BY <1>1 DEF BitbucketNext, BitbucketTypeOK, Send, Review, PushFiles, Others, AllDiffs
  <2>4. vouched' \subseteq PullRequests
    BY <1>1 DEF BitbucketNext, BitbucketTypeOK, Send, Review, PushFiles, Others
  <2> QED
    BY <2>1, <2>2, <2>3, <2>4 DEF BitbucketTypeOK
<1>2. CASE UNCHANGED bitbucketVars
  BY <1>2 DEF bitbucketVars, BitbucketTypeOK
<1> QED
  BY <1>1, <1>2

(* The worker with Bitbucket is the worker: whatever Worker promises of    *)
(* events and diffs that come from anywhere holds for those that come from *)
(* payloads, reviews and files.                                            *)
THEOREM BitbucketImplementsWorker == BitbucketSpec => Spec
<1>1. BitbucketInit => Init
  BY DEF BitbucketInit
<1>2. BitbucketTypeOK /\ [BitbucketNext]_bitbucketVars => BitbucketTypeOK' /\ [Next]_vars
  BY WorkerStep, BitbucketTypeStep
<1> QED
  BY <1>1, <1>2, BitbucketTypes, PTL DEF BitbucketSpec, Spec

-----------------------------------------------------------------------------
(* Branches that are up to date.                                           *)

(* What the comparison said of the branch was true when it was made.       *)
FreshInv ==
  \A w \in Workers :
    /\ pc[w] = "process" /\ ~data[w].behind => fresh[w]
    /\ pc[w] = "lock" => fresh[w]

(* A worker that goes on keeps what it knows.                              *)
LEMMA FreshKept ==
  ASSUME BitbucketTypeOK, KeepFresh, NEW w \in Workers, fresh[w], pc'[w] # "idle"
  PROVE  fresh'[w]
BY DEF KeepFresh, BitbucketTypeOK

LEMMA FreshQuiet ==
  ASSUME BitbucketTypeOK, KeepFresh, FreshInv, NEW w \in Workers,
         UNCHANGED <<pc[w], data[w]>>
  PROVE  /\ pc'[w] = "process" /\ ~data'[w].behind => fresh'[w]
         /\ pc'[w] = "lock" => fresh'[w]
BY FreshKept DEF FreshInv

LEMMA FreshWorker ==
  ASSUME TypeOK, BitbucketTypeOK, KeepFresh, FreshInv, "apiError" \notin Disturbances,
         NEW w \in Workers, Start(w)
  PROVE  /\ pc'[w] = "process" /\ ~data'[w].behind => fresh'[w]
         /\ pc'[w] = "lock" => fresh'[w]
<1>1. CASE CompareBranchCommitTotal(w)
  <2>1. /\ pc'[w] = "process"
        /\ data'[w].behind = pulls'[next'[w].event.pr].behind
    BY <1>1 DEF CompareBranchCommitTotal, EventOf, Goto, TypeOK
  <2> QED
    BY <2>1 DEF KeepFresh
<1>2. CASE ProcessLock(w)
  <2>1. pc[w] = "process" /\ pc'[w] # "process" /\ pc'[w] # "idle"
    BY <1>2 DEF ProcessLock, Decide, Goto, TypeOK
  <2>2. ~data[w].behind
    BY <1>2 DEF ProcessLock, Refusal
  <2> QED
    BY <2>1, <2>2, FreshKept DEF FreshInv
<1>3. CASE Process(w) /\ ~ProcessLock(w)
  <2>1. pc'[w] \notin {"process", "lock"}
    BY <1>3 DEF Process, ProcessNothing, ProcessRefused, ProcessUnlock,
       ProcessNothingLocked, Decide, Continue, Goto, TypeOK
  <2> QED
    BY <2>1
<1>4. ASSUME NEW a \in Apps, Calls(w, a)
      PROVE  pc'[w] # "process" /\ (pc'[w] = "lock" => pc[w] = "lock")
  BY <1>4 DEF Calls, LockApp, LockAppFails, UnlockUpdate, UnlockUpdateFails,
              UnlockClean, UnlockCleanFails, Fail, Goto, TypeOK
<1>5. CASE \E a \in Apps : Calls(w, a)
  BY <1>4, <1>5, FreshKept DEF FreshInv
<1>6. CASE Dequeue(w) \/ GetFilesChanged(w) \/ LockDone(w) \/ UnlockDone(w)
           \/ Requeue(w) \/ responseProvider(w)
  <2>1. pc'[w] \notin {"process", "lock"}
    BY <1>6 DEF Dequeue, GetFilesChanged, LockDone, UnlockDone, Requeue,
       responseProvider, Continue, Goto, TypeOK
  <2> QED
    BY <2>1
<1>7. ~GetDataFails(w)
  BY DEF GetDataFails
<1> QED
  BY <1>1, <1>2, <1>3, <1>5, <1>6, <1>7 DEF Start

(* The steps of one worker leave the others where they are.                *)
LEMMA OtherWorkers ==
  ASSUME TypeOK, NEW w \in Workers, Start(w) \/ Crash(w), NEW v \in Workers \ {w}
  PROVE  UNCHANGED <<pc[v], next[v], data[v], apps[v], todo[v], queue[v], incoming[v]>>
<1>1. CASE Crash(w)
  BY <1>1 DEF Crash, Continue, Goto, TypeOK
<1>2. CASE Dequeue(w) \/ GetFilesChanged(w) \/ CompareBranchCommitTotal(w)
           \/ GetDataFails(w) \/ LockDone(w) \/ UnlockDone(w) \/ Requeue(w)
           \/ responseProvider(w)
  BY <1>2 DEF Dequeue, GetFilesChanged, CompareBranchCommitTotal, GetDataFails,
     LockDone, UnlockDone, Requeue, responseProvider, Continue, Goto, TypeOK
<1>3. CASE Process(w)
  BY <1>3, ZenonT(40)
     DEF Process, ProcessNothing, ProcessRefused, ProcessLock, ProcessUnlock,
     ProcessNothingLocked, Decide, Continue, Goto, TypeOK
<1>4. ASSUME NEW a \in Apps, Calls(w, a)
      PROVE  UNCHANGED <<pc[v], next[v], data[v], apps[v], todo[v], queue[v], incoming[v]>>
  BY <1>4 DEF Calls, LockApp, LockAppFails, UnlockUpdate, UnlockUpdateFails,
              UnlockClean, UnlockCleanFails, Fail, Goto, TypeOK
<1> QED
  BY <1>1, <1>2, <1>3, <1>4 DEF Start

LEMMA FreshStep ==
  ASSUME TypeOK, BitbucketTypeOK, FreshInv, "apiError" \notin Disturbances,
         [BitbucketNext]_bitbucketVars
  PROVE  FreshInv'
<1>1. CASE UNCHANGED bitbucketVars
  BY <1>1 DEF bitbucketVars, vars, FreshInv
<1>2. CASE BitbucketNext
  <2>1. KeepFresh
    BY <1>2 DEF BitbucketNext
  <2>2. CASE UNCHANGED <<pc, data>>
    BY <2>1, <2>2, FreshQuiet DEF FreshInv
  <2>3. ASSUME NEW w \in Workers, Start(w) PROVE FreshInv'
    BY <2>1, <2>3, FreshWorker, FreshQuiet, OtherWorkers DEF FreshInv
  <2>4. ASSUME NEW w \in Workers, Crash(w) PROVE FreshInv'
    <3>1. pc'[w] = "idle"
      BY <2>4 DEF Crash, Continue, Goto, TypeOK
    <3> QED
      BY <2>1, <2>4, <3>1, FreshQuiet, OtherWorkers DEF FreshInv
  <2>5. ASSUME ~(\E w \in Workers : Crash(w) \/ Start(w)) PROVE UNCHANGED <<pc, data>>
    BY <1>2, <2>5, ZenonT(40)
     DEF BitbucketNext, Send, Webhook, Handle, Review, vars, PushFiles, PushTo,
       Others, Advance, Resync
  <2> QED
    BY <2>2, <2>3, <2>4, <2>5
<1> QED
  BY <1>1, <1>2

(* When the git provider answers, applications are locked only for a       *)
(* branch that was up to date at some moment since the worker took the     *)
(* command, with any number of replicas, whatever is merged meanwhile.     *)
(* (When its calls fail it is not so: see Bitbucket_behind.cfg.)           *)
THEOREM LocksUpToDate ==
  ASSUME "apiError" \notin Disturbances
  PROVE  BitbucketSpec => []LockedUpToDate
<1>1. BitbucketInit => FreshInv
  BY DEF BitbucketInit, Init, FreshInv
<1>2. TypeOK /\ BitbucketTypeOK /\ FreshInv /\ [BitbucketNext]_bitbucketVars => FreshInv'
  BY FreshStep
<1>3. BitbucketTypeOK /\ [BitbucketNext]_bitbucketVars => BitbucketTypeOK'
  BY BitbucketTypeStep
<1>4. FreshInv => LockedUpToDate
  BY DEF FreshInv, LockedUpToDate
<1> QED
  BY <1>1, <1>2, <1>3, <1>4, BitbucketTypes, BitbucketImplementsWorker, TypeCorrect, PTL
     DEF BitbucketSpec

-----------------------------------------------------------------------------
(* Reviews.                                                                *)

(* An event that would lock is one that was written when it might.         *)
Vouched(e) ==
  getActionFromEvent(e).action = "lock" /\ Refusal(e, FALSE) = "" => e.pr \in vouched

Pending(w) ==
  /\ \A i \in 1 .. Len(incoming[w]) : Vouched(incoming[w][i])
  /\ \A i \in 1 .. Len(queue[w]) : Vouched(queue[w][i].event)
  /\ pc[w] # "idle" => Vouched(EventOf(w))

Locking(w) ==
  pc[w] = "lock" => /\ EventOf(w).pr \in vouched
                    /\ \A a \in todo[w] : ~apps[w][a].Locked

VouchInv == LockedWhenReviewed /\ \A w \in Workers : Pending(w) /\ Locking(w)

LEMMA CountsTrue ==
  ASSUME BitbucketTypeOK, NEW p \in PullRequests
  PROVE  LET counted(states) == Asked(Participants(p, opinion[p]), states)
         IN /\ counted({"changes_requested"}) \in Nat
            /\ counted({"changes_requested"}) = 0 =>
                 \A u \in Reviewers[p] : opinion[p][u] # "changes_requested"
            /\ counted(Opinions) = 0 => Reviewers[p] = {}
            /\ counted({"approved"}) # 0 =>
                 \E u \in Reviewers[p] : opinion[p][u] = "approved"
<1> DEFINE some(states) == {u \in Users : u \in Reviewers[p] /\ opinion[p][u] \in states}
<1>1. \A states : Asked(Participants(p, opinion[p]), states) = Cardinality(some(states))
  <2>1. \A states : some(states) =
          {u \in Users : /\ Participants(p, opinion[p])[u].role = "REVIEWER"
                         /\ Participants(p, opinion[p])[u].state \in states}
    BY DEF Participants
  <2> QED
    BY <2>1 DEF Asked, Participants
<1>2. \A states : IsFiniteSet(some(states))
  <2>1. \A states : some(states) \subseteq Users
    OBVIOUS
  <2> QED
    BY <2>1, BitbucketAssumption, FS_Subset
<1>3. \A states : Cardinality(some(states)) \in Nat /\
                  (Cardinality(some(states)) = 0 <=> some(states) = {})
  BY <1>2, FS_CardinalityType, FS_EmptySet
<1>4. Reviewers[p] \subseteq Users /\ opinion[p] \in [Users -> Opinions]
  BY BitbucketAssumption DEF BitbucketTypeOK
<1>5. /\ some({"changes_requested"}) = {} =>
           \A u \in Reviewers[p] : opinion[p][u] # "changes_requested"
      /\ some(Opinions) = {} => Reviewers[p] = {}
      /\ some({"approved"}) # {} => \E u \in Reviewers[p] : opinion[p][u] = "approved"
  BY <1>4
<1> HIDE DEF some
<1>6. ASSUME NEW states
      PROVE  LET count == Asked(Participants(p, opinion[p]), states)
             IN count \in Nat /\ (count = 0 <=> some(states) = {})
  BY <1>1, <1>3
<1> QED
  BY <1>5, <1>6

LEMMA SentIsVouched ==
  ASSUME BitbucketTypeOK, NEW w \in Workers, NEW p \in PullRequests, NEW key \in Keys,
         NEW comment \in Comments \union {NoComment}, Send(w, p, key, comment),
         NEW e, e = ParseEvent(Payload(key, p, comment, opinion[p]))
  PROVE  Vouched(e)'
<1> DEFINE participants == Participants(p, opinion[p])
<1>1. /\ e.pr = p
      /\ e.command = IF Readable(comment) THEN comment.command ELSE "none"
      /\ e.reviewers = Asked(participants, Opinions)
      /\ e.approved = Asked(participants, {"approved"})
      /\ e.requestChanged = Asked(participants, {"changes_requested"})
  BY DEF ParseEvent, Payload
<1>2. ASSUME getActionFromEvent(e).action = "lock", Refusal(e, FALSE) = ""
      PROVE  p \in vouched'
  <2>1. e.command = "lock"
    BY <1>2 DEF getActionFromEvent
  <2>2. comment.command = "lock" /\ Readable(comment)
    BY <1>1, <2>1
  <2>3. ~(e.approved = 0 /\ e.reviewers # 0) /\ ~(e.requestChanged > 0)
    BY <1>2 DEF Refusal
  <2>4. Reviewed(p)
    BY <1>1, <2>3, CountsTrue DEF Reviewed
  <2> QED
    BY <2>2, <2>4 DEF Send
<1> QED
  BY <1>1, <1>2 DEF Vouched

LEMMA VouchedStays ==
  ASSUME [BitbucketNext]_bitbucketVars
  PROVE  vouched \subseteq vouched'
BY DEF BitbucketNext, Send, Review, PushFiles, Others, bitbucketVars

(* What does not move stays vouched for.                                   *)
LEMMA VouchQuiet ==
  ASSUME vouched \subseteq vouched', NEW w \in Workers, Pending(w), Locking(w),
         UNCHANGED <<pc[w], next[w], apps[w], todo[w], queue[w], incoming[w]>>
  PROVE  Pending(w)' /\ Locking(w)'
BY DEF Pending, Locking, Vouched, EventOf

LEMMA LocksQuiet ==
  ASSUME vouched \subseteq vouched', LockedWhenReviewed,
         \A a \in Apps, p \in PullRequests : CarriesLock(a, p)' => CarriesLock(a, p)
  PROVE  LockedWhenReviewed'
BY DEF LockedWhenReviewed

LEMMA VouchSend ==
  ASSUME TypeOK, BitbucketTypeOK, VouchInv, vouched \subseteq vouched',
         NEW w \in Workers, NEW p \in PullRequests, NEW key \in Keys,
         NEW comment \in Comments \union {NoComment}, Send(w, p, key, comment)
  PROVE  VouchInv'
<1>1. PICK e \in Events : e = ParseEvent(Payload(key, p, comment, opinion[p]))
  BY SentIsKnown
<1>2. \A f : Vouched(f) => Vouched(f)'
  BY DEF Vouched
<1>3. Vouched(e)'
  BY <1>1, SentIsVouched
<1>4. Webhook(w, e)
  BY <1>1 DEF Send
<1>5. /\ incoming'[w] = Append(incoming[w], e)
      /\ \A v \in Workers \ {w} : incoming'[v] = incoming[v]
      /\ UNCHANGED <<cluster, queue, pc, next, apps, todo>>
  BY <1>4 DEF Webhook, TypeOK
<1>6. \A i \in 1 .. Len(incoming'[w]) :
        IF i <= Len(incoming[w])
        THEN i \in 1 .. Len(incoming[w]) /\ incoming'[w][i] = incoming[w][i]
        ELSE incoming'[w][i] = e
  <2>1. incoming[w] \in Seq(Events)
    BY DEF TypeOK
  <2> QED
    BY <1>5, <2>1, AppendProperties
<1>7. \A i \in 1 .. Len(incoming'[w]) : Vouched(incoming[w][i])'
  <2>1. \A i \in 1 .. Len(incoming[w]) : Vouched(incoming[w][i])
    BY DEF VouchInv, Pending
  <2> QED
    BY <1>3, <1>6, <2>1 DEF Vouched
<1>8. Pending(w)'
  BY <1>5, <1>7 DEF VouchInv, Pending, EventOf, Vouched
<1>9. Locking(w)'
  BY <1>5 DEF VouchInv, Locking, EventOf
<1>10. LockedWhenReviewed'
  BY <1>5, LocksQuiet DEF VouchInv, CarriesLock
<1> QED
  BY <1>5, <1>8, <1>9, <1>10, VouchQuiet DEF VouchInv

LEMMA VouchHandle ==
  ASSUME TypeOK, VouchInv, vouched \subseteq vouched',
         NEW w \in Workers, NEW i \in DOMAIN incoming[w], Handle(w, i)
  PROVE  VouchInv'
<1> DEFINE item == [event |-> incoming[w][i], run |-> 1]
<1>1. /\ incoming'[w] = Seqs!RemoveAt(incoming[w], i)
      /\ queue'[w] = Append(queue[w], item)
      /\ \A v \in Workers \ {w} : UNCHANGED <<incoming[v], queue[v]>>
      /\ UNCHANGED <<cluster, pc, next, apps, todo>>
  BY DEF Handle, TypeOK
<1>2. incoming[w] \in Seq(Events) /\ i \in 1 .. Len(incoming[w])
  BY LenProperties DEF TypeOK
<1>3. queue[w] \in Seq(Item) /\ item \in Item /\ item.event = incoming[w][i]
  <2>1. incoming[w][i] \in Events
    BY <1>2, ElementOfSeq
  <2>2. 1 \in 1 .. MaxRun
    BY WorkerAssumption
  <2>3. item \in Item
    BY <2>1, <2>2, EventAssumption DEF Item
  <2> QED
    BY <2>3 DEF TypeOK
<1> HIDE DEF item
<1>4. /\ \A j \in 1 .. Len(incoming[w]) : Vouched(incoming[w][j])
      /\ \A j \in 1 .. Len(queue[w]) : Vouched(queue[w][j].event)
  BY DEF VouchInv, Pending
<1>5. ASSUME NEW j \in 1 .. Len(incoming'[w]) PROVE Vouched(incoming[w][j])'
  <2>1. Len(incoming[w]) \in Nat /\ Len(incoming'[w]) = Len(incoming[w]) - 1
    BY <1>1, <1>2, RemoveAtProperties, LenProperties
  <2>2. j \in 1 .. Len(incoming[w]) - 1
    BY <1>5, <2>1
  <2>3. incoming'[w][j] = incoming[w][IF j < i THEN j ELSE j + 1]
    BY <1>1, <1>2, <2>2, RemoveAtProperties
  <2>4. (IF j < i THEN j ELSE j + 1) \in 1 .. Len(incoming[w])
    BY <1>2, <2>1, <2>2
  <2> QED
    BY <1>4, <2>3, <2>4 DEF Vouched
<1>6. \A j \in 1 .. Len(queue'[w]) :
        IF j <= Len(queue[w]) THEN j \in 1 .. Len(queue[w]) /\ queue'[w][j] = queue[w][j]
        ELSE queue'[w][j] = item
  BY <1>1, <1>3, AppendProperties
<1>7. \A j \in 1 .. Len(queue'[w]) : Vouched(queue[w][j].event)'
  BY <1>2, <1>3, <1>4, <1>6 DEF Vouched
<1>8. Pending(w)'
  BY <1>1, <1>5, <1>7 DEF VouchInv, Pending, EventOf, Vouched
<1>9. Locking(w)'
  BY <1>1 DEF VouchInv, Locking, EventOf
<1>10. LockedWhenReviewed'
  BY <1>1, LocksQuiet DEF VouchInv, CarriesLock
<1> QED
  BY <1>1, <1>8, <1>9, <1>10, VouchQuiet DEF VouchInv

LEMMA VouchFetch ==
  ASSUME TypeOK, VouchInv, vouched \subseteq vouched', NEW w \in Workers,
         \/ Dequeue(w) \/ GetFilesChanged(w) \/ CompareBranchCommitTotal(w)
         \/ GetDataFails(w) \/ LockDone(w) \/ UnlockDone(w) \/ responseProvider(w)
         \/ Crash(w)
  PROVE  UNCHANGED cluster /\ Pending(w)' /\ Locking(w)'
<1>1. UNCHANGED cluster /\ pc'[w] # "lock"
  BY DEF Dequeue, GetFilesChanged, CompareBranchCommitTotal, GetDataFails, LockDone,
     UnlockDone, responseProvider, Crash, Continue, Goto, TypeOK
<1>2. \A i \in 1 .. Len(incoming'[w]) : Vouched(incoming[w][i])'
  <2>1. \A i \in 1 .. Len(incoming[w]) : Vouched(incoming[w][i])
    BY DEF VouchInv, Pending
  <2>2. CASE incoming'[w] = incoming[w]
    BY <2>1, <2>2 DEF Vouched
  <2>3. CASE incoming'[w] = <<>>
    <3>1. Len(<<>>) = 0
      OBVIOUS
    <3> QED
      BY <2>3, <3>1
  <2>4. incoming'[w] = incoming[w] \/ incoming'[w] = <<>>
    BY DEF Dequeue, GetFilesChanged, CompareBranchCommitTotal, GetDataFails, LockDone,
       UnlockDone, responseProvider, Crash, TypeOK
  <2> QED
    BY <2>2, <2>3, <2>4
<1>3. CASE Dequeue(w)
  <2>1. /\ queue[w] \in Seq(Item) /\ queue[w] # <<>>
        /\ queue'[w] = Tail(queue[w])
        /\ next'[w] = queue[w][1]
    BY <1>3 DEF Dequeue, TypeOK
  <2>2. /\ Len(queue'[w]) = Len(queue[w]) - 1 /\ Len(queue[w]) \in Nat \ {0}
        /\ \A i \in 1 .. Len(queue'[w]) : queue'[w][i] = queue[w][i + 1]
    BY <2>1, HeadTailProperties
  <2>3. \A i \in 1 .. Len(queue[w]) : Vouched(queue[w][i].event)
    BY DEF VouchInv, Pending
  <2>4. \A i \in 1 .. Len(queue'[w]) : Vouched(queue[w][i].event)'
    <3>1. \A i \in 1 .. Len(queue'[w]) : i + 1 \in 1 .. Len(queue[w])
      BY <2>2
    <3>2. ASSUME NEW i \in 1 .. Len(queue'[w])
          PROVE  /\ queue'[w][i] = queue[w][i + 1]
                 /\ Vouched(queue[w][i + 1].event)
      BY <2>2, <2>3, <3>1
    <3> QED
      BY <3>2 DEF Vouched
  <2>5. Vouched(EventOf(w))'
    <3>1. 1 \in 1 .. Len(queue[w])
      BY <2>2
    <3>2. Vouched(queue[w][1].event)
      BY <2>3, <3>1
    <3> QED
      BY <2>1, <3>2 DEF Vouched, EventOf
  <2> QED
    BY <1>1, <1>2, <2>4, <2>5 DEF Pending, Locking
<1>4. CASE ~Dequeue(w)
  <2>1. \/ queue'[w] = queue[w]
        \/ queue'[w] = <<>>
    BY <1>4 DEF GetFilesChanged, CompareBranchCommitTotal, GetDataFails, LockDone,
       UnlockDone, responseProvider, Crash, TypeOK
  <2>2. pc'[w] # "idle" => pc[w] # "idle" /\ next'[w] = next[w]
    BY <1>4 DEF GetFilesChanged, CompareBranchCommitTotal, GetDataFails, LockDone,
       UnlockDone, responseProvider, Crash, Continue, Goto, TypeOK
  <2>3. Len(<<>>) = 0
    OBVIOUS
  <2>4. \A i \in 1 .. Len(queue'[w]) : Vouched(queue[w][i].event)'
    <3>1. \A i \in 1 .. Len(queue[w]) : Vouched(queue[w][i].event)
      BY DEF VouchInv, Pending
    <3>2. CASE queue'[w] = queue[w]
      BY <3>1, <3>2 DEF Vouched
    <3>3. CASE queue'[w] = <<>>
      BY <2>3, <3>3
    <3> QED
      BY <2>1, <3>2, <3>3
  <2>5. pc'[w] # "idle" => Vouched(EventOf(w))'
    BY <2>2 DEF VouchInv, Pending, Vouched, EventOf
  <2> QED
    BY <1>1, <1>2, <2>4, <2>5 DEF Pending, Locking
<1> QED
  BY <1>1, <1>3, <1>4

LEMMA VouchRequeue ==
  ASSUME TypeOK, VouchInv, vouched \subseteq vouched', NEW w \in Workers, Requeue(w)
  PROVE  UNCHANGED cluster /\ Pending(w)' /\ Locking(w)'
<1> DEFINE run == IF next[w].run < MaxRun THEN next[w].run + 1 ELSE MaxRun
           item == [next[w] EXCEPT !.run = run]
<1>1. /\ UNCHANGED <<cluster, next, incoming>> /\ pc'[w] = "respond" /\ pc[w] = "retry"
      /\ queue'[w] = Append(queue[w], item)
  BY DEF Requeue, Goto, TypeOK
<1>2. next[w] \in Item /\ queue[w] \in Seq(Item)
  BY <1>1 DEF TypeOK
<1>3. item \in Item /\ item.event = EventOf(w)
  BY <1>2, WorkerAssumption DEF Item, EventOf
<1> HIDE DEF item
<1>4. \A i \in 1 .. Len(queue'[w]) :
        IF i <= Len(queue[w]) THEN i \in 1 .. Len(queue[w]) /\ queue'[w][i] = queue[w][i]
        ELSE queue'[w][i] = item
  BY <1>1, <1>2, <1>3, AppendProperties
<1>5. /\ Vouched(EventOf(w))
      /\ \A i \in 1 .. Len(queue[w]) : Vouched(queue[w][i].event)
      /\ \A i \in 1 .. Len(incoming[w]) : Vouched(incoming[w][i])
  BY <1>1 DEF VouchInv, Pending
<1>6. \A i \in 1 .. Len(queue'[w]) : Vouched(queue[w][i].event)'
  BY <1>3, <1>4, <1>5 DEF Vouched
<1> QED
  BY <1>1, <1>5, <1>6 DEF Pending, Locking, Vouched, EventOf

LEMMA VouchProcess ==
  ASSUME TypeOK, VouchInv, vouched \subseteq vouched', NEW w \in Workers, Process(w)
  PROVE  UNCHANGED cluster /\ Pending(w)' /\ Locking(w)'
<1>1. UNCHANGED <<cluster, queue, incoming>> /\ pc[w] = "process"
  BY DEF Process, ProcessNothing, ProcessRefused, ProcessLock, ProcessUnlock,
     ProcessNothingLocked, Decide
<1>2. pc'[w] # "idle" => UNCHANGED next
  BY DEF Process, ProcessNothing, ProcessRefused, ProcessLock, ProcessUnlock,
     ProcessNothingLocked, Decide, Continue, Goto, TypeOK
<1>3. Pending(w)'
  BY <1>1, <1>2 DEF VouchInv, Pending, Vouched, EventOf
<1>4. ASSUME pc'[w] = "lock" PROVE Locking(w)'
  <2>1. /\ apps'[w] = Found(w) /\ todo'[w] = ToLock(Found(w)) /\ UNCHANGED next
        /\ ActionOf(w).action = "lock"
        /\ Refusal(EventOf(w), data[w].behind) = ""
    BY <1>4 DEF Process, ProcessNothing, ProcessRefused, ProcessLock, ProcessUnlock,
       ProcessNothingLocked, Decide, Continue, Goto, TypeOK
  <2>2. Refusal(EventOf(w), FALSE) = ""
    BY <2>1 DEF Refusal
  <2>3. EventOf(w).pr \in vouched
    BY <1>1, <2>1, <2>2 DEF VouchInv, Pending, Vouched, ActionOf
  <2> QED
    BY <2>1, <2>3 DEF Locking, ToLock, EventOf
<1> QED
  BY <1>1, <1>3, <1>4 DEF Locking

LEMMA VouchCalls ==
  ASSUME TypeOK, VouchInv, vouched \subseteq vouched', NEW w \in Workers,
         NEW a \in Apps, Calls(w, a)
  PROVE  LockedWhenReviewed' /\ Pending(w)' /\ Locking(w)'
<1> DEFINE p == EventOf(w).pr
           locked == ConvertToRequest(Locked(w, a))
           unlocked == ConvertToRequest(unlockApp(apps[w][a]))
<1>1. /\ UNCHANGED <<next, queue, incoming, apps>>
      /\ a \in todo[w] /\ todo'[w] \subseteq todo[w]
      /\ pc[w] # "idle"
      /\ pc'[w] = "lock" => pc[w] = "lock"
  BY DEF Calls, LockApp, LockAppFails, UnlockUpdate, UnlockUpdateFails, UnlockClean,
         UnlockCleanFails, Fail, IsNext, Goto, TypeOK
<1>2. Pending(w)' /\ Locking(w)'
  BY <1>1 DEF VouchInv, Pending, Locking, Vouched, EventOf
<1>3. pc[w] = "lock" => locked.pullRequest = p /\ p \in vouched
  BY <1>1 DEF VouchInv, Locking, Locked, lockApp, ConvertToRequest
<1>4. unlocked.locked # "true" /\ Clean(cluster[a]).locked # "true"
  BY DEF unlockApp, ConvertToRequest, Clean, TypeOK, Object
<1> HIDE DEF locked, unlocked
<1>5. \/ UNCHANGED cluster
      \/ pc[w] = "lock" /\ cluster' = [cluster EXCEPT ![a] = locked]
      \/ cluster' = [cluster EXCEPT ![a] = unlocked]
      \/ cluster' = [cluster EXCEPT ![a] = Clean(cluster[a])]
  BY DEF Calls, LockApp, LockAppFails, UnlockUpdate, UnlockUpdateFails, UnlockClean,
         UnlockCleanFails, Update, MayUpdate, locked, unlocked
<1>6. \A b \in Apps, q \in PullRequests :
        CarriesLock(b, q)' => CarriesLock(b, q) \/ q \in vouched
  BY <1>3, <1>4, <1>5 DEF CarriesLock, TypeOK
<1>7. LockedWhenReviewed'
  BY <1>6 DEF VouchInv, LockedWhenReviewed
<1> QED
  BY <1>2, <1>7

LEMMA VouchStep ==
  ASSUME TypeOK, BitbucketTypeOK, VouchInv, [BitbucketNext]_bitbucketVars
  PROVE  VouchInv'
<1>1. vouched \subseteq vouched'
  BY VouchedStays
<1>2. ASSUME UNCHANGED <<pc, next, apps, todo, queue, incoming>>,
             \A a \in Apps, p \in PullRequests : CarriesLock(a, p)' => CarriesLock(a, p)
      PROVE  VouchInv'
  BY <1>1, <1>2, VouchQuiet, LocksQuiet DEF VouchInv
<1>3. UNCHANGED cluster =>
        \A a \in Apps, p \in PullRequests : CarriesLock(a, p)' => CarriesLock(a, p)
  BY DEF CarriesLock
<1>4. ASSUME NEW w \in Workers, Start(w) \/ Crash(w) PROVE VouchInv'
  <2>1. \A v \in Workers \ {w} : Pending(v)' /\ Locking(v)'
    BY <1>1, <1>4, OtherWorkers, VouchQuiet DEF VouchInv
  <2>2. LockedWhenReviewed' /\ Pending(w)' /\ Locking(w)'
    <3>1. CASE \E a \in Apps : Calls(w, a)
      BY <1>1, <3>1, VouchCalls
    <3>2. CASE ~(\E a \in Apps : Calls(w, a))
      <4>1. UNCHANGED cluster /\ Pending(w)' /\ Locking(w)'
        BY <1>1, <1>4, <3>2, VouchFetch, VouchRequeue, VouchProcess DEF Start
      <4> QED
        BY <1>1, <1>3, <4>1, LocksQuiet DEF VouchInv
    <3> QED
      BY <3>1, <3>2
  <2> QED
    BY <2>1, <2>2 DEF VouchInv
<1>5. ASSUME NEW a \in Apps, Resync(a) PROVE VouchInv'
  <2>1. \A b \in Apps : /\ cluster'[b].locked = cluster[b].locked
                        /\ cluster'[b].pullRequest = cluster[b].pullRequest
    BY <1>5 DEF Resync, TypeOK, Object
  <2> QED
    BY <1>2, <1>5, <2>1 DEF Resync, CarriesLock
<1>6. ASSUME NEW p \in PullRequests, PushFiles(p) \/ Advance(p) PROVE VouchInv'
  BY <1>2, <1>3, <1>6 DEF PushFiles, PushTo, Advance
<1>7. ASSUME UNCHANGED vars PROVE VouchInv'
  BY <1>2, <1>3, <1>7 DEF vars
<1>8. ASSUME NEW w \in Workers, NEW p \in PullRequests, NEW key \in Keys,
             NEW comment \in Comments \union {NoComment}, Send(w, p, key, comment)
      PROVE  VouchInv'
  BY <1>1, <1>8, VouchSend
<1>9. ASSUME NEW w \in Workers, NEW i \in DOMAIN incoming[w], Handle(w, i)
      PROVE  VouchInv'
  BY <1>1, <1>9, VouchHandle
<1> QED
  BY <1>4, <1>5, <1>6, <1>7, <1>8, <1>9
     DEF BitbucketNext, Review, Others, bitbucketVars

(* With any number of replicas, whatever fails, stops or is repeated, an   *)
(* application carries only the lock of a pull request for which a deploy  *)
(* command was written while its reviewers allowed it.                     *)
THEOREM LocksReviewed == BitbucketSpec => []LockedWhenReviewed
<1>1. BitbucketInit => VouchInv
  <2> SUFFICES ASSUME BitbucketInit PROVE VouchInv
    OBVIOUS
  <2>1. \A w \in Workers : Len(queue[w]) = 0 /\ Len(incoming[w]) = 0 /\ pc[w] = "idle"
    BY DEF BitbucketInit, Init
  <2> QED
    BY <2>1 DEF BitbucketInit, Init, VouchInv, LockedWhenReviewed, CarriesLock,
                Untouched, Pending, Locking
<1>2. TypeOK /\ BitbucketTypeOK /\ VouchInv /\ [BitbucketNext]_bitbucketVars => VouchInv'
  BY VouchStep
<1>3. BitbucketTypeOK /\ [BitbucketNext]_bitbucketVars => BitbucketTypeOK'
  BY BitbucketTypeStep
<1>4. VouchInv => LockedWhenReviewed
  BY DEF VouchInv
<1> QED
  BY <1>1, <1>2, <1>3, <1>4, BitbucketTypes, BitbucketImplementsWorker, TypeCorrect, PTL
     DEF BitbucketSpec

-----------------------------------------------------------------------------
(* The files of a diff and the applications.                               *)

(* A file in a directory is one on the way to which the directory is.      *)
LEMMA InDirectoryPasses ==
  ASSUME Slash \in Characters, NEW file \in Text, NEW path \in Text,
         IsPath(file), IsPath(path), InDirectory(file, path)
  PROVE  PassesThrough(file, path)
<1> DEFINE N == Names(file)
           M == Names(path)
<1>1. N \in Seq(Text) /\ M \in Seq(Text)
  BY CleanSpells
<1>2. Len(M) <= Len(N) /\ SubSeq(M, 1, Len(M)) = SubSeq(N, 1, Len(M))
  BY DEF InDirectory, Seqs!IsPrefix
<1> HIDE DEF N, M
<1>3. Len(M) \in Nat /\ Len(N) \in Nat
  BY <1>1, LenProperties
<1>4. SubSeq(M, 1, Len(M)) = M
  BY <1>1, <1>3
<1>5. 0 \in 0 .. Len(N) - Len(M) /\ 0 + 1 = 1 /\ 0 + Len(M) = Len(M)
  BY <1>2, <1>3
<1>6. SubSeq(N, 0 + 1, 0 + Len(M)) = M
  BY <1>2, <1>4, <1>5
<1> QED
  BY <1>5, <1>6 DEF PassesThrough, ContainsText, N, M

(* The first page of a diff, and all of a diff that is no longer.          *)
LEMMA FirstPageOf ==
  ASSUME NEW d \in AllDiffs
  PROVE  /\ FilesChanged(d) \subseteq FilesOf(d)
         /\ Len(d) <= PageLen => FilesChanged(d) = FilesOf(d)
<1>1. d \in Seq(Seqs!ToSet(d)) /\ PageLen \in Nat
  BY BitbucketAssumption
<1>2. Len(d) \in Nat /\ DOMAIN d = 1 .. Len(d)
  BY <1>1, LenProperties
<1>3. Seqs!ToSet(d) = {d[i] : i \in 1 .. Len(d)}
  BY <1>2 DEF Seqs!ToSet
<1>4. FirstPage(d) \subseteq Seqs!ToSet(d)
  BY <1>1, <1>2, <1>3 DEF FirstPage
<1>5. Len(d) <= PageLen => FirstPage(d) = Seqs!ToSet(d)
  BY <1>1, <1>2, <1>3 DEF FirstPage
<1> QED
  BY <1>4, <1>5 DEF FilesChanged, FilesOf

(* What a diff matches, in names.                                          *)
LEMMA MatchedInNames ==
  ASSUME Slash \in Characters, FilesNamed \subseteq Text, PathsNamed \subseteq Text,
         TextsArePaths, NEW d \in AllDiffs
  PROVE  /\ Matches[d] \subseteq Passed[d]
         /\ Len(d) <= PageLen => Related[d] \subseteq Matches[d]
<1>1. ASSUME NEW a \in Apps, NEW path \in Paths(Manifests[a]) PROVE path \in Text /\ IsPath(path)
  BY DEF PathsNamed, TextsArePaths
<1>2. ASSUME NEW file \in FilesChanged(d)
      PROVE  file \in Text /\ (file # <<>> => IsPath(file))
  BY DEF FilesNamed, TextsArePaths
<1>3. Matches[d] = Matched(FilesChanged(d))
  BY DEF Matches
<1>4. ASSUME NEW a \in Matches[d] PROVE a \in Passed[d]
  <2>1. /\ a \in Apps /\ Manifests[a].repository = Repository
        /\ \E file \in FilesChanged(d), path \in Paths(Manifests[a]) :
             ContainsText(cleanPaths(file), cleanPaths(path))
    BY <1>3, <1>4 DEF Matched, matchAppByRepoAndFiles
  <2>2. PICK file \in FilesChanged(d), path \in Paths(Manifests[a]) :
          ContainsText(cleanPaths(file), cleanPaths(path))
    BY <2>1
  <2>3. path \in Text /\ IsPath(path) /\ file \in Text
    BY <1>1, <1>2, <2>1
  <2>4. file # <<>>
    BY <2>2, <2>3, NothingInNone DEF IsPath
  <2>5. PassesThrough(file, path)
    BY <1>2, <2>2, <2>3, <2>4, SearchIsOfNames
  <2>6. file \in FilesOf(d) \ {<<>>}
    BY <2>4, FirstPageOf
  <2> QED
    BY <2>1, <2>5, <2>6 DEF Passed, AppsWith
<1>5. ASSUME Len(d) <= PageLen, NEW a \in Related[d] PROVE a \in Matches[d]
  <2>1. /\ a \in Apps /\ Manifests[a].repository = Repository
        /\ \E file \in FilesOf(d) \ {<<>>}, path \in Paths(Manifests[a]) :
             InDirectory(file, path)
    BY <1>5 DEF Related, AppsWith
  <2>2. PICK file \in FilesOf(d) \ {<<>>}, path \in Paths(Manifests[a]) :
          InDirectory(file, path)
    BY <2>1
  <2>3. file \in FilesChanged(d)
    BY <1>5, FirstPageOf
  <2>4. path \in Text /\ IsPath(path) /\ file \in Text /\ IsPath(file)
    BY <1>1, <1>2, <2>1, <2>3
  <2>5. ContainsText(cleanPaths(file), cleanPaths(path))
    BY <2>2, <2>4, InDirectoryPasses, SearchIsOfNames
  <2> QED
    BY <1>3, <2>1, <2>3, <2>5 DEF Matched, matchAppByRepoAndFiles
<1> QED
  BY <1>4, <1>5

(* What a pull request touches is what its diff matches, in every step.    *)
FilesOfDiff == \A p \in PullRequests : pulls[p].files = Matches[diff[p]]

LEMMA FilesOfDiffStep ==
  ASSUME TypeOK, BitbucketTypeOK, FilesOfDiff, [BitbucketNext]_bitbucketVars
  PROVE  FilesOfDiff'
<1>1. ASSUME UNCHANGED diff,
             \A p \in PullRequests : pulls'[p].files = pulls[p].files
      PROVE  FilesOfDiff'
  BY <1>1 DEF FilesOfDiff
<1>2. \A p \in PullRequests : pulls[p] \in PullRequest
  BY DEF TypeOK
<1>3. ASSUME NEW w \in Workers, NEW p \in PullRequests, NEW key \in Keys,
             NEW comment \in Comments \union {NoComment},
             Send(w, p, key, comment)
      PROVE  FilesOfDiff'
  <2>1. UNCHANGED diff
    BY <1>3 DEF Send
  <2>2. \A q \in PullRequests : pulls'[q].files = pulls[q].files
    <3>1. PICK e : Webhook(w, e)
      BY <1>3, SMTT(40) DEF Send
    <3>2. PICK late \in SUBSET Overtaken(e) :
            pulls' = [q \in PullRequests |->
                        [pulls[q] EXCEPT !.open = @ /\ ~(q = e.pr /\ IsClosing(e)),
                                          !.behind = @ \/ q \in late]]
      BY <3>1 DEF Webhook, Happened
    <3> TAKE q \in PullRequests
    <3>3. pulls[q] \in PullRequest
      BY <1>2
    <3>4. pulls'[q] = [pulls[q] EXCEPT !.open = @ /\ ~(q = e.pr /\ IsClosing(e)),
                                       !.behind = @ \/ q \in late]
      BY <3>2
    <3> QED
      BY <3>3, <3>4, Zenon DEF PullRequest
  <2> QED
    BY <1>1, <2>1, <2>2
<1>4. ASSUME NEW p \in PullRequests, PushFiles(p) PROVE FilesOfDiff'
  <2>1. PICK d \in Diffs, behind \in BOOLEAN :
          PushTo(p, Matches[d], behind) /\ diff' = [diff EXCEPT ![p] = d]
    BY <1>4 DEF PushFiles
  <2>2. pulls' = [pulls EXCEPT ![p].files = Matches[d], ![p].behind = behind]
    BY <2>1 DEF PushTo
  <2>3. pulls'[p].files = Matches[d] /\ diff'[p] = d
    BY <1>2, <2>1, <2>2 DEF TypeOK, BitbucketTypeOK, PullRequest
  <2>4. \A q \in PullRequests \ {p} : pulls'[q] = pulls[q] /\ diff'[q] = diff[q]
    BY <2>1, <2>2 DEF TypeOK, BitbucketTypeOK
  <2> QED
    BY <2>3, <2>4 DEF FilesOfDiff
<1>5. ASSUME Others PROVE FilesOfDiff'
  <2>1. UNCHANGED diff
    BY <1>5 DEF Others
  <2>2. ASSUME NEW p \in PullRequests, Advance(p)
        PROVE  \A q \in PullRequests : pulls'[q].files = pulls[q].files
    BY <1>2, <2>2 DEF Advance, PullRequest, TypeOK
  <2>3. ASSUME NEW a \in Apps, Resync(a) PROVE UNCHANGED pulls
    BY <2>3 DEF Resync
  <2>4. ASSUME NEW w \in Workers, Crash(w) \/ Start(w) PROVE UNCHANGED pulls
    BY <2>4 DEF Crash, Start, Dequeue, GetFilesChanged, CompareBranchCommitTotal,
       GetDataFails, LockDone, UnlockDone, Requeue, responseProvider, Process,
       ProcessNothing, ProcessRefused, ProcessLock, ProcessUnlock,
       ProcessNothingLocked, Decide, Calls, LockApp, LockAppFails, UnlockUpdate,
       UnlockUpdateFails, UnlockClean, UnlockCleanFails, Fail
  <2>5. ASSUME NEW w \in Workers, NEW i \in DOMAIN incoming[w], Handle(w, i)
        PROVE  UNCHANGED pulls
    BY <2>5 DEF Handle
  <2> QED
    BY <1>1, <1>5, <2>1, <2>2, <2>3, <2>4, <2>5 DEF Others
<1>6. ASSUME UNCHANGED <<vars, diff>> PROVE FilesOfDiff'
  BY <1>1, <1>6 DEF vars
<1> QED
  BY <1>3, <1>4, <1>5, <1>6 DEF BitbucketNext, Review, bitbucketVars

(* When files and applications are named by paths in the usual notation, a *)
(* command finds no application whose path is nowhere in that of a file of *)
(* the diff, and misses none that a file of the diff is in, or was in      *)
(* before it moved, if the diff comes with one answer, whatever is pushed. *)
THEOREM FilesFound ==
  ASSUME Slash \in Characters, FilesNamed \subseteq Text, PathsNamed \subseteq Text,
         TextsArePaths
  PROVE  BitbucketSpec => []RelatedFound
<1>1. BitbucketInit => FilesOfDiff
  <2> SUFFICES ASSUME BitbucketInit, NEW p \in PullRequests
               PROVE  pulls[p].files = Matches[diff[p]]
    BY DEF FilesOfDiff
  <2>1. pulls[p].files = Touches[p] /\ diff[p] = FirstDiff[p]
    BY DEF BitbucketInit, Init
  <2> QED
    BY <2>1, BitbucketAssumption
<1>2. TypeOK /\ BitbucketTypeOK /\ FilesOfDiff /\ [BitbucketNext]_bitbucketVars
        => FilesOfDiff'
  BY FilesOfDiffStep
<1>3. BitbucketTypeOK /\ [BitbucketNext]_bitbucketVars => BitbucketTypeOK'
  BY BitbucketTypeStep
<1>4. BitbucketTypeOK /\ FilesOfDiff => RelatedFound
  BY MatchedInNames DEF BitbucketTypeOK, FilesOfDiff, RelatedFound
<1> QED
  BY <1>1, <1>2, <1>3, <1>4, BitbucketTypes, BitbucketImplementsWorker, TypeCorrect, PTL
     DEF BitbucketSpec
=============================================================================
