------------------------- MODULE NotificationProofs -------------------------
(***************************************************************************)
(* Notifications are passed on truthfully beside any number of replicas    *)
(* and handlers, whatever fails.                                           *)
(***************************************************************************)
EXTENDS Notification, WorkerProofs

(* What a handler knows while it is between its calls: the pull request it *)
(* is about to write to has been the holder since the notification came.   *)
Knows(n, seen) ==
  /\ n.step = "write" =>
       /\ n.app # NoApp
       /\ n.status \in {200, 400}
       /\ n.target \in seen
  /\ n.step = "done" =>
       /\ n.written \in seen \union {NoPullRequest}
       /\ n.status = 200 => n.written \in seen
       /\ n.status = 404 => n.written = NoPullRequest
       /\ n.app = NoApp => n.written = NoPullRequest /\ n.status # 200

NoticeInv ==
  /\ note \in [Handlers -> Note]
  /\ carriers \in [Handlers -> SUBSET PullRequestIds]
  /\ \A h \in Handlers :
       /\ Knows(note[h], carriers[h])
       /\ note[h].step = "idle" => note[h] = NoNote /\ carriers[h] = {}

ClusterTyped == cluster \in [Apps -> Object]

(* The history of a handler that goes on with its notification.            *)
LEMMA CarriersGrow ==
  ASSUME NoticeInv, KeepCarriers, NEW h \in Handlers,
         note'[h].step # "idle", note'[h].app # NoApp
  PROVE  /\ carriers[h] \subseteq carriers'[h]
         /\ Carrier(cluster'[note'[h].app]) \in carriers'[h]
BY DEF KeepCarriers

LEMMA NoNoteType == NoNote \in Note /\ NoNote.step = "idle"
BY DEF NoNote, Noted, Note, PullRequestIds

LEMMA ReadKnows ==
  ASSUME ClusterTyped, NoticeInv, KeepCarriers, UNCHANGED vars,
         NEW h \in Handlers, NEW a \in Noticed \union {NoApp}, Read(h, a)
  PROVE  /\ note'[h] \in Note /\ note'[h].step # "idle"
         /\ Knows(note'[h], carriers'[h])
<1> DEFINE app == GetApplication(a)
<1>1. PICK status \in {200, 400} :
        \/ /\ a \in Apps
           /\ app.Locked
           /\ note'[h] = Noted("write", a, status, app.PullRequestId, NoPullRequest)
        \/ /\ a \in Apps
           /\ ~app.Locked
           /\ note'[h] = Noted("done", a, status, NoPullRequest, NoPullRequest)
        \/ note'[h] = Noted("done", a, Error(status, 404), NoPullRequest, NoPullRequest)
  BY DEF Read, NoticeInv
<1>2. ASSUME a \in Apps
      PROVE  /\ a # NoApp
             /\ app.PullRequestId \in PullRequestIds
             /\ Carrier(cluster'[a]) =
                  IF app.Locked THEN app.PullRequestId ELSE NoPullRequest
  <2>1. a # NoApp
    BY <1>2, ApplicationAssumption DEF Apps, NoApp
  <2>2. cluster[a] \in Object /\ cluster' = cluster
    BY <1>2 DEF ClusterTyped, vars
  <2> QED
    BY <2>1, <2>2 DEF Carrier, GetApplication, ConvertToApplication, Object
<1> HIDE DEF app
<1>3. CASE /\ a \in Apps
           /\ app.Locked
           /\ note'[h] = Noted("write", a, status, app.PullRequestId, NoPullRequest)
  <2>1. note'[h].step = "write" /\ note'[h].app = a
    BY <1>3 DEF Noted
  <2>2. app.PullRequestId \in carriers'[h]
    BY <1>2, <1>3, <2>1, CarriersGrow
  <2> QED
    BY <1>2, <1>3, <2>2 DEF Noted, Note, Knows, PullRequestIds
<1>4. CASE /\ a \in Apps
           /\ ~app.Locked
           /\ note'[h] = Noted("done", a, status, NoPullRequest, NoPullRequest)
  <2>1. note'[h].step = "done" /\ note'[h].app = a
    BY <1>4 DEF Noted
  <2>2. NoPullRequest \in carriers'[h]
    BY <1>2, <1>4, <2>1, CarriersGrow
  <2> QED
    BY <1>2, <1>4, <2>2 DEF Noted, Note, Knows, PullRequestIds
<1>5. CASE note'[h] = Noted("done", a, Error(status, 404), NoPullRequest, NoPullRequest)
  BY <1>5 DEF Noted, Error, Note, Knows, PullRequestIds
<1> QED
  BY <1>1, <1>3, <1>4, <1>5

LEMMA WriteKnows ==
  ASSUME NoticeInv, KeepCarriers, NEW h \in Handlers, WriteComment(h)
  PROVE  /\ note'[h] \in Note /\ note'[h].step # "idle"
         /\ Knows(note'[h], carriers'[h])
<1> DEFINE n == note[h]
<1>1. /\ n \in Note /\ n.step = "write" /\ n.app # NoApp
      /\ n.status \in {200, 400} /\ n.target \in carriers[h]
  BY DEF WriteComment, NoticeInv, Knows
<1>2. PICK status \in {200, 400, 500}, written \in {n.target, NoPullRequest} :
        /\ note'[h] = Noted("done", n.app, status, n.target, written)
        /\ status = 200 => written = n.target
  BY <1>1 DEF WriteComment, Error, NoticeInv, Note
<1>3. /\ note'[h].status = status /\ note'[h].step = "done"
      /\ note'[h].written = written /\ note'[h].app # NoApp
      /\ note'[h] \in Note
  BY <1>1, <1>2 DEF Note, Noted, PullRequestIds
<1>4. carriers[h] \subseteq carriers'[h]
  BY <1>3, CarriersGrow
<1> QED
  BY <1>1, <1>2, <1>3, <1>4 DEF Knows

(* A handler that does nothing keeps what it knows.                        *)
LEMMA OtherKnows ==
  ASSUME NoticeInv, KeepCarriers, NEW h \in Handlers, note'[h] = note[h]
  PROVE  /\ Knows(note'[h], carriers'[h])
         /\ note'[h].step = "idle" => note'[h] = NoNote /\ carriers'[h] = {}
<1>1. CASE note[h].step = "idle"
  BY <1>1 DEF KeepCarriers, NoticeInv, Knows
<1>2. CASE note[h].step # "idle" /\ note[h].app # NoApp
  BY <1>2, CarriersGrow DEF NoticeInv, Knows
<1>3. CASE note[h].step # "idle" /\ note[h].app = NoApp
  BY <1>3 DEF NoticeInv, Knows
<1> QED
  BY <1>1, <1>2, <1>3

LEMMA CarriersTyped ==
  ASSUME ClusterTyped', NoticeInv, KeepCarriers, note' \in [Handlers -> Note]
  PROVE  carriers' \in [Handlers -> SUBSET PullRequestIds]
<1>1. \A a \in Apps : Carrier(cluster'[a]) \in PullRequestIds
  BY DEF ClusterTyped, Carrier, Object, PullRequestIds
<1>2. \A h \in Handlers : note'[h].app \in Apps \union {NoApp}
  BY NotificationAssumption DEF Note
<1> QED
  BY <1>1, <1>2 DEF KeepCarriers, NoticeInv, PullRequestIds

LEMMA NoticeStep ==
  ASSUME ClusterTyped, ClusterTyped', NoticeInv, [NotifyNext]_notifyVars
  PROVE  NoticeInv'
<1>1. CASE UNCHANGED notifyVars
  BY <1>1 DEF notifyVars, NoticeInv
<1>2. CASE NotifyNext
  <2>1. KeepCarriers
    BY <1>2 DEF NotifyNext
  <2>2. CASE UNCHANGED note
    <3>1. note' \in [Handlers -> Note]
      BY <2>2 DEF NoticeInv
    <3> QED
      BY <2>1, <2>2, <3>1, OtherKnows, CarriersTyped DEF NoticeInv
  <2>3. ASSUME NEW h \in Handlers, HandleNotification(h), UNCHANGED vars
        PROVE  NoticeInv'
    <3>1. note' = [note EXCEPT ![h] = note'[h]]
      BY <2>3 DEF HandleNotification, Read, WriteComment, Answer, Abort, NoticeInv
    <3>2. /\ note'[h] \in Note
          /\ Knows(note'[h], carriers'[h])
          /\ note'[h].step = "idle" => note'[h] = NoNote /\ carriers'[h] = {}
      <4>1. CASE \E a \in Noticed \union {NoApp} : Read(h, a)
        BY <2>1, <2>3, <4>1, ReadKnows
      <4>2. CASE WriteComment(h)
        BY <2>1, <4>2, WriteKnows
      <4>3. CASE Answer(h) \/ Abort(h)
        <5>1. note'[h] = NoNote
          BY <4>3 DEF Answer, Abort, NoticeInv
        <5> QED
          BY <2>1, <5>1, NoNoteType DEF KeepCarriers, Knows
      <4> QED
        BY <2>3, <4>1, <4>2, <4>3 DEF HandleNotification
    <3>3. note' \in [Handlers -> Note] /\ \A g \in Handlers \ {h} : note'[g] = note[g]
      BY <3>1, <3>2 DEF NoticeInv
    <3>4. carriers' \in [Handlers -> SUBSET PullRequestIds]
      BY <2>1, <3>3, CarriersTyped
    <3>5. \A g \in Handlers \ {h} :
            /\ Knows(note'[g], carriers'[g])
            /\ note'[g].step = "idle" => note'[g] = NoNote /\ carriers'[g] = {}
      BY <2>1, <3>3, OtherKnows
    <3> QED
      BY <3>2, <3>3, <3>4, <3>5 DEF NoticeInv
  <2> QED
    BY <1>2, <2>2, <2>3 DEF NotifyNext
<1> QED
  BY <1>1, <1>2

LEMMA NotifyIsWorker == [NotifyNext]_notifyVars => [Next]_vars
BY DEF NotifyNext, notifyVars

(* Handlers of notifications change nothing that the worker sees.          *)
LEMMA NotifyImplementsWorker == NotifySpec => Spec
<1>1. NotifyInit => Init
  BY DEF NotifyInit
<1> QED
  BY <1>1, NotifyIsWorker, PTL DEF NotifySpec, Spec

(* What became of a notification is true of some moment since it came,     *)
(* beside any number of handlers and replicas that lock and unlock the     *)
(* application, and whatever fails.                                        *)
THEOREM NoticesTrue == NotifySpec => []NoticeTrue
<1>1. NotifyInit => NoticeInv
  BY NoNoteType DEF NotifyInit, NoticeInv, Knows
<1>2. TypeOK => ClusterTyped
  BY DEF TypeOK, ClusterTyped
<1>3. ClusterTyped /\ ClusterTyped' /\ NoticeInv /\ [NotifyNext]_notifyVars => NoticeInv'
  BY NoticeStep
<1>4. NoticeInv => NoticeTrue
  BY DEF NoticeInv, Knows, NoticeTrue
<1> QED
  BY <1>1, <1>2, <1>3, <1>4, NotifyImplementsWorker, TypeCorrect, PTL DEF NotifySpec
=============================================================================
