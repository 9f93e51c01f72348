---------------------------- MODULE ServerProofs ----------------------------
(***************************************************************************)
(* A shutdown that ends before its deadline loses at most the event in     *)
(* hand, for any number of webhooks.                                       *)
(***************************************************************************)
EXTENDS Server, SequenceTheorems, TLAPS

Waiting(q) == {q[i] : i \in 1 .. Len(q)}

LEMMA WaitingAppend ==
  ASSUME NEW q \in Seq(Webhooks), NEW e \in Webhooks
  PROVE  Append(q, e) \in Seq(Webhooks) /\ Waiting(Append(q, e)) = Waiting(q) \union {e}
<1>1. Append(q, e) \in Seq(Webhooks)
  BY AppendProperties
<1>2. /\ Len(Append(q, e)) = Len(q) + 1
      /\ \A i \in 1 .. Len(q) : Append(q, e)[i] = q[i]
      /\ Append(q, e)[Len(q) + 1] = e
      /\ Len(q) \in Nat
  BY AppendProperties, LenProperties
<1>3. 1 .. Len(q) + 1 = (1 .. Len(q)) \union {Len(q) + 1}
  BY <1>2
<1> QED
  BY <1>1, <1>2, <1>3 DEF Waiting

LEMMA WaitingTail ==
  ASSUME NEW q \in Seq(Webhooks), q # <<>>
  PROVE  /\ Head(q) \in Webhooks
         /\ Tail(q) \in Seq(Webhooks)
         /\ Waiting(q) = Waiting(Tail(q)) \union {Head(q)}
<1>1. /\ Head(q) \in Webhooks /\ Head(q) = q[1]
      /\ Tail(q) \in Seq(Webhooks)
      /\ Len(Tail(q)) = Len(q) - 1
      /\ \A i \in 1 .. Len(Tail(q)) : Tail(q)[i] = q[i + 1]
      /\ Len(q) \in Nat \ {0}
  BY HeadTailProperties, LenProperties, EmptySeq
<1>2. ASSUME NEW i \in 1 .. Len(q)
      PROVE  i = 1 \/ (i - 1 \in 1 .. Len(Tail(q)) /\ Tail(q)[i - 1] = q[i])
  BY <1>1
<1>3. ASSUME NEW i \in 1 .. Len(Tail(q))
      PROVE  i + 1 \in 1 .. Len(q)
  BY <1>1
<1>4. 1 \in 1 .. Len(q)
  BY <1>1
<1>5. Waiting(q) \subseteq Waiting(Tail(q)) \union {Head(q)}
  BY <1>1, <1>2 DEF Waiting
<1>6. Waiting(Tail(q)) \union {Head(q)} \subseteq Waiting(q)
  BY <1>1, <1>3, <1>4 DEF Waiting
<1> QED
  BY <1>1, <1>5, <1>6

-----------------------------------------------------------------------------
(* The invariant.  An accepted event that was not processed waits or is in *)
(* hand; before the deadline, Stop runs after the last handler and ends    *)
(* when nothing waits, and then only processed events are put back.        *)
NothingForgotten ==
  \A e \in Accepted \ served :
    e \in Waiting(queue) \/ (worker = "work" /\ e = next)

PutBackServed == worker \in {"wait", "respond"} => next \in served

HandlersDone ==
  main \in {"checking", "polling", "leaving", "exited"} /\ ~expired => Active = {}

QueueOver ==
  main \in {"leaving", "exited"} /\ ~expired => Waiting(queue) \subseteq served

ServerInv ==
  TypeOK /\ NothingForgotten /\ PutBackServed /\ HandlersDone /\ QueueOver

LEMMA ServerInit == Init => ServerInv
BY ServerAssumption, EmptySeq
   DEF Init, ServerInv, TypeOK, NothingForgotten, PutBackServed, HandlersDone,
       QueueOver, Accepted, Active, Waiting

LEMMA HandlerStep ==
  ASSUME ServerInv, Handler \/ ServeFails
  PROVE  ServerInv'
<1> USE DEF ServerInv
<1>1. ASSUME NEW e \in Webhooks, Receive(e) PROVE ServerInv'
  BY <1>1 DEF Receive, TypeOK, NothingForgotten, PutBackServed, HandlersDone,
              QueueOver, Accepted, Active
<1>2. ASSUME NEW e \in Webhooks, Refuse(e) PROVE ServerInv'
  BY <1>2 DEF Refuse, TypeOK, NothingForgotten, PutBackServed, HandlersDone,
              QueueOver, Accepted, Active
<1>3. ASSUME NEW e \in Webhooks, Enqueue(e) PROVE ServerInv'
  <2>1. /\ queue' \in Seq(Webhooks)
        /\ Waiting(queue)' = Waiting(queue) \union {e}
    BY <1>3, WaitingAppend DEF Enqueue, TypeOK
  <2>2. TypeOK'
    BY <1>3, <2>1 DEF Enqueue, TypeOK
  <2>3. NothingForgotten'
    BY <1>3, <2>1 DEF Enqueue, TypeOK, NothingForgotten, Accepted
  <2>4. PutBackServed'
    BY <1>3 DEF Enqueue, PutBackServed
  <2>5. e \in Active
    BY <1>3 DEF Enqueue, Active
  <2>6. HandlersDone' /\ QueueOver'
    BY <1>3, <2>5 DEF Enqueue, HandlersDone, QueueOver
  <2> QED
    BY <2>2, <2>3, <2>4, <2>6
<1>4. ASSUME NEW e \in Webhooks, Reply(e) PROVE ServerInv'
  BY <1>4 DEF Reply, TypeOK, NothingForgotten, PutBackServed, HandlersDone,
              QueueOver, Accepted, Active
<1>5. CASE ServeFails
  BY <1>5 DEF ServeFails, TypeOK, NothingForgotten, PutBackServed, HandlersDone,
              QueueOver, Accepted, Active
<1> QED
  BY <1>1, <1>2, <1>3, <1>4, <1>5 DEF Handler

LEMMA MainStep ==
  ASSUME ServerInv, Signal \/ Expire \/ Main
  PROVE  ServerInv'
<1> USE DEF ServerInv
<1>1. UNCHANGED <<request, queue, worker, next, served>>
  BY DEF Signal, Expire, Main, Shutdown, Stop, StopSelect, StopPoll, Exit
<1>2. TypeOK'
  BY <1>1 DEF Signal, Expire, Main, Shutdown, Stop, StopSelect, StopPoll, Exit, TypeOK
<1>3. NothingForgotten' /\ PutBackServed'
  BY <1>1 DEF NothingForgotten, PutBackServed, Accepted
<1>4. HandlersDone'
  BY <1>1 DEF Signal, Expire, Main, Shutdown, Stop, StopSelect, StopPoll, Exit,
              HandlersDone, Active
<1>5. QueueOver'
  <2>1. CASE StopPoll /\ queue = <<>>
    BY <1>1, <2>1 DEF QueueOver, Waiting
  <2>2. CASE ~(StopPoll /\ queue = <<>>)
    BY <1>1, <2>2 DEF Signal, Expire, Main, Shutdown, Stop, StopSelect, StopPoll,
                      Exit, QueueOver
  <2> QED
    BY <2>1, <2>2
<1> QED
  BY <1>2, <1>3, <1>4, <1>5

LEMMA WorkerStep ==
  ASSUME ServerInv, Start
  PROVE  ServerInv'
<1> USE DEF ServerInv
<1>1. UNCHANGED <<main, expired, quit, request>>
  BY DEF Start, Select, Dequeue, Process, PutBack, Respond
<1>2. HandlersDone'
  BY <1>1 DEF HandlersDone, Active
<1>3. CASE Select
  BY <1>2, <1>3 DEF Select, TypeOK, NothingForgotten, PutBackServed, QueueOver, Accepted
<1>4. CASE Dequeue
  <2>1. CASE queue = <<>>
    BY <1>2, <1>4, <2>1 DEF Dequeue, TypeOK, NothingForgotten, PutBackServed,
                            QueueOver, Accepted
  <2>2. CASE queue # <<>>
    <3>1. /\ next' \in Webhooks
          /\ queue' \in Seq(Webhooks)
          /\ Waiting(queue) = Waiting(queue)' \union {next'}
      BY <1>4, <2>2, WaitingTail DEF Dequeue, TypeOK
    <3>2. worker = "sleep" /\ worker' = "work" /\ UNCHANGED served
      BY <1>4, <2>2 DEF Dequeue
    <3>3. TypeOK'
      BY <1>1, <3>1, <3>2 DEF TypeOK
    <3>4. NothingForgotten'
      BY <1>1, <3>1, <3>2 DEF NothingForgotten, Accepted
    <3>5. PutBackServed' /\ QueueOver'
      BY <1>1, <3>1, <3>2 DEF PutBackServed, QueueOver
    <3> QED
      BY <1>2, <3>3, <3>4, <3>5
  <2> QED
    BY <2>1, <2>2
<1>5. CASE Process
  BY <1>2, <1>5, ServerAssumption
     DEF Process, TypeOK, NothingForgotten, PutBackServed, QueueOver, Accepted
<1>6. CASE PutBack
  <2>1. next \in Webhooks /\ next \in served
    BY <1>6 DEF PutBack, TypeOK, PutBackServed
  <2>2. /\ queue' \in Seq(Webhooks)
        /\ Waiting(queue)' = Waiting(queue) \union {next}
    BY <1>6, <2>1, WaitingAppend DEF PutBack, TypeOK
  <2> QED
    BY <1>2, <1>6, <2>1, <2>2
       DEF PutBack, TypeOK, NothingForgotten, PutBackServed, QueueOver, Accepted
<1>7. CASE Respond
  BY <1>2, <1>7, ServerAssumption
     DEF Respond, TypeOK, NothingForgotten, PutBackServed, QueueOver, Accepted
<1> QED
  BY <1>3, <1>4, <1>5, <1>6, <1>7 DEF Start

LEMMA ServerInvariant == Spec => []ServerInv
<1>1. Init => ServerInv
  BY ServerInit
<1>2. ServerInv /\ [Next]_vars => ServerInv'
  <2> SUFFICES ASSUME ServerInv, [Next]_vars PROVE ServerInv'
    OBVIOUS
  <2>1. CASE UNCHANGED vars
    BY <2>1 DEF vars, ServerInv, TypeOK, NothingForgotten, PutBackServed,
                HandlersDone, QueueOver, Accepted, Active
  <2> QED
    BY <2>1, HandlerStep, MainStep, WorkerStep DEF Next
<1> QED
  BY <1>1, <1>2, PTL DEF Spec

(* The process keeps its types for any number of webhooks; in particular   *)
(* the worker has an event in hand exactly while it works on one.          *)
THEOREM ServerTypeCorrect == Spec => []TypeOK
BY ServerInvariant, PTL DEF ServerInv

(* When the shutdown ends before its deadline, at most one of the events   *)
(* that were put into the queue is not processed, however many there are   *)
(* and however handlers, worker and main interleave.                       *)
THEOREM ShutdownLosesAtMostOne == Spec => []StopLosesAtMostOne
<1>1. ServerInv => StopLosesAtMostOne
  BY DEF ServerInv, NothingForgotten, QueueOver, StopLosesAtMostOne
<1> QED
  BY <1>1, ServerInvariant, PTL
=============================================================================
