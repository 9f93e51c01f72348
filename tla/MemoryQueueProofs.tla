-------------------------- MODULE MemoryQueueProofs --------------------------
(***************************************************************************)
(* The queue's mutex works, and the queue is a first-in first-out queue,   *)
(* for any number of clients and items.                                    *)
(***************************************************************************)
EXTENDS MemoryQueue, SequenceTheorems, TLAPS

(* The invariant.  What a client read is what it changes, since nobody     *)
(* else gets in; and a call keeps its method and item until it returns.    *)
SeenCurrent ==
  \A c \in Clients :
    pc[c] = "write" =>
      /\ seen[c] = items
      /\ op[c] \in {"Enqueue", "Dequeue"}
      /\ op[c] = "Dequeue" => items # <<>>

CallKept ==
  \A c \in Clients :
    /\ pc[c] = "outside" <=> op[c] = "none"
    /\ IF op[c] = "Enqueue" THEN arg[c] \in Items ELSE arg[c] = Nil
    /\ pc[c] # "unlock" => answer[c] = Nil

QueueInv == TypeOK /\ HeldInside /\ SeenCurrent /\ CallKept

LEMMA QueueInit == Init => QueueInv
BY QueueAssumption
   DEF Init, QueueInv, TypeOK, HeldInside, SeenCurrent, CallKept, Inside, Answers

LEMMA InvokeStep ==
  ASSUME QueueInv, NEW c \in Clients,
         NEW method \in Operations[c], NEW item \in Items \union {Nil},
         Invoke(c, method, item)
  PROVE  QueueInv'
<1> USE DEF QueueInv
<1>1. method \in {"Enqueue", "Dequeue", "NextItem", "Size", "IsEmpty"}
  BY QueueAssumption
<1>2. TypeOK'
  BY <1>1 DEF Invoke, Goto, TypeOK, Answers, CallKept
<1>3. HeldInside'
  BY DEF Invoke, Goto, TypeOK, HeldInside, Inside
<1>4. SeenCurrent'
  BY DEF Invoke, Goto, TypeOK, SeenCurrent
<1>5. CallKept'
  BY <1>1 DEF Invoke, Goto, TypeOK, CallKept
<1> QED
  BY <1>2, <1>3, <1>4, <1>5

LEMMA LockMutexStep ==
  ASSUME QueueInv, NEW c \in Clients, Lock(c)
  PROVE  QueueInv'
<1> USE DEF QueueInv
<1>1. TypeOK'
  BY DEF Lock, Goto, TypeOK, Inside
<1>2. HeldInside'
  BY QueueAssumption DEF Lock, Goto, TypeOK, HeldInside, Inside
<1>3. SeenCurrent'
  BY DEF Lock, Goto, TypeOK, SeenCurrent
<1>4. CallKept'
  BY DEF Lock, Goto, TypeOK, CallKept
<1> QED
  BY <1>1, <1>2, <1>3, <1>4

LEMMA ReadStep ==
  ASSUME QueueInv, NEW c \in Clients, Read(c)
  PROVE  QueueInv'
<1> USE DEF QueueInv
<1>1. pc' = [pc EXCEPT ![c] = pc'[c]] /\ pc'[c] \in {"write", "unlock"}
  BY DEF Read, Finish, Goto, TypeOK
<1>2. /\ answer' = [answer EXCEPT ![c] = answer'[c]]
      /\ answer'[c] = Nil \/ answer'[c] \in Answers(op[c])
  <2>1. items # <<>> => Head(items) \in Items
    BY HeadTailProperties DEF TypeOK
  <2>2. Len(items) \in Nat
    BY LenProperties DEF TypeOK
  <2>3. (items = <<>>) \in BOOLEAN
    OBVIOUS
  <2>4. /\ answer = [d \in Clients |-> answer[d]]
        /\ answer[c] = Nil \/ answer[c] \in Answers(op[c])
    BY DEF TypeOK
  <2>5. CASE UNCHANGED answer
    BY <2>4, <2>5
  <2>6. ASSUME NEW value, value = Nil \/ value \in Answers(op[c]), Finish(c, value)
        PROVE  /\ answer' = [answer EXCEPT ![c] = answer'[c]]
               /\ answer'[c] = Nil \/ answer'[c] \in Answers(op[c])
    BY <2>4, <2>6 DEF Finish
  <2>7. CASE op[c] \in {"Dequeue", "NextItem"} /\ items = <<>> /\ Finish(c, Nil)
    BY <2>6, <2>7
  <2>8. CASE op[c] = "NextItem" /\ items # <<>> /\ Finish(c, Head(items))
    BY <2>1, <2>6, <2>8 DEF Answers
  <2>9. CASE op[c] = "Size" /\ Finish(c, Len(items))
    BY <2>2, <2>6, <2>9 DEF Answers
  <2>10. CASE op[c] = "IsEmpty" /\ Finish(c, items = <<>>)
    BY <2>3, <2>6, <2>10 DEF Answers
  <2> QED
    BY <2>5, <2>7, <2>8, <2>9, <2>10 DEF Read
<1>3. /\ seen' = [seen EXCEPT ![c] = items]
      /\ pc[c] = "read"
      /\ UNCHANGED <<items, mu, op, arg>>
  BY DEF Read
<1>4. pc'[c] = "write" => /\ op[c] \in {"Enqueue", "Dequeue"}
                          /\ op[c] = "Dequeue" => items # <<>>
                          /\ UNCHANGED answer
  BY DEF Read, Finish, Goto, TypeOK
<1>5. TypeOK'
  BY <1>1, <1>2 DEF Read, TypeOK, Inside
<1>6. HeldInside'
  BY <1>1 DEF Read, TypeOK, HeldInside, Inside
<1>7. SeenCurrent'
  <2> SUFFICES ASSUME NEW d \in Clients, pc'[d] = "write"
               PROVE  /\ seen'[d] = items'
                      /\ op'[d] \in {"Enqueue", "Dequeue"}
                      /\ op'[d] = "Dequeue" => items' # <<>>
    BY DEF SeenCurrent
  <2>1. d = c
    BY <1>1, <1>3 DEF TypeOK, HeldInside, Inside
  <2>2. seen'[c] = items
    BY <1>3 DEF TypeOK
  <2> QED
    BY <1>3, <1>4, <2>1, <2>2
<1>8. CallKept'
  <2> SUFFICES ASSUME NEW d \in Clients
               PROVE  /\ pc'[d] = "outside" <=> op'[d] = "none"
                      /\ IF op'[d] = "Enqueue" THEN arg'[d] \in Items
                         ELSE arg'[d] = Nil
                      /\ pc'[d] # "unlock" => answer'[d] = Nil
    BY DEF CallKept
  <2>1. CASE d = c
    BY <1>1, <1>3, <1>4, <2>1 DEF TypeOK, CallKept
  <2>2. CASE d # c
    BY <1>1, <1>2, <1>3, <2>2 DEF TypeOK, CallKept
  <2> QED
    BY <2>1, <2>2
<1> QED
  BY <1>5, <1>6, <1>7, <1>8

LEMMA WriteStep ==
  ASSUME QueueInv, NEW c \in Clients, Write(c)
  PROVE  QueueInv'
<1> USE DEF QueueInv
<1>1. seen[c] = items /\ (op[c] = "Dequeue" => items # <<>>)
  BY DEF Write, SeenCurrent
<1>2. TypeOK'
  <2>1. op[c] = "Enqueue" => Append(items, arg[c]) \in Seq(Items)
    BY AppendProperties DEF TypeOK, CallKept
  <2>2. op[c] = "Dequeue" => Tail(items) \in Seq(Items) /\ Head(items) \in Items
    BY <1>1, HeadTailProperties DEF TypeOK
  <2> QED
    BY <1>1, <2>1, <2>2 DEF Write, Finish, Goto, TypeOK, Inside, Answers
<1>3. HeldInside'
  BY DEF Write, Finish, Goto, TypeOK, HeldInside, Inside
<1>4. SeenCurrent'
  BY DEF Write, Finish, Goto, TypeOK, SeenCurrent, HeldInside, Inside
<1>5. CallKept'
  BY DEF Write, Finish, Goto, TypeOK, CallKept
<1> QED
  BY <1>2, <1>3, <1>4, <1>5

LEMMA UnlockMutexStep ==
  ASSUME QueueInv, NEW c \in Clients, Unlock(c)
  PROVE  QueueInv'
<1> USE DEF QueueInv
<1>1. TypeOK'
  BY EmptySeq DEF Unlock, Goto, TypeOK
<1>2. HeldInside'
  BY QueueAssumption DEF Unlock, Goto, TypeOK, HeldInside, Inside
<1>3. SeenCurrent'
  BY DEF Unlock, Goto, TypeOK, SeenCurrent
<1>4. CallKept'
  BY DEF Unlock, Goto, TypeOK, CallKept
<1> QED
  BY <1>1, <1>2, <1>3, <1>4

LEMMA QueueInvariant == Spec => []QueueInv
<1>1. Init => QueueInv
  BY QueueInit
<1>2. QueueInv /\ [Next]_vars => QueueInv'
  <2> SUFFICES ASSUME QueueInv, [Next]_vars PROVE QueueInv'
    OBVIOUS
  <2>1. CASE UNCHANGED vars
    BY <2>1 DEF vars, QueueInv, TypeOK, HeldInside, SeenCurrent, CallKept
  <2> QED
    BY <2>1, InvokeStep, LockMutexStep, ReadStep, WriteStep, UnlockMutexStep DEF Next
<1> QED
  BY <1>1, <1>2, PTL DEF Spec

-----------------------------------------------------------------------------
(* No two goroutines are inside a method of the queue, and every return,   *)
(* the early ones included, gives the mutex back.                          *)
THEOREM MutexHeld == Spec => []HeldInside
BY QueueInvariant, PTL DEF QueueInv

(* What a client enqueues, reads and returns is an item, a length or an    *)
(* answer of its own method: no call sees another's variables.             *)
THEOREM QueueTypeCorrect == Spec => []TypeOK
BY QueueInvariant, PTL DEF QueueInv

-----------------------------------------------------------------------------
calls == [c \in Clients |-> Call(c)]

LEMMA CallsAfterStep ==
  ASSUME TypeOK, NEW c \in Clients,
         \A d \in Clients \ {c} : UNCHANGED <<op[d], arg[d], answer[d], pc[d]>>
  PROVE  calls' = [calls EXCEPT ![c] = Call(c)']
BY DEF calls, Call

(* The body of a method has its effect with its last step.                 *)
LEMMA BodyEnds ==
  ASSUME QueueInv, NEW c \in Clients, pc[c] \in {"read", "write"},
         pc' = [pc EXCEPT ![c] = "unlock"], UNCHANGED <<op, arg>>,
         answer' = [answer EXCEPT ![c] = Queue!Answer(op[c], items)],
         items' = Queue!After(op[c], arg[c], items)
  PROVE  Queue!Next
<1> USE DEF QueueInv
<1>1. /\ op[c] \in Queue!Enqueuing \union Queue!Asking
      /\ arg[c] \in Items \union {Nil}
  BY DEF TypeOK, CallKept, Queue!Enqueuing, Queue!Asking
<1>2. calls[c] = Queue!Pending(op[c], arg[c])
  BY DEF calls, Call, CallKept, Queue!Pending
<1>3. calls' = [calls EXCEPT ![c] = Call(c)']
  BY CallsAfterStep DEF TypeOK
<1>4. Call(c)' = Queue!Done(op[c], arg[c], Queue!Answer(op[c], items))
  BY DEF Call, TypeOK, Queue!Done
<1>5. op[c] # "none"
  BY DEF CallKept
<1>6. Queue!TakeEffect(c, op[c], arg[c])
  BY <1>2, <1>3, <1>4, <1>5 DEF Queue!TakeEffect, calls
<1> QED
  BY <1>1, <1>6 DEF Queue!Next

LEMMA QueueStep ==
  ASSUME QueueInv, [Next]_vars
  PROVE  [Queue!Next]_<<items, calls>>
<1> USE DEF QueueInv
<1>1. ASSUME NEW c \in Clients, NEW method \in Operations[c],
             NEW item \in Items \union {Nil}, Invoke(c, method, item)
      PROVE  Queue!Next
  <2>1. method \in Queue!Enqueuing \union Queue!Asking
    BY QueueAssumption DEF Queue!Enqueuing, Queue!Asking
  <2>2. calls[c] = Queue!NoCall
    BY <1>1 DEF Invoke, calls, Call, CallKept, Queue!NoCall, Queue!Pending
  <2>3. calls' = [calls EXCEPT ![c] = Call(c)']
    BY <1>1, CallsAfterStep DEF Invoke, Goto, TypeOK
  <2>4. Call(c)' = Queue!Pending(method, item)
    BY <1>1 DEF Invoke, Goto, TypeOK, Call, CallKept, Queue!Pending
  <2>5. Queue!Invoke(c, method, item)
    BY <1>1, <2>1, <2>2, <2>3, <2>4
       DEF Invoke, Queue!Invoke, Queue!Enqueuing, Queue!Asking, calls
  <2> QED
    BY <2>1, <2>5 DEF Queue!Next
<1>2. ASSUME NEW c \in Clients, Lock(c)
      PROVE  UNCHANGED <<items, calls>>
  BY <1>2 DEF Lock, Goto, TypeOK, calls, Call
<1>3. ASSUME NEW c \in Clients, Read(c)
      PROVE  [Queue!Next]_<<items, calls>>
  <2>1. CASE Goto(c, "write")
    BY <1>3, <2>1 DEF Read, Finish, Goto, TypeOK, calls, Call
  <2>2. CASE Goto(c, "unlock")
    <3>1. answer' = [answer EXCEPT ![c] = Queue!Answer(op[c], items)]
      BY <1>3, <2>2 DEF Read, Finish, Goto, TypeOK, Queue!Answer, Queue!First
    <3>2. items' = Queue!After(op[c], arg[c], items)
      BY <1>3, <2>2 DEF Read, Finish, Goto, TypeOK, Queue!After
    <3> QED
      BY <1>3, <2>2, <3>1, <3>2, BodyEnds DEF Read, Goto
  <2> QED
    BY <1>3, <2>1, <2>2 DEF Read, Finish
<1>4. ASSUME NEW c \in Clients, Write(c)
      PROVE  Queue!Next
  <2>1. seen[c] = items /\ (op[c] = "Dequeue" => items # <<>>)
    BY <1>4 DEF Write, SeenCurrent
  <2>2. answer' = [answer EXCEPT ![c] = Queue!Answer(op[c], items)]
    BY <1>4, <2>1 DEF Write, Finish, Queue!Answer, Queue!First
  <2>3. items' = Queue!After(op[c], arg[c], items)
    BY <1>4, <2>1 DEF Write, Queue!After
  <2> QED
    BY <1>4, <2>2, <2>3, BodyEnds DEF Write, Finish, Goto
<1>5. ASSUME NEW c \in Clients, Unlock(c)
      PROVE  Queue!Next
  <2>1. calls' = [calls EXCEPT ![c] = Call(c)']
    BY <1>5, CallsAfterStep DEF Unlock, Goto, TypeOK
  <2>2. Call(c)' = Queue!NoCall
    BY <1>5 DEF Unlock, Goto, TypeOK, Call, Queue!NoCall, Queue!Pending
  <2>3. calls[c].done
    BY <1>5 DEF Unlock, calls, Call
  <2> QED
    BY <1>5, <2>1, <2>2, <2>3 DEF Unlock, Queue!Next, Queue!Return, calls
<1>6. CASE UNCHANGED vars
  BY <1>6 DEF vars, calls, Call
<1> QED
  BY <1>1, <1>2, <1>3, <1>4, <1>5, <1>6 DEF Next

(* However many goroutines call the queue at once, each of their calls     *)
(* takes effect at one moment on one first-in first-out queue.             *)
THEOREM FifoRefined == Spec => ImplementsFifo
<1>1. Init => Queue!Init
  BY DEF Init, Queue!Init, Queue!NoCall, Queue!Pending, Call
<1>2. QueueInv /\ [Next]_vars => [Queue!Next]_<<items, calls>>
  BY QueueStep
<1> QED
  BY <1>1, <1>2, QueueInvariant, PTL DEF Spec, ImplementsFifo, Queue!Spec, calls
=============================================================================
