----------------------------- MODULE MemoryQueue -----------------------------
(***************************************************************************)
(* The queue between the webhook handlers and the worker                   *)
(* (internal/event/queue/memory.go): a slice under a mutex.  Its clients   *)
(* are goroutines: one per webhook that calls Enqueue, the worker that     *)
(* calls Dequeue and Enqueue, and the one that waits for Size to be 0.     *)
(*                                                                         *)
(* The slice is read and written in different steps, as append and the     *)
(* reslicing do: only the mutex keeps clients from each other's steps.     *)
(***************************************************************************)
EXTENDS Integers, Sequences

CONSTANTS
  Clients,     \* the goroutines
  Items,       \* what is put into the queue
  Nil,         \* no item
  Operations,  \* Operations[c]: the methods that c calls
  MaxItems     \* Enqueue is called while there are fewer items

ASSUME QueueAssumption ==
  /\ Nil \notin Items
  /\ Nil \notin Clients
  /\ Operations \in
       [Clients -> SUBSET {"Enqueue", "Dequeue", "NextItem", "Size", "IsEmpty"}]
  /\ MaxItems \in Nat

VARIABLES
  items,   \* the slice
  mu,      \* the client that holds the mutex, or Nil
  pc,      \* where each client stands in its call
  op,      \* the method it calls
  arg,     \* the item that it enqueues
  seen,    \* the slice as it read it
  answer   \* what the method returns

vars == <<items, mu, pc, op, arg, seen, answer>>

Inside == {"read", "write", "unlock"}

(* What the methods return.                                                *)
Answers(method) ==
  IF method = "Size" THEN Nat
  ELSE IF method = "IsEmpty" THEN BOOLEAN
  ELSE Items

TypeOK ==
  /\ items \in Seq(Items)
  /\ mu \in Clients \union {Nil}
  /\ pc \in [Clients -> {"outside", "lock"} \union Inside]
  /\ op \in [Clients -> {"none", "Enqueue", "Dequeue", "NextItem", "Size", "IsEmpty"}]
  /\ arg \in [Clients -> Items \union {Nil}]
  /\ seen \in [Clients -> Seq(Items)]
  /\ answer = [c \in Clients |-> answer[c]]
  /\ \A c \in Clients : answer[c] = Nil \/ answer[c] \in Answers(op[c])

Init ==
  /\ items = <<>>
  /\ mu = Nil
  /\ pc = [c \in Clients |-> "outside"]
  /\ op = [c \in Clients |-> "none"]
  /\ arg = [c \in Clients |-> Nil]
  /\ seen = [c \in Clients |-> <<>>]
  /\ answer = [c \in Clients |-> Nil]

Goto(c, place) == pc' = [pc EXCEPT ![c] = place]

-----------------------------------------------------------------------------
Invoke(c, method, item) ==
  /\ pc[c] = "outside"
  /\ method \in Operations[c]
  /\ IF method = "Enqueue" THEN item \in Items /\ Len(items) < MaxItems
     ELSE item = Nil
  /\ op' = [op EXCEPT ![c] = method]
  /\ arg' = [arg EXCEPT ![c] = item]
  /\ Goto(c, "lock")
  /\ UNCHANGED <<items, mu, seen, answer>>

(* Mutant of Lock: nobody waits for the mutex.                             *)
LockAnyway(c) ==
  /\ pc[c] = "lock"
  /\ mu' = c
  /\ Goto(c, "read")
  /\ UNCHANGED <<items, op, arg, seen, answer>>

Lock(c) ==
  /\ pc[c] = "lock"
  /\ mu = Nil
  /\ mu' = c
  /\ Goto(c, "read")
  /\ UNCHANGED <<items, op, arg, seen, answer>>

(* Mutant of Finish: a return that does not unlock.                        *)
FinishLocked(c, value) ==
  /\ answer' = [answer EXCEPT ![c] = value]
  /\ Goto(c, "outside")

(* A return: its value is set, and the deferred Unlock follows.            *)
Finish(c, value) ==
  /\ answer' = [answer EXCEPT ![c] = value]
  /\ Goto(c, "unlock")

(* The body of the method: NextItem, Size and IsEmpty only read, and so    *)
(* does Dequeue when it finds nothing.                                     *)
Read(c) ==
  /\ pc[c] = "read"
  /\ seen' = [seen EXCEPT ![c] = items]
  /\ \/ /\ op[c] = "Enqueue" \/ (op[c] = "Dequeue" /\ items # <<>>)
        /\ Goto(c, "write")
        /\ UNCHANGED answer
     \/ op[c] \in {"Dequeue", "NextItem"} /\ items = <<>> /\ Finish(c, Nil)
     \/ op[c] = "NextItem" /\ items # <<>> /\ Finish(c, Head(items))
     \/ op[c] = "Size" /\ Finish(c, Len(items))
     \/ op[c] = "IsEmpty" /\ Finish(c, items = <<>>)
  /\ UNCHANGED <<items, mu, op, arg>>

(* Mutant of Write: the wrong variable is appended.                        *)
WriteAnswer(c) ==
  /\ pc[c] = "write"
  /\ \/ /\ op[c] = "Enqueue"
        /\ items' = Append(seen[c], answer[c])
        /\ Finish(c, Nil)
     \/ /\ op[c] = "Dequeue"
        /\ items' = Tail(seen[c])
        /\ Finish(c, Head(seen[c]))
  /\ UNCHANGED <<mu, op, arg, seen>>

Write(c) ==
  /\ pc[c] = "write"
  /\ \/ /\ op[c] = "Enqueue"
        /\ items' = Append(seen[c], arg[c])
        /\ Finish(c, Nil)
     \/ /\ op[c] = "Dequeue"
        /\ items' = Tail(seen[c])
        /\ Finish(c, Head(seen[c]))
  /\ UNCHANGED <<mu, op, arg, seen>>

(* The deferred Unlock, and the return to the caller.                      *)
Unlock(c) ==
  /\ pc[c] = "unlock"
  /\ mu' = Nil
  /\ op' = [op EXCEPT ![c] = "none"]
  /\ arg' = [arg EXCEPT ![c] = Nil]
  /\ seen' = [seen EXCEPT ![c] = <<>>]
  /\ answer' = [answer EXCEPT ![c] = Nil]
  /\ Goto(c, "outside")
  /\ UNCHANGED items

Next ==
  \E c \in Clients :
    \/ \E method \in Operations[c], item \in Items \union {Nil} :
         Invoke(c, method, item)
    \/ Lock(c) \/ Read(c) \/ Write(c) \/ Unlock(c)

Spec == Init /\ [][Next]_vars
-----------------------------------------------------------------------------
(* No two clients are inside a method, and the mutex is held exactly while *)
(* one is: every return, the early ones for an empty queue included, gives *)
(* it back.                                                                *)
HeldInside == \A c \in Clients : mu = c <=> pc[c] \in Inside

(* Fifo's view of a call: it takes effect when the body is over.           *)
Call(c) ==
  [op |-> op[c], item |-> arg[c],
   done |-> pc[c] = "unlock", answer |-> answer[c]]

Queue == INSTANCE Fifo WITH
  queue <- items,
  call <- [c \in Clients |-> Call(c)]

(* Concurrent webhooks, the worker and Stop see one first-in first-out     *)
(* queue: no event is lost, doubled or reordered by calls that overlap.    *)
ImplementsFifo == Queue!Spec
=============================================================================
