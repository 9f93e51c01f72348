-------------------------------- MODULE Fifo --------------------------------
(***************************************************************************)
(* What a queue shared by several goroutines promises: each call takes     *)
(* effect at once, at some moment between its invocation and its return,   *)
(* on one first-in first-out queue.                                        *)
(***************************************************************************)
EXTENDS Sequences, Integers

CONSTANTS Clients, Items, Nil

VARIABLES
  queue,  \* the items, the oldest first
  call    \* each client's call: what it asks for, and the answer if any

Enqueuing == {"Enqueue"}
Asking == {"Dequeue", "NextItem", "Size", "IsEmpty"}

(* A call before and after it has taken effect.                            *)
Pending(op, item) == [op |-> op, item |-> item, done |-> FALSE, answer |-> Nil]
Done(op, item, answer) == [op |-> op, item |-> item, done |-> TRUE, answer |-> answer]
NoCall == Pending("none", Nil)

First(q) == IF q = <<>> THEN Nil ELSE Head(q)

Answer(op, q) ==
  IF op \in {"Dequeue", "NextItem"} THEN First(q)
  ELSE IF op = "Size" THEN Len(q)
  ELSE IF op = "IsEmpty" THEN q = <<>>
  ELSE Nil

After(op, item, q) ==
  IF op = "Enqueue" THEN Append(q, item)
  ELSE IF op = "Dequeue" /\ q # <<>> THEN Tail(q)
  ELSE q

Init ==
  /\ queue = <<>>
  /\ call = [c \in Clients |-> NoCall]

Invoke(c, op, item) ==
  /\ call[c] = NoCall
  /\ \/ op \in Enqueuing /\ item \in Items
     \/ op \in Asking /\ item = Nil
  /\ call' = [call EXCEPT ![c] = Pending(op, item)]
  /\ UNCHANGED queue

TakeEffect(c, op, item) ==
  /\ op # "none"
  /\ call[c] = Pending(op, item)
  /\ queue' = After(op, item, queue)
  /\ call' = [call EXCEPT ![c] = Done(op, item, Answer(op, queue))]

Return(c) ==
  /\ call[c].done
  /\ call' = [call EXCEPT ![c] = NoCall]
  /\ UNCHANGED queue

Next ==
  \E c \in Clients :
    \/ \E op \in Enqueuing \union Asking, item \in Items \union {Nil} :
         Invoke(c, op, item) \/ TakeEffect(c, op, item)
    \/ Return(c)

Spec == Init /\ [][Next]_<<queue, call>>
=============================================================================
