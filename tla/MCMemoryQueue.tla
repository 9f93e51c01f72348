--------------------------- MODULE MCMemoryQueue ---------------------------
(* Two handlers, the worker and main, as TLC's instance of MemoryQueue.     *)
EXTENDS MemoryQueue

CONSTANTS h1, h2, worker, main

MCClients == {h1, h2, worker, main}
MCOperations ==
  [c \in Clients |-> CASE c \in {h1, h2} -> {"Enqueue"}
                       [] c = worker -> {"Dequeue", "Enqueue"}
                       [] c = main -> {"Size", "NextItem", "IsEmpty"}]
=============================================================================
