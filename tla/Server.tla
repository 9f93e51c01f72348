------------------------------- MODULE Server -------------------------------
(***************************************************************************)
(* The process of one replica from its start to its end                    *)
(* (cmd/server/main.go, internal/event/handler.go, and Start and Stop of   *)
(* internal/event/worker.go): the HTTP server's goroutines fill the queue, *)
(* the worker's goroutine empties it, and main's goroutine waits for a     *)
(* signal, shuts the HTTP server down, then stops the worker, within ten   *)
(* seconds, and exits three seconds later whatever the others do.          *)
(*                                                                         *)
(* The queue is a sequence and each call of it one step, which MemoryQueue *)
(* shows.  What Process does with an event is in Worker; here it ends with *)
(* no reply, with a reply, or with a reply and the event put back.         *)
(***************************************************************************)
EXTENDS Sequences

CONSTANTS
  Webhooks,  \* the webhooks that the git provider sends, each of them once
  Repeated,  \* those that cover an app of apps and are put back when served
  NoWebhook

ASSUME ServerAssumption ==
  /\ Repeated \subseteq Webhooks
  /\ NoWebhook \notin Webhooks

VARIABLES
  main,     \* where main's goroutine stands
  expired,  \* the context of the shutdown has reached its deadline
  quit,     \* the worker's quit channel is closed
  request,  \* how far the handler of each webhook is
  queue,    \* the queue of events
  worker,   \* where the worker's goroutine stands
  next,     \* the event it took from the queue
  served    \* the events that went through Process

vars == <<main, expired, quit, request, queue, worker, next, served>>

TypeOK ==
  /\ main \in {"serving", "draining", "checking", "polling", "leaving",
               "exited", "failed"}
  /\ expired \in BOOLEAN
  /\ quit \in BOOLEAN
  /\ request \in [Webhooks -> {"none", "received", "refused", "queued", "answered"}]
  /\ queue \in Seq(Webhooks)
  /\ worker \in {"select", "sleep", "work", "wait", "respond", "stopped"}
  /\ next \in Webhooks \union {NoWebhook}
  /\ worker \in {"work", "wait", "respond"} <=> next \in Webhooks
  /\ served \subseteq Webhooks

Init ==
  /\ main = "serving"
  /\ expired = FALSE
  /\ quit = FALSE
  /\ request = [e \in Webhooks |-> "none"]
  /\ queue = <<>>
  /\ worker = "select"
  /\ next = NoWebhook
  /\ served = {}

Running == main \notin {"exited", "failed"}

-----------------------------------------------------------------------------
(* The HTTP server: it takes connections until it is shut down, and what   *)
(* it has taken is handled to the end, or to the end of the process.       *)
Active == {e \in Webhooks : request[e] \in {"received", "queued"}}

Receive(e) ==
  /\ main = "serving"
  /\ request[e] = "none"
  /\ request' = [request EXCEPT ![e] = "received"]
  /\ UNCHANGED <<main, expired, quit, queue, worker, next, served>>

(* ParseEvent fails, and the answer is 400.                                *)
Refuse(e) ==
  /\ Running
  /\ request[e] = "received"
  /\ request' = [request EXCEPT ![e] = "refused"]
  /\ UNCHANGED <<main, expired, quit, queue, worker, next, served>>

Enqueue(e) ==
  /\ Running
  /\ request[e] = "received"
  /\ request' = [request EXCEPT ![e] = "queued"]
  /\ queue' = Append(queue, e)
  /\ UNCHANGED <<main, expired, quit, worker, next, served>>

Reply(e) ==
  /\ Running
  /\ request[e] = "queued"
  /\ request' = [request EXCEPT ![e] = "answered"]
  /\ UNCHANGED <<main, expired, quit, queue, worker, next, served>>

(* ListenAndServe returns another error than ErrServerClosed.              *)
ServeFails ==
  /\ main = "serving"
  /\ main' = "failed"
  /\ UNCHANGED <<expired, quit, request, queue, worker, next, served>>

-----------------------------------------------------------------------------
(* main: the signal starts the shutdown and its deadline.                  *)
Signal ==
  /\ main = "serving"
  /\ main' = "draining"
  /\ UNCHANGED <<expired, quit, request, queue, worker, next, served>>

Expire ==
  /\ main \in {"draining", "checking", "polling"}
  /\ ~expired
  /\ expired' = TRUE
  /\ UNCHANGED <<main, quit, request, queue, worker, next, served>>

(* Mutant of Shutdown: the HTTP server is closed, not shut down.           *)
Close ==
  /\ main = "draining"
  /\ main' = "checking"
  /\ UNCHANGED <<expired, quit, request, queue, worker, next, served>>

(* srv.Shutdown returns when no request is active or the deadline is over. *)
Shutdown ==
  /\ main = "draining"
  /\ Active = {} \/ expired
  /\ main' = "checking"
  /\ UNCHANGED <<expired, quit, request, queue, worker, next, served>>

(* Mutant of StopSelect: the deadline is not looked at.                    *)
StopSelectForever ==
  /\ main = "checking"
  /\ main' = "polling"
  /\ UNCHANGED <<expired, quit, request, queue, worker, next, served>>

(* Worker.Stop: the select takes the deadline if it is over, and sleeps    *)
(* for a second before it looks at the queue if it is not.                 *)
StopSelect ==
  /\ main = "checking"
  /\ \/ /\ ~expired
        /\ main' = "polling"
        /\ UNCHANGED quit
     \/ /\ expired
        /\ main' = "leaving"
        /\ quit' = TRUE
  /\ UNCHANGED <<expired, request, queue, worker, next, served>>

StopPoll ==
  /\ main = "polling"
  /\ \/ /\ queue = <<>>
        /\ main' = "leaving"
        /\ quit' = TRUE
     \/ /\ queue # <<>>
        /\ main' = "checking"
        /\ UNCHANGED quit
  /\ UNCHANGED <<expired, request, queue, worker, next, served>>

(* Three seconds later os.Exit ends all goroutines.                        *)
Exit ==
  /\ main = "leaving"
  /\ main' = "exited"
  /\ UNCHANGED <<expired, quit, request, queue, worker, next, served>>

-----------------------------------------------------------------------------
(* Worker.Start.                                                           *)
Select ==
  /\ Running
  /\ worker = "select"
  /\ worker' = IF quit THEN "stopped" ELSE "sleep"
  /\ UNCHANGED <<main, expired, quit, request, queue, next, served>>

(* The end of the sleep; quit may have been closed in the meantime.        *)
Dequeue ==
  /\ Running
  /\ worker = "sleep"
  /\ \/ /\ queue = <<>>
        /\ worker' = "select"
        /\ UNCHANGED <<queue, next>>
     \/ /\ queue # <<>>
        /\ queue' = Tail(queue)
        /\ next' = Head(queue)
        /\ worker' = "work"
  /\ UNCHANGED <<main, expired, quit, request, served>>

(* GetData and Process.                                                    *)
Process ==
  /\ Running
  /\ worker = "work"
  /\ served' = served \union {next}
  /\ \/ /\ worker' = "select"
        /\ next' = NoWebhook
     \/ /\ worker' = "respond"
        /\ UNCHANGED next
     \/ /\ next \in Repeated
        /\ worker' = "wait"
        /\ UNCHANGED next
  /\ UNCHANGED <<main, expired, quit, request, queue>>

(* Thirty seconds later the event goes back to the queue.                  *)
PutBack ==
  /\ Running
  /\ worker = "wait"
  /\ queue' = Append(queue, next)
  /\ worker' = "respond"
  /\ UNCHANGED <<main, expired, quit, request, next, served>>

(* Mutant of Respond: the loop ends with the event still in hand.          *)
RespondKeepsNext ==
  /\ Running
  /\ worker = "respond"
  /\ worker' = "select"
  /\ UNCHANGED <<main, expired, quit, request, queue, next, served>>

Respond ==
  /\ Running
  /\ worker = "respond"
  /\ worker' = "select"
  /\ next' = NoWebhook
  /\ UNCHANGED <<main, expired, quit, request, queue, served>>

-----------------------------------------------------------------------------
Handler == \E e \in Webhooks : Receive(e) \/ Refuse(e) \/ Enqueue(e) \/ Reply(e)
Stop == StopSelect \/ StopPoll
Main == Shutdown \/ Stop \/ Exit
Start == Select \/ Dequeue \/ Process \/ PutBack \/ Respond

Next == Handler \/ ServeFails \/ Signal \/ Expire \/ Main \/ Start

Spec == Init /\ [][Next]_vars

(* main's goroutine is scheduled, and the context's timer fires.           *)
Fairness == WF_vars(Main) /\ WF_vars(Expire)
FairSpec == Spec /\ Fairness
-----------------------------------------------------------------------------
Accepted == {e \in Webhooks : request[e] \in {"queued", "answered"}}

(* When the shutdown is done before its deadline, all the events that were *)
(* put into the queue have been processed, but for one at most, which the  *)
(* worker has in hand: handlers are waited for before the worker is        *)
(* stopped, and the worker is not stopped before the queue is empty.       *)
StopLosesAtMostOne ==
  main \in {"leaving", "exited"} /\ ~expired =>
    \A e, f \in Accepted \ served : e = f

(* "Stopping gracefully": when the shutdown was done before its deadline,  *)
(* the process ends with every event processed that it has accepted.       *)
StopsGracefully ==
  main = "exited" /\ ~expired => Accepted \subseteq served

(* The process ends after a signal, even when handlers hang, the worker is *)
(* busy for ever, or events that are put back keep the queue filled.       *)
SignalExits == main = "draining" ~> main = "exited"
=============================================================================
