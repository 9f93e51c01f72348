------------------------------ MODULE AppLock ------------------------------
(***************************************************************************)
(* What the bot promises about applications, as a lock service: an         *)
(* application is held by at most one pull request, it changes hands only  *)
(* by being released first, it is taken only for a pull request whose      *)
(* deploy command is being carried out and given back only for the one     *)
(* that holds it.  Applications that an app of apps manages may lose their *)
(* holder to a sync at any time.                                           *)
(***************************************************************************)
CONSTANTS Apps, PullRequests, Workers, Managed,
          None   \* no pull request

VARIABLES
  holder,  \* the pull request that each application is locked to
  serving  \* the command that each worker carries out

Idle == [action |-> "none", pr |-> None]
Command == [action : {"lock", "unlock"}, pr : PullRequests]

Init ==
  /\ holder = [a \in Apps |-> None]
  /\ serving = [w \in Workers |-> Idle]

Begin(w, c) ==
  /\ serving[w] = Idle
  /\ serving' = [serving EXCEPT ![w] = c]
  /\ UNCHANGED holder

End(w) == serving' = [serving EXCEPT ![w] = Idle]

(* The last change of a command may be the one that ends it.               *)
GoOn(w) == UNCHANGED serving \/ End(w)

Acquire(w, a, p) ==
  /\ serving[w] = [action |-> "lock", pr |-> p]
  /\ holder[a] = None
  /\ holder' = [holder EXCEPT ![a] = p]
  /\ GoOn(w)

Release(w, a, p) ==
  /\ serving[w] = [action |-> "unlock", pr |-> p]
  /\ holder[a] = p
  /\ holder' = [holder EXCEPT ![a] = None]
  /\ GoOn(w)

Lose(a) ==
  /\ a \in Managed
  /\ holder' = [holder EXCEPT ![a] = None]
  /\ UNCHANGED serving

Next ==
  \/ \E w \in Workers, c \in Command : Begin(w, c)
  \/ \E w \in Workers : End(w) /\ UNCHANGED holder
  \/ \E w \in Workers, a \in Apps, p \in PullRequests :
       Acquire(w, a, p) \/ Release(w, a, p)
  \/ \E a \in Apps : Lose(a)

Spec == Init /\ [][Next]_<<holder, serving>>
=============================================================================
