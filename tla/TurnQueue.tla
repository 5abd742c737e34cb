------------------------------ MODULE TurnQueue ------------------------------
(***************************************************************************)
(* What the delivery gateway promises about the turns of its sessions,     *)
(* told with turn_runs.status alone: no leases, tasks, quota or restarts.  *)
(* A session is a queue of turns served one at a time in arrival order.  A *)
(* turn that starts may take earlier waiting turns of its session with it, *)
(* which are then done; a running turn may be put back at its place in the *)
(* queue; and a turn that is over stays over, with the same outcome.       *)
(***************************************************************************)
EXTENDS Integers

CONSTANTS NumTurns, Sessions, SessionOf

VARIABLE status

Turns   == 1..NumTurns
Outcome == {"completed", "failed", "interrupted"}

Init == status = [t \in Turns |-> "none"]

Earlier(t)  == {u \in Turns : SessionOf[u] = SessionOf[t] /\ u < t}
Waiting(S)  == \A t \in S : status[t] = "queued"
Idle(s)     == \A u \in Turns : SessionOf[u] = s => status[u] # "running"

\* Turns arrive one after the other.
Arrive(t) ==
  /\ status[t] = "none"
  /\ \A u \in Turns : u < t => status[u] # "none"
  /\ status' = [status EXCEPT ![t] = "queued"]

\* A turn starts in an idle session, with every earlier turn of the session over
\* or among the waiting turns M that it answers together with itself.
Start(t, M) ==
  /\ status[t] = "queued"
  /\ Idle(SessionOf[t])
  /\ M \subseteq Earlier(t)
  /\ Waiting(M)
  /\ \A u \in Earlier(t) \ M : status[u] \in Outcome
  /\ status' = [u \in Turns |-> IF u = t THEN "running"
                                ELSE IF u \in M THEN "completed" ELSE status[u]]

Finish(t, o) ==
  /\ status[t] = "running"
  /\ status' = [status EXCEPT ![t] = o]

\* A running turn that was never handed to the runtime waits again.
Requeue(t) ==
  /\ status[t] = "running"
  /\ status' = [status EXCEPT ![t] = "queued"]

\* Waiting turns are given up.
Withdraw(S) ==
  /\ Waiting(S)
  /\ status' = [u \in Turns |-> IF u \in S THEN "interrupted" ELSE status[u]]

Next ==
  \/ \E t \in Turns : Arrive(t) \/ Requeue(t) \/ \E o \in Outcome : Finish(t, o)
  \/ \E t \in Turns : \E M \in SUBSET Turns : Start(t, M)
  \/ \E S \in SUBSET Turns : Withdraw(S)

Spec == Init /\ [][Next]_status
=============================================================================
