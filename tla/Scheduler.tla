------------------------------ MODULE Scheduler ------------------------------
(***************************************************************************)
(* Which queued turn runs next.  The scheduler is woken by notifyScheduler *)
(* or by its timer and claims turns until none is left, ten are active or  *)
(* claimOneQueuedTurn returns null; the auto-upgrader takes one user at a  *)
(* time out of the schedule while that user's runtime is replaced.         *)
(*   runtime/delivery-gateway.ts   scheduleNextClaims, claimOneQueuedTurn  *)
(*   runtime/auto-upgrader.ts      checkAndUpgrade                         *)
(* A pass of the scheduler has no await in it: no other action happens     *)
(* between its first and its last claim.                                   *)
(***************************************************************************)
EXTENDS Naturals, FiniteSets

CONSTANTS
  Users, PerUser,  \* users, and the sessions each of them has
  Limit,           \* the code's 10: the rows of the candidate query, the rows
                   \* of one merge, the turns of all users and of one user
  MaxTurns,        \* bound: messages that arrive
  MaxUpgrades,     \* bound: upgrades the auto-upgrader starts
  MayCorrupt       \* whether a stored payload may fail to parse

(* What a run assumes of the constants.                                    *)
SchedulerAssumption ==
  /\ {PerUser, Limit, MaxTurns, MaxUpgrades} \subseteq Nat
  /\ Limit > 0 /\ MayCorrupt \in BOOLEAN

Sessions == Users \X (1..PerUser)
Idle == [pc |-> "idle", user |-> "none"]

VARIABLES
  queue,     \* the queued turns, the id in order of rowid: [id, session, bad]
  active,    \* sessions with a running turn (activeTasks)
  passing,   \* scheduleNextClaims is running
  wake,      \* schedulerTriggerPending
  up,        \* the auto-upgrader: where it is, and the user it paused
  arrived, upgrades

vars == <<queue, active, passing, wake, up, arrived, upgrades>>

Init ==
  /\ queue = {} /\ active = {}
  /\ passing = FALSE /\ wake = FALSE
  /\ up = Idle
  /\ arrived = 0 /\ upgrades = 0

UserActive(u) == Cardinality({s \in active : s[1] = u})

(* Mutant: the gateway does not remember who is paused.                    *)
PausedNobody == {}

Paused == IF up.pc = "idle" THEN {} ELSE {up.user}

-----------------------------------------------------------------------------
(* dispatchInbound ends with notifyScheduler.                              *)
Arrive(s, bad) ==
  /\ ~passing /\ arrived < MaxTurns
  /\ bad => MayCorrupt
  /\ arrived' = arrived + 1
  /\ queue' = queue \cup {[id |-> arrived', session |-> s, bad |-> bad]}
  /\ wake' = TRUE
  /\ UNCHANGED <<active, passing, up, upgrades>>

(* The oldest rows of a set, up to the limit, and the oldest of all.       *)
FirstRows(S) == {r \in S : Cardinality({q \in S : q.id < r.id}) < Limit}
Oldest(S) == CHOOSE r \in S : \A q \in S : r.id <= q.id

(* The candidate query: the oldest turns of sessions where none runs.      *)
Candidates == FirstRows({r \in queue : r.session \notin active})

(* The candidates that remain for the process: paused users and users with *)
(* too many active turns are passed over.                                  *)
Selectable == {r \in Candidates : /\ r.session[1] \notin Paused
                                  /\ UserActive(r.session[1]) < Limit}

(* notifyScheduler, or the one-second timer; a tick that would claim       *)
(* nothing is left out.                                                    *)
StartPass ==
  /\ ~passing /\ passing' = TRUE
  /\ wake \/ (Selectable # {} /\ Cardinality(active) < Limit)
  /\ wake' = FALSE
  /\ UNCHANGED <<queue, active, up, arrived, upgrades>>

(* The rows a claim of the session takes: its oldest, up to the limit.     *)
Merged(s) == FirstRows({r \in queue : r.session = s})

(* claimOneQueuedTurn: one turn of the first selectable session starts,    *)
(* with the messages of the others merged into it.                         *)
Claim ==
  /\ passing /\ Cardinality(active) < Limit
  /\ Selectable # {} /\ ~Oldest(Selectable).bad
  /\ LET s == Oldest(Selectable).session
     IN  /\ active' = active \cup {s}
         /\ queue' = queue \ Merged(s)
  /\ UNCHANGED <<passing, wake, up, arrived, upgrades>>

(* A payload that does not parse: the row fails, null is returned, and     *)
(* scheduleNextClaims takes null for an empty queue.                       *)
Quarantine ==
  /\ passing /\ Cardinality(active) < Limit
  /\ Selectable # {} /\ Oldest(Selectable).bad
  /\ queue' = queue \ {Oldest(Selectable)}
  /\ passing' = FALSE
  /\ UNCHANGED <<active, wake, up, arrived, upgrades>>

EndPass ==
  /\ passing
  /\ Selectable = {} \/ Cardinality(active) >= Limit
  /\ passing' = FALSE
  /\ UNCHANGED <<queue, active, wake, up, arrived, upgrades>>

(* The turn is finalized: activeTasks.delete and notifyScheduler.          *)
Settle(s) ==
  /\ ~passing /\ s \in active
  /\ active' = active \ {s}
  /\ wake' = TRUE
  /\ UNCHANGED <<queue, passing, up, arrived, upgrades>>

-----------------------------------------------------------------------------
(* checkAndUpgrade.                                                        *)

(* getUserActiveRoundsCount is zero for both counts.                       *)
RoundsIdle(u) ==
  /\ UserActive(u) = 0
  /\ \A r \in queue : r.session[1] # u

(* An outdated user that was idle long enough is paused.                   *)
PauseForUpgrade(u) ==
  /\ ~passing /\ up = Idle /\ upgrades < MaxUpgrades
  /\ RoundsIdle(u)
  /\ upgrades' = upgrades + 1
  /\ up' = [pc |-> "settling", user |-> u]
  /\ UNCHANGED <<queue, active, passing, wake, arrived>>

Resume == up' = Idle /\ wake' = TRUE

(* Mutant: the abort forgets to resume.                                    *)
RecheckStaysPaused ==
  /\ ~passing /\ up.pc = "settling"
  /\ up' = [up EXCEPT !.pc = IF RoundsIdle(up.user) THEN "stopping" ELSE "left"]
  /\ UNCHANGED <<queue, active, passing, wake, arrived, upgrades>>

(* After the settling time: still idle, or resumed.                        *)
Recheck ==
  /\ ~passing /\ up.pc = "settling"
  /\ \/ RoundsIdle(up.user) /\ up' = [up EXCEPT !.pc = "stopping"]
        /\ UNCHANGED wake
     \/ ~RoundsIdle(up.user) /\ Resume
  /\ UNCHANGED <<queue, active, passing, arrived, upgrades>>

(* stopRuntime returned or threw: dispatch resumes either way.             *)
Upgraded ==
  /\ ~passing /\ up.pc = "stopping"
  /\ Resume
  /\ UNCHANGED <<queue, active, passing, arrived, upgrades>>

Next ==
  \/ \E s \in Sessions, bad \in BOOLEAN : Arrive(s, bad)
  \/ StartPass \/ Claim \/ Quarantine \/ EndPass
  \/ \E s \in Sessions : Settle(s)
  \/ \E u \in Users : PauseForUpgrade(u)
  \/ Recheck \/ Upgraded

Spec == Init /\ [][Next]_vars

(* The timer fires, a pass runs to its end, turns settle (every turn has   *)
(* a deadline), and the calls of the upgrader return.                      *)
FairSpec ==
  /\ Spec
  /\ WF_vars(StartPass) /\ WF_vars(Claim) /\ WF_vars(Quarantine)
  /\ WF_vars(EndPass) /\ WF_vars(Recheck) /\ WF_vars(Upgraded)
  /\ \A s \in Sessions : WF_vars(Settle(s))

-----------------------------------------------------------------------------
(* The values the variables take; a queued turn has one row.               *)
TypeOK ==
  /\ queue \subseteq [id : 1..arrived, session : Sessions, bad : BOOLEAN]
  /\ \A r, q \in queue : r.id = q.id => r = q
  /\ active \subseteq Sessions /\ Cardinality(active) <= Limit
  /\ {passing, wake} \subseteq BOOLEAN
  /\ up \in {Idle} \cup [pc : {"settling", "stopping"}, user : Users]

(* stopRuntime is never called under a running turn: a user found idle is  *)
(* paused and found idle again before the runtime is stopped, and nothing  *)
(* of the user starts until it is resumed (auto-upgrader.ts:143).          *)
StopsOnlyIdle == up.pc = "stopping" => UserActive(up.user) = 0

(* Every queued turn leaves the queue, whoever is paused meanwhile and     *)
(* however many turns are ahead of it.                                     *)
EventuallyClaimed ==
  \A i \in 1..MaxTurns :
    (\E r \in queue : r.id = i) ~> ~(\E r \in queue : r.id = i)

(* Turns the scheduler could start now.                                    *)
Claimable == {r \in queue : /\ r.session \notin active
                            /\ r.session[1] \notin Paused}

(* A pass goes on while a slot is free and a turn can be started: with     *)
(* fewer queued turns than the window and payloads that parse, nothing     *)
(* that could run is left waiting for the next event or tick.              *)
EndsExhausted ==
  passing /\ ~passing' => Claimable' = {} \/ Cardinality(active') >= Limit

(* The same with a corrupt row in front: "Quarantine corrupt row without   *)
(* stopping the scheduler".                                                *)
CorruptRowDoesNotStop == [][EndsExhausted]_vars

(* The same with more queued turns of the paused user than the candidate   *)
(* query returns: "claims the oldest queued turn across all sessions".     *)
PausedUserDoesNotBlock == [][EndsExhausted]_vars

(* "Filter candidate by in-memory active tasks count per user (< 2)".      *)
TwoPerUser == \A u \in Users : UserActive(u) <= 2
=============================================================================
