-------------------------- MODULE TaskNotifications --------------------------
(***************************************************************************)
(* The notices of failed and missed runs on a task's own route: the rows   *)
(* of task_notification_deliveries, the fast path of the task worker's     *)
(* fail, the maintenance pass every minute and the retry worker every ten  *)
(* seconds.  Both passes read a list of rows and then work through it,     *)
(* one send after another; every attempt writes back what it computed from *)
(* the row it was given.  Webhook and plain in_app subscriptions are left  *)
(* out.                                                                    *)
(***************************************************************************)
EXTENDS Naturals, FiniteSets

CONSTANTS
  N,              \* the occurrences are 1..N, in the order in which they end
  Missed,         \* those that are due times nobody started, the others failed runs
  InApp,          \* those whose route is the anchor session
  NoSession,      \* those without an active anchor session
  ScanLimit,      \* limit of findUnnotifiedFailedRuns and findMissedRuns
  PendingLimit,   \* limit of findPendingDeliveries
  MaxAttempts,    \* max_attempts of a delivery
  AllEvents,      \* does the subscription keep both events?
  MaxManual,      \* bound: manual retries
  MaxSwitches,    \* bound: changes of the setting
  MaxCrashes      \* bound: restarts of the process

Occ == 1..N

(* What a run assumes of the constants.                                    *)
NotificationAssumption ==
  /\ N \in Nat \ {0}
  /\ Missed \subseteq Occ /\ InApp \subseteq Occ /\ NoSession \subseteq Occ
  /\ ScanLimit \in Nat \ {0} /\ PendingLimit \in Nat \ {0} /\ MaxAttempts \in Nat \ {0}
  /\ AllEvents \in BOOLEAN
  /\ MaxManual \in Nat /\ MaxSwitches \in Nat /\ MaxCrashes \in Nat

VARIABLES
  occ,       \* what has happened: a failed run or a missed due time
  sub,       \* the task_route subscription
  row,       \* the delivery of each occurrence
  att,       \* the attempts in flight (inFlightDeliveries)
  pass,      \* the maintenance pass and the retry worker
  sends,     \* how often each notice was handed to the sender
  shown,     \* where the user can see each notice
  left       \* what the bounds still allow

vars == <<occ, sub, row, att, pass, sends, shown, left>>

Passes == {"maintenance", "retry"}
NoAttempt == [by |-> "none", attempts |-> 0, step |-> "none"]
NoRow == [status |-> "none", attempts |-> 0, due |-> FALSE]
IdlePass == [stage |-> "idle", todo |-> {}]
Settled == {"delivered", "dead_letter"}
Item(o) == [id |-> o, attempts |-> row[o].attempts]

TypeOK ==
  /\ occ \in [Occ -> {"none", "failed", "timeout", "started"}]
  /\ sub \in BOOLEAN
  /\ row \in [Occ -> [status : {"none", "pending", "failed"} \cup Settled,
                      attempts : 0..(MaxAttempts + MaxManual), due : BOOLEAN]]
  /\ att \in [Occ -> [by : {"none", "fast"} \cup Passes, attempts : 0..(MaxAttempts + MaxManual),
                      step : {"none", "send", "fallback"}]]
  /\ pass \in [Passes -> [stage : {"idle", "runs", "missed", "retry"},
                         todo : SUBSET [id : Occ, attempts : Nat]]]
  /\ sends \in [Occ -> Nat]
  /\ shown \in [Occ -> SUBSET {"im", "session"}]
  /\ left \in [manual : 0..MaxManual, switches : 0..MaxSwitches, crashes : 0..MaxCrashes]

Init ==
  /\ occ = [o \in Occ |-> "none"]
  /\ sub = TRUE
  /\ row = [o \in Occ |-> NoRow]
  /\ att = [o \in Occ |-> NoAttempt]
  /\ pass = [p \in Passes |-> IdlePass]
  /\ sends = [o \in Occ |-> 0]
  /\ shown = [o \in Occ |-> {}]
  /\ left = [manual |-> MaxManual, switches |-> MaxSwitches, crashes |-> MaxCrashes]

-----------------------------------------------------------------------------
(* What is reported *)

Events == IF AllEvents THEN {"failed", "timeout"} ELSE {"failed"}

\* Mutant: the subscription is not asked.
WantedAlways(o) == row[o].status = "none"

\* notifyRunFailure and notifyMissedRun: no delivery under the key yet, and the
\* setting wants the event.  Whether a missed run has started since the list was
\* read is not asked again.
Wanted(o) ==
  /\ row[o].status = "none"
  /\ sub
  /\ (IF o \in Missed THEN "timeout" ELSE occ[o]) \in Events

NewRow == [status |-> "pending", attempts |-> 0, due |-> FALSE]

\* runDeliveryExclusive: nothing while the same delivery is in flight.
Begun(by, item) ==
  IF att[item.id].by # "none" THEN att
  ELSE [att EXCEPT ![item.id] = [by |-> by, attempts |-> item.attempts, step |-> "send"]]

HandedOver(item) ==
  IF att[item.id].by # "none" \/ item.id \in InApp THEN sends
  ELSE [sends EXCEPT ![item.id] = @ + 1]

\* A run fails: fail of the worker reports it unless that throws, the end of a
\* lease is left to the maintenance pass.  The first send is queued with
\* setImmediate, ahead of timers and answers.  The runs end one after another.
RunFails(o, event, reported) ==
  /\ o \notin Missed
  /\ occ[o] = "none"
  /\ \A q \in 1..(o - 1) : occ[q] # "none"
  /\ occ' = [occ EXCEPT ![o] = event]
  /\ LET notify == reported /\ sub /\ event \in Events IN
     /\ row' = IF notify THEN [row EXCEPT ![o] = NewRow] ELSE row
     /\ att' = IF notify THEN Begun("fast", Item(o)) ELSE att
     /\ sends' = IF notify THEN HandedOver(Item(o)) ELSE sends
  /\ UNCHANGED <<sub, pass, shown, left>>

\* A pending task has not been started for half an hour after its due time.
DueTimePasses(o) ==
  /\ o \in Missed
  /\ occ[o] = "none"
  /\ \A q \in 1..(o - 1) : occ[q] # "none"
  /\ occ' = [occ EXCEPT ![o] = "timeout"]
  /\ UNCHANGED <<sub, row, att, pass, sends, shown, left>>

\* The scheduler starts it after all.
Starts(o) ==
  /\ o \in Missed
  /\ occ[o] = "timeout"
  /\ occ' = [occ EXCEPT ![o] = "started"]
  /\ UNCHANGED <<sub, row, att, pass, sends, shown, left>>

SetFailureNotificationEnabled(enabled) ==
  /\ left.switches > 0
  /\ sub # enabled
  /\ sub' = enabled
  /\ left' = [left EXCEPT !.switches = @ - 1]
  /\ UNCHANGED <<occ, row, att, pass, sends, shown>>

-----------------------------------------------------------------------------
(* One attempt *)

\* Mutant: whether the session could be written to is not looked at.
WriteInAppBlind(o) ==
  /\ att[o].step = "send"
  /\ o \in InApp
  /\ row' = [row EXCEPT ![o] = [status |-> "delivered", attempts |-> att[o].attempts + 1,
                                due |-> FALSE]]
  /\ shown' = IF o \in NoSession THEN shown ELSE [shown EXCEPT ![o] = @ \cup {"session"}]
  /\ att' = [att EXCEPT ![o] = NoAttempt]
  /\ UNCHANGED <<occ, sub, pass, sends, left>>

\* The route is the session: written, or there is none.
WriteInApp(o) ==
  /\ att[o].step = "send"
  /\ o \in InApp
  /\ row' = [row EXCEPT ![o] =
       [status |-> IF o \in NoSession THEN "dead_letter" ELSE "delivered",
        attempts |-> att[o].attempts + 1, due |-> FALSE]]
  /\ shown' = IF o \in NoSession THEN shown ELSE [shown EXCEPT ![o] = @ \cup {"session"}]
  /\ att' = [att EXCEPT ![o] = NoAttempt]
  /\ UNCHANGED <<occ, sub, pass, sends, left>>

\* The chat has the notice once, whatever the number of sends: the gateway
\* knows the outbox id.
Sent(o) ==
  /\ att[o].step = "send"
  /\ o \notin InApp
  /\ row' = [row EXCEPT ![o] = [status |-> "delivered", attempts |-> att[o].attempts + 1,
                                due |-> FALSE]]
  /\ shown' = [shown EXCEPT ![o] = @ \cup {"im"}]
  /\ att' = [att EXCEPT ![o] = NoAttempt]
  /\ UNCHANGED <<occ, sub, pass, sends, left>>

\* handleDeliveryFailure: the next attempt is due after a while.
SendFails(o) ==
  LET attempts == att[o].attempts + 1 IN
  /\ att[o].step = "send"
  /\ o \notin InApp
  /\ row' = [row EXCEPT ![o] = [status |-> IF attempts >= MaxAttempts THEN "dead_letter" ELSE "failed",
                                attempts |-> attempts, due |-> FALSE]]
  /\ att' = [att EXCEPT ![o] = IF attempts >= MaxAttempts THEN [att[o] EXCEPT !.step = "fallback"]
                               ELSE NoAttempt]
  /\ UNCHANGED <<occ, sub, pass, sends, shown, left>>

\* Mutant: the notice is dropped.
FallbackNot(o) ==
  /\ att[o].step = "fallback"
  /\ att' = [att EXCEPT ![o] = NoAttempt]
  /\ UNCHANGED <<occ, sub, row, pass, sends, shown, left>>

\* The chat has used up its attempts: leave the notice in the anchor session.
Fallback(o) ==
  /\ att[o].step = "fallback"
  /\ shown' = IF o \in NoSession THEN shown ELSE [shown EXCEPT ![o] = @ \cup {"session"}]
  /\ att' = [att EXCEPT ![o] = NoAttempt]
  /\ UNCHANGED <<occ, sub, row, pass, sends, left>>

\* next_retry_at is reached.
BackoffEnds(o) ==
  /\ row[o].status = "failed"
  /\ ~row[o].due
  /\ row' = [row EXCEPT ![o].due = TRUE]
  /\ UNCHANGED <<occ, sub, att, pass, sends, shown, left>>

RetryDelivery(o) ==
  /\ left.manual > 0
  /\ row[o].status # "none"
  /\ row' = [row EXCEPT ![o].status = "pending", ![o].due = FALSE]
  /\ att' = Begun("fast", Item(o))
  /\ sends' = HandedOver(Item(o))
  /\ left' = [left EXCEPT !.manual = @ - 1]
  /\ UNCHANGED <<occ, sub, pass, shown>>

-----------------------------------------------------------------------------
(* The passes *)

\* The list is worked through from the oldest on, so that the order of the ids
\* is the order of its items.
Oldest(S, limit) == {Item(o) : o \in {q \in S : Cardinality({r \in S : r < q}) < limit}}

\* findUnnotifiedFailedRuns and findMissedRuns: a disabled setting is seen,
\* the events are not.
Unnotified(S) ==
  {o \in S : occ[o] \in {"failed", "timeout"} /\ row[o].status = "none" /\ sub}

\* Mutant: what was given up is tried again.
PendingDeliveriesAgain ==
  {o \in Occ : row[o].status \in {"pending", "failed", "dead_letter"}}

\* Mutant: a failed attempt is the last.
PendingDeliveriesNew == {o \in Occ : row[o].status = "pending"}

\* findPendingDeliveries.
PendingDeliveries ==
  {o \in Occ : \/ row[o].status = "pending"
               \/ row[o].status = "failed" /\ row[o].attempts < MaxAttempts /\ row[o].due}

Busy(p) == \E o \in Occ : att[o].by = p

\* The list of a stage, read when the stage begins.
Stage(stage) ==
  [stage |-> stage,
   todo |-> CASE stage = "runs" -> Oldest(Unnotified(Occ \ Missed), ScanLimit)
              [] stage = "missed" -> Oldest(Unnotified(Missed), ScanLimit)
              [] stage = "retry" -> Oldest(PendingDeliveries, PendingLimit)
              [] stage = "idle" -> {}]

After(stage) == [idle |-> "runs", runs |-> "missed", missed |-> "retry", retry |-> "idle"][stage]

\* The timers: a pass that is still running is not started again.
StartPass(p) ==
  /\ pass[p] = IdlePass
  /\ pass' = [pass EXCEPT ![p] = Stage(IF p = "retry" THEN "retry" ELSE "runs")]
  /\ UNCHANGED <<occ, sub, row, att, sends, shown, left>>

\* A pass that waits for no send goes on at once: the statements between two
\* sends are not interrupted by timers or answers.
Ready(p) == pass[p].stage # "idle" /\ ~Busy(p)

NextStage(p) ==
  /\ Ready(p)
  /\ pass[p].todo = {}
  /\ pass' = [pass EXCEPT ![p] = Stage(After(pass[p].stage))]
  /\ UNCHANGED <<occ, sub, row, att, sends, shown, left>>

Skipped(item) == att[item.id].by # "none"

First(todo) == CHOOSE item \in todo : \A other \in todo : item.id <= other.id

\* The next of the list: reported and sent at once, or sent again as the list
\* has it.
PassStep(p) ==
  LET item == First(pass[p].todo)
      o == item.id
      scan == pass[p].stage \in {"runs", "missed"}
  IN
  /\ Ready(p)
  /\ pass[p].todo # {}
  /\ pass' = [pass EXCEPT ![p].todo = @ \ {item}]
  /\ IF (IF scan THEN Wanted(o) ELSE ~Skipped(item))
     THEN /\ row' = IF scan THEN [row EXCEPT ![o] = NewRow] ELSE row
          /\ att' = Begun(p, item)
          /\ sends' = HandedOver(item)
     ELSE UNCHANGED <<row, att, sends>>
  /\ UNCHANGED <<occ, sub, shown, left>>

\* The process dies and is started again: the rows are all that is left.
Crash ==
  /\ left.crashes > 0
  /\ left' = [left EXCEPT !.crashes = @ - 1]
  /\ att' = [o \in Occ |-> NoAttempt]
  /\ pass' = [p \in Passes |-> IdlePass]
  /\ UNCHANGED <<occ, sub, row, sends, shown>>

-----------------------------------------------------------------------------

Attempt(o) == WriteInApp(o) \/ Sent(o) \/ SendFails(o) \/ Fallback(o)
Waiting == \A p \in Passes : ~Ready(p)
PassWork(p) == NextStage(p) \/ PassStep(p) \/ (Waiting /\ StartPass(p))

Next ==
  \/ \E p \in Passes : PassWork(p)
  \/ /\ Waiting
     /\ \/ \E o \in Occ :
             \/ \E event \in {"failed", "timeout"}, reported \in BOOLEAN :
                  RunFails(o, event, reported)
             \/ DueTimePasses(o) \/ Starts(o)
             \/ Attempt(o)
             \/ BackoffEnds(o)
             \/ RetryDelivery(o)
        \/ \E enabled \in BOOLEAN : SetFailureNotificationEnabled(enabled)
        \/ Crash

Spec == Init /\ [][Next]_vars

\* Timers fire, sends return and backoffs end.
Fairness ==
  /\ \A p \in Passes : WF_vars(NextStage(p) \/ PassStep(p)) /\ SF_vars(Waiting /\ StartPass(p))
  /\ \A o \in Occ : SF_vars(Waiting /\ Attempt(o)) /\ SF_vars(Waiting /\ BackoffEnds(o))

LiveSpec == Spec /\ Fairness

-----------------------------------------------------------------------------
(* Properties *)

\* Nobody is told of a run of a task whose notices are switched off: a notice
\* that begins while the setting is off belongs to a delivery made before.
DisabledIsQuiet ==
  ~sub => \A o \in Occ : row[o].status = "none" => row'[o].status = "none"

\* A delivery is given up only after the anchor session has the notice instead,
\* when there is one ("leave the notice in the anchor session so it is not lost").
GivenUpIsShown ==
  \A o \in Occ :
    row[o].status = "dead_letter" /\ att[o].by = "none" /\ o \notin NoSession
      => shown[o] # {}

\* A delivery recorded as delivered can be seen somewhere.
DeliveredIsShown ==
  \A o \in Occ : row[o].status = "delivered" => shown[o] # {}

\* "A delivery is retried up to 5 times."
AttemptsBounded ==
  \A o \in Occ : sends[o] <= MaxAttempts

\* What has been delivered is not taken back by an attempt that began from an
\* older state of the row.
DeliveredStays ==
  [][\A o \in Occ : row[o].status = "delivered" => row'[o].status = "delivered"]_vars

\* "tasks that are now more than 30 minutes overdue are reported as missed, unless
\* the scheduler starts them first".
MissedWhenReported ==
  [][\A o \in Missed :
       row[o].status = "none" /\ row'[o].status # "none" => occ[o] # "started"]_vars

\* Every failed run whose event the setting wants is delivered or given up.
EveryFailureSettled ==
  \A o \in Occ \ Missed :
    occ[o] \in Events ~> row[o].status \in Settled \/ ~sub

=============================================================================
