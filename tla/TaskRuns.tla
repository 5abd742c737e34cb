------------------------------ MODULE TaskRuns ------------------------------
(***************************************************************************)
(* Scheduled tasks of one user: the rows of tasks, schedules and runs, and *)
(* the worker of the server process that claims a due task, dispatches it  *)
(* as a turn (or a script), watches it under a lease and settles it.       *)
(*                                                                         *)
(* Every repository operation is one transaction.  Time is kept as what    *)
(* the code asks of it: whether a lease has run out and whether a task is  *)
(* due; either may happen at any moment.  A renewal of the lease that      *)
(* succeeds changes nothing here, one that fails aborts the execution.     *)
(***************************************************************************)
EXTENDS Naturals, Sequences

CONSTANTS
  Tasks,
  Scripts,       \* the tasks with a script payload
  MaxRetries,    \* max_retries
  CancelFails,   \* may the cancellation of a turn throw?
  MaxRuns,       \* bound: runs of a task
  MaxOps,        \* bound: requests of the user
  MaxRestarts    \* bound: restarts of the process

(* What a run assumes of the constants.                                    *)
TaskAssumption ==
  /\ Tasks # {} /\ Scripts \subseteq Tasks
  /\ MaxRetries \in Nat /\ MaxRuns \in Nat /\ MaxOps \in Nat /\ MaxRestarts \in Nat
  /\ CancelFails \in BOOLEAN

VARIABLES
  task,       \* platform_tasks with task_schedules
  runs,       \* task_runs, by attempt_number, each with the turn it dispatched
  worker,     \* the memory of the worker
  ops,        \* requests so far
  restarts    \* restarts so far

vars == <<task, runs, worker, ops, restarts>>

Terminal == {"completed", "failed", "cancelled"}
Exists(t) == task[t].status \notin {"none", "deleted"}
NoLease == "none"

Idle(w) == [w EXCEPT !.pc = "idle"]
NoRun == 0

TaskRow ==
  [status : {"none", "pending", "claimed", "deleted"} \cup Terminal,
   recurring : BOOLEAN,             \* schedule_type cron or interval
   paused : BOOLEAN,                \* enabled = 0 and paused_at
   next : {"null", "later", "due"}, \* next_run_at
   claimant : Nat,                  \* claimant_id, 0 for NULL
   lease : {NoLease, "live", "expired"},
   claims : Nat]

RunRow ==
  [status : {"claimed"} \cup Terminal,
   claimant : Nat,
   lease : {"live", "expired"},
   turn : {"none", "live", "completed", "failed"},
   inLease : BOOLEAN]               \* finished_at of the turn is within the lease

TypeOK ==
  /\ task \in [Tasks -> TaskRow]
  /\ \A t \in Tasks : /\ runs[t] \in Seq(RunRow)
                      /\ Len(runs[t]) <= MaxRuns
  /\ worker \in [state : {"down", "running", "stopping", "stopped"}, id : Nat,
                 pc : {"idle", "start", "wait"}, task : Tasks, run : Nat,
                 aborted : BOOLEAN]
  /\ ops \in 0..MaxOps
  /\ restarts \in 0..MaxRestarts

Init ==
  /\ task = [t \in Tasks |->
               [status |-> "none", recurring |-> FALSE, paused |-> FALSE, next |-> "null",
                claimant |-> 0, lease |-> NoLease, claims |-> 0]]
  /\ runs = [t \in Tasks |-> <<>>]
  /\ worker = [state |-> "running", id |-> 1, pc |-> "idle", task |-> CHOOSE t \in Tasks : TRUE,
               run |-> NoRun, aborted |-> FALSE]
  /\ ops = 0
  /\ restarts = 0

-----------------------------------------------------------------------------
(* Requests of the user *)

Request == ops < MaxOps /\ ops' = ops + 1

\* Active as the claims see it: claimed, and the lease has not run out.
ActiveRun(run) == run.status = "claimed" /\ run.lease = "live"
Active(t) == \E i \in DOMAIN runs[t] : ActiveRun(runs[t][i])

\* A repeated create with the same idempotency key changes nothing.
Create(t, recurring, next) ==
  /\ Request
  /\ task[t].status = "none"
  /\ recurring => next = "later"
  /\ task' = [task EXCEPT ![t] = [@ EXCEPT !.status = "pending", !.recurring = recurring,
                                           !.next = next]]
  /\ UNCHANGED <<runs, worker, restarts>>

\* A change of the schedule; computeNextRun of a paused schedule is null.
Update(t, recurring, next) ==
  /\ Request
  /\ Exists(t)
  /\ task[t].status # "claimed"
  /\ ~Active(t)
  /\ task[t].status \notin (IF task[t].recurring THEN {"cancelled", "failed"} ELSE Terminal)
  /\ recurring => next = "later"
  /\ task' = [task EXCEPT ![t].recurring = recurring,
                          ![t].next = IF task[t].paused THEN "null" ELSE next]
  /\ UNCHANGED <<runs, worker, restarts>>

\* Mutant: the status of the run is not looked at.
CancelledRunAny(run) == [run EXCEPT !.status = "cancelled"]

CancelledRun(run) ==
  IF run.status = "claimed" THEN [run EXCEPT !.status = "cancelled"] ELSE run

Cancel(t) ==
  /\ Request
  /\ Exists(t)
  /\ task[t].status \notin Terminal
  /\ task' = [task EXCEPT ![t] = [@ EXCEPT !.status = "cancelled", !.claimant = 0,
                                           !.lease = NoLease, !.paused = TRUE]]
  /\ runs' = [runs EXCEPT ![t] = [i \in DOMAIN runs[t] |-> CancelledRun(runs[t][i])]]
  /\ UNCHANGED <<worker, restarts>>

Delete(t) ==
  /\ Request
  /\ Exists(t)
  /\ task[t].status # "claimed"
  /\ \A i \in DOMAIN runs[t] : runs[t][i].status # "claimed"
  /\ task' = [task EXCEPT ![t].status = "deleted"]
  /\ UNCHANGED <<runs, worker, restarts>>

Pause(t) ==
  /\ Request
  /\ Exists(t)
  /\ task' = [task EXCEPT ![t].paused = TRUE]
  /\ UNCHANGED <<runs, worker, restarts>>

\* Whatever the status of the task, and whether or not it is paused.
Resume(t) ==
  /\ Request
  /\ Exists(t)
  /\ task' = [task EXCEPT ![t] =
       [@ EXCEPT !.status = "pending", !.paused = FALSE, !.claimant = 0, !.lease = NoLease,
                 !.claims = 0, !.next = IF task[t].recurring THEN "later" ELSE task[t].next]]
  /\ UNCHANGED <<runs, worker, restarts>>

-----------------------------------------------------------------------------
(* Recovery of expired leases *)

Lapsed(row) == row.status = "claimed" /\ row.lease = "expired"

\* The next run of a recurring task that is settled, unless it lies ahead; null
\* for a paused one.
NextAfter(row, ifPaused) ==
  IF row.next = "later" THEN "later" ELSE IF row.paused THEN ifPaused ELSE "later"

\* Mutant: a recurring task runs out of retries.
RecoveredTaskAsOnce(row) ==
  IF ~Lapsed(row) THEN row
  ELSE [row EXCEPT !.status = IF row.claims >= MaxRetries THEN "failed" ELSE "pending",
                   !.lease = NoLease,
                   !.claimant = IF row.claims >= MaxRetries THEN @ ELSE 0]

\* Mutant: only the runs are swept.
RecoveredTaskNot(row) == row

RecoveredTask(row) ==
  IF ~Lapsed(row) THEN row
  ELSE IF row.recurring
  THEN [row EXCEPT !.status = "pending", !.claimant = 0, !.lease = NoLease, !.claims = 0,
                   !.next = NextAfter(row, "null")]
  ELSE IF row.claims >= MaxRetries
  THEN [row EXCEPT !.status = "failed", !.lease = NoLease]
  ELSE [row EXCEPT !.status = "pending", !.claimant = 0, !.lease = NoLease]

RecoveredTasks == [t \in Tasks |-> RecoveredTask(task[t])]

RecoveredRuns ==
  [t \in Tasks |-> [i \in DOMAIN runs[t] |->
     IF Lapsed(runs[t][i]) THEN [runs[t][i] EXCEPT !.status = "failed"] ELSE runs[t][i]]]

-----------------------------------------------------------------------------
(* The worker *)

\* Mutant: the runs are not looked at.
ClaimableOverlapping(row, rows) ==
  /\ row.status = "pending"
  /\ ~row.paused
  /\ row.next \in {"null", "due"}

\* claim: enabled, due, and no active run of the task (overlap policy skip).
Claimable(row, rows) ==
  /\ row.status = "pending"
  /\ ~row.paused
  /\ row.next \in {"null", "due"}
  /\ \A i \in DOMAIN rows : ~ActiveRun(rows[i])

ClaimedRow(row, next) ==
  [row EXCEPT !.status = "claimed", !.claimant = worker.id, !.lease = "live",
              !.claims = @ + 1, !.next = next]

\* Mutant: a run without a lease.
NewRunUnleased ==
  [status |-> "claimed", claimant |-> worker.id, lease |-> NoLease, turn |-> "none",
   inLease |-> FALSE]

NewRun ==
  [status |-> "claimed", claimant |-> worker.id, lease |-> "live", turn |-> "none",
   inLease |-> FALSE]

Execute(t, run) ==
  worker' = [worker EXCEPT !.pc = "start", !.task = t, !.run = run, !.aborted = FALSE]

\* One tick: recoverExpiredLeases, then claim.  Nothing else of the process runs
\* between the two, nor before the execution begins.  A recurring schedule moves
\* on when it is claimed.
Tick(t) ==
  /\ worker.state = "running" /\ worker.pc = "idle"
  /\ Claimable(RecoveredTasks[t], RecoveredRuns[t])
  /\ Len(runs[t]) < MaxRuns
  /\ task' = [RecoveredTasks EXCEPT ![t] =
                ClaimedRow(@, IF @.recurring THEN "later" ELSE @.next)]
  /\ runs' = [RecoveredRuns EXCEPT ![t] = Append(@, NewRun)]
  /\ Execute(t, Len(runs[t]) + 1)
  /\ UNCHANGED <<ops, restarts>>

\* A tick that finds nothing to claim, and the recovery of other expired leases.
TickIdle ==
  /\ worker.state = "running" /\ worker.pc = "idle"
  /\ RecoveredTasks # task \/ RecoveredRuns # runs
  /\ \A t \in Tasks : ~Claimable(RecoveredTasks[t], RecoveredRuns[t])
  /\ task' = RecoveredTasks
  /\ runs' = RecoveredRuns
  /\ UNCHANGED <<worker, ops, restarts>>

\* runNow: createManualRun for a recurring task, for another a claim of this task
\* and createManualRun when that yields nothing.
\* There is no look at worker.state, the pause, the due time or the retries.
RunNow(t) ==
  /\ Request
  /\ worker.state # "down" /\ worker.pc = "idle"
  /\ Exists(t)
  /\ task[t].status \notin (IF task[t].recurring THEN {"cancelled"} ELSE Terminal)
  /\ ~(task[t].status = "claimed" /\ task[t].lease = "live")
  /\ ~Active(t)
  /\ Len(runs[t]) < MaxRuns
  /\ task' = [task EXCEPT ![t] = ClaimedRow(@, @.next)]
  /\ runs' = [runs EXCEPT ![t] = Append(@, NewRun)]
  /\ Execute(t, Len(runs[t]) + 1)
  /\ UNCHANGED restarts

\* The rows that complete and fail may settle: claimed by this worker.
Mine(row) == row.status = "claimed" /\ row.claimant = worker.id

\* Mutant: every run of the worker is settled.
SettledRunsMine(t, R, status) ==
  [runs EXCEPT ![t] = [i \in DOMAIN runs[t] |->
     IF Mine(runs[t][i]) THEN [runs[t][i] EXCEPT !.status = status] ELSE runs[t][i]]]

SettledRuns(t, R, status) ==
  [runs EXCEPT ![t] = [i \in DOMAIN runs[t] |->
     IF i \in R /\ Mine(runs[t][i]) THEN [runs[t][i] EXCEPT !.status = status] ELSE runs[t][i]]]

\* Mutant: the retries are not counted.
FailedRowForever(row, retryable) ==
  [row EXCEPT !.status = IF row.recurring \/ retryable THEN "pending" ELSE "failed",
              !.claimant = 0, !.lease = NoLease]

FailedRow(row, retryable) ==
  IF row.recurring
  THEN [row EXCEPT !.status = "pending", !.claimant = 0, !.lease = NoLease, !.claims = 0,
                   !.next = NextAfter(row, row.next)]
  ELSE [row EXCEPT !.status = IF retryable /\ row.claims < MaxRetries THEN "pending" ELSE "failed",
                   !.claimant = 0, !.lease = NoLease]

\* fail; an error of it is swallowed.
Fail(t, R, retryable) ==
  IF Mine(task[t]) /\ task[t].lease = "live"
  THEN /\ task' = [task EXCEPT ![t] = FailedRow(@, retryable)]
       /\ runs' = SettledRuns(t, R, "failed")
  ELSE UNCHANGED <<task, runs>>

\* The lease is compared with the end of the turn, for a script with now.
MayComplete(t, run) ==
  /\ Mine(task[t])
  /\ IF t \in Scripts THEN task[t].lease = "live" ELSE runs[t][run].inLease

CompletedRow(row) ==
  IF row.recurring
  THEN [row EXCEPT !.status = "pending", !.claimant = 0, !.lease = NoLease, !.claims = 0,
                   !.next = NextAfter(row, row.next)]
  ELSE [row EXCEPT !.status = "completed", !.claimant = 0, !.lease = NoLease]

Complete(t, run) ==
  IF MayComplete(t, run)
  THEN /\ task' = [task EXCEPT ![t] = CompletedRow(@)]
       /\ runs' = SettledRuns(t, {run}, "completed")
  ELSE UNCHANGED <<task, runs>>

Turn == runs[worker.task][worker.run].turn

\* An invalid payload fails all runs of the worker, the preparation of the
\* input its own, neither looks at the abort.
StartFails(R) ==
  /\ worker.pc = "start"
  /\ Fail(worker.task, R, FALSE)
  /\ worker' = Idle(worker)
  /\ UNCHANGED <<ops, restarts>>

\* The dispatcher refuses: an invalid session or space, or the gateway's no.
DispatchFails ==
  /\ worker.pc = "start"
  /\ IF worker.aborted THEN UNCHANGED <<task, runs>>
     ELSE Fail(worker.task, {worker.run}, TRUE)
  /\ worker' = Idle(worker)
  /\ UNCHANGED <<ops, restarts>>

\* Whether the task is still claimed is left to the heartbeat.
Dispatch ==
  /\ worker.pc = "start"
  /\ ~worker.aborted
  /\ runs' = [runs EXCEPT ![worker.task][worker.run].turn = "live"]
  /\ worker' = [worker EXCEPT !.pc = "wait"]
  /\ UNCHANGED <<task, ops, restarts>>

\* A renewal that fails, or the execution budget at its end.
Heartbeat ==
  /\ worker.pc \in {"start", "wait"}
  /\ ~worker.aborted
  /\ ~(Mine(task[worker.task]) /\ task[worker.task].lease = "live") \/ worker.pc = "wait"
  /\ worker' = [worker EXCEPT !.aborted = TRUE]
  /\ UNCHANGED <<task, runs, ops, restarts>>

\* The poll sees the end of the turn.  An aborted execution writes nothing.
Poll ==
  /\ worker.pc = "wait"
  /\ Turn \in {"completed", "failed"}
  /\ IF worker.aborted THEN UNCHANGED <<task, runs>>
     ELSE IF Turn = "completed" THEN Complete(worker.task, worker.run)
     ELSE Fail(worker.task, {worker.run}, worker.task \notin Scripts)
  /\ worker' = Idle(worker)
  /\ UNCHANGED <<ops, restarts>>

\* Mutant: the turn goes on.
CancelledRunsNot(t, run) == runs

CancelledRuns(t, run) == [runs EXCEPT ![t][run].turn = "failed"]

\* cancelTurnInternal after an abort; nothing is written.
AbortTurn(fails) ==
  /\ worker.pc = "wait" /\ worker.aborted
  /\ Turn = "live"
  /\ fails => CancelFails
  /\ runs' = IF fails THEN runs ELSE CancelledRuns(worker.task, worker.run)
  /\ worker' = Idle(worker)
  /\ UNCHANGED <<task, ops, restarts>>

\* The turn takes too long: it is cancelled, then the run fails.
Timeout(fails) ==
  LET t == worker.task IN
  /\ worker.pc = "wait" /\ ~worker.aborted
  /\ Turn = "live"
  /\ fails => CancelFails /\ t \notin Scripts
  /\ IF Mine(task[t]) /\ task[t].lease = "live"
     THEN /\ task' = [task EXCEPT ![t] = FailedRow(@, t \notin Scripts)]
          /\ runs' = [SettledRuns(t, {worker.run}, "failed") EXCEPT
                        ![t][worker.run].turn = IF fails THEN @ ELSE "failed"]
     ELSE /\ runs' = IF fails THEN runs ELSE CancelledRuns(t, worker.run)
          /\ UNCHANGED task
  /\ worker' = Idle(worker)
  /\ UNCHANGED <<ops, restarts>>

\* stop with abortInFlight waits for the execution.
Stop ==
  /\ worker.state = "running"
  /\ restarts < MaxRestarts
  /\ worker' = IF worker.pc = "idle" THEN [worker EXCEPT !.state = "stopped"]
               ELSE [worker EXCEPT !.state = "stopping", !.aborted = TRUE]
  /\ UNCHANGED <<task, runs, ops, restarts>>

StopDone ==
  /\ worker.state = "stopping" /\ worker.pc = "idle"
  /\ worker' = [worker EXCEPT !.state = "stopped"]
  /\ UNCHANGED <<task, runs, ops, restarts>>

-----------------------------------------------------------------------------
(* The rest of the system *)

\* A turn, or the process of a script, ends; a later poll or nobody notices.
TurnEnds(t, i, outcome) ==
  /\ runs[t][i].turn = "live"
  /\ runs' = [runs EXCEPT ![t][i].turn = outcome,
                          ![t][i].inLease = task[t].lease = "live"]
  /\ UNCHANGED <<task, worker, ops, restarts>>

\* The rows of a task and its run get the same expiry with every claim and renewal.
LeaseExpires(t, i) ==
  /\ ActiveRun(runs[t][i])
  /\ runs' = [runs EXCEPT ![t][i].lease = "expired"]
  /\ task' = [task EXCEPT ![t].lease = IF @ = "live" THEN "expired" ELSE @]
  /\ UNCHANGED <<worker, ops, restarts>>

BecomesDue(t) ==
  /\ task[t].next = "later"
  /\ task' = [task EXCEPT ![t].next = "due"]
  /\ UNCHANGED <<runs, worker, ops, restarts>>

\* The process dies, or ends after stop; turns and scripts go on.
Crash ==
  /\ worker.state = "stopped" \/ (worker.state = "running" /\ restarts < MaxRestarts)
  /\ worker' = [Idle(worker) EXCEPT !.state = "down"]
  /\ UNCHANGED <<task, runs, ops, restarts>>

\* Start-up: recoverAfterRestart, and a worker with an id of its own.
Restart ==
  /\ worker.state = "down"
  /\ worker' = [worker EXCEPT !.state = "running", !.id = @ + 1, !.aborted = FALSE]
  /\ task' = RecoveredTasks
  /\ runs' = RecoveredRuns
  /\ restarts' = restarts + 1
  /\ UNCHANGED ops

WorkerStep ==
  \/ \E t \in Tasks : Tick(t)
  \/ TickIdle
  \/ \E all \in BOOLEAN :
       StartFails(IF all THEN DOMAIN runs[worker.task] ELSE {worker.run})
  \/ DispatchFails
  \/ Dispatch
  \/ Heartbeat
  \/ Poll
  \/ \E fails \in BOOLEAN : AbortTurn(fails) \/ Timeout(fails)
  \/ StopDone

UserStep ==
  \E t \in Tasks :
    \/ \E recurring \in BOOLEAN, next \in {"null", "later"} :
         Create(t, recurring, next) \/ Update(t, recurring, next)
    \/ Cancel(t) \/ Delete(t) \/ Pause(t) \/ Resume(t) \/ RunNow(t)

Next ==
  \/ WorkerStep
  \/ UserStep
  \/ \E t \in Tasks :
       \/ BecomesDue(t)
       \/ \E i \in DOMAIN runs[t] :
            \/ LeaseExpires(t, i)
            \/ \E outcome \in {"completed", "failed"} : TurnEnds(t, i, outcome)
  \/ Stop
  \/ Crash
  \/ Restart

Spec == Init /\ [][Next]_vars

\* The poll timer keeps ticking, a dispatched turn ends, time passes, and the
\* process is started again.
Fairness ==
  /\ WF_vars(WorkerStep)
  /\ WF_vars(Restart)
  /\ WF_vars(Crash /\ worker.state = "stopped")
  /\ \A t \in Tasks :
       /\ WF_vars(BecomesDue(t))
       /\ \A i \in 1..MaxRuns :
            /\ WF_vars(i \in DOMAIN runs[t] /\ LeaseExpires(t, i))
            /\ WF_vars(i \in DOMAIN runs[t]
                         /\ \E outcome \in {"completed", "failed"} : TurnEnds(t, i, outcome))

LiveSpec == Spec /\ Fairness

-----------------------------------------------------------------------------
(* Properties *)

\* Overlap policy skip: claims, manual runs, resumptions and recoveries never
\* leave two runs of a task active.
OneActiveRun ==
  \A t \in Tasks : \A i, j \in DOMAIN runs[t] :
    ActiveRun(runs[t][i]) /\ ActiveRun(runs[t][j]) => i = j

\* A claimed task is claimed by its latest run, with the same worker and lease,
\* so that the rows settle and expire together.
ClaimBackedByRun ==
  \A t \in Tasks :
    task[t].status = "claimed" =>
      /\ runs[t] # <<>>
      /\ LET r == runs[t][Len(runs[t])] IN
         r.status = "claimed" /\ r.claimant = task[t].claimant /\ r.lease = task[t].lease

\* "Recurring tasks must NEVER end in terminal 'failed' status!"
RecurringNeverFails ==
  \A t \in Tasks : task[t].recurring => task[t].status # "failed"

\* A task that waits for another attempt has one left, whatever failures,
\* expired leases and manual runs came before.
PendingHasRetries ==
  \A t \in Tasks :
    task[t].status = "pending" /\ ~task[t].recurring
      => task[t].claims = 0 \/ task[t].claims < MaxRetries

\* A run is recorded as completed only if the turn it dispatched itself was.
CompletedRunDidIt ==
  \A t \in Tasks : \A i \in DOMAIN runs[t] :
    runs[t][i].status = "completed" => runs[t][i].turn = "completed"

\* Runs that have ended are never rewritten by a late worker, cancellation or
\* recovery.
EndedRunsStay ==
  \A t \in Tasks : \A i \in DOMAIN runs[t] :
    runs[t][i].status # "claimed" => runs'[t][i].status = runs[t][i].status

\* Two turns of a task never run at the same time, which is what the overlap
\* policy is for.
TurnsDoNotOverlap ==
  \A t \in Tasks : \A i, j \in DOMAIN runs[t] :
    runs[t][i].turn = "live" /\ runs[t][j].turn = "live" => i = j

\* "Resume a paused scheduled task": a task that was cancelled is not revived.
CancelledStays ==
  [][\A t \in Tasks :
       task[t].status = "cancelled" => task'[t].status \in {"cancelled", "deleted"}]_vars

\* Every task that is not recurring ends, unless it is paused, although workers
\* crash, leases expire and turns fail.
EveryTaskEnds ==
  \A t \in Tasks :
    task[t].status \in {"pending", "claimed"}
      ~> \/ task[t].status \in Terminal \cup {"deleted"}
         \/ task[t].paused \/ task[t].recurring

=============================================================================
