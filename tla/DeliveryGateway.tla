--------------------------- MODULE DeliveryGateway ---------------------------
(***************************************************************************)
(* The delivery gateway of platform-server: inbound messages become turns, *)
(* a scheduler claims one turn per session under a lease, a task of the    *)
(* server process runs the turn on an agent runtime, and four finalizers   *)
(* settle it.  The rows of the SQLite database survive a crash of the      *)
(* server, the tasks and the pending calls of its memory do not, and the   *)
(* agent runtime is a process of its own that survives it too.             *)
(*                                                                         *)
(* An action is one run of the JavaScript event loop between two awaits    *)
(* that can really suspend; a crash may fall between any two actions.      *)
(* The awaits of claim -> reserve -> phase 'executing' and of              *)
(* 'result_observed' -> completion resolve without leaving the microtask   *)
(* queue, so no other handler runs there (Quiet), but a crash may.         *)
(***************************************************************************)
EXTENDS Integers, FiniteSets

CONSTANTS
  NumTurns,              \* deliveries that can arrive; the number is the rowid
  Sessions,              \* session_routes
  Users,
  SessionOf,             \* turn -> session
  UserOf,                \* session -> owning user
  ContextOf,             \* turn -> native context id of its channel thread
  Commands,              \* turns whose content starts with '/'
  MaxGlobalConcurrency,  \* 10 in the code
  MaxUserConcurrency,    \* 10 in the code
  CandidateLimit,        \* LIMIT of the candidate query, 10 in the code
  MergeLimit,            \* LIMIT of the merge query, 10 in the code
  StartupTicks,          \* may the 1 s scheduler timer fire before redriveHeld is done?
  MaxCrashes,            \* bound: crashes of the server process
  MaxExpiries,           \* bound: leases and reservations that run out
  MaxResets              \* bound: session recoveries asked for by a user

Turns == 1..NumTurns

ASSUME TurnsAssumption == NumTurns \in Nat
ASSUME SessionsAssumption == SessionOf \in [Turns -> Sessions]
ASSUME UsersAssumption == UserOf \in [Sessions -> Users]
ASSUME LimitsAssumption ==
  /\ MaxGlobalConcurrency \in Nat
  /\ MaxUserConcurrency \in Nat
  /\ CandidateLimit \in Nat
  /\ MergeLimit \in Nat
ASSUME BoundsAssumption ==
  /\ StartupTicks \in BOOLEAN
  /\ MaxCrashes \in Nat
  /\ MaxExpiries \in Nat
  /\ MaxResets \in Nat

VARIABLES
  turn,        \* turn_runs.status
  inbox,       \* delivery_inbox.status
  idem,        \* idempotency_records.state
  merged,      \* turn_runs.error "merged into <turn>", 0 when not merged
  lease,       \* the latest session_execution_leases row of a turn
  bundle,      \* quota_bundles.status of the turn's delivery
  reply,       \* the assistant row of web_messages for the turn
  recovery,    \* session_recovery_state is recovery_required, current generation
  gateway,     \* the server process
  task,        \* activeTasks: the running runClaimedTurn of each turn
  cancel,      \* a pending cancelTurn call on a running turn
  paused,      \* pausedUserIds
  redrive,     \* leases redriveHeld has read and not yet reconciled
  exec,        \* the turn in the agent runtime's journal
  runs,        \* how many times execute was called for the turn
  seen,        \* messages whose content reached a runtime
  crashes, expiries, resets

dbVars  == <<turn, inbox, idem, merged, lease, bundle, reply, recovery>>
memVars == <<gateway, task, cancel, paused, redrive>>
extVars == <<exec, runs, seen>>
bounds  == <<crashes, expiries, resets>>
vars    == <<dbVars, memVars, extVars, bounds>>

-----------------------------------------------------------------------------
(* States *)

LiveStatus     == {"queued", "running"}
TerminalStatus == {"completed", "failed", "interrupted"}
TurnStatus     == {"none"} \cup LiveStatus \cup TerminalStatus
InboxStatus    == {"none", "held", "processing", "delivered", "failed", "cancelled"}
IdemState      == {"none", "held", "processing", "completed", "failed"}
LeaseStatus    == {"none", "active", "blocked", "released"}
LeasePhase     == {"claimed", "executing", "result_observed"}
BundleStatus   == {"none", "reserved", "committed", "released", "expired"}
TaskPc         == {"none", "claimed", "reserved", "resolving", "executing",
                   "failing", "observed"}
ErrorKind      == {"plain", "notice", "corrupt"}
ReservationState == {"none", "pending", "committed", "released"}
GatewayState   == {"down", "starting", "redriving", "up"}
CancelState    == {"none", "asked", "confirmed"}
ExecState      == {"absent", "running", "completed", "failed"}

NoLease == [status |-> "none", phase |-> "claimed", expired |-> FALSE]
NoTask  == [pc |-> "none", content |-> {}, res |-> "none",
            leaseLost |-> FALSE, error |-> "plain"]

LeaseRows == [status : LeaseStatus, phase : LeasePhase, expired : BOOLEAN]
TaskRows  == [pc : TaskPc, content : SUBSET Turns, res : ReservationState,
              leaseLost : BOOLEAN, error : ErrorKind]

\* Every row, task and journal entry has one of its states.
TypeOK ==
  /\ turn \in [Turns -> TurnStatus]
  /\ inbox \in [Turns -> InboxStatus]
  /\ idem \in [Turns -> IdemState]
  /\ merged \in [Turns -> {0} \cup Turns]
  /\ lease \in [Turns -> LeaseRows]
  /\ bundle \in [Turns -> BundleStatus]
  /\ reply \in [Turns -> {"none", "reply", "notice"}]
  /\ recovery \in [Sessions -> BOOLEAN]
  /\ gateway \in GatewayState
  /\ task \in [Turns -> TaskRows]
  /\ cancel \in [Turns -> CancelState]
  /\ paused \subseteq Users
  /\ redrive \in [Turns -> {"none"} \cup LeasePhase]
  /\ exec \in [Turns -> ExecState]
  /\ runs \in [Turns -> Nat]
  /\ seen \subseteq Turns
  /\ crashes \in 0..MaxCrashes
  /\ expiries \in 0..MaxExpiries
  /\ resets \in 0..MaxResets

Init ==
  /\ turn = [t \in Turns |-> "none"]
  /\ inbox = [t \in Turns |-> "none"]
  /\ idem = [t \in Turns |-> "none"]
  /\ merged = [t \in Turns |-> 0]
  /\ lease = [t \in Turns |-> NoLease]
  /\ bundle = [t \in Turns |-> "none"]
  /\ reply = [t \in Turns |-> "none"]
  /\ recovery = [s \in Sessions |-> FALSE]
  /\ gateway = "up"
  /\ task = [t \in Turns |-> NoTask]
  /\ cancel = [t \in Turns |-> "none"]
  /\ paused = {}
  /\ redrive = [t \in Turns |-> "none"]
  /\ exec = [t \in Turns |-> "absent"]
  /\ runs = [t \in Turns |-> 0]
  /\ seen = {}
  /\ crashes = 0 /\ expiries = 0 /\ resets = 0

-----------------------------------------------------------------------------
(* Reading the database and the memory *)

TurnsOf(s)      == {t \in Turns : SessionOf[t] = s}
Running(s)      == {t \in TurnsOf(s) : turn[t] = "running"}
ActiveTasks     == {t \in Turns : task[t].pc # "none"}
UserTasks(u)    == {t \in ActiveTasks : UserOf[SessionOf[t]] = u}
Leased(s, st)   == \E t \in TurnsOf(s) : lease[t].status \in st

\* No task is inside a run of microtasks: other handlers of the process may run.
Quiet == \A t \in Turns : task[t].pc \notin {"claimed", "reserved", "observed"}

\* An HTTP handler can run.
Serving == gateway = "up" /\ Quiet

-----------------------------------------------------------------------------
(* Row updates shared by the handlers *)

Pending == {"held", "processing"}

\* Mutant: the status is not tested.
MoveUntested(col, t, from, to) == [col EXCEPT ![t] = to]

\* UPDATE ... SET status = to WHERE turn_id = t AND status IN from
Move(col, t, from, to) == [col EXCEPT ![t] = IF @ \in from THEN to ELSE @]

\* Mutant: only a lease in phase 'executing' is released.
ReleaseLeasesExecuting(S, st) ==
  [t \in Turns |-> IF t \in S /\ lease[t].status \in st /\ lease[t].phase = "executing"
                   THEN [lease[t] EXCEPT !.status = "released", !.expired = FALSE]
                   ELSE lease[t]]

\* UPDATE session_execution_leases SET status = 'released' ... AND status IN st
ReleaseLeases(S, st) ==
  [t \in Turns |-> IF t \in S /\ lease[t].status \in st
                   THEN [lease[t] EXCEPT !.status = "released", !.expired = FALSE]
                   ELSE lease[t]]

\* releaseBundleInTransactionSync: only a reserved bundle changes.
ReleaseBundle(b) == IF b = "reserved" THEN "released" ELSE b

\* Mutant: the ledger is not told.
ReleaseByTaskForgotten(t) == bundle[t]

\* releaseInTransaction of the task's ManagedReservationBundle: a no-op unless
\* the object still believes the reservation to be pending.
ReleaseByTask(t) == IF task[t].res = "pending" THEN ReleaseBundle(bundle[t]) ELSE bundle[t]

\* commitInTransaction followed, when it throws, by releaseInTransaction.
CommitByTask(t, ok) ==
  CASE task[t].res # "pending"            -> bundle[t]
    [] ok /\ bundle[t] = "reserved"       -> "committed"
    [] OTHER                              -> ReleaseBundle(bundle[t])

\* The transaction of finalizeFailedTurn; b is what is left of the reservation.
FailRows(t, kind, b) ==
  /\ turn' = Move(turn, t, LiveStatus, "failed")
  /\ inbox' = Move(inbox, t, Pending, "failed")
  /\ idem' = Move(idem, t, Pending, "failed")
  /\ reply' = [reply EXCEPT ![t] = IF kind = "notice" /\ @ = "none" THEN "notice" ELSE @]
  /\ IF kind = "corrupt"
     THEN /\ recovery' = [recovery EXCEPT ![SessionOf[t]] = TRUE]
          /\ lease' = [lease EXCEPT ![t] = [@ EXCEPT !.status = "blocked", !.expired = FALSE]]
     ELSE /\ lease' = ReleaseLeases({t}, {"active"})
          /\ UNCHANGED recovery
  /\ bundle' = [bundle EXCEPT ![t] = b]
  /\ UNCHANGED merged

\* finalizeFailedTurn leaves a turn its user has cancelled alone.
FinalizeFailedTurn(t, kind, b) ==
  IF turn[t] = "interrupted" THEN UNCHANGED dbVars ELSE FailRows(t, kind, b)

\* finalizeInterruptedTurn, with the reservation recovered from the ledger.
FinalizeInterruptedTurn(t) ==
  /\ IF turn[t] \in TerminalStatus
     THEN UNCHANGED <<turn, inbox, idem>>
     ELSE /\ turn' = Move(turn, t, LiveStatus, "interrupted")
          /\ inbox' = Move(inbox, t, Pending, "failed")
          /\ idem' = Move(idem, t, Pending, "failed")
  /\ lease' = ReleaseLeases({t}, {"active"})
  /\ bundle' = [bundle EXCEPT ![t] = ReleaseBundle(@)]
  /\ UNCHANGED <<merged, reply, recovery>>

\* Mutant: the assistant message is not inserted.
CompleteRowsSilently(t) ==
  /\ turn' = Move(turn, t, LiveStatus, "completed")
  /\ inbox' = Move(inbox, t, Pending, "delivered")
  /\ idem' = Move(idem, t, Pending, "completed")
  /\ UNCHANGED reply

\* Mutant: the idempotency key keeps its state.
CompleteRowsKeepKey(t) ==
  /\ turn' = Move(turn, t, LiveStatus, "completed")
  /\ inbox' = Move(inbox, t, Pending, "delivered")
  /\ UNCHANGED idem
  /\ reply' = [reply EXCEPT ![t] = IF @ = "none" THEN "reply" ELSE @]

\* The rows of a completion: turn, inbox, idempotency key, assistant message.
CompleteRows(t) ==
  /\ turn' = Move(turn, t, LiveStatus, "completed")
  /\ inbox' = Move(inbox, t, Pending, "delivered")
  /\ idem' = Move(idem, t, Pending, "completed")
  /\ reply' = [reply EXCEPT ![t] = IF @ = "none" THEN "reply" ELSE @]

\* The finally block of runClaimedTurn.
EndTask(t) == task' = [task EXCEPT ![t] = NoTask]

-----------------------------------------------------------------------------
(* Inbound: dispatchInbound and ingestWebDelivery *)

\* A new delivery is stored as a queued turn, unless its session needs recovery.
\* The transaction tests the session again after the awaits of the handler.
DispatchInbound(t) ==
  /\ Serving
  /\ turn[t] = "none"
  /\ \A u \in Turns : u < t => turn[u] # "none"
  /\ ~recovery[SessionOf[t]]
  /\ ~Leased(SessionOf[t], {"blocked"})
  /\ turn' = [turn EXCEPT ![t] = "queued"]
  /\ inbox' = [inbox EXCEPT ![t] = "held"]
  /\ idem' = [idem EXCEPT ![t] = "held"]
  /\ UNCHANGED <<merged, lease, bundle, reply, recovery, memVars, extVars, bounds>>

-----------------------------------------------------------------------------
(* The scheduler: scheduleNextClaims and claimOneQueuedTurn *)

\* The timer is started by the constructor, before the server calls redriveHeld,
\* and fires again whenever redriveHeld awaits the runtime's answer on a turn.
TimerCanFire ==
  \/ gateway = "up"
  \/ /\ StartupTicks
     /\ \/ gateway = "starting"
        \/ /\ gateway = "redriving"
           /\ \E t \in Turns : redrive[t] \in {"executing", "result_observed"}

\* One tick claims in a loop and starts each task before its first microtask.
CanSchedule == TimerCanFire /\ \A t \in Turns : task[t].pc \notin {"reserved", "observed"}

Held(s) == {t \in TurnsOf(s) : turn[t] = "queued" /\ inbox[t] = "held"}

ExpiredLeases == {t \in Turns : lease[t].status = "active" /\ lease[t].expired}

\* Mutant: running turns are not looked at.
FreeSessionByLease(s) ==
  /\ \A t \in TurnsOf(s) : lease[t].status \in {"active", "blocked"} => t \in ExpiredLeases
  /\ ~recovery[s]

\* The sessions the candidate query admits, once expired leases are released.
FreeSession(s) ==
  /\ Running(s) = {}
  /\ \A t \in TurnsOf(s) : lease[t].status \in {"active", "blocked"} => t \in ExpiredLeases
  /\ ~recovery[s]

Eligible == {t \in Turns : t \in Held(SessionOf[t]) /\ FreeSession(SessionOf[t])}

\* ORDER BY rowid LIMIT 10
Candidates == {t \in Eligible : Cardinality({u \in Eligible : u < t}) < CandidateLimit}

UserMayRun(t) ==
  /\ UserOf[SessionOf[t]] \notin paused
  /\ Cardinality(UserTasks(UserOf[SessionOf[t]])) < MaxUserConcurrency

Selected(c) ==
  /\ c \in Candidates
  /\ UserMayRun(c)
  /\ \A u \in Candidates : u < c => ~UserMayRun(u)

\* The rows of the merge query, and the prefix of them that one turn can carry:
\* same native context as the first, and no command.
MergeRows(s) == {t \in Held(s) : Cardinality({u \in Held(s) : u < t}) < MergeLimit}

\* Mutant: the loop over the rows starts at the second one.
MergePrefixFromSecond(c) ==
  {t \in MergeRows(SessionOf[c]) \ {c} :
     \A u \in MergeRows(SessionOf[c]) :
       u <= t => u \notin Commands /\ ContextOf[u] = ContextOf[c]}

MergePrefix(c) ==
  {t \in MergeRows(SessionOf[c]) :
     \A u \in MergeRows(SessionOf[c]) :
       u <= t => u \notin Commands /\ ContextOf[u] = ContextOf[c]}

\* Mutant: the first turn of the prefix is run.
EffectiveFirst(c, e) == e = c

\* The turn that is run: the last of the prefix when two or more can be merged.
Effective(c, e) ==
  IF MergePrefix(c) \ {c} # {}
  THEN e \in MergePrefix(c) /\ \A u \in MergePrefix(c) : u <= e
  ELSE e = c

ClaimOneQueuedTurn(c, e) ==
  /\ CanSchedule
  /\ Cardinality(ActiveTasks) < MaxGlobalConcurrency
  /\ Selected(c)
  /\ Effective(c, e)
  /\ LET M == MergePrefix(c) \ {e} IN
       /\ turn' = [t \in Turns |-> CASE t = e -> "running"
                                     [] t \in M -> "completed"
                                     [] OTHER -> turn[t]]
       /\ inbox' = [t \in Turns |-> CASE t = e -> "processing"
                                      [] t \in M -> "delivered"
                                      [] OTHER -> inbox[t]]
       /\ idem' = [t \in Turns |-> CASE t = e /\ idem[t] = "held" -> "processing"
                                     [] t \in M -> "completed"
                                     [] OTHER -> idem[t]]
       /\ merged' = [t \in Turns |-> IF t \in M THEN e ELSE merged[t]]
       /\ task' = [task EXCEPT ![e] = [NoTask EXCEPT !.pc = "claimed", !.content = M \cup {e}]]
  /\ lease' = [ReleaseLeases(ExpiredLeases, {"active"}) EXCEPT
                 ![e] = [status |-> "active", phase |-> "claimed", expired |-> FALSE]]
  /\ UNCHANGED <<bundle, reply, recovery, gateway, cancel, paused, redrive, extVars, bounds>>

\* A tick that finds nothing to claim still releases the expired leases.
ReleaseExpiredLeases ==
  /\ CanSchedule
  /\ Cardinality(ActiveTasks) < MaxGlobalConcurrency
  /\ \A c \in Turns : ~Selected(c)
  /\ ExpiredLeases # {}
  /\ lease' = ReleaseLeases(ExpiredLeases, {"active"})
  /\ UNCHANGED <<turn, inbox, idem, merged, bundle, reply, recovery, memVars, extVars, bounds>>

\* pauseUserDispatch and resumeUserDispatch, called by the auto-upgrader.
PauseUserDispatch(u) ==
  /\ Serving
  /\ u \notin paused
  /\ paused' = paused \cup {u}
  /\ UNCHANGED <<dbVars, gateway, task, cancel, redrive, extVars, bounds>>

ResumeUserDispatch(u) ==
  /\ Serving
  /\ u \in paused
  /\ paused' = paused \ {u}
  /\ UNCHANGED <<dbVars, gateway, task, cancel, redrive, extVars, bounds>>

-----------------------------------------------------------------------------
(* A task: runClaimedTurn *)

\* quotaProvider.reserve: a fresh bundle, or the one an earlier attempt reserved.
ReserveQuota(t) ==
  /\ task[t].pc = "claimed"
  /\ bundle[t] \in {"none", "reserved", "committed"}
  /\ bundle' = [bundle EXCEPT ![t] = IF @ = "none" THEN "reserved" ELSE @]
  /\ task' = [task EXCEPT ![t] = [@ EXCEPT !.pc = "reserved", !.res = "pending"]]
  /\ UNCHANGED <<turn, inbox, idem, merged, lease, reply, recovery,
                 gateway, cancel, paused, redrive, extVars, bounds>>

\* The quota is exceeded, the bundle is settled, or the parameters of an
\* earlier reservation of the delivery differ: no bundle reaches the task.
QuotaRefused(t) ==
  /\ task[t].pc = "claimed"
  /\ FinalizeFailedTurn(t, "plain", bundle[t])
  /\ EndTask(t)
  /\ UNCHANGED <<gateway, cancel, paused, redrive, extVars, bounds>>

\* Mutant: the lease stays in phase 'claimed'.
BeginExecutingUnmarked(t) ==
  /\ task[t].pc = "reserved"
  /\ task' = [task EXCEPT ![t].pc = "resolving"]
  /\ UNCHANGED <<dbVars, gateway, cancel, paused, redrive, extVars, bounds>>

\* The lease moves to phase 'executing' and the heartbeat timer starts.
BeginExecuting(t) ==
  /\ task[t].pc = "reserved"
  /\ lease' = [lease EXCEPT ![t].phase = IF lease[t].status = "active" THEN "executing" ELSE @]
  /\ task' = [task EXCEPT ![t].pc = "resolving"]
  /\ UNCHANGED <<turn, inbox, idem, merged, bundle, reply, recovery,
                 gateway, cancel, paused, redrive, extVars, bounds>>

\* One run of the heartbeat timer: extend the lease, or learn that it is lost.
Heartbeat(t) ==
  /\ task[t].pc \in {"resolving", "executing", "failing"}
  /\ Quiet
  /\ ~task[t].leaseLost
  /\ IF lease[t].status = "active"
     THEN /\ lease[t].expired
          /\ lease' = [lease EXCEPT ![t].expired = FALSE]
          /\ UNCHANGED task
     ELSE /\ task' = [task EXCEPT ![t].leaseLost = TRUE]
          /\ UNCHANGED lease
  /\ UNCHANGED <<turn, inbox, idem, merged, bundle, reply, recovery,
                 gateway, cancel, paused, redrive, extVars, bounds>>

\* The profile or the model of the turn cannot be resolved.
ResolveFails(t) ==
  /\ task[t].pc = "resolving"
  /\ Quiet
  /\ FinalizeFailedTurn(t, "plain", ReleaseByTask(t))
  /\ EndTask(t)
  /\ UNCHANGED <<gateway, cancel, paused, redrive, extVars, bounds>>

\* Mutant: only the message of the turn itself is sent.
ExecuteTurnUnmerged(t) ==
  /\ task[t].pc = "resolving"
  /\ Quiet
  /\ task' = [task EXCEPT ![t].pc = "executing"]
  /\ exec' = [exec EXCEPT ![t] = "running"]
  /\ runs' = [runs EXCEPT ![t] = @ + 1]
  /\ seen' = seen \cup {t}
  /\ UNCHANGED <<dbVars, gateway, cancel, paused, redrive, bounds>>

\* executor.execute hands the merged content to the runtime.
ExecuteTurn(t) ==
  /\ task[t].pc = "resolving"
  /\ Quiet
  /\ task' = [task EXCEPT ![t].pc = "executing"]
  /\ exec' = [exec EXCEPT ![t] = "running"]
  /\ runs' = [runs EXCEPT ![t] = @ + 1]
  /\ seen' = seen \cup task[t].content
  /\ UNCHANGED <<dbVars, gateway, cancel, paused, redrive, bounds>>

\* The runtime ends the turn on its own, or because it was asked to cancel it.
RuntimeEndsTurn(t) ==
  /\ exec[t] = "running"
  /\ \E r \in {"completed", "failed"} : exec' = [exec EXCEPT ![t] = r]
  /\ UNCHANGED <<dbVars, memVars, runs, seen, bounds>>

\* execute rejects: mounts or extensions failed before the runtime was called, the
\* runtime failed, its answer is invalid, or the transport gave up on it.  A turn
\* its user has cancelled is left alone; for the others the runtime is told to
\* cancel, which the task awaits for at most 5 s.
ExecuteRejects(t) ==
  /\ task[t].pc \in {"resolving", "executing"}
  /\ Quiet
  /\ IF turn[t] = "interrupted" THEN EndTask(t)
     ELSE \E k \in ErrorKind : task' = [task EXCEPT ![t] = [@ EXCEPT !.pc = "failing", !.error = k]]
  /\ UNCHANGED <<dbVars, gateway, cancel, paused, redrive, extVars, bounds>>

\* After that await the turn is failed, unless it was cancelled meanwhile.
PersistExecutionFailure(t) ==
  /\ task[t].pc = "failing"
  /\ Quiet
  /\ FinalizeFailedTurn(t, task[t].error, ReleaseByTask(t))
  /\ EndTask(t)
  /\ UNCHANGED <<gateway, cancel, paused, redrive, extVars, bounds>>

\* execute resolves: the turn fails if its lease is known to be lost, otherwise
\* the lease moves to 'result_observed'.
ExecuteResolves(t) ==
  /\ task[t].pc = "executing"
  /\ Quiet
  /\ exec[t] = "completed"
  /\ IF task[t].leaseLost
     THEN /\ FinalizeFailedTurn(t, "plain", ReleaseByTask(t))
          /\ EndTask(t)
     ELSE /\ lease' = [lease EXCEPT ![t].phase =
                         IF lease[t].status = "active" THEN "result_observed" ELSE @]
          /\ task' = [task EXCEPT ![t].pc = "observed"]
          /\ UNCHANGED <<turn, inbox, idem, merged, bundle, reply, recovery>>
  /\ UNCHANGED <<gateway, cancel, paused, redrive, extVars, bounds>>

\* The usage of the result is missing or malformed.
UsageFails(t) ==
  /\ task[t].pc = "observed"
  /\ FinalizeFailedTurn(t, "plain", ReleaseByTask(t))
  /\ EndTask(t)
  /\ UNCHANGED <<gateway, cancel, paused, redrive, extVars, bounds>>

\* finalizeCompletedTurn, called by the task.  ok: the ledger accepts the usage.
FinalizeCompletedTurn(t, ok) ==
  CASE turn[t] = "completed" ->
         /\ lease' = ReleaseLeases({t}, {"active"})
         /\ bundle' = [bundle EXCEPT ![t] =
                         IF task[t].res = "pending" /\ ok /\ @ = "reserved" THEN "committed" ELSE @]
         /\ UNCHANGED <<turn, inbox, idem, merged, reply, recovery>>
    [] turn[t] \notin {"completed", "running"} ->      \* lost race: roll back
         UNCHANGED dbVars
    [] turn[t] = "running" /\ inbox[t] \notin Pending -> \* INVARIANT_VIOLATION: roll back
         /\ bundle' = [bundle EXCEPT ![t] = ReleaseByTask(t)]
         /\ UNCHANGED <<turn, inbox, idem, merged, lease, reply, recovery>>
    [] turn[t] = "running" /\ inbox[t] \in Pending /\ lease[t].status # "active" ->
         \* LEASE_LOST: the commit of the bundle is rolled back with the rest, but the
         \* object remembers it as settled, so the failure releases nothing
         FinalizeFailedTurn(t, "plain", bundle[t])
    [] OTHER ->
         /\ CompleteRows(t)
         /\ bundle' = [bundle EXCEPT ![t] = CommitByTask(t, ok)]
         /\ lease' = ReleaseLeases({t}, {"active"})
         /\ UNCHANGED <<merged, recovery>>

PersistTurnCompletion(t) ==
  /\ task[t].pc = "observed"
  /\ \E ok \in BOOLEAN : FinalizeCompletedTurn(t, ok)
  /\ EndTask(t)
  /\ UNCHANGED <<gateway, cancel, paused, redrive, extVars, bounds>>

-----------------------------------------------------------------------------
(* Cancelling: cancelTurn, cancelCurrentTurn, cancelQueuedTurn *)

\* The inbox check of both branches: any other status raises INVARIANT_VIOLATION.
InboxCancellable(t) == inbox[t] \in Pending \cup {"cancelled"}

\* Mutant: the inbox status is written to turn_runs too.
CancelQueuedTurnAsCancelled(t) ==
  /\ Serving
  /\ turn[t] = "queued"
  /\ InboxCancellable(t)
  /\ turn' = [turn EXCEPT ![t] = "cancelled"]
  /\ inbox' = Move(inbox, t, Pending, "cancelled")
  /\ idem' = [idem EXCEPT ![t] = "failed"]
  /\ UNCHANGED <<merged, lease, bundle, reply, recovery, memVars, extVars, bounds>>

\* A queued turn is cancelled by one transaction.
CancelQueuedTurn(t) ==
  /\ Serving
  /\ turn[t] = "queued"
  /\ InboxCancellable(t)
  /\ turn' = [turn EXCEPT ![t] = "interrupted"]
  /\ inbox' = Move(inbox, t, Pending, "cancelled")
  /\ idem' = [idem EXCEPT ![t] = "failed"]
  /\ UNCHANGED <<merged, lease, bundle, reply, recovery, memVars, extVars, bounds>>

\* A running turn is first cancelled in the runtime ...
CancelTurn(t) ==
  /\ Serving
  /\ turn[t] = "running"
  /\ cancel[t] = "none"
  /\ cancel' = [cancel EXCEPT ![t] = "asked"]
  /\ UNCHANGED <<dbVars, gateway, task, paused, redrive, extVars, bounds>>

\* ... which accepts only a turn it is running, and may still end it either way.
CancelAccepted(t) ==
  /\ cancel[t] = "asked"
  /\ exec[t] = "running"
  /\ cancel' = [cancel EXCEPT ![t] = "confirmed"]
  /\ UNCHANGED <<dbVars, gateway, task, paused, redrive, extVars, bounds>>

\* The runtime does not know the turn, or the call fails.
CancelRejected(t) ==
  /\ cancel[t] = "asked"
  /\ cancel' = [cancel EXCEPT ![t] = "none"]
  /\ UNCHANGED <<dbVars, gateway, task, paused, redrive, extVars, bounds>>

\* The transaction after the await: a compare-and-set on 'running'.
CancelCommits(t) ==
  /\ Serving
  /\ cancel[t] = "confirmed"
  /\ cancel' = [cancel EXCEPT ![t] = "none"]
  /\ IF turn[t] = "running" /\ InboxCancellable(t)
     THEN /\ turn' = [turn EXCEPT ![t] = "interrupted"]
          /\ inbox' = Move(inbox, t, Pending, "cancelled")
          /\ idem' = [idem EXCEPT ![t] = "failed"]
          /\ lease' = ReleaseLeases(TurnsOf(SessionOf[t]), {"active"})
          /\ bundle' = [bundle EXCEPT ![t] = ReleaseByTask(t)]
          /\ task' = [task EXCEPT ![t].res = IF @ = "pending" THEN "released" ELSE @]
          /\ UNCHANGED <<merged, reply, recovery>>
     ELSE UNCHANGED <<dbVars, task>>
  /\ UNCHANGED <<gateway, paused, redrive, extVars, bounds>>

-----------------------------------------------------------------------------
(* Session recovery: recoverValidPrefix and startNewGeneration *)

\* A new generation of the session: recovery resolved, every lease of the route
\* released, and its queued turns cancelled unless they are to be replayed.
ResetSession(s, replayQueued) ==
  /\ Serving
  /\ resets < MaxResets
  /\ resets' = resets + 1
  /\ recovery' = [recovery EXCEPT ![s] = FALSE]
  /\ lease' = ReleaseLeases(TurnsOf(s), {"active", "blocked"})
  /\ IF replayQueued THEN UNCHANGED <<turn, inbox>>
     ELSE /\ turn' = [t \in Turns |-> IF t \in TurnsOf(s) /\ turn[t] = "queued"
                                      THEN "interrupted" ELSE turn[t]]
          /\ inbox' = [t \in Turns |-> IF t \in TurnsOf(s) /\ inbox[t] = "held"
                                       THEN "cancelled" ELSE inbox[t]]
  /\ UNCHANGED <<idem, merged, bundle, reply, memVars, extVars, crashes, expiries>>

RecoverValidPrefix(s) == \E replayQueued \in BOOLEAN : ResetSession(s, replayQueued)

StartNewGeneration(s) == ResetSession(s, FALSE)

-----------------------------------------------------------------------------
(* Crash and restart: the constructor, redriveHeld *)

Crash ==
  /\ gateway # "down"
  /\ crashes < MaxCrashes
  /\ crashes' = crashes + 1
  /\ gateway' = "down"
  /\ task' = [t \in Turns |-> NoTask]
  /\ cancel' = [t \in Turns |-> "none"]
  /\ paused' = {}
  /\ redrive' = [t \in Turns |-> "none"]
  /\ UNCHANGED <<dbVars, extVars, expiries, resets>>

\* The constructor starts the scheduler timer; the server still has to start.
Boot ==
  /\ gateway = "down"
  /\ gateway' = "starting"
  /\ UNCHANGED <<dbVars, task, cancel, paused, redrive, extVars, bounds>>

\* redriveHeld reads the active leases, whichever process holds them.
RedriveHeld ==
  /\ gateway = "starting"
  /\ Quiet
  /\ gateway' = "redriving"
  /\ redrive' = [t \in Turns |-> IF lease[t].status = "active" THEN lease[t].phase ELSE "none"]
  /\ UNCHANGED <<dbVars, task, cancel, paused, extVars, bounds>>

\* Mutant: the turn is queued again, its inbox row is left in processing.
RequeueClaimedTurnOnly(t) ==
  /\ gateway = "redriving"
  /\ Quiet
  /\ redrive[t] = "claimed"
  /\ redrive' = [redrive EXCEPT ![t] = "none"]
  /\ lease' = [lease EXCEPT ![t] = [@ EXCEPT !.status = "released", !.expired = FALSE]]
  /\ turn' = [turn EXCEPT ![t] = "queued"]
  /\ UNCHANGED <<inbox, idem, merged, bundle, reply, recovery, gateway, task, cancel, paused,
                 extVars, bounds>>

\* Phase 'claimed': the executor was not called, so the turn is queued again.
RequeueClaimed(t) ==
  /\ gateway = "redriving"
  /\ Quiet
  /\ redrive[t] = "claimed"
  /\ redrive' = [redrive EXCEPT ![t] = "none"]
  /\ lease' = [lease EXCEPT ![t] = [@ EXCEPT !.status = "released", !.expired = FALSE]]
  /\ turn' = [turn EXCEPT ![t] = "queued"]
  /\ inbox' = [inbox EXCEPT ![t] = "held"]
  /\ idem' = [idem EXCEPT ![t] = "held"]
  /\ UNCHANGED <<merged, bundle, reply, recovery, gateway, task, cancel, paused, extVars, bounds>>

\* What inspectTurnResult may answer: an error or an empty reply counts as absent.
Inspected(t) == {"absent"} \cup (IF exec[t] \in {"completed", "failed"} THEN {exec[t]} ELSE {})

\* finalizeCompletedTurn with isReconcile, and the reservation of the ledger.
ReconcileCompleted(t, ok) ==
  LET b == IF bundle[t] # "reserved" THEN bundle[t]
           ELSE IF ok THEN "committed"
           ELSE IF turn[t] = "completed" THEN "reserved" ELSE "released"
  IN IF turn[t] \in {"failed", "interrupted"} THEN UNCHANGED dbVars
     ELSE /\ IF turn[t] = "completed" THEN UNCHANGED <<turn, inbox, idem, reply>>
             ELSE CompleteRows(t)
          /\ lease' = ReleaseLeases({t}, {"active"})
          /\ bundle' = [bundle EXCEPT ![t] = b]
          /\ UNCHANGED <<merged, recovery>>

\* Phase 'executing' or 'result_observed': the runtime is asked what became of it.
ReconcileInspected(t) ==
  /\ gateway = "redriving"
  /\ Quiet
  /\ redrive[t] \in {"executing", "result_observed"}
  /\ redrive' = [redrive EXCEPT ![t] = "none"]
  /\ \E r \in Inspected(t) :
       CASE r = "completed" -> \E ok \in BOOLEAN : ReconcileCompleted(t, ok)
         [] r = "failed" -> \E k \in {"plain", "corrupt"} :
                              FinalizeFailedTurn(t, k, ReleaseBundle(bundle[t]))
         [] OTHER -> FinalizeInterruptedTurn(t)
  /\ UNCHANGED <<gateway, task, cancel, paused, extVars, bounds>>

Reconciled == gateway = "redriving" /\ Quiet /\ \A t \in Turns : redrive[t] = "none"

\* Mutant: the lease rows are not compared.
OrphansNone == {}

\* The running turns of no active lease.
Orphans == {t \in Turns : turn[t] = "running" /\ lease[t].status # "active"}

\* A running turn without an active lease is interrupted.
InterruptOrphan(t) ==
  /\ Reconciled
  /\ t \in Orphans
  /\ FinalizeInterruptedTurn(t)
  /\ UNCHANGED <<memVars, extVars, bounds>>

\* Every inbox row and key still 'processing' is failed, and the server opens.
FinishRedrive ==
  /\ Reconciled
  /\ Orphans = {}
  /\ gateway' = "up"
  /\ inbox' = [t \in Turns |-> IF inbox[t] = "processing" THEN "failed" ELSE inbox[t]]
  /\ idem' = [t \in Turns |-> IF idem[t] = "processing" THEN "failed" ELSE idem[t]]
  /\ UNCHANGED <<turn, merged, lease, bundle, reply, recovery, task, cancel, paused, redrive,
                 extVars, bounds>>

-----------------------------------------------------------------------------
(* Time *)

\* 120 s pass without a heartbeat: the process is down, suspended or starved.
LeaseTimesOut(t) ==
  /\ expiries < MaxExpiries
  /\ lease[t].status = "active"
  /\ ~lease[t].expired
  /\ expiries' = expiries + 1
  /\ lease' = [lease EXCEPT ![t].expired = TRUE]
  /\ UNCHANGED <<turn, inbox, idem, merged, bundle, reply, recovery, memVars, extVars,
                 crashes, resets>>

\* The ledger expires a reservation past its TTL or its quota window.
BundleExpires(t) ==
  /\ expiries < MaxExpiries
  /\ bundle[t] = "reserved"
  /\ expiries' = expiries + 1
  /\ bundle' = [bundle EXCEPT ![t] = "expired"]
  /\ UNCHANGED <<turn, inbox, idem, merged, lease, reply, recovery, memVars, extVars,
                 crashes, resets>>

-----------------------------------------------------------------------------

TaskStep(t) ==
  \/ ReserveQuota(t) \/ QuotaRefused(t) \/ BeginExecuting(t)
  \/ ResolveFails(t) \/ ExecuteTurn(t) \/ ExecuteRejects(t)
  \/ PersistExecutionFailure(t) \/ ExecuteResolves(t)
  \/ UsageFails(t) \/ PersistTurnCompletion(t)

Claim == \E c, e \in Turns : ClaimOneQueuedTurn(c, e)

StartupStep ==
  \/ Boot \/ RedriveHeld \/ FinishRedrive
  \/ \E t \in Turns : RequeueClaimed(t) \/ ReconcileInspected(t) \/ InterruptOrphan(t)

Next ==
  \/ \E t \in Turns :
       \/ DispatchInbound(t) \/ TaskStep(t) \/ Heartbeat(t) \/ RuntimeEndsTurn(t)
       \/ CancelQueuedTurn(t) \/ CancelTurn(t) \/ CancelAccepted(t)
       \/ CancelRejected(t) \/ CancelCommits(t)
       \/ LeaseTimesOut(t) \/ BundleExpires(t)
  \/ Claim \/ ReleaseExpiredLeases
  \/ \E u \in Users : PauseUserDispatch(u) \/ ResumeUserDispatch(u)
  \/ \E s \in Sessions : RecoverValidPrefix(s) \/ StartNewGeneration(s)
  \/ Crash \/ StartupStep

Spec == Init /\ [][Next]_vars

-----------------------------------------------------------------------------
(* Safety *)

\* At most one turn of a session is running: the claim transaction, requeueing
\* at startup and the finalizers never let two turns of one agent session overlap,
\* whatever leases expire or are released under a running turn.
SingleRunning ==
  \A t, u \in Turns :
    turn[t] = "running" /\ turn[u] = "running" /\ SessionOf[t] = SessionOf[u] => t = u

\* An active lease belongs to a running turn.  redriveHeld relies on it: it queues
\* the turn of a 'claimed' lease again without looking at the turn's status, so a
\* lease left active behind a settled turn would bring that turn back to life.
LeaseNamesRunning ==
  \A t \in Turns : lease[t].status = "active" => turn[t] = "running"

\* A task that has not called the executor has a lease in phase 'claimed' or is
\* about to move it to 'executing'; once execute was called no lease of the turn
\* is active in phase 'claimed', so a restart never calls the executor again.
ExecutedAtMostOnce == \A t \in Turns : runs[t] <= 1

\* The user gets the agent's reply of a turn exactly when the turn is completed by
\* its own execution, never for a cancelled, failed or merged one; a failure shows
\* at most a notice.
ReplyMeansCompleted ==
  \A t \in Turns :
    /\ reply[t] = "reply" <=> turn[t] = "completed" /\ merged[t] = 0
    /\ reply[t] = "notice" => turn[t] = "failed"

\* Quota is charged only for a turn whose reply the user got: a cancellation, a
\* lost lease or a restart that races the completion never leaves a failed or
\* interrupted turn charged.
ChargedMeansReplied ==
  \A t \in Turns : bundle[t] = "committed" => reply[t] = "reply"

\* What the user sees, what is recorded and what is charged agree: reply, status
\* and quota of a turn are settled together by the finalizers.
OutcomeMatchesReply == ReplyMeansCompleted /\ ChargedMeansReplied

\* The rows of a delivery agree: turn_runs, delivery_inbox and idempotency_records
\* tell the same story.  The finalizers test this ("delivery_inbox row was not in
\* processing state") and give up on a turn for which it does not hold.
RowsAgree ==
  \A t \in Turns :
    /\ turn[t] = "queued" => inbox[t] = "held" /\ idem[t] = "held"
    /\ turn[t] = "running" => inbox[t] = "processing" /\ idem[t] = "processing"
    /\ turn[t] = "completed" => inbox[t] = "delivered" /\ idem[t] = "completed"
    /\ turn[t] = "failed" => inbox[t] = "failed" /\ idem[t] = "failed"
    /\ turn[t] = "interrupted" =>
         inbox[t] \in {"failed", "cancelled"} /\ idem[t] \notin {"processing", "completed"}

\* A turn that is over holds no reservation: whoever settles it (its task, a user's
\* cancellation, startup) also settles its quota bundle.
SettledHoldsNoQuota ==
  \A t \in Turns : turn[t] \in TerminalStatus => bundle[t] # "reserved"

\* When the turn that messages were merged into has its reply, the runtime has seen
\* all of those messages.
MergedContentDelivered ==
  \A t \in Turns : merged[t] # 0 /\ reply[merged[t]] = "reply" => t \in seen

\* The task count of one user that the comment in claimOneQueuedTurn gives.
AtMostTwoTasksPerUser == \A u \in Users : Cardinality(UserTasks(u)) <= 2

(* Action properties *)

\* A settled turn stays settled the way it was: no late result, cancellation or
\* startup pass changes it.
SettledIsFinal ==
  [][\A t \in Turns : turn[t] \in TerminalStatus => turn'[t] = turn[t]]_vars

\* A session's turns start in the order they arrived: when one starts, every
\* earlier one of the session is settled (or merged into it by the same step).
StartsInOrder ==
  [][\A t \in Turns : turn[t] = "queued" /\ turn'[t] = "running" =>
       \A u \in TurnsOf(SessionOf[t]) : u < t => turn'[u] \in TerminalStatus]_vars

\* README: "Only an authoritative session turn/end event with reason.kind === 'aborted'
\* results in cancellation": a cancelled turn has ended in the runtime.
CancelledHasEnded ==
  [][\A t \in Turns :
       cancel[t] = "confirmed" /\ turn[t] = "running" /\ turn'[t] = "interrupted"
         => exec[t] # "running"]_vars

\* README: startup resets stranded running turns to queued.
StartupRequeuesRunning ==
  [][gateway = "redriving" =>
       \A t \in Turns : turn[t] = "running" => turn'[t] \in {"running", "queued"}]_vars

(* Refinement *)

Queue == INSTANCE TurnQueue WITH status <- turn

\* The gateway implements the abstract queue of turns: claims, merges, restarts,
\* cancellations and recoveries are all steps that module TurnQueue allows.
ImplementsTurnQueue == Queue!Spec

(* Liveness *)

\* The scheduler keeps ticking, and resumeUserDispatch triggers it, so it runs
\* between a resume and the next pause (hence SF); tasks keep running, a runtime
\* ends every turn it was given, the auto-upgrader resumes the users it pauses, and
\* a server that went down is started again.
Fairness ==
  /\ SF_vars(Claim)
  /\ WF_vars(ReleaseExpiredLeases)
  /\ \A t \in Turns : WF_vars(TaskStep(t)) /\ WF_vars(RuntimeEndsTurn(t))
  /\ \A u \in Users : WF_vars(ResumeUserDispatch(u))
  /\ WF_vars(StartupStep)

LiveSpec == Spec /\ Fairness

\* Every accepted turn is settled, unless its session waits for a recovery.
EveryTurnSettles ==
  \A t \in Turns :
    turn[t] = "queued" ~> turn[t] \in TerminalStatus \/ recovery[SessionOf[t]]

=============================================================================
