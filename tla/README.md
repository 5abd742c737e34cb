# Verification of Enkeep

Enkeep is a multi-tenant platform that runs AI agents for its users. A message
from the web or a chat channel becomes a *turn* of a session; the platform server
queues turns in SQLite, runs them on an agent runtime (a daemon in the user's
container or on the host), and stores the reply. This directory holds TLA+ models
of the server, of what it keeps on disk and of the runtime, the TLC configurations
that check them, and TLAPS proofs.

Paths below are relative to `packages/` of the repository;
`delivery-gateway.ts` is `platform-server/src/runtime/delivery-gateway.ts`.

## Inventory

| Component | State it keeps | Operations | Interacts with | What is hard | What makes it correct |
|---|---|---|---|---|---|
| Delivery gateway (`delivery-gateway.ts`, `storage/web-messages.ts`) | `turn_runs`, `delivery_inbox`, `idempotency_records`, `session_execution_leases`, `session_recovery_state`, `web_messages`; in memory `activeTasks`, `pausedUserIds`, timers | dispatch, claim and merge, run, heartbeat, complete / fail / interrupt, cancel, pause, redrive at start-up, steer, drain | runtime executor, quota ledger, session lifecycle, auto-upgrader | handlers interleave at awaits; leases expire; crash between any two transactions | one turn per session, in order, executed at most once, settled once, all rows agree, quota settled, no turn forgotten |
| Scheduler and auto-upgrader (`delivery-gateway.ts`, `auto-upgrader.ts`) | queue order, paused users | pass, claim, quarantine, pause, stop, resume | gateway, runtime | window of ten rows, turns between check and pause | nobody's runtime is stopped under a turn; no startable turn is left behind |
| Steering (`steerTurn`, `promoteQueuedToSteer`) | `steer:` keys, queued turns | inject, promote, fall back to the queue | daemon | the running turn ends during the call | a message is seen once and never dropped |
| Quota ledger (`quota-ledger-repo.ts`, `tenant-quota-provider.ts`) | reservations, bundles, usage, limits | reserve, commit, release, renew, expire | gateway, inside the gateway's transactions | windows that reset, bundles over several metrics, re-reservation | bundles settle once and whole; charges stay within the limit |
| Session lifecycle and forks (`session-lifecycle-service.ts`, `fork-service.ts`) | generations, recovery state, fork journal | archive, restore, reset, recover a prefix, new generation, fork | runtime, gateway's leases and queue | awaits between reading and writing; stops between steps | route, generation and history agree; a fork is complete and made once |
| Task worker (`platform-operations`, `task-repo.ts`) | task runs and their leases | claim, heartbeat, retry, recover, cancel, pause, resume | gateway (agent prompts) | expiry, retries, restarts, user requests meanwhile | one active run, finished once, retries bounded, every task ends |
| Failure notices (`platform-server/src/notifications`) | delivery rows, subscriptions | report, scan, retry, give up | channels, anchor session | two passes over stale lists | nothing lost, attempts bounded |
| Lark channel (`channel-lark`, `channel-repo.ts`) | outbox rows, streaming cards | stream, finalize, send, redrive, reconcile | Lark | lost answers, stops between send and record | an answer is shown once and recorded as what it was |
| Approval and question bridges (`platform-server/src/interactions`) | pending interactions | ask, answer, list, expire, detach | runtime stream, channels | answer races list, clock and lost connection | one outcome per interaction, that of the runtime |
| File uploads and attachments (`server/handler.ts`, `file-ops.ts`, `storage/*-recovery.ts`) | stage, target, backup, journals, snapshots | stage, commit, finalize, roll back, recover, snapshot, ingest | runtime file API | a crash between any two steps, repeated requests | all or nothing; a repeated request has one effect |
| Runtime daemon (`runtime-runner/src/runtime/daemon.ts`, `session-lock.ts`) | session queues, agents, lock files, journal | submit, load, evict, sweep, maintain, lock | gateway through the transport | evictions wait, several processes | one agent and one lock holder per session, queues drain |
| Inbound receipts and event relay (`dsh-inbound`, `dsh-receipt-store-sqlite`, `dsh-event-relay`) | receipts, buffers, outbound queue, origins | follow-up, cancel, map, post, retry, attribute | agent, platform | duplicates, timeouts, overflow, turns of the agent's own | accepted once, stored once and in order, attributed to the right turn |
| Tunnel (`runtime-runner/src/tunnel`) | process, reconnect timer, stream numbers | start, reconnect, close, open, end, destroy | docker, proxies | late exits, reused numbers | no orphan process, no mixed-up streams |
| MCP and browser pools | connections, contexts | acquire, release, evict | runtime | limits, idle eviction | no leak, no double use |
| Profiles, skills, extensions, management, auth, imports, backup, UI, WeChat and Jarvis adapters | CRUD rows, files | request handlers | – | mostly single transactions or I/O | – |

`PROJECT.json` lists every component with its status, and forty hazards of the code, each
at its line, with the properties that are about it.

## Modules

| Module | Models |
|---|---|
| `DeliveryGateway` | the gateway, its database, its process, and the part of the runtime it relies on |
| `TurnQueue` | abstract specification: what the gateway promises about `turn_runs.status` |
| `DeliveryGatewayProofs` | inductive invariants and theorems about the gateway |
| `Scheduler` | a pass of `scheduleNextClaims` with its candidate window and the auto-upgrader |
| `Steering` | messages that reach a session while a turn runs |
| `QuotaLedger` | limits, windows, reservations and bundles of one user |
| `TaskRuns` | tasks, runs, leases and the task worker |
| `TaskNotifications` | notices of failed and missed runs: fast path, maintenance pass, retry worker |
| `Interactions` | approvals and questions in the runtime, on the wire and in the two bridges |
| `LarkOutbox` | outbox, streaming cards, redrive, scan and start-up reconciliation |
| `Attachments` | a message with an attachment: snapshot, journal, idempotency key, recovery |
| `FileTransfers` | uploads: stage, journal, commit, transaction, rollback and recovery |
| `SessionLifecycle` | archive, restore, reset, prefix recovery, fresh generations |
| `SessionForks` | the saga of a fork and its reconciliation |
| `TurnOrigins` | which platform turn, or which child, a turn of the agent belongs to |
| `InboundReceipts` | follow-ups and cancellations with a delivery id |
| `EventRelay` | buffer, frames, outbound queue and requests of the event relay |
| `SessionLock` | the lock file of a session, system call by system call |
| `DaemonAgents` | agents in memory: load, queue processors, eviction, sweep, maintenance |
| `TunnelHost` | the host's `docker exec` process, handshake, reconnects, close |
| `TunnelStreams` | streams and stream numbers at both ends of a tunnel |
| `QuotaLedgerProofs` | theorems about the ledger |
| `ServerTheorems` | theorems about `Steering`, `TaskRuns`, `TaskNotifications`, `LarkOutbox`, `Scheduler` |
| `StorageTheorems` | theorems about `SessionForks`, `SessionLifecycle`, `Attachments`, `TurnOrigins`, `FileTransfers` |
| `RunnerTheorems` | theorems about `SessionLock`, `InboundReceipts`, `DaemonAgents`, `TunnelHost`, `TunnelStreams` |
| `MCServerProofs`, `MCStorageProofs`, `MCRunnerProofs` | the same theorems for the instances of the three suites |
| `MCDeliveryGateway`, `MCServer`, `MCStorage`, `MCRunner` | instances for TLC |

Each component module says in its header which files and functions it translates, comments
each variable with the column, map or file it stands for, and has one action per handler or
per stretch of a handler between two awaits. Operators marked *Mutant* beside a definition are
the wrong versions of it that the properties are tested against: replacing the definition
by the mutant makes TLC report the property.

### DeliveryGateway

*Granularity.* Node runs one handler at a time and switches only at an `await`
that suspends, so one action is the code between two such awaits, with the whole
transaction it runs. Awaits that resolve inside the microtask queue (the quota
provider is synchronous SQLite behind an `async` function) do not let another
handler in: `Quiet` says that no task is inside such a stretch, and every handler
requires it. A crash requires nothing and may fall between any two actions, so a
stretch that is atomic for other handlers is still cut by crashes:
claim / reserve / phase `executing`, and `result_observed` / completion.

*State.* Each row variable maps a turn to a column: `turn`, `inbox`, `idem`, `merged`,
`lease` (the latest lease row of the turn: status, phase, whether `expires_at` has
passed), `bundle` (status of its quota bundle), `reply` (its assistant message).
`recovery` says that the session's current generation is `recovery_required`.
Memory of the process: `gateway` (down, starting, redriving, up), `task` (how far
`runClaimedTurn` is, the merged content it holds, the state the
`ManagedReservationBundle` object believes in, `leaseLost`), `cancel` (a
`cancelTurn` call waiting for the runtime), `paused`, `redrive` (the lease rows
`redriveHeld` has read and not yet handled). Outside: `exec` (the turn in the
runtime's journal), and the observers `runs` (calls of `execute`) and `seen`
(messages a runtime received). A turn's number is its `rowid`.

*Actions.*

| Action | Code |
|---|---|
| `DispatchInbound` | `dispatchInbound` and the transaction of `ingestWebDelivery`, which repeats the recovery checks |
| `ClaimOneQueuedTurn(c, e)`, `ReleaseExpiredLeases` | a step of `scheduleNextClaims` / `claimOneQueuedTurn`: expired leases released, candidate `c` chosen, its queued successors merged into the last one `e`, lease inserted, task started |
| `ReserveQuota`, `QuotaRefused`, `BeginExecuting`, `ResolveFails`, `ExecuteTurn`, `ExecuteRejects`, `PersistExecutionFailure`, `ExecuteResolves`, `UsageFails`, `PersistTurnCompletion` | `runClaimedTurn` from top to bottom, each error path to the finalizer it calls |
| `Heartbeat` | the 15 s timer: extend the lease, or note that it is lost |
| `FinalizeFailedTurn`, `FinalizeInterruptedTurn`, `FinalizeCompletedTurn`, `ReconcileCompleted` | the finalizers, as operators used by the actions |
| `CancelQueuedTurn`, `CancelTurn`, `CancelAccepted`, `CancelRejected`, `CancelCommits` | `cancelTurn` (and `cancelCurrentTurn`, `cancelQueuedTurn`, which end in the same updates), split at its await |
| `PauseUserDispatch`, `ResumeUserDispatch` | called by the auto-upgrader |
| `RecoverValidPrefix`, `StartNewGeneration` | the transactions of the session lifecycle service |
| `Crash`, `Boot`, `RedriveHeld`, `RequeueClaimed`, `ReconcileInspected`, `InterruptOrphan`, `FinishRedrive` | process exit, the constructor, and `redriveHeld` split at its await per lease |
| `RuntimeEndsTurn` | the daemon records the end of a turn |
| `LeaseTimesOut`, `BundleExpires` | time: 120 s without a heartbeat; the ledger's expiry |

*Abstractions.* Message texts, ids, timestamps, events and token amounts are left
out; what a reservation costs is not modelled, only its status, and whether the
ledger accepts a commit is a free choice. A turn ends in the runtime as completed
or failed (cancelled and timed out count as failed). The answer of
`inspectTurnResult` may always be `absent` (an error counts as that).

*Elsewhere.* Steering is module `Steering`; the loop of a scheduler pass with its
candidate window and the quarantine of a payload that is not JSON is `Scheduler`;
archived spaces and sessions and the numbers of generations are `SessionLifecycle`;
the amounts a reservation holds are `QuotaLedger`; attachments and idempotency keys of
a request are `Attachments`.

*Not modelled.* `drain` and `close`, chat commands, database errors, two server
processes on one database, and the refusal to start when a lease cannot be
reconciled (it takes a reply over 64 KiB, which the daemon's journal already caps).
At most one `cancelTurn` call per turn is pending at a time; a second one would
meet the same compare-and-set. After a crash the reservation of a requeued turn is asked for
again; that the ledger may refuse it for a changed estimate is in `QuotaRefused`, what the first
reservation then holds until its TTL is covered by no property.

### TurnQueue

A session is a queue: `Arrive`, `Start(t, M)` (in an idle session, with every
earlier turn over or among the waiting turns `M` it takes along), `Finish`,
`Requeue`, `Withdraw`. It knows nothing of leases, processes or quota.
`DeliveryGateway` instantiates it with `status <- turn`.

### The other components

*Common conventions.* A step is what the single thread of Node runs between two awaits, with
its whole transaction; a system call in `SessionLock` and in the file operations. Clocks are
kept as what the code asks of them (a lease has or has not run out, a row is or is not due).
Contents, texts and ids are model values. Bounds are the constants named `Max...`.

- **QuotaLedger.** `limit`, `window`, `resetAt`, `used` per metric, `bundle` and `item` rows
  per delivery, `single` reservations. Every operation of the repository is an action and
  starts with the lazy reset of the windows it reads; both sweeps are there, the one of a server
  start without the bundles.
- **TaskRuns.** `task` (row and schedule), `runs` by attempt, `worker`. Claim, run, heartbeat,
  settle, retry, lapse and recovery of the worker; create, cancel, delete, pause, resume and
  runNow of the user; stop, crash and restart.
- **TaskNotifications.** `row` and `att` per occurrence, `pass` with the list each timer has
  read, `shown` in the anchor session. A send may fail, and every attempt writes back what it
  computed from the row in its list.
- **Interactions.** `rt` and `mem` in the runtime, `reqs` and `wire` between, `pend`, `ans`,
  `out`, `told` in the bridge, `rec` the reconciliation, `armed` the timers. Connections break and come
  back until the transport has used up its retries (`GiveUp`), the runtime restarts, a transport is
  detached or replaced. The timer of an entry fires once: under an answer in flight it returns,
  and the catch of that answer does not set it again. `Stranded` names the entries this leaves
  without anything that would settle them.
- **LarkOutbox.** Rows, cards, trackers, the sender in flight and what the chat shows. A request
  may be shown although its answer is lost; a stop may fall between any two steps, so also between
  the commit of the outbox row and the commit of the card's row, after which the start-up
  reconciliation rewrites the card. Turns complete or fail. Where no card can be made a task's
  text is sent in its place, without a uuid. The scan looks back one day (`aged`).
- **Steering, Scheduler.** The gateway's operations that `DeliveryGateway` leaves out, with the
  runtime's own view of the running turn, respectively the queue by `rowid` and the window.
- **FileTransfers.** Files by content, journals by status, the handler's program counter, and the
  recovery of the next start as steps of its own, which a crash may cut as well. The row becomes
  `committed` in a commit of its own, before the transaction that makes it `finalized` and writes
  the receipt; a crash between the two leaves a `committed` row, which the recovery finalizes
  or rolls back by the hash of the target.
- **Attachments.** File, snapshots, journal rows, messages, requests. The space may be archived and
  restored; a recovery that finds it archived gives up its rows without looking at the snapshots
  (`skipped`).
- **SessionLifecycle.** Rows, generations and histories. A history becomes damaged at a place; a prefix
  recovery copies the turns before it and no more (`ValidPrefix`, `CopyPrefix`). Calls that
  await the runtime are split there, and other requests are served in between.
- **SessionForks.** The source session has generations, each with a history of its own, and messages of all
  of them; it may be reset between any two steps of a fork, so also between the plan and the export.
- **InboundReceipts, TurnOrigins.** Receipts and requests; bindings, pending origins and frames.
- **EventRelay.** Buffer, streams, queue, requests in flight and late arrivals. The watchdog may take
  a flush for dead (`PromptFlush = FALSE`); another then starts while the first is still in flight.
- **DaemonAgents.** Entries, locks, processors, evictors and maintenance. Besides the agent of an
  entry (`live`) the runtime has agents of its own: one made by an import, which stays in its map when the session's lock
  is released (`other`), and one that takes the place of an entry's agent when a turn brings another
  extension plan (`plan`, `replaced`).
- **SessionLock, TunnelHost, TunnelStreams.** The file with its inode; processes, pings, timer and
  close; sockets, streams, both number tables and the two pipes.

Components meet at these points: `DeliveryGateway` has the quota bundle, the session recovery
and the runtime's journal as far as it uses them; `SessionLifecycle` has the gateway's turns
and leases; `Steering` and `Scheduler` are the same gateway seen at another grain;
`DaemonAgents` uses the lock of `SessionLock` as a step that succeeds for one agent;
`TunnelHost` gives up the streams of `TunnelStreams` as a whole.

### Suites

`MCServer`, `MCStorage` and `MCRunner` each hold several instances of several components. The
components of a suite share no state; `part`, chosen in `Init` from the constant `Parts` and
never changed, names the instance a behaviour is about, and the variables of the others stay 0.
The reachable states of a suite are the disjoint union of those of its instances, so a property
of the form `part = i => P` says of the suite what `P` says of instance `i`, and nothing of one
instance can hide a failure of another. Fairness conditions carry the conjunct `part = i` for
the same reason. The `ASSUME` of a suite evaluates what each component assumes of its constants.

## What the runs check

| Run | Instances | Result |
|---|---|---|
| `faults` | gateway, two turns of one session; one crash, one expiry, one recovery, ticks during start-up | eight properties hold, 0.9 million states |
| `restart_rows` | the same, no tick during start-up | `RowsAgree` holds, 0.6 million states |
| `cancel_quota` | three turns of one session, the third not mergeable; no faults | `SettledHoldsNoQuota`, `MergedContentDelivered` hold, 0.9 million states |
| `liveness` | two turns of one session, two faults of which at most one is an expiry, fairness | `EveryTurnSettles` holds, 0.3 million states |
| `server` | twelve instances of `TaskRuns`, `TaskNotifications`, `Interactions`, `LarkOutbox`, `Steering`, `Scheduler` | six properties hold, 0.8 million states |
| `server_liveness` | five smaller ones, fairness | five properties hold, 60 thousand states |
| `storage` | eleven instances of `QuotaLedger`, `Attachments`, `FileTransfers`, `SessionLifecycle`, `SessionForks`, `TurnOrigins` | six properties hold, 1.8 million states |
| `runner` | fifteen instances of `SessionLock`, `DaemonAgents`, `InboundReceipts`, `EventRelay`, `TunnelHost`, `TunnelStreams` | six properties hold, 1.6 million states |
| `runner_liveness` | five, fairness; of `DaemonAgents` one with a maintenance request and one with plans that change and loads that fail | four properties hold, 0.1 million states |
| `notices_liveness` | `TaskNotifications`, one row per pass, a crash, fairness | `EveryFailureSettled` holds |
| `v_startup` | gateway, two sessions, one crash, tick during start-up | `RowsAgree` is violated |
| `v_torn` | `FileTransfers`, one upload, one crash | `OverwriteNeverEmpties` is violated |

*The gateway.* `SingleRunning` (one turn of a session at a time), `LeaseNamesRunning`
(an active lease is of a running turn; `redriveHeld` relies on it),
`ExecutedAtMostOnce` (no crash makes `execute` run twice for a turn),
`OutcomeMatchesReply` (reply, outcome and charge agree whichever of cancellation, lost lease,
failure, restart wins), `RowsAgree` (the three tables tell one story),
`SettledHoldsNoQuota`, `MergedContentDelivered`, `SettledIsFinal`, `StartsInOrder`,
`ImplementsTurnQueue`, `EveryTurnSettles`.

*The server.* `RunsExclusive` (one active run, backed by its claim, ended runs stay, retries
bounded, scripts do not overlap), `NoticesReachUser` (given up on the channel means shown in
the session, delivered means shown, off means quiet), `OneOutcome` (the bridge tells what the
runtime did, once, and misses nothing), `AnswerShown`, `MessageSeenOnce`, `PassesAndUpgrades`.

*Storage.* `LedgerSettles` (bundles whole, charged once, within the limit, settled for good),
`AttachedOnce`, `UploadsAtomic` (all or nothing through crashes in handler and recovery),
`GenerationsHold`, `ForksComplete`, `OriginsTrue`.

*The runtime.* `OneHolder`, `OneAgent`, `AcceptedOnce`, `EventsInOrder`, `NoOrphan`,
`StreamsApart`, and the liveness properties `QueueDrains`, `TurnEndArrives`, `ReconnectEnds`,
`NumbersReturn`.

*Bounds.* Two turns of one session are the least that can be merged, overlap, or
start out of order; three with a command also give a merge followed by a turn that
stays queued. One crash, one expiry and one recovery each can fall anywhere, and
together in any order: every safety hazard listed needs at most one of each. For liveness
the second crash can fall into the start-up after the first, and the orphan sweep of
`redriveHeld` needs an expiry before a crash; `FewFaultsSpec` has both within one bound. The 10s
of the code (concurrency limits, `LIMIT 10`) are kept and are not reached by so few turns;
`Scheduler` has a limit of two to four, and the proofs hold for all of them.
In the suites an instance has the two or three requests, messages, processes or
connections a race needs, one or two of each fault, and tables (queues, windows, stream numbers)
of one to three places so that they are full in some states. Where a component has several
instances they split the faults: one has the crashes, the other the concurrent
requests or the limits; each action of a component fires in one of its instances.
`CHECK_DEADLOCK FALSE` everywhere: a server with nothing to do waits, and does so in each
of these instances once the bounded work is over.

*What an instance leaves out on purpose.* Some properties fail in larger instances for reasons
that are listed below as disagreements. The passing instance then excludes that cause and
nothing else: `TurnsDoNotOverlap` is checked for scripts, `ReservedBundleIsWhole` without the
restart sweep, `GivenUpIsShown` without a crash, `CauseIsTrue` and `OneTurnOneId` with children
that report between turns, `SessionLock` with one other process when a process dies,
`TunnelHost` with exits reported before the next process starts,
`AcceptedNotRefused` with handlers that read to the end at once, `EndsExhausted` with a window no
smaller than the queue and payloads that parse, `SettledHoldsNoQuota` without
expiry, `MergedContentDelivered` without a crash, `RowsAgree` without a tick in start-up,
`InOrder` of the stored frames without flushes that are taken for dead (`PromptFlush`).

Other exceptions are part of a property because the code means them or has no better:
- `OrphansCollected` excepts the snapshots of an archived space, whose rows the recovery aborts
  unread (`message-attachments-protocol.test.ts:1518` asserts this), and is checked and proved with
  `LostReplies = FALSE`: a copy made although its request failed has no row to be found by.
- `RouteHasHistory` is about the generation a fork was planned of: `forkSession` copies the messages of
  all generations and exports the history of the current one. `startNewGeneration` under a running turn
  is in `SessionLifecycle` and not in `SessionForks`.
- `ShownOnce` holds of a task only while Lark takes its cards, which like the text in their place have no
  uuid; `DeliveredMeansShown` is not about failed turns, see `FailureShown` below;
  `EventuallyAnswered` excepts a server started again more than a day later.
- `PendingSettles` excepts stranded entries, see `ExpiredLocally` below.
- `HistoryKeepsTurns` excepts the turns behind the damage of a history that is recovered.
- `AgentHasLock` is about the agents of entries; for those the runtime makes for itself see
  `LockedInMemory` below.
- `EveryFailureSettled` assumes a pass within the 24 hours the maintenance query looks back
  (`task-failure-notifier.ts` 95-109), and a subscription that lists every event.

Paths left out because they cannot be taken: the poll of a run finding its result
invalid (`task-worker.ts` 1157-1175; the dispatcher builds the result itself, and the gateway
completes no turn without a delivered reply), and the claim of a task whose lease has expired
(`task-repo.ts` 677-687; the recovery of the same tick has released it). Details left out: the
structured-id and name rules by which `TurnOrigins.Reporter` is found (`service.ts` 553-596); the
deferral of a plan change while an agent's extensions are dirty (`dsh-boot.ts` 2038-2066, 4298); the
`error` of a socket is taken together with the `close` that follows it.

*Fairness.* The scheduler's interval timer and the `notifyScheduler` calls make ticks
recur (`Claim`, `ReleaseExpiredLeases`). `Claim` has strong fairness because
`resumeUserDispatch` triggers the scheduler itself: a user paused again and again
is still served between a resume and the next pause. Tasks and start-up are
promises that resolve. A runtime ends each turn because turns have a timeout; the
auto-upgrader resumes in every branch, errors included. In the suites weak fairness is given
to timers (`setInterval` passes, reconnect, backoff, expiry), to the continuation of awaited
calls (plan updates of the daemon and flushes of the relay among them), which end by success or
by their timeout, to the event loop handling what has arrived
and to a stopped process being started again. In `Interactions` the timer of an entry is fair and
fires once, and a lost connection comes back *or* is given up (`WF(Reconnect \/ GiveUp)`).
`TaskNotifications` has strong fairness for
its timers and sends, which are enabled only between the synchronous stretches of the passes. Nothing is
assumed of users, cancellations, heartbeats, crashes, expiries or lost connections.

## Where code and documentation disagree

Two runs show a disagreement each:

1. **A tick during start-up strands a turn** (`v_startup`). The constructor starts the
   scheduler; `redriveHeld` then awaits the runtime once per lease. A tick in between
   claims a queued turn of another session, and the end of `redriveHeld` fails *every*
   inbox row in `processing`. The turn's completion hits the "delivery_inbox row was not in
   processing state" assertion and rolls back; the turn stays `running`, its lease
   expires, and its session is blocked until the next restart.
2. **A torn overwrite empties the path** (`v_torn`). A runtime stopped between the two renames
   of an overwrite leaves stage and backup and no target; the recovery tries the branch "stage
   present" first, deletes the stage and records `aborted`, and the old file stays under its
   rollback name.

The others are stated as definitions of the modules, and each is violated by the specification
and the constants given here (constants equal to their own names are left out; `MC` definitions are
those of `MCDeliveryGateway`, with the code's limits of 10).

#### DeliveryGateway

- `StartupRequeuesRunning` (documentation), `platform-server/src/runtime/delivery-gateway.ts:5439`. README-en.md:163 says redriveHeld 'atomically resets stranded `processing` delivery inbox records to `held`, `processing` idempotency records to `held`, and `running` turn runs to `queued`'. The code requeues only turns of a lease in phase 'claimed'; the others it completes, fails or interrupts, and orphans it interrupts.  
  *Instance:* `Spec`, `NumTurns = 1, Sessions = {s1}, Users = {u1}, SessionOf <- OneTurn, UserOf <- TwoUsers, StartupTicks = FALSE, MaxCrashes = 1, MaxExpiries = 0, MaxResets = 0`
- `SettledHoldsNoQuota`, `platform-server/src/runtime/delivery-gateway.ts:3249`. finalizeCompletedTurn commits the bundle (3225) before it finds its lease gone and rolls back (3248-3251). The rollback restores the row to 'reserved', but the ManagedReservationBundle object keeps state 'committed' (579), so releaseInTransaction in finalizeFailedTurn returns at once (588). The turn is failed and its reservation stays reserved until its TTL. platform-server/tests/session-serialization-and-recovery-defense.test.ts:577 says 'Quota reservations are committed honestly and released when turns settle'.  
  *Instance:* `Spec`, `NumTurns = 2, Sessions = {s1}, Users = {u1}, SessionOf <- TwoTurns, UserOf <- TwoUsers, StartupTicks = FALSE, MaxCrashes = 0, MaxExpiries = 1, MaxResets = 0`
- `MergedContentDelivered`, `platform-server/src/runtime/delivery-gateway.ts:5264`. A claim that merges queued messages settles the earlier ones as 'completed' (2323-2339) and keeps their content only in memory. After a crash in phase 'claimed', redriveHeld queues the effective turn again, 'Executor was not called: release lease and requeue safely' (platform-server/src/runtime/delivery-gateway.ts:5253), and the next claim sends its own message alone: the merged messages are marked delivered and never reach the runtime.  
  *Instance:* `Spec`, `NumTurns = 2, Sessions = {s1}, Users = {u1}, SessionOf <- TwoTurns, UserOf <- TwoUsers, StartupTicks = FALSE, MaxCrashes = 1, MaxExpiries = 0, MaxResets = 0`
- `AtMostTwoTasksPerUser` (documentation), `platform-server/src/runtime/delivery-gateway.ts:2075`. The comment in platform-server/src/runtime/delivery-gateway.ts:2063 says 'Filter candidate by in-memory active tasks count per user (< 2)'; the code admits a user with fewer than 10 tasks.  
  *Instance:* `Spec`, `NumTurns = 3, Sessions = {s1, s2, s3}, Users = {u1}, SessionOf <- TurnEach, UserOf <- OneUser, StartupTicks = FALSE, MaxCrashes = 0, MaxExpiries = 0, MaxResets = 0`
- `CancelledHasEnded` (documentation), `platform-server/src/runtime/delivery-gateway.ts:4128`. README-en.md:169 says 'Only an authoritative session `turn/end` event with `reason.kind === 'aborted'` results in cancellation, atomically transitioning the turn run to `interrupted`'. The daemon answers 'cancelled' as soon as it has signalled the agent (runtime-runner/src/runtime/daemon.ts:1888-1893), and cancelTurn marks the turn interrupted on that answer, while the runtime may still be running it and may complete it.  
  *Instance:* `Spec`, `NumTurns = 1, Sessions = {s1}, Users = {u1}, SessionOf <- OneTurn, UserOf <- TwoUsers, StartupTicks = FALSE, MaxCrashes = 0, MaxExpiries = 0, MaxResets = 0`

#### QuotaLedger

- `ExpiresWithItsMetrics`, `platform-storage-sqlite/src/repos/quota-ledger-repo.ts:228`. The comment at platform-storage-sqlite/src/repos/quota-ledger-repo.ts:226 says 'Expire linked quota bundles'; the UPDATE below it has no condition on the metric, so the end of the window of, say, api_calls expires every reserved bundle of the user. The turns that hold them run to the end and then fail to commit.  
  *Instance:* `Spec`, `Deliveries = {d1}, Singles = {}, Hard = {turns}, Other = {api_calls}, Amounts = {1, 2}, Estimates = {TRUE}, Limits = {2}, Windows = {2}, BundleTtl = 2, SingleTtl = 1, RenewTtl = 1, MaxTime = 3, MaxUsed = 4, MaxSets = 3, Restarts = FALSE`
- `ReservedBundleIsWhole`, `platform-storage-sqlite/src/operations-storage.ts:229`. recoverAfterRestart expires the rows of quota_reservations past their TTL and does not touch quota_bundles (expireStaleReservations of the repository updates both). The bundle stays reserved, can be renewed, and its commit ends in the error of platform-storage-sqlite/src/repos/quota-ledger-repo.ts:903, 'Database corruption: expected quota_reservations count mismatch', although the comment at :887 says of the linked rows 'always exactly 3'.  
  *Instance:* `Spec`, `Deliveries = {d1}, Singles = {}, Hard = {turns}, Other = {}, Amounts = {1, 2}, Estimates = {TRUE}, Limits = {2}, Windows = {2}, BundleTtl = 2, SingleTtl = 1, RenewTtl = 1, MaxTime = 3, MaxUsed = 4, MaxSets = 2, Restarts = TRUE`
- `ReleasedHoldsNothing`, `platform-storage-sqlite/src/repos/quota-ledger-repo.ts:969`. README-en.md:179 says 'Quota reservations use atomic CAS transitions (`reserved` -> `committed` / `released` / `expired`) and are released on turn cancellation'. A window reset expires the bundle but only the reservations of its own metric (quota-ledger-repo.ts:219-231); a later releaseBundle finds the bundle 'expired' and returns (969), and the reservations of the other metrics hold their capacity until their TTL.  
  *Instance:* `Spec`, `Deliveries = {d1}, Singles = {}, Hard = {turns}, Other = {}, Amounts = {1, 2}, Estimates = {TRUE}, Limits = {2}, Windows = {2}, BundleTtl = 2, SingleTtl = 1, RenewTtl = 1, MaxTime = 3, MaxUsed = 4, MaxSets = 2, Restarts = FALSE`
- `DebtBlocks`, `platform-storage-sqlite/src/repos/quota-ledger-repo.ts:762`. The comment at platform-storage-sqlite/src/repos/quota-ledger-repo.ts:855 says of an overage 'future turns will be blocked at preflight claim time because remaining will be 0'. commitBundleInTransactionSync does not look at reset_at; a commit that falls after the reset instant and before the next getUsageInternal is added to the old usage, and the lazy reset then sets it to 0 together with it.  
  *Instance:* `Spec`, `Deliveries = {d1, d2}, Singles = {}, Hard = {turns}, Other = {}, Amounts = {1, 2}, Estimates = {TRUE}, Limits = {2}, Windows = {2}, BundleTtl = 2, SingleTtl = 1, RenewTtl = 1, MaxTime = 3, MaxUsed = 4, MaxSets = 2, Restarts = FALSE`

#### TaskRuns

- `TurnsDoNotOverlap` (documentation), `platform-storage-sqlite/src/repos/task-repo.ts:643`. The comment at platform-storage-sqlite/src/repos/task-repo.ts:635 says 'Overlap policy check: if overlap_policy is 'skip', check if an active run is in progress'. The check asks for a run whose lease is live. The turn of a run is driven by the delivery gateway, which redrives it after a crash; when the lease of the dead worker has run out the task is claimed again, with a new delivery, while the first turn is still executed.  
  *Instance:* `Spec`, `Tasks = {t1}, Scripts = {}, MaxRetries = 2, CancelFails = FALSE, MaxRuns = 2, MaxOps = 1, MaxRestarts = 1`
- `CancelledStays` (documentation), `platform-storage-sqlite/src/repos/task-repo.ts:1561`. platform-operations/src/ports/task-port.ts:82 says 'Resume a paused scheduled task', and runs of a cancelled task are refused everywhere else (TaskAlreadyCompletedError, task-repo.ts:1927). resume does not look at the status: a cancelled task, like a completed one, becomes pending again with its retries reset.  
  *Instance:* `Spec`, `Tasks = {t1}, Scripts = {}, MaxRetries = 1, CancelFails = FALSE, MaxRuns = 1, MaxOps = 3, MaxRestarts = 0`

#### TaskNotifications

- `AttemptsBounded`, `platform-server/src/notifications/task-notification-service.ts:766`. docs/task-failure-notifications.md:37 says 'A delivery is retried up to 5 times'. Both passes read a list of rows and work through it one send after another; the attempt writes attempts + 1 of the row as it was in the list. When the other pass has made attempts meanwhile, the counter is set back and the notice is sent more often.  
  *Instance:* `Spec`, `N = 2, Missed = {}, InApp = {}, NoSession = {}, ScanLimit = 2, PendingLimit = 2, MaxAttempts = 2, AllEvents = TRUE, MaxManual = 0, MaxSwitches = 0, MaxCrashes = 0`
- `DeliveredStays`, `platform-server/src/notifications/task-notification-service.ts:1003`. docs/task-failure-notifications.md:35 says 'Each failed run gets at most one notice'. processPendingDeliveries only skips deliveries that are in flight: one that was delivered since the list was read is sent again from its old state, and when that fails a delivered notice is recorded as failed, or given up with a second notice in the session.  
  *Instance:* `Spec`, `N = 2, Missed = {}, InApp = {}, NoSession = {}, ScanLimit = 2, PendingLimit = 2, MaxAttempts = 2, AllEvents = TRUE, MaxManual = 0, MaxSwitches = 0, MaxCrashes = 0`
- `GivenUpIsShown`, `platform-server/src/notifications/task-notification-service.ts:500`. docs/task-failure-notifications.md:31 says 'When the IM route has used up its retries, the notice is also written to the anchor session'. The dead letter is committed first; after a crash before the message no pass looks at the row again.  
  *Instance:* `Spec`, `N = 1, Missed = {}, InApp = {}, NoSession = {}, ScanLimit = 1, PendingLimit = 1, MaxAttempts = 1, AllEvents = TRUE, MaxManual = 0, MaxSwitches = 0, MaxCrashes = 1`
- `EveryFailureSettled`, `platform-server/src/notifications/task-failure-notifier.ts:258`. docs/task-failure-notifications.md:11 says of a failed run that 'the maintenance pass' reports it. The query takes the 50 oldest runs without a delivery; runs whose event the subscription does not list (:64 lets it be changed) never get one and stay in the list for 24 hours, so 50 of them hide every later failure.  
  *Instance:* `LiveSpec`, `N = 2, Missed = {}, InApp = {}, NoSession = {}, ScanLimit = 1, PendingLimit = 1, MaxAttempts = 2, AllEvents = FALSE, MaxManual = 0, MaxSwitches = 0, MaxCrashes = 0`
- `MissedWhenReported` (documentation), `platform-server/src/notifications/task-notification-service.ts:313`. docs/task-failure-notifications.md:73 says 'tasks that are now more than 30 minutes overdue are reported as missed, unless the scheduler starts them first'. notifyMissedRun checks the key and the setting again, not the run: one that starts while the pass awaits the send of an earlier notice is still reported.  
  *Instance:* `Spec`, `N = 2, Missed = {1, 2}, InApp = {}, NoSession = {}, ScanLimit = 2, PendingLimit = 1, MaxAttempts = 1, AllEvents = TRUE, MaxManual = 0, MaxSwitches = 0, MaxCrashes = 0`

#### Interactions

- `ExpiredMeansUnanswered` (documentation), `platform-server/src/interactions/approval-bridge.ts:952`. platform-server/src/interactions/approval-bridge.ts:42 says '`expired`: nobody answered before the runtime's timeout' and :43 '`unavailable`: the runtime gave up for another reason'. When the connection is lost with the response of an answer the runtime accepted, the catch clears the answer in flight and the reconciliation after the reconnect, or the expiry, settles the approval as unavailable or expired although the tool was allowed to run.  
  *Instance:* `Spec`, `Approvals = {a1}, Questions = {}, MaxAnswers = 1, MaxTimeouts = 1, MaxCuts = 1, MaxRestarts = 0, MaxDetaches = 0, MaxReplaces = 0`
- `LateAnswerWasRefused`, `platform-server/src/interactions/question-bridge.ts:485`. platform-server/src/interactions/question-bridge.ts:13 says 'An answer that arrives after the question expired is refused by the runtime (`question/expired`); the bridge reports `expired` with the question so the channel can deliver the answer as the user's next message'. The bridge also records expired by its own clock, or in a reconciliation near the timeout, for a question whose accepted answer lost its response: the user's second try is then delivered as a message on top of the answer the runtime took.  
  *Instance:* `Spec`, `Approvals = {}, Questions = {q1}, MaxAnswers = 2, MaxTimeouts = 1, MaxCuts = 1, MaxRestarts = 0, MaxDetaches = 0, MaxReplaces = 0`
- `NoGhosts`, `platform-server/src/interactions/question-bridge.ts:475`. platform-server/src/interactions/question-bridge.ts:425 says of reconcile 'adds missed ones, refreshes createdAt/timeout, and settles local entries the runtime no longer has'. The list is worked in after an await; a question/settled frame in the same chunk is handled before it, finds no entry and is ignored, and the older list then adds the question as pending. It stays until its expiry or the next reconciliation.  
  *Instance:* `Spec`, `Approvals = {}, Questions = {q1}, MaxAnswers = 0, MaxTimeouts = 0, MaxCuts = 1, MaxRestarts = 0, MaxDetaches = 0, MaxReplaces = 0`
- `ExpiredLocally` (documentation), `platform-server/src/interactions/approval-bridge.ts:833`. platform-server/src/interactions/approval-bridge.ts:146 says 'Grace after `expiresAt` before a still-pending approval is expired locally'. The timer of an entry fires once and returns while an answer is in flight, and the catch of the answer does not set it again: when the connection is lost under the answer and the transport gives up reconnecting, the approval stays pending until somebody reads the bridge.  
  *Instance:* `FairSpec`, `Approvals = {a1}, Questions = {}, MaxAnswers = 1, MaxTimeouts = 0, MaxCuts = 1, MaxRestarts = 0, MaxDetaches = 0, MaxReplaces = 0`

#### EventRelay

- `TurnEndArrives`, `dsh-event-relay/src/service.ts:789`. docs/runtime.md:134 describes the relay as 'Event bus delivering real-time agent lifecycle and message events'. ingest pushes an event into the bounded buffer before it maps it, and push throws once a session has 1000 unacknowledged events (dsh-event-relay/src/bounded-buffer.ts:119). Nothing in the product calls ack, so after that the turn and tool frames of the session are no longer made, while its deltas still are.  
  *Instance:* `FairSpec`, `Capacity = 2, MaxPending = 3, MaxBatch = 2, Acks = FALSE, PromptFlush = TRUE, MaxFlushes = 1, Calls = {}, MaxTurns = 2, MaxStreams = 0, MaxChunks = 0, MaxRepeats = 0, MaxFails = 0`
- `ControlKept`, `dsh-event-relay/src/service.ts:1456`. dsh-event-relay/tests/streaming-relay.test.ts:206 says 'enforces 256KB backpressure cap by dropping intermediate deltas without dropping control events' and :249 'Control events MUST be preserved'. The requeue of a failed batch removes the newest frame when no delta is left, and a batch that fails twice is dropped whole, turn_started and turn_completed frames included.  
  *Instance:* `Spec`, `Capacity = 12, MaxPending = 2, MaxBatch = 2, Acks = FALSE, PromptFlush = TRUE, MaxFlushes = 1, Calls = {}, MaxTurns = 2, MaxStreams = 0, MaxChunks = 0, MaxRepeats = 0, MaxFails = 1`
- `InOrder`, `dsh-event-relay/src/service.ts:1387`. dsh-event-relay/src/service.ts:1387 takes a flush that is 5 seconds past its timeout for dead and clears `isFlushing`. The request is not taken back: when the first batch is answered late or fails and is queued again, the platform has stored a newer frame before an older one, although the queue is sent in order otherwise.  
  *Instance:* `Spec`, `Capacity = 12, MaxPending = 3, MaxBatch = 1, Acks = FALSE, PromptFlush = FALSE, MaxFlushes = 2, Calls = {}, MaxTurns = 1, MaxStreams = 1, MaxChunks = 2, MaxRepeats = 0, MaxFails = 1`

#### TurnOrigins

- `ReplyIsOwn` (documentation), `runtime-runner/src/runtime/dsh-boot.ts:713`. runtime-runner/src/runtime/dsh-boot.ts:625 says of extractTurnResultFromEvents 'Scopes assistant messages between turn/start and matching turn/end.' The function takes the last assistant text of all events since sendFollowup began. A child's notice that arrives before whenIdle resolves starts another turn, and its text is returned, stored and charged as the reply of the platform turn.  
  *Instance:* `Spec`, `Platform = 1, Children = {"a"}, Jobs = {}, Overlap = TRUE, Restarts = 0, MaxTurn = 4`
- `OneTurnOneId`, `runtime-runner/src/runtime/dsh-boot.ts:1146`. runtime-runner/src/runtime/dsh-boot.ts:1137 says 'Only the first DSH turn after binding belongs to it' and :3934 that binding other turns 'reported this platform turn as completed twice'. Between the binding and agent.followup sendFollowup awaits settings and attachments; a turn started by a child's notice in that time, or running already, is the first turn, is reported as the platform turn, and its end as the platform turn's end.  
  *Instance:* `Spec`, `Platform = 2, Children = {"a"}, Jobs = {}, Overlap = TRUE, Restarts = 0, MaxTurn = 4`
- `CauseIsTrue`, `dsh-event-relay/src/service.ts:1050`. dsh-event-relay/tests/subagent-cause-child.test.ts:463 says 'prevents stale pendingAutonomousOrigins from contaminating subsequent platform turn'. Only bindTurnContext clears the list. A notice after the binding leaves its origin there when its turn was taken for the platform turn, and the user's own turn then shifts it: it gets a turn_auto id, the child as its cause and the child's turn as its origin.  
  *Instance:* `Spec`, `Platform = 2, Children = {"a"}, Jobs = {}, Overlap = TRUE, Restarts = 0, MaxTurn = 4`

#### InboundReceipts

- `CancelledOnce` (documentation), `dsh-inbound/src/service.ts:227`. dsh-inbound/tests/service.test.ts:230 says 'is idempotent on cancellation with deliveryId'. handleCancel cancels first and records the receipt afterwards: two requests at the same time, or a repetition after a failure between the two, cancel twice, and the second one may hit a later turn.  
  *Instance:* `Spec`, `Followups = {}, Cancels = {"c"}, Reqs = {r1, r2}, MaxReqs = 2, MaxCrashes = 1`
- `PendingRecovered` (documentation), `dsh-receipt-store-sqlite/src/store.ts:676`. dsh-receipt-store-sqlite/src/types.ts:105 calls the count recoverAfterRestart returns 'pendingReceiptsRecovered'. The function counts the pending receipts and changes none; handleFollowup refuses every repetition of such a delivery with DuplicateDeliveryIdError, whether or not the agent has the message.  
  *Instance:* `FairSpec`, `Followups = {"f"}, Cancels = {}, Reqs = {r1, r2}, MaxReqs = 3, MaxCrashes = 1`

#### FileTransfers

- `NoOrphans`, `platform-server/src/storage/file-transfer-recovery.ts:134`. platform-server/src/storage/file-transfer-recovery.ts:7 says it 'eliminates orphaned temporary files after process crashes'. The stage file exists before the journal row is written (handler.ts:2371 and 2451), and a finalized row's backup is deleted after its transaction; a stop in between leaves a file that no pending row names.  
  *Instance:* `Spec`, `Uploads = {u1}, Contents = {a, b}, Keys = {k1}, MaxOpen = 1, MaxCrashes = 1, MaxFaults = 0`
- `RecoveryIsIdempotent`, `platform-server/src/storage/file-transfer-recovery.ts:278`. platform-server/src/storage/file-transfer-recovery.ts:11 promises 'Deterministic, idempotent crash recovery'. Branch a removes the stage before it records 'aborted'; stopped in between, the next recovery finds neither stage nor target nor backup, reports AMBIGUOUS_TRANSFER_STATE and refuses this and every later start.  
  *Instance:* `Spec`, `Uploads = {u1}, Contents = {a, b}, Keys = {k1}, MaxOpen = 1, MaxCrashes = 2, MaxFaults = 0`
- `ConflictIsResolved`, `platform-server/src/server/handler.ts:2485`. platform-server/src/storage/file-transfer-recovery.ts:6 says it 'resolves unfinalized physical files and backups'. When commitStage fails the handler aborts the stage and leaves the journal row 'staged'; such a row is AMBIGUOUS_TRANSFER_STATE at the next start, so one refused upload is enough for the server not to start again.  
  *Instance:* `Spec`, `Uploads = {u1}, Contents = {a, b}, Keys = {k1}, MaxOpen = 1, MaxCrashes = 1, MaxFaults = 0`
- `RolledBackMeansRestored` (documentation), `platform-server/src/storage/file-transfer-recovery.ts:257`. platform-server/src/storage/file-transfer-recovery.ts:244 says 'rollbackCommit then rolled_back only on success'. The catch below records rolled_back on a failure too, and RuntimeFileApiService.rollbackCommit eats every error, so the old file may stay under its rollback name.  
  *Instance:* `Spec`, `Uploads = {u1}, Contents = {a, b}, Keys = {k1}, MaxOpen = 1, MaxCrashes = 1, MaxFaults = 2`
- `LaterUploadSurvives`, `runtime-runner/src/runtime/file-ops.ts:3980`. runtime-runner/src/runtime/file-ops.ts:3962 says 'Rolls back a physical commit: restores backup if overwritten, or deletes target if new'. The operation does not look at expectedEtag: it renames the backup over whatever is at the path, here the bytes of a later upload that was answered with 201.  
  *Instance:* `Spec`, `Uploads = {u1, u2}, Contents = {a, b, c}, Keys = {k1, k2}, MaxOpen = 1, MaxCrashes = 1, MaxFaults = 1`

#### Steering

- `SteeredOnce`, `platform-server/src/runtime/delivery-gateway.ts:4581`. platform-server/tests/steer-and-queue-api.test.ts:33 says a steer 'replays idempotently'. The record is looked up before the call to the runtime is awaited and written after it, so two requests with one clientRequestId are both injected; handleSteer does not look at clientRequestId. A channel event that is delivered again after its turn ended has a record for another turn, which is an IDEMPOTENCY_CONFLICT the channel branch answers by queueing the message.  
  *Instance:* `Spec`, `Messages = {m1, m2}, MaxTurns = 3, MaxCalls = 2, MaxSends = 2, MaxFaults = 0, MayCorrupt = FALSE`
- `PromotedNotLost`, `platform-server/src/runtime/delivery-gateway.ts:5155`. platform-server/src/runtime/delivery-gateway.ts:5155 says 'If steer was rejected (e.g. turn finished in the interim or any runtime steer error), requeue via dispatchInbound'. The turns are 'interrupted' before the call; when the running turn ends in recovery_required dispatchInbound refuses with RECOVERY_REQUIRED and no turn carries the messages any more.  
  *Instance:* `Spec`, `Messages = {m1, m2}, MaxTurns = 3, MaxCalls = 2, MaxSends = 1, MaxFaults = 0, MayCorrupt = TRUE`

#### Scheduler

- `CorruptRowDoesNotStop`, `platform-server/src/runtime/delivery-gateway.ts:2160`. platform-server/src/runtime/delivery-gateway.ts:2121 says 'Quarantine corrupt row without stopping the scheduler'. After the quarantine claimOneQueuedTurn returns null, which scheduleNextClaims takes for an empty queue: the loop ends, and the turns behind the corrupt one wait for the next notification or tick of the timer.  
  *Instance:* `Spec`, `Users = {u1, u2}, PerUser = 1, Limit = 3, MaxTurns = 3, MaxUpgrades = 0, MayCorrupt = TRUE`
- `PausedUserDoesNotBlock`, `platform-server/src/runtime/delivery-gateway.ts:2039`. platform-server/src/runtime/delivery-gateway.ts:1964 says it 'Atomically claims the oldest queued turn across all sessions'. LIMIT 10 is applied before paused users are filtered out; ten queued messages of the user whose runtime is being upgraded, even of one session, and no turn of any other user is claimed until stopRuntime has returned.  
  *Instance:* `Spec`, `Users = {u1, u2}, PerUser = 2, Limit = 2, MaxTurns = 3, MaxUpgrades = 1, MayCorrupt = FALSE`
- `TwoPerUser` (documentation), `platform-server/src/runtime/delivery-gateway.ts:2075`. platform-server/src/runtime/delivery-gateway.ts:2063 says 'Filter candidate by in-memory active tasks count per user (< 2)'. The condition is userActiveCount < 10, which the global limit of 10 makes vacuous: one user with ten sessions takes every slot.  
  *Instance:* `Spec`, `Users = {u1, u2}, PerUser = 3, Limit = 3, MaxTurns = 3, MaxUpgrades = 0, MayCorrupt = FALSE`

#### LarkOutbox

- `NoRedelivery`, `platform-server/src/channels/channel-runtime-manager.ts:167`. platform-server/src/channels/channel-runtime-manager.ts:1029 says 'If completed, ensure channel_outbox has delivered record to prevent re-delivery'. start() calls scanAndReconcileCommittedTurns before reconcileOrphanStreamingCardsOnStartup, so for a turn older than 15 seconds the scan has created the row and sent the text by the time the card, already final, is looked at.  
  *Instance:* `Spec`, `Items = {i1}, Kinds = {"reply"}, MaxAttempts = 3, MaxFaults = 0, MaxCardFaults = 0, MaxCrashes = 1`
- `NoticeOnce`, `channel-lark/src/gateway.ts:2701`. docs/task-failure-notifications.md:37 says 'Every attempt reuses the outbox id out_tfn_<deliveryId>, so the IM gateway does not send a notice twice when it was already delivered'. The card is created without a uuid and the row becomes 'delivered' after it; after a stop in between recoverStaleSendingOutbox makes the row pending and deliverOutboxItem sends the notice as a text. The same happens without a stop when no card can be made: the text sent in its place has no uuid, and if its answer is lost the redrive sends the notice again.  
  *Instance:* `Spec`, `Items = {i1}, Kinds = {"task"}, MaxAttempts = 3, MaxFaults = 0, MaxCardFaults = 0, MaxCrashes = 1`
- `FailureShown`, `channel-lark/src/gateway.ts:2912`. channel-lark/src/gateway.ts:2728 says 'Handles a failed turn by cleaning up in-progress receipt reactions and enqueueing a sanitized user-facing error reply through the channel outbox'. The outbox row and the card's row are written in two commits; after a stop between them the outbox has the reply as delivered, the card's row is still 'streaming', and the next start, which looks for an assistant message and finds none, rewrites the card as aborted: the error that was shown is gone and is not sent again.  
  *Instance:* `Spec`, `Items = {i1}, Kinds = {"reply"}, MaxAttempts = 3, MaxFaults = 0, MaxCardFaults = 0, MaxCrashes = 1`
- `FileDelivered`, `channel-lark/src/gateway.ts:3125`. channel-lark/tests/lark-media-outbound.test.ts:187 says 'deliverFile dispatches image to transport and creates delivered channel_outbox row'. deliverFile leaves its row 'pending' during the upload without claiming it; the worker's redrive (every 2.5 s) claims it, finds no bytes in the payload and sends an empty text with the uuid of the row, after which Lark takes the upload for a repetition.  
  *Instance:* `Spec`, `Items = {i1}, Kinds = {"file"}, MaxAttempts = 3, MaxFaults = 0, MaxCardFaults = 0, MaxCrashes = 0`

#### SessionLifecycle

- `FlagMeansCorrupt`, `platform-server/src/runtime/delivery-gateway.ts:3685`. platform-server/tests/session-serialization-and-recovery-defense.test.ts:367 says 'prefix recovery creates Gen N+1 + backup and unblocks'. finalizeFailedTurn reads current_generation when the report arrives, not the generation of the turn's lease, and blocks the lease whatever its status: a turn that found its history corrupted before the recovery and reports after it flags the new, sound generation and blocks the session again.  
  *Instance:* `Spec`, `Turns = {t1, t2}, Keys = {}, Calls = {c1}, MaxGen = 2, MaxCorrupt = 1, MaxRestores = 0, Anytime = TRUE`
- `ActiveInActiveSpace`, `platform-server/src/sessions/session-lifecycle-service.ts:143`. platform-server/tests/space-session-lifecycle-and-fork.test.ts:467 says 'fails restore with SPACE_ARCHIVED if parent space is archived'. The space is looked at before checkSessionArtifact is awaited and not again in the transaction, so a space archived in between ends up with an active session.  
  *Instance:* `Spec`, `Turns = {t1}, Keys = {}, Calls = {}, MaxGen = 1, MaxCorrupt = 0, MaxRestores = 1, Anytime = FALSE`
- `ReplayAnswered` (documentation), `platform-server/src/storage/sqlite-platform-api.ts:1271`. platform-server/tests/lifecycle.test.ts:429 says 'supports Idempotency-Key on resetSession returning exact initial response on replay'. The status of the session and its active turns are checked before the stored receipt is looked up: the repeated request is answered 409 or 400.  
  *Instance:* `Spec`, `Turns = {t1}, Keys = {k1}, Calls = {}, MaxGen = 2, MaxCorrupt = 0, MaxRestores = 0, Anytime = FALSE`

#### SessionForks

- `ForkShowsHistory`, `platform-server/src/sessions/fork-service.ts:349`. platform-server/tests/space-session-lifecycle-and-fork.test.ts:647 says 'forks full session history when no fromMessageId / fromTurnId is specified'. The messages are listed when no turn is active, the history is exported after an await: a turn that is sent in between is known to the agent of the new session and missing from its messages.  
  *Instance:* `Spec`, `Turns = {t1, t2}, Forks = {f1}, Keys = {}, MaxResets = 0, MaxCancels = 0, MaxFaults = 0, MaxCrashes = 0`
- `ForkEndsAtBoundary`, `platform-server/src/sessions/fork-service.ts:298`. platform-server/tests/space-session-lifecycle-and-fork.test.ts:684 says 'forks prefix history at exact message boundary using fromMessageId'. The boundary is passed on as the turn's place among the distinct turn ids of the messages; a turn cancelled while it was queued has a message and no turn in the history, so every later boundary is one turn too far, or unavailable.  
  *Instance:* `Spec`, `Turns = {t1, t2}, Forks = {f1}, Keys = {}, MaxResets = 0, MaxCancels = 1, MaxFaults = 0, MaxCrashes = 0`
- `ForkInActiveSpace`, `platform-server/src/sessions/fork-service.ts:509`. platform-server/src/storage/sqlite-platform-api.ts:657 says of createSession 'Re-read Space inside BEGIN IMMEDIATE write lock to prevent archive/create race'. finalizeForkInDb reads only execution_mode of the space and makes an active session in one that was archived since forkSession looked.  
  *Instance:* `Spec`, `Turns = {t1, t2}, Forks = {f1}, Keys = {}, MaxResets = 0, MaxCancels = 0, MaxFaults = 0, MaxCrashes = 0`

#### SessionLock

- `ExclusiveAfterCleanup`, `runtime-runner/src/runtime/session-lock.ts:423`. runtime-runner/src/runtime/session-lock.ts:412 says 'Safely unlinks a stale lockfile while verifying dev and ino to avoid TOCTOU races.' The check and the unlink are two system calls: between them another process that found the same stale file can remove it and create its own, which is then removed, and both processes hold the lock.  
  *Instance:* `Spec`, `Procs = {p1, p2, p3}, MaxOpens = 5, MaxDeaths = 1`

#### DaemonAgents

- `NotEvictedWhileRunning`, `runtime-runner/src/runtime/daemon.ts:4034`. runtime-runner/src/runtime/daemon.ts:4033 says 'Safety guard: Never evict an agent waiting for approval or currently running'. The guard is looked at before the flush, the disposal and 50 ms of waiting; processSessionQueue takes the entry from the map meanwhile and starts a turn on it.  
  *Instance:* `Spec`, `Sessions = {s1}, Ops = {}, Kinds = {}, MaxAgents = 2, MaxConcurrent = 1, MaxTurns = 2, MaxEntries = 2, MaxSweeps = 1, MaxFaults = 0, MaxPlans = 0`
- `ConcurrencyBounded`, `runtime-runner/src/runtime/daemon.ts:3623`. runtime-runner/tests/runtime-daemon.test.ts:155 says 'bounds concurrent session execution to maxConcurrentSessions and completes all sessions'. A session is counted only when its turn starts; between the check and that the processor may wait for an eviction and a load, and others pass the check.  
  *Instance:* `Spec`, `Sessions = {s1, s2}, Ops = {}, Kinds = {}, MaxAgents = 2, MaxConcurrent = 1, MaxTurns = 2, MaxEntries = 3, MaxSweeps = 0, MaxFaults = 0, MaxPlans = 0`
- `PoolBounded` (documentation), `runtime-runner/src/runtime/daemon.ts:3838`. runtime-runner/src/runtime/daemon.ts:3835 says 'Ensures agent registry capacity does not exceed maxAgents by evicting idle agents.' Loads that have not finished are not counted, and when no agent is idle the new one is loaded anyway.  
  *Instance:* `Spec`, `Sessions = {s1, s2}, Ops = {}, Kinds = {}, MaxAgents = 1, MaxConcurrent = 2, MaxTurns = 2, MaxEntries = 2, MaxSweeps = 0, MaxFaults = 0, MaxPlans = 0`
- `MaintenanceAlone`, `runtime-runner/src/runtime/daemon.ts:3970`. runtime-runner/src/runtime/daemon.ts:3941 says 'Serializes maintenance operations (check, inspect, recover, export, import) on a session by pausing new turns, draining any in-flight turn'. processSessionQueue looks neither at the status 'draining' nor at sessionMaintenanceLocks, so a queued turn starts on the session while the maintenance action reads or writes its history.  
  *Instance:* `Spec`, `Sessions = {s1}, Ops = {m1}, Kinds = {"import", "export"}, MaxAgents = 2, MaxConcurrent = 1, MaxTurns = 2, MaxEntries = 2, MaxSweeps = 0, MaxFaults = 0, MaxPlans = 0`
- `LockHasEntry`, `runtime-runner/src/runtime/daemon.ts:4061`. runtime-runner/src/runtime/daemon.ts:3546 says 'Acquire OS session lock (held continuously while Agent is in memory)'. evictAgent removes whatever entry the session has in the map: of two overlapping evictions the second drops the agent that was loaded after the first, whose lock nobody releases; every later load of the session then waits for it in vain.  
  *Instance:* `Spec`, `Sessions = {s1}, Ops = {m1}, Kinds = {"import"}, MaxAgents = 2, MaxConcurrent = 1, MaxTurns = 2, MaxEntries = 3, MaxSweeps = 1, MaxFaults = 0, MaxPlans = 0`
- `LockedInMemory`, `runtime-runner/src/runtime/dsh-boot.ts:3756`. runtime-runner/src/runtime/daemon.ts:3546 says 'Acquire OS session lock (held continuously while Agent is in memory)'. An import makes an agent of the session in the runtime's own map (dsh-boot.ts:3603, 3756) and leaves it there; the maintenance releases the lock when it ends (daemon.ts:4058), so the agent stays in memory and another process may take the lock.  
  *Instance:* `Spec`, `Sessions = {s1}, Ops = {m1}, Kinds = {"import"}, MaxAgents = 2, MaxConcurrent = 1, MaxTurns = 1, MaxEntries = 2, MaxSweeps = 0, MaxFaults = 0, MaxPlans = 0`

#### TunnelHost

- `StaleExitIgnored`, `runtime-runner/src/tunnel/host.ts:454`. runtime-runner/src/tunnel/host.ts:11 says 'Monotonic generation token invalidates stale asynchronous callbacks, timers, and exit handlers.' The token is increased only by close() (line 297), so the exit handler of a process that was killed and replaced still runs: it sets execHandle to null, destroys the streams of the new process and schedules another one; the new process runs on, connected to nothing.  
  *Instance:* `Spec`, `MaxSpawns = 3, MaxFaults = 3, MaxRetries = 2, AutoReconnect = TRUE, PromptExit = FALSE, Obedient = TRUE`
- `CloseStops`, `runtime-runner/src/tunnel/host.ts:309`. runtime-runner/src/tunnel/host.ts:282 says of close(): '3. Awaits any in-flight spawn or reconnect promise to settle.' A few lines earlier it clears pendingPings without rejecting them, and spawnProcess awaits such a ping: close() during the handshake never ends.  
  *Instance:* `FairSpec`, `MaxSpawns = 3, MaxFaults = 1, MaxRetries = 2, AutoReconnect = TRUE, PromptExit = TRUE, Obedient = TRUE`
- `StartSettles`, `runtime-runner/src/tunnel/host.ts:735`. runtime-runner/src/tunnel/host.ts:171 says 'If initial spawn fails, rejects to caller.' When the process ends, or its output cannot be decoded, during the handshake, the pending ping and its timer are dropped and start() never settles, though the host reconnects by itself.  
  *Instance:* `FairSpec`, `MaxSpawns = 3, MaxFaults = 1, MaxRetries = 2, AutoReconnect = TRUE, PromptExit = TRUE, Obedient = TRUE`
- `RejectedStaysDown`, `runtime-runner/src/tunnel/host.ts:755`. runtime-runner/tests/tunnel-lifecycle.test.ts:332 says 'Initial start() failure: rejects to caller, records status, and does not schedule reconnect'. When the handshake timed out the process is killed, its end is reported to the same generation, and handleProcessExit schedules a reconnect of the host its caller has given up.  
  *Instance:* `Spec`, `MaxSpawns = 3, MaxFaults = 1, MaxRetries = 2, AutoReconnect = TRUE, PromptExit = TRUE, Obedient = TRUE`
- `ForcedKill`, `runtime-runner/src/tunnel/host.ts:362`. runtime-runner/src/tunnel/host.ts:357 says 'Give process up to 1000ms to exit cleanly before forced kill'. handle.kill(runtime-runner/src/docker/client.ts:2373) does nothing once child.killed is set, and child.killed is set by the SIGTERM sent before.  
  *Instance:* `Spec`, `MaxSpawns = 2, MaxFaults = 1, MaxRetries = 2, AutoReconnect = TRUE, PromptExit = TRUE, Obedient = FALSE`

#### TunnelStreams

- `FramesStayApart`, `runtime-runner/src/tunnel/stream.ts:136`. runtime-runner/src/tunnel/agent.ts:13 says 'Transparent payload transfer' and the numbers are reused (line 211 'Allocates the next available streamId'). A stream that receives ERROR is destroyed with that error, and _destroy sends an ERROR frame back under the number, which the agent has already freed: a connection that got the number meanwhile is destroyed.  
  *Instance:* `Spec`, `Conns = {c1, c2}, MaxStreams = 1, MaxErrors = 1, MaxQuiet = 0, PromptReader = TRUE`
- `NewStreamKept`, `runtime-runner/src/tunnel/stream.ts:69`. runtime-runner/src/tunnel/host.ts:13 says 'Demuxes logical streams (streamId 1..32) and creates `TunnelStream` (Duplex) instances.' onStreamClosed deletes by number, not by stream: the close event of a destroyed stream comes after the rest of the chunk, removes the stream that was opened under the same number, and its frames are dropped.  
  *Instance:* `Spec`, `Conns = {c1, c2}, MaxStreams = 1, MaxErrors = 1, MaxQuiet = 0, PromptReader = TRUE`
- `RejectsOnlyExtra`, `runtime-runner/src/tunnel/host.ts:578`. runtime-runner/src/tunnel/agent.ts:10 says 'Caps concurrent streams to MAX_CONCURRENT_STREAMS (32); rejects extra connections.' The agent frees a number when the socket is closed, the host when its handler has read to the end; until then the host answers OPEN of that number with 'already exists' and the connection is destroyed.  
  *Instance:* `Spec`, `Conns = {c1, c2}, MaxStreams = 1, MaxErrors = 0, MaxQuiet = 0, PromptReader = FALSE`
- `DestroyTold` (documentation), `runtime-runner/src/tunnel/stream.ts:136`. runtime-runner/src/tunnel/stream.ts:12 says 'When stream is destroyed or encounters an error, an ERROR frame is sent.' _destroy sends one only if it was given an error; platform-proxy.ts:4118 calls destroy() without one after a failed write, and the client's connection stays open.  
  *Instance:* `Spec`, `Conns = {c1, c2}, MaxStreams = 1, MaxErrors = 0, MaxQuiet = 1, PromptReader = TRUE`

#### Attachments

- `ContentAddressed`, `platform-server/src/runtime/delivery-gateway.ts:5808`. platform-server/src/storage/attachment-snapshot-recovery.ts:28 says 'Never deletes a content-addressed snapshot if ANY message ref or active journal exists.' The path is made of the etag found by stat, and the copy that follows names no expectedEtag (file-ops.ts:2747 would refuse): if the file changes in between, the snapshot of the old etag holds the new contents, is shown with the message, and is used for every later message with that etag.  
  *Instance:* `Spec`, `Keys = {k1}, Calls = {c1}, Contents = {a, b}, Quoted = FALSE, LostReplies = FALSE, MaxChanges = 1, MaxRows = 1, MaxCrashes = 0`
- `RepetitionAnswered`, `platform-server/src/runtime/delivery-gateway.ts:1383`. docs/management-console.md:428 says '幂等消息重复提交时，直接返回已处理的响应 Payload，不重复触发下游 Agent 运行。' (a repeated idempotent message is answered with the stored payload). ingestWebDelivery stores a hash without replyToMessageId (web-messages.ts:823), the check of a repetition computes one with it, so every repetition of a message that quotes another is answered 409 IDEMPOTENCY_CONFLICT.  
  *Instance:* `Spec`, `Keys = {k1}, Calls = {c1, c2}, Contents = {a, b}, Quoted = TRUE, LostReplies = FALSE, MaxChanges = 0, MaxRows = 1, MaxCrashes = 0`
- `RepetitionAnswered`, `platform-server/src/runtime/delivery-gateway.ts:1356`. docs/management-console.md:428 says '幂等消息重复提交时，直接返回已处理的响应 Payload，不重复触发下游 Agent 运行。' The attachments are processed before the idempotency record is looked at: once the file has changed or is gone, the repetition of an accepted request is refused with 409 ATTACHMENT_CHANGED or 404.  
  *Instance:* `Spec`, `Keys = {k1}, Calls = {c1, c2}, Contents = {a, b}, Quoted = FALSE, LostReplies = FALSE, MaxChanges = 1, MaxRows = 1, MaxCrashes = 0`

## What is proved

`DeliveryGatewayProofs` proves, for every number of turns, sessions and users, every
limit, and any number of crashes, expiries and recoveries, with or without ticks
during start-up:

- `TypeCorrect`: `Spec => []TypeOK`
- `OneTurnPerSession`: `Spec => []SingleRunning`
- `ActiveLeaseIsRunning`: `Spec => []LeaseNamesRunning`
- `Refinement`: `Spec => ImplementsTurnQueue`
- `SettledStays`: `Spec => SettledIsFinal`
- `StartsAreOrdered`: `Spec => StartsInOrder`

Assumptions: the named `ASSUME`s of `DeliveryGateway` only (the constants are
numbers, functions and Booleans of their kind).

*Argument.* `SingleRunning` alone is not inductive. `redriveHeld` writes `queued` into
the turn of a `claimed` lease it read some steps ago, so one must know that this turn
is still running and that no task of the new process works on it (`RedriveIsStale`).
That in turn needs that an active lease belongs to a running turn
(`LeaseNamesRunning`), that only a task at its very beginning has a `claimed` lease
(`ClaimedIsEarly`, with `Quiet` when the leases are read), and that tasks are of
claimed turns (`TaskWasClaimed`). The order of starts needs `ArrivedInOrder` and
`QueuedIsHeld`: a queued turn whose inbox row is not held would be passed over by the
claim queries. `IndInv` is the conjunction.

The finalizers share one shape, `Settles(t)`: they touch the rows of `t` only, move its
status only from live to terminal, and leave its lease active only if they changed
nothing. Lemmas show this once for each finalizer, and the proofs of `Inductive` and
`StepRefines` use `Settles`. `ClaimTakesFront` is the fact behind the order: the merge
query is ordered by `rowid` and cut by a `LIMIT`, so the prefix it yields contains
everything earlier that still waits (`LimitKeepsEarlier`), and the first row is the
candidate.

The second part of the module goes on from `IndInv`:

- `AgentRunsTurnOnce`: `Spec => []ExecutedAtMostOnce`
- `OutcomesAgree`: `Spec => []OutcomeMatchesReply`
- `RowsTellOneStory`: `~StartupTicks => (Spec => []RowsAgree)`
- `SettledGivesQuotaBack`: `Spec => [](Faultless => SettledHoldsNoQuota)`, where `Faultless` says
  that no crash, expiry or recovery has happened so far
- `MergedMessagesAnswered`: `Spec => [](crashes = 0 => MergedContentDelivered)`

The hypotheses of the last three are those of the runs that check them, and they are needed: with a
tick in start-up the rows do part (`v_startup`), and the disagreements listed above show a
reservation that outlives its turn after an expiry and merged messages lost in a crash.
`ExecutedAtMostOnce` is not inductive: one must know of every turn for which the
executor can still be called, because it waits, its task has not come that far, its lease is
`claimed`, or start-up has read it as `claimed`, that it was not executed (`NotYetExecuted`).
`OutcomeMatchesReply` needs that a merged turn is over and that nobody works on it
(`MergedIsOver`); each finalizer is shown once to keep the outcome and the rows of its turn
(`Closes`). `RowsAgree` needs that nothing runs before start-up has gone through every active lease
(`QuietStart`). Quota needs that the reservation of a running turn is known to its task
(`TaskHasQuota`), merged content that it is in the task of the turn it was merged into
until the runtime has it (`ContentOnItsWay`).

The other component theorems are in `RunnerTheorems` (R), `StorageTheorems` (S), `ServerTheorems` (V) and
`QuotaLedgerProofs` (Q). Their only assumptions are those the runs evaluate
(`SessionLockAssumption` and so on: bounds are natural numbers, sets of concurrent calls or sessions are
finite where they are counted, `None` is not one of the values it stands beside). The sets of sessions,
processes, turns, requests and the bounds are arbitrary. Where a statement has a condition,
it is one that an instance of the runs has too, and most are
needed: the disagreements above show what happens without them.

| Theorem | States | What the inductive invariant adds |
|---|---|---|
| R `LockHasOneHolder` | `OneHolder` while nobody has died, or with two processes | between its `open` and its `unlink` the file is the process's own (`EngagedHasFile`); while nobody has died no file looks stale (`NoneStale`) |
| R `DeliveredOnce` | `TypeOK`, `AcceptedOnce`, `AnswerIsTrue`, `[][ReceiptFinal]_vars` | one request owns a pending receipt (`OneOwner`), and how often the agent has its delivery at each step (`SentSoFar`, `ReceiptIsTrue`) |
| R `DaemonHasOneAgent` | `OneAgent`: `AgentHasLock`, and `TurnHasAgent` where only a session's own steps evict its agent (`EvictsOwn`) | entries keep their session (`OwnEntries`), an eviction has disposed of its agent before the lock goes (`EvictionsKnown`), loads are single (`LoadsOne`), a turn runs on the entry in the map (`RunsOnEntry`), and a processor has the plan of that entry updated (`PlansOwn`) |
| R `TunnelHasOwner` | `TypeOK`, and `NoOrphan /\ ConnectedMeansExec` where exits are reported promptly (`PromptExit`) | one call of `spawnProcess` is on its way (`OneCall`), a process whose end was not reported is the last one made (`OneProcess`), what the host's process is asked (`ExecKnown`) |
| R `StreamsStayApart` | `TypeOK`; `OwnFramesOnly`, `StreamKeepsNumber`, `AcceptedNotRefused` when nothing fails and handlers read to the end (`Orderly`); the first two also when there are numbers for every connection (`Enough`) | a connection has its number from the moment it is accepted, and the agent's table says so while its socket is open (`HasNumber`); what the host's table names has that number and a handler at work (`Mapped`); frames carry the number of their connection (`FramesNumbered`), a connection is announced once (`OpenedOnce`); where numbers are used again, the order of the frames in the two pipes (`DownOrder`, `UpOrder`, `Succession`) |
| Q `LedgerKeepsItsWord` | `ChargedOnce`, `[][SettledForGood]_vars`, and `ReservedBundleIsWhole` where the sweep of a server start does not run (`~Restarts`) | a delivery without a bundle has no reservations (`NoneHasNoItems`); without that sweep a reservation never expires while its bundle stays reserved (`RowsKept`). The invariant says nothing of limits, windows and usage |
| S `ForksAreComplete` | `ForksComplete`: one fork per key, a fork has the history of its generation as far as it shows it, nothing stuck | turns run in the order they were sent, each in the history of its generation (`RunsInOrder`, `RanInHistory`), so that what a fork shows of its generation is in the prefix it exports, whatever is reset meanwhile (`PlanIsPrefix`, `HistoryFollows`); what each journal state means (`Journal`) |
| S `SessionKeepsItsHistory` | `GenerationsHold`: rows, route and histories agree, archived is idle, and without recovery of healthy sessions (`~Anytime`) the answered turns stay in the valid part of the history | a call makes at most the next generation and has an id of its own (`CallsApart`); ids are counted by generations and calls (`IdsCounted`, with the cardinality theorems); a call that can still commit is of the flagged generation, in which nothing runs, and its copy has the turns before the damage (`RecoversFlagged`, `RanIsInHistory`) |
| S `AttachmentsKept` | `TypeOK`, `IngestedOnce`, `AttachmentThere`, and `[][OrphansCollected]_vars` where no answer is lost | the snapshot of a request is there until its message is stored (`SnapHeld`), no request works while the server recovers (`IdleWhenDown`); every snapshot has a message, a pending row, or was skipped (`Journalled`, with `CopyAwaited`, `OwnRow`) |
| S `OriginsAreTrue` | `TypeOK`, `OneTurnOneId`, `CauseIsTrue`, `OriginKnown` where children report between platform turns and there is at most one job (`Apart`) | `OriginsInv`: what relay, runtime and store know of each child and job (`ChildKnown`, `JobKnown`), what waits for the next turn (`Waits`), what the contexts and the frames made so far say |
| S `UploadsAreAtomic` | `TypeOK`, `AckedIsRepeatable`, `RecordedWasApplied`, and `CrashAtomic` for uploads one at a time without failing calls (`MaxOpen = 1 /\ MaxFaults = 0`) | `FileInv` for keys and receipts; `AtomicInv` gives for each upload what stage, target, backup and journal are at each step of handler and recovery (`Phases`, a `committed` row without its transaction among them), the order of the uploads (`Ranked`), that what the recovery is about to record is so (`Visits`) and what is at the path (`PathSound`) |
| V `LarkShowsAnswers` | `DeliveredMeansShown`; `ShownOnce` without a stop; `TypeOK` without files | `LarkItem`: what row, card, card row, sender and chat of one answer are together, in each step |
| V `SteeringKeepsMessages` | `TypeOK`; `NothingDropped` unless the session becomes corrupted; `SeenOnce` when each message is sent once and no call throws | an acknowledged message was seen, dropped by its user, or waits (`SteerSafe`); a message is in one place at a time (`SteerOnce`) |
| V `RunsAreExclusive` | `TypeOK`, `OneActiveRun`, `ClaimBackedByRun`, `RecurringNeverFails`, `PendingHasRetries`, `CompletedRunDidIt`, `[][EndedRunsStay]_vars`; `TurnsDoNotOverlap` without restart and with cancellations that arrive | row and run change together (`Together`), what the worker holds (`AtWork`), without restarts a live turn is the one the worker waits for (`Watched`) |
| V `NoticesAreShown` | `TypeOK`, `DeliveredIsShown`, `GivenUpIsShown` without a crash, `[][DisabledIsQuiet]_vars` | what a row says has happened (`RowSound`), what an attempt knows (`AttemptSound`, `TodoSound`), a delivery that was given up is shown or its fallback is under way (`NotLost`) |
| V `SchedulerWorks` | `TypeOK`, `StopsOnlyIdle`; `[][EndsExhausted]_vars` for a window that holds all arrivals and payloads that parse | the queue has no more rows than messages arrived and the pool no more turns than the limit (`SchedBounds`); no turn of a user runs while that user's runtime is stopped (`SchedIdle`) |

`MCServerProofs`, `MCStorageProofs` and `MCRunnerProofs` carry these over to the suites: `part` never
changes, and in the part of an instance a step of the suite is a step of that instance. So what the runs check
(`AnswerShown`, `MessageSeenOnce`, `RunsExclusive`, `NoticesReachUser`, `PassesAndUpgrades`;
`GenerationsHold`, `ForksComplete`, `AttachedOnce`, `OriginsTrue`, `UploadsAtomic`; `OneHolder`, `OneAgent`,
`AcceptedOnce`, `NoOrphan`, `StreamsApart`) holds for every value of the suites' constants that
satisfies `ServerAssumption`, `StorageAssumption`, `RunnerAssumption`.

The uniqueness of generations rests on one line of the code: the row of a generation is UNIQUE, so a
recovery that awaited the runtime while another generation was made finds its row taken and changes
nothing. `CommitNumbers` is that argument; `CommitOverwriting` is the wrong version without it.

*Only model-checked.* All liveness properties and `ENABLED` (out of the prover's reach).
`EventsInOrder`, which speaks of the contents of a queue after a loop that shrinks it, and of
`LedgerSettles` the part `ChargeWithinLimit`, which adds up reservations with a fold: both need induction over
data. The type invariant of `QuotaLedger`, and `OneOutcome`, have no proof yet.

## Not modelled

- *Pure functions and formats*: card layouts, Markdown and i18n rendering, request validation,
  schema checks, path sanitising, encryption, wire encodings. They have no state to interleave,
  and modelling them would copy the code.
- *Request handlers of one transaction or one file operation* (profiles, skills, extensions,
  mounts, models, management, diagnostics): SQLite serialises them.
- *Browser client, command line, demo runner, imports and backup tools*: single-process
  programs without shared state.
- *WeChat and Jarvis adapters*: the outbox they share with Lark is modelled; their own polling
  and signing is I/O.
- *MCP and browser pools*: bounded pools around external processes whose behaviour the
  repository does not define.
- *Agents and LLM providers*: external; a turn ends somehow, with any outcome.

Most of the implementation's lines are of these kinds (the web client alone is a tenth, tests and
fixtures aside), so a faithful map covers the concurrent and recoverable core, about 20 thousand
lines, and not the greater part of the code.

## Plan

1. Prove `Interactions` (`ToldOnce`, then the rest of `OneOutcome`), the one component whose safety is
   only model-checked and needs no induction over data.
2. Abstract specifications for uploads ("written or not") and forks ("one session or none"), and
   the refinements of `FileTransfers` and `SessionForks`.
3. `drain` and `close` in `DeliveryGateway`; the agent pool of `DaemonAgents` composed with the
   steps of `SessionLock`.
