---------------------------- MODULE TunnelHost -----------------------------
(***************************************************************************)
(* The platform's end of the tunnel into a container: a long-running       *)
(* `docker exec` process, kept alive by reconnecting with back-off.        *)
(*   runtime-runner tunnel/host.ts      start, close, spawnProcess, ping,  *)
(*        handleProcessExit, handleProcessFailure, scheduleReconnect       *)
(*   runtime-runner docker/client.ts    spawnLongRunningExecOwned, kill    *)
(*   runtime-runner docker/adapter.ts   startTunnel: start() is called     *)
(*        once for each host                                               *)
(* Every call of spawnProcess has a number; the process it makes has the   *)
(* same one.  A step runs from one wait to the next.  What travels inside  *)
(* the tunnel is module TunnelStreams.                                     *)
(***************************************************************************)
EXTENDS Naturals, FiniteSets

CONSTANTS
  MaxSpawns,     \* bound: calls of spawnProcess
  MaxFaults,     \* bound: processes that end, break, or do not start
  MaxRetries,    \* options.maxRetries
  AutoReconnect, \* options.autoReconnect
  PromptExit,    \* the end of a killed process is reported before the next
                 \* process is started (back-off is at least 200 ms)
  Obedient       \* every process ends on SIGTERM within the second given

(* What a run assumes of the constants.                                    *)
TunnelHostAssumption ==
  /\ MaxSpawns \in Nat /\ MaxFaults \in Nat /\ MaxRetries \in Nat
  /\ AutoReconnect \in BOOLEAN /\ PromptExit \in BOOLEAN
  /\ Obedient \in BOOLEAN

Spawns == 1..MaxSpawns

VARIABLES
  state,      \* the host's state
  attempts,   \* reconnectAttempts
  timer,      \* a reconnect timer is set
  exec,       \* execHandle: the process, 0 for null
  active,     \* activeSpawnPromise: the call, 0 for null
  pings,      \* pendingPings, by the call that waits for the answer
  streams,    \* activeStreams, by the process they came through
  start,      \* what start() has come to
  closing,    \* where close() is
  last,       \* the process close() waits for, 0 if none
  call,       \* number -> where spawnProcess is
  proc,       \* number -> the operating system process
  signal,     \* number -> the signal it was sent (child.killed)
  spawned, faults

host == <<state, attempts, timer, exec, active, pings, streams>>
os == <<proc, signal>>
vars == <<state, attempts, timer, exec, active, pings, streams, start,
          closing, last, call, proc, signal, spawned, faults>>

Init ==
  /\ state = "idle" /\ attempts = 0 /\ timer = FALSE /\ exec = 0
  /\ active = 0 /\ pings = {} /\ streams = {}
  /\ start = "none" /\ closing = "none" /\ last = 0
  /\ call = [i \in Spawns |-> "none"] /\ proc = [i \in Spawns |-> "none"]
  /\ signal = [i \in Spawns |-> "none"] /\ spawned = 0 /\ faults = 0

(* close() is the only place that makes a new generation, so a callback is *)
(* out of date exactly when the host is being closed.                      *)
IsTerminated == state \in {"stopping", "stopped"}

Fault == faults < MaxFaults /\ faults' = faults + 1

(* handle.kill: nothing is sent to a child that was sent a signal before.  *)
Kill(i, s) ==
  signal' = [signal EXCEPT ![i] = IF signal[i] = "none" THEN s ELSE signal[i]]

NoKill == UNCHANGED signal

-----------------------------------------------------------------------------
(* Reconnecting.                                                           *)

(* Mutant: retries without end.                                            *)
ScheduleReconnectForever ==
  IF timer THEN UNCHANGED <<state, attempts, timer>>
  ELSE state' = "reconnecting" /\ attempts' = attempts + 1 /\ timer' = TRUE

(* scheduleReconnect, of a host that is not being closed.                  *)
ScheduleReconnect ==
  IF timer THEN UNCHANGED <<state, attempts, timer>>
  ELSE IF attempts >= MaxRetries
  THEN state' = "disconnected" /\ UNCHANGED <<attempts, timer>>
  ELSE state' = "reconnecting" /\ attempts' = attempts + 1 /\ timer' = TRUE

(* Mutant: "disconnected" is left to the retries that run out.             *)
ReconnectOnly ==
  IF AutoReconnect /\ attempts < MaxRetries THEN ScheduleReconnect
  ELSE UNCHANGED <<state, attempts, timer>>

Reconnect ==
  IF AutoReconnect THEN ScheduleReconnect
  ELSE state' = "disconnected" /\ UNCHANGED <<attempts, timer>>

(* handleProcessExit: the pings are forgotten, not answered.               *)
HandleProcessExit ==
  /\ exec' = 0 /\ pings' = {} /\ streams' = {} /\ NoKill /\ Reconnect

(* Mutant: the process is left running.                                    *)
HandleProcessFailureNoKill ==
  /\ exec' = 0 /\ pings' = {} /\ streams' = {} /\ NoKill /\ Reconnect

(* Mutant: nothing is scheduled.                                           *)
HandleProcessFailureStays ==
  /\ IF exec # 0 THEN Kill(exec, "KILL") ELSE NoKill
  /\ exec' = 0 /\ pings' = {} /\ streams' = {}
  /\ UNCHANGED <<state, attempts, timer>>

(* handleProcessFailure: the process in execHandle is killed, whichever    *)
(* one the error is about.                                                 *)
HandleProcessFailure ==
  /\ IF exec # 0 THEN Kill(exec, "KILL") ELSE NoKill
  /\ exec' = 0 /\ pings' = {} /\ streams' = {} /\ Reconnect

(* A process that was sent a signal and whose end is still to come.        *)
Ending == {i \in Spawns : signal[i] # "none" /\ proc[i] # "reported"}

(* The reconnect timer: spawnProcess, up to its first wait.                *)
TimerFires ==
  /\ timer /\ spawned < MaxSpawns /\ (PromptExit => Ending = {})
  /\ timer' = FALSE /\ spawned' = spawned + 1 /\ active' = spawned + 1
  /\ call' = [call EXCEPT ![spawned + 1] = "docker"]
  /\ UNCHANGED <<state, attempts, exec, pings, streams, start, closing, last,
                 proc, signal, faults>>

-----------------------------------------------------------------------------
(* start() and spawnProcess.                                               *)

Start ==
  /\ state = "idle" /\ spawned < MaxSpawns
  /\ state' = "starting" /\ start' = "waiting" /\ spawned' = spawned + 1
  /\ active' = spawned + 1
  /\ call' = [call EXCEPT ![spawned + 1] = "docker"]
  /\ UNCHANGED <<attempts, timer, exec, pings, streams, closing, last, proc,
                 signal, faults>>

(* Call i returns: start() of call 1 or the timer callback of a later one  *)
(* goes on.                                                                *)
CallReturns(i) ==
  /\ call' = [call EXCEPT ![i] = "done"]
  /\ active' = IF i = 1 /\ active # 1 THEN active ELSE 0
  /\ start' = IF i = 1 THEN "returned" ELSE start

(* Call i throws.  start() passes the error on; the timer callback treats  *)
(* it as a failure of the tunnel.                                          *)
CallThrows(i) ==
  /\ call' = [call EXCEPT ![i] = "done"]
  /\ active' = IF i = 1 /\ active # 1 THEN active ELSE 0
  /\ start' = IF i = 1 THEN "rejected" ELSE start

(* The container is gone, is not ours, or is not running.                  *)
SpawnFails(i) ==
  /\ call[i] = "docker" /\ Fault
  /\ \/ /\ IsTerminated /\ CallReturns(i)
        /\ UNCHANGED <<state, attempts, timer, exec, pings, streams, signal>>
     \/ /\ ~IsTerminated /\ i = 1 /\ CallThrows(i)
        /\ state' = IF state = "starting" THEN "disconnected" ELSE state
        /\ UNCHANGED <<attempts, timer, exec, pings, streams, signal>>
     \/ /\ ~IsTerminated /\ i # 1 /\ CallThrows(i) /\ HandleProcessFailure
  /\ UNCHANGED <<closing, last, proc, spawned>>

(* Mutant: a process that comes after close() is kept.                     *)
SpawnedKept(i) ==
  /\ call[i] = "docker" /\ proc' = [proc EXCEPT ![i] = "running"]
  /\ \/ /\ IsTerminated /\ NoKill /\ CallReturns(i)
        /\ UNCHANGED <<exec, pings>>
     \/ /\ ~IsTerminated /\ exec' = i /\ pings' = pings \cup {i}
        /\ call' = [call EXCEPT ![i] = "ping"]
        /\ UNCHANGED <<active, start, signal>>
  /\ UNCHANGED <<state, attempts, timer, streams, closing, last, spawned,
                 faults>>

(* The process runs; it is asked for a sign of life.                       *)
Spawned(i) ==
  /\ call[i] = "docker" /\ proc' = [proc EXCEPT ![i] = "running"]
  /\ \/ /\ IsTerminated /\ Kill(i, "KILL") /\ CallReturns(i)
        /\ UNCHANGED <<exec, pings>>
     \/ /\ ~IsTerminated /\ exec' = i /\ pings' = pings \cup {i}
        /\ call' = [call EXCEPT ![i] = "ping"]
        /\ UNCHANGED <<active, start, signal>>
  /\ UNCHANGED <<state, attempts, timer, streams, closing, last, spawned,
                 faults>>

(* PONG: connected.  close() forgets the pings, so it has not begun.       *)
Pong(i) ==
  /\ i \in pings /\ proc[i] = "running" /\ pings' = pings \ {i}
  /\ state' = "connected" /\ attempts' = 0 /\ CallReturns(i)
  /\ UNCHANGED <<timer, exec, streams, closing, last, proc, signal, spawned,
                 faults>>

(* No PONG within five seconds, or the PING could not be written.          *)
PingFails(i) ==
  /\ i \in pings /\ Fault /\ CallThrows(i) /\ Kill(i, "KILL") /\ exec' = 0
  /\ \/ /\ i = 1 /\ pings' = pings \ {i}
        /\ state' = IF state = "starting" THEN "disconnected" ELSE state
        /\ UNCHANGED <<attempts, timer, streams>>
     \/ /\ i # 1 /\ pings' = {} /\ streams' = {} /\ Reconnect
  /\ UNCHANGED <<closing, last, proc, spawned>>

-----------------------------------------------------------------------------
(* What the process does.                                                  *)

(* OPEN: a stream of the container, up to 32 of them.                      *)
Open ==
  /\ ~IsTerminated /\ exec # 0 /\ proc[exec] = "running"
  /\ exec \notin streams /\ streams' = streams \cup {exec}
  /\ UNCHANGED <<state, attempts, timer, exec, active, pings, start, closing,
                 last, call, proc, signal, spawned, faults>>

(* A process ends by itself, or by a signal: SIGKILL, or SIGTERM if it     *)
(* takes notice of that.                                                   *)
Ends(i) ==
  /\ proc[i] = "running" /\ proc' = [proc EXCEPT ![i] = "ended"]
  /\ \/ signal[i] = "none" /\ Fault
     \/ (signal[i] = "KILL" \/ (signal[i] = "TERM" /\ Obedient))
        /\ UNCHANGED faults
  /\ UNCHANGED <<host, start, closing, last, call, signal, spawned>>

(* Its end is reported: exitPromise.                                       *)
ExitReported(i) ==
  /\ proc[i] = "ended" /\ proc' = [proc EXCEPT ![i] = "reported"]
  /\ IF IsTerminated
     THEN UNCHANGED <<state, attempts, timer, exec, pings, streams, signal>>
     ELSE HandleProcessExit
  /\ UNCHANGED <<active, start, closing, last, call, spawned, faults>>

(* The decoder finds something that is not a frame.                        *)
DecoderError(i) ==
  /\ proc[i] \in {"running", "ended"} /\ call[i] # "docker" /\ ~IsTerminated
  /\ Fault /\ HandleProcessFailure
  /\ UNCHANGED <<active, start, closing, last, call, proc, spawned>>

-----------------------------------------------------------------------------
(* close().                                                                *)

Close ==
  /\ ~IsTerminated /\ state # "idle" /\ state' = "stopping"
  /\ timer' = FALSE /\ pings' = {}
  /\ closing' = IF active # 0 THEN "await" ELSE "teardown"
  /\ UNCHANGED <<attempts, last, exec, active, streams, start, call, proc,
                 signal, spawned, faults>>

(* The call in flight has settled (activeSpawnPromise).                    *)
CloseAwaited ==
  /\ closing = "await" /\ active = 0 /\ closing' = "teardown"
  /\ UNCHANGED <<host, last, start, call, os, spawned, faults>>

(* Streams ended, the process asked to end.                                *)
Teardown ==
  /\ closing = "teardown" /\ streams' = {} /\ exec' = 0 /\ last' = exec
  /\ IF exec # 0
     THEN Kill(exec, "TERM") /\ closing' = "term" /\ UNCHANGED state
     ELSE NoKill /\ closing' = "done" /\ state' = "stopped"
  /\ UNCHANGED <<attempts, timer, active, pings, start, call, proc, spawned,
                 faults>>

(* It has ended, or a second has passed and it is sent SIGKILL.            *)
CloseEnds ==
  /\ closing = "term" /\ closing' = "done" /\ state' = "stopped"
  /\ \/ proc[last] = "reported" /\ NoKill
     \/ proc[last] # "reported" /\ Kill(last, "KILL")
  /\ UNCHANGED <<last, attempts, timer, exec, active, pings, streams, start,
                 call, proc, spawned, faults>>

-----------------------------------------------------------------------------
Step(i) ==
  \/ SpawnFails(i) \/ Spawned(i) \/ Pong(i) \/ PingFails(i)
  \/ Ends(i) \/ ExitReported(i) \/ DecoderError(i)

Next ==
  \/ Start \/ TimerFires \/ Open \/ Close \/ CloseAwaited \/ Teardown
  \/ CloseEnds
  \/ \E i \in Spawns : Step(i)

Spec == Init /\ [][Next]_vars

(* Timers fire, promises settle, signals arrive, and a process that is     *)
(* asked for a sign of life gives one or fails to.                         *)
Fairness ==
  /\ WF_vars(TimerFires) /\ WF_vars(CloseAwaited) /\ WF_vars(Teardown)
  /\ WF_vars(CloseEnds)
  /\ \A i \in Spawns :
       /\ WF_vars(Spawned(i) \/ SpawnFails(i))
       /\ WF_vars(Pong(i) \/ PingFails(i))
       /\ WF_vars(ExitReported(i))
       /\ WF_vars(Ends(i) /\ signal[i] # "none")

FairSpec == Spec /\ Fairness

-----------------------------------------------------------------------------
TypeOK ==
  /\ state \in {"idle", "starting", "connected", "reconnecting",
                "stopping", "stopped", "disconnected"}
  /\ attempts \in 0..MaxRetries /\ timer \in BOOLEAN
  /\ exec \in 0..MaxSpawns /\ active \in 0..MaxSpawns
  /\ pings \subseteq Spawns /\ streams \subseteq Spawns
  /\ start \in {"none", "waiting", "returned", "rejected"}
  /\ closing \in {"none", "await", "teardown", "term", "done"}
  /\ last \in 0..MaxSpawns
  /\ call \in [Spawns -> {"none", "docker", "ping", "done"}]
  /\ proc \in [Spawns -> {"none", "running", "ended", "reported"}]
  /\ signal \in [Spawns -> {"none", "TERM", "KILL"}]
  /\ spawned \in 0..MaxSpawns /\ faults \in 0..MaxFaults

(* A process that was never told to end is the one in execHandle: none     *)
(* runs on in the container, connected to nothing, before or after close() *)
(* (handle.kill on every path that gives a process up).                    *)
NoOrphan ==
  \A i \in Spawns : proc[i] = "running" /\ signal[i] = "none" => exec = i

(* getStatus().connected: frames sent now go to a process nobody killed.   *)
ConnectedMeansExec == state = "connected" => exec # 0 /\ signal[exec] = "none"

(* A lost tunnel is connected again or given up, within maxRetries; it is  *)
(* not reconnecting for ever.                                              *)
ReconnectEnds == (state = "reconnecting") ~> (state # "reconnecting")

(* "Monotonic generation token invalidates stale asynchronous callbacks,   *)
(* timers, and exit handlers" (host.ts:11): the report of one process ends *)
(* the streams of no other one.                                            *)
StaleExitIgnored ==
  [][\A i, j \in Spawns :
        /\ proc[i] = "ended" /\ proc'[i] = "reported" /\ i # j
        /\ j \in streams /\ proc[j] = "running" /\ signal[j] = "none"
        => j \in streams']_vars

(* "Awaits any in-flight spawn or reconnect promise to settle", then       *)
(* "Transitions state to terminal 'stopped'" (host.ts:282, :285).          *)
CloseStops == (state = "stopping") ~> (state = "stopped")

(* "Starts the persistent tunnel exec process and awaits ready handshake.  *)
(* If initial spawn fails, rejects to caller." (host.ts:170): start() of a *)
(* host that nobody closes settles.                                        *)
StartSettles == (start = "waiting") ~> (start # "waiting" \/ closing # "none")

(* "Initial start() failure: rejects to caller, records status, and does   *)
(* not schedule reconnect" (tests/tunnel-lifecycle.test.ts:332).           *)
RejectedStaysDown == start = "rejected" => ~timer /\ spawned = 1

(* "Give process up to 1000ms to exit cleanly before forced kill"          *)
(* (host.ts:357): no process outlives close() by more than the time a      *)
(* signal takes.                                                           *)
ForcedKill ==
  state = "stopped" =>
    \A i \in Spawns : proc[i] = "running" => signal[i] = "KILL"
=============================================================================
