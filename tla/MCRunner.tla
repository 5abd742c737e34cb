------------------------------ MODULE MCRunner ------------------------------
(***************************************************************************)
(* Model-checking module for the runtime of a user and its tunnel: lock of *)
(* a session, agents of the daemon, receipts of deliveries, relay of       *)
(* events, tunnel process, tunnel streams.  They share no state, so a run  *)
(* checks them side by side, as in MCServer: part says which instance a    *)
(* behaviour is about, and the variables of the others are 0 throughout.   *)
(***************************************************************************)
EXTENDS Naturals, Sequences

CONSTANTS
  Parts, None,                     \* the instances of the run; nobody, nothing
  Procs, Pair, MaxOpens, MaxDeaths,                      \* the lock: processes, two of them
  Sessions, Alone, Ops, Op, Kinds,                       \* the daemon: sessions, one of them,
  MaxAgents, MaxConcurrent,                              \* maintenance, one operation, limits
  MaxTurns, MaxEntries, MaxSweeps, MaxFaults, MaxPlans,
  Followups, Cancels, Reqs, MaxReqs, MaxCrashes,         \* the receipts: deliveries, requests
  MaxSpawns, MaxStarts, MaxBreaks, MaxRetries,           \* the tunnel process
  AutoReconnect, PromptExit, Obedient,
  Conns, Two, MaxStreams, MaxShared,                     \* the streams: connections, two of
  MaxErrors, MaxQuiet, PromptReader                      \* them, numbers

VARIABLES
  part,  \* the instance that moves
  file, pc, mine, seen, opens, deaths,
  agents, lock, home, live, status, daemonQueue, cur, daemonProc, load,
  kicked, ev, sweep, maint, turns, sweeps, daemonFaults, replaced, other,
  plan, plans,
  receipt, req, sent, told, inboundLeft,
  dsh, seq, buf, mapped, acked, relayStr, calls, made, missed, relayQueue,
  bytes, flush, newest, late, backoff, stored, relayLeft,
  state, attempts, timer, exec, active, pings, streams, start, tunnelClosing,
  last, call, tunnelProc, signal, spawned, tunnelFaults,
  sock, id, agentMap, next, up, down, streamStr, hostMap, streamClosing,
  applied, errors, quiet

lockVars == <<file, pc, mine, seen, opens, deaths>>
daemonVars == <<agents, lock, home, live, status, daemonQueue, cur,
                daemonProc, load, kicked, ev, sweep, maint, turns, sweeps,
                daemonFaults, replaced, other, plan, plans>>
inboundVars == <<receipt, req, sent, told, inboundLeft>>
relayVars == <<dsh, seq, buf, mapped, acked, relayStr, calls, made, missed,
               relayQueue, bytes, flush, newest, late, backoff, stored, relayLeft>>
tunnelVars == <<state, attempts, timer, exec, active, pings, streams, start,
                tunnelClosing, last, call, tunnelProc, signal, spawned,
                tunnelFaults>>
streamVars == <<sock, id, agentMap, next, up, down, streamStr, hostMap,
                streamClosing, applied, errors, quiet>>
vars == <<part, lockVars, daemonVars, inboundVars, relayVars, tunnelVars,
          streamVars>>

-----------------------------------------------------------------------------
(* The components about which RunnerTheorems proves.  First: the lock with *)
(* processes that all live (part "contending"), the daemon with            *)
(* maintenance ("pool"), receipts ("inbound"), the tunnel process without  *)
(* reconnection ("manual"), fewer numbers of streams than connections      *)
(* ("sharing").  Second: two processes that die ("dying"), sweeps of the   *)
(* daemon ("sweeping"), reconnection ("reconnecting"), numbers for all     *)
(* connections ("reusing").  Third: one session that only its own          *)
(* processor evicts ("turns"), sockets and handlers that fail ("failing"). *)
(* Fourth: handlers that destroy their streams ("quiet").                  *)
First == INSTANCE RunnerTheorems WITH
  MaxDeaths <- 0, Ops <- Op, MaxSweeps <- 0, AutoReconnect <- FALSE,
  PromptExit <- TRUE, MaxSpawns <- MaxStarts, MaxStreams <- MaxShared,
  MaxErrors <- 0, MaxQuiet <- 0, PromptReader <- TRUE
Second == INSTANCE RunnerTheorems WITH
  Procs <- Pair, MaxOpens <- MaxOpens + 1, Ops <- {}, Kinds <- {},
  MaxTurns <- MaxTurns + 1, MaxPlans <- 0, AutoReconnect <- TRUE, PromptExit <- TRUE,
  Conns <- Two, MaxErrors <- 0, MaxQuiet <- 0, PromptReader <- TRUE
Third == INSTANCE RunnerTheorems WITH
  Sessions <- Alone, Kinds <- {"export"}, MaxSweeps <- 0, Conns <- Two,
  MaxQuiet <- 0
Fourth == INSTANCE RunnerTheorems WITH Conns <- Two, MaxErrors <- 0

(* Agents of the daemon, for liveness: with a maintenance request, and     *)
(* with plans that change, updates and loads that fail.                    *)
Draining == INSTANCE DaemonAgents WITH
  Ops <- Op, Kinds <- {"check"}, MaxSweeps <- 0, MaxFaults <- 0, MaxPlans <- 0,
  queue <- daemonQueue, proc <- daemonProc, faults <- daemonFaults
Planning == INSTANCE DaemonAgents WITH
  Ops <- {}, Kinds <- {}, MaxSweeps <- 0,
  queue <- daemonQueue, proc <- daemonProc, faults <- daemonFaults

(* The event relay: frames of a turn with a tool call and events ingested  *)
(* twice, a queue at its limit, flushes that are taken for dead, and an    *)
(* instance for liveness.                                                  *)
Framing == INSTANCE EventRelay WITH
  Capacity <- 3, MaxPending <- 12, MaxBatch <- 12, Acks <- TRUE,
  PromptFlush <- TRUE, MaxFlushes <- 1, Calls <- {1}, MaxTurns <- 1,
  MaxStreams <- 1, MaxChunks <- 2, MaxRepeats <- 1, MaxFails <- 0,
  str <- relayStr, queue <- relayQueue, left <- relayLeft
Queueing == INSTANCE EventRelay WITH
  Capacity <- 12, MaxPending <- 3, MaxBatch <- 2, Acks <- FALSE,
  PromptFlush <- TRUE, MaxFlushes <- 1, Calls <- {}, MaxTurns <- 2,
  MaxStreams <- 1, MaxChunks <- 2, MaxRepeats <- 0, MaxFails <- 1,
  str <- relayStr, queue <- relayQueue, left <- relayLeft
Overtaking == INSTANCE EventRelay WITH
  Capacity <- 12, MaxPending <- 3, MaxBatch <- 1, Acks <- FALSE,
  PromptFlush <- FALSE, MaxFlushes <- 2, Calls <- {}, MaxTurns <- 1,
  MaxStreams <- 1, MaxChunks <- 2, MaxRepeats <- 0, MaxFails <- 1,
  str <- relayStr, queue <- relayQueue, left <- relayLeft
Arriving == INSTANCE EventRelay WITH
  Capacity <- 12, MaxPending <- 8, MaxBatch <- 2, Acks <- FALSE,
  PromptFlush <- FALSE, MaxFlushes <- 2, Calls <- {}, MaxTurns <- 1,
  MaxStreams <- 1, MaxChunks <- 2, MaxRepeats <- 0, MaxFails <- 1,
  str <- relayStr, queue <- relayQueue, left <- relayLeft

(* Streams of the tunnel, for liveness.                                    *)
Returning == INSTANCE TunnelStreams WITH
  Conns <- Two, MaxStreams <- 1, MaxQuiet <- 0, PromptReader <- TRUE,
  str <- streamStr, closing <- streamClosing

ASSUME RunnerAssumption ==
  /\ \A p, q, r \in Pair : p = q \/ q = r \/ p = r
  /\ First!Lock!SessionLockAssumption /\ Second!Lock!SessionLockAssumption
  /\ First!Daemon!DaemonAgentsAssumption /\ Second!Daemon!DaemonAgentsAssumption
  /\ Third!Daemon!DaemonAgentsAssumption
  /\ Draining!DaemonAgentsAssumption /\ Planning!DaemonAgentsAssumption
  /\ First!Inbound!ReceiptAssumption
  /\ Framing!RelayAssumption /\ Queueing!RelayAssumption
  /\ Overtaking!RelayAssumption /\ Arriving!RelayAssumption
  /\ First!Tunnel!TunnelHostAssumption /\ Second!Tunnel!TunnelHostAssumption
  /\ First!Stream!TunnelStreamsAssumption /\ Second!Stream!TunnelStreamsAssumption
  /\ Third!Stream!TunnelStreamsAssumption /\ Fourth!Stream!TunnelStreamsAssumption
  /\ Third!Enough /\ Fourth!Enough /\ Returning!TunnelStreamsAssumption

-----------------------------------------------------------------------------
lockOff ==
  /\ file = 0 /\ pc = 0 /\ mine = 0 /\ seen = 0 /\ opens = 0 /\ deaths = 0
daemonOff ==
  /\ agents = 0 /\ lock = 0 /\ home = 0 /\ live = 0 /\ status = 0
  /\ daemonQueue = 0 /\ cur = 0 /\ daemonProc = 0 /\ load = 0
  /\ kicked = 0 /\ ev = 0 /\ sweep = 0 /\ maint = 0 /\ turns = 0
  /\ sweeps = 0 /\ daemonFaults = 0 /\ replaced = 0 /\ other = 0
  /\ plan = 0 /\ plans = 0
inboundOff ==
  /\ receipt = 0 /\ req = 0 /\ sent = 0 /\ told = 0 /\ inboundLeft = 0
relayOff ==
  /\ dsh = 0 /\ seq = 0 /\ buf = 0 /\ mapped = 0 /\ acked = 0
  /\ relayStr = 0 /\ calls = 0 /\ made = 0 /\ missed = 0 /\ relayQueue = 0
  /\ bytes = 0 /\ flush = 0 /\ newest = 0 /\ late = 0 /\ backoff = 0 /\ stored = 0
  /\ relayLeft = 0
tunnelOff ==
  /\ state = 0 /\ attempts = 0 /\ timer = 0 /\ exec = 0 /\ active = 0
  /\ pings = 0 /\ streams = 0 /\ start = 0 /\ tunnelClosing = 0
  /\ last = 0 /\ call = 0 /\ tunnelProc = 0 /\ signal = 0 /\ spawned = 0
  /\ tunnelFaults = 0
streamOff ==
  /\ sock = 0 /\ id = 0 /\ agentMap = 0 /\ next = 0 /\ up = 0 /\ down = 0
  /\ streamStr = 0 /\ hostMap = 0 /\ streamClosing = 0 /\ applied = 0
  /\ errors = 0 /\ quiet = 0

(* The others are left out of the state.                                   *)
Init ==
  /\ part \in Parts
  /\ \/ part = "contending" /\ First!Lock!Init
     \/ part = "dying" /\ Second!Lock!Init
     \/ part \notin {"contending", "dying"} /\ lockOff
  /\ \/ part = "pool" /\ First!Daemon!Init
     \/ part = "sweeping" /\ Second!Daemon!Init
     \/ part = "turns" /\ Third!Daemon!Init
     \/ part = "draining" /\ Draining!Init
     \/ part = "planning" /\ Planning!Init
     \/ part \notin {"pool", "sweeping", "turns", "draining", "planning"} /\ daemonOff
  /\ \/ part = "inbound" /\ First!Inbound!Init
     \/ part \notin {"inbound"} /\ inboundOff
  /\ \/ part = "framing" /\ Framing!Init
     \/ part = "queueing" /\ Queueing!Init
     \/ part = "overtaking" /\ Overtaking!Init
     \/ part = "arriving" /\ Arriving!Init
     \/ part \notin {"framing", "queueing", "overtaking", "arriving"} /\ relayOff
  /\ \/ part = "manual" /\ First!Tunnel!Init
     \/ part = "reconnecting" /\ Second!Tunnel!Init
     \/ part \notin {"manual", "reconnecting"} /\ tunnelOff
  /\ \/ part = "sharing" /\ First!Stream!Init
     \/ part = "reusing" /\ Second!Stream!Init
     \/ part = "failing" /\ Third!Stream!Init
     \/ part = "quiet" /\ Fourth!Stream!Init
     \/ part = "returning" /\ Returning!Init
     \/ part \notin {"sharing", "reusing", "failing", "quiet", "returning"} /\ streamOff

Next ==
  \/ /\ \/ part = "contending" /\ First!Lock!Next
        \/ part = "dying" /\ Second!Lock!Next
     /\ UNCHANGED <<part, daemonVars, inboundVars, relayVars, tunnelVars,
                    streamVars>>
  \/ /\ \/ part = "pool" /\ First!Daemon!Next
        \/ part = "sweeping" /\ Second!Daemon!Next
        \/ part = "turns" /\ Third!Daemon!Next
        \/ part = "draining" /\ Draining!Next
        \/ part = "planning" /\ Planning!Next
     /\ UNCHANGED <<part, lockVars, inboundVars, relayVars, tunnelVars,
                    streamVars>>
  \/ /\ part = "inbound" /\ First!Inbound!Next
     /\ UNCHANGED <<part, lockVars, daemonVars, relayVars, tunnelVars,
                    streamVars>>
  \/ /\ \/ part = "framing" /\ Framing!Next
        \/ part = "queueing" /\ Queueing!Next
        \/ part = "overtaking" /\ Overtaking!Next
        \/ part = "arriving" /\ Arriving!Next
     /\ UNCHANGED <<part, lockVars, daemonVars, inboundVars, tunnelVars,
                    streamVars>>
  \/ /\ \/ part = "manual" /\ First!Tunnel!Next
        \/ part = "reconnecting" /\ Second!Tunnel!Next
     /\ UNCHANGED <<part, lockVars, daemonVars, inboundVars, relayVars,
                    streamVars>>
  \/ /\ \/ part = "sharing" /\ First!Stream!Next
        \/ part = "reusing" /\ Second!Stream!Next
        \/ part = "failing" /\ Third!Stream!Next
        \/ part = "quiet" /\ Fourth!Stream!Next
        \/ part = "returning" /\ Returning!Next
     /\ UNCHANGED <<part, lockVars, daemonVars, inboundVars, relayVars,
                    tunnelVars>>

Spec == Init /\ [][Next]_vars

(* The fairness of each component, for the instance that moves: timers     *)
(* fire, calls return or fail, sockets and processes report their end.     *)
DrainingFairness ==
  LET On == part = "draining" IN
  /\ \A x \in Draining!Evictors : WF_daemonVars(On /\ Draining!EvictStep(x))
  /\ \A x \in Draining!Planners : WF_daemonVars(On /\ Draining!PlanStep(x))
  /\ \A s \in Sessions :
       /\ WF_daemonVars(On /\ Draining!LoadStep(s)) /\ WF_daemonVars(On /\ Draining!LoadFails(s))
       /\ WF_daemonVars(On /\ Draining!ProcStep(s)) /\ WF_daemonVars(On /\ Draining!SweepOne(s))
  /\ \A m \in Op : WF_daemonVars(On /\ Draining!MaintStep(m))

PlanningFairness ==
  LET On == part = "planning" IN
  /\ \A x \in Planning!Evictors : WF_daemonVars(On /\ Planning!EvictStep(x))
  /\ \A x \in Planning!Planners : WF_daemonVars(On /\ Planning!PlanStep(x))
  /\ \A s \in Sessions :
       /\ WF_daemonVars(On /\ Planning!LoadStep(s)) /\ WF_daemonVars(On /\ Planning!LoadFails(s))
       /\ WF_daemonVars(On /\ Planning!ProcStep(s)) /\ WF_daemonVars(On /\ Planning!SweepOne(s))

ArrivingFairness ==
  LET On == part = "arriving" IN
  /\ WF_relayVars(On /\ Arriving!FlushOutbound(FALSE))
  /\ WF_relayVars(On /\ Arriving!BackoffEnds) /\ \A f \in Arriving!Flushes : WF_relayVars(On /\ Arriving!Posted(f))

ReconnectFairness ==
  LET On == part = "reconnecting" IN
  /\ WF_tunnelVars(On /\ Second!Tunnel!TimerFires)
  /\ WF_tunnelVars(On /\ Second!Tunnel!CloseAwaited)
  /\ WF_tunnelVars(On /\ Second!Tunnel!Teardown)
  /\ WF_tunnelVars(On /\ Second!Tunnel!CloseEnds)
  /\ \A i \in 1..MaxSpawns :
       /\ WF_tunnelVars(On /\ (Second!Tunnel!Spawned(i) \/ Second!Tunnel!SpawnFails(i)))
       /\ WF_tunnelVars(On /\ (Second!Tunnel!Pong(i) \/ Second!Tunnel!PingFails(i)))
       /\ WF_tunnelVars(On /\ Second!Tunnel!ExitReported(i))
       /\ WF_tunnelVars(On /\ Second!Tunnel!Ends(i) /\ signal[i] # "none")

ReturningFairness ==
  LET On == part = "returning" IN
  /\ WF_streamVars(On /\ Returning!AgentReceives) /\ WF_streamVars(On /\ Returning!HostReceives)
  /\ \A c \in Two :
       /\ WF_streamVars(On /\ Returning!ClientEnd(c))
       /\ WF_streamVars(On /\ Returning!SocketCloses(c))
       /\ WF_streamVars(On /\ Returning!CloseEvent(c))
       /\ WF_streamVars(On /\ Returning!HostReads(c))
       /\ WF_streamVars(On /\ Returning!HostEnd(c))

FairSpec ==
  Spec /\ DrainingFairness /\ PlanningFairness /\ ArrivingFairness /\ ReconnectFairness
       /\ ReturningFairness

-----------------------------------------------------------------------------
(* One process at a time works on a session's history, and the file of the *)
(* process that has the lock stays in its place until that process removes *)
(* it: nobody takes it for a stale one (session-lock.ts).                  *)
OneHolder ==
  /\ part = "contending" => First!Lock!OneHolder
  /\ part = "dying" => Second!Lock!OneHolder

(* The agent of an entry that is in memory has the lock of its session, so *)
(* that a session never has two of them, and a turn runs on the session's  *)
(* own entry, however evictions, loads, plan updates, sweeps and           *)
(* maintenance interleave (daemon.ts, dsh-boot.ts).                        *)
OneAgent ==
  /\ part = "pool" => First!Daemon!OneAgent
  /\ part = "sweeping" => Second!Daemon!OneAgent
  /\ part = "turns" => Third!Daemon!OneAgent

(* A delivery is accepted once, though it is sent again, at the same time  *)
(* or after a crash, what the caller is answered is true, and a receipt    *)
(* once settled stays (the receipt store and the inbound plugin).          *)
AcceptedOnce ==
  [][part = "inbound" => /\ First!Inbound!TypeOK' /\ First!Inbound!AcceptedOnce'
                         /\ First!Inbound!AnswerIsTrue' /\ First!Inbound!ReceiptFinal]_vars

(* Events of the runtime reach the platform in order (event relay): a turn *)
(* ends once and closes its streams; the platform has a frame once and,    *)
(* while no flush is taken for dead and overtaken, never before an older   *)
(* one; a full queue drops deltas only.                                    *)
EventsInOrder ==
  [][/\ part = "framing" => Framing!TypeOK' /\ Framing!EndsOnce' /\ Framing!StreamsClosed'
     /\ part = "queueing" => /\ Queueing!StoredInOrder' /\ Queueing!QueueBounded'
                             /\ Queueing!DeltasGoFirst
     /\ part = "overtaking" => /\ Overtaking!StoredInOrder' /\ Overtaking!QueueBounded'
                               /\ Overtaking!DeltasGoFirst]_vars

(* No tunnel process runs on in the container without a host that knows of *)
(* it, and a connected host talks to a process nobody killed (host.ts).    *)
NoOrphan ==
  /\ part = "manual" => First!Tunnel!NoOrphan /\ First!Tunnel!ConnectedMeansExec
  /\ part = "reconnecting" => /\ Second!Tunnel!TypeOK /\ Second!Tunnel!NoOrphan
                              /\ Second!Tunnel!ConnectedMeansExec

(* Stream numbers that are used again never mix two connections up, also   *)
(* when sockets break and handlers fail, and without failures an accepted  *)
(* connection is refused by no frame (agent.ts, host.ts of the tunnel).    *)
StreamsApart ==
  /\ part = "sharing" => /\ First!Stream!OwnFramesOnly /\ First!Stream!StreamKeepsNumber
                         /\ First!Stream!AcceptedNotRefused
  /\ part = "reusing" => /\ Second!Stream!TypeOK /\ Second!Stream!OwnFramesOnly
                         /\ Second!Stream!StreamKeepsNumber
                         /\ Second!Stream!AcceptedNotRefused
  /\ part = "failing" => Third!Stream!OwnFramesOnly /\ Third!Stream!StreamKeepsNumber
  /\ part = "quiet" => Fourth!Stream!OwnFramesOnly /\ Fourth!Stream!StreamKeepsNumber

(* A queued turn runs or fails, also when others hold the places, while    *)
(* agents are evicted and while the runtime replaces one for another plan, *)
(* as long as agents can be loaded.                                        *)
QueueDrains ==
  LET On == part \in {"draining", "planning"} IN
  \A s \in Sessions :
    (On /\ daemonQueue[s] > 0)
      ~> (On /\ (daemonQueue[s] = 0 \/ \A e \in Draining!Entries : home[e] # None))

(* The end of a turn reaches the platform.                                 *)
TurnEndArrives ==
  \A t \in 1..2 :
    (part = "arriving" /\ dsh.turn = t /\ ~dsh.running)
      ~> (part = "arriving" /\ \E i \in 1..Len(stored) : /\ stored[i].k = "turn_ended"
                                                        /\ stored[i].t = t)

(* A lost tunnel is connected again or given up, within maxRetries.        *)
ReconnectEnds ==
  (part = "reconnecting" /\ state = "reconnecting")
    ~> (part = "reconnecting" /\ state # "reconnecting")

(* A connection that is given a number is closed and the number is free    *)
(* again: no stream stays half open for ever.                              *)
NumbersReturn ==
  (part = "returning" /\ agentMap[1] # None) ~> (part = "returning" /\ agentMap[1] = None)
=============================================================================
