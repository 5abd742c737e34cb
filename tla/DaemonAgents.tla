---------------------------- MODULE DaemonAgents ----------------------------
(***************************************************************************)
(* The agents a runtime daemon keeps in memory: loading, the processors of *)
(* the session queues, eviction, the idle sweep and session maintenance.   *)
(*   runtime-runner runtime/daemon.ts   handleSubmitTurn,                  *)
(*        getOrCreateManagedAgent, verifyAndReturnExistingAgent,           *)
(*        doCreateManagedAgent, ensureLruCapacity, processSessionQueue,    *)
(*        scheduleNextTurns, sweepIdleAgents, withSessionMaintenance,      *)
(*        evictAgent                                                       *)
(*   runtime-runner runtime/dsh-boot.ts   agentHandles: getOrCreateAgent,  *)
(*        importSeed, removeAgent                                          *)
(* A step is what runs between two awaits.  Cancelling and the journal are *)
(* part of DeliveryGateway.                                                *)
(***************************************************************************)
EXTENDS Naturals, FiniteSets

CONSTANTS
  Sessions,
  Ops,             \* maintenance requests
  Kinds,           \* what they may be: "export", "check", "import"
  None,            \* no entry, no operation
  MaxAgents,       \* maxAgents
  MaxConcurrent,   \* maxConcurrentSessions
  MaxTurns,        \* bound: turns submitted
  MaxEntries,      \* bound: agents ever loaded
  MaxSweeps,       \* bound: sweeps
  MaxFaults,       \* bound: loads and plan updates that fail
  MaxPlans         \* bound: turns that bring another extension plan

(* What a run assumes of the constants.                                    *)
DaemonAgentsAssumption ==
  /\ {MaxAgents, MaxConcurrent, MaxTurns, MaxEntries, MaxSweeps, MaxFaults} \subseteq Nat
  /\ MaxPlans \in Nat
  /\ Kinds \subseteq {"export", "check", "import"}
  /\ IsFiniteSet(Sessions) /\ None \notin Sessions /\ None \notin 1..MaxEntries

Entries == 1..MaxEntries

VARIABLES
  agents,     \* session -> its entry in the map, or None
  lock,       \* session -> the entry that has the lock file, or None
  home,       \* entry -> its session, None before it is made
  live,       \* the entries whose agent is in memory
  replaced,   \* history: entries whose agent the runtime disposed of itself
  other,      \* session -> an agent in memory that no entry has: "none",
              \* "mapped" (in the runtime's map), "lost" (dropped from it)
  status,     \* entry -> "idle", "running", "draining"
  queue,      \* session -> turns that wait
  cur,        \* session -> the entry its current turn runs on, or None
  proc,       \* session -> its queue processor
  load,       \* session -> the load in flight
  kicked,     \* sessions whose queue is about to be looked at
  ev,         \* who evicts -> what: session, entry, step
  sweep,      \* the sessions of the sweep that are left to evict
  maint,      \* operation -> session, entry, kind, step, status found
  plan,       \* who updates the plan of an agent -> entry, step
  turns, sweeps, faults, plans

pool == <<agents, lock, home, live, status>>
runtime == <<replaced, other, plan, plans>>
vars == <<pool, runtime, queue, cur, proc, load, kicked, ev, sweep, maint, turns, sweeps,
          faults>>

Evictors == ({"proc", "load", "sweep"} \X Sessions) \cup ({"maint"} \X Ops)
Planners == {"submit", "proc"} \X Sessions
NoPlan == [e |-> None, at |-> "none"]
NoOp == [s |-> None, e |-> None, kind |-> "none", at |-> "none", found |-> "idle"]

Init ==
  /\ agents = [s \in Sessions |-> None] /\ lock = [s \in Sessions |-> None]
  /\ home = [e \in Entries |-> None] /\ live = {}
  /\ status = [e \in Entries |-> "idle"]
  /\ queue = [s \in Sessions |-> 0] /\ cur = [s \in Sessions |-> None]
  /\ proc = [s \in Sessions |-> "none"] /\ load = [s \in Sessions |-> "none"]
  /\ kicked = {} /\ ev = [x \in Evictors |-> NoOp] /\ sweep = {}
  /\ maint = [m \in Ops |-> NoOp] /\ turns = 0 /\ sweeps = 0 /\ faults = 0
  /\ replaced = {} /\ other = [s \in Sessions |-> "none"]
  /\ plan = [x \in Planners |-> NoPlan] /\ plans = 0

To(v, x, y) == v' = [v EXCEPT ![x] = y]
Evicting(x) == ev[x].at # "none"
Waiting == {s \in Sessions : queue[s] > 0}

-----------------------------------------------------------------------------
(* evictAgent: the guard, then three waits.                                *)

(* x begins to evict the session's entry, unless there is none or a turn   *)
(* runs.                                                                   *)
BeginEvict(x, s) ==
  IF agents[s] = None \/ cur'[s] # None THEN UNCHANGED ev
  ELSE To(ev, x, [NoOp EXCEPT !.s = s, !.e = agents[s], !.at = "flush"])

(* Mutant: the lock is released before the agent is disposed of.           *)
DisposeLate(x) ==
  /\ ev[x].at = "flush" /\ To(ev, x, [ev[x] EXCEPT !.at = "retire"])
  /\ lock' = [s \in Sessions |-> IF lock[s] = ev[x].e THEN None ELSE lock[s]]
  /\ UNCHANGED <<runtime, agents, home, live, status, queue, cur, proc, load, kicked, sweep,
                 maint, turns, sweeps, faults>>

Dispose(x) ==
  /\ ev[x].at = "flush" /\ To(ev, x, [ev[x] EXCEPT !.at = "retire"])
  /\ live' = live \ {ev[x].e}
  /\ UNCHANGED <<runtime, agents, lock, home, status, queue, cur, proc, load, kicked, sweep,
                 maint, turns, sweeps, faults>>

(* The entry's lock is released; whatever the session has in the daemon's  *)
(* map goes, and removeAgent drops what it has in the runtime's: an agent  *)
(* that is not the entry's stays in memory.                                *)
EndEvict(x) ==
  /\ ev[x].at = "retire" /\ To(ev, x, NoOp)
  /\ lock' = [s \in Sessions |-> IF lock[s] = ev[x].e THEN None ELSE lock[s]]
  /\ To(agents, ev[x].s, None)
  /\ other' = [other EXCEPT ![ev[x].s] = IF @ = "mapped" THEN "lost" ELSE @]
  /\ UNCHANGED <<replaced, plan, plans, home, live, status, queue, cur, proc, load, kicked,
                 sweep, maint, turns, sweeps, faults>>

-----------------------------------------------------------------------------
(* getOrCreateManagedAgent when the session has no entry.                  *)

(* One load at a time; who comes later waits for it.                       *)
JoinLoad(s) == IF load[s] = "none" THEN To(load, s, "capacity") ELSE UNCHANGED load

(* ensureLruCapacity.                                                      *)
Spare == {s \in Sessions : /\ agents[s] # None /\ cur[s] = None /\ queue[s] = 0
                           /\ status[agents[s]] = "idle"}

Capacity(s) ==
  /\ load[s] = "capacity" /\ UNCHANGED cur
  /\ IF Cardinality({t \in Sessions : agents[t] # None}) < MaxAgents \/ Spare = {}
     THEN To(load, s, "lock") /\ UNCHANGED ev
     ELSE To(load, s, "evict") /\ \E t \in Spare : BeginEvict(<<"load", s>>, t)
  /\ UNCHANGED <<runtime, pool, queue, proc, kicked, sweep, maint, turns, sweeps, faults>>

CapacityMade(s) ==
  /\ load[s] = "evict" /\ ~Evicting(<<"load", s>>) /\ To(load, s, "lock")
  /\ UNCHANGED <<runtime, pool, queue, cur, proc, kicked, ev, sweep, maint, turns, sweeps, faults>>

(* acquireSessionLock, and getOrCreateAgent begins: the agent the runtime  *)
(* has for the session already becomes the entry's.                        *)
Booting(s) == load[s] \in {"boot", "adopt"}

TakeLock(s) ==
  /\ load[s] = "lock" /\ lock[s] = None
  /\ \E e \in Entries :
       /\ home[e] = None /\ \A d \in Entries : d < e => home[d] # None
       /\ To(home, e, s) /\ To(lock, s, e) /\ live' = live \cup {e}
  /\ To(load, s, IF other[s] = "mapped" THEN "adopt" ELSE "boot")
  /\ other' = [other EXCEPT ![s] = IF @ = "mapped" THEN "none" ELSE @]
  /\ UNCHANGED <<replaced, plan, plans, agents, status, queue, cur, proc, kicked, ev, sweep,
                 maint, turns, sweeps, faults>>

(* A turn starts on entry e.                                               *)
StartTurn(s, e) ==
  /\ To(queue, s, queue[s] - 1) /\ To(cur, s, e) /\ To(status, e, "running")
  /\ To(proc, s, "run")

(* The agent is there; a processor that waited for it goes on at once, and *)
(* the turns that waited have the queue looked at.                         *)
Loaded(s) ==
  /\ Booting(s) /\ To(load, s, "none") /\ To(agents, s, lock[s])
  /\ IF proc[s] = "load" /\ queue[s] > 0 THEN StartTurn(s, lock[s]) /\ UNCHANGED kicked
     ELSE /\ proc' = [proc EXCEPT ![s] = IF @ = "load" THEN "none" ELSE @]
          /\ kicked' = kicked \cup {s} /\ UNCHANGED <<queue, cur, status>>
  /\ UNCHANGED <<runtime, lock, home, live, ev, sweep, maint, turns, sweeps, faults>>

(* The lock could not be had in five seconds, or the agent did not boot:   *)
(* the turns that waited for it fail.  An agent that was there already may *)
(* have been disposed of, or stays in the runtime's map.                   *)
LoadFails(s) ==
  /\ \/ load[s] = "lock" /\ lock[s] # None /\ UNCHANGED <<other, lock, live, faults>>
     \/ /\ Booting(s) /\ faults < MaxFaults /\ faults' = faults + 1
        /\ To(lock, s, None) /\ live' = live \ {lock[s]}
        /\ \/ UNCHANGED other
           \/ load[s] = "adopt" /\ To(other, s, "mapped")
  /\ To(load, s, "none")
  /\ \E n \in 0..queue[s] : (n < queue[s] \/ n = 0) /\ To(queue, s, n)
  /\ proc' = [proc EXCEPT ![s] = IF @ = "load" THEN "none" ELSE @]
  /\ kicked' = kicked \cup Waiting
  /\ UNCHANGED <<replaced, plan, plans, agents, home, status, cur, ev, sweep, maint, turns,
                 sweeps>>

-----------------------------------------------------------------------------
(* A turn with another extension plan but the same skills: the plan of the *)
(* agent that is there is updated by the runtime (verifyAndReturnExisting- *)
(* Agent), which replaces the agent if that fails; the entry keeps the old *)
(* one.                                                                    *)

(* The runtime's map has an agent of the session.                          *)
InMap(s) ==
  \/ other[s] = "mapped" \/ agents[s] \in live
  \/ \E x \in Evictors : ev[x].at = "retire" /\ ev[x].s = s

BeginPlan(x) ==
  /\ plans < MaxPlans /\ plans' = plans + 1 /\ plan[x] = NoPlan
  /\ To(plan, x, [e |-> agents[x[2]], at |-> IF InMap(x[2]) THEN "update" ELSE "rebuild"])

(* The entry is returned: its queue is looked at, or the processor starts  *)
(* the turn on it.                                                         *)
Planned(x) ==
  LET s == x[2] IN
  /\ To(plan, x, NoPlan)
  /\ \/ /\ x[1] = "submit" /\ kicked' = kicked \cup {s}
        /\ UNCHANGED <<queue, cur, status, proc>>
     \/ x[1] = "proc" /\ queue[s] > 0 /\ StartTurn(s, plan[x].e) /\ UNCHANGED kicked
     \/ /\ x[1] = "proc" /\ queue[s] = 0 /\ To(proc, s, "none")
        /\ UNCHANGED <<queue, cur, status, kicked>>
  /\ UNCHANGED <<agents, lock, home, live, replaced, load, ev, sweep, maint, turns, sweeps,
                 faults, plans>>

PlanUpdated(x) == plan[x].at = "update" /\ Planned(x) /\ UNCHANGED other

(* The agent is disposed of and leaves the runtime's map, with whatever an *)
(* import has put there meanwhile.                                         *)
PlanDispose(x) ==
  /\ plan[x].at = "update" /\ To(plan, x, [plan[x] EXCEPT !.at = "rebuild"])
  /\ live' = live \ {plan[x].e} /\ replaced' = replaced \cup {plan[x].e}
  /\ \E o \in {"none", "lost"} :
       other' = [other EXCEPT ![x[2]] = IF @ = "mapped" THEN o ELSE @]
  /\ UNCHANGED <<agents, lock, home, status, queue, cur, proc, load, kicked, ev, sweep, maint,
                 turns, sweeps, faults, plans>>

(* The registry of agents has one of the session already.                  *)
Registered(s) == other[s] # "none" \/ \E e \in live : home[e] = s

PlanRebuilt(x) ==
  plan[x].at = "rebuild" /\ ~Registered(x[2]) /\ To(other, x[2], "mapped") /\ Planned(x)

(* The turn fails: a plugin cannot be activated, or no agent can be made.  *)
PlanFails(x) ==
  LET s == x[2] IN
  /\ \/ plan[x].at # "none" /\ faults < MaxFaults /\ faults' = faults + 1
     \/ plan[x].at = "rebuild" /\ Registered(s) /\ UNCHANGED faults
  /\ To(plan, x, NoPlan)
  /\ queue' = [queue EXCEPT ![s] = IF @ = 0 THEN 0 ELSE @ - 1]
  /\ \/ x[1] = "submit" /\ UNCHANGED <<proc, kicked>>
     \/ x[1] = "proc" /\ To(proc, s, "none") /\ kicked' = kicked \cup Waiting
  /\ UNCHANGED <<pool, replaced, other, plans, cur, load, ev, sweep, maint, turns, sweeps>>

(* sendFollowup makes the agent again when the runtime's map has none.     *)
TurnRebuilds(s) ==
  /\ cur[s] \in replaced /\ ~Registered(s) /\ To(other, s, "mapped")
  /\ UNCHANGED <<pool, replaced, plan, plans, queue, cur, proc, load, kicked, ev, sweep, maint,
                 turns, sweeps, faults>>

-----------------------------------------------------------------------------
(* handleSubmitTurn: the turn is queued and the agent made ready.  An      *)
(* agent with another configuration is left to drain.                      *)
SubmitTurn(s) ==
  /\ turns < MaxTurns /\ turns' = turns + 1
  /\ To(queue, s, queue[s] + 1)
  /\ \/ agents[s] = None /\ JoinLoad(s) /\ UNCHANGED <<status, kicked, plan, plans>>
     \/ /\ agents[s] # None /\ kicked' = kicked \cup {s} /\ UNCHANGED <<load, plan, plans>>
        /\ \E differs \in BOOLEAN :
             To(status, agents[s], IF differs THEN "draining" ELSE status[agents[s]])
     \/ /\ agents[s] # None /\ BeginPlan(<<"submit", s>>)
        /\ UNCHANGED <<status, kicked, load>>
  /\ UNCHANGED <<replaced, other, agents, lock, home, live, cur, proc, ev, sweep, maint, sweeps,
                 faults>>

(* processSessionQueue.                                                    *)
Running == {s \in Sessions : cur[s] # None}
MayProcess(s) ==
  /\ proc[s] = "none" /\ queue[s] > 0 /\ cur[s] = None
  /\ Cardinality(Running) < MaxConcurrent

ProcessSkipped(s) ==
  /\ s \in kicked /\ ~MayProcess(s) /\ kicked' = kicked \ {s}
  /\ UNCHANGED <<runtime, pool, queue, cur, proc, load, ev, sweep, maint, turns, sweeps, faults>>

(* With the agent that is there, with a new one because the configuration  *)
(* differs, with another plan, or with one that has to be loaded.          *)
Process(s) ==
  /\ s \in kicked /\ MayProcess(s) /\ kicked' = kicked \ {s}
  /\ \/ /\ agents[s] # None /\ StartTurn(s, agents[s]) /\ UNCHANGED <<load, ev, plan, plans>>
     \/ /\ agents[s] # None /\ UNCHANGED cur /\ BeginEvict(<<"proc", s>>, s)
        /\ To(proc, s, "evict") /\ UNCHANGED <<queue, status, load, plan, plans>>
     \/ /\ agents[s] # None /\ BeginPlan(<<"proc", s>>) /\ To(proc, s, "plan")
        /\ UNCHANGED <<queue, cur, status, load, ev>>
     \/ /\ agents[s] = None /\ JoinLoad(s) /\ To(proc, s, "load")
        /\ UNCHANGED <<queue, cur, status, ev, plan, plans>>
  /\ UNCHANGED <<replaced, other, agents, lock, home, live, sweep, maint, turns, sweeps, faults>>

(* Mutant: the turn goes on with the entry it had evicted.                 *)
ProcessEvictedOld(s) ==
  /\ proc[s] = "evict" /\ ~Evicting(<<"proc", s>>)
  /\ queue[s] > 0 /\ \E e \in Entries : home[e] = s /\ StartTurn(s, e)
  /\ UNCHANGED <<runtime, agents, lock, home, live, load, kicked, ev, sweep, maint, turns, sweeps,
                 faults>>

ProcessEvicted(s) ==
  /\ proc[s] = "evict" /\ ~Evicting(<<"proc", s>>)
  /\ \/ /\ queue[s] > 0 /\ agents[s] # None /\ StartTurn(s, agents[s]) /\ UNCHANGED load
     \/ /\ queue[s] > 0 /\ agents[s] = None /\ JoinLoad(s) /\ To(proc, s, "load")
        /\ UNCHANGED <<queue, cur, status>>
     \/ queue[s] = 0 /\ To(proc, s, "none") /\ UNCHANGED <<queue, cur, status, load>>
  /\ UNCHANGED <<runtime, agents, lock, home, live, kicked, ev, sweep, maint, turns, sweeps,
                 faults>>

(* Mutant: only the session's own queue is looked at when its turn ends.   *)
TurnEndsAlone(s) ==
  /\ proc[s] = "run" /\ To(cur, s, None) /\ To(proc, s, "none")
  /\ To(status, cur[s], "idle") /\ UNCHANGED ev
  /\ kicked' = kicked \cup ({s} \cap Waiting)
  /\ UNCHANGED <<runtime, agents, lock, home, live, queue, load, sweep, maint, turns, sweeps,
                 faults>>

(* The turn ends; an agent that drains is evicted with its last turn.      *)
TurnEnds(s) ==
  /\ proc[s] = "run" /\ To(cur, s, None)
  /\ IF status[cur[s]] = "draining" /\ queue[s] = 0
     THEN /\ BeginEvict(<<"proc", s>>, s) /\ To(proc, s, "drain")
          /\ UNCHANGED <<status, kicked>>
     ELSE /\ To(status, cur[s], "idle") /\ To(proc, s, "none")
          /\ kicked' = kicked \cup Waiting /\ UNCHANGED ev
  /\ UNCHANGED <<runtime, agents, lock, home, live, queue, load, sweep, maint, turns, sweeps,
                 faults>>

Drained(s) ==
  /\ proc[s] = "drain" /\ ~Evicting(<<"proc", s>>)
  /\ To(proc, s, "none") /\ kicked' = kicked \cup Waiting
  /\ UNCHANGED <<runtime, pool, queue, cur, load, ev, sweep, maint, turns, sweeps, faults>>

-----------------------------------------------------------------------------
(* sweepIdleAgents: the idle sessions are listed, then evicted in turn.    *)
Sweep ==
  /\ sweeps < MaxSweeps /\ sweep = {} /\ \A s \in Sessions : ~Evicting(<<"sweep", s>>)
  /\ Spare # {} /\ sweep' \in (SUBSET Spare) \ {{}} /\ sweeps' = sweeps + 1
  /\ UNCHANGED <<runtime, pool, queue, cur, proc, load, kicked, ev, maint, turns, faults>>

SweepOne(s) ==
  /\ s \in sweep /\ sweep' = sweep \ {s} /\ UNCHANGED cur
  /\ \A t \in Sessions : ~Evicting(<<"sweep", t>>)
  /\ BeginEvict(<<"sweep", s>>, s)
  /\ UNCHANGED <<runtime, pool, queue, proc, load, kicked, maint, turns, sweeps, faults>>

(* withSessionMaintenance: one operation of a session at a time.           *)
MaintBegin(m, s, k) ==
  /\ maint[m] = NoOp /\ \A n \in Ops : maint[n].at = "none" \/ maint[n].s # s
  /\ LET e == agents[s] IN
     /\ To(maint, m, [s |-> s, e |-> e, kind |-> k,
                      at |-> IF e = None THEN "action" ELSE "drain",
                      found |-> IF e = None THEN "idle" ELSE status[e]])
     /\ IF e = None THEN UNCHANGED status ELSE To(status, e, "draining")
  /\ UNCHANGED <<runtime, agents, lock, home, live, queue, cur, proc, load, kicked, ev, sweep,
                 turns, sweeps, faults>>

Go(m, at) == To(maint, m, [maint[m] EXCEPT !.at = at])

(* The turn that runs has ended, or 15 seconds are over; the flush.        *)
MaintDrained(m) ==
  /\ maint[m].at = "drain" /\ Go(m, "flushed")
  /\ UNCHANGED <<runtime, pool, queue, cur, proc, load, kicked, ev, sweep, turns, sweeps, faults>>

MaintFlushed(m) ==
  /\ maint[m].at = "flushed" /\ UNCHANGED cur
  /\ LET s == maint[m].s   e == maint[m].e IN
     IF maint[m].kind = "import"
     THEN /\ UNCHANGED status
          /\ IF cur[s] # None THEN Go(m, "end") /\ UNCHANGED ev
             ELSE Go(m, "evict") /\ BeginEvict(<<"maint", m>>, s)
     ELSE /\ Go(m, "action") /\ UNCHANGED ev
          /\ IF status[e] # "draining" THEN UNCHANGED status
             ELSE To(status, e, IF maint[m].found = "running" THEN "idle" ELSE maint[m].found)
  /\ UNCHANGED <<runtime, agents, lock, home, live, queue, proc, load, kicked, sweep, turns, sweeps,
                 faults>>

MaintEvicted(m) ==
  /\ maint[m].at = "evict" /\ ~Evicting(<<"maint", m>>) /\ Go(m, "action")
  /\ UNCHANGED <<runtime, pool, queue, cur, proc, load, kicked, ev, sweep, turns, sweeps, faults>>

(* importSeed of a session that is not there yet: an agent that is in the  *)
(* runtime's map is disposed of, and one is made from the seed, which      *)
(* stays in memory without an entry and without the lock.                  *)
Import(s) ==
  /\ other[s] # "lost" /\ \A e \in live : home[e] = s => e = agents[s]
  /\ live' = live \ {agents[s]} /\ replaced' = replaced \cup (live \cap {agents[s]})
  /\ \E o \in {"none", "mapped"} : To(other, s, o)

(* The history is read or written; a check that finds it damaged evicts.   *)
MaintAction(m) ==
  /\ maint[m].at = "action" /\ Go(m, "end") /\ UNCHANGED cur
  /\ \/ UNCHANGED <<ev, live, replaced, other>>
     \/ /\ maint[m].kind = "check" /\ BeginEvict(<<"maint", m>>, maint[m].s)
        /\ UNCHANGED <<live, replaced, other>>
     \/ maint[m].kind = "import" /\ Import(maint[m].s) /\ UNCHANGED ev
  /\ UNCHANGED <<agents, lock, home, status, plan, plans, queue, proc, load, kicked, sweep,
                 turns, sweeps, faults>>

MaintEnd(m) ==
  /\ maint[m].at = "end" /\ ~Evicting(<<"maint", m>>) /\ Go(m, "none")
  /\ kicked' = kicked \cup ({maint[m].s} \cap (Waiting \ Running))
  /\ UNCHANGED <<runtime, pool, queue, cur, proc, load, ev, sweep, turns, sweeps, faults>>

-----------------------------------------------------------------------------
EvictStep(x) == Dispose(x) \/ EndEvict(x)
LoadStep(s) == Capacity(s) \/ CapacityMade(s) \/ TakeLock(s) \/ Loaded(s)
PlanStep(x) == PlanUpdated(x) \/ PlanDispose(x) \/ PlanRebuilt(x) \/ PlanFails(x)
ProcStep(s) ==
  ProcessSkipped(s) \/ Process(s) \/ ProcessEvicted(s) \/ TurnEnds(s) \/ Drained(s)
MaintStep(m) ==
  MaintDrained(m) \/ MaintFlushed(m) \/ MaintEvicted(m) \/ MaintAction(m) \/ MaintEnd(m)

Next ==
  \/ \E x \in Evictors : EvictStep(x)
  \/ \E s \in Sessions : \/ SubmitTurn(s) \/ LoadStep(s) \/ LoadFails(s)
                         \/ ProcStep(s) \/ SweepOne(s) \/ TurnRebuilds(s)
  \/ \E x \in Planners : PlanStep(x)
  \/ \E m \in Ops : MaintStep(m) \/ \E s \in Sessions, k \in Kinds : MaintBegin(m, s, k)
  \/ Sweep

Spec == Init /\ [][Next]_vars

(* Awaited calls return, turns end, immediates run.                        *)
FairSpec ==
  /\ Spec
  /\ \A x \in Evictors : WF_vars(EvictStep(x))
  /\ \A x \in Planners : WF_vars(PlanStep(x))
  /\ \A s \in Sessions : /\ WF_vars(LoadStep(s)) /\ WF_vars(LoadFails(s))
                         /\ WF_vars(ProcStep(s)) /\ WF_vars(SweepOne(s))
  /\ \A m \in Ops : WF_vars(MaintStep(m))

-----------------------------------------------------------------------------
(* The agent of an entry that is in memory has the lock of its session, so *)
(* that a session never has two of them, however evictions, loads, plan    *)
(* updates and maintenance interleave; the runtime's own have no lock.     *)
AgentHasLock == \A e \in live : lock[home[e]] = e

(* A turn runs on the session's own entry, which has the lock and whose    *)
(* agent is in memory, unless the runtime itself has disposed of it.       *)
TurnHasAgent ==
  \A s \in Sessions :
    cur[s] # None => /\ cur[s] \in live \cup replaced
                     /\ agents[s] = cur[s] /\ lock[s] = cur[s]

(* Only a session's own queue processor evicts its agent: there is room    *)
(* for every session, and neither sweeps nor maintenance that evicts.      *)
EvictsOwn ==
  Cardinality(Sessions) <= MaxAgents /\ MaxSweeps = 0 /\ Kinds \subseteq {"export"}

OneAgent == AgentHasLock /\ (EvictsOwn => TurnHasAgent)

(* A queued turn runs or fails, also when others hold the places and while *)
(* agents are evicted.                                                     *)
QueueDrains ==
  \A s \in Sessions : queue[s] > 0 ~> queue[s] = 0 \/ \A e \in Entries : home[e] # None

(* "Never evict an agent waiting for approval or currently running".       *)
NotEvictedWhileRunning ==
  \A s \in Sessions : cur[s] # None => cur[s] \in live

(* "Schedules any pending turns ... up to maxConcurrentSessions".          *)
ConcurrencyBounded == Cardinality(Running) <= MaxConcurrent

(* "Ensures agent registry capacity does not exceed maxAgents".            *)
PoolBounded == Cardinality({s \in Sessions : agents[s] # None}) <= MaxAgents

(* "by pausing new turns, draining any in-flight turn".                    *)
MaintenanceAlone ==
  \A m \in Ops : maint[m].at = "action" => cur[maint[m].s] = None

(* "held continuously while Agent is in memory": a lock that is held       *)
(* belongs to the agent in the map or to one that is being loaded.         *)
LockHasEntry ==
  \A s \in Sessions : lock[s] # None => agents[s] = lock[s] \/ Booting(s)

(* "held continuously while Agent is in memory": so the session of an      *)
(* agent that the runtime made for itself is locked too.                   *)
LockedInMemory == \A s \in Sessions : other[s] # "none" => lock[s] # None
=============================================================================
