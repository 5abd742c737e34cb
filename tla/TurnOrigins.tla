---------------------------- MODULE TurnOrigins ----------------------------
(***************************************************************************)
(* Which turn of the platform a turn of the agent belongs to, for one      *)
(* session of the runtime.  The agent numbers its turns; some answer a     *)
(* message of the platform, others start by themselves because a subagent  *)
(* or a background job has ended.  sendFollowup binds a platform turn to a *)
(* guessed number and corrects the guess; the event relay stamps every     *)
(* frame with a platform turn, or with an id of its own, an origin and the *)
(* child that caused the turn.                                             *)
(***************************************************************************)
EXTENDS Integers, Sequences, FiniteSets, SequencesExt

CONSTANTS
  Platform,   \* number of platform turns
  Children,   \* subagents and background jobs
  Jobs,       \* those whose notices carry no id
  Overlap,    \* may a child report while a platform turn is bound?
  Restarts,   \* bound: restarts of the runtime
  MaxTurn     \* bound: turns of the agent

(* What a run assumes of the constants.                                    *)
OriginsAssumption ==
  /\ {Platform, Restarts, MaxTurn} \subseteq Nat
  /\ Jobs \subseteq Children /\ "none" \notin Children
  /\ Overlap \in BOOLEAN

VARIABLES
  agent,     \* number of the last turn, is it running, what each turn was for, the messages that wait
  kids,      \* state of each child, and the turn that really started it
  task,      \* sendFollowup: the bound platform turn
  active,    \* activeTurnContexts: a platform turn or 0
  auto,      \* activeAutonomousContexts
  intMap,    \* dshIntTurnMap
  pend,      \* pendingAutonomousOrigins
  origins,   \* childOriginMap
  store,     \* the child origins in the receipt store
  jobs,      \* sessionJobs: jobs not matched yet, oldest first
  frames,    \* turn_started and turn_ended frames
  replies,   \* what sendFollowup returned for each platform turn
  left       \* what the bounds still allow

relay == <<active, auto, intMap, pend, origins, jobs>>
vars == <<agent, kids, task, relay, store, frames, replies, left>>

\* An id is positive for a platform turn, the negated number for a turn_auto id, 0 for none.
Context(id, o, c) == [id |-> id, origin |-> o, cause |-> c]
NoContext == Context(0, 0, "none")
NoTask == [pc |-> "none", p |-> 0, int |-> 0, observed |-> FALSE, start |-> 0]
User(p) == [p |-> p, c |-> "none"]
Notice(c) == [p |-> 0, c |-> c]
Ids == (-MaxTurn)..Platform

TypeOK ==
  /\ agent.int \in 0..MaxTurn /\ agent.running \in BOOLEAN
  /\ DOMAIN agent.by = 1..agent.int
  /\ active \in 0..Platform /\ auto.id \in Ids
  /\ \A n \in 1..MaxTurn : intMap[n].id \in Ids
  /\ \A c \in Children : origins[c] \in Ids /\ store[c] \in Ids
  /\ task.pc \in {"none", "bound", "waiting"}
  /\ Range(jobs) \subseteq Jobs

Init ==
  /\ agent = [int |-> 0, running |-> FALSE, by |-> <<>>, inbox |-> <<>>, replied |-> <<>>]
  /\ kids = [c \in Children |-> [state |-> "none", of |-> 0]]
  /\ task = NoTask
  /\ active = 0 /\ auto = NoContext /\ intMap = [n \in 1..MaxTurn |-> NoContext]
  /\ pend = <<>> /\ origins = [c \in Children |-> 0] /\ jobs = <<>>
  /\ store = [c \in Children |-> 0]
  /\ frames = <<>> /\ replies = <<>>
  /\ left = [turns |-> Platform, restarts |-> Restarts]

-----------------------------------------------------------------------------
(* The contexts of the relay *)

\* dshIntTurnMap, then activeTurnContexts, then activeAutonomousContexts
Scoped(n, m, a, u) ==
  IF m[n].id # 0 THEN m[n]
  ELSE IF a # 0 THEN Context(a, 0, "none")
  ELSE u

\* bindTurnContext
BindTurnContext(p, n) ==
  /\ pend' = <<>>
  /\ active' = p
  /\ intMap' = [intMap EXCEPT ![n] = Context(p, 0, "none")]
  /\ UNCHANGED <<auto, origins, jobs>>

UnbindNever(p) == active' = active
Unbind(p) == active' = IF active = p THEN 0 ELSE active

ResolveInMemory(c) == origins[c]

\* resolveOriginTurnId: memory, then the receipt store
ResolveOriginTurnId(c) == IF origins[c] # 0 THEN origins[c] ELSE store[c]

-----------------------------------------------------------------------------
(* sendFollowup *)

\* The number of the turn that runs, or the next one
GuessedTurn == IF agent.running THEN agent.int ELSE agent.int + 1

Bind(p) ==
  /\ task.pc = "none" /\ left.turns > 0 /\ p = Platform - left.turns + 1
  /\ agent.int + Len(agent.inbox) < MaxTurn
  /\ Overlap \/ (~agent.running /\ agent.inbox = <<>>)
  /\ task' = [pc |-> "bound", p |-> p, int |-> GuessedTurn, observed |-> FALSE, start |-> Len(agent.replied)]
  /\ BindTurnContext(p, GuessedTurn)
  /\ left' = [left EXCEPT !.turns = @ - 1]
  /\ UNCHANGED <<agent, kids, store, frames, replies>>

\* The settings, the attachments and then the message
Send ==
  /\ task.pc = "bound"
  /\ task' = [task EXCEPT !.pc = "waiting"]
  /\ agent' = [agent EXCEPT !.inbox = Append(@, User(task.p))]
  /\ UNCHANGED <<kids, relay, store, frames, replies, left>>

\* extractTurnResultFromEvents: the last text since sendFollowup began
TurnResult == IF Len(agent.replied) > task.start THEN Last(agent.replied) ELSE 0

\* whenIdle has resolved
Finish ==
  /\ task.pc = "waiting" /\ ~agent.running /\ agent.inbox = <<>>
  /\ replies' = Append(replies, [p |-> task.p, int |-> TurnResult])
  /\ Unbind(task.p)
  /\ task' = NoTask
  /\ UNCHANGED <<agent, kids, auto, intMap, pend, origins, jobs, store, frames, left>>

\* platformTurnRebindDecision
Rebinds(n) == task.pc # "none" /\ ~task.observed /\ n # task.int

-----------------------------------------------------------------------------
(* Turns of the agent *)

Stamp(k, n, x) == Append(frames, [k |-> k, int |-> n, id |-> x.id, origin |-> x.origin, cause |-> x.cause])

AutonomousLast(n) == IF pend = <<>> THEN Context(-n, 0, "none") ELSE Context(-n, Last(pend).origin, Last(pend).cause)

\* A turn without a platform turn takes the oldest pending origin.
Autonomous(n) == IF pend = <<>> THEN Context(-n, 0, "none") ELSE Context(-n, Head(pend).origin, Head(pend).cause)

\* The relay sees turn/start first, then the listener of sendFollowup.
TurnStart ==
  LET n == agent.int + 1
      platform == intMap[n].id # 0 \/ active # 0
      x == IF platform THEN Scoped(n, intMap, active, auto) ELSE Autonomous(n)
  IN /\ ~agent.running /\ agent.inbox # <<>> /\ n <= MaxTurn
     /\ agent' = [agent EXCEPT !.int = n, !.running = TRUE, !.by = Append(@, Head(agent.inbox)),
                               !.inbox = Tail(@)]
     /\ frames' = Stamp("started", n, x)
     /\ auto' = IF platform THEN auto ELSE x
     /\ active' = IF Rebinds(n) THEN task.p ELSE active
     /\ intMap' = [intMap EXCEPT ![n] = IF Rebinds(n) THEN Context(task.p, 0, "none")
                                        ELSE IF platform THEN @ ELSE x]
     /\ pend' = IF Rebinds(n) \/ platform THEN (IF Rebinds(n) THEN <<>> ELSE pend)
                ELSE IF pend = <<>> THEN pend ELSE Tail(pend)
     /\ task' = IF task.pc = "none" THEN task
                ELSE [task EXCEPT !.int = IF Rebinds(n) THEN n ELSE @, !.observed = TRUE]
     /\ UNCHANGED <<kids, origins, jobs, store, replies, left>>

Here == Scoped(agent.int, intMap, active, auto)

TurnEnd ==
  /\ agent.running
  /\ agent' = [agent EXCEPT !.running = FALSE, !.replied = Append(@, agent.int)]
  /\ frames' = Stamp("ended", agent.int, Here)
  /\ auto' = NoContext
  /\ Unbind(Here.id)
  /\ UNCHANGED <<kids, task, intMap, pend, origins, jobs, store, replies, left>>

\* A tool result names the child it started; only turns with a context of their own are recorded.
Initiator == IF intMap[agent.int].id # 0 THEN intMap[agent.int].id ELSE active

RecordAny(c) == Append(jobs, c)
RecordJob(c) == IF c \in Jobs THEN Append(jobs, c) ELSE jobs

Spawn(c) ==
  /\ agent.running /\ kids[c].state = "none"
  /\ kids' = [kids EXCEPT ![c] = [state |-> "running", of |-> agent.int]]
  /\ IF Initiator = 0 THEN UNCHANGED <<origins, store, jobs>>
     ELSE /\ origins' = [origins EXCEPT ![c] = Initiator]
          /\ store' = [store EXCEPT ![c] = Initiator]
          /\ jobs' = RecordJob(c)
  /\ UNCHANGED <<agent, task, active, auto, intMap, pend, frames, replies, left>>

\* extractChildIdFromStructuredSource: a notice without an id is the one of the latest job not matched.
Reporter(c) == IF c \notin Jobs THEN c ELSE IF jobs = <<>> THEN "none" ELSE Last(jobs)

\* A notice that comes while a turn runs is part of that turn; otherwise it starts one, and the
\* relay notes its origin.
Settle(c) ==
  LET r == Reporter(c)
  IN /\ kids[c].state = "running"
     /\ Overlap \/ task.pc = "none"
     /\ kids' = [kids EXCEPT ![c].state = "settled"]
     /\ IF agent.running
        THEN UNCHANGED <<agent, pend, origins, jobs>>
        ELSE /\ agent' = [agent EXCEPT !.inbox = Append(@, Notice(c))]
             /\ jobs' = IF c \in Jobs /\ jobs # <<>> THEN Front(jobs) ELSE jobs
             /\ IF r # "none" /\ ResolveOriginTurnId(r) # 0
                THEN /\ pend' = Append(pend, [origin |-> ResolveOriginTurnId(r), cause |-> r])
                     /\ origins' = [origins EXCEPT ![r] = ResolveOriginTurnId(r)]
                ELSE UNCHANGED <<pend, origins>>
     /\ UNCHANGED <<task, active, auto, intMap, store, frames, replies, left>>

\* The runtime starts again; subagents go on, the memory of the relay is empty.
Restart ==
  /\ left.restarts > 0 /\ task.pc = "none" /\ ~agent.running /\ agent.inbox = <<>>
  /\ left' = [left EXCEPT !.restarts = @ - 1]
  /\ active' = 0 /\ auto' = NoContext /\ intMap' = [n \in 1..MaxTurn |-> NoContext]
  /\ pend' = <<>> /\ origins' = [c \in Children |-> 0] /\ jobs' = <<>>
  /\ kids' = [c \in Children |-> IF c \in Jobs /\ kids[c].state = "running"
                                 THEN [kids[c] EXCEPT !.state = "settled"] ELSE kids[c]]
  /\ UNCHANGED <<agent, task, store, frames, replies>>

-----------------------------------------------------------------------------
Next ==
  \/ \E p \in 1..Platform : Bind(p)
  \/ Send \/ Finish
  \/ TurnStart \/ TurnEnd
  \/ \E c \in Children : Spawn(c) \/ Settle(c)
  \/ Restart

Spec == Init /\ [][Next]_vars

-----------------------------------------------------------------------------
(* Properties *)

IdOf(n) == IF agent.by[n].p # 0 THEN agent.by[n].p ELSE -n

\* A platform turn is reported as started and as ended by the agent's turn that answers it, and by no
\* other: each turn of the agent begins and ends under one id of its own.
OneTurnOneId ==
  \A i \in 1..Len(frames) : frames[i].id = IdOf(frames[i].int)

\* The child a turn is said to be caused by is the child whose notice started it; a turn that
\* answers the user is caused by none.
CauseIsTrue ==
  \A i \in 1..Len(frames) : frames[i].cause # "none" => frames[i].cause = agent.by[frames[i].int].c

\* A turn started by a notice carries the turn that started the child as its origin, also when the
\* runtime was restarted in between.
OriginKnown ==
  \A i \in 1..Len(frames) :
    LET c == agent.by[frames[i].int].c
    IN c # "none" => frames[i].origin = IdOf(kids[c].of)

\* The reply returned for a platform turn is the text of the agent's turn that answered it.
ReplyIsOwn == \A i \in 1..Len(replies) : agent.by[replies[i].int].p = replies[i].p

=============================================================================
