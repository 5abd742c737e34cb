--------------------------- MODULE RunnerTheorems ---------------------------
(***************************************************************************)
(* What is proved about the components of the runtime of a user and of its *)
(* tunnel, for any values of their constants.  The components share no     *)
(* state.  The variables have the names they have in MCRunner, which takes *)
(* its instances from here, so that the theorems can be cited for them.    *)
(***************************************************************************)
EXTENDS Naturals, Sequences, FiniteSetTheorems, WellFoundedInduction, TLAPS

CONSTANTS
  None,                                         \* nobody, nothing
  Procs, MaxOpens, MaxDeaths,                   \* SessionLock
  Followups, Cancels, Reqs, MaxReqs, MaxCrashes,             \* InboundReceipts
  Sessions, Ops, Kinds, MaxAgents, MaxConcurrent, MaxTurns, MaxEntries,
  MaxSweeps, MaxFaults, MaxPlans,               \* DaemonAgents
  MaxSpawns, MaxBreaks, MaxRetries, AutoReconnect, PromptExit,
  Obedient,                                     \* TunnelHost
  Conns, MaxStreams, MaxErrors, MaxQuiet, PromptReader       \* TunnelStreams

VARIABLES
  file, pc, mine, seen, opens, deaths,
  receipt, req, sent, told, inboundLeft,
  agents, lock, home, live, status, daemonQueue, cur, daemonProc, load,
  kicked, ev, sweep, maint, turns, sweeps, daemonFaults, replaced, other,
  plan, plans,
  state, attempts, timer, exec, active, pings, streams, start, tunnelClosing,
  last, call, tunnelProc, signal, spawned, tunnelFaults,
  sock, id, agentMap, next, up, down, streamStr, hostMap, streamClosing,
  applied, errors, quiet

Lock == INSTANCE SessionLock
Inbound == INSTANCE InboundReceipts WITH left <- inboundLeft
Daemon == INSTANCE DaemonAgents WITH
  queue <- daemonQueue, proc <- daemonProc, faults <- daemonFaults
Tunnel == INSTANCE TunnelHost WITH
  MaxFaults <- MaxBreaks, closing <- tunnelClosing, proc <- tunnelProc,
  faults <- tunnelFaults
Stream == INSTANCE TunnelStreams WITH str <- streamStr, closing <- streamClosing

(* At most two processes ever want the lock.                               *)
TwoProcs == \A p, q, r \in Procs : p = q \/ q = r \/ p = r

Engaged(p) == pc[p] \in {"write", "held", "release"}
PcValues ==
  {"idle", "open", "write", "held", "inspect", "wait", "busy", "lstat", "unlink", "release", "dead"}

(* Every variable has its type.                                            *)
LockTyped ==
  /\ file \in Lock!LockFiles \cup {None}
  /\ pc \in [Procs -> PcValues]
  /\ mine \in [Procs -> Nat] /\ seen \in [Procs -> Nat]
  /\ opens \in Nat /\ deaths \in 0..MaxDeaths

-----------------------------------------------------------------------------
(* The inductive invariant.                                                *)

(* The file is that of the process between its open and its release.       *)
EngagedHasFile ==
  \A p \in Procs : Engaged(p) => file # None /\ file.by = p /\ file.ino = mine[p]

(* While all processes live no file is stale, and none is found to be.     *)
NoneStale ==
  deaths = 0 =>
    /\ \A p \in Procs : pc[p] \notin {"lstat", "unlink", "dead"}
    /\ file # None => /\ Engaged(file.by) /\ ~file.old
                      /\ ~file.full => pc[file.by] = "write"

(* A death leaves a dead process.                                          *)
DeathsAreDead == deaths # 0 => \E p \in Procs : pc[p] = "dead"

LockInv ==
  /\ DeathsAreDead
  /\ deaths = 0 \/ TwoProcs => EngagedHasFile /\ NoneStale

-----------------------------------------------------------------------------
(* Every step keeps the types.                                             *)
LEMMA TypePreserved == Lock!SessionLockAssumption /\ LockTyped /\ [Lock!Next]_(Lock!vars)
  => LockTyped'
<1> SUFFICES ASSUME Lock!SessionLockAssumption, LockTyped, [Lock!Next]_(Lock!vars)
             PROVE  LockTyped'
  OBVIOUS
<1> USE DEF LockTyped, PcValues, Lock!To
<1>1. ASSUME NEW p \in Procs, Lock!Acquire(p) \/ Lock!Inspect(p) \/ Lock!Retry(p)
             \/ Lock!Timeout(p) \/ Lock!Lstat(p)
      PROVE  LockTyped'
  <2>1. file # None => file.ino \in Nat
    BY DEF Lock!LockFiles
  <2> QED BY <1>1, <2>1 DEF Lock!Acquire, Lock!Inspect, Lock!Retry, Lock!Timeout,
             Lock!Lstat
<1>2. ASSUME NEW p \in Procs, Lock!Open(p)
      PROVE  LockTyped'
  <2>1. Lock!NewFile(p) \in Lock!LockFiles
    BY DEF Lock!NewFile, Lock!LockFiles
  <2> QED BY <1>2, <2>1 DEF Lock!Open
<1>3. ASSUME NEW p \in Procs, Lock!Write(p)
      PROVE  LockTyped'
  <2>1. file \in Lock!LockFiles =>
          \A b \in BOOLEAN : [file EXCEPT !.full = b] \in Lock!LockFiles
    BY DEF Lock!LockFiles
  <2>2. file \in Lock!LockFiles => (file.full \/ file.ino = mine[p]) \in BOOLEAN
    BY DEF Lock!LockFiles
  <2>3. file' \in Lock!LockFiles \cup {None}
    BY <1>3, <2>1, <2>2 DEF Lock!Write
  <2> QED BY <1>3, <2>3 DEF Lock!Write
<1>4. ASSUME NEW p \in Procs, Lock!Unlink(p) \/ Lock!Release(p) \/ Lock!ReleaseUnlink(p)
             \/ Lock!Die(p)
      PROVE  LockTyped'
  BY <1>4 DEF Lock!SessionLockAssumption, Lock!Unlink, Lock!Release, Lock!ReleaseUnlink, Lock!Die
<1>5. ASSUME Lock!EmptyAges
      PROVE  LockTyped'
  <2>1. file \in Lock!LockFiles => [file EXCEPT !.old = TRUE] \in Lock!LockFiles
    BY DEF Lock!LockFiles
  <2> QED BY <1>5, <2>1 DEF Lock!EmptyAges
<1>6. ASSUME UNCHANGED Lock!vars
      PROVE  LockTyped'
  BY <1>6 DEF Lock!vars
<1> QED BY <1>1, <1>2, <1>3, <1>4, <1>5, <1>6 DEF Lock!Next, Lock!Step

(* Every step keeps the lock in order.                                     *)
LEMMA Inductive ==
  Lock!SessionLockAssumption /\ LockTyped /\ LockInv /\ [Lock!Next]_(Lock!vars) => LockInv'
<1> SUFFICES ASSUME Lock!SessionLockAssumption, LockTyped, LockInv, [Lock!Next]_(Lock!vars)
             PROVE  LockInv'
  OBVIOUS
<1> USE DEF Lock!To, Engaged
<1>0. /\ pc \in [Procs -> PcValues] /\ mine \in [Procs -> Nat]
      /\ file \in Lock!LockFiles \cup {None} /\ None \notin Lock!LockFiles
      /\ opens \in Nat /\ deaths \in 0..MaxDeaths
      /\ file # None => file.by \in Procs
  BY DEF LockTyped, Lock!SessionLockAssumption, Lock!LockFiles
(* A step of a process that is engaged neither before nor after it, and     *)
(* that touches no file.                                                    *)
<1>1. ASSUME NEW p \in Procs, NEW c, ~Engaged(p), pc[p] # "dead",
             c \notin {"write", "held", "release", "dead"},
             deaths = 0 => c \notin {"lstat", "unlink"},
             pc' = [pc EXCEPT ![p] = c], UNCHANGED <<file, mine, deaths>>
      PROVE  LockInv'
  <2>1. DeathsAreDead'
    BY <1>0, <1>1 DEF DeathsAreDead, LockInv
  <2>2. ASSUME deaths = 0 \/ TwoProcs
        PROVE  EngagedHasFile' /\ NoneStale'
    BY <1>0, <1>1, <2>2 DEF LockInv, EngagedHasFile, NoneStale
  <2> QED BY <1>1, <2>1, <2>2 DEF LockInv
(* With a dead process, the others are one process.                         *)
<1>2. ASSUME TwoProcs, deaths # 0, NEW p \in Procs, NEW q \in Procs,
             pc[p] # "dead", pc[q] # "dead"
      PROVE  p = q
  BY <1>2 DEF TwoProcs, LockInv, DeathsAreDead
(* Among the processes that may be engaged, only one is.                    *)
<1>3. ASSUME deaths = 0 \/ TwoProcs, NEW p \in Procs, NEW q \in Procs, Engaged(p), Engaged(q)
      PROVE  p = q
  BY <1>3 DEF LockInv, EngagedHasFile
<1>4. ASSUME NEW p \in Procs, Lock!Acquire(p) \/ Lock!Retry(p) \/ Lock!Timeout(p)
      PROVE  LockInv'
  BY <1>1, <1>4 DEF Lock!Acquire, Lock!Retry, Lock!Timeout
<1>5. ASSUME NEW p \in Procs, Lock!Inspect(p)
      PROVE  LockInv'
  <2>1. deaths = 0 /\ file # None => ~Lock!Stale(file)
    BY <1>0 DEF LockInv, NoneStale, Lock!Stale
  <2>2. CASE file = None \/ ~Lock!Stale(file)
    BY <1>1, <1>5, <2>2 DEF Lock!Inspect
  <2>3. CASE file # None /\ Lock!Stale(file)
    BY <1>1, <1>5, <2>1, <2>3 DEF Lock!Inspect
  <2> QED BY <2>2, <2>3
<1>6. ASSUME NEW p \in Procs, Lock!Lstat(p)
      PROVE  LockInv'
  <2>1. deaths # 0
    BY <1>6 DEF Lock!Lstat, LockInv, NoneStale
  <2> QED BY <1>1, <1>6, <2>1 DEF Lock!Lstat
<1>7. ASSUME NEW p \in Procs, Lock!Open(p)
      PROVE  LockInv'
  <2>1. CASE file # None
    BY <1>1, <1>7, <2>1 DEF Lock!Open
  <2>2. CASE file = None
    <3>1. /\ pc[p] = "open" /\ pc' = [pc EXCEPT ![p] = "write"]
          /\ mine' = [mine EXCEPT ![p] = opens + 1] /\ file' = Lock!NewFile(p)
          /\ deaths' = deaths
      BY <1>7, <2>2 DEF Lock!Open
    <3>2. /\ file' # None /\ file'.by = p /\ file'.ino = opens + 1
          /\ ~file'.old
      <4>1. Lock!NewFile(p) \in Lock!LockFiles
        BY <1>0 DEF Lock!NewFile, Lock!LockFiles
      <4>2. Lock!NewFile(p).by = p /\ Lock!NewFile(p).ino = opens + 1 /\ ~Lock!NewFile(p).old
        BY DEF Lock!NewFile
      <4> QED BY <1>0, <3>1, <4>1, <4>2
    <3>3. DeathsAreDead'
      BY <1>0, <3>1 DEF LockInv, DeathsAreDead
    <3>4. ASSUME deaths = 0 \/ TwoProcs
          PROVE  EngagedHasFile' /\ NoneStale'
      <4>1. \A q \in Procs : ~Engaged(q)
        BY <2>2, <3>4 DEF LockInv, EngagedHasFile
      <4> QED BY <1>0, <3>1, <3>2, <3>4, <4>1 DEF LockInv, EngagedHasFile, NoneStale
    <3> QED BY <3>1, <3>3, <3>4 DEF LockInv
  <2> QED BY <2>1, <2>2
<1>8. ASSUME NEW p \in Procs, Lock!Write(p)
      PROVE  LockInv'
  <2>1. /\ pc[p] = "write" /\ pc' = [pc EXCEPT ![p] = "held"] /\ UNCHANGED <<mine, deaths>>
        /\ file # None => file' = [file EXCEPT !.full = file.full \/ file.ino = mine[p]]
    BY <1>8 DEF Lock!Write
  <2>2. DeathsAreDead'
    BY <1>0, <2>1 DEF LockInv, DeathsAreDead
  <2>3. ASSUME deaths = 0 \/ TwoProcs
        PROVE  EngagedHasFile' /\ NoneStale'
    <3>1. file # None /\ file.by = p /\ file.ino = mine[p]
      BY <2>1, <2>3 DEF LockInv, EngagedHasFile
    <3>2. file' # None /\ file'.by = p /\ file'.ino = mine[p] /\ file'.full /\ file'.old = file.old
      BY <1>0, <2>1, <3>1, ZenonT(60) DEF Lock!LockFiles
    <3>3. \A q \in Procs : Engaged(q) => q = p
      BY <1>3, <2>1, <2>3
    <3>4. EngagedHasFile'
      BY <1>0, <2>1, <3>2, <3>3 DEF EngagedHasFile
    <3>5. NoneStale'
      BY <1>0, <2>1, <2>3, <3>1, <3>2 DEF LockInv, NoneStale
    <3> QED BY <3>4, <3>5
  <2> QED BY <2>1, <2>2, <2>3 DEF LockInv
<1>9. ASSUME NEW p \in Procs, Lock!Unlink(p)
      PROVE  LockInv'
  <2>1. /\ pc[p] = "unlink" /\ pc' = [pc EXCEPT ![p] = "open"] /\ UNCHANGED <<mine, deaths>>
        /\ file' = None
    BY <1>9 DEF Lock!Unlink
  <2>2. DeathsAreDead'
    BY <1>0, <2>1 DEF LockInv, DeathsAreDead
  <2>3. ASSUME deaths = 0 \/ TwoProcs
        PROVE  EngagedHasFile' /\ NoneStale'
    <3>1. deaths # 0 /\ TwoProcs
      BY <2>1, <2>3 DEF LockInv, NoneStale
    <3>2. \A q \in Procs : ~Engaged(q)
      BY <1>2, <2>1, <3>1
    <3> QED BY <1>0, <2>1, <3>1, <3>2 DEF EngagedHasFile, NoneStale
  <2> QED BY <2>1, <2>2, <2>3 DEF LockInv
<1>10. ASSUME NEW p \in Procs, Lock!Release(p)
       PROVE  LockInv'
  <2>1. /\ pc[p] = "held" /\ UNCHANGED <<file, mine, deaths>>
        /\ pc' = [pc EXCEPT ![p] = IF file = None THEN "idle"
                                   ELSE IF file.ino = mine[p] THEN "release" ELSE "idle"]
    BY <1>10 DEF Lock!Release
  <2>2. DeathsAreDead'
    BY <1>0, <2>1 DEF LockInv, DeathsAreDead
  <2>3. ASSUME deaths = 0 \/ TwoProcs
        PROVE  EngagedHasFile' /\ NoneStale'
    <3>1. file # None /\ file.by = p /\ file.ino = mine[p]
      BY <2>1, <2>3 DEF LockInv, EngagedHasFile
    <3>2. pc' = [pc EXCEPT ![p] = "release"]
      BY <2>1, <3>1
    <3> QED BY <1>0, <2>1, <2>3, <3>1, <3>2 DEF LockInv, EngagedHasFile, NoneStale
  <2> QED BY <2>1, <2>2, <2>3 DEF LockInv
<1>11. ASSUME NEW p \in Procs, Lock!ReleaseUnlink(p)
       PROVE  LockInv'
  <2>1. /\ pc[p] = "release" /\ pc' = [pc EXCEPT ![p] = "idle"] /\ UNCHANGED <<mine, deaths>>
        /\ file' = None
    BY <1>11 DEF Lock!ReleaseUnlink
  <2>2. DeathsAreDead'
    BY <1>0, <2>1 DEF LockInv, DeathsAreDead
  <2>3. ASSUME deaths = 0 \/ TwoProcs
        PROVE  EngagedHasFile' /\ NoneStale'
    <3>1. \A q \in Procs : Engaged(q) => q = p
      BY <1>3, <2>1, <2>3
    <3> QED BY <1>0, <2>1, <2>3, <3>1 DEF LockInv, EngagedHasFile, NoneStale
  <2> QED BY <2>1, <2>2, <2>3 DEF LockInv
<1>12. ASSUME NEW p \in Procs, Lock!Die(p)
       PROVE  LockInv'
  <2>1. /\ pc' = [pc EXCEPT ![p] = "dead"] /\ deaths' = deaths + 1 /\ UNCHANGED <<mine, file>>
    BY <1>12 DEF Lock!Die
  <2>2. deaths' # 0 /\ pc'[p] = "dead"
    BY <1>0, <2>1
  <2>3. DeathsAreDead' /\ NoneStale'
    BY <2>2 DEF DeathsAreDead, NoneStale
  <2>4. TwoProcs => EngagedHasFile'
    BY <1>0, <2>1 DEF LockInv, EngagedHasFile
  <2> QED BY <2>2, <2>3, <2>4 DEF LockInv
<1>13. ASSUME Lock!EmptyAges
       PROVE  LockInv'
  <2>1. /\ file # None /\ ~file.full /\ pc[file.by] # "write"
        /\ file' = [file EXCEPT !.old = TRUE] /\ UNCHANGED <<pc, mine, deaths>>
    BY <1>13 DEF Lock!EmptyAges
  <2>2. DeathsAreDead'
    BY <2>1 DEF LockInv, DeathsAreDead
  <2>3. file' # None /\ file'.by = file.by /\ file'.ino = file.ino
    BY <1>0, <2>1 DEF Lock!LockFiles
  <2>4. ASSUME deaths = 0 \/ TwoProcs
        PROVE  EngagedHasFile' /\ NoneStale'
    <3>1. deaths # 0
      BY <2>1, <2>4 DEF LockInv, NoneStale
    <3> QED BY <2>1, <2>3, <2>4, <3>1 DEF LockInv, EngagedHasFile, NoneStale
  <2> QED BY <2>1, <2>2, <2>4 DEF LockInv
<1>14. ASSUME UNCHANGED Lock!vars
       PROVE  LockInv'
  BY <1>14 DEF Lock!vars, LockInv, DeathsAreDead, EngagedHasFile, NoneStale
<1> QED
  BY <1>4, <1>5, <1>6, <1>7, <1>8, <1>9, <1>10, <1>11, <1>12, <1>13, <1>14 DEF Lock!Next,
     Lock!Step

(* The lock of a session has one holder, and the holder's file stays in    *)
(* its place: for any number of processes as long as none of them died,    *)
(* and for two processes whatever dies.                                    *)
THEOREM LockHasOneHolder ==
  Lock!SessionLockAssumption =>
    (Lock!Spec => []((MaxDeaths = 0 \/ TwoProcs) => Lock!OneHolder)
                  /\ [](deaths = 0 => Lock!OneHolder))
<1> SUFFICES ASSUME Lock!SessionLockAssumption
             PROVE  Lock!Spec => []((MaxDeaths = 0 \/ TwoProcs) => Lock!OneHolder)
                                 /\ [](deaths = 0 => Lock!OneHolder)
  OBVIOUS
<1>1. Lock!Init => LockTyped /\ LockInv
  BY DEF Lock!SessionLockAssumption, Lock!Init, LockTyped, PcValues, LockInv, DeathsAreDead,
      EngagedHasFile, NoneStale,
     Engaged
<1>2. LockTyped /\ LockInv /\ [Lock!Next]_(Lock!vars) => LockTyped' /\ LockInv'
  BY TypePreserved, Inductive
<1>3. LockTyped /\ LockInv => ((MaxDeaths = 0 \/ TwoProcs) => Lock!OneHolder)
                            /\ (deaths = 0 => Lock!OneHolder)
  BY DEF LockTyped, LockInv, EngagedHasFile, Engaged, Lock!OneHolder, Lock!MutualExclusion,
     Lock!HolderKeepsFile, Lock!Holding
<1> QED BY <1>1, <1>2, <1>3, PTL DEF Lock!Spec

-----------------------------------------------------------------------------
(* The inductive invariant *)

Steps == {"idle"} \cup Inbound!FollowupSteps \cup Inbound!CancelSteps

\* The types the proofs need: a request that is not idle is of the kind of its delivery.
ReceiptTyped ==
         /\ receipt \in [Inbound!Deliveries -> {"none", "pending", "delivered", "failed"}]
         /\ req \in [Reqs -> [pc : Steps, d : Inbound!Deliveries \cup {"none"}]]
         /\ \A r \in Reqs : /\ req[r].pc \in Inbound!FollowupSteps => req[r].d \in Followups
                            /\ req[r].pc \in Inbound!CancelSteps => req[r].d \in Cancels
         /\ sent \in [Inbound!Deliveries -> Nat]
         /\ told \in [Inbound!Deliveries -> Inbound!Answers]

\* The request has inserted the pending receipt of its delivery.
Owner(r) == req[r].pc \in {"source", "dispatch", "fail", "deliver"}

\* One request owns the pending receipt of a delivery.
OneOwner ==
  /\ \A r \in Reqs : Owner(r) => receipt[req[r].d] = "pending"
  /\ \A r, q \in Reqs : Owner(r) /\ Owner(q) /\ req[r].d = req[q].d => r = q

\* How often the agent has the delivery of a request.
SentSoFar ==
  \A r \in Reqs :
    /\ req[r].pc \in {"source", "dispatch", "fail"} => sent[req[r].d] = 0
    /\ req[r].pc \in {"deliver", "cancelRecord", "cancelRecheck"} => sent[req[r].d] >= 1

\* What a receipt says of its delivery.
ReceiptIsTrue ==
  /\ \A d \in Followups : receipt[d] = "none" => sent[d] = 0
  /\ \A d \in Inbound!Deliveries : receipt[d] = "delivered" => sent[d] >= 1

ReceiptInv == ReceiptTyped /\ OneOwner /\ SentSoFar /\ ReceiptIsTrue /\ Inbound!AcceptedOnce
  /\ Inbound!AnswerIsTrue

-----------------------------------------------------------------------------
\* A request goes on to another step.
LEMMA GotoFacts ==
  ASSUME ReceiptTyped, NEW r \in Reqs, NEW c \in Steps, Inbound!Goto(r, c)
  PROVE  /\ req' \in [Reqs -> [pc : Steps, d : Inbound!Deliveries \cup {"none"}]]
         /\ req'[r].pc = c /\ req'[r].d = req[r].d
         /\ \A q \in Reqs \ {r} : req'[q] = req[q]
BY DEF ReceiptTyped, Inbound!Goto

\* A request is answered.
LEMMA AnswerFacts ==
  ASSUME ReceiptTyped, NEW r \in Reqs, NEW a \in Inbound!Answers, req[r].d \in Inbound!Deliveries,
         Inbound!Answer(r, a)
  PROVE  /\ req' \in [Reqs -> [pc : Steps, d : Inbound!Deliveries \cup {"none"}]]
         /\ req'[r].pc = "idle"
         /\ \A q \in Reqs \ {r} : req'[q] = req[q]
         /\ told' \in [Inbound!Deliveries -> Inbound!Answers]
         /\ told'[req[r].d] = a
         /\ \A d \in Inbound!Deliveries \ {req[r].d} : told'[d] = told[d]
BY DEF ReceiptTyped, Inbound!Answer, Inbound!Idle, Steps

\* Every step keeps the invariant, and no step changes a settled receipt.
LEMMA StepFacts ==
  Inbound!ReceiptAssumption /\ ReceiptInv /\ [Inbound!Next]_(Inbound!vars) => ReceiptInv'
      /\ (Inbound!ReceiptFinal \/ UNCHANGED Inbound!vars)
<1> SUFFICES ASSUME Inbound!ReceiptAssumption, ReceiptInv, [Inbound!Next]_(Inbound!vars)
             PROVE  ReceiptInv' /\ (Inbound!ReceiptFinal \/ UNCHANGED Inbound!vars)
  OBVIOUS
<1> DEFINE Goal == ReceiptInv' /\ Inbound!ReceiptFinal
<1> USE DEF Inbound!ReceiptFinal
<1>0. /\ ReceiptTyped
      /\ receipt \in [Inbound!Deliveries -> {"none", "pending", "delivered", "failed"}]
      /\ req \in [Reqs -> [pc : Steps, d : Inbound!Deliveries \cup {"none"}]]
      /\ sent \in [Inbound!Deliveries -> Nat]
      /\ told \in [Inbound!Deliveries -> Inbound!Answers]
      /\ Followups \cap Cancels = {}
  BY DEF ReceiptInv, ReceiptTyped, Inbound!ReceiptAssumption
<1>1. OneOwner /\ SentSoFar /\ ReceiptIsTrue /\ Inbound!AcceptedOnce /\ Inbound!AnswerIsTrue
  BY DEF ReceiptInv
\* A request goes on, and nothing else changes.
<1>2. ASSUME NEW r \in Reqs, NEW c \in Steps, Inbound!Goto(r, c), UNCHANGED <<receipt, sent, told>>,
             c \in Inbound!FollowupSteps <=> req[r].pc \in Inbound!FollowupSteps,
             c \in Inbound!CancelSteps <=> req[r].pc \in Inbound!CancelSteps,
             c \in {"source", "dispatch", "fail", "deliver"} => Owner(r),
             c \in {"source", "dispatch", "fail"} => req[r].pc \in {"source", "dispatch", "fail"},
             c \in {"deliver", "cancelRecord", "cancelRecheck"} => sent[req[r].d] >= 1
      PROVE  Goal
  <2>1. /\ req' \in [Reqs -> [pc : Steps, d : Inbound!Deliveries \cup {"none"}]]
        /\ req'[r].pc = c /\ req'[r].d = req[r].d
        /\ \A q \in Reqs \ {r} : req'[q] = req[q]
    BY <1>0, <1>2, GotoFacts
  <2>2. ReceiptTyped'
    BY <1>0, <1>2, <2>1 DEF ReceiptTyped
  <2>3. OneOwner'
    BY <1>1, <1>2, <2>1 DEF OneOwner, Owner
  <2>4. SentSoFar'
    BY <1>1, <1>2, <2>1 DEF SentSoFar
  <2>5. ReceiptIsTrue' /\ Inbound!AcceptedOnce' /\ Inbound!AnswerIsTrue' /\ Inbound!ReceiptFinal
    BY <1>1, <1>2 DEF ReceiptIsTrue, Inbound!AcceptedOnce, Inbound!AnswerIsTrue
  <2> QED BY <2>2, <2>3, <2>4, <2>5 DEF ReceiptInv
\* A request is answered, and its receipt may be settled.
<1>3. ASSUME NEW r \in Reqs, NEW a \in Inbound!Answers, Inbound!Answer(r, a), sent' = sent,
             req[r].d \in Inbound!Deliveries,
             a \in {"delivered", "duplicate"} => sent[req[r].d] >= 1,
             \/ receipt' = receipt
             \/ Owner(r) /\ \/ req[r].pc = "fail" /\ Inbound!SetReceipt(r, "failed")
                            \/ req[r].pc = "deliver" /\ Inbound!SetReceipt(r, "delivered")
             \/ /\ req[r].pc = "cancelRecord" /\ receipt[req[r].d] = "none"
                /\ Inbound!SetReceipt(r, "delivered")
      PROVE  Goal
  <2>1. /\ req' \in [Reqs -> [pc : Steps, d : Inbound!Deliveries \cup {"none"}]]
        /\ req'[r].pc = "idle"
        /\ \A q \in Reqs \ {r} : req'[q] = req[q]
        /\ told' \in [Inbound!Deliveries -> Inbound!Answers]
        /\ told'[req[r].d] = a
        /\ \A d \in Inbound!Deliveries \ {req[r].d} : told'[d] = told[d]
    BY <1>0, <1>3, AnswerFacts
  <2>2. /\ receipt' \in [Inbound!Deliveries -> {"none", "pending", "delivered", "failed"}]
        /\ \A d \in Inbound!Deliveries \ {req[r].d} : receipt'[d] = receipt[d]
        /\ \/ receipt'[req[r].d] = receipt[req[r].d]
           \/ /\ receipt[req[r].d] \in {"none", "pending"}
              /\ receipt'[req[r].d] = "failed" => req[r].pc = "fail"
              /\ receipt'[req[r].d] = "delivered" => sent[req[r].d] >= 1
              /\ receipt'[req[r].d] \in {"delivered", "failed"}
              /\ receipt[req[r].d] = "pending" => Owner(r)
              /\ receipt[req[r].d] = "none" => req[r].pc = "cancelRecord"
    BY <1>0, <1>1, <1>3 DEF Inbound!SetReceipt, OneOwner, SentSoFar, Owner
  <2>3. ReceiptTyped'
    BY <1>0, <1>3, <2>1, <2>2 DEF ReceiptTyped, Inbound!FollowupSteps, Inbound!CancelSteps
  <2>4. OneOwner'
    <3>1. \A q \in Reqs : Owner(q)' => q # r /\ Owner(q) /\ req'[q].d = req[q].d
      BY <2>1 DEF Owner
    <3>2. \A q \in Reqs : Owner(q) /\ q # r /\ req[q].d = req[r].d =>
            receipt'[req[r].d] = receipt[req[r].d]
      BY <1>1, <2>2 DEF OneOwner
    <3>3. \A q \in Reqs : Owner(q) => req[q].d \in Inbound!Deliveries
      BY <1>0 DEF ReceiptTyped, Owner, Inbound!FollowupSteps, Inbound!Deliveries
    <3> QED BY <1>1, <2>2, <3>1, <3>2, <3>3 DEF OneOwner
  <2>5. SentSoFar'
    BY <1>1, <1>3, <2>1 DEF SentSoFar
  <2>6. ReceiptIsTrue' /\ Inbound!AcceptedOnce'
    BY <1>0, <1>1, <1>3, <2>2 DEF ReceiptIsTrue, Inbound!AcceptedOnce, Inbound!Deliveries
  <2>7. Inbound!AnswerIsTrue'
    BY <1>0, <1>1, <1>3, <2>1, <2>2 DEF Inbound!AnswerIsTrue, SentSoFar,
       Inbound!Deliveries
  <2>8. Inbound!ReceiptFinal
    BY <2>2
  <2> QED BY <2>3, <2>4, <2>5, <2>6, <2>7, <2>8 DEF ReceiptInv
<1>4. \A r \in Reqs : /\ req[r].pc \in Inbound!FollowupSteps => req[r].d \in Followups
                      /\ req[r].pc \in Inbound!CancelSteps => req[r].d \in Cancels
                      /\ req[r].pc \in Inbound!FollowupSteps \cup Inbound!CancelSteps
                          => req[r].d \in Inbound!Deliveries
  BY <1>0 DEF ReceiptTyped, Inbound!Deliveries
<1> USE DEF Inbound!FollowupSteps, Inbound!CancelSteps, Steps, Inbound!Answers,
Inbound!At, Inbound!Receipt
<1>5. ASSUME NEW r \in Reqs, Inbound!Check(r)
      PROVE  Goal
  <2>1. req[r].pc = "check" /\ req[r].d \in Inbound!Deliveries /\ UNCHANGED <<receipt, sent>>
    BY <1>4, <1>5 DEF Inbound!Check
  <2>2. \/ receipt[req[r].d] = "delivered" /\ Inbound!Answer(r, "duplicate")
        \/ Inbound!Answer(r, "error")
        \/ Inbound!Goto(r, "record") /\ told' = told
    BY <1>5 DEF Inbound!Check
  <2>3. receipt[req[r].d] = "delivered" => sent[req[r].d] >= 1
    BY <1>1, <2>1 DEF ReceiptIsTrue
  <2> QED BY <1>2, <1>3, <2>1, <2>2, <2>3
<1>6. ASSUME NEW r \in Reqs, Inbound!Record(r)
      PROVE  Goal
  <2>1. req[r].pc = "record" /\ req[r].d \in Followups /\ UNCHANGED <<sent, told>>
    BY <1>4, <1>6 DEF Inbound!Record
  <2>2. CASE receipt[req[r].d] # "none"
    BY <1>2, <1>6, <2>1, <2>2 DEF Inbound!Record
  <2>3. CASE receipt[req[r].d] = "none"
    <3>1. Inbound!Goto(r, "source") /\ receipt' = [receipt EXCEPT ![req[r].d] = "pending"]
      BY <1>6, <2>3 DEF Inbound!Record, Inbound!SetReceipt
    <3>2. /\ req' \in [Reqs -> [pc : Steps, d : Inbound!Deliveries \cup {"none"}]]
          /\ req'[r].pc = "source" /\ req'[r].d = req[r].d
          /\ \A q \in Reqs \ {r} : req'[q] = req[q]
      BY <1>0, <3>1, GotoFacts
    <3>3. /\ receipt' \in [Inbound!Deliveries -> {"none", "pending", "delivered", "failed"}]
          /\ receipt'[req[r].d] = "pending"
          /\ \A d \in Inbound!Deliveries \ {req[r].d} : receipt'[d] = receipt[d]
          /\ req[r].d \in Inbound!Deliveries
      BY <1>0, <2>1, <3>1 DEF Inbound!Deliveries
    <3>4. sent[req[r].d] = 0
      BY <1>1, <2>1, <2>3 DEF ReceiptIsTrue
    <3>5. \A q \in Reqs : Owner(q) => req[q].d \in Inbound!Deliveries \ {req[r].d}
      BY <1>1, <1>4, <2>3 DEF OneOwner, Owner
    <3>6. ReceiptTyped'
      BY <1>0, <2>1, <3>2, <3>3 DEF ReceiptTyped
    <3>7. OneOwner'
      BY <1>1, <3>2, <3>3, <3>5 DEF OneOwner, Owner
    <3>8. SentSoFar'
      BY <1>1, <2>1, <3>2, <3>4 DEF SentSoFar
    <3>9. ReceiptIsTrue' /\ Inbound!AcceptedOnce' /\ Inbound!AnswerIsTrue' /\ Inbound!ReceiptFinal
      BY <1>1, <2>1, <2>3, <3>3, <3>4 DEF ReceiptIsTrue, Inbound!AcceptedOnce,
         Inbound!AnswerIsTrue, Inbound!Deliveries
    <3> QED BY <3>6, <3>7, <3>8, <3>9 DEF ReceiptInv
  <2> QED BY <2>2, <2>3
<1>7. ASSUME NEW r \in Reqs, Inbound!Recheck(r) \/ Inbound!CancelRecheck(r)
      PROVE  Goal
  <2>1. /\ req[r].pc \in {"recheck", "cancelRecheck"} /\ req[r].d \in Inbound!Deliveries
        /\ UNCHANGED <<receipt, sent>>
    BY <1>4, <1>7 DEF Inbound!Recheck, Inbound!CancelRecheck
  <2>2. \/ receipt[req[r].d] = "delivered" /\ Inbound!Answer(r, "duplicate")
        \/ Inbound!Answer(r, "error")
    BY <1>7 DEF Inbound!Recheck, Inbound!CancelRecheck
  <2>3. receipt[req[r].d] = "delivered" => sent[req[r].d] >= 1
    BY <1>1, <2>1 DEF ReceiptIsTrue
  <2> QED BY <1>3, <2>1, <2>2, <2>3
<1>8. ASSUME NEW r \in Reqs, Inbound!Source(r)
      PROVE  Goal
  BY <1>2, <1>8 DEF Inbound!Source, Owner
\* The agent is given the delivery of the request: a message, or a cancellation.
<1>9. ASSUME NEW r \in Reqs, NEW c \in {"deliver", "cancelRecord"},
             \/ c = "deliver" /\ req[r].pc = "dispatch"
             \/ c = "cancelRecord" /\ req[r].pc = "cancel",
             sent' = [sent EXCEPT ![req[r].d] = sent[req[r].d] + 1], Inbound!Goto(r, c),
             UNCHANGED <<receipt, told>>
      PROVE  Goal
  <2>1. /\ req' \in [Reqs -> [pc : Steps, d : Inbound!Deliveries \cup {"none"}]]
        /\ req'[r].pc = c /\ req'[r].d = req[r].d
        /\ \A q \in Reqs \ {r} : req'[q] = req[q]
    BY <1>0, <1>9, GotoFacts
  <2>2. /\ sent' \in [Inbound!Deliveries -> Nat] /\ req[r].d \in Inbound!Deliveries
        /\ sent'[req[r].d] = sent[req[r].d] + 1
        /\ \A d \in Inbound!Deliveries \ {req[r].d} : sent'[d] = sent[d]
    BY <1>0, <1>4, <1>9
  <2>3. /\ c = "deliver" => req[r].d \in Followups /\ sent[req[r].d] = 0
        /\ c = "deliver" => receipt[req[r].d] = "pending"
        /\ c = "cancelRecord" => req[r].d \in Cancels
    BY <1>1, <1>4, <1>9 DEF SentSoFar, OneOwner, Owner
  <2>4. ReceiptTyped'
    BY <1>0, <1>9, <2>1, <2>2, <2>3 DEF ReceiptTyped
  <2>5. OneOwner'
    BY <1>1, <1>9, <2>1 DEF OneOwner, Owner
  <2>6. SentSoFar'
    <3>1. \A q \in Reqs \ {r} : req[q].pc \in {"source", "dispatch", "fail"} => req[q].d # req[r].d
      BY <1>0, <1>1, <1>4, <1>9, <2>3 DEF OneOwner, Owner
    <3>2. \A q \in Reqs : req[q].pc \in Inbound!FollowupSteps \cup Inbound!CancelSteps
            => req[q].d \in Inbound!Deliveries
      BY <1>4
    <3>3. \A d \in Inbound!Deliveries : sent'[d] >= sent[d]
      BY <1>0, <2>2
    <3>4. sent'[req'[r].d] >= 1
      BY <1>0, <2>1, <2>2
    <3>5. ASSUME NEW q \in Reqs \ {r}
          PROVE  /\ req[q].pc \in {"source", "dispatch", "fail"} => sent'[req[q].d] = 0
                 /\ req[q].pc \in {"deliver", "cancelRecord", "cancelRecheck"} =>
                      sent'[req[q].d] >= 1
      <4>1. req[q].pc \in {"source", "dispatch", "fail"} => sent'[req[q].d] = 0
        BY <1>1, <2>2, <3>1, <3>2 DEF SentSoFar
      <4>2. CASE req[q].pc \in {"deliver", "cancelRecord", "cancelRecheck"}
        <5>1. req[q].d \in Inbound!Deliveries /\ sent[req[q].d] >= 1
          BY <1>1, <3>2, <4>2 DEF SentSoFar
        <5>2. /\ sent[req[q].d] \in Nat /\ sent'[req[q].d] \in Nat
              /\ sent'[req[q].d] >= sent[req[q].d]
          BY <1>0, <2>2, <3>3, <5>1
        <5> DEFINE n == sent[req[q].d]
                   k == sent'[req[q].d]
        <5>3. n \in Nat /\ k \in Nat /\ k >= n /\ n >= 1
          BY <5>1, <5>2
        <5> HIDE DEF n, k
        <5>4. k >= 1
          BY <5>3
        <5> QED BY <4>2, <5>4 DEF k
      <4> QED BY <4>1, <4>2
    <3> QED BY <1>9, <2>1, <3>4, <3>5 DEF SentSoFar
  <2>7. ReceiptIsTrue' /\ Inbound!AcceptedOnce'
    BY <1>0, <1>1, <1>9, <2>2, <2>3 DEF ReceiptIsTrue, Inbound!AcceptedOnce,
       Inbound!Deliveries
  <2>8. Inbound!AnswerIsTrue' /\ Inbound!ReceiptFinal
    BY <1>0, <1>1, <1>9, <2>2, <2>3 DEF Inbound!AnswerIsTrue, Inbound!Deliveries
  <2> QED BY <2>4, <2>5, <2>6, <2>7, <2>8 DEF ReceiptInv
<1>10. ASSUME NEW r \in Reqs, Inbound!Dispatch(r)
       PROVE  Goal
  <2>1. CASE sent' = sent
    BY <1>2, <1>9, <1>10, <2>1 DEF Inbound!Dispatch, Owner
  <2>2. CASE sent' # sent
    BY <1>9, <1>10, <2>2 DEF Inbound!Dispatch
  <2> QED BY <2>1, <2>2
<1>11. ASSUME NEW r \in Reqs, Inbound!Fail(r)
       PROVE  Goal
  BY <1>3, <1>4, <1>11 DEF Inbound!Fail, Owner
<1>12. ASSUME NEW r \in Reqs, Inbound!Deliver(r)
       PROVE  Goal
  <2>1. sent[req[r].d] >= 1
    BY <1>1, <1>12 DEF Inbound!Deliver, SentSoFar
  <2> QED BY <1>3, <1>4, <1>12, <2>1 DEF Inbound!Deliver, Owner
<1>13. ASSUME NEW r \in Reqs, Inbound!CancelCheck(r)
       PROVE  Goal
  <2>1. req[r].pc = "cancelCheck" /\ req[r].d \in Inbound!Deliveries /\ UNCHANGED <<receipt, sent>>
    BY <1>4, <1>13 DEF Inbound!CancelCheck
  <2>2. \/ receipt[req[r].d] = "delivered" /\ Inbound!Answer(r, "duplicate")
        \/ Inbound!Goto(r, "cancel") /\ told' = told
    BY <1>13 DEF Inbound!CancelCheck
  <2>3. receipt[req[r].d] = "delivered" => sent[req[r].d] >= 1
    BY <1>1, <2>1 DEF ReceiptIsTrue
  <2> QED BY <1>2, <1>3, <2>1, <2>2, <2>3
<1>14. ASSUME NEW r \in Reqs, Inbound!Cancel(r)
       PROVE  Goal
  BY <1>9, <1>14 DEF Inbound!Cancel
<1>15. ASSUME NEW r \in Reqs, Inbound!CancelRecord(r)
       PROVE  Goal
  <2>1. req[r].pc = "cancelRecord" /\ req[r].d \in Inbound!Deliveries /\ sent' = sent
    BY <1>4, <1>15 DEF Inbound!CancelRecord
  <2>2. sent[req[r].d] >= 1
    BY <1>1, <2>1 DEF SentSoFar
  <2>3. CASE receipt[req[r].d] = "none"
    BY <1>3, <1>15, <2>1, <2>2, <2>3 DEF Inbound!CancelRecord
  <2>4. CASE receipt[req[r].d] # "none"
    BY <1>2, <1>15, <2>1, <2>2, <2>4 DEF Inbound!CancelRecord
  <2> QED BY <2>3, <2>4
\* Requests come and go.
<1>16. ASSUME UNCHANGED <<receipt, sent, told>>,
              req' \in [Reqs -> [pc : Steps, d : Inbound!Deliveries \cup {"none"}]],
              \A r \in Reqs : \/ req'[r] = req[r]
                              \/ req'[r].pc = "idle"
                              \/ req'[r].pc = "check" /\ req'[r].d \in Followups
                              \/ req'[r].pc = "cancelCheck" /\ req'[r].d \in Cancels
       PROVE  Goal
  <2>1. ReceiptTyped'
    BY <1>0, <1>16 DEF ReceiptTyped
  <2>2. OneOwner'
    BY <1>1, <1>16 DEF OneOwner, Owner
  <2>3. SentSoFar'
    BY <1>1, <1>16 DEF SentSoFar
  <2>4. ReceiptIsTrue' /\ Inbound!AcceptedOnce' /\ Inbound!AnswerIsTrue' /\ Inbound!ReceiptFinal
    BY <1>1, <1>16 DEF ReceiptIsTrue, Inbound!AcceptedOnce, Inbound!AnswerIsTrue
  <2> QED BY <2>1, <2>2, <2>3, <2>4 DEF ReceiptInv
<1>17. ASSUME NEW r \in Reqs, NEW d \in Inbound!Deliveries, Inbound!Request(r, d)
       PROVE  Goal
  <2>1. /\ UNCHANGED <<receipt, sent, told>>
        /\ req' = [req EXCEPT ![r] = [pc |-> IF d \in Followups THEN "check" ELSE "cancelCheck",
                                      d |-> d]]
    BY <1>17 DEF Inbound!Request
  <2> QED BY <1>0, <1>16, <2>1 DEF Inbound!Deliveries
<1>18. ASSUME Inbound!Restart
       PROVE  Goal
  <2>1. UNCHANGED <<receipt, sent, told>> /\ req' = [r \in Reqs |-> Inbound!Idle]
    BY <1>18 DEF Inbound!Restart
  <2> QED BY <1>16, <2>1 DEF Inbound!Idle
<1>19. ASSUME UNCHANGED Inbound!vars
       PROVE  ReceiptInv'
  BY <1>19
  DEF Inbound!vars, ReceiptInv, ReceiptTyped, OneOwner, Owner, SentSoFar, ReceiptIsTrue,
      Inbound!AcceptedOnce, Inbound!AnswerIsTrue
<1> HIDE DEF Inbound!ReceiptFinal
<1> QED
  BY <1>5, <1>6, <1>7, <1>8, <1>10, <1>11, <1>12, <1>13, <1>14, <1>15, <1>17, <1>18, <1>19
  DEF Inbound!Next, Inbound!Step

(* The types of the requests and of the bounds, which TypeOK follows from. *)
ReceiptWell ==
  /\ Inbound!TypeOK
  /\ req \in [Reqs -> [pc : Steps, d : Inbound!Deliveries \cup {"none"}]]
  /\ inboundLeft \in [reqs : 0..MaxReqs, crashes : 0..MaxCrashes]

(* Every step keeps the types.                                             *)
LEMMA ReceiptTypes ==
  Inbound!ReceiptAssumption /\ ReceiptWell /\ [Inbound!Next]_(Inbound!vars) => ReceiptWell'
<1> SUFFICES ASSUME Inbound!ReceiptAssumption, ReceiptWell, [Inbound!Next]_(Inbound!vars)
             PROVE  ReceiptWell'
  OBVIOUS
<1> USE DEF ReceiptWell, Inbound!TypeOK, Inbound!Deliveries, Inbound!FollowupSteps,
        Inbound!CancelSteps, Steps, Inbound!Answers, Inbound!At, Inbound!Goto, Inbound!Answer,
        Inbound!Receipt, Inbound!SetReceipt, Inbound!Idle
<1>1. ASSUME NEW r \in Reqs, Inbound!Step(r)
      PROVE  ReceiptWell'
  <2>1. CASE Inbound!Check(r) \/ Inbound!Record(r) \/ Inbound!Recheck(r) \/ Inbound!Source(r)
    BY <2>1 DEF Inbound!Check, Inbound!Record, Inbound!Recheck, Inbound!Source
  <2>2. CASE Inbound!Dispatch(r) \/ Inbound!Fail(r) \/ Inbound!Deliver(r)
    BY <2>2 DEF Inbound!Dispatch, Inbound!Fail, Inbound!Deliver
  <2>3. CASE \/ Inbound!CancelCheck(r) \/ Inbound!Cancel(r) \/ Inbound!CancelRecord(r)
             \/ Inbound!CancelRecheck(r)
    BY <2>3 DEF Inbound!CancelCheck, Inbound!Cancel, Inbound!CancelRecord,
       Inbound!CancelRecheck
  <2> QED BY <1>1, <2>1, <2>2, <2>3 DEF Inbound!Step
<1>2. ASSUME NEW r \in Reqs, NEW d \in Inbound!Deliveries, Inbound!Request(r, d)
      PROVE  ReceiptWell'
  BY <1>2 DEF Inbound!ReceiptAssumption, Inbound!Request
<1>3. CASE Inbound!Restart
  BY <1>3 DEF Inbound!ReceiptAssumption, Inbound!Restart
<1>4. CASE UNCHANGED Inbound!vars
  BY <1>4 DEF Inbound!vars
<1> QED BY <1>1, <1>2, <1>3, <1>4 DEF Inbound!Next

(* However often a delivery is requested, at the same time, after a        *)
(* failure or after a restart, the agent gets its message at most once;    *)
(* who is told that it was delivered finds it with the agent; and a        *)
(* receipt, once settled, stays.                                           *)
THEOREM DeliveredOnce ==
  Inbound!ReceiptAssumption =>
    (Inbound!Spec => /\ []Inbound!TypeOK /\ []Inbound!AcceptedOnce /\ []Inbound!AnswerIsTrue
                     /\ [][Inbound!ReceiptFinal]_(Inbound!vars))
<1> SUFFICES ASSUME Inbound!ReceiptAssumption
             PROVE  Inbound!Spec => /\ []Inbound!TypeOK /\ []Inbound!AcceptedOnce
                                    /\ []Inbound!AnswerIsTrue
                                    /\ [][Inbound!ReceiptFinal]_(Inbound!vars)
  OBVIOUS
<1>0. /\ Inbound!Init => ReceiptWell
      /\ ReceiptWell /\ [Inbound!Next]_(Inbound!vars) => ReceiptWell'
      /\ ReceiptWell => Inbound!TypeOK
  <2>1. Inbound!Init => ReceiptWell
    BY DEF Inbound!ReceiptAssumption, Inbound!Init, ReceiptWell, Inbound!TypeOK,
       Inbound!Idle, Steps, Inbound!Answers, Inbound!Deliveries
  <2> QED BY <2>1, ReceiptTypes DEF ReceiptWell
<1>1. Inbound!Init => ReceiptInv
  BY DEF Inbound!Init, ReceiptInv, ReceiptTyped, OneOwner, Owner, SentSoFar,
     ReceiptIsTrue, Inbound!AcceptedOnce, Inbound!AnswerIsTrue,
         Inbound!Idle, Steps, Inbound!Answers, Inbound!FollowupSteps, Inbound!CancelSteps,
             Inbound!Deliveries
<1>2. ReceiptInv /\ [Inbound!Next]_(Inbound!vars) => ReceiptInv'
        /\ [Inbound!ReceiptFinal]_(Inbound!vars)
  BY StepFacts
<1>3. ReceiptInv => Inbound!AcceptedOnce /\ Inbound!AnswerIsTrue
  BY DEF ReceiptInv
<1> QED BY <1>0, <1>1, <1>2, <1>3, PTL DEF Inbound!Spec

(* The cardinality the module uses is that of the library.                 *)
LEMMA DaemonCardinality ==
  \A S : /\ Daemon!Cardinality(S) = Cardinality(S)
         /\ Daemon!IsFiniteSet(S) <=> IsFiniteSet(S)
BY DEF Daemon!Cardinality, Cardinality, Daemon!IsFiniteSet, IsFiniteSet

(* The values of the pool and of the evictions.                            *)
Eviction == [s : Sessions \cup {None}, e : Daemon!Entries \cup {None}, kind : {"none"},
             at : {"none", "flush", "retire"}, found : {"idle"}]

PoolTyped ==
  /\ agents \in [Sessions -> Daemon!Entries \cup {None}]
  /\ lock \in [Sessions -> Daemon!Entries \cup {None}]
  /\ home \in [Daemon!Entries -> Sessions \cup {None}]
  /\ live \in SUBSET Daemon!Entries
  /\ ev \in [Daemon!Evictors -> Eviction]

(* The values of a maintenance request, and of what it reads of an agent.  *)
Statuses == {"idle", "running", "draining"}
Request == [s : Sessions \cup {None}, e : Daemon!Entries \cup {None}, kind : Kinds \cup {"none"},
            at : {"none", "drain", "flushed", "evict", "action", "end"}, found : Statuses]

MaintTyped ==
  /\ maint \in [Ops -> Request] /\ status \in [Daemon!Entries -> Statuses]
  /\ \A m \in Ops : maint[m].at # "none" => maint[m].s \in Sessions /\ maint[m].kind \in Kinds

(* An entry keeps the session it was made for: the entry with a session's  *)
(* lock, and the one in its place in the map, were made for that session.  *)
OwnEntries ==
  /\ \A s \in Sessions : lock[s] # None => home[lock[s]] = s
  /\ \A s \in Sessions : agents[s] # None => home[agents[s]] = s
  /\ \A e \in live : home[e] # None

(* An eviction is of an entry that was made, and before its lock goes its  *)
(* agent has left the memory, for good: no load makes it again.            *)
EvictionsKnown ==
  \A x \in Daemon!Evictors : ev[x].at # "none" =>
    /\ ev[x].s \in Sessions /\ ev[x].e \in Daemon!Entries /\ home[ev[x].e] # None
    /\ ev[x].at = "retire" => ev[x].e \notin live

(* What holds of the pool, and with what is needed of maintenance for it.  *)
Kept == PoolTyped /\ OwnEntries /\ EvictionsKnown /\ Daemon!AgentHasLock

PoolInv == MaintTyped /\ Kept

LEMMA LockInvInit == Daemon!DaemonAgentsAssumption /\ Daemon!Init => PoolInv
  BY DEF Daemon!DaemonAgentsAssumption, Daemon!Init, PoolInv, Kept, PoolTyped,
     MaintTyped, Statuses, Request,
         Eviction, OwnEntries, EvictionsKnown, Daemon!AgentHasLock, Daemon!NoOp, Daemon!Entries

(* An eviction that begins, or does not.                                   *)
LEMMA BeginEvictEffect ==
  ASSUME Daemon!DaemonAgentsAssumption, PoolInv,
         NEW x \in Daemon!Evictors, NEW s \in Sessions, Daemon!BeginEvict(x, s)
  PROVE  /\ ev' \in [Daemon!Evictors -> Eviction]
         /\ \A y \in Daemon!Evictors : y # x => ev'[y] = ev[y]
         /\ \/ ev' = ev /\ (agents[s] = None \/ cur'[s] # None)
            \/ /\ agents[s] \in Daemon!Entries /\ cur'[s] = None /\ home[agents[s]] = s
               /\ ev'[x].s = s /\ ev'[x].e = agents[s] /\ ev'[x].at = "flush"
<1>1. CASE agents[s] = None \/ cur'[s] # None
  BY <1>1 DEF Daemon!BeginEvict, PoolInv, Kept, PoolTyped
<1>2. CASE agents[s] # None /\ cur'[s] = None
  <2>1. agents[s] \in Daemon!Entries /\ home[agents[s]] = s
    BY <1>2 DEF PoolInv, Kept, PoolTyped, OwnEntries
  <2> DEFINE rec == [Daemon!NoOp EXCEPT !.s = s, !.e = agents[s], !.at = "flush"]
  <2>2. /\ rec \in Eviction /\ rec.s = s /\ rec.e = agents[s] /\ rec.at = "flush"
    BY <2>1 DEF Daemon!NoOp, Eviction
  <2>3. ev' = [ev EXCEPT ![x] = rec]
    BY <1>2 DEF Daemon!BeginEvict, Daemon!To
  <2> HIDE DEF rec
  <2> QED BY <1>2, <2>1, <2>2, <2>3 DEF PoolInv, Kept, PoolTyped
<1> QED BY <1>1, <1>2

LEMMA KeptStep ==
  ASSUME Daemon!DaemonAgentsAssumption, PoolInv, [Daemon!Next]_(Daemon!vars)
  PROVE  Kept'
<1>0. /\ PoolTyped /\ MaintTyped /\ OwnEntries /\ EvictionsKnown /\ Daemon!AgentHasLock
      /\ None \notin Sessions \cup Daemon!Entries
  BY DEF PoolInv, Kept, Daemon!DaemonAgentsAssumption, Daemon!Entries
<1>1. ASSUME UNCHANGED <<agents, lock, home, live, ev>>
      PROVE  Kept'
  BY <1>0, <1>1 DEF Kept, PoolTyped, OwnEntries, EvictionsKnown, Daemon!AgentHasLock
<1>2. ASSUME UNCHANGED <<agents, lock, home, live>>,
             NEW x \in Daemon!Evictors, NEW s \in Sessions, Daemon!BeginEvict(x, s)
      PROVE  Kept'
  <2>1. /\ ev' \in [Daemon!Evictors -> Eviction]
        /\ \A y \in Daemon!Evictors : y # x => ev'[y] = ev[y]
        /\ \/ ev' = ev
           \/ /\ agents[s] \in Daemon!Entries /\ home[agents[s]] = s
              /\ ev'[x].s = s /\ ev'[x].e = agents[s] /\ ev'[x].at = "flush"
    BY <1>2, BeginEvictEffect
  <2>2. EvictionsKnown'
    BY <1>0, <1>2, <2>1 DEF EvictionsKnown
  <2>3. PoolTyped'
    BY <1>0, <1>2, <2>1 DEF PoolTyped
  <2> QED BY <1>0, <1>2, <2>2, <2>3 DEF Kept, OwnEntries, Daemon!AgentHasLock
<1>3. \A s \in Sessions : /\ <<"proc", s>> \in Daemon!Evictors /\ <<"load", s>> \in Daemon!Evictors
                          /\ <<"sweep", s>> \in Daemon!Evictors
  BY DEF Daemon!Evictors
<1>4. \A m \in Ops : <<"maint", m>> \in Daemon!Evictors
  BY DEF Daemon!Evictors
<1>17. ASSUME UNCHANGED <<agents, lock, home, ev>>, NEW e, live' = live \ {e}
       PROVE  Kept'
  BY <1>0, <1>17 DEF Kept, PoolTyped, OwnEntries, EvictionsKnown, Daemon!AgentHasLock
<1>18. ASSUME NEW x \in Daemon!Planners, Daemon!PlanStep(x)
       PROVE  Kept'
  <2>1. CASE Daemon!PlanUpdated(x) \/ Daemon!PlanRebuilt(x)
    BY <1>1, <2>1 DEF Daemon!PlanUpdated, Daemon!PlanRebuilt, Daemon!Planned
  <2>2. CASE Daemon!PlanDispose(x)
    BY <1>17, <2>2 DEF Daemon!PlanDispose
  <2>3. CASE Daemon!PlanFails(x)
    BY <1>1, <2>3 DEF Daemon!PlanFails, Daemon!pool
  <2> QED BY <1>18, <2>1, <2>2, <2>3 DEF Daemon!PlanStep
<1>19. ASSUME NEW s \in Sessions, Daemon!TurnRebuilds(s)
       PROVE  Kept'
  BY <1>1, <1>19 DEF Daemon!TurnRebuilds, Daemon!pool
<1>5. ASSUME NEW x \in Daemon!Evictors, Daemon!Dispose(x)
      PROVE  Kept'
  <2>1. /\ ev' \in [Daemon!Evictors -> Eviction] /\ ev'[x].at = "retire"
        /\ ev'[x].s = ev[x].s /\ ev'[x].e = ev[x].e
        /\ \A y \in Daemon!Evictors : y # x => ev'[y] = ev[y]
    <3> DEFINE rec == [ev[x] EXCEPT !.at = "retire"]
    <3>1. rec \in Eviction /\ rec.at = "retire" /\ rec.s = ev[x].s /\ rec.e = ev[x].e
      BY <1>0 DEF PoolTyped, Eviction
    <3>2. ev' = [ev EXCEPT ![x] = rec]
      BY <1>5 DEF Daemon!Dispose, Daemon!To
    <3> HIDE DEF rec
    <3> QED BY <1>0, <3>1, <3>2 DEF PoolTyped
  <2>2. UNCHANGED <<agents, lock, home>> /\ live' = live \ {ev[x].e} /\ ev[x].at = "flush"
    BY <1>5 DEF Daemon!Dispose
  <2>3. EvictionsKnown'
    BY <1>0, <2>1, <2>2 DEF EvictionsKnown
  <2> QED BY <1>0, <2>1, <2>2, <2>3 DEF Kept, PoolTyped, OwnEntries, Daemon!AgentHasLock
<1>6. ASSUME NEW x \in Daemon!Evictors, Daemon!EndEvict(x)
      PROVE  Kept'
  <2>1. /\ ev' \in [Daemon!Evictors -> Eviction] /\ ev'[x].at = "none"
        /\ \A y \in Daemon!Evictors : y # x => ev'[y] = ev[y]
    <3>1. Daemon!NoOp \in Eviction /\ Daemon!NoOp.at = "none"
      BY DEF Daemon!NoOp, Eviction
    <3> QED BY <1>0, <1>6, <3>1 DEF PoolTyped, Daemon!EndEvict, Daemon!To
  <2>2. /\ UNCHANGED <<home, live>> /\ ev[x].at = "retire"
        /\ lock' = [s \in Sessions |-> IF lock[s] = ev[x].e THEN None ELSE lock[s]]
        /\ agents' = [agents EXCEPT ![ev[x].s] = None]
    BY <1>6 DEF Daemon!EndEvict, Daemon!To
  <2>3. ev[x].e \notin live /\ ev[x].s \in Sessions
    BY <1>0, <2>2 DEF EvictionsKnown
  <2>4. PoolTyped'
    BY <1>0, <2>1, <2>2, <2>3 DEF PoolTyped
  <2>5. OwnEntries'
    BY <1>0, <2>2, <2>3 DEF OwnEntries, PoolTyped
  <2>6. Daemon!AgentHasLock'
    BY <1>0, <2>2, <2>3 DEF Daemon!AgentHasLock, OwnEntries, PoolTyped
  <2>7. EvictionsKnown'
    BY <1>0, <2>1, <2>2 DEF EvictionsKnown
  <2> QED BY <2>4, <2>5, <2>6, <2>7 DEF Kept
<1>7. ASSUME NEW s \in Sessions, Daemon!TakeLock(s)
      PROVE  Kept'
  <2>1. PICK e \in Daemon!Entries : /\ home[e] = None /\ Daemon!To(home, e, s)
                                       /\ Daemon!To(lock, s, e)
                                    /\ live' = live \cup {e}
    BY <1>7 DEF Daemon!TakeLock
  <2>2. /\ lock[s] = None /\ UNCHANGED <<agents, ev>>
        /\ home' = [home EXCEPT ![e] = s] /\ lock' = [lock EXCEPT ![s] = e]
    BY <1>7, <2>1 DEF Daemon!TakeLock, Daemon!To
  <2>3. PoolTyped'
    BY <1>0, <2>1, <2>2 DEF PoolTyped
  <2>4. OwnEntries'
    BY <1>0, <2>1, <2>2 DEF PoolTyped, OwnEntries
  <2>5. EvictionsKnown'
    BY <1>0, <2>1, <2>2 DEF PoolTyped, EvictionsKnown
  <2>6. Daemon!AgentHasLock'
    BY <1>0, <2>1, <2>2 DEF PoolTyped, Daemon!AgentHasLock, OwnEntries
  <2> QED BY <2>3, <2>4, <2>5, <2>6 DEF Kept
<1>8. ASSUME NEW s \in Sessions, Daemon!Loaded(s)
      PROVE  Kept'
  <2>1. UNCHANGED <<lock, home, live, ev>> /\ agents' = [agents EXCEPT ![s] = lock[s]]
    BY <1>8 DEF Daemon!Loaded, Daemon!To
  <2> QED BY <1>0, <2>1 DEF Kept, PoolTyped, OwnEntries, EvictionsKnown,
             Daemon!AgentHasLock
<1>9. ASSUME NEW s \in Sessions, Daemon!LoadFails(s)
      PROVE  Kept'
  <2>1. /\ UNCHANGED <<agents, home, ev>>
        /\ \/ UNCHANGED <<lock, live>>
           \/ lock' = [lock EXCEPT ![s] = None] /\ live' = live \ {lock[s]}
    BY <1>9 DEF Daemon!LoadFails, Daemon!To
  <2>2. CASE UNCHANGED <<lock, live>>
    BY <1>1, <2>1, <2>2
  <2>3. CASE lock' = [lock EXCEPT ![s] = None] /\ live' = live \ {lock[s]}
    <3>1. PoolTyped' /\ OwnEntries'
      BY <1>0, <2>1, <2>3 DEF PoolTyped, OwnEntries
    <3>2. EvictionsKnown'
      BY <1>0, <2>1, <2>3 DEF EvictionsKnown
    <3>3. Daemon!AgentHasLock'
      BY <1>0, <2>1, <2>3 DEF Daemon!AgentHasLock, PoolTyped, OwnEntries
    <3> QED BY <3>1, <3>2, <3>3 DEF Kept
  <2> QED BY <2>1, <2>2, <2>3
<1>10. ASSUME NEW s \in Sessions, Daemon!Capacity(s)
       PROVE  Kept'
  BY <1>1, <1>2, <1>3, <1>10 DEF Daemon!Capacity, Daemon!pool, Daemon!Spare
<1>11. ASSUME NEW s \in Sessions, Daemon!CapacityMade(s) \/ Daemon!SubmitTurn(s)
              \/ Daemon!SweepOne(s)
       PROVE  Kept'
  BY <1>1, <1>2, <1>3, <1>11 DEF Daemon!CapacityMade, Daemon!SubmitTurn, Daemon!SweepOne,
     Daemon!pool
<1>12. ASSUME NEW s \in Sessions, Daemon!ProcStep(s)
       PROVE  Kept'
  BY <1>1, <1>2, <1>3, <1>12
     DEF Daemon!ProcStep, Daemon!ProcessSkipped, Daemon!Process, Daemon!ProcessEvicted,
         Daemon!TurnEnds, Daemon!Drained, Daemon!pool
<1>13. ASSUME NEW m \in Ops, NEW s \in Sessions, NEW k \in Kinds, Daemon!MaintBegin(m, s, k)
       PROVE  Kept'
  BY <1>1, <1>13 DEF Daemon!MaintBegin
<1>14. ASSUME NEW m \in Ops, Daemon!MaintStep(m)
       PROVE  Kept'
  <2>1. maint[m].at # "none" => maint[m].s \in Sessions
    BY <1>0 DEF MaintTyped
  <2>2. CASE Daemon!MaintDrained(m) \/ Daemon!MaintEvicted(m) \/ Daemon!MaintEnd(m)
    BY <1>1, <2>2 DEF Daemon!MaintDrained, Daemon!MaintEvicted, Daemon!MaintEnd,
       Daemon!pool
  <2>3. CASE Daemon!MaintFlushed(m)
    <3>1. UNCHANGED <<agents, lock, home, live>>
      BY <2>3 DEF Daemon!MaintFlushed
    <3>2. PICK s \in Sessions : s = maint[m].s
      BY <2>1, <2>3 DEF Daemon!MaintFlushed
    <3>3. ev' = ev \/ Daemon!BeginEvict(<<"maint", m>>, s)
      BY <2>3, <3>2 DEF Daemon!MaintFlushed, Daemon!BeginEvict
    <3> QED BY <1>1, <1>2, <1>4, <3>1, <3>3
  <2>4. CASE Daemon!MaintAction(m)
    <3>1. UNCHANGED <<agents, lock, home>>
      BY <2>4 DEF Daemon!MaintAction
    <3>2. PICK s \in Sessions : s = maint[m].s
      BY <2>1, <2>4 DEF Daemon!MaintAction
    <3>3. \/ live' = live /\ (ev' = ev \/ Daemon!BeginEvict(<<"maint", m>>, s))
          \/ live' = live \ {agents[s]} /\ ev' = ev
      BY <2>4, <3>2 DEF Daemon!MaintAction, Daemon!BeginEvict, Daemon!Import
    <3> QED BY <1>1, <1>2, <1>4, <1>17, <3>1, <3>3
  <2> QED BY <1>14, <2>2, <2>3, <2>4 DEF Daemon!MaintStep
<1>15. CASE UNCHANGED Daemon!vars
  BY <1>1, <1>15 DEF Daemon!vars, Daemon!pool
<1>16. CASE Daemon!Sweep
  BY <1>1, <1>16 DEF Daemon!Sweep, Daemon!pool
<1> QED
  BY <1>5, <1>6, <1>7, <1>8, <1>9, <1>10, <1>11, <1>12, <1>13, <1>14, <1>15, <1>16,
     <1>18, <1>19
     DEF Daemon!Next, Daemon!EvictStep, Daemon!LoadStep

LEMMA MaintTypedStep ==
  ASSUME Daemon!DaemonAgentsAssumption, PoolInv, [Daemon!Next]_(Daemon!vars)
  PROVE  MaintTyped'
<1>0. PoolTyped /\ MaintTyped
  BY DEF PoolInv, Kept
<1>1. ASSUME maint' = maint, status' \in [Daemon!Entries -> Statuses]
      PROVE  MaintTyped'
  BY <1>0, <1>1 DEF MaintTyped
<1>2. ASSUME NEW e, NEW v \in Statuses, status' = [status EXCEPT ![e] = v]
      PROVE  status' \in [Daemon!Entries -> Statuses]
  BY <1>0, <1>2 DEF MaintTyped
<1>3. status \in [Daemon!Entries -> Statuses] /\ {"idle", "running", "draining"} = Statuses
  BY <1>0 DEF MaintTyped, Statuses
<1>4. ASSUME NEW m \in Ops, NEW at \in {"none", "flushed", "evict", "action", "end"},
             maint[m].at # "none", Daemon!Go(m, at), status' \in [Daemon!Entries -> Statuses]
      PROVE  MaintTyped'
  <2> DEFINE rec == [maint[m] EXCEPT !.at = at]
  <2>1. /\ rec \in Request /\ rec.s \in Sessions /\ rec.kind \in Kinds
    BY <1>0, <1>4 DEF MaintTyped, Request
  <2>2. maint' = [maint EXCEPT ![m] = rec]
    BY <1>4 DEF Daemon!Go, Daemon!To
  <2> HIDE DEF rec
  <2> QED BY <1>0, <1>4, <2>1, <2>2 DEF MaintTyped
<1>5. ASSUME NEW x \in Daemon!Evictors, Daemon!EvictStep(x)
      PROVE  MaintTyped'
  BY <1>1, <1>3, <1>5 DEF Daemon!EvictStep, Daemon!Dispose, Daemon!EndEvict
<1>6. ASSUME NEW s \in Sessions, Daemon!LoadStep(s) \/ Daemon!LoadFails(s)
      PROVE  MaintTyped'
  <2>1. CASE Daemon!Capacity(s) \/ Daemon!CapacityMade(s) \/ Daemon!TakeLock(s)
             \/ Daemon!LoadFails(s)
    BY <1>1, <1>3, <2>1 DEF Daemon!Capacity, Daemon!CapacityMade, Daemon!TakeLock,
       Daemon!LoadFails, Daemon!pool
  <2>2. CASE Daemon!Loaded(s)
    BY <1>0, <1>1, <1>3, <2>2 DEF Daemon!Loaded, Daemon!StartTurn, Daemon!To, MaintTyped
  <2> QED BY <1>6, <2>1, <2>2 DEF Daemon!LoadStep
<1>7. ASSUME NEW s \in Sessions, Daemon!SubmitTurn(s)
      PROVE  MaintTyped'
  <2>1. maint' = maint /\ (status' = status \/ agents[s] # None)
    BY <1>7 DEF Daemon!SubmitTurn
  <2>2. CASE agents[s] # None
    <3>1. agents[s] \in Daemon!Entries /\ status[agents[s]] \in Statuses
      BY <1>0, <2>2 DEF PoolTyped, MaintTyped
    <3>2. PICK v \in Statuses : status' = [status EXCEPT ![agents[s]] = v]
      BY <1>3, <1>7, <2>2, <3>1 DEF Daemon!SubmitTurn, Daemon!To
    <3> QED BY <1>0, <1>1, <2>1, <3>2 DEF MaintTyped
  <2> QED BY <1>1, <1>3, <2>1, <2>2
<1>8. ASSUME NEW s \in Sessions, Daemon!ProcStep(s)
      PROVE  MaintTyped'
  <2>1. maint' = maint
    BY <1>8 DEF Daemon!ProcStep, Daemon!ProcessSkipped, Daemon!Process,
       Daemon!ProcessEvicted, Daemon!TurnEnds, Daemon!Drained
  <2>2. CASE Daemon!ProcessSkipped(s) \/ Daemon!Drained(s)
    BY <1>1, <1>3, <2>1, <2>2 DEF Daemon!ProcessSkipped, Daemon!Drained, Daemon!pool
  <2>3. CASE Daemon!Process(s) \/ Daemon!ProcessEvicted(s)
    BY <1>0, <1>1, <1>3, <2>1, <2>3 DEF Daemon!Process, Daemon!ProcessEvicted,
       Daemon!StartTurn, Daemon!To, MaintTyped
  <2>4. CASE Daemon!TurnEnds(s)
    BY <1>0, <1>1, <1>3, <2>1, <2>4 DEF Daemon!TurnEnds, Daemon!To, MaintTyped
  <2> QED BY <1>8, <2>2, <2>3, <2>4 DEF Daemon!ProcStep
<1>13. ASSUME NEW x \in Daemon!Planners, Daemon!PlanStep(x)
       PROVE  MaintTyped'
  <2>1. maint' = maint
    BY <1>13 DEF Daemon!PlanStep, Daemon!PlanUpdated, Daemon!PlanRebuilt, Daemon!Planned,
       Daemon!PlanDispose, Daemon!PlanFails
  <2>2. \/ status' = status
        \/ status' = [status EXCEPT ![plan[x].e] = "running"]
    <3>1. CASE Daemon!Planned(x)
      BY <3>1 DEF Daemon!Planned, Daemon!StartTurn, Daemon!To
    <3>2. CASE Daemon!PlanDispose(x) \/ Daemon!PlanFails(x)
      BY <3>2 DEF Daemon!PlanDispose, Daemon!PlanFails, Daemon!pool
    <3> QED BY <1>13, <3>1, <3>2 DEF Daemon!PlanStep, Daemon!PlanUpdated, Daemon!PlanRebuilt
  <2>3. status' \in [Daemon!Entries -> Statuses]
    BY <1>2, <1>3, <2>2
  <2> QED BY <1>1, <2>1, <2>3
<1>14. ASSUME NEW s \in Sessions, Daemon!TurnRebuilds(s)
       PROVE  MaintTyped'
  BY <1>1, <1>3, <1>14 DEF Daemon!TurnRebuilds, Daemon!pool
<1>9. ASSUME Daemon!Sweep \/ \E s \in Sessions : Daemon!SweepOne(s)
       PROVE  MaintTyped'
  BY <1>1, <1>3, <1>9 DEF Daemon!Sweep, Daemon!SweepOne, Daemon!pool
<1>10. ASSUME NEW m \in Ops, NEW s \in Sessions, NEW k \in Kinds, Daemon!MaintBegin(m, s, k)
       PROVE  MaintTyped'
  <2> DEFINE e == agents[s]
             rec == [s |-> s, e |-> e, kind |-> k, at |-> IF e = None THEN "action" ELSE "drain",
                     found |-> IF e = None THEN "idle" ELSE status[e]]
  <2>1. rec \in Request /\ rec.s \in Sessions /\ rec.kind \in Kinds
    BY <1>0, <1>3 DEF PoolTyped, MaintTyped, Request
  <2>2. maint' = [maint EXCEPT ![m] = rec]
    BY <1>10 DEF Daemon!MaintBegin, Daemon!To
  <2>3. status' \in [Daemon!Entries -> Statuses]
    BY <1>0, <1>3, <1>10 DEF Daemon!MaintBegin, Daemon!To, MaintTyped
  <2> HIDE DEF rec
  <2> QED BY <1>0, <2>1, <2>2, <2>3 DEF MaintTyped
<1>11. ASSUME NEW m \in Ops, Daemon!MaintStep(m)
       PROVE  MaintTyped'
  <2>1. CASE Daemon!MaintDrained(m) \/ Daemon!MaintEvicted(m) \/ Daemon!MaintAction(m)
             \/ Daemon!MaintEnd(m)
    BY <1>3, <1>4, <2>1 DEF Daemon!MaintDrained, Daemon!MaintEvicted, Daemon!MaintAction,
       Daemon!MaintEnd, Daemon!pool
  <2>2. CASE Daemon!MaintFlushed(m)
    <3>1. status' \in [Daemon!Entries -> Statuses]
      BY <1>0, <1>3, <2>2 DEF Daemon!MaintFlushed, Daemon!To, MaintTyped, Request
    <3> QED BY <1>4, <2>2, <3>1 DEF Daemon!MaintFlushed
  <2> QED BY <1>11, <2>1, <2>2 DEF Daemon!MaintStep
<1>12. CASE UNCHANGED Daemon!vars
  BY <1>1, <1>3, <1>12 DEF Daemon!vars, Daemon!pool
<1> QED
  BY <1>5, <1>6, <1>7, <1>8, <1>9, <1>10, <1>11, <1>12, <1>13, <1>14
     DEF Daemon!Next

LEMMA LockInvStep ==
  ASSUME Daemon!DaemonAgentsAssumption, PoolInv, [Daemon!Next]_(Daemon!vars)
  PROVE  PoolInv'
BY KeptStep, MaintTypedStep DEF PoolInv

-----------------------------------------------------------------------------
(* Turns, where only a session's own processor evicts.                     *)

TurnTyped ==
  /\ cur \in [Sessions -> Daemon!Entries \cup {None}]
  /\ daemonProc \in [Sessions -> {"none", "load", "evict", "plan", "run", "drain"}]
  /\ load \in [Sessions -> {"none", "capacity", "evict", "lock", "boot", "adopt"}]
  /\ sweep = {} /\ sweeps = 0

(* The one that evicts is the session's processor, of the entry in the     *)
(* map, and it waits for the eviction.                                     *)
OwnEviction ==
  /\ \A s \in Sessions : /\ ev[<<"load", s>>].at = "none" /\ ev[<<"sweep", s>>].at = "none"
                         /\ ev[<<"proc", s>>].at # "none" =>
                              /\ ev[<<"proc", s>>].s = s /\ ev[<<"proc", s>>].e = agents[s]
                              /\ daemonProc[s] \in {"evict", "drain"}
  /\ \A m \in Ops : ev[<<"maint", m>>].at = "none"

(* A session that loads has no entry in the map yet, and the agent it      *)
(* boots is in memory, or the runtime has disposed of it.                  *)
LoadsOne ==
  \A s \in Sessions : /\ load[s] # "none" => agents[s] = None
                      /\ Daemon!Booting(s) =>
                           lock[s] # None /\ lock[s] \in live \cup replaced

(* The entry in the map has the lock, and its agent is in memory until it  *)
(* is evicted or the runtime disposes of it.                               *)
MapHasLock ==
  \A s \in Sessions : agents[s] # None =>
    /\ lock[s] = agents[s]
    /\ agents[s] \in live \cup replaced \/ ev[<<"proc", s>>].at = "retire"

(* A turn runs exactly while the processor runs one, on the map's entry.   *)
RunsOnEntry ==
  \A s \in Sessions : /\ (cur[s] # None) <=> (daemonProc[s] = "run")
                      /\ cur[s] # None => agents[s] = cur[s]

TurnInv == TurnTyped /\ OwnEviction /\ LoadsOne /\ MapHasLock /\ RunsOnEntry

(* The processor that waits for another plan has that of the map's entry   *)
(* updated.                                                                *)
Update == [e : Daemon!Entries \cup {None}, at : {"none", "update", "rebuild"}]
PlansOwn ==
  /\ plan \in [Daemon!Planners -> Update]
  /\ \A s \in Sessions : plan[<<"proc", s>>].at # "none" =>
       daemonProc[s] = "plan" /\ plan[<<"proc", s>>].e = agents[s] /\ agents[s] # None

LEMMA TurnInvInit == Daemon!DaemonAgentsAssumption /\ Daemon!Init => TurnInv
<1> SUFFICES ASSUME Daemon!DaemonAgentsAssumption, Daemon!Init
             PROVE  TurnInv
  OBVIOUS
<1>1. \A x \in Daemon!Evictors : ev[x].at = "none"
  BY DEF Daemon!Init, Daemon!NoOp
<1>2. OwnEviction
  BY <1>1 DEF OwnEviction, Daemon!Evictors
<1>3. TurnTyped
  BY DEF Daemon!Init, TurnTyped
<1>4. LoadsOne /\ MapHasLock
  BY DEF Daemon!Init, Daemon!Booting, LoadsOne, MapHasLock
<1>5. RunsOnEntry
  BY DEF Daemon!Init, RunsOnEntry
<1> QED
  BY <1>2, <1>3, <1>4, <1>5 DEF TurnInv

(* The invariant says what is wanted of a turn.                            *)
LEMMA TurnInvGivesAgent == Daemon!DaemonAgentsAssumption /\ PoolInv /\ TurnInv
  => Daemon!TurnHasAgent
<1> SUFFICES ASSUME TurnInv, NEW s \in Sessions, cur[s] # None
             PROVE  cur[s] \in live \cup replaced /\ agents[s] = cur[s] /\ lock[s] = cur[s]
  BY DEF Daemon!TurnHasAgent
<1>1. daemonProc[s] = "run" /\ agents[s] = cur[s]
  BY DEF TurnInv, RunsOnEntry
<1>2. ev[<<"proc", s>>].at = "none"
  BY <1>1 DEF TurnInv, OwnEviction
<1> QED BY <1>1, <1>2 DEF TurnInv, MapHasLock

(* While a session's processor evicts, nothing is loaded for it and no     *)
(* turn of it runs; while it loads, no turn runs either.                   *)
LEMMA ProcessorWaits ==
  ASSUME Daemon!DaemonAgentsAssumption, PoolInv, TurnInv, NEW s \in Sessions
  PROVE  /\ ev[<<"proc", s>>].at # "none" =>
              agents[s] \in Daemon!Entries /\ load[s] = "none" /\ cur[s] = None
         /\ load[s] # "none" =>
              agents[s] = None /\ cur[s] = None /\ daemonProc[s] # "run"
                  /\ ev[<<"proc", s>>].at = "none"
<1>1. <<"proc", s>> \in Daemon!Evictors /\ None \notin Daemon!Entries
  BY DEF Daemon!Evictors, Daemon!DaemonAgentsAssumption, Daemon!Entries
<1>2. ev[<<"proc", s>>].at # "none" => agents[s] \in Daemon!Entries
        /\ daemonProc[s] \in {"evict", "drain"}
  BY <1>1 DEF PoolInv, Kept, EvictionsKnown, TurnInv, OwnEviction
<1>3. load[s] # "none" => agents[s] = None
  BY DEF TurnInv, LoadsOne
<1>4. (cur[s] # None <=> daemonProc[s] = "run") /\ (cur[s] # None => agents[s] = cur[s])
  BY DEF TurnInv, RunsOnEntry
<1> QED BY <1>1, <1>2, <1>3, <1>4

LEMMA TurnInvStep ==
  ASSUME Daemon!DaemonAgentsAssumption, Daemon!EvictsOwn, PoolInv, TurnInv, PlansOwn,
         [Daemon!Next]_(Daemon!vars)
  PROVE  TurnInv'
<1>0. /\ PoolTyped /\ MaintTyped /\ OwnEntries /\ EvictionsKnown /\ Daemon!AgentHasLock
      /\ None \notin Daemon!Entries /\ MaxSweeps = 0
      /\ TurnTyped /\ OwnEviction /\ LoadsOne /\ MapHasLock /\ RunsOnEntry
  BY DEF PoolInv, Kept, Daemon!DaemonAgentsAssumption, Daemon!Entries, TurnInv,
     Daemon!EvictsOwn
<1>1. \A s \in Sessions : /\ <<"proc", s>> \in Daemon!Evictors
                          /\ \A t \in Sessions : s # t => <<"proc", s>> # <<"proc", t>>
  BY DEF Daemon!Evictors
<1>2. ASSUME NEW s \in Sessions
      PROVE  /\ ev[<<"proc", s>>].at # "none" =>
                  agents[s] \in Daemon!Entries /\ load[s] = "none" /\ cur[s] = None
             /\ load[s] # "none" =>
                  /\ agents[s] = None /\ cur[s] = None /\ daemonProc[s] # "run"
                  /\ ev[<<"proc", s>>].at = "none"
  BY ProcessorWaits
<1>3. \A m \in Ops : maint[m].at # "none" => maint[m].kind = "export"
  BY <1>0 DEF MaintTyped, Daemon!EvictsOwn
<1>4. ASSUME UNCHANGED <<agents, lock, live, replaced, ev, cur, daemonProc, load, sweep, sweeps>>
      PROVE  TurnInv'
  BY <1>0, <1>4 DEF TurnInv, TurnTyped, OwnEviction, Daemon!Booting, LoadsOne, MapHasLock,
      RunsOnEntry
<1>5. ASSUME UNCHANGED <<agents, lock, live, replaced, ev, cur, daemonProc, sweep, sweeps>>,
             NEW s \in Sessions, agents[s] = None, Daemon!JoinLoad(s)
      PROVE  TurnInv'
  BY <1>0, <1>5 DEF Daemon!JoinLoad, Daemon!To, TurnInv, TurnTyped, OwnEviction,
     Daemon!Booting, LoadsOne, MapHasLock, RunsOnEntry
<1>6. ASSUME NEW x \in Daemon!Evictors, Daemon!EvictStep(x)
      PROVE  TurnInv'
  <2>1. PICK s \in Sessions : x = <<"proc", s>>
    <3>1. ev[x].at # "none"
      BY <1>6 DEF Daemon!runtime, Daemon!EvictStep, Daemon!Dispose, Daemon!EndEvict
    <3>2. \/ \E s \in Sessions : x = <<"proc", s>> \/ x = <<"load", s>> \/ x = <<"sweep", s>>
          \/ \E m \in Ops : x = <<"maint", m>>
      BY DEF Daemon!Evictors
    <3>3. ASSUME NEW s \in Sessions
          PROVE  x # <<"load", s>> /\ x # <<"sweep", s>>
      <4>1. ev[<<"load", s>>].at = "none" /\ ev[<<"sweep", s>>].at = "none"
        BY <1>0 DEF OwnEviction
      <4> QED BY <3>1, <4>1
    <3>4. ASSUME NEW m \in Ops
          PROVE  x # <<"maint", m>>
      BY <1>0, <3>1 DEF OwnEviction
    <3> QED BY <3>2, <3>3, <3>4
  <2>2. /\ ev[x].s = s /\ ev[x].e = agents[s] /\ agents[s] \in Daemon!Entries /\ agents[s] # None
        /\ load[s] = "none" /\ cur[s] = None /\ lock[s] = agents[s]
    BY <1>0, <1>2, <1>6, <2>1, ZenonT(60) DEF OwnEviction, MapHasLock, Daemon!EvictStep,
       Daemon!Dispose, Daemon!EndEvict
  <2>3. \A t \in Sessions \ {s} : lock[t] # agents[s] /\ (agents[t] # None => agents[t] # agents[s])
    BY <1>0, <2>2 DEF OwnEntries
  <2>4. UNCHANGED <<replaced, cur, daemonProc, load, sweep, sweeps>>
    BY <1>6 DEF Daemon!runtime, Daemon!EvictStep, Daemon!Dispose, Daemon!EndEvict
  <2>5. CASE Daemon!Dispose(x)
    <3>1. /\ UNCHANGED <<agents, lock, replaced>> /\ live' = live \ {agents[s]}
          /\ ev' = [ev EXCEPT ![x] = [ev[x] EXCEPT !.at = "retire"]]
      BY <2>2, <2>5 DEF Daemon!runtime, Daemon!Dispose, Daemon!To
    <3>2. /\ \A y \in Daemon!Evictors : y # x => ev'[y] = ev[y]
          /\ ev'[x].at = "retire" /\ ev'[x].s = ev[x].s /\ ev'[x].e = ev[x].e
      BY <1>0, <3>1 DEF PoolTyped, Eviction
    <3>3. OwnEviction'
      <4>1. ev[x].at # "none"
        BY <2>5 DEF Daemon!runtime, Daemon!Dispose
      <4>2. \A y \in Daemon!Evictors : y # x => ev'[y] = ev[y]
        BY <3>2
      <4> QED BY <1>0, <2>1, <2>2, <2>4, <3>1, <3>2, <4>1 DEF OwnEviction, Daemon!Evictors
    <3>4. LoadsOne'
      BY <1>0, <2>2, <2>3, <2>4, <3>1 DEF Daemon!Booting, LoadsOne
    <3>5. MapHasLock'
      BY <1>0, <1>1, <2>1, <2>2, <2>3, <3>1, <3>2 DEF MapHasLock
    <3> QED BY <1>0, <2>4, <3>1, <3>3, <3>4, <3>5 DEF TurnInv, TurnTyped, RunsOnEntry
  <2>6. CASE Daemon!EndEvict(x)
    <3>1. /\ live' = live /\ agents' = [agents EXCEPT ![s] = None]
          /\ lock' = [t \in Sessions |-> IF lock[t] = agents[s] THEN None ELSE lock[t]]
          /\ ev' = [ev EXCEPT ![x] = Daemon!NoOp]
      BY <2>2, <2>6 DEF Daemon!runtime, Daemon!EndEvict, Daemon!To
    <3>2. (\A y \in Daemon!Evictors : y # x => ev'[y] = ev[y]) /\ ev'[x].at = "none"
      BY <1>0, <3>1 DEF PoolTyped, Daemon!NoOp
    <3>3. /\ agents'[s] = None
          /\ \A t \in Sessions \ {s} : agents'[t] = agents[t] /\ lock'[t] = lock[t]
      BY <1>0, <2>3, <3>1 DEF PoolTyped
    <3>4. OwnEviction'
      BY <1>0, <2>1, <2>4, <3>2, <3>3 DEF OwnEviction, Daemon!Evictors
    <3>5. LoadsOne'
      <4>1. ASSUME NEW t \in Sessions
            PROVE  /\ load'[t] # "none" => agents'[t] = None
                   /\ load'[t] \in {"boot", "adopt"} =>
                        lock'[t] # None /\ lock'[t] \in live' \cup replaced'
        BY <1>0, <2>2, <2>4, <3>1, <3>3, <4>1 DEF Daemon!Booting, LoadsOne
      <4> QED BY <4>1 DEF Daemon!Booting, LoadsOne
    <3>6. MapHasLock'
      BY <1>0, <1>1, <2>1, <2>4, <3>1, <3>2, <3>3 DEF MapHasLock
    <3>7. RunsOnEntry'
      BY <1>0, <2>2, <2>4, <3>3 DEF RunsOnEntry
    <3> QED BY <1>0, <2>4, <3>4, <3>5, <3>6, <3>7 DEF TurnInv, TurnTyped
  <2> QED BY <1>6, <2>5, <2>6 DEF Daemon!runtime, Daemon!EvictStep
<1>7. ASSUME NEW s \in Sessions, Daemon!Capacity(s)
      PROVE  TurnInv'
  <2>1. Cardinality({t \in Sessions : agents[t] # None}) < MaxAgents
    <3> DEFINE Used == {t \in Sessions : agents[t] # None}
    <3>1. Used \subseteq Sessions /\ Used # Sessions
      BY <1>2, <1>7 DEF Daemon!runtime, Daemon!Capacity
    <3>2. IsFiniteSet(Sessions) /\ Cardinality(Sessions) <= MaxAgents /\ MaxAgents \in Nat
      BY DaemonCardinality DEF Daemon!DaemonAgentsAssumption, Daemon!EvictsOwn
    <3> HIDE DEF Used
    <3>3. Cardinality(Used) < Cardinality(Sessions) /\ Cardinality(Sessions) \in Nat
          /\ Cardinality(Used) \in Nat
      BY <3>1, <3>2, FS_Subset, FS_CardinalityType
    <3>4. Cardinality(Used) < MaxAgents
      BY <3>2, <3>3
    <3> QED BY <3>4 DEF Used
  <2>2. /\ UNCHANGED <<agents, lock, live, replaced, ev, cur, daemonProc, sweep, sweeps>>
        /\ load[s] # "none" /\ load' = [load EXCEPT ![s] = "lock"]
    BY <1>7, <2>1, DaemonCardinality DEF Daemon!runtime, Daemon!Capacity, Daemon!To, Daemon!pool
  <2> QED
    BY <1>0, <2>2 DEF TurnInv, TurnTyped, OwnEviction, Daemon!Booting, LoadsOne, MapHasLock,
        RunsOnEntry
<1>8. ASSUME NEW s \in Sessions, Daemon!CapacityMade(s)
      PROVE  TurnInv'
  BY <1>0, <1>8 DEF Daemon!runtime, Daemon!CapacityMade, Daemon!To, Daemon!pool, TurnInv, TurnTyped,
     OwnEviction, Daemon!Booting, LoadsOne, MapHasLock,
                    RunsOnEntry
<1>9. ASSUME NEW s \in Sessions, Daemon!TakeLock(s)
      PROVE  TurnInv'
  <2>1. PICK e \in Daemon!Entries : lock' = [lock EXCEPT ![s] = e] /\ live' = live \cup {e}
    BY <1>9 DEF Daemon!runtime, Daemon!TakeLock, Daemon!To
  <2>2. /\ load[s] = "lock" /\ load' \in {[load EXCEPT ![s] = "boot"],
           [load EXCEPT ![s] = "adopt"]} /\ agents[s] = None
        /\ UNCHANGED <<agents, replaced, ev, cur, daemonProc, sweep, sweeps>>
    BY <1>2, <1>9 DEF Daemon!runtime, Daemon!TakeLock, Daemon!To
  <2>3. LoadsOne'
    BY <1>0, <2>1, <2>2 DEF Daemon!Booting, LoadsOne, PoolTyped, TurnTyped
  <2>4. MapHasLock'
    BY <1>0, <2>1, <2>2 DEF MapHasLock, PoolTyped
  <2> QED
    BY <1>0, <2>2, <2>3, <2>4 DEF TurnInv, TurnTyped, OwnEviction, RunsOnEntry
<1>10. ASSUME NEW s \in Sessions, Daemon!Loaded(s)
       PROVE  TurnInv'
  <2>1. /\ Daemon!Booting(s) /\ load[s] # "none" /\ load' = [load EXCEPT ![s] = "none"]
        /\ agents' = [agents EXCEPT ![s] = lock[s]]
        /\ UNCHANGED <<lock, live, replaced, ev, sweep, sweeps>>
    BY <1>10 DEF Daemon!runtime, Daemon!Loaded, Daemon!To, Daemon!Booting
  <2>2. /\ lock[s] \in live \cup replaced /\ lock[s] \in Daemon!Entries /\ lock[s] # None
        /\ agents[s] = None /\ cur[s] = None /\ daemonProc[s] # "run"
            /\ ev[<<"proc", s>>].at = "none"
    BY <1>0, <1>2, <2>1 DEF Daemon!Booting, LoadsOne, PoolTyped
  <2>3. \/ cur' = [cur EXCEPT ![s] = lock[s]] /\ daemonProc' = [daemonProc EXCEPT ![s] = "run"]
        \/ cur' = cur /\ daemonProc' = [daemonProc EXCEPT ![s] = IF @ = "load" THEN "none" ELSE @]
    BY <1>10 DEF Daemon!runtime, Daemon!Loaded, Daemon!StartTurn, Daemon!To
  <2>4. TurnTyped'
    BY <1>0, <2>1, <2>2, <2>3 DEF TurnTyped
  <2>5. OwnEviction'
    BY <1>0, <2>1, <2>2, <2>3 DEF OwnEviction, PoolTyped, TurnTyped
  <2>6. LoadsOne'
    BY <1>0, <2>1 DEF Daemon!Booting, LoadsOne, PoolTyped, TurnTyped
  <2>7. MapHasLock'
    BY <1>0, <2>1, <2>2 DEF MapHasLock, PoolTyped
  <2>8. RunsOnEntry'
    BY <1>0, <2>1, <2>2, <2>3 DEF RunsOnEntry, PoolTyped, TurnTyped
  <2> QED BY <2>4, <2>5, <2>6, <2>7, <2>8 DEF TurnInv
<1>11. ASSUME NEW s \in Sessions, Daemon!LoadFails(s)
       PROVE  TurnInv'
  <2>1. /\ load[s] # "none" /\ load' = [load EXCEPT ![s] = "none"]
        /\ UNCHANGED <<agents, replaced, ev, cur, sweep, sweeps>>
        /\ daemonProc' = [daemonProc EXCEPT ![s] = IF @ = "load" THEN "none" ELSE @]
        /\ \/ UNCHANGED <<lock, live>>
           \/ lock' = [lock EXCEPT ![s] = None] /\ live' = live \ {lock[s]}
    BY <1>11 DEF Daemon!runtime, Daemon!LoadFails, Daemon!To, Daemon!Booting
  <2>2. agents[s] = None /\ cur[s] = None /\ ev[<<"proc", s>>].at = "none"
    BY <1>2, <2>1
  <2>3. \A t \in Sessions \ {s} : lock[t] \in Daemon!Entries => lock[t] # lock[s]
    BY <1>0 DEF OwnEntries
  <2>4. TurnTyped' /\ OwnEviction'
    BY <1>0, <2>1, <2>2 DEF TurnTyped, OwnEviction
  <2>5. LoadsOne'
    BY <1>0, <2>1, <2>3 DEF Daemon!Booting, LoadsOne, PoolTyped, TurnTyped
  <2>6. MapHasLock'
    BY <1>0, <2>1, <2>2, <2>3 DEF MapHasLock, PoolTyped
  <2>7. RunsOnEntry'
    BY <1>0, <2>1, <2>2 DEF RunsOnEntry, TurnTyped
  <2> QED BY <2>4, <2>5, <2>6, <2>7 DEF TurnInv
<1>12. ASSUME NEW s \in Sessions, Daemon!SubmitTurn(s)
       PROVE  TurnInv'
  BY <1>4, <1>5, <1>12 DEF Daemon!runtime, Daemon!SubmitTurn
<1>13. ASSUME NEW s \in Sessions, cur[s] = None, daemonProc[s] \notin {"run", "drain"},
              ev[<<"proc", s>>].at = "none", agents[s] # None, Daemon!StartTurn(s, agents[s]),
              UNCHANGED <<agents, lock, live, replaced, ev, load, sweep, sweeps>>
       PROVE  TurnInv'
  <2>1. /\ cur' = [cur EXCEPT ![s] = agents[s]] /\ daemonProc' = [daemonProc EXCEPT ![s] = "run"]
        /\ agents[s] \in Daemon!Entries
    BY <1>0, <1>13 DEF Daemon!StartTurn, Daemon!To, PoolTyped
  <2>2. TurnTyped' /\ OwnEviction'
    BY <1>0, <1>13, <2>1 DEF TurnTyped, OwnEviction
  <2>3. RunsOnEntry'
    BY <1>0, <1>13, <2>1 DEF RunsOnEntry, TurnTyped
  <2> QED BY <1>0, <1>13, <2>2, <2>3 DEF TurnInv, Daemon!Booting, LoadsOne, MapHasLock
<1>14. ASSUME NEW s \in Sessions, NEW p \in {"none", "load", "evict", "plan", "drain"},
              daemonProc[s] # "run", ev[<<"proc", s>>].at = "none",
                  daemonProc' = [daemonProc EXCEPT ![s] = p],
              UNCHANGED <<agents, lock, live, replaced, ev, cur, sweep, sweeps>>,
              UNCHANGED load \/ (agents[s] = None /\ Daemon!JoinLoad(s))
       PROVE  TurnInv'
  <2>1. TurnTyped' /\ OwnEviction'
    BY <1>0, <1>14 DEF TurnTyped, OwnEviction, Daemon!JoinLoad, Daemon!To
  <2>2. RunsOnEntry'
    BY <1>0, <1>14 DEF RunsOnEntry, TurnTyped
  <2>3. LoadsOne'
    BY <1>0, <1>14 DEF Daemon!Booting, LoadsOne, TurnTyped, Daemon!JoinLoad, Daemon!To
  <2> QED BY <1>0, <1>14, <2>1, <2>2, <2>3 DEF TurnInv, MapHasLock
<1>15. ASSUME NEW s \in Sessions, NEW p \in {"evict", "drain"}, agents[s] # None,
              ev[<<"proc", s>>].at = "none", Daemon!BeginEvict(<<"proc", s>>, s),
              cur' = [cur EXCEPT ![s] = None], daemonProc' = [daemonProc EXCEPT ![s] = p],
              UNCHANGED <<agents, lock, live, replaced, load, sweep, sweeps>>
       PROVE  TurnInv'
  <2>1. cur'[s] = None /\ <<"proc", s>> \in Daemon!Evictors
    BY <1>0, <1>1, <1>15 DEF TurnTyped
  <2>2. /\ \A y \in Daemon!Evictors : y # <<"proc", s>> => ev'[y] = ev[y]
        /\ ev'[<<"proc", s>>].s = s /\ ev'[<<"proc", s>>].e = agents[s]
        /\ ev'[<<"proc", s>>].at = "flush"
    BY <1>15, <2>1, BeginEvictEffect
  <2>3. TurnTyped'
    BY <1>0, <1>15 DEF TurnTyped
  <2>4. OwnEviction'
    BY <1>0, <1>15, <2>2 DEF OwnEviction, Daemon!Evictors, TurnTyped
  <2>5. MapHasLock'
    BY <1>0, <1>1, <1>15, <2>2 DEF MapHasLock
  <2>6. RunsOnEntry'
    BY <1>0, <1>15 DEF RunsOnEntry, TurnTyped
  <2> QED BY <1>0, <1>15, <2>3, <2>4, <2>5, <2>6 DEF TurnInv, Daemon!Booting, LoadsOne
<1>16. ASSUME NEW s \in Sessions, Daemon!ProcessSkipped(s)
       PROVE  TurnInv'
  BY <1>4, <1>16 DEF Daemon!runtime, Daemon!ProcessSkipped, Daemon!pool
<1>17. ASSUME NEW s \in Sessions, Daemon!Process(s)
       PROVE  TurnInv'
  <2>1. /\ daemonProc[s] = "none" /\ cur[s] = None /\ ev[<<"proc", s>>].at = "none"
        /\ UNCHANGED <<agents, lock, live, replaced, sweep, sweeps>>
    BY <1>0, <1>17 DEF Daemon!runtime, Daemon!Process, Daemon!MayProcess, OwnEviction
  <2>2. CASE agents[s] # None /\ Daemon!StartTurn(s, agents[s]) /\ UNCHANGED <<load, ev>>
    BY <1>13, <2>1, <2>2
  <2>3. CASE /\ agents[s] # None /\ UNCHANGED cur /\ Daemon!BeginEvict(<<"proc", s>>, s)
             /\ Daemon!To(daemonProc, s, "evict") /\ UNCHANGED load
    <3>1. cur' = [cur EXCEPT ![s] = None]
      BY <1>0, <2>1, <2>3 DEF TurnTyped
    <3> QED BY <1>15, <2>1, <2>3, <3>1 DEF Daemon!To
  <2>5. CASE /\ Daemon!To(daemonProc, s, "plan") /\ UNCHANGED <<cur, load, ev>>
    BY <1>14, <2>1, <2>5 DEF Daemon!To
  <2>4. CASE /\ agents[s] = None /\ Daemon!JoinLoad(s) /\ Daemon!To(daemonProc, s, "load")
             /\ UNCHANGED <<cur, ev>>
    BY <1>14, <2>1, <2>4 DEF Daemon!To
  <2> QED BY <1>17, <2>2, <2>3, <2>4, <2>5 DEF Daemon!runtime, Daemon!Process
<1>18. ASSUME NEW s \in Sessions, Daemon!ProcessEvicted(s)
       PROVE  TurnInv'
  <2>1. /\ daemonProc[s] = "evict" /\ cur[s] = None /\ ev[<<"proc", s>>].at = "none"
        /\ UNCHANGED <<agents, lock, live, replaced, ev, sweep, sweeps>>
    BY <1>0, <1>18 DEF Daemon!runtime, Daemon!ProcessEvicted, Daemon!Evicting, RunsOnEntry
  <2> QED BY <1>13, <1>14, <1>18, <2>1 DEF Daemon!runtime, Daemon!ProcessEvicted, Daemon!To
<1>19. ASSUME NEW s \in Sessions, Daemon!TurnEnds(s)
       PROVE  TurnInv'
  <2>1. /\ daemonProc[s] = "run" /\ cur[s] # None /\ agents[s] = cur[s]
           /\ ev[<<"proc", s>>].at = "none"
        /\ cur' = [cur EXCEPT ![s] = None]
        /\ UNCHANGED <<agents, lock, live, replaced, load, sweep, sweeps>>
    BY <1>0, <1>19 DEF Daemon!runtime, Daemon!TurnEnds, Daemon!To, RunsOnEntry, OwnEviction
  <2>2. CASE Daemon!BeginEvict(<<"proc", s>>, s) /\ Daemon!To(daemonProc, s, "drain")
    BY <1>15, <2>1, <2>2 DEF Daemon!To
  <2>3. CASE Daemon!To(daemonProc, s, "none") /\ UNCHANGED ev
    <3>1. TurnTyped' /\ OwnEviction'
      BY <1>0, <2>1, <2>3 DEF TurnTyped, OwnEviction, Daemon!To
    <3>2. RunsOnEntry'
      BY <1>0, <2>1, <2>3 DEF RunsOnEntry, TurnTyped, Daemon!To
    <3> QED BY <1>0, <2>1, <2>3, <3>1, <3>2 DEF TurnInv, Daemon!Booting, LoadsOne, MapHasLock
  <2> QED BY <1>19, <2>2, <2>3 DEF Daemon!runtime, Daemon!TurnEnds
<1>20. ASSUME NEW s \in Sessions, Daemon!Drained(s)
       PROVE  TurnInv'
  BY <1>14, <1>20 DEF Daemon!runtime, Daemon!Drained, Daemon!Evicting, Daemon!To, Daemon!pool
<1>21. ASSUME NEW s \in Sessions, Daemon!SweepOne(s)
       PROVE  TurnInv'
  BY <1>0, <1>21 DEF Daemon!runtime, Daemon!SweepOne, TurnTyped
<1>22. ASSUME Daemon!Sweep
       PROVE  TurnInv'
  BY <1>0, <1>22 DEF Daemon!runtime, Daemon!Sweep, TurnTyped
<1>23. ASSUME NEW m \in Ops, Daemon!MaintStep(m) \/ \E s \in Sessions,
              k \in Kinds : Daemon!MaintBegin(m, s, k)
       PROVE  TurnInv'
  <2>1. CASE \E s \in Sessions, k \in Kinds : Daemon!MaintBegin(m, s, k)
    BY <1>4, <2>1 DEF Daemon!runtime, Daemon!MaintBegin
  <2>2. CASE Daemon!MaintStep(m)
    <3>0. maint[m].kind = "export" \/ ~Daemon!MaintAction(m)
      BY <1>3 DEF Daemon!MaintAction
    <3>1. /\ UNCHANGED <<agents, lock, live, replaced, cur, daemonProc, load, sweep, sweeps>>
          /\ maint[m].at # "none"
      BY <2>2, <3>0 DEF Daemon!runtime, Daemon!MaintStep, Daemon!MaintDrained, Daemon!MaintFlushed,
         Daemon!MaintEvicted, Daemon!MaintAction, Daemon!MaintEnd, Daemon!pool
    <3>2. UNCHANGED ev
      BY <1>3, <2>2, <3>1
         DEF Daemon!runtime, Daemon!MaintStep, Daemon!MaintDrained, Daemon!MaintFlushed,
             Daemon!MaintEvicted, Daemon!MaintAction, Daemon!MaintEnd
    <3> QED BY <1>4, <3>1, <3>2
  <2> QED BY <1>23, <2>1, <2>2
<1>25. ASSUME NEW x \in Daemon!Planners, Daemon!PlanStep(x)
       PROVE  TurnInv'
  <2>1. PICK s \in Sessions : s = x[2] /\ (x = <<"submit", s>> \/ x = <<"proc", s>>)
    BY DEF Daemon!Planners
  <2>2. CASE Daemon!PlanDispose(x)
    <3>1. /\ UNCHANGED <<agents, lock, ev, cur, daemonProc, load, sweep, sweeps>>
          /\ live \cup replaced \subseteq live' \cup replaced'
      BY <2>2 DEF Daemon!PlanDispose
    <3>2. LoadsOne'
      BY <1>0, <3>1 DEF LoadsOne, Daemon!Booting
    <3>3. MapHasLock'
      BY <1>0, <3>1 DEF MapHasLock
    <3> QED BY <1>0, <3>1, <3>2, <3>3 DEF TurnInv, TurnTyped, OwnEviction, RunsOnEntry
  <2>3. CASE x = <<"submit", s>> /\ ~Daemon!PlanDispose(x)
    <3>1. UNCHANGED <<agents, lock, live, replaced, ev, cur, daemonProc, load, sweep, sweeps>>
      BY <1>25, <2>1, <2>3 DEF Daemon!PlanStep, Daemon!PlanUpdated, Daemon!PlanRebuilt,
         Daemon!Planned, Daemon!PlanFails, Daemon!pool
    <3> QED BY <1>4, <3>1
  <2>4. CASE x = <<"proc", s>> /\ ~Daemon!PlanDispose(x)
    <3>1. plan[x].at # "none"
      BY <1>25 DEF Daemon!PlanStep, Daemon!PlanUpdated, Daemon!PlanRebuilt,
         Daemon!PlanDispose, Daemon!PlanFails
    <3>2. daemonProc[s] = "plan" /\ plan[x].e = agents[s] /\ agents[s] # None
      BY <2>4, <3>1 DEF PlansOwn
    <3>3. cur[s] = None /\ ev[<<"proc", s>>].at = "none"
      BY <1>0, <3>2 DEF RunsOnEntry, OwnEviction
    <3>4. UNCHANGED <<agents, lock, live, replaced, ev, load, sweep, sweeps>>
      BY <1>25, <2>4 DEF Daemon!PlanStep, Daemon!PlanUpdated, Daemon!PlanRebuilt,
         Daemon!Planned, Daemon!PlanFails, Daemon!pool
    <3>5. \/ Daemon!StartTurn(s, agents[s])
          \/ daemonProc' = [daemonProc EXCEPT ![s] = "none"] /\ cur' = cur
      BY <1>25, <2>1, <2>4, <3>2 DEF Daemon!PlanStep, Daemon!PlanUpdated, Daemon!PlanRebuilt,
         Daemon!Planned, Daemon!PlanFails, Daemon!To
    <3> QED BY <1>13, <1>14, <3>2, <3>3, <3>4, <3>5
  <2> QED BY <2>1, <2>2, <2>3, <2>4
<1>26. ASSUME NEW s \in Sessions, Daemon!TurnRebuilds(s)
       PROVE  TurnInv'
  BY <1>4, <1>26 DEF Daemon!TurnRebuilds, Daemon!pool
<1>24. CASE UNCHANGED Daemon!vars
  BY <1>4, <1>24 DEF Daemon!runtime, Daemon!vars, Daemon!pool
<1> QED
  BY <1>6, <1>7, <1>8, <1>9, <1>10, <1>11, <1>12, <1>16, <1>17, <1>18, <1>19, <1>20,
     <1>21, <1>22,
     <1>23, <1>24, <1>25, <1>26 DEF Daemon!Next, Daemon!LoadStep, Daemon!ProcStep

-----------------------------------------------------------------------------
(* The processor that waits for another plan stays with the map's entry:   *)
(* nothing else takes it out of the map.                                   *)
LEMMA PlansOwnInit == Daemon!DaemonAgentsAssumption /\ Daemon!Init => PlansOwn
BY DEF Daemon!DaemonAgentsAssumption, Daemon!Init, PlansOwn, Update, Daemon!NoPlan,
       Daemon!Planners

LEMMA PlansOwnStep ==
  ASSUME Daemon!DaemonAgentsAssumption, Daemon!EvictsOwn, PoolInv, TurnInv, PlansOwn,
         [Daemon!Next]_(Daemon!vars)
  PROVE  PlansOwn'
<1>0. /\ PoolTyped /\ OwnEviction /\ LoadsOne /\ RunsOnEntry /\ TurnTyped
  BY DEF PoolInv, Kept, TurnInv
<1>1. /\ \A s \in Sessions : /\ <<"proc", s>> \in Daemon!Planners
                             /\ <<"submit", s>> \in Daemon!Planners
                             /\ \A r : <<"submit", r>> # <<"proc", s>>
      /\ \A s, r : s # r => <<"proc", s>> # <<"proc", r>>
  BY DEF Daemon!Planners
<1>2. ASSUME UNCHANGED plan,
             \A s \in Sessions : daemonProc[s] = "plan" =>
               /\ agents[s] # None => agents'[s] = agents[s] /\ daemonProc'[s] = "plan"
      PROVE  PlansOwn'
  BY <1>2 DEF PlansOwn
<1>3. ASSUME NEW x \in Daemon!Planners, NEW u \in Update, plan' = [plan EXCEPT ![x] = u],
             UNCHANGED agents,
             \A s \in Sessions : x = <<"proc", s>> /\ u.at # "none" =>
               daemonProc'[s] = "plan" /\ u.e = agents[s] /\ agents[s] # None,
             \A s \in Sessions : x # <<"proc", s>> => daemonProc'[s] = daemonProc[s]
      PROVE  PlansOwn'
  <2>1. plan' \in [Daemon!Planners -> Update] /\ plan'[x] = u
        /\ \A y \in Daemon!Planners : y # x => plan'[y] = plan[y]
    BY <1>3 DEF PlansOwn
  <2>2. ASSUME NEW s \in Sessions, plan'[<<"proc", s>>].at # "none"
        PROVE  /\ daemonProc'[s] = "plan" /\ plan'[<<"proc", s>>].e = agents'[s]
               /\ agents'[s] # None
    <3>1. CASE x = <<"proc", s>>
      BY <1>3, <2>1, <2>2, <3>1
    <3>2. CASE x # <<"proc", s>>
      BY <1>1, <1>3, <2>1, <2>2, <3>2 DEF PlansOwn
    <3> QED BY <3>1, <3>2
  <2> QED BY <2>1, <2>2 DEF PlansOwn
<1>4. ASSUME NEW x \in Daemon!Planners, Daemon!BeginPlan(x), agents[x[2]] # None, UNCHANGED agents,
             \A s \in Sessions : x = <<"proc", s>> => daemonProc'[s] = "plan",
             \A s \in Sessions : x # <<"proc", s>> => daemonProc'[s] = daemonProc[s]
      PROVE  PlansOwn'
  <2>1. PICK s \in Sessions : x[2] = s
    BY DEF Daemon!Planners
  <2>2. PICK a \in {"update", "rebuild"} : plan' = [plan EXCEPT ![x] = [e |-> agents[s], at |-> a]]
    BY <1>4, <2>1 DEF Daemon!BeginPlan, Daemon!To
  <2> DEFINE u == [e |-> agents[s], at |-> a]
  <2>3. u \in Update /\ u.e = agents[s]
    BY <1>0 DEF PoolTyped, Update
  <2>4. \A r \in Sessions : x = <<"proc", r>> => r = s
    BY <2>1
  <2> HIDE DEF u
  <2>5. plan' = [plan EXCEPT ![x] = u]
    BY <2>2 DEF u
  <2> QED BY <1>3, <1>4, <2>1, <2>3, <2>4, <2>5
<1>5. ASSUME NEW s \in Sessions, NEW p, daemonProc' = [daemonProc EXCEPT ![s] = p],
             daemonProc[s] # "plan"
      PROVE  \A r \in Sessions : daemonProc[r] = "plan" => daemonProc'[r] = "plan"
  BY <1>0, <1>5 DEF TurnTyped
<1>6. ASSUME NEW x \in Daemon!Evictors, Daemon!EvictStep(x)
      PROVE  PlansOwn'
  <2>1. UNCHANGED <<plan, daemonProc>>
    BY <1>6 DEF Daemon!runtime, Daemon!EvictStep, Daemon!Dispose, Daemon!EndEvict
  <2>2. ASSUME NEW s \in Sessions, daemonProc[s] = "plan"
        PROVE  agents'[s] = agents[s]
    <3>1. CASE Daemon!Dispose(x)
      BY <3>1 DEF Daemon!Dispose
    <3>2. CASE Daemon!EndEvict(x)
      <4>1. agents' = [agents EXCEPT ![ev[x].s] = None] /\ ev[x].at # "none"
        BY <3>2 DEF Daemon!EndEvict, Daemon!To
      <4>2. PICK r \in Sessions : x = <<"proc", r>>
        <5>1. \/ \E r \in Sessions : x = <<"proc", r>> \/ x = <<"load", r>> \/ x = <<"sweep", r>>
              \/ \E m \in Ops : x = <<"maint", m>>
          BY DEF Daemon!Evictors
        <5>2. ASSUME NEW r \in Sessions
              PROVE  x # <<"load", r>> /\ x # <<"sweep", r>>
          <6>1. ev[<<"load", r>>].at = "none" /\ ev[<<"sweep", r>>].at = "none"
            BY <1>0 DEF OwnEviction
          <6> QED BY <4>1, <6>1
        <5>3. ASSUME NEW m \in Ops
              PROVE  x # <<"maint", m>>
          BY <1>0, <4>1 DEF OwnEviction
        <5> QED BY <5>1, <5>2, <5>3
      <4>3. ev[x].s = r /\ daemonProc[r] # "plan"
        BY <1>0, <4>1, <4>2 DEF OwnEviction
      <4> QED BY <1>0, <2>2, <4>1, <4>3 DEF PoolTyped
    <3> QED BY <1>6, <3>1, <3>2 DEF Daemon!EvictStep
  <2> QED BY <1>2, <2>1, <2>2
<1>7. ASSUME NEW s \in Sessions, Daemon!LoadStep(s) \/ Daemon!LoadFails(s)
      PROVE  PlansOwn'
  <2>1. CASE Daemon!Capacity(s) \/ Daemon!CapacityMade(s) \/ Daemon!TakeLock(s)
    BY <1>2, <2>1 DEF Daemon!runtime, Daemon!Capacity, Daemon!CapacityMade, Daemon!TakeLock,
       Daemon!pool
  <2>2. CASE Daemon!Loaded(s)
    <3>1. /\ load[s] # "none" /\ plan' = plan /\ agents' = [agents EXCEPT ![s] = lock[s]]
          /\ \/ daemonProc' = [daemonProc EXCEPT ![s] = "run"]
             \/ daemonProc' = [daemonProc EXCEPT ![s] = IF @ = "load" THEN "none" ELSE @]
      BY <2>2 DEF Daemon!runtime, Daemon!Loaded, Daemon!Booting, Daemon!StartTurn, Daemon!To
    <3>2. agents[s] = None
      BY <1>0, <3>1 DEF LoadsOne
    <3> QED BY <1>0, <1>2, <3>1, <3>2 DEF PoolTyped, TurnTyped
  <2>3. CASE Daemon!LoadFails(s)
    <3>1. UNCHANGED <<plan, agents>>
          /\ daemonProc' = [daemonProc EXCEPT ![s] = IF @ = "load" THEN "none" ELSE @]
      BY <2>3 DEF Daemon!LoadFails
    <3> QED BY <1>0, <1>2, <3>1 DEF TurnTyped
  <2> QED BY <1>7, <2>1, <2>2, <2>3 DEF Daemon!LoadStep
<1>8. ASSUME NEW s \in Sessions, Daemon!SubmitTurn(s)
      PROVE  PlansOwn'
  <2>1. /\ agents' = agents /\ daemonProc' = daemonProc
        /\ \/ plan' = plan
           \/ agents[s] # None /\ Daemon!BeginPlan(<<"submit", s>>)
    BY <1>8 DEF Daemon!SubmitTurn
  <2>2. CASE plan' = plan
    BY <1>2, <2>1, <2>2
  <2>3. CASE agents[s] # None /\ Daemon!BeginPlan(<<"submit", s>>)
    <3>1. <<"submit", s>> \in Daemon!Planners /\ <<"submit", s>>[2] = s
          /\ \A r \in Sessions : <<"submit", s>> # <<"proc", r>>
      BY <1>1
    <3> QED BY <1>4, <2>1, <2>3, <3>1
  <2> QED BY <2>1, <2>2, <2>3
<1>9. ASSUME NEW s \in Sessions, Daemon!ProcStep(s)
      PROVE  PlansOwn'
  <2>1. CASE Daemon!Process(s)
    <3>1. daemonProc[s] = "none" /\ agents' = agents
      BY <2>1 DEF Daemon!Process, Daemon!MayProcess
    <3>2. \/ plan' = plan /\ \E p : daemonProc' = [daemonProc EXCEPT ![s] = p]
          \/ /\ agents[s] # None /\ Daemon!BeginPlan(<<"proc", s>>)
             /\ daemonProc' = [daemonProc EXCEPT ![s] = "plan"]
      BY <2>1 DEF Daemon!Process, Daemon!StartTurn, Daemon!To
    <3>3. CASE plan' = plan /\ \E p : daemonProc' = [daemonProc EXCEPT ![s] = p]
      BY <1>2, <1>5, <3>1, <3>3
    <3>4. CASE /\ agents[s] # None /\ Daemon!BeginPlan(<<"proc", s>>)
               /\ daemonProc' = [daemonProc EXCEPT ![s] = "plan"]
      <4>1. <<"proc", s>> \in Daemon!Planners /\ <<"proc", s>>[2] = s
        BY <1>1
      <4>2. daemonProc'[s] = "plan" /\ \A r \in Sessions : r # s => daemonProc'[r] = daemonProc[r]
        BY <1>0, <3>4 DEF TurnTyped
      <4> QED BY <1>1, <1>4, <3>1, <3>4, <4>1, <4>2
    <3> QED BY <3>2, <3>3, <3>4
  <2>2. CASE Daemon!ProcessSkipped(s)
    BY <1>2, <2>2 DEF Daemon!runtime, Daemon!ProcessSkipped, Daemon!pool
  <2>3. CASE Daemon!ProcessEvicted(s) \/ Daemon!TurnEnds(s) \/ Daemon!Drained(s)
    <3>1. daemonProc[s] # "plan" /\ UNCHANGED <<plan, agents>>
          /\ \E p : daemonProc' = [daemonProc EXCEPT ![s] = p]
      BY <2>3 DEF Daemon!runtime, Daemon!ProcessEvicted, Daemon!TurnEnds, Daemon!Drained,
         Daemon!StartTurn, Daemon!To, Daemon!pool
    <3> QED BY <1>2, <1>5, <3>1
  <2> QED BY <1>9, <2>1, <2>2, <2>3 DEF Daemon!ProcStep
<1>10. ASSUME NEW x \in Daemon!Planners, Daemon!PlanStep(x)
       PROVE  PlansOwn'
  <2>1. PICK s \in Sessions : s = x[2] /\ (x = <<"submit", s>> \/ x = <<"proc", s>>)
    BY DEF Daemon!Planners
  <2>2. CASE Daemon!PlanDispose(x)
    <3> DEFINE u == [plan[x] EXCEPT !.at = "rebuild"]
    <3>1. u \in Update /\ u.e = plan[x].e /\ plan[x].at # "none"
      BY <2>2 DEF PlansOwn, Update, Daemon!PlanDispose
    <3>2. plan' = [plan EXCEPT ![x] = u] /\ UNCHANGED <<agents, daemonProc>>
      BY <2>2 DEF Daemon!PlanDispose, Daemon!To
    <3> HIDE DEF u
    <3>3. \A r \in Sessions : x = <<"proc", r>> => daemonProc[r] = "plan" /\ u.e = agents[r]
             /\ agents[r] # None
      BY <3>1 DEF PlansOwn
    <3> QED BY <1>3, <3>1, <3>2, <3>3
  <2>3. CASE ~Daemon!PlanDispose(x)
    <3>1. Daemon!NoPlan \in Update /\ Daemon!NoPlan.at = "none"
      BY DEF Update, Daemon!NoPlan
    <3>2. plan' = [plan EXCEPT ![x] = Daemon!NoPlan] /\ agents' = agents
      BY <1>10, <2>3 DEF Daemon!PlanStep, Daemon!PlanUpdated, Daemon!PlanRebuilt,
         Daemon!Planned, Daemon!PlanFails, Daemon!To, Daemon!pool
    <3>3. \/ x = <<"submit", s>> /\ daemonProc' = daemonProc
          \/ x = <<"proc", s>> /\ \E p : daemonProc' = [daemonProc EXCEPT ![s] = p]
      BY <1>10, <2>1, <2>3 DEF Daemon!PlanStep, Daemon!PlanUpdated, Daemon!PlanRebuilt,
         Daemon!Planned, Daemon!PlanFails, Daemon!StartTurn, Daemon!To
    <3>4. \A r \in Sessions : x # <<"proc", r>> => daemonProc'[r] = daemonProc[r]
      BY <1>0, <3>3 DEF TurnTyped
    <3> QED BY <1>3, <3>1, <3>2, <3>4
  <2> QED BY <2>2, <2>3
<1>11. ASSUME \/ Daemon!Sweep
              \/ \E s \in Sessions : Daemon!SweepOne(s) \/ Daemon!TurnRebuilds(s)
              \/ \E m \in Ops : \/ Daemon!MaintStep(m)
                               \/ \E s \in Sessions, k \in Kinds : Daemon!MaintBegin(m, s, k)
              \/ UNCHANGED Daemon!vars
       PROVE  PlansOwn'
  <2>1. UNCHANGED <<plan, agents, daemonProc>>
    BY <1>11 DEF Daemon!runtime, Daemon!Sweep, Daemon!SweepOne, Daemon!TurnRebuilds,
       Daemon!MaintStep, Daemon!MaintDrained, Daemon!MaintFlushed, Daemon!MaintEvicted,
       Daemon!MaintAction, Daemon!MaintEnd, Daemon!MaintBegin, Daemon!vars, Daemon!pool
  <2> QED BY <1>2, <2>1
<1> QED
  BY <1>6, <1>7, <1>8, <1>9, <1>10, <1>11 DEF Daemon!Next

-----------------------------------------------------------------------------
(* The agent of an entry that is in memory has the lock of its session, so *)
(* that two of one session are never in memory (evictAgent disposes before *)
(* it releases); and where only the session's own processor evicts, a turn *)
(* runs on the entry the daemon's map has for the session, which has the   *)
(* lock and whose agent is in memory unless the runtime has disposed of it *)
(* itself (processSessionQueue).                                           *)
THEOREM DaemonHasOneAgent == Daemon!DaemonAgentsAssumption => (Daemon!Spec => []Daemon!OneAgent)
<1> SUFFICES ASSUME Daemon!DaemonAgentsAssumption
             PROVE  Daemon!Spec => []Daemon!OneAgent
  OBVIOUS
<1> DEFINE IInv == PoolInv /\ (Daemon!EvictsOwn => TurnInv /\ PlansOwn)
<1>1. Daemon!Init => IInv
  BY LockInvInit, TurnInvInit, PlansOwnInit
<1>2. IInv /\ [Daemon!Next]_(Daemon!vars) => IInv'
  BY LockInvStep, TurnInvStep, PlansOwnStep DEF Daemon!EvictsOwn
<1>3. IInv => Daemon!OneAgent
  BY TurnInvGivesAgent DEF Daemon!OneAgent, PoolInv, Kept
<1> QED BY <1>1, <1>2, <1>3, PTL DEF Daemon!Spec

(* Calls are numbered; a process is made by its call and is signalled only *)
(* once it is there.                                                       *)
Numbered ==
  /\ \A i \in Tunnel!Spawns : spawned < i => call[i] = "none"
  /\ \A i \in Tunnel!Spawns : call[i] \in {"none", "docker"} => tunnelProc[i] = "none"
  /\ \A i \in Tunnel!Spawns : tunnelProc[i] = "none" => signal[i] = "none"
  /\ state = "idle" => spawned = 0

(* Before a call of spawnProcess has its process, no other process is      *)
(* left, no timer is set and the host has no process.                      *)
OneCall ==
  \A i \in Tunnel!Spawns : call[i] = "docker" =>
    /\ i = spawned /\ ~timer /\ exec = 0
    /\ \A k \in Tunnel!Spawns : tunnelProc[k] \in {"none", "reported"}

(* A process whose end was not reported is the last one made, and the one  *)
(* of the host unless it was told to end.                                  *)
OneProcess ==
  \A i \in Tunnel!Spawns : tunnelProc[i] \in {"running", "ended"} =>
    i = spawned /\ (signal[i] = "none" => exec = i)

(* The process of the host, and what it is asked.                          *)
ExecKnown ==
  /\ exec # 0 => tunnelProc[exec] # "none" /\ signal[exec] = "none" /\ exec = spawned /\ ~timer
  /\ timer => ~Tunnel!IsTerminated /\ exec = 0 /\ spawned # 0
  /\ \A i \in pings : exec = i /\ ~Tunnel!IsTerminated /\ state # "connected" /\ call[i] = "ping"
  /\ tunnelClosing # "none" => Tunnel!IsTerminated
  /\ tunnelClosing = "term" => last # 0 /\ signal[last] # "none"

HostInv == Numbered /\ OneCall /\ OneProcess /\ ExecKnown /\ Tunnel!ConnectedMeansExec

(* Numbers of calls, and 0 for none.                                       *)
LEMMA SpawnNumbers ==
  ASSUME Tunnel!TunnelHostAssumption
  PROVE  /\ \A i \in 0..MaxSpawns : i # 0 => i \in Tunnel!Spawns
         /\ \A i \in Tunnel!Spawns : i \in 0..MaxSpawns /\ i # 0
BY DEF Tunnel!TunnelHostAssumption, Tunnel!Spawns

(* The type invariant without the timer.                                   *)
HostTyped ==
      /\ state \in {"idle", "starting", "connected", "reconnecting",
                    "stopping", "stopped", "disconnected"}
      /\ attempts \in 0..MaxRetries
      /\ exec \in 0..MaxSpawns /\ active \in 0..MaxSpawns
      /\ pings \in SUBSET Tunnel!Spawns /\ streams \in SUBSET Tunnel!Spawns
      /\ start \in {"none", "waiting", "returned", "rejected"}
      /\ tunnelClosing \in {"none", "await", "teardown", "term", "done"}
      /\ last \in 0..MaxSpawns
      /\ call \in [Tunnel!Spawns -> {"none", "docker", "ping", "done"}]
      /\ tunnelProc \in [Tunnel!Spawns -> {"none", "running", "ended", "reported"}]
      /\ signal \in [Tunnel!Spawns -> {"none", "TERM", "KILL"}]
      /\ spawned \in 0..MaxSpawns /\ tunnelFaults \in 0..MaxBreaks

LEMMA TypedInit == Tunnel!TunnelHostAssumption /\ Tunnel!Init => HostTyped /\ timer \in BOOLEAN
<1> SUFFICES ASSUME Tunnel!TunnelHostAssumption, Tunnel!Init
             PROVE  HostTyped /\ timer \in BOOLEAN
  OBVIOUS
<1>1. timer \in BOOLEAN
  BY DEF Tunnel!Init
<1>2. HostTyped
  BY DEF Tunnel!TunnelHostAssumption, Tunnel!Init, HostTyped
<1> QED BY <1>1, <1>2

(* The timer is set, cleared or left.                                      *)
LEMMA TimerStep == timer \in BOOLEAN /\ [Tunnel!Next]_(Tunnel!vars) => timer' \in BOOLEAN
<1> SUFFICES ASSUME timer \in BOOLEAN, [Tunnel!Next]_(Tunnel!vars)
             PROVE  timer' \in BOOLEAN
  OBVIOUS
<1>1. Tunnel!Reconnect => timer' = timer \/ timer' = TRUE
  BY Zenon DEF Tunnel!Reconnect, Tunnel!ScheduleReconnect
<1>2. CASE Tunnel!Start \/ Tunnel!TimerFires \/ Tunnel!Open \/ Tunnel!Close \/ Tunnel!CloseAwaited
           \/ Tunnel!Teardown \/ Tunnel!CloseEnds
  BY <1>2, Zenon DEF Tunnel!Start, Tunnel!TimerFires, Tunnel!Open, Tunnel!Close,
     Tunnel!CloseAwaited, Tunnel!Teardown, Tunnel!CloseEnds, Tunnel!host
<1>3. ASSUME NEW i \in Tunnel!Spawns, Tunnel!Step(i)
      PROVE  timer' \in BOOLEAN
  <2>1. CASE Tunnel!SpawnFails(i)
    BY <1>1, <2>1, Zenon DEF Tunnel!SpawnFails, Tunnel!HandleProcessFailure
  <2>2. CASE Tunnel!Spawned(i) \/ Tunnel!Pong(i) \/ Tunnel!Ends(i)
    BY <2>2, Zenon DEF Tunnel!Spawned, Tunnel!Pong, Tunnel!Ends, Tunnel!host
  <2>3. CASE Tunnel!PingFails(i) \/ Tunnel!ExitReported(i) \/ Tunnel!DecoderError(i)
    BY <1>1, <2>3, Zenon
       DEF Tunnel!PingFails, Tunnel!ExitReported, Tunnel!DecoderError,
           Tunnel!HandleProcessExit, Tunnel!HandleProcessFailure
  <2> QED BY <1>3, <2>1, <2>2, <2>3 DEF Tunnel!Step
<1>4. CASE UNCHANGED Tunnel!vars
  BY <1>4 DEF Tunnel!vars
<1> QED BY <1>2, <1>3, <1>4 DEF Tunnel!Next

LEMMA TypedStep ==
  ASSUME Tunnel!TunnelHostAssumption, HostTyped, [Tunnel!Next]_(Tunnel!vars)
  PROVE  HostTyped'
<1>0. MaxSpawns \in Nat /\ MaxBreaks \in Nat /\ MaxRetries \in Nat
  BY DEF Tunnel!TunnelHostAssumption
<1>1. Tunnel!Reconnect => /\ state' \in {"reconnecting", "disconnected", state}
                          /\ attempts' \in 0..MaxRetries
  BY <1>0 DEF Tunnel!Reconnect, Tunnel!ScheduleReconnect, HostTyped
<1>2. ASSUME NEW i \in Tunnel!Spawns, NEW g \in {"TERM", "KILL"}, Tunnel!Kill(i, g)
      PROVE  signal' \in [Tunnel!Spawns -> {"none", "TERM", "KILL"}]
  BY <1>2 DEF Tunnel!Kill, HostTyped
<1>3. Tunnel!HandleProcessFailure => /\ signal' \in [Tunnel!Spawns -> {"none", "TERM", "KILL"}]
                                        /\ Tunnel!Reconnect
                                     /\ exec' = 0 /\ pings' = {} /\ streams' = {}
  BY <1>0 DEF Tunnel!HandleProcessFailure, Tunnel!Kill, Tunnel!NoKill, HostTyped
<1>4. ASSUME NEW i \in Tunnel!Spawns, Tunnel!CallReturns(i) \/ Tunnel!CallThrows(i)
      PROVE  /\ call' \in [Tunnel!Spawns -> {"none", "docker", "ping", "done"}]
             /\ active' \in 0..MaxSpawns
             /\ start' \in {"none", "waiting", "returned", "rejected"}
  BY <1>0, <1>4 DEF Tunnel!CallReturns, Tunnel!CallThrows, HostTyped
<1>5. Tunnel!Fault => tunnelFaults' \in 0..MaxBreaks
  BY <1>0 DEF Tunnel!Fault, HostTyped
<1>6. CASE Tunnel!Start \/ Tunnel!TimerFires
  <2>1. /\ spawned' = spawned + 1 /\ active' = spawned + 1 /\ spawned < MaxSpawns
        /\ state' \in {"starting", state} /\ start' \in {"waiting", start}
        /\ call' = [call EXCEPT ![spawned + 1] = "docker"]
        /\ UNCHANGED <<attempts, exec, pings, streams, tunnelClosing, last, tunnelProc, signal,
            tunnelFaults>>
    BY <1>6 DEF Tunnel!Start, Tunnel!TimerFires
  <2>2. spawned + 1 \in 0..MaxSpawns
    BY <1>0, <2>1 DEF HostTyped
  <2> QED BY <2>1, <2>2 DEF HostTyped
<1>7. CASE Tunnel!Open \/ Tunnel!Close \/ Tunnel!CloseAwaited
  <2>1. CASE Tunnel!Open
    BY <2>1, SpawnNumbers DEF Tunnel!Open, HostTyped
  <2>2. CASE Tunnel!Close
    BY <2>2 DEF Tunnel!Close, HostTyped
  <2>3. CASE Tunnel!CloseAwaited
    BY <2>3 DEF Tunnel!CloseAwaited, Tunnel!host, Tunnel!os, HostTyped
  <2> QED BY <1>7, <2>1, <2>2, <2>3
<1>8. CASE Tunnel!Teardown
  BY <1>0, <1>8 DEF Tunnel!Teardown, Tunnel!Kill, Tunnel!NoKill, HostTyped
<1>9. CASE Tunnel!CloseEnds
  BY <1>0, <1>9 DEF Tunnel!CloseEnds, Tunnel!Kill, Tunnel!NoKill, HostTyped
<1>10. ASSUME NEW i \in Tunnel!Spawns, Tunnel!SpawnFails(i)
       PROVE  HostTyped'
  <2>1. /\ call' \in [Tunnel!Spawns -> {"none", "docker", "ping", "done"}]
        /\ active' \in 0..MaxSpawns /\ start' \in {"none", "waiting", "returned", "rejected"}
        /\ tunnelFaults' \in 0..MaxBreaks /\ UNCHANGED <<tunnelClosing, last, tunnelProc, spawned>>
    BY <1>4, <1>5, <1>10 DEF Tunnel!SpawnFails
  <2>2. CASE Tunnel!HandleProcessFailure
    BY <1>0, <1>1, <1>3, <2>1, <2>2 DEF HostTyped
  <2>3. CASE ~Tunnel!HandleProcessFailure
    <3>1. state' \in {"disconnected", state} /\ UNCHANGED <<attempts, exec, pings, streams, signal>>
      BY <1>10, <2>3 DEF Tunnel!SpawnFails
    <3> QED BY <2>1, <3>1 DEF HostTyped
  <2> QED BY <2>2, <2>3
<1>11. ASSUME NEW i \in Tunnel!Spawns, Tunnel!Spawned(i)
       PROVE  HostTyped'
  <2>1. /\ tunnelProc' \in [Tunnel!Spawns -> {"none", "running", "ended", "reported"}]
        /\ UNCHANGED <<state, attempts, streams, tunnelClosing, last, spawned, tunnelFaults>>
    BY <1>11 DEF Tunnel!Spawned, HostTyped
  <2>2. CASE Tunnel!CallReturns(i) /\ Tunnel!Kill(i, "KILL") /\ UNCHANGED <<exec, pings>>
    BY <1>2, <1>4, <2>1, <2>2 DEF HostTyped
  <2>3. CASE /\ exec' = i /\ pings' = pings \cup {i} /\ call' = [call EXCEPT ![i] = "ping"]
             /\ UNCHANGED <<active, start, signal>>
    BY <2>1, <2>3, SpawnNumbers DEF HostTyped
  <2> QED BY <1>11, <2>2, <2>3 DEF Tunnel!Spawned
<1>12. ASSUME NEW i \in Tunnel!Spawns, Tunnel!Pong(i)
       PROVE  HostTyped'
  BY <1>0, <1>4, <1>12 DEF Tunnel!Pong, HostTyped
<1>13. ASSUME NEW i \in Tunnel!Spawns, Tunnel!PingFails(i)
       PROVE  HostTyped'
  BY <1>0, <1>1, <1>2, <1>4, <1>5, <1>13 DEF Tunnel!PingFails, HostTyped
<1>14. ASSUME NEW i \in Tunnel!Spawns, Tunnel!Ends(i)
       PROVE  HostTyped'
  BY <1>5, <1>14 DEF Tunnel!Ends, Tunnel!host, HostTyped
<1>15. ASSUME NEW i \in Tunnel!Spawns, Tunnel!ExitReported(i)
       PROVE  HostTyped'
  BY <1>0, <1>1, <1>15 DEF Tunnel!ExitReported, Tunnel!HandleProcessExit, Tunnel!NoKill,
     HostTyped
<1>16. ASSUME NEW i \in Tunnel!Spawns, Tunnel!DecoderError(i)
       PROVE  HostTyped'
  BY <1>0, <1>1, <1>3, <1>5, <1>16 DEF Tunnel!DecoderError, HostTyped
<1>17. CASE UNCHANGED Tunnel!vars
  BY <1>17 DEF Tunnel!vars, HostTyped
<1> QED
  BY <1>6, <1>7, <1>8, <1>9, <1>10, <1>11, <1>12, <1>13, <1>14, <1>15, <1>16, <1>17
  DEF Tunnel!Next, Tunnel!Step

-----------------------------------------------------------------------------
LEMMA HostInvInit == Tunnel!TunnelHostAssumption /\ Tunnel!Init => HostInv
<1> SUFFICES ASSUME Tunnel!TunnelHostAssumption, Tunnel!Init
             PROVE  HostInv
  OBVIOUS
<1>1. \A i \in Tunnel!Spawns : call[i] = "none" /\ tunnelProc[i] = "none" /\ signal[i] = "none"
  BY DEF Tunnel!Init
<1> QED
  BY <1>1 DEF Tunnel!Init, HostInv, Numbered, OneCall, OneProcess, ExecKnown,
     Tunnel!ConnectedMeansExec,
              Tunnel!IsTerminated

(* The host goes on without a process: what it had was told to end, or its *)
(* end was reported.                                                       *)
LEMMA GivesUp ==
  ASSUME Tunnel!TunnelHostAssumption, HostTyped, HostInv, HostTyped',
         Tunnel!Reconnect, exec' = 0, pings' = {}, ~Tunnel!IsTerminated,
         spawned # 0, UNCHANGED <<tunnelClosing, last, spawned>>,
         \A i \in Tunnel!Spawns : call'[i] = call[i] \/ call'[i] = "done",
         \A i \in Tunnel!Spawns : call[i] = "none" => call'[i] = "none",
         \A i \in Tunnel!Spawns : call'[i] # "docker",
         \A i \in Tunnel!Spawns : tunnelProc'[i] = tunnelProc[i]
             \/ (tunnelProc[i] = "ended" /\ tunnelProc'[i] = "reported"),
         \A i \in Tunnel!Spawns : signal'[i] = signal[i]
             \/ (signal[i] = "none" /\ tunnelProc[i] # "none"),
         \A i \in Tunnel!Spawns : tunnelProc'[i] \in {"running", "ended"} => signal'[i] # "none"
  PROVE  HostInv'
<1>1. /\ state' # "idle" /\ ~Tunnel!IsTerminated' /\ (state' = "connected" => exec # 0 /\ timer)
  BY DEF Tunnel!Reconnect, Tunnel!ScheduleReconnect, HostInv, Tunnel!ConnectedMeansExec,
     Numbered, Tunnel!IsTerminated
<1>2. state' # "connected"
  BY <1>1 DEF HostInv, ExecKnown
<1>3. Numbered'
  BY <1>1 DEF HostInv, Numbered
<1>4. OneCall' /\ OneProcess'
  BY DEF HostInv, OneCall, OneProcess
<1>5. ExecKnown'
  BY <1>1 DEF HostInv, ExecKnown
<1> QED BY <1>2, <1>3, <1>4, <1>5 DEF HostInv, Tunnel!ConnectedMeansExec

LEMMA HostInvStep ==
  ASSUME Tunnel!TunnelHostAssumption, PromptExit, HostTyped, HostInv, [Tunnel!Next]_(Tunnel!vars)
  PROVE  HostInv'
<1>0. /\ Numbered /\ OneCall /\ OneProcess /\ ExecKnown /\ Tunnel!ConnectedMeansExec /\ HostTyped'
      /\ spawned \in 0..MaxSpawns /\ MaxSpawns \in Nat
  BY TypedStep DEF HostInv, HostTyped, Tunnel!TunnelHostAssumption
<1>1. CASE Tunnel!Start \/ Tunnel!TimerFires
  <2> DEFINE n == spawned + 1
  <2>1. /\ spawned' = n /\ spawned < MaxSpawns /\ call' = [call EXCEPT ![n] = "docker"]
        /\ UNCHANGED <<exec, pings, tunnelClosing, last, tunnelProc, signal>>
    BY <1>1 DEF Tunnel!Start, Tunnel!TimerFires
  <2>2. n \in Tunnel!Spawns /\ n # spawned /\ spawned < n
    BY <1>0, <2>1 DEF Tunnel!Spawns
  <2>3. /\ exec = 0 /\ ~timer'
        /\ \A k \in Tunnel!Spawns : tunnelProc[k] \in {"none", "reported"}
        /\ \A k \in Tunnel!Spawns : call[k] # "docker"
    <3>1. CASE Tunnel!Start
      <4>1. spawned = 0 /\ \A k \in Tunnel!Spawns : spawned < k
        BY <1>0, <3>1 DEF Tunnel!Start, Numbered, Tunnel!Spawns
      <4> QED BY <1>0, <3>1, <4>1, SpawnNumbers DEF Tunnel!Start, Numbered, ExecKnown,
                 HostTyped
    <3>2. CASE Tunnel!TimerFires
      <4>1. exec = 0 /\ Tunnel!Ending = {} /\ timer /\ ~timer'
        BY <1>0, <3>2 DEF Tunnel!TimerFires, ExecKnown
      <4>2. \A k \in Tunnel!Spawns : tunnelProc[k] \in {"none", "reported"}
        BY <1>0, <4>1, SpawnNumbers DEF Tunnel!Ending, OneProcess, HostTyped
      <4> QED BY <1>0, <4>1, <4>2 DEF OneCall
    <3> QED BY <1>1, <3>1, <3>2
  <2>4. /\ state' = state \/ (state = "idle" /\ state' = "starting")
        /\ state' # "idle"
    BY <1>0, <1>1 DEF Tunnel!Start, Tunnel!TimerFires, ExecKnown, Numbered
  <2>5. tunnelProc[n] = "none"
    BY <1>0, <2>2 DEF Numbered
  <2> HIDE DEF n
  <2>6. call'[n] = "docker" /\ \A k \in Tunnel!Spawns : k # n => call'[k] = call[k]
    BY <2>1, <2>2 DEF HostTyped
  <2>7. \A k \in Tunnel!Spawns : n < k => spawned < k /\ k # n
    BY <1>0, <2>2 DEF n, Tunnel!Spawns
  <2>8. Numbered'
    BY <1>0, <2>1, <2>4, <2>5, <2>6, <2>7 DEF Numbered
  <2>9. OneCall' /\ OneProcess'
    BY <2>1, <2>3, <2>6 DEF OneCall, OneProcess
  <2>10. ExecKnown'
    <3>1. pings = {}
      BY <1>0, <2>3, SpawnNumbers DEF ExecKnown, HostTyped
    <3> QED BY <1>0, <2>1, <2>3, <2>4, <3>1 DEF ExecKnown, Tunnel!IsTerminated
  <2>11. Tunnel!ConnectedMeansExec'
    BY <1>0, <2>1, <2>4 DEF Tunnel!ConnectedMeansExec
  <2> QED BY <2>8, <2>9, <2>10, <2>11 DEF HostInv
<1>2. CASE Tunnel!Open
  BY <1>0, <1>2 DEF Tunnel!Open, HostInv, Numbered, OneCall, OneProcess, ExecKnown,
     Tunnel!ConnectedMeansExec,
                    Tunnel!IsTerminated
<1>3. CASE Tunnel!Close
  <2>1. /\ state' = "stopping" /\ ~timer' /\ pings' = {} /\ tunnelClosing' # "term"
        /\ UNCHANGED <<exec, call, tunnelProc, signal, spawned>>
    BY <1>3 DEF Tunnel!Close
  <2> QED
    BY <1>0, <2>1 DEF HostInv, Numbered, OneCall, OneProcess, ExecKnown,
       Tunnel!ConnectedMeansExec,
                      Tunnel!IsTerminated
<1>4. CASE Tunnel!CloseAwaited
  BY <1>0, <1>4 DEF Tunnel!CloseAwaited, Tunnel!host, Tunnel!os, HostInv, Numbered,
     OneCall, OneProcess, ExecKnown,
                    Tunnel!ConnectedMeansExec, Tunnel!IsTerminated
<1>5. CASE Tunnel!Teardown
  <2>1. /\ Tunnel!IsTerminated /\ state # "idle" /\ ~timer /\ pings = {}
           /\ tunnelClosing = "teardown"
    BY <1>0, <1>5 DEF Tunnel!Teardown, ExecKnown, Tunnel!IsTerminated, HostTyped
  <2>2. /\ exec' = 0 /\ last' = exec /\ state' \in {state, "stopped"}
        /\ tunnelClosing' \in {"term", "done"}
        /\ tunnelClosing' = "term" => exec # 0
        /\ UNCHANGED <<timer, pings, call, tunnelProc, spawned>>
    BY <1>5 DEF Tunnel!Teardown
  <2>3. /\ \A i \in Tunnel!Spawns : i # exec => signal'[i] = signal[i]
        /\ exec # 0 => signal'[exec] # "none" /\ tunnelProc[exec] # "none" /\ exec \in Tunnel!Spawns
    BY <1>0, <1>5, SpawnNumbers DEF Tunnel!Teardown, Tunnel!Kill, Tunnel!NoKill,
       HostTyped, ExecKnown
  <2>4. state' \in {"stopping", "stopped"}
    BY <2>1, <2>2 DEF Tunnel!IsTerminated
  <2>5. Numbered'
    BY <1>0, <2>2, <2>3, <2>4, SpawnNumbers DEF Numbered
  <2>6. OneCall' /\ OneProcess'
    BY <1>0, <2>2, <2>3, SpawnNumbers DEF OneCall, OneProcess
  <2>7. ExecKnown'
    BY <2>1, <2>2, <2>3, <2>4 DEF ExecKnown, Tunnel!IsTerminated
  <2> QED BY <2>4, <2>5, <2>6, <2>7 DEF HostInv, Tunnel!ConnectedMeansExec
<1>6. CASE Tunnel!CloseEnds
  <2>1. /\ Tunnel!IsTerminated /\ ~timer /\ pings = {} /\ signal[last] # "none" /\ last # 0
    BY <1>0, <1>6 DEF Tunnel!CloseEnds, ExecKnown, Tunnel!IsTerminated, HostTyped
  <2>2. signal' = signal
    BY <1>6, <2>1 DEF Tunnel!CloseEnds, Tunnel!Kill, Tunnel!NoKill, HostTyped
  <2>3. /\ state' = "stopped" /\ tunnelClosing' = "done"
        /\ UNCHANGED <<timer, exec, pings, call, tunnelProc, spawned>>
    BY <1>6 DEF Tunnel!CloseEnds
  <2> QED
    BY <1>0, <2>1, <2>2, <2>3 DEF HostInv, Numbered, OneCall, OneProcess, ExecKnown,
                                  Tunnel!ConnectedMeansExec, Tunnel!IsTerminated
<1>7. ASSUME NEW i \in Tunnel!Spawns, Tunnel!SpawnFails(i)
      PROVE  HostInv'
  <2>1. /\ call[i] = "docker" /\ call' = [call EXCEPT ![i] = "done"]
        /\ UNCHANGED <<tunnelClosing, last, tunnelProc, spawned>>
        /\ i = spawned /\ ~timer /\ exec = 0
        /\ \A k \in Tunnel!Spawns : tunnelProc[k] \in {"none", "reported"}
    BY <1>0, <1>7 DEF Tunnel!SpawnFails, Tunnel!CallReturns, Tunnel!CallThrows, OneCall
  <2>2. call'[i] = "done" /\ \A k \in Tunnel!Spawns \ {i} : call'[k] = call[k] /\ call[k] # "docker"
    BY <1>0, <2>1 DEF HostTyped, OneCall
  <2>3. pings = {}
    BY <1>0, <2>1, SpawnNumbers DEF ExecKnown, HostTyped
  <2>4. CASE Tunnel!HandleProcessFailure /\ ~Tunnel!IsTerminated
    <3>1. signal' = signal
      BY <2>1, <2>4 DEF Tunnel!HandleProcessFailure, Tunnel!NoKill
    <3> QED BY <1>0, <2>1, <2>2, <2>4, <3>1, GivesUp, SpawnNumbers
            DEF Tunnel!HandleProcessFailure
  <2>5. CASE /\ state' = state \/ (state = "starting" /\ state' = "disconnected")
             /\ UNCHANGED <<timer, exec, pings, signal>>
    <3>1. Numbered'
      BY <1>0, <2>1, <2>2, <2>5 DEF Numbered
    <3>2. OneCall' /\ OneProcess'
      BY <2>1, <2>2 DEF OneCall, OneProcess
    <3>3. ExecKnown'
      BY <1>0, <2>1, <2>3, <2>5 DEF ExecKnown, Tunnel!IsTerminated
    <3>4. Tunnel!ConnectedMeansExec'
      BY <1>0, <2>5 DEF Tunnel!ConnectedMeansExec
    <3> QED BY <3>1, <3>2, <3>3, <3>4 DEF HostInv
  <2> QED BY <1>7, <2>4, <2>5 DEF Tunnel!SpawnFails
<1>8. ASSUME NEW i \in Tunnel!Spawns, Tunnel!Spawned(i)
      PROVE  HostInv'
  <2>1. /\ call[i] = "docker" /\ tunnelProc' = [tunnelProc EXCEPT ![i] = "running"]
        /\ UNCHANGED <<state, timer, tunnelClosing, last, spawned>>
        /\ i = spawned /\ ~timer /\ exec = 0 /\ i # 0
        /\ tunnelProc[i] = "none" /\ signal[i] = "none"
        /\ \A k \in Tunnel!Spawns : tunnelProc[k] \in {"none", "reported"}
    BY <1>0, <1>8, SpawnNumbers DEF Tunnel!Spawned, OneCall, Numbered
  <2>2. /\ pings = {} /\ state # "connected" /\ state # "idle"
    BY <1>0, <2>1, SpawnNumbers DEF ExecKnown, HostTyped, Tunnel!ConnectedMeansExec,
       Numbered
  <2>3. tunnelProc'[i] = "running" /\ \A k \in Tunnel!Spawns \ {i} : tunnelProc'[k] = tunnelProc[k] /\ call[k] # "docker"
    BY <1>0, <2>1 DEF HostTyped, OneCall
  <2>4. PICK c \in {"ping", "done"} : call' = [call EXCEPT ![i] = c]
    BY <1>8 DEF Tunnel!Spawned, Tunnel!CallReturns
  <2>5. call'[i] = c /\ \A k \in Tunnel!Spawns \ {i} : call'[k] = call[k]
    BY <2>4 DEF HostTyped
  <2>6. OneCall'
    BY <2>3, <2>4, <2>5 DEF OneCall
  <2>7. CASE Tunnel!IsTerminated /\ Tunnel!Kill(i, "KILL") /\ UNCHANGED <<exec, pings>>
    <3>1. signal'[i] = "KILL" /\ \A k \in Tunnel!Spawns \ {i} : signal'[k] = signal[k]
      BY <2>1, <2>7 DEF Tunnel!Kill, HostTyped
    <3>2. Numbered'
      BY <1>0, <2>1, <2>2, <2>3, <2>4, <2>5, <3>1 DEF Numbered
    <3>3. OneProcess'
      BY <2>1, <2>3, <3>1 DEF OneProcess
    <3>4. tunnelClosing # "term" \/ (last # 0 /\ signal'[last] # "none")
      BY <1>0, <2>1, <3>1, SpawnNumbers DEF ExecKnown, HostTyped
    <3>5. ExecKnown'
      BY <1>0, <2>1, <2>2, <2>7, <3>4 DEF ExecKnown, Tunnel!IsTerminated
    <3> QED BY <2>1, <2>2, <2>6, <3>2, <3>3, <3>5 DEF HostInv, Tunnel!ConnectedMeansExec
  <2>8. CASE /\ ~Tunnel!IsTerminated /\ exec' = i /\ pings' = pings \cup {i}
             /\ call' = [call EXCEPT ![i] = "ping"] /\ UNCHANGED signal
    <3>1. Numbered'
      BY <1>0, <2>1, <2>2, <2>3, <2>4, <2>5, <2>8 DEF Numbered
    <3>2. OneProcess'
      BY <2>1, <2>3, <2>8 DEF OneProcess
    <3>3. call'[i] = "ping"
      BY <2>8 DEF HostTyped
    <3>4. ExecKnown'
      BY <1>0, <2>1, <2>2, <2>3, <2>8, <3>3 DEF ExecKnown, Tunnel!IsTerminated
    <3> QED BY <2>1, <2>2, <2>6, <3>1, <3>2, <3>4 DEF HostInv, Tunnel!ConnectedMeansExec
  <2> QED BY <1>8, <2>7, <2>8 DEF Tunnel!Spawned
<1>9. ASSUME NEW i \in Tunnel!Spawns, Tunnel!Pong(i)
      PROVE  HostInv'
  <2>1. /\ i \in pings /\ pings' = pings \ {i} /\ state' = "connected"
        /\ call' = [call EXCEPT ![i] = "done"] /\ exec = i
        /\ ~Tunnel!IsTerminated /\ call[i] = "ping" /\ spawned = i /\ i # 0
        /\ UNCHANGED <<timer, exec, tunnelClosing, last, tunnelProc, signal, spawned>>
    BY <1>0, <1>9, SpawnNumbers DEF Tunnel!Pong, Tunnel!CallReturns, ExecKnown
  <2>2. call'[i] = "done" /\ \A k \in Tunnel!Spawns \ {i} : call'[k] = call[k]
    BY <2>1 DEF HostTyped
  <2>3. pings' = {} /\ signal[exec] = "none"
    BY <1>0, <2>1, SpawnNumbers DEF ExecKnown
  <2>4. Numbered' /\ OneCall' /\ OneProcess'
    BY <1>0, <2>1, <2>2, SpawnNumbers DEF Numbered, OneCall, OneProcess
  <2>5. ExecKnown'
    BY <1>0, <2>1, <2>3 DEF ExecKnown, Tunnel!IsTerminated
  <2> QED BY <2>1, <2>3, <2>4, <2>5 DEF HostInv, Tunnel!ConnectedMeansExec
<1>10. ASSUME NEW i \in Tunnel!Spawns, Tunnel!PingFails(i)
       PROVE  HostInv'
  <2>1. /\ i \in pings /\ call' = [call EXCEPT ![i] = "done"] /\ exec = i /\ exec' = 0
        /\ ~Tunnel!IsTerminated /\ call[i] = "ping" /\ spawned = i /\ i # 0 /\ state # "connected"
        /\ tunnelProc[i] # "none" /\ signal[i] = "none" /\ Tunnel!Kill(i, "KILL")
        /\ UNCHANGED <<tunnelClosing, last, tunnelProc, spawned>>
    BY <1>0, <1>10, SpawnNumbers DEF Tunnel!PingFails, Tunnel!CallThrows, ExecKnown
  <2>2. /\ call'[i] = "done" /\ \A k \in Tunnel!Spawns \ {i} : call'[k] = call[k]
        /\ signal'[i] = "KILL" /\ \A k \in Tunnel!Spawns \ {i} : signal'[k] = signal[k]
    BY <2>1 DEF HostTyped, Tunnel!Kill
  <2>3. \A k \in Tunnel!Spawns : /\ call[k] # "docker"
                                 /\ tunnelProc'[k] \in {"running", "ended"} => signal'[k] # "none"
    BY <1>0, <2>1, <2>2 DEF OneCall, OneProcess
  <2>4. CASE pings' = {} /\ Tunnel!Reconnect
    BY <1>0, <2>1, <2>2, <2>3, <2>4, GivesUp
  <2>5. CASE /\ pings' = pings \ {i} /\ UNCHANGED timer
             /\ state' = IF state = "starting" THEN "disconnected" ELSE state
    <3>1. pings' = {} /\ ~timer /\ state' # "connected" /\ state' # "idle" /\ ~Tunnel!IsTerminated'
      BY <1>0, <2>1, <2>5 DEF ExecKnown, Numbered, Tunnel!IsTerminated
    <3>2. Numbered'
      BY <1>0, <2>1, <2>2, <3>1 DEF Numbered
    <3>3. OneCall' /\ OneProcess'
      BY <1>0, <2>1, <2>2, <2>3 DEF OneCall, OneProcess
    <3>4. ExecKnown'
      BY <1>0, <2>1, <2>5, <3>1 DEF ExecKnown, Tunnel!IsTerminated
    <3> QED BY <3>1, <3>2, <3>3, <3>4 DEF HostInv, Tunnel!ConnectedMeansExec
  <2> QED BY <1>10, <2>4, <2>5 DEF Tunnel!PingFails
<1>11. ASSUME NEW i \in Tunnel!Spawns, Tunnel!Ends(i)
       PROVE  HostInv'
  <2>1. /\ tunnelProc[i] = "running" /\ tunnelProc' = [tunnelProc EXCEPT ![i] = "ended"]
        /\ UNCHANGED <<state, timer, exec, pings, tunnelClosing, last, call, signal, spawned>>
    BY <1>11 DEF Tunnel!Ends, Tunnel!host
  <2>2. tunnelProc'[i] = "ended" /\ \A k \in Tunnel!Spawns \ {i} : tunnelProc'[k] = tunnelProc[k]
    BY <2>1 DEF HostTyped
  <2>3. Numbered'
    BY <1>0, <2>1, <2>2 DEF Numbered
  <2>4. OneCall' /\ OneProcess'
    BY <1>0, <2>1, <2>2 DEF OneCall, OneProcess
  <2>5. ExecKnown'
    BY <1>0, <2>1, <2>2, SpawnNumbers DEF ExecKnown, Tunnel!IsTerminated, HostTyped
  <2> QED BY <1>0, <2>1, <2>3, <2>4, <2>5 DEF HostInv, Tunnel!ConnectedMeansExec
<1>12. ASSUME NEW i \in Tunnel!Spawns, Tunnel!ExitReported(i)
       PROVE  HostInv'
  <2>1. /\ tunnelProc[i] = "ended" /\ tunnelProc' = [tunnelProc EXCEPT ![i] = "reported"]
        /\ UNCHANGED <<tunnelClosing, last, call, spawned, signal>> /\ i = spawned /\ i # 0
    BY <1>0, <1>12, SpawnNumbers DEF Tunnel!ExitReported, Tunnel!HandleProcessExit,
       Tunnel!NoKill, OneProcess
  <2>2. tunnelProc'[i] = "reported" /\ \A k \in Tunnel!Spawns \ {i} : tunnelProc'[k] = tunnelProc[k]
    BY <2>1 DEF HostTyped
  <2>3. \A k \in Tunnel!Spawns : call[k] # "docker" /\ tunnelProc'[k] \notin {"running", "ended"}
    BY <1>0, <2>1, <2>2 DEF OneCall, OneProcess
  <2>4. CASE ~Tunnel!IsTerminated
    <3>1. exec' = 0 /\ pings' = {} /\ Tunnel!Reconnect
      BY <1>12, <2>4 DEF Tunnel!ExitReported, Tunnel!HandleProcessExit
    <3> QED BY <1>0, <2>1, <2>2, <2>3, <2>4, <3>1, GivesUp
  <2>5. CASE Tunnel!IsTerminated /\ UNCHANGED <<state, timer, exec, pings>>
    <3>1. Numbered'
      BY <1>0, <2>1, <2>2, <2>5 DEF Numbered
    <3>2. OneCall' /\ OneProcess'
      BY <2>1, <2>3 DEF OneCall, OneProcess
    <3>3. ExecKnown'
      BY <1>0, <2>1, <2>2, <2>5, SpawnNumbers DEF ExecKnown, Tunnel!IsTerminated,
         HostTyped
    <3> QED BY <1>0, <2>1, <2>5, <3>1, <3>2, <3>3 DEF HostInv, Tunnel!ConnectedMeansExec
  <2> QED BY <1>12, <2>4, <2>5 DEF Tunnel!ExitReported
<1>13. ASSUME NEW i \in Tunnel!Spawns, Tunnel!DecoderError(i)
       PROVE  HostInv'
  <2>1. /\ tunnelProc[i] \in {"running", "ended"} /\ ~Tunnel!IsTerminated
           /\ Tunnel!HandleProcessFailure
        /\ UNCHANGED <<tunnelClosing, last, call, tunnelProc, spawned>> /\ i = spawned /\ i # 0
    BY <1>0, <1>13, SpawnNumbers DEF Tunnel!DecoderError, OneProcess
  <2>2. exec' = 0 /\ pings' = {} /\ Tunnel!Reconnect
    BY <2>1 DEF Tunnel!HandleProcessFailure
  <2>3. \A k \in Tunnel!Spawns : /\ k # exec => signal'[k] = signal[k]
                                 /\ k = exec => /\ signal'[k] # "none" /\ signal[k] = "none"
                                                /\ tunnelProc[k] # "none"
    BY <1>0, <2>1, SpawnNumbers DEF Tunnel!HandleProcessFailure, Tunnel!Kill,
       Tunnel!NoKill, HostTyped, ExecKnown
  <2>4. \A k \in Tunnel!Spawns : /\ call[k] # "docker"
                                 /\ tunnelProc[k] \in {"running", "ended"} => signal'[k] # "none"
    BY <1>0, <2>1, <2>3 DEF OneCall, OneProcess
  <2> QED BY <1>0, <2>1, <2>2, <2>3, <2>4, GivesUp
<1>14. CASE UNCHANGED Tunnel!vars
  BY <1>0, <1>14 DEF Tunnel!vars, HostInv, Numbered, OneCall, OneProcess, ExecKnown,
     Tunnel!ConnectedMeansExec,
                     Tunnel!IsTerminated
<1> QED
  BY <1>1, <1>2, <1>3, <1>4, <1>5, <1>6, <1>7, <1>8, <1>9, <1>10, <1>11, <1>12, <1>13,
     <1>14
     DEF Tunnel!Next, Tunnel!Step

-----------------------------------------------------------------------------
(* The type invariant holds whatever the processes do; and where the end   *)
(* of a killed process is reported before the next one is started (the     *)
(* back-off is 200 ms or more), no process runs on in the container that   *)
(* was given up without a signal, and a connected host talks to a process  *)
(* that nobody killed.                                                     *)
THEOREM TunnelHasOwner ==
  Tunnel!TunnelHostAssumption =>
           (Tunnel!Spec => []Tunnel!TypeOK /\ [](PromptExit => Tunnel!NoOrphan
               /\ Tunnel!ConnectedMeansExec))
<1> SUFFICES ASSUME Tunnel!TunnelHostAssumption
             PROVE  Tunnel!Spec => []Tunnel!TypeOK /\ [](PromptExit => Tunnel!NoOrphan
                    /\ Tunnel!ConnectedMeansExec)
  OBVIOUS
<1> DEFINE IInv == HostTyped /\ timer \in BOOLEAN /\ (PromptExit => HostInv)
<1>1. Tunnel!Init => IInv
  BY TypedInit, HostInvInit
<1>2. IInv /\ [Tunnel!Next]_(Tunnel!vars) => IInv'
  BY TypedStep, TimerStep, HostInvStep
<1>3. IInv => Tunnel!TypeOK /\ (PromptExit => Tunnel!NoOrphan /\ Tunnel!ConnectedMeansExec)
  <2>1. HostTyped /\ timer \in BOOLEAN => Tunnel!TypeOK
    BY Zenon DEF HostTyped, Tunnel!TypeOK
  <2>2. HostInv => Tunnel!NoOrphan /\ Tunnel!ConnectedMeansExec
    BY DEF HostInv, OneProcess, Tunnel!NoOrphan
  <2> QED BY <2>1, <2>2
<1> QED BY <1>1, <1>2, <1>3, PTL DEF Tunnel!Spec

-----------------------------------------------------------------------------
(* Streams of the tunnel.                                                  *)

(* What goes through the pipes.                                            *)
FrameSet == [type : {"OPEN", "DATA", "END", "ERROR"}, id : Stream!Ids, from : Conns]

SockSet == [st : {"none", "open", "closed", "refused"}, fin : BOOLEAN, ended : BOOLEAN,
  sent : BOOLEAN]
StrSet == [st : {"none", "live", "destroyed"}, eof : BOOLEAN, read : BOOLEAN,
           fin : BOOLEAN, told : BOOLEAN, sent : BOOLEAN]

StreamTyped ==
  /\ sock \in [Conns -> SockSet] /\ streamStr \in [Conns -> StrSet]
  /\ id \in [Conns -> 0..MaxStreams] /\ next \in Stream!Ids
  /\ agentMap \in [Stream!Ids -> Conns \cup {None}] /\ hostMap \in [Stream!Ids -> Conns \cup {None}]
  /\ up \in Seq(FrameSet) /\ down \in Seq(FrameSet)
  /\ streamClosing \subseteq Conns /\ applied \subseteq Conns \X Conns
  /\ errors \in 0..MaxErrors /\ quiet \in 0..MaxQuiet

(* A connection has a number from the moment it is accepted, and the       *)
(* agent's map says so while its socket is open.                           *)
HasNumber ==
  /\ \A c \in Conns : /\ id[c] = 0 <=> sock[c].st \in {"none", "refused"}
                      /\ sock[c].st = "open" => agentMap[id[c]] = c
                      /\ streamStr[c].st # "none" => id[c] # 0
  /\ \A i \in Stream!Ids : agentMap[i] # None => id[agentMap[i]] = i
      /\ sock[agentMap[i]].st = "open"

(* A frame has the number of the connection it is about.                   *)
FramesNumbered ==
  /\ \A j \in 1..Len(up) : up[j].id = id[up[j].from]
  /\ \A j \in 1..Len(down) : down[j].id = id[down[j].from]

(* What the host's map names has that number and a handler at work.        *)
Mapped ==
  /\ \A i \in Stream!Ids : hostMap[i] # None => id[hostMap[i]] = i /\ Stream!Busy(hostMap[i])
  /\ \A c \in streamClosing : streamStr[c].st = "destroyed"
  /\ \A c \in Conns : streamStr[c].st = "none" => ~streamStr[c].eof /\ ~streamStr[c].read
      /\ ~streamStr[c].fin
  /\ \A c \in Conns : streamStr[c].read => streamStr[c].eof

(* A connection is announced once.                                         *)
OpenedOnce ==
  /\ \A j \in 1..Len(up) : up[j].type = "OPEN" => streamStr[up[j].from].st = "none"
  /\ \A j, k \in 1..Len(up) :
       (up[j].type = "OPEN" /\ up[k].type = "OPEN" /\ up[j].from = up[k].from) => j = k

StreamInv == StreamTyped /\ HasNumber /\ FramesNumbered /\ Mapped /\ OpenedOnce

(* Sockets do not break, handlers do not fail, and a handler reads the end *)
(* of its stream before the next frame comes.                              *)
Orderly == MaxErrors = 0 /\ MaxQuiet = 0 /\ PromptReader

(* There are numbers for all connections.                                  *)
Enough == IsFiniteSet(Conns) /\ Cardinality(Conns) <= MaxStreams

(* Nothing is destroyed.                                                   *)
NoError ==
  /\ errors = 0 /\ quiet = 0 /\ streamClosing = {}
  /\ \A j \in 1..Len(up) : up[j].type # "ERROR"
  /\ \A c \in Conns : /\ streamStr[c].st # "destroyed"
                      /\ sock[c].st = "closed" => sock[c].fin /\ sock[c].ended
                      /\ sock[c].st \in {"none", "refused"} => ~sock[c].fin /\ ~sock[c].ended

(* What is on its way to a client is about its open connection, and an END *)
(* is the last of it.                                                      *)
DownOrder ==
  /\ \A j \in 1..Len(down) :
       /\ down[j].type \in {"DATA", "END"}
       /\ sock[down[j].from].st = "open" /\ ~sock[down[j].from].ended
       /\ streamStr[down[j].from].st = "live"
       /\ down[j].type = "END" =>
            /\ streamStr[down[j].from].fin
            /\ \A k \in 1..Len(down) : down[k].from = down[j].from => k <= j
  /\ \A c \in Conns : sock[c].ended => streamStr[c].fin

(* What is on its way to the host begins with OPEN and ends with END.      *)
UpOrder ==
  /\ \A k \in 1..Len(up) :
       /\ up[k].type # "OPEN" =>
            /\ ~streamStr[up[k].from].eof
            /\ streamStr[up[k].from].st = "none" =>
                       \E j \in 1..(k - 1) : up[j].type = "OPEN" /\ up[j].from = up[k].from
       /\ up[k].type = "END" =>
            /\ sock[up[k].from].fin
            /\ \A j \in 1..Len(up) : up[j].from = up[k].from => j <= k
  /\ \A c \in Conns :
       /\ id[c] # 0 /\ streamStr[c].st = "none" =>
            \E j \in 1..Len(up) : up[j].type = "OPEN" /\ up[j].from = c
       /\ streamStr[c].eof => sock[c].fin
       /\ sock[c].fin /\ ~streamStr[c].eof =>
            \E j \in 1..Len(up) : up[j].type = "END" /\ up[j].from = c

(* Who had the number before is done, and its frames are ahead.            *)
Succession ==
  \A k \in 1..Len(up) : up[k].type = "OPEN" =>
    \A c \in Conns : c # up[k].from /\ id[c] = up[k].id =>
      /\ sock[c].st = "closed"
      /\ \A j \in 1..Len(up) : up[j].from = c => j < k

OrderlyInv == NoError /\ DownOrder /\ UpOrder /\ Succession /\ Stream!OwnFramesOnly
  /\ Stream!StreamKeepsNumber

(* No number is used again.                                                *)
Used == {c \in Conns : id[c] # 0}
Distinct ==
  /\ \A c, d \in Used : id[c] = id[d] => c = d
  /\ \A c \in Used : id[c] <= Cardinality(Used)
  /\ next = (Cardinality(Used) % MaxStreams) + 1

ApartInv == Distinct /\ Stream!OwnFramesOnly /\ Stream!StreamKeepsNumber

(* A socket, a stream and a pipe after a step.                             *)
SockChange(c, st, fin, ended) ==
  /\ sock' \in [Conns -> SockSet]
  /\ sock'[c].st = st /\ (sock'[c].fin <=> fin) /\ (sock'[c].ended <=> ended)
  /\ \A d \in Conns \ {c} : sock'[d] = sock[d]
StrChange(c, st, eof, read, fin) ==
  /\ streamStr' \in [Conns -> StrSet]
  /\ streamStr'[c].st = st /\ (streamStr'[c].eof <=> eof) /\ (streamStr'[c].read <=> read)
  /\ (streamStr'[c].fin <=> fin)
  /\ \A d \in Conns \ {c} : streamStr'[d] = streamStr[d]
Puts(s, t, x) ==
  /\ t \in Seq(FrameSet) /\ Len(s) \in Nat /\ Len(t) = Len(s) + 1
  /\ \A j \in 1..Len(s) : j \in 1..Len(t) /\ t[j] = s[j]
  /\ \A j \in 1..Len(t) : (j \in 1..Len(s) /\ t[j] = s[j]) \/ (j = Len(t) /\ t[j] = x)
  /\ Len(t) \in 1..Len(t) /\ t[Len(t)] = x
Takes(s, t, x) ==
  /\ t \in Seq(FrameSet) /\ Len(s) \in Nat \ {0} /\ Len(t) = Len(s) - 1
  /\ x \in FrameSet /\ s[1] = x
  /\ \A j \in 1..Len(t) : j + 1 \in 1..Len(s) /\ t[j] = s[j + 1]

LEMMA SockEffects == ASSUME NEW c \in Conns, sock \in [Conns -> SockSet]
 PROVE /\ \A v \in {"none", "open", "closed", "refused"} :
            sock' = [sock EXCEPT ![c].st = v] => SockChange(c, v, sock[c].fin, sock[c].ended)
       /\ sock' = [sock EXCEPT ![c].sent = TRUE]
           => SockChange(c, sock[c].st, sock[c].fin, sock[c].ended)
       /\ sock' = [sock EXCEPT ![c].fin = TRUE] => SockChange(c, sock[c].st, TRUE, sock[c].ended)
       /\ sock' = [sock EXCEPT ![c].ended = TRUE] => SockChange(c, sock[c].st, sock[c].fin, TRUE)
<1>1. ASSUME NEW v \in {"none", "open", "closed", "refused"}, sock' = [sock EXCEPT ![c].st = v]
      PROVE  SockChange(c, v, sock[c].fin, sock[c].ended)
  BY <1>1 DEF SockChange, SockSet
<1>2. ASSUME sock' = [sock EXCEPT ![c].sent = TRUE]
      PROVE  SockChange(c, sock[c].st, sock[c].fin, sock[c].ended)
  BY <1>2 DEF SockChange, SockSet
<1>3. ASSUME sock' = [sock EXCEPT ![c].fin = TRUE]
      PROVE  SockChange(c, sock[c].st, TRUE, sock[c].ended)
  BY <1>3 DEF SockChange, SockSet
<1>4. ASSUME sock' = [sock EXCEPT ![c].ended = TRUE]
      PROVE  SockChange(c, sock[c].st, sock[c].fin, TRUE)
  BY <1>4 DEF SockChange, SockSet
<1> QED BY <1>1, <1>2, <1>3, <1>4
LEMMA StrEffects == ASSUME NEW c \in Conns, streamStr \in [Conns -> StrSet]
 PROVE /\ \A v \in {"none", "live", "destroyed"} :
            streamStr' = [streamStr EXCEPT ![c].st = v]
                => StrChange(c, v, streamStr[c].eof, streamStr[c].read, streamStr[c].fin)
       /\ streamStr' = [streamStr EXCEPT ![c].st = "destroyed", ![c].told = TRUE]
                  => StrChange(c, "destroyed", streamStr[c].eof, streamStr[c].read,
                      streamStr[c].fin)
       /\ streamStr' = [streamStr EXCEPT ![c].sent = TRUE]
           => StrChange(c, streamStr[c].st, streamStr[c].eof, streamStr[c].read, streamStr[c].fin)
       /\ streamStr' = [streamStr EXCEPT ![c].fin = TRUE]
           => StrChange(c, streamStr[c].st, streamStr[c].eof, streamStr[c].read, TRUE)
       /\ streamStr' = [streamStr EXCEPT ![c].eof = TRUE]
           => StrChange(c, streamStr[c].st, TRUE, streamStr[c].read, streamStr[c].fin)
       /\ streamStr' = [streamStr EXCEPT ![c].read = TRUE]
           => StrChange(c, streamStr[c].st, streamStr[c].eof, TRUE, streamStr[c].fin)
<1>1. ASSUME NEW v \in {"none", "live", "destroyed"}, streamStr' = [streamStr EXCEPT ![c].st = v]
      PROVE  StrChange(c, v, streamStr[c].eof, streamStr[c].read, streamStr[c].fin)
  BY <1>1 DEF StrChange, StrSet
<1>2. ASSUME streamStr' = [streamStr EXCEPT ![c].st = "destroyed", ![c].told = TRUE]
      PROVE  StrChange(c, "destroyed", streamStr[c].eof, streamStr[c].read, streamStr[c].fin)
  BY <1>2 DEF StrChange, StrSet
<1>3. ASSUME streamStr' = [streamStr EXCEPT ![c].sent = TRUE]
      PROVE  StrChange(c, streamStr[c].st, streamStr[c].eof, streamStr[c].read, streamStr[c].fin)
  BY <1>3 DEF StrChange, StrSet
<1>4. ASSUME streamStr' = [streamStr EXCEPT ![c].fin = TRUE]
      PROVE  StrChange(c, streamStr[c].st, streamStr[c].eof, streamStr[c].read, TRUE)
  BY <1>4 DEF StrChange, StrSet
<1>5. ASSUME streamStr' = [streamStr EXCEPT ![c].eof = TRUE]
      PROVE  StrChange(c, streamStr[c].st, TRUE, streamStr[c].read, streamStr[c].fin)
  BY <1>5 DEF StrChange, StrSet
<1>6. ASSUME streamStr' = [streamStr EXCEPT ![c].read = TRUE]
      PROVE  StrChange(c, streamStr[c].st, streamStr[c].eof, TRUE, streamStr[c].fin)
  BY <1>6 DEF StrChange, StrSet
<1> QED BY <1>1, <1>2, <1>3, <1>4, <1>5, <1>6

LEMMA PipeEffects ==
  ASSUME NEW s \in Seq(FrameSet)
  PROVE  /\ \A x \in FrameSet : Puts(s, Append(s, x), x)
         /\ s # <<>> => Takes(s, Tail(s), Head(s))
<1>1. ASSUME NEW x \in FrameSet PROVE Puts(s, Append(s, x), x)
  <2> DEFINE t == Append(s, x)
  <2>1. /\ t \in Seq(FrameSet) /\ Len(s) \in Nat /\ Len(t) = Len(s) + 1 /\ t[Len(s) + 1] = x
        /\ \A j \in 1..Len(s) : t[j] = s[j]
    OBVIOUS
  <2> HIDE DEF t
  <2>2. Puts(s, t, x)
    BY <2>1 DEF Puts
  <2> QED BY <2>2 DEF t
<1>2. ASSUME s # <<>> PROVE Takes(s, Tail(s), Head(s))
  BY <1>2 DEF Takes
<1> QED BY <1>1, <1>2

LEMMA FrameFacts ==
  /\ \A x \in FrameSet : /\ x.type \in {"OPEN", "DATA", "END", "ERROR"}
                         /\ x.id \in Stream!Ids /\ x.from \in Conns
  /\ \A s \in Seq(FrameSet) : Len(s) \in Nat /\ \A j \in 1..Len(s) : s[j] \in FrameSet
  /\ \A t \in {"OPEN", "DATA", "END", "ERROR"}, i \in Stream!Ids, c \in Conns :
       [type |-> t, id |-> i, from |-> c] \in FrameSet
<1>1. \A x \in FrameSet : /\ x.type \in {"OPEN", "DATA", "END", "ERROR"}
                         /\ x.id \in Stream!Ids /\ x.from \in Conns
  BY DEF FrameSet
<1>2. \A s \in Seq(FrameSet) : Len(s) \in Nat /\ \A j \in 1..Len(s) : s[j] \in FrameSet
  OBVIOUS
<1>3. \A t \in {"OPEN", "DATA", "END", "ERROR"}, i \in Stream!Ids, c \in Conns :
        [type |-> t, id |-> i, from |-> c] \in FrameSet
  BY DEF FrameSet
<1> QED BY <1>1, <1>2, <1>3

(* A set of numbers that is not empty has a least one.                     *)
LEMMA LeastOfNumbers ==
  ASSUME NEW T \in SUBSET Nat, T # {}
  PROVE  \E x \in T : \A y \in T : x <= y
<1>1. PICK x \in T : \A y \in T : ~(<<y, x>> \in OpToRel(<, Nat))
  BY WFMin, NatLessThanWellFounded
<1>2. \A y \in T : ~(y < x)
  BY <1>1 DEF OpToRel
<1> QED BY <1>2

(* The number that is given is a free one, and the next one in order if    *)
(* that is free.                                                           *)
LEMMA Allocated ==
  ASSUME Stream!TunnelStreamsAssumption, next \in Stream!Ids, Stream!Free # {}
  PROVE  /\ Stream!AllocateStreamId \in Stream!Free
         /\ next \in Stream!Free => Stream!AllocateStreamId = next
<1> DEFINE Good(k) == Stream!Candidate(k) \in Stream!Free
<1>1. PICK i \in Stream!Ids : i \in Stream!Free
  BY DEF Stream!Free
<1>2. \E k \in 0..(MaxStreams - 1) : Good(k)
  <2>1. CASE i >= next
    <3>1. i - next \in 0..(MaxStreams - 1) /\ (next - 1 + (i - next)) % MaxStreams = i - 1
      BY <2>1 DEF Stream!TunnelStreamsAssumption, Stream!Ids
    <3> QED BY <3>1, <1>1 DEF Stream!Candidate, Stream!Ids
  <2>2. CASE i < next
    <3>1. /\ i + MaxStreams - next \in 0..(MaxStreams - 1)
          /\ (next - 1 + (i + MaxStreams - next)) % MaxStreams = i - 1
      BY <2>2 DEF Stream!TunnelStreamsAssumption, Stream!Ids
    <3> QED BY <3>1, <1>1 DEF Stream!Candidate, Stream!Ids
  <2> QED BY <2>1, <2>2 DEF Stream!TunnelStreamsAssumption, Stream!Ids
<1>3. PICK k \in 0..(MaxStreams - 1) : Good(k) /\ \A j \in 0..(k - 1) : ~Good(j)
  <2> HIDE DEF Good
  <2> DEFINE P == {k \in 0..(MaxStreams - 1) : Good(k)}
  <2>1. P \subseteq Nat /\ P # {}
    BY <1>2
  <2>2. PICK k \in P : \A j \in P : k <= j
    BY <2>1, LeastOfNumbers
  <2> QED BY <2>2 DEF Stream!TunnelStreamsAssumption
<1>4. Stream!AllocateStreamId \in Stream!Free
  BY <1>3 DEF Stream!AllocateStreamId
<1>5. ASSUME next \in Stream!Free
      PROVE  Stream!AllocateStreamId = next
  <2>1. Stream!Candidate(0) = next /\ 0 \in 0..(MaxStreams - 1)
    BY DEF Stream!Candidate, Stream!TunnelStreamsAssumption, Stream!Ids
  <2>2. \A j \in 0..(MaxStreams - 1) :
          Stream!Candidate(j) \in Stream!Free /\ (\A m \in 0..(j - 1) : Stream!Candidate(m) \notin Stream!Free) => j = 0
    BY <2>1, <1>5 DEF Stream!TunnelStreamsAssumption
  <2> QED BY <1>3, <2>1, <2>2 DEF Stream!AllocateStreamId
<1> QED BY <1>4, <1>5

LEMMA StreamInit == Stream!TunnelStreamsAssumption /\ Stream!Init => StreamInv
<1> SUFFICES ASSUME Stream!TunnelStreamsAssumption, Stream!Init PROVE StreamInv
  OBVIOUS
<1> USE DEF Stream!TunnelStreamsAssumption, Stream!Init
<1>1. StreamTyped
  <2>1. sock \in [Conns -> SockSet] /\ streamStr \in [Conns -> StrSet]
    BY DEF SockSet, StrSet, Stream!NewSock, Stream!NewStr
  <2> QED BY <2>1 DEF StreamTyped, Stream!Ids
<1>2. up = <<>> /\ down = <<>> /\ Len(up) = 0 /\ Len(down) = 0
  OBVIOUS
<1>3. HasNumber /\ Mapped
  BY DEF HasNumber, Mapped, Stream!NewSock, Stream!NewStr
<1>4. FramesNumbered /\ OpenedOnce
  BY <1>2 DEF FramesNumbered, OpenedOnce
<1> QED BY <1>1, <1>3, <1>4 DEF StreamInv

(* Every step keeps the types, the numbers, and one announcement for each  *)
(* connection.                                                             *)
LEMMA StreamStep ==
  Stream!TunnelStreamsAssumption /\ StreamInv /\ [Stream!Next]_(Stream!vars) => StreamInv'
<1> SUFFICES ASSUME Stream!TunnelStreamsAssumption, StreamInv, [Stream!Next]_(Stream!vars)
             PROVE  StreamInv'
  OBVIOUS
<1> USE DEF StreamInv
<1>a. /\ sock \in [Conns -> SockSet] /\ streamStr \in [Conns -> StrSet]
      /\ up \in Seq(FrameSet) /\ down \in Seq(FrameSet)
  BY DEF StreamTyped
<1>b. /\ \A j \in 1..Len(up) : up[j] \in FrameSet /\ up[j].from \in Conns /\ up[j].id \in Stream!Ids
      /\ \A j \in 1..Len(down) : down[j] \in FrameSet /\ down[j].from \in Conns
          /\ down[j].id \in Stream!Ids
  BY <1>a, FrameFacts
<1>c. /\ 0 \notin Stream!Ids /\ None \notin Conns
      /\ \A c \in Conns :
           /\ sock[c].st \in {"none", "open", "closed", "refused"}
               /\ streamStr[c].st \in {"none", "live", "destroyed"}
           /\ (sock[c].st \in {"open", "closed"} \/ streamStr[c].st # "none")
               => id[c] \in Stream!Ids
  <2>1. \A c \in Conns : /\ id[c] \in 0..MaxStreams /\ sock[c].st \in {"none", "open", "closed",
                            "refused"}
                       /\ streamStr[c].st \in {"none", "live", "destroyed"}
    BY DEF StreamTyped, SockSet, StrSet
  <2>2. \A i \in 0..MaxStreams : i # 0 => i \in Stream!Ids
    BY DEF Stream!Ids, Stream!TunnelStreamsAssumption
  <2> QED BY <2>1, <2>2 DEF HasNumber, Stream!Ids, Stream!TunnelStreamsAssumption
<1>1. ASSUME NEW c \in Conns, Stream!Connect(c)
      PROVE  StreamInv'
  <2>1. CASE Stream!Free = {}
    <3>1. /\ sock' = [sock EXCEPT ![c].st = "refused"] /\ sock[c].st = "none"
          /\ UNCHANGED <<id, agentMap, next, up, down, streamStr, hostMap, streamClosing, applied,
              errors, quiet>>
      BY <1>1, <2>1 DEF Stream!Connect, Stream!platform
    <3>2. SockChange(c, "refused", sock[c].fin, sock[c].ended)
      BY <3>1, <1>a, SockEffects
    <3>3. StreamTyped' /\ HasNumber'
      BY <3>1, <3>2 DEF StreamTyped, HasNumber, SockChange
    <3>4. FramesNumbered' /\ Mapped' /\ OpenedOnce'
      BY <3>1 DEF FramesNumbered, Mapped, OpenedOnce, Stream!Busy
    <3> QED BY <3>3, <3>4
  <2>2. CASE Stream!Free # {}
    <3> DEFINE i == Stream!AllocateStreamId
               f == [type |-> "OPEN", id |-> i, from |-> c]
    <3>1. i \in Stream!Free
      BY <2>2, Allocated DEF StreamTyped
    <3> HIDE DEF i
    <3>2. i \in Stream!Ids /\ agentMap[i] = None /\ (i % MaxStreams) + 1 \in Stream!Ids /\ i # 0
            /\ i \in 0..MaxStreams
      BY <3>1 DEF Stream!Free, Stream!Ids, Stream!TunnelStreamsAssumption
    <3>3. /\ sock' = [sock EXCEPT ![c].st = "open"] /\ sock[c].st = "none"
          /\ id' = [id EXCEPT ![c] = i] /\ next' = (i % MaxStreams) + 1
          /\ agentMap' = [agentMap EXCEPT ![i] = c] /\ up' = Append(up, f)
          /\ UNCHANGED <<down, streamStr, hostMap, streamClosing, applied, errors, quiet>>
      BY <1>1, <2>2 DEF Stream!Connect, Stream!platform, i
    <3>4. id[c] = 0 /\ streamStr[c].st = "none" /\ f \in FrameSet /\ f.type = "OPEN" /\ f.id = i
            /\ f.from = c
      BY <3>2, <3>3, FrameFacts DEF HasNumber
    <3>5. SockChange(c, "open", sock[c].fin, sock[c].ended) /\ Puts(up, up', f)
      BY <3>3, <3>4, <1>a, SockEffects, PipeEffects
    <3> HIDE DEF f
    <3>6. StreamTyped'
      BY <3>2, <3>3, <3>5 DEF StreamTyped, SockChange, Puts
    <3>7. HasNumber'
      BY <3>2, <3>3, <3>4, <3>5 DEF StreamTyped, HasNumber,
         Stream!TunnelStreamsAssumption, SockChange
    <3>8. /\ \A j \in 1..Len(up) : up[j].from # c /\ up[j].from \in Conns
          /\ \A j \in 1..Len(down) : down[j].from # c /\ down[j].from \in Conns
      BY <3>4, <1>b, <1>c DEF FramesNumbered
    <3>9. FramesNumbered' /\ OpenedOnce'
      BY <3>2, <3>3, <3>4, <3>5, <3>8 DEF StreamTyped, FramesNumbered, OpenedOnce, Puts
    <3>10. Mapped'
      BY <3>2, <3>3, <3>4 DEF StreamTyped, Mapped, Stream!Busy, Stream!Ids,
         Stream!TunnelStreamsAssumption
    <3> QED BY <3>6, <3>7, <3>9, <3>10
  <2> QED BY <2>1, <2>2
<1>2. ASSUME NEW c \in Conns, NEW t \in {"DATA", "END", "ERROR"}, sock[c].st = "open",
             up' = Append(up, Stream!Frame(t, c)), down' \in Seq(FrameSet),
             \A j \in 1..Len(down') : down'[j].id = id[down'[j].from],
             UNCHANGED <<id, next, Stream!platform>>,
             NEW st, NEW fin, NEW ended, SockChange(c, st, fin, ended),
             \/ UNCHANGED agentMap /\ st = "open"
             \/ agentMap' = [agentMap EXCEPT ![id[c]] = None] /\ st = "closed",
             applied' \subseteq Conns \X Conns, errors' \in 0..MaxErrors, quiet' \in 0..MaxQuiet
      PROVE  StreamInv'
  <2>1. /\ Stream!Frame(t, c) \in FrameSet /\ id[c] \in Stream!Ids /\ agentMap[id[c]] = c
        /\ Stream!Frame(t, c).id = id[c] /\ Stream!Frame(t, c).from = c
            /\ Stream!Frame(t, c).type # "OPEN"
    <3>1. id[c] \in Stream!Ids /\ agentMap[id[c]] = c
      BY <1>2, <1>c DEF HasNumber
    <3> QED BY <1>2, <3>1, FrameFacts DEF Stream!Frame
  <2>2. Puts(up, up', Stream!Frame(t, c))
    BY <1>2, <1>a, <2>1, PipeEffects
  <2>3. StreamTyped'
    BY <1>2, <2>1, <2>2 DEF StreamTyped, Stream!platform, SockChange, Puts
  <2>4. HasNumber'
    <3>1. UNCHANGED <<id, streamStr>> /\ \A d \in Conns : d # c => sock'[d] = sock[d]
            /\ (id[d] = id[c] => sock[d].st # "open")
      BY <1>2, <2>1 DEF Stream!platform, SockChange, HasNumber
    <3>2. CASE UNCHANGED agentMap /\ st = "open"
      <4>1. sock'[c].st = "open"
        BY <1>2, <3>2 DEF SockChange
      <4>2. \A d \in Conns : sock'[d].st = sock[d].st
        BY <1>2, <3>1, <4>1
      <4>3. \A d \in Conns :
              (/\ id[d] = 0 <=> sock[d].st \in {"none", "refused"}
               /\ sock[d].st = "open" => agentMap[id[d]] = d
               /\ streamStr[d].st # "none" => id[d] # 0)'
        BY <3>1, <3>2, <4>2 DEF HasNumber
      <4>4. \A i \in Stream!Ids : (agentMap[i] # None => id[agentMap[i]] = i
              /\ sock[agentMap[i]].st = "open")'
        BY <3>1, <3>2, <4>2 DEF HasNumber, StreamTyped
      <4> QED BY <4>3, <4>4 DEF HasNumber
    <3>3. CASE agentMap' = [agentMap EXCEPT ![id[c]] = None] /\ st = "closed"
      <4>1. sock'[c].st = "closed" /\ agentMap'[id[c]] = None /\ \A i \in Stream!Ids : i # id[c]
              => agentMap'[i] = agentMap[i]
        BY <1>2, <2>1, <3>3 DEF SockChange, StreamTyped
      <4>3. \A d \in Conns :
              (/\ id[d] = 0 <=> sock[d].st \in {"none", "refused"}
               /\ sock[d].st = "open" => agentMap[id[d]] = d
               /\ streamStr[d].st # "none" => id[d] # 0)'
        BY <1>2, <1>c, <2>1, <3>1, <4>1 DEF HasNumber
      <4>4. \A i \in Stream!Ids : (agentMap[i] # None => id[agentMap[i]] = i
              /\ sock[agentMap[i]].st = "open")'
        BY <2>1, <3>1, <4>1 DEF HasNumber, StreamTyped
      <4> QED BY <4>3, <4>4 DEF HasNumber
    <3> QED BY <1>2, <3>2, <3>3
  <2>5. FramesNumbered' /\ OpenedOnce' /\ Mapped'
    BY <1>2, <2>1, <2>2 DEF FramesNumbered, OpenedOnce, Mapped, Stream!Busy,
       Stream!platform, Puts
  <2> QED BY <2>3, <2>4, <2>5
<1>3. ASSUME NEW c \in Conns, Stream!ClientData(c) \/ Stream!ClientEnd(c) \/ Stream!ClientError(c)
      PROVE  StreamInv'
  <2>1. errors' \in 0..MaxErrors /\ quiet' \in 0..MaxQuiet /\ applied' \subseteq Conns \X Conns
    BY <1>3 DEF Stream!ClientData, Stream!ClientEnd, Stream!ClientError, Stream!Error,
       StreamTyped, Stream!TunnelStreamsAssumption
  <2>2. /\ \E t \in {"DATA", "END", "ERROR"} : up' = Append(up, Stream!Frame(t, c))
        /\ sock[c].st = "open" /\ UNCHANGED <<id, next, down, Stream!platform>>
    BY <1>3 DEF Stream!ClientData, Stream!ClientEnd, Stream!ClientError
  <2>3. \E st, fin, ended :
          /\ SockChange(c, st, fin, ended)
          /\ \/ UNCHANGED agentMap /\ st = "open"
             \/ agentMap' = [agentMap EXCEPT ![id[c]] = None] /\ st = "closed"
    <3>1. CASE Stream!ClientData(c)
      BY <3>1, <1>a, SockEffects DEF Stream!ClientData
    <3>2. CASE Stream!ClientEnd(c)
      BY <3>2, <1>a, SockEffects DEF Stream!ClientEnd
    <3>3. CASE Stream!ClientError(c)
      BY <3>3, <1>a, SockEffects DEF Stream!ClientError
    <3> QED BY <1>3, <3>1, <3>2, <3>3
  <2>4. down' \in Seq(FrameSet) /\ \A j \in 1..Len(down') : down'[j].id = id[down'[j].from]
    BY <1>a, <2>2 DEF FramesNumbered
  <2> QED BY <1>2, <2>1, <2>2, <2>3, <2>4
<1>4. ASSUME NEW c \in Conns, Stream!SocketCloses(c)
      PROVE  StreamInv'
  <2> USE <1>4 DEF Stream!SocketCloses, Stream!platform
  <2>1. id[c] \in Stream!Ids /\ SockChange(c, "closed", sock[c].fin, sock[c].ended)
    <3>1. SockChange(c, "closed", sock[c].fin, sock[c].ended)
      BY <1>a, SockEffects
    <3> QED BY <3>1, <1>c
  <2>2. StreamTyped'
    BY <2>1 DEF StreamTyped, SockChange
  <2>3. HasNumber'
    BY <2>1 DEF StreamTyped, HasNumber, Stream!TunnelStreamsAssumption, SockChange
  <2>4. FramesNumbered' /\ OpenedOnce' /\ Mapped'
    BY DEF FramesNumbered, OpenedOnce, Mapped, Stream!Busy
  <2> QED BY <2>2, <2>3, <2>4
<1>5. ASSUME Stream!AgentReceives
      PROVE  StreamInv'
  <2> DEFINE f == Head(down)
             c == agentMap[f.id]
  <2>1. Takes(down, down', f)
    BY <1>5, <1>a, PipeEffects DEF Stream!AgentReceives
  <2> HIDE DEF f
  <2>2. /\ f \in FrameSet /\ f.id \in Stream!Ids /\ f.from \in Conns /\ c \in Conns \cup {None}
        /\ down' \in Seq(FrameSet) /\ \A j \in 1..Len(down') : down'[j].id = id[down'[j].from]
    <3>1. f \in FrameSet /\ \A j \in 1..Len(down') : down'[j].id = id[down'[j].from]
      BY <2>1 DEF Takes, FramesNumbered
    <3> QED BY <2>1, <3>1, FrameFacts DEF Takes, StreamTyped
  <2>3. UNCHANGED <<id, next, streamStr, hostMap, streamClosing, errors, quiet>>
    BY <1>5 DEF Stream!AgentReceives, Stream!platform
  <2>4. CASE c = None
    <3>1. UNCHANGED <<sock, agentMap, up, applied>>
      BY <1>5, <2>4 DEF Stream!AgentReceives, f
    <3> QED BY <2>2, <2>3, <3>1 DEF StreamTyped, HasNumber, FramesNumbered, Mapped,
               OpenedOnce, Stream!Busy
  <2>5. CASE c # None
    <3>1. c \in Conns /\ id[c] = f.id /\ sock[c].st = "open" /\ <<f.from, c>> \in Conns \X Conns
      BY <2>2, <2>5 DEF HasNumber
    <3> HIDE DEF c
    <3>2. applied' \subseteq Conns \X Conns
      BY <1>5, <2>5, <3>1 DEF Stream!AgentReceives, StreamTyped, f, c
    <3>3. \/ UNCHANGED <<sock, agentMap, up>>
          \/ sock' = [sock EXCEPT ![c].ended = TRUE] /\ UNCHANGED <<agentMap, up>>
          \/ /\ sock' = [sock EXCEPT ![c].st = "closed"]
             /\ agentMap' = [agentMap EXCEPT ![f.id] = None]
             /\ up' = Append(up, Stream!Frame("ERROR", c))
      BY <1>5, <2>5 DEF Stream!AgentReceives, f, c
    <3>4. CASE UNCHANGED <<sock, agentMap, up>>
      BY <2>2, <2>3, <3>2, <3>4 DEF StreamTyped, HasNumber, FramesNumbered, Mapped,
         OpenedOnce, Stream!Busy
    <3>5. CASE sock' = [sock EXCEPT ![c].ended = TRUE] /\ UNCHANGED <<agentMap, up>>
      <4>0. SockChange(c, sock[c].st, sock[c].fin, TRUE)
        BY <3>1, <3>5, <1>a, SockEffects
      <4>1. StreamTyped'
        BY <2>2, <2>3, <3>2, <3>5, <4>0 DEF StreamTyped, SockChange
      <4>2. HasNumber'
        BY <2>3, <3>1, <3>5, <4>0 DEF StreamTyped, HasNumber, SockChange
      <4> QED BY <2>2, <2>3, <3>5, <4>1, <4>2 DEF FramesNumbered, Mapped, OpenedOnce,
                 Stream!Busy
    <3>6. CASE /\ sock' = [sock EXCEPT ![c].st = "closed"]
               /\ agentMap' = [agentMap EXCEPT ![f.id] = None]
               /\ up' = Append(up, Stream!Frame("ERROR", c))
      <4>1. SockChange(c, "closed", sock[c].fin, sock[c].ended)
        BY <3>1, <3>6, <1>a, SockEffects
      <4>2. errors' \in 0..MaxErrors /\ quiet' \in 0..MaxQuiet
        BY <2>3 DEF StreamTyped
      <4> QED BY <1>2, <2>2, <2>3, <3>1, <3>2, <3>6, <4>1, <4>2 DEF Stream!platform
    <3> QED BY <3>3, <3>4, <3>5, <3>6
  <2> QED BY <2>4, <2>5
<1>6. ASSUME Stream!HostReceives
      PROVE  StreamInv'
  <2> DEFINE f == Head(up)
             c == hostMap[f.id]
  <2>1. Takes(up, up', f)
    BY <1>6, <1>a, PipeEffects DEF Stream!HostReceives
  <2>2. /\ f = up[1] /\ 1 \in 1..Len(up) /\ f \in FrameSet /\ f.id \in Stream!Ids
           /\ f.from \in Conns
        /\ c \in Conns \cup {None} /\ f.id = id[f.from] /\ up' \in Seq(FrameSet)
        /\ \A j \in 1..Len(up') : j + 1 \in 1..Len(up) /\ up'[j] = up[j + 1] /\ j \in Nat \ {0}
    <3>1. 1 \in 1..Len(up) /\ f = up[1] /\ f \in FrameSet
      BY <2>1 DEF Takes
    <3> QED BY <2>1, <3>1, FrameFacts DEF Takes, StreamTyped, FramesNumbered
  <2>b. /\ \A j, k \in 1..Len(up') :
              (up'[j].type = "OPEN" /\ up'[k].type = "OPEN" /\ up'[j].from = up'[k].from) => j = k
        /\ \A j \in 1..Len(up') : up'[j].type = "OPEN" => streamStr[up'[j].from].st = "none"
    <3> HIDE DEF f, c
    <3>1. /\ \A j, k \in 1..Len(up) :
               (up[j].type = "OPEN" /\ up[k].type = "OPEN" /\ up[j].from = up[k].from) => j = k
          /\ \A j \in 1..Len(up) : up[j].type = "OPEN" => streamStr[up[j].from].st = "none"
      BY DEF OpenedOnce
    <3>2. ASSUME NEW j \in 1..Len(up'), NEW k \in 1..Len(up'), up'[j].type = "OPEN",
                 up'[k].type = "OPEN", up'[j].from = up'[k].from
          PROVE  j = k
      <4>1. /\ j + 1 \in 1..Len(up) /\ up'[j] = up[j + 1]
            /\ k + 1 \in 1..Len(up) /\ up'[k] = up[k + 1] /\ j \in Nat /\ k \in Nat
        BY <2>2
      <4>2. j + 1 = k + 1
        BY <3>1, <3>2, <4>1
      <4> QED BY <4>1, <4>2
    <3>3. \A j \in 1..Len(up') : up'[j].type = "OPEN" => streamStr[up'[j].from].st = "none"
      BY <2>2, <3>1
    <3> QED BY <3>2, <3>3
  <2>3. UNCHANGED <<sock, id, agentMap, next, errors, quiet>>
    BY <1>6 DEF Stream!HostReceives, Stream!agent
  <2>4. /\ \A j \in 1..Len(up') : up'[j].id = id'[up'[j].from]
        /\ FramesNumbered' \/ ~UNCHANGED down
    BY <2>2, <2>3 DEF FramesNumbered
  <2>5. CASE f.type = "OPEN" /\ c # None
    <3> DEFINE e == [type |-> "ERROR", id |-> f.id, from |-> f.from]
    <3>1. down' = Append(down, e) /\ UNCHANGED <<streamStr, hostMap, streamClosing, applied>>
      BY <1>6, <2>5 DEF Stream!HostReceives, Stream!HandleOpen, Stream!HandleFrame
    <3>2. e \in FrameSet /\ e.id = id[e.from]
      BY <2>2, FrameFacts
    <3> HIDE DEF e, f, c
    <3>3. Puts(down, down', e)
      BY <1>a, <3>1, <3>2, PipeEffects
    <3>4. StreamTyped'
      BY <2>2, <2>3, <3>1, <3>3 DEF StreamTyped, Puts
    <3>5. FramesNumbered' /\ OpenedOnce'
      <4>1. FramesNumbered'
        BY <2>3, <2>4, <3>2, <3>3 DEF FramesNumbered, Puts
      <4>3. \A j \in 1..Len(up') : up'[j].type = "OPEN" => streamStr'[up'[j].from].st = "none"
        BY <2>2, <3>1 DEF OpenedOnce
      <4>4. \A j, k \in 1..Len(up') :
              (up'[j].type = "OPEN" /\ up'[k].type = "OPEN" /\ up'[j].from = up'[k].from) => j = k
        BY <2>b
      <4>2. OpenedOnce'
        BY <4>3, <4>4 DEF OpenedOnce
      <4> QED BY <4>1, <4>2
    <3> QED BY <2>3, <3>1, <3>4, <3>5 DEF HasNumber, Mapped, Stream!Busy
  <2>6. CASE f.type = "OPEN" /\ c = None
    <3>1. /\ hostMap' = [hostMap EXCEPT ![f.id] = f.from]
             /\ streamStr' = [streamStr EXCEPT ![f.from].st = "live"]
          /\ UNCHANGED <<down, streamClosing, applied>>
      BY <1>6, <2>6 DEF Stream!HostReceives, Stream!HandleOpen, Stream!HandleFrame
    <3> DEFINE b == f.from
    <3> HIDE DEF f, c
    <3>2. /\ streamStr[b].st = "none" /\ b # None /\ ~streamStr[b].read /\ ~streamStr[b].eof
             /\ b \in Conns
          /\ StrChange(b, "live", streamStr[b].eof, streamStr[b].read, streamStr[b].fin)
      BY <1>a, <2>2, <2>6, <3>1, StrEffects DEF OpenedOnce,
         Stream!TunnelStreamsAssumption, Mapped
    <3>3. StreamTyped'
      BY <2>2, <2>3, <3>1, <3>2 DEF StreamTyped, StrChange
    <3>4. HasNumber'
      BY <2>2, <2>3, <3>1, <3>2 DEF StreamTyped, HasNumber, Stream!Ids, StrChange
    <3>5. OpenedOnce'
      <4>2. \A j \in 1..Len(up') : up'[j].from \in Conns
        BY <2>2, FrameFacts DEF StreamTyped
      <4>3. \A j \in 1..Len(up') : up'[j].type = "OPEN" => up'[j].from # b
        <5>1. \A j \in 1..Len(up') : up'[j].type = "OPEN" /\ up'[j].from = b => j + 1 = 1
          BY <2>2, <2>6 DEF OpenedOnce
        <5> QED BY <2>2, <5>1
      <4>4. \A j \in 1..Len(up') : up'[j].type = "OPEN" => streamStr'[up'[j].from].st = "none"
        BY <2>2, <3>2, <4>2, <4>3 DEF OpenedOnce, StrChange
      <4>5. \A j, k \in 1..Len(up') :
              (up'[j].type = "OPEN" /\ up'[k].type = "OPEN" /\ up'[j].from = up'[k].from) => j = k
        BY <2>b
      <4> QED BY <4>4, <4>5 DEF OpenedOnce
    <3>6. Mapped'
      BY <2>2, <2>3, <3>1, <3>2 DEF StreamTyped, Mapped, Stream!Busy, StrChange
    <3> QED BY <2>4, <3>1, <3>3, <3>4, <3>5, <3>6
  <2>7. ASSUME f.type # "OPEN", UNCHANGED <<down, hostMap, streamClosing>>,
               applied' \subseteq Conns \X Conns,
               \/ UNCHANGED streamStr
               \/ c \in Conns /\ c # None /\ streamStr' = [streamStr EXCEPT ![c].eof = TRUE]
        PROVE  StreamInv'
    <3> HIDE DEF f
    <3>1. c # None => c \in Conns /\ Stream!Busy(c)
      BY <2>2 DEF Mapped
    <3> HIDE DEF c
    <3>2. UNCHANGED streamStr \/ (c \in Conns /\ c # None
            /\ StrChange(c, streamStr[c].st, TRUE, streamStr[c].read, streamStr[c].fin))
      <4>1. CASE UNCHANGED streamStr
        BY <4>1
      <4>2. CASE c \in Conns /\ c # None /\ streamStr' = [streamStr EXCEPT ![c].eof = TRUE]
        BY <4>2, <1>a, StrEffects
      <4> QED BY <2>7, <4>1, <4>2
    <3>3. StreamTyped'
      BY <2>2, <2>3, <2>7, <3>2 DEF StreamTyped, StrChange
    <3>a. \A d \in Conns : streamStr'[d].st = streamStr[d].st
      BY <3>2 DEF StrChange
    <3>4. HasNumber'
      BY <2>3, <3>a DEF HasNumber
    <3>5. OpenedOnce'
      <4>2. \A j \in 1..Len(up') : up'[j].from \in Conns
        BY <2>2, FrameFacts DEF StreamTyped
      <4>3. \A j \in 1..Len(up') : up'[j].type = "OPEN" => streamStr'[up'[j].from].st = "none"
        BY <2>2, <3>a, <4>2 DEF OpenedOnce
      <4>4. \A j, k \in 1..Len(up') :
              (up'[j].type = "OPEN" /\ up'[k].type = "OPEN" /\ up'[j].from = up'[k].from) => j = k
        BY <2>b
      <4> QED BY <4>3, <4>4 DEF OpenedOnce
    <3>6. Mapped'
      <4>1. CASE UNCHANGED streamStr
        BY <2>3, <2>7, <4>1 DEF Mapped, Stream!Busy
      <4>2. CASE c \in Conns /\ c # None /\ StrChange(c, streamStr[c].st, TRUE, streamStr[c].read,
                 streamStr[c].fin)
        <5>1. \A d \in Conns : /\ streamStr'[d].read <=> streamStr[d].read
                               /\ streamStr'[d].fin <=> streamStr[d].fin
                               /\ streamStr'[d].eof <=> (streamStr[d].eof \/ d = c)
          BY <4>2 DEF StrChange
        <5>2. \A d \in Conns : Stream!Busy(d)' <=> Stream!Busy(d)
          BY <3>a, <5>1 DEF Stream!Busy
        <5>3. \A i \in Stream!Ids : (hostMap[i] # None => id[hostMap[i]] = i
                /\ Stream!Busy(hostMap[i]))'
          BY <2>3, <2>7, <5>2, <1>c DEF Mapped, StreamTyped
        <5>4. \A d \in streamClosing' : streamStr'[d].st = "destroyed"
          BY <2>7, <3>a DEF Mapped, StreamTyped
        <5>5. \A d \in Conns : /\ streamStr'[d].st = "none" => ~streamStr'[d].eof
                                  /\ ~streamStr'[d].read /\ ~streamStr'[d].fin
                               /\ streamStr'[d].read => streamStr'[d].eof
          BY <3>1, <3>a, <4>2, <5>1 DEF Mapped, Stream!Busy
        <5> QED BY <5>3, <5>4, <5>5 DEF Mapped
      <4> QED BY <3>2, <4>1, <4>2
    <3> QED BY <2>4, <2>7, <3>3, <3>4, <3>5, <3>6
  <2>8. CASE f.type = "ERROR" /\ c # None
    <3> DEFINE e == [type |-> "ERROR", id |-> f.id, from |-> c]
    <3>1. /\ streamStr' = [streamStr EXCEPT ![c].st = "destroyed", ![c].told = TRUE]
          /\ hostMap' = [hostMap EXCEPT ![f.id] = None] /\ streamClosing' = streamClosing \cup {c}
          /\ down' = Append(down, e)
          /\ applied' = applied \cup {<<f.from, c>>}
      BY <1>6, <2>8 DEF Stream!HostReceives, Stream!HandleOpen, Stream!HandleFrame
    <3>2. /\ e \in FrameSet /\ c \in Conns /\ id[c] = f.id /\ e.id = id[e.from]
          /\ Stream!Busy(c) /\ <<f.from, c>> \in Conns \X Conns
      BY <2>2, <2>8, FrameFacts DEF Mapped
    <3> HIDE DEF f, c, e
    <3>3. Puts(down, down', e) /\ StrChange(c, "destroyed", streamStr[c].eof, streamStr[c].read,
            streamStr[c].fin)
      BY <1>a, <3>1, <3>2, PipeEffects, StrEffects
    <3>4. StreamTyped'
      BY <2>2, <2>3, <3>1, <3>2, <3>3 DEF StreamTyped, Puts, StrChange
    <3>5. FramesNumbered'
      BY <2>3, <2>4, <3>2, <3>3 DEF FramesNumbered, Puts
    <3>6. OpenedOnce'
      <4>2. \A j \in 1..Len(up') : up'[j].from \in Conns
        BY <2>2, FrameFacts DEF StreamTyped
      <4>3. \A j \in 1..Len(up') : up'[j].type = "OPEN" => streamStr'[up'[j].from].st = "none"
        <5>1. \A d \in Conns : streamStr[d].st = "none" => streamStr'[d].st = "none"
          BY <3>2, <3>3 DEF StrChange, Stream!Busy
        <5> QED BY <2>b, <4>2, <5>1
      <4>4. \A j, k \in 1..Len(up') :
              (up'[j].type = "OPEN" /\ up'[k].type = "OPEN" /\ up'[j].from = up'[k].from) => j = k
        BY <2>b
      <4> QED BY <4>3, <4>4 DEF OpenedOnce
    <3>7. HasNumber'
      BY <2>3, <3>1, <3>2, <3>3 DEF StreamTyped, HasNumber, Stream!Busy, StrChange
    <3>8. Mapped'
      BY <2>2, <2>3, <3>1, <3>2, <3>3 DEF StreamTyped, Mapped, Stream!Busy,
         Stream!TunnelStreamsAssumption, StrChange
    <3> QED BY <3>4, <3>5, <3>6, <3>7, <3>8
  <2>9. c # None => <<f.from, c>> \in Conns \X Conns /\ c \in Conns
    BY <2>2
  <2>10. applied \subseteq Conns \X Conns
    BY DEF StreamTyped
  <2>11. CASE f.type = "OPEN"
    BY <2>5, <2>6, <2>11
  <2>12. CASE f.type # "OPEN" /\ c = None
    BY <1>6, <2>7, <2>10, <2>12 DEF Stream!HostReceives, Stream!HandleOpen,
       Stream!HandleFrame, Stream!platform
  <2>13. CASE f.type # "OPEN" /\ c # None
    <3>1. CASE f.type = "DATA"
      BY <1>6, <2>7, <2>9, <2>10, <2>13, <3>1 DEF Stream!HostReceives, Stream!HandleOpen,
         Stream!HandleFrame, Stream!platform
    <3>2. CASE f.type = "END"
      BY <1>6, <2>7, <2>9, <2>10, <2>13, <3>2 DEF Stream!HostReceives, Stream!HandleOpen,
         Stream!HandleFrame
    <3> QED BY <2>2, <2>8, <2>13, <3>1, <3>2, FrameFacts
  <2> QED BY <2>11, <2>12, <2>13
<1>7. ASSUME NEW c \in Conns, streamStr[c].st # "none",
             streamStr' \in [Conns -> StrSet], \A d \in Conns \ {c} : streamStr'[d] = streamStr[d],
             streamStr'[c].st # "none", streamStr'[c].read => streamStr'[c].eof,
             \/ Stream!OnStreamClosed(c)
             \/ UNCHANGED hostMap /\ (Stream!Busy(c) => Stream!Busy(c)'),
             UNCHANGED <<Stream!agent, up>>, streamClosing' \subseteq streamClosing \cup {c},
             c \in streamClosing' => streamStr'[c].st = "destroyed",
             \/ UNCHANGED down
             \/ \E t \in {"DATA", "END", "ERROR"} : down' = Append(down, Stream!Frame(t, c)),
             UNCHANGED applied, errors' \in 0..MaxErrors, quiet' \in 0..MaxQuiet
      PROVE  StreamInv'
  <2>1. \A t \in {"DATA", "END", "ERROR"} :
          /\ Stream!Frame(t, c) \in FrameSet /\ id[c] \in Stream!Ids
          /\ Stream!Frame(t, c).id = id[c] /\ Stream!Frame(t, c).from = c
    BY <1>7, FrameFacts DEF Stream!Frame, StreamTyped, HasNumber, Stream!Ids
  <2>2. id[c] \in Stream!Ids /\ UNCHANGED <<sock, id, agentMap, next, up>>
    BY <1>7, <2>1 DEF Stream!agent
  <2>3. \/ UNCHANGED down
        \/ \E e \in FrameSet : e.id = id[c] /\ e.from = c /\ Puts(down, down', e)
    BY <1>7, <2>1, <1>a, PipeEffects
  <2>4. streamStr' \in [Conns -> StrSet] /\ streamStr'[c].st # "none"
          /\ \A d \in Conns \ {c} : streamStr'[d] = streamStr[d]
    BY <1>7
  <2>5. down' \in Seq(FrameSet) /\ hostMap' \in [Stream!Ids -> Conns \cup {None}]
          /\ streamClosing' \subseteq Conns
    BY <1>7, <2>2, <2>3, <1>a DEF StreamTyped, Stream!OnStreamClosed, Puts
  <2>6. StreamTyped'
    BY <1>7, <2>2, <2>4, <2>5 DEF StreamTyped
  <2>7. HasNumber' /\ OpenedOnce'
    <3>1. \A j \in 1..Len(up) : up[j].from \in Conns
      BY <1>a, FrameFacts
    <3>2. HasNumber'
      BY <1>7, <1>c, <2>2, <2>4 DEF HasNumber
    <3>3. OpenedOnce'
      BY <1>7, <2>2, <2>4, <3>1 DEF OpenedOnce
    <3> QED BY <3>2, <3>3
  <2>8. FramesNumbered'
    BY <2>2, <2>3 DEF FramesNumbered, Puts
  <2>9. Mapped'
    <3>1. ASSUME NEW i \in Stream!Ids, hostMap'[i] # None
          PROVE  (id[hostMap[i]] = i /\ Stream!Busy(hostMap[i]))'
      <4>1. hostMap'[i] = hostMap[i] /\ hostMap[i] \in Conns /\ id[hostMap[i]] = i
              /\ Stream!Busy(hostMap[i])
        BY <1>7, <2>2, <3>1 DEF Stream!OnStreamClosed, Mapped, StreamTyped
      <4>2. CASE hostMap[i] # c
        BY <2>2, <2>4, <4>1, <4>2 DEF Stream!Busy
      <4>3. CASE hostMap[i] = c
        BY <1>7, <2>2, <3>1, <4>1, <4>3 DEF Stream!OnStreamClosed, StreamTyped
      <4> QED BY <4>2, <4>3
    <3>2. \A d \in streamClosing' : streamStr'[d].st = "destroyed"
      BY <1>7, <2>4, <2>5 DEF Mapped
    <3>3. \A d \in Conns : /\ streamStr'[d].st = "none" => ~streamStr'[d].eof
                              /\ ~streamStr'[d].read /\ ~streamStr'[d].fin
                           /\ streamStr'[d].read => streamStr'[d].eof
      BY <1>7, <2>4 DEF Mapped
    <3> QED BY <3>1, <3>2, <3>3 DEF Mapped
  <2> QED BY <2>6, <2>7, <2>8, <2>9
<1>8. ASSUME NEW c \in Conns,
             \/ Stream!CloseEvent(c) \/ Stream!HostReads(c) \/ Stream!HostData(c)
                 \/ Stream!HostEnd(c) \/ Stream!HostFails(c)
             \/ Stream!HostDestroys(c)
      PROVE  StreamInv'
  <2>1. /\ streamStr[c].read => streamStr[c].eof
        /\ errors \in 0..MaxErrors /\ quiet \in 0..MaxQuiet /\ MaxErrors \in Nat /\ MaxQuiet \in Nat
        /\ c \in streamClosing => streamStr[c].st = "destroyed"
    BY DEF StreamTyped, Mapped, Stream!TunnelStreamsAssumption
  <2>2. CASE Stream!CloseEvent(c)
    BY <1>a, <2>1, <2>2, <1>7 DEF Stream!CloseEvent
  <2>3. CASE Stream!HostReads(c)
    <3>1. StrChange(c, streamStr[c].st, streamStr[c].eof, TRUE, streamStr[c].fin)
            /\ streamStr[c].st = "live" /\ streamStr[c].eof
      BY <2>3, <1>a, StrEffects DEF Stream!HostReads, Stream!Behind
    <3>2. Stream!OnStreamClosed(c) \/ (UNCHANGED hostMap /\ (Stream!Busy(c) => Stream!Busy(c)'))
      BY <2>3, <3>1 DEF Stream!HostReads, StrChange, Stream!Busy
    <3>3. /\ streamStr' \in [Conns -> StrSet] /\ \A d \in Conns \ {c} : streamStr'[d] = streamStr[d]
          /\ streamStr'[c].st # "none" /\ (streamStr'[c].read => streamStr'[c].eof)
              /\ streamStr'[c].st = streamStr[c].st
      BY <2>1, <3>1 DEF StrChange
    <3> QED BY <2>3, <2>1, <3>1, <3>2, <3>3, <1>7 DEF Stream!HostReads
  <2>4. CASE Stream!HostData(c)
    <3>1. StrChange(c, streamStr[c].st, streamStr[c].eof, streamStr[c].read, streamStr[c].fin)
            /\ streamStr[c].st = "live"
      BY <2>4, <1>a, StrEffects DEF Stream!HostData
    <3>2. Stream!OnStreamClosed(c) \/ (UNCHANGED hostMap /\ (Stream!Busy(c) => Stream!Busy(c)'))
      BY <2>4, <3>1 DEF Stream!HostData, StrChange, Stream!Busy
    <3>3. /\ streamStr' \in [Conns -> StrSet] /\ \A d \in Conns \ {c} : streamStr'[d] = streamStr[d]
          /\ streamStr'[c].st # "none" /\ (streamStr'[c].read => streamStr'[c].eof)
              /\ streamStr'[c].st = streamStr[c].st
      BY <2>1, <3>1 DEF StrChange
    <3> QED BY <2>4, <2>1, <3>1, <3>2, <3>3, <1>7 DEF Stream!HostData
  <2>5. CASE Stream!HostEnd(c)
    <3>1. StrChange(c, streamStr[c].st, streamStr[c].eof, streamStr[c].read, TRUE)
            /\ streamStr[c].st = "live"
      BY <2>5, <1>a, StrEffects DEF Stream!HostEnd
    <3>2. Stream!OnStreamClosed(c) \/ (UNCHANGED hostMap /\ (Stream!Busy(c) => Stream!Busy(c)'))
      BY <2>5, <3>1 DEF Stream!HostEnd, StrChange, Stream!Busy
    <3>3. /\ streamStr' \in [Conns -> StrSet] /\ \A d \in Conns \ {c} : streamStr'[d] = streamStr[d]
          /\ streamStr'[c].st # "none" /\ (streamStr'[c].read => streamStr'[c].eof)
              /\ streamStr'[c].st = streamStr[c].st
      BY <2>1, <3>1 DEF StrChange
    <3> QED BY <2>5, <2>1, <3>1, <3>2, <3>3, <1>7 DEF Stream!HostEnd
  <2>6. CASE Stream!HostFails(c)
    <3>1. StrChange(c, "destroyed", streamStr[c].eof, streamStr[c].read, streamStr[c].fin)
            /\ streamStr[c].st = "live"
      BY <2>6, <1>a, StrEffects DEF Stream!HostFails, Stream!Busy
    <3>2. Stream!OnStreamClosed(c) \/ (UNCHANGED hostMap /\ (Stream!Busy(c) => Stream!Busy(c)'))
      BY <2>6, <3>1 DEF Stream!HostFails, StrChange, Stream!Busy
    <3>3. /\ streamStr' \in [Conns -> StrSet] /\ \A d \in Conns \ {c} : streamStr'[d] = streamStr[d]
          /\ streamStr'[c].st # "none" /\ (streamStr'[c].read => streamStr'[c].eof)
              /\ streamStr'[c].st = "destroyed"
      BY <2>1, <3>1 DEF StrChange
    <3> QED BY <2>6, <2>1, <3>1, <3>2, <3>3, <1>7 DEF Stream!HostFails, Stream!Error
  <2>7. CASE Stream!HostDestroys(c)
    <3>1. StrChange(c, "destroyed", streamStr[c].eof, streamStr[c].read, streamStr[c].fin)
            /\ streamStr[c].st = "live"
      BY <2>7, <1>a, StrEffects DEF Stream!HostDestroys, Stream!Busy
    <3>2. Stream!OnStreamClosed(c) \/ (UNCHANGED hostMap /\ (Stream!Busy(c) => Stream!Busy(c)'))
      BY <2>7, <3>1 DEF Stream!HostDestroys, StrChange, Stream!Busy
    <3>3. /\ streamStr' \in [Conns -> StrSet] /\ \A d \in Conns \ {c} : streamStr'[d] = streamStr[d]
          /\ streamStr'[c].st # "none" /\ (streamStr'[c].read => streamStr'[c].eof)
              /\ streamStr'[c].st = "destroyed"
      BY <2>1, <3>1 DEF StrChange
    <3> QED BY <2>7, <2>1, <3>1, <3>2, <3>3, <1>7 DEF Stream!HostDestroys
  <2> QED BY <1>8, <2>2, <2>3, <2>4, <2>5, <2>6, <2>7
<1>9. CASE UNCHANGED Stream!vars
  BY <1>9 DEF Stream!vars, StreamTyped, HasNumber, FramesNumbered, Mapped, OpenedOnce,
     Stream!Busy
<1> QED BY <1>1, <1>3, <1>4, <1>5, <1>6, <1>8, <1>9 DEF Stream!Next, Stream!Step

(* What the invariant says of connections and of frames.                   *)
LEMMA StreamFacts ==
  Stream!TunnelStreamsAssumption /\ StreamInv =>
           /\ sock \in [Conns -> SockSet] /\ streamStr \in [Conns -> StrSet]
           /\ up \in Seq(FrameSet) /\ down \in Seq(FrameSet)
           /\ \A j \in 1..Len(up) : /\ up[j] \in FrameSet /\ up[j].from \in Conns
                                       /\ up[j].id \in Stream!Ids
                                    /\ up[j].id = id[up[j].from]
           /\ \A j \in 1..Len(down) : /\ down[j] \in FrameSet /\ down[j].from \in Conns
                                         /\ down[j].id \in Stream!Ids
                                      /\ down[j].id = id[down[j].from]
           /\ 0 \notin Stream!Ids /\ None \notin Conns
           /\ \A c \in Conns :
                /\ sock[c].st \in {"none", "open", "closed", "refused"}
                /\ streamStr[c].st \in {"none", "live", "destroyed"}
                /\ (sock[c].st \in {"open", "closed"} \/ streamStr[c].st # "none")
                    => id[c] \in Stream!Ids
                /\ id[c] \in Stream!Ids => sock[c].st \in {"open", "closed"}
           /\ \A i \in Stream!Ids : agentMap[i] \in Conns \cup {None}
               /\ hostMap[i] \in Conns \cup {None}
<1> SUFFICES ASSUME Stream!TunnelStreamsAssumption, StreamInv
             PROVE  /\ sock \in [Conns -> SockSet] /\ streamStr \in [Conns -> StrSet]
                    /\ up \in Seq(FrameSet) /\ down \in Seq(FrameSet)
                    /\ \A j \in 1..Len(up) : /\ up[j] \in FrameSet /\ up[j].from \in Conns
                                                /\ up[j].id \in Stream!Ids
                                             /\ up[j].id = id[up[j].from]
                    /\ \A j \in 1..Len(down) : /\ down[j] \in FrameSet /\ down[j].from \in Conns
                                                  /\ down[j].id \in Stream!Ids
                                               /\ down[j].id = id[down[j].from]
                    /\ 0 \notin Stream!Ids /\ None \notin Conns
                    /\ \A c \in Conns :
                         /\ sock[c].st \in {"none", "open", "closed", "refused"}
                         /\ streamStr[c].st \in {"none", "live", "destroyed"}
                         /\ (sock[c].st \in {"open", "closed"} \/ streamStr[c].st # "none")
                             => id[c] \in Stream!Ids
                         /\ id[c] \in Stream!Ids => sock[c].st \in {"open", "closed"}
                    /\ \A i \in Stream!Ids : agentMap[i] \in Conns \cup {None}
                        /\ hostMap[i] \in Conns \cup {None}
  OBVIOUS
<1>1. /\ sock \in [Conns -> SockSet] /\ streamStr \in [Conns -> StrSet]
      /\ up \in Seq(FrameSet) /\ down \in Seq(FrameSet)
      /\ \A i \in Stream!Ids : agentMap[i] \in Conns \cup {None} /\ hostMap[i] \in Conns \cup {None}
  BY DEF StreamInv, StreamTyped
<1>2. /\ \A j \in 1..Len(up) : up[j] \in FrameSet /\ up[j].from \in Conns /\ up[j].id \in Stream!Ids
      /\ \A j \in 1..Len(down) : down[j] \in FrameSet /\ down[j].from \in Conns
          /\ down[j].id \in Stream!Ids
  BY <1>1, FrameFacts
<1>3. \A c \in Conns : /\ id[c] \in 0..MaxStreams /\ sock[c].st \in {"none", "open", "closed",
                          "refused"}
                       /\ streamStr[c].st \in {"none", "live", "destroyed"}
  BY DEF StreamInv, StreamTyped, SockSet, StrSet
<1>4. /\ \A i \in 0..MaxStreams : i # 0 => i \in Stream!Ids
      /\ 0 \notin Stream!Ids /\ None \notin Conns
  BY DEF Stream!Ids, Stream!TunnelStreamsAssumption
<1> QED BY <1>1, <1>2, <1>3, <1>4 DEF StreamInv, HasNumber, FramesNumbered

-----------------------------------------------------------------------------
(* A new connection gets a number nobody had.                              *)
LEMMA NewNumber ==
  ASSUME Stream!TunnelStreamsAssumption, Enough, StreamInv, Distinct, NEW c \in Conns,
         sock[c].st = "none"
  PROVE  /\ Stream!Free # {} /\ Stream!AllocateStreamId = Cardinality(Used) + 1
         /\ c \notin Used /\ IsFiniteSet(Used) /\ Cardinality(Used) \in Nat
         /\ Cardinality(Used \cup {c}) = Cardinality(Used) + 1
<1>1. c \notin Used /\ Used \cup {c} \subseteq Conns /\ id[c] = 0
  BY DEF Used, StreamInv, HasNumber
<1>2. IsFiniteSet(Used) /\ IsFiniteSet(Used \cup {c})
  BY <1>1, FS_Subset DEF Enough
<1>3. /\ Cardinality(Used) \in Nat /\ Cardinality(Conns) \in Nat
      /\ Cardinality(Used \cup {c}) = Cardinality(Used) + 1
      /\ Cardinality(Used \cup {c}) <= Cardinality(Conns)
  BY <1>1, <1>2, FS_AddElement, FS_CardinalityType, FS_Subset DEF Enough
<1>4. Cardinality(Used) < MaxStreams /\ Cardinality(Used) >= 0
  BY <1>3 DEF Enough, Stream!TunnelStreamsAssumption
<1>5. next = Cardinality(Used) + 1
  <2>1. Cardinality(Used) % MaxStreams = Cardinality(Used)
    BY <1>3, <1>4 DEF Stream!TunnelStreamsAssumption
  <2> QED BY <2>1 DEF Distinct
<1>6. next \in Stream!Free
  <2>1. next \in Stream!Ids /\ agentMap[next] \in Conns \cup {None}
    BY StreamFacts DEF StreamInv, StreamTyped
  <2>2. ASSUME agentMap[next] # None PROVE FALSE
    <3>1. agentMap[next] \in Used /\ id[agentMap[next]] = next
      BY <2>1, <2>2, StreamFacts DEF StreamInv, HasNumber, Used
    <3> QED BY <3>1, <1>3, <1>5 DEF Distinct
  <2> QED BY <2>1, <2>2 DEF Stream!Free
<1> QED BY <1>1, <1>2, <1>3, <1>5, <1>6, Allocated DEF StreamInv, StreamTyped

(* Where there are numbers for all, none is used again.                    *)
LEMMA ApartStep ==
  Stream!TunnelStreamsAssumption /\ Enough /\ StreamInv /\ ApartInv /\ [Stream!Next]_(Stream!vars)
      => ApartInv'
<1> SUFFICES ASSUME Stream!TunnelStreamsAssumption, Enough, StreamInv, ApartInv,
                    [Stream!Next]_(Stream!vars)
             PROVE  ApartInv'
  OBVIOUS
<1> USE DEF ApartInv
<1>1. ASSUME NEW c \in Conns, Stream!Connect(c)
      PROVE  ApartInv'
  <2>1. /\ sock[c].st = "none" /\ id' = [id EXCEPT ![c] = Cardinality(Used) + 1]
        /\ next' = ((Cardinality(Used) + 1) % MaxStreams) + 1
        /\ UNCHANGED <<streamStr, hostMap, applied>>
    BY <1>1, NewNumber DEF Stream!Connect, Stream!platform
  <2>2. /\ c \notin Used /\ IsFiniteSet(Used) /\ Cardinality(Used) \in Nat
        /\ Cardinality(Used \cup {c}) = Cardinality(Used) + 1
    BY <2>1, NewNumber
  <2>3. /\ id'[c] = Cardinality(Used) + 1 /\ \A d \in Conns \ {c} : id'[d] = id[d]
        /\ id[c] = 0 /\ streamStr[c].st = "none" /\ \A d \in Conns : id[d] \in Nat
    BY <2>1, StreamFacts DEF StreamInv, StreamTyped, HasNumber
  <2>4. Used' = Used \cup {c}
    BY <2>2, <2>3 DEF Used
  <2>5. Distinct'
    <3>1. \A d \in Used : d \in Conns /\ d # c /\ id'[d] = id[d] /\ id[d] <= Cardinality(Used)
            /\ id[d] \in Nat
      BY <2>2, <2>3 DEF Used, Distinct
    <3>2. \A d, e \in Used' : id'[d] = id'[e] => d = e
      BY <2>2, <2>3, <2>4, <3>1 DEF Distinct
    <3>3. \A d \in Used' : id'[d] <= Cardinality(Used')
      BY <2>2, <2>3, <2>4, <3>1
    <3>4. next' = (Cardinality(Used') % MaxStreams) + 1
      BY <2>1, <2>2, <2>4
    <3> QED BY <3>2, <3>3, <3>4 DEF Distinct
  <2>6. Stream!OwnFramesOnly' /\ Stream!StreamKeepsNumber'
    BY <2>1, <2>3 DEF Stream!OwnFramesOnly, Stream!StreamKeepsNumber, Stream!Busy
  <2> QED BY <2>5, <2>6
<1>2. ASSUME UNCHANGED <<id, next>>
      PROVE  Distinct' /\ \A c, d \in Conns : id[c] \in Stream!Ids /\ id[c] = id[d] => c = d
  <2>1. Used' = Used
    BY <1>2 DEF Used
  <2>2. Distinct'
    BY <1>2, <2>1 DEF Distinct
  <2>3. \A c \in Conns : id[c] \in Stream!Ids => c \in Used
    BY StreamFacts DEF Used
  <2> QED BY <2>2, <2>3 DEF Distinct
<1>3. ASSUME NEW c \in Conns, Stream!ClientData(c) \/ Stream!ClientEnd(c) \/ Stream!ClientError(c)
             \/ Stream!SocketCloses(c)
      PROVE  ApartInv'
  <2>1. UNCHANGED <<id, next, streamStr, hostMap, applied>>
    BY <1>3 DEF Stream!ClientData, Stream!ClientEnd, Stream!ClientError,
       Stream!SocketCloses, Stream!platform
  <2> QED BY <1>2, <2>1 DEF Stream!OwnFramesOnly, Stream!StreamKeepsNumber, Stream!Busy
<1>4. ASSUME Stream!AgentReceives
      PROVE  ApartInv'
  <2> DEFINE f == Head(down)
             c == agentMap[f.id]
  <2>1. UNCHANGED <<id, next, streamStr, hostMap>>
          /\ applied' \in {applied, applied \cup {<<f.from, c>>}}
        /\ (applied' = applied \/ c # None) /\ f = down[1] /\ 1 \in 1..Len(down)
    BY <1>4, StreamFacts, PipeEffects DEF Stream!AgentReceives, Stream!platform, Takes
  <2>2. c # None => f.from = c
    <3>1. f.from \in Conns /\ f.id \in Stream!Ids /\ f.id = id[f.from]
      BY <2>1, StreamFacts
    <3> HIDE DEF f
    <3> QED BY <1>2, <2>1, <3>1, StreamFacts DEF StreamInv, HasNumber
  <2>3. Stream!OwnFramesOnly'
    BY <2>1, <2>2 DEF Stream!OwnFramesOnly
  <2> QED BY <1>2, <2>1, <2>3 DEF Stream!StreamKeepsNumber, Stream!Busy
<1>5. ASSUME Stream!HostReceives
      PROVE  ApartInv'
  <2> DEFINE f == Head(up)
             c == hostMap[f.id]
  <2>1. /\ UNCHANGED <<sock, id, agentMap, next>>
        /\ f = up[1] /\ 1 \in 1..Len(up)
    BY <1>5, StreamFacts, PipeEffects DEF Stream!HostReceives, Stream!agent, Takes
  <2>2. f.from \in Conns /\ f.id \in Stream!Ids /\ f.id = id[f.from]
    BY <2>1, StreamFacts
  <2>3. c # None => f.from = c
    BY <1>2, <2>1, <2>2, StreamFacts DEF StreamInv, Mapped
  <2>4. Stream!OwnFramesOnly'
    BY <1>5, <2>3 DEF Stream!HostReceives, Stream!HandleOpen, Stream!HandleFrame,
       Stream!OwnFramesOnly, Stream!platform
  <2>5. \A d \in Conns : d # f.from => streamStr'[d] = streamStr[d] /\ (id[d] \in Stream!Ids
          => hostMap'[id[d]] = hostMap[id[d]])
    BY <1>2, <1>5, <2>1, <2>2, <2>3, StreamFacts DEF Stream!HostReceives,
       Stream!HandleOpen, Stream!HandleFrame, Stream!platform, StreamInv, StreamTyped
  <2>a. PICK b \in Conns : b = f.from
    BY <2>2
  <2>6. Stream!Busy(b)' => hostMap'[id[b]] = b
    <3>1. CASE f.type = "OPEN"
      <4>1. streamStr[b].st = "none"
        BY <2>1, <2>a, <3>1 DEF StreamInv, OpenedOnce
      <4>2. \/ UNCHANGED streamStr
            \/ hostMap' = [hostMap EXCEPT ![f.id] = f.from] /\ UNCHANGED id
        BY <1>5, <2>1, <3>1 DEF Stream!HostReceives, Stream!HandleOpen, Stream!HandleFrame
      <4> QED BY <2>2, <2>a, <4>1, <4>2 DEF Stream!Busy, StreamInv, StreamTyped
    <3>2. CASE f.type # "OPEN" /\ (c = None \/ f.type = "DATA")
      BY <1>5, <2>a, <2>1, <2>2, <3>2 DEF Stream!HostReceives, Stream!HandleOpen,
         Stream!HandleFrame, Stream!Busy, Stream!platform, Stream!StreamKeepsNumber
    <3>3. CASE f.type = "END" /\ c # None
      <4>1. hostMap' = hostMap
        BY <1>5, <2>a, <3>3 DEF Stream!HostReceives, Stream!HandleOpen, Stream!HandleFrame
      <4> QED BY <2>2, <2>3, <2>a, <3>3, <4>1
    <3>4. CASE f.type = "ERROR" /\ c # None
      <4>1. streamStr' = [streamStr EXCEPT ![b].st = "destroyed", ![b].told = TRUE]
        BY <1>5, <2>a, <2>3, <3>4 DEF Stream!HostReceives, Stream!HandleOpen,
           Stream!HandleFrame
      <4>2. streamStr'[b].st = "destroyed"
        BY <4>1, StreamFacts, StrEffects DEF StrChange
      <4> QED BY <4>2 DEF Stream!Busy
    <3>5. f.type \in {"OPEN", "DATA", "END", "ERROR"}
      BY <2>1, StreamFacts, FrameFacts
    <3> QED BY <3>1, <3>2, <3>3, <3>4, <3>5
  <2>7. Stream!StreamKeepsNumber'
    <3> HIDE DEF f, c
    <3>1. \A d \in Conns : d # b => (Stream!Busy(d)' => Stream!Busy(d) /\ id[d] \in Stream!Ids)
      BY <2>5, <2>a, StreamFacts DEF Stream!Busy
    <3> QED BY <2>1, <2>5, <2>6, <2>a, <3>1 DEF Stream!StreamKeepsNumber
  <2> QED BY <1>2, <2>1, <2>4, <2>7
<1>6. ASSUME NEW c \in Conns,
             \/ Stream!CloseEvent(c) \/ Stream!HostReads(c) \/ Stream!HostData(c)
                 \/ Stream!HostEnd(c) \/ Stream!HostFails(c)
             \/ Stream!HostDestroys(c)
      PROVE  ApartInv'
  <2>1. UNCHANGED <<sock, id, agentMap, next, applied>>
    BY <1>6 DEF Stream!CloseEvent, Stream!HostReads, Stream!HostData, Stream!HostEnd,
       Stream!HostFails, Stream!HostDestroys, Stream!agent
  <2>2. ASSUME Stream!OnStreamClosed(c) \/ UNCHANGED hostMap, id[c] \in Stream!Ids,
               \A d \in Conns \ {c} : streamStr'[d] = streamStr[d],
               Stream!Busy(c)' => Stream!Busy(c) /\ UNCHANGED hostMap
        PROVE  ApartInv'
    <3>1. \A d \in Conns \ {c} : Stream!Busy(d)' => hostMap'[id[d]] = d
      BY <1>2, <2>1, <2>2, StreamFacts DEF Stream!OnStreamClosed,
         Stream!StreamKeepsNumber, Stream!Busy, StreamInv, StreamTyped
    <3>2. Stream!Busy(c)' => hostMap'[id[c]] = c
      BY <2>2 DEF Stream!StreamKeepsNumber
    <3>3. Stream!StreamKeepsNumber'
      BY <2>1, <3>1, <3>2 DEF Stream!StreamKeepsNumber
    <3> QED BY <1>2, <2>1, <3>3 DEF Stream!OwnFramesOnly
  <2>3. CASE Stream!CloseEvent(c)
    <3>1. streamStr[c].st = "destroyed" /\ id[c] \in Stream!Ids
      BY <2>3, StreamFacts DEF Stream!CloseEvent, StreamInv, Mapped
    <3> QED BY <2>2, <2>3, <3>1 DEF Stream!CloseEvent, Stream!Busy
  <2>4. CASE Stream!HostReads(c)
    <3>1. StrChange(c, streamStr[c].st, streamStr[c].eof, TRUE, streamStr[c].fin)
            /\ streamStr[c].st = "live"
      BY <2>4, StreamFacts, StrEffects DEF Stream!HostReads, Stream!Behind
    <3>2. id[c] \in Stream!Ids
      BY <3>1, StreamFacts
    <3>3. (Stream!OnStreamClosed(c) \/ UNCHANGED hostMap) /\ (Stream!Busy(c)' => Stream!Busy(c)
            /\ UNCHANGED hostMap)
      BY <2>4, <3>1 DEF Stream!HostReads, StrChange, Stream!Busy
    <3> QED BY <2>2, <3>1, <3>2, <3>3 DEF StrChange
  <2>5. CASE Stream!HostData(c)
    <3>1. StrChange(c, streamStr[c].st, streamStr[c].eof, streamStr[c].read, streamStr[c].fin)
            /\ streamStr[c].st = "live"
      BY <2>5, StreamFacts, StrEffects DEF Stream!HostData
    <3>2. id[c] \in Stream!Ids
      BY <3>1, StreamFacts
    <3>3. (Stream!OnStreamClosed(c) \/ UNCHANGED hostMap) /\ (Stream!Busy(c)' => Stream!Busy(c)
            /\ UNCHANGED hostMap)
      BY <2>5, <3>1 DEF Stream!HostData, StrChange, Stream!Busy
    <3> QED BY <2>2, <3>1, <3>2, <3>3 DEF StrChange
  <2>6. CASE Stream!HostEnd(c)
    <3>1. StrChange(c, streamStr[c].st, streamStr[c].eof, streamStr[c].read, TRUE)
            /\ streamStr[c].st = "live"
      BY <2>6, StreamFacts, StrEffects DEF Stream!HostEnd
    <3>2. id[c] \in Stream!Ids
      BY <3>1, StreamFacts
    <3>3. (Stream!OnStreamClosed(c) \/ UNCHANGED hostMap) /\ (Stream!Busy(c)' => Stream!Busy(c)
            /\ UNCHANGED hostMap)
      BY <2>6, <3>1 DEF Stream!HostEnd, StrChange, Stream!Busy
    <3> QED BY <2>2, <3>1, <3>2, <3>3 DEF StrChange
  <2>7. CASE Stream!HostFails(c)
    <3>1. StrChange(c, "destroyed", streamStr[c].eof, streamStr[c].read, streamStr[c].fin)
            /\ streamStr[c].st = "live"
      BY <2>7, StreamFacts, StrEffects DEF Stream!HostFails, Stream!Busy
    <3>2. id[c] \in Stream!Ids
      BY <3>1, StreamFacts
    <3>3. (Stream!OnStreamClosed(c) \/ UNCHANGED hostMap) /\ (Stream!Busy(c)' => Stream!Busy(c)
            /\ UNCHANGED hostMap)
      BY <2>7, <3>1 DEF Stream!HostFails, StrChange, Stream!Busy
    <3> QED BY <2>2, <3>1, <3>2, <3>3 DEF StrChange
  <2>8. CASE Stream!HostDestroys(c)
    <3>1. StrChange(c, "destroyed", streamStr[c].eof, streamStr[c].read, streamStr[c].fin)
            /\ streamStr[c].st = "live"
      BY <2>8, StreamFacts, StrEffects DEF Stream!HostDestroys, Stream!Busy
    <3>2. id[c] \in Stream!Ids
      BY <3>1, StreamFacts
    <3>3. (Stream!OnStreamClosed(c) \/ UNCHANGED hostMap) /\ (Stream!Busy(c)' => Stream!Busy(c)
            /\ UNCHANGED hostMap)
      BY <2>8, <3>1 DEF Stream!HostDestroys, StrChange, Stream!Busy
    <3> QED BY <2>2, <3>1, <3>2, <3>3 DEF StrChange
  <2> QED BY <1>6, <2>3, <2>4, <2>5, <2>6, <2>7, <2>8
<1>7. CASE UNCHANGED Stream!vars
  BY <1>2, <1>7 DEF Stream!vars, Stream!OwnFramesOnly, Stream!StreamKeepsNumber,
     Stream!Busy
<1> QED BY <1>1, <1>3, <1>4, <1>5, <1>6, <1>7 DEF Stream!Next, Stream!Step

(* The next frame for the host: an OPEN finds its number free, since the   *)
(* handler that had it is done; any other frame finds its own stream.      *)
LEMMA HeadOfUp ==
  ASSUME Stream!TunnelStreamsAssumption, StreamInv, OrderlyInv, up # <<>>, Stream!Behind = {}
  PROVE  LET f == up[1]
         IN  /\ f.type = "OPEN" => /\ hostMap[f.id] = None
                                   /\ \A d \in Conns : Stream!Busy(d) => id[d] # f.id
             /\ f.type # "OPEN" => hostMap[f.id] = f.from /\ Stream!Busy(f.from)
                 /\ f.type \in {"DATA", "END"}
<1> DEFINE f == up[1]
<1>1. 1 \in 1..Len(up) /\ up \in Seq(FrameSet)
  BY StreamFacts
<1>2. f.from \in Conns /\ f.id \in Stream!Ids /\ f.id = id[f.from]
        /\ f.type \in {"OPEN", "DATA", "END"}
  BY <1>1, StreamFacts, FrameFacts DEF OrderlyInv, NoError
<1>3. ASSUME f.type = "OPEN", NEW d \in Conns, Stream!Busy(d), id[d] = f.id
      PROVE  FALSE
  <2>1. streamStr[f.from].st = "none" /\ d # f.from
    BY <1>1, <1>3 DEF StreamInv, OpenedOnce, Stream!Busy
  <2>2. sock[d].st = "closed" /\ \A j \in 1..Len(up) : up[j].from = d => j < 1
    BY <1>1, <1>3, <2>1 DEF OrderlyInv, Succession
  <2>3. sock[d].fin /\ sock[d].ended
    BY <2>2 DEF OrderlyInv, NoError
  <2>4. streamStr[d].fin
    BY <2>3 DEF OrderlyInv, DownOrder
  <2>5. streamStr[d].eof
    <3>1. \A j \in 1..Len(up) : ~(j < 1)
      OBVIOUS
    <3> QED BY <2>2, <2>3, <3>1 DEF OrderlyInv, UpOrder
  <2> QED BY <1>3, <2>4, <2>5 DEF Stream!Behind, Stream!Busy
<1>4. ASSUME f.type = "OPEN" PROVE hostMap[f.id] = None
  <2>1. hostMap[f.id] # None => hostMap[f.id] \in Conns
    BY <1>2, StreamFacts
  <2> QED BY <1>2, <1>3, <1>4, <2>1 DEF StreamInv, Mapped
<1>5. ASSUME f.type # "OPEN"
      PROVE  hostMap[f.id] = f.from /\ Stream!Busy(f.from)
  <2>1. ~streamStr[f.from].eof /\ streamStr[f.from].st # "none"
    <3>1. \A j \in 1..(1 - 1) : FALSE
      OBVIOUS
    <3> QED BY <1>1, <1>5, <3>1 DEF OrderlyInv, UpOrder
  <2>2. streamStr[f.from].st = "live" /\ ~streamStr[f.from].read
    BY <1>2, <2>1, StreamFacts DEF OrderlyInv, NoError, StreamInv, Mapped
  <2> QED BY <1>2, <2>2 DEF Stream!Busy, OrderlyInv, Stream!StreamKeepsNumber
<1> QED BY <1>2, <1>3, <1>4, <1>5

LEMMA OrderlyInit == Stream!TunnelStreamsAssumption /\ Orderly /\ Stream!Init => OrderlyInv
<1> SUFFICES ASSUME Stream!TunnelStreamsAssumption, Orderly, Stream!Init PROVE OrderlyInv
  OBVIOUS
<1>1. up = <<>> /\ down = <<>> /\ Len(up) = 0 /\ Len(down) = 0
  BY DEF Stream!Init
<1>2. /\ \A c \in Conns : /\ sock[c].st = "none" /\ ~sock[c].fin /\ ~sock[c].ended /\ id[c] = 0
                          /\ streamStr[c].st = "none" /\ ~streamStr[c].eof
      /\ streamClosing = {} /\ applied = {} /\ errors = 0 /\ quiet = 0
  BY DEF Stream!Init, Stream!NewSock, Stream!NewStr
<1>3. NoError /\ DownOrder /\ UpOrder /\ Succession
  BY <1>1, <1>2 DEF NoError, DownOrder, UpOrder, Succession
<1>4. Stream!OwnFramesOnly /\ Stream!StreamKeepsNumber
  BY <1>2 DEF Stream!OwnFramesOnly, Stream!StreamKeepsNumber, Stream!Busy
<1> QED BY <1>3, <1>4 DEF OrderlyInv

(* A connection with frames on their way down, or with no END of its own   *)
(* yet, is not closed.                                                     *)
LEMMA OrderlyStep ==
  Stream!TunnelStreamsAssumption /\ Orderly /\ StreamInv /\ OrderlyInv
      /\ [Stream!Next]_(Stream!vars) => OrderlyInv'
<1> SUFFICES ASSUME Stream!TunnelStreamsAssumption, Orderly, StreamInv, OrderlyInv,
                    [Stream!Next]_(Stream!vars)
             PROVE  OrderlyInv'
  OBVIOUS
<1> USE DEF OrderlyInv
<1>a. /\ sock \in [Conns -> SockSet] /\ streamStr \in [Conns -> StrSet]
      /\ up \in Seq(FrameSet) /\ down \in Seq(FrameSet) /\ Len(up) \in Nat /\ Len(down) \in Nat
      /\ \A j \in 1..Len(up) : up[j].from \in Conns /\ up[j].id \in Stream!Ids
          /\ up[j].id = id[up[j].from]
      /\ \A j \in 1..Len(down) : down[j].from \in Conns /\ down[j].id \in Stream!Ids
          /\ down[j].id = id[down[j].from]
  BY StreamFacts
<1>1. ASSUME NEW c \in Conns, Stream!Connect(c), Stream!Free = {}
      PROVE  OrderlyInv'
  <2>1. /\ sock' = [sock EXCEPT ![c].st = "refused"] /\ sock[c].st = "none"
        /\ UNCHANGED <<id, agentMap, next, up, down, streamStr, hostMap, streamClosing, applied,
            errors, quiet>>
    BY <1>1 DEF Stream!Connect, Stream!platform
  <2>2. SockChange(c, "refused", sock[c].fin, sock[c].ended)
    BY <2>1, <1>a, SockEffects
  <2>3. \A d \in Conns : /\ sock'[d].st # sock[d].st => sock[d].st = "none"
                            /\ sock'[d].st = "refused"
                         /\ sock'[d].fin <=> sock[d].fin
                         /\ sock'[d].ended <=> sock[d].ended
    BY <2>1, <2>2 DEF SockChange
  <2>4. NoError'
    BY <2>1, <2>3 DEF NoError
  <2>5. DownOrder'
    BY <1>a, <2>1, <2>3 DEF DownOrder
  <2>6. UpOrder'
    BY <1>a, <2>1, <2>3 DEF UpOrder
  <2>7. Succession'
    BY <1>a, <2>1, <2>3 DEF Succession
  <2> QED BY <2>1, <2>4, <2>5, <2>6, <2>7 DEF Stream!OwnFramesOnly,
             Stream!StreamKeepsNumber, Stream!Busy
<1>2. ASSUME NEW c \in Conns, Stream!Connect(c), Stream!Free # {}
      PROVE  OrderlyInv'
  <2> DEFINE i == Stream!AllocateStreamId
             f == [type |-> "OPEN", id |-> i, from |-> c]
  <2>1. i \in Stream!Ids /\ agentMap[i] = None
    BY <1>2, Allocated DEF StreamInv, StreamTyped, Stream!Free
  <2> HIDE DEF i
  <2>2. /\ sock' = [sock EXCEPT ![c].st = "open"] /\ sock[c].st = "none"
        /\ id' = [id EXCEPT ![c] = i] /\ up' = Append(up, f)
        /\ UNCHANGED <<down, streamStr, hostMap, streamClosing, applied, errors, quiet>>
    BY <1>2 DEF Stream!Connect, Stream!platform, i
  <2>3. id[c] = 0 /\ streamStr[c].st = "none" /\ f \in FrameSet /\ f.type = "OPEN" /\ f.id = i
          /\ f.from = c
    BY <2>1, <2>2, FrameFacts DEF StreamInv, HasNumber
  <2> HIDE DEF f
  <2>4. SockChange(c, "open", sock[c].fin, sock[c].ended) /\ Puts(up, up', f)
    BY <2>2, <2>3, <1>a, SockEffects, PipeEffects
  <2>5. /\ \A j \in 1..Len(up) : up[j].from # c /\ up'[j] = up[j]
        /\ \A j \in 1..Len(down) : down[j].from # c
        /\ id'[c] = i /\ \A d \in Conns : d # c => id'[d] = id[d]
    <3>1. 0 \notin Stream!Ids /\ id \in [Conns -> 0..MaxStreams]
      BY StreamFacts DEF StreamInv, StreamTyped
    <3>2. \A j \in 1..Len(up) : up[j].from # c /\ up'[j] = up[j]
      BY <1>a, <2>3, <2>4, <3>1 DEF Puts
    <3>3. \A j \in 1..Len(down) : down[j].from # c
      BY <1>a, <2>3, <3>1
    <3> QED BY <2>2, <3>1, <3>2, <3>3
  <2>6. \A d \in Conns : /\ d # c => sock'[d] = sock[d]
                         /\ sock'[d].fin <=> sock[d].fin
                         /\ sock'[d].ended <=> sock[d].ended
    BY <2>4 DEF SockChange
  <2>7. sock'[c].st = "open" /\ ~sock'[c].fin /\ ~sock'[c].ended
    BY <2>2, <2>4 DEF SockChange, NoError
  <2>8. NoError'
    <3>1. \A j \in 1..Len(up') : up'[j].type # "ERROR"
      BY <2>3, <2>4 DEF NoError, Puts
    <3> QED BY <2>2, <2>6, <2>7, <3>1 DEF NoError
  <2>9. DownOrder'
    BY <1>a, <2>2, <2>5, <2>6, <2>7 DEF DownOrder
  <2>10. UpOrder'
    <3>1. \A k \in 1..Len(up') :
            up'[k].type # "OPEN" =>
              /\ k \in 1..Len(up) /\ up'[k] = up[k] /\ up[k].type # "OPEN" /\ up[k].from \in Conns
      BY <1>a, <2>3, <2>4 DEF Puts
    <3>2. ASSUME NEW k \in 1..Len(up'), up'[k].type # "OPEN"
          PROVE  (/\ ~streamStr[up[k].from].eof
                  /\ streamStr[up[k].from].st = "none" =>
                             \E j \in 1..(k - 1) : up[j].type = "OPEN" /\ up[j].from = up[k].from)'
      <4>1. k \in 1..Len(up) /\ up'[k] = up[k] /\ \A j \in 1..(k - 1) : j \in 1..Len(up)
        BY <1>a, <3>1, <3>2
      <4>2. \A j \in 1..(k - 1) : up'[j] = up[j]
        BY <2>5, <4>1
      <4> QED BY <2>2, <3>1, <3>2, <4>1, <4>2 DEF UpOrder
    <3>3. ASSUME NEW k \in 1..Len(up'), up'[k].type = "END"
          PROVE  (/\ sock[up[k].from].fin
                  /\ \A j \in 1..Len(up) : up[j].from = up[k].from => j <= k)'
      <4>1. k \in 1..Len(up) /\ up'[k] = up[k] /\ up[k].from \in Conns /\ up[k].from # c
        BY <3>1, <3>3, <2>5
      <4>2. \A j \in 1..Len(up') : up'[j].from = up[k].from => j \in 1..Len(up) /\ up'[j] = up[j]
        BY <2>3, <2>4, <4>1 DEF Puts
      <4> QED BY <2>6, <3>3, <4>1, <4>2 DEF UpOrder
    <3>4. ASSUME NEW d \in Conns
          PROVE  (/\ id[d] # 0 /\ streamStr[d].st = "none" =>
                       \E j \in 1..Len(up) : up[j].type = "OPEN" /\ up[j].from = d
                  /\ streamStr[d].eof => sock[d].fin
                  /\ sock[d].fin /\ ~streamStr[d].eof =>
                       \E j \in 1..Len(up) : up[j].type = "END" /\ up[j].from = d)'
      <4>1. \A j \in 1..Len(up) : j \in 1..Len(up') /\ up'[j] = up[j]
        BY <2>4 DEF Puts
      <4>2. \E j \in 1..Len(up') : up'[j].type = "OPEN" /\ up'[j].from = c
        BY <2>3, <2>4 DEF Puts
      <4> QED BY <2>2, <2>5, <2>6, <4>1, <4>2 DEF UpOrder
    <3> QED BY <3>2, <3>3, <3>4 DEF UpOrder
  <2>11. Succession'
    <3>1. ASSUME NEW k \in 1..Len(up'), up'[k].type = "OPEN", NEW d \in Conns,
                 d # up'[k].from, id'[d] = up'[k].id
          PROVE  sock'[d].st = "closed" /\ \A j \in 1..Len(up') : up'[j].from = d => j < k
      <4>1. CASE k \in 1..Len(up)
        <5> DEFINE e == up[k].from
        <5>1. up'[k] = up[k] /\ e \in Conns /\ e # c /\ id[e] = up[k].id
                /\ streamStr[e].st = "none" /\ e # d
          BY <1>a, <2>5, <3>1, <4>1 DEF StreamInv, OpenedOnce
        <5>2. sock[e].st = "open"
          <6>1. sock[e].ended => FALSE
            BY <5>1 DEF StreamInv, Mapped, DownOrder
          <6>2. sock[e].st # "closed"
            BY <5>1, <6>1 DEF NoError
          <6> QED BY <1>a, <4>1, <5>1, <6>2, StreamFacts
        <5>3. id[e] # i
          BY <2>1, <5>1, <5>2, StreamFacts DEF StreamInv, HasNumber
        <5>4. d # c
          BY <2>5, <3>1, <5>1, <5>3
        <5>5. sock[d].st = "closed" /\ \A j \in 1..Len(up) : up[j].from = d => j < k
          BY <2>5, <3>1, <4>1, <5>1, <5>4 DEF Succession
        <5>6. \A j \in 1..Len(up') : up'[j].from = d => j \in 1..Len(up) /\ up'[j] = up[j]
          BY <2>3, <2>4, <5>4 DEF Puts
        <5> QED BY <2>6, <5>4, <5>5, <5>6
      <4>2. CASE k = Len(up') /\ up'[k] = f
        <5>1. d # c /\ id[d] = i
          BY <2>3, <2>5, <3>1, <4>2
        <5>2. sock[d].st = "closed"
          BY <2>1, <5>1, StreamFacts DEF StreamInv, HasNumber
        <5>3. \A j \in 1..Len(up') : up'[j].from = d => j \in 1..Len(up)
          BY <2>3, <2>4, <5>1 DEF Puts
        <5> QED BY <1>a, <2>4, <2>6, <4>2, <5>1, <5>2, <5>3 DEF Puts
      <4> QED BY <2>4, <4>1, <4>2 DEF Puts
    <3> QED BY <3>1 DEF Succession
  <2>12. Stream!OwnFramesOnly' /\ Stream!StreamKeepsNumber'
    BY <2>2, <2>3, <2>5 DEF Stream!OwnFramesOnly, Stream!StreamKeepsNumber, Stream!Busy
  <2> QED BY <2>8, <2>9, <2>10, <2>11, <2>12
<1>3. ASSUME NEW c \in Conns, NEW t \in {"DATA", "END"}, sock[c].st = "open", ~sock[c].fin,
             up' = Append(up, Stream!Frame(t, c)), SockChange(c, "open", t = "END", sock[c].ended),
             UNCHANGED <<id, down, streamStr, hostMap, streamClosing, applied, errors, quiet>>
      PROVE  OrderlyInv'
  <2> DEFINE f == Stream!Frame(t, c)
  <2>1. f \in FrameSet /\ f.type = t /\ f.from = c
    BY <1>3, StreamFacts, FrameFacts DEF Stream!Frame
  <2> HIDE DEF f
  <2>2. Puts(up, up', f)
    BY <1>3, <2>1, <1>a, PipeEffects DEF f
  <2>3. \A d \in Conns : /\ sock'[d].st = sock[d].st
                         /\ sock'[d].fin <=> (sock[d].fin \/ (d = c /\ t = "END"))
                         /\ sock'[d].ended <=> sock[d].ended
    BY <1>3 DEF SockChange
  <2>4. NoError'
    <3>1. \A j \in 1..Len(up') : up'[j].type # "ERROR"
      BY <1>3, <2>1, <2>2 DEF NoError, Puts
    <3> QED BY <1>3, <2>3, <3>1 DEF NoError
  <2>5. DownOrder'
    BY <1>a, <1>3, <2>3 DEF DownOrder
  <2>6. ~streamStr[c].eof /\ \A j \in 1..Len(up) : up[j].from = c => up[j].type # "END"
    BY <1>3 DEF UpOrder
  <2>7. streamStr[c].st = "none" => \E j \in 1..Len(up) : up[j].type = "OPEN" /\ up[j].from = c
    BY <1>3, StreamFacts DEF UpOrder
  <2>8. UpOrder'
    <3>2. ASSUME NEW k \in 1..Len(up'), up'[k].type # "OPEN"
          PROVE  (/\ ~streamStr[up[k].from].eof
                  /\ streamStr[up[k].from].st = "none" =>
                             \E j \in 1..(k - 1) : up[j].type = "OPEN" /\ up[j].from = up[k].from)'
      <4>1. CASE k \in 1..Len(up)
        <5>1. up'[k] = up[k] /\ \A j \in 1..(k - 1) : up'[j] = up[j]
          BY <1>a, <2>2, <4>1 DEF Puts
        <5> QED BY <1>3, <3>2, <4>1, <5>1 DEF UpOrder
      <4>2. CASE k = Len(up') /\ up'[k] = f
        <5>1. \A j \in 1..Len(up) : j \in 1..(k - 1) /\ up'[j] = up[j]
          BY <1>a, <2>2, <4>2 DEF Puts
        <5> QED BY <1>3, <2>1, <2>6, <2>7, <4>2, <5>1
      <4> QED BY <2>2, <4>1, <4>2 DEF Puts
    <3>3. ASSUME NEW k \in 1..Len(up'), up'[k].type = "END"
          PROVE  (/\ sock[up[k].from].fin
                  /\ \A j \in 1..Len(up) : up[j].from = up[k].from => j <= k)'
      <4>1. CASE k \in 1..Len(up)
        <5>1. up'[k] = up[k] /\ up[k].from \in Conns /\ up[k].from # c
          BY <1>a, <2>2, <2>6, <3>3, <4>1 DEF Puts
        <5>2. \A j \in 1..Len(up') : up'[j].from = up[k].from => j \in 1..Len(up) /\ up'[j] = up[j]
          BY <2>1, <2>2, <5>1 DEF Puts
        <5> QED BY <2>3, <3>3, <4>1, <5>1, <5>2 DEF UpOrder
      <4>2. CASE k = Len(up') /\ up'[k] = f
        <5>1. \A j \in 1..Len(up') : j <= k
          BY <1>a, <2>2, <4>2 DEF Puts
        <5> QED BY <2>1, <2>3, <3>3, <4>2, <5>1
      <4> QED BY <2>2, <4>1, <4>2 DEF Puts
    <3>4. ASSUME NEW d \in Conns
          PROVE  (/\ id[d] # 0 /\ streamStr[d].st = "none" =>
                       \E j \in 1..Len(up) : up[j].type = "OPEN" /\ up[j].from = d
                  /\ streamStr[d].eof => sock[d].fin
                  /\ sock[d].fin /\ ~streamStr[d].eof =>
                       \E j \in 1..Len(up) : up[j].type = "END" /\ up[j].from = d)'
      <4>1. \A j \in 1..Len(up) : j \in 1..Len(up') /\ up'[j] = up[j]
        BY <2>2 DEF Puts
      <4>2. t = "END" => \E j \in 1..Len(up') : up'[j].type = "END" /\ up'[j].from = c
        BY <2>1, <2>2 DEF Puts
      <4> QED BY <1>3, <2>3, <4>1, <4>2 DEF UpOrder
    <3> QED BY <3>2, <3>3, <3>4 DEF UpOrder
  <2>9. Succession'
    <3>1. ASSUME NEW k \in 1..Len(up'), up'[k].type = "OPEN", NEW d \in Conns,
                 d # up'[k].from, id'[d] = up'[k].id
          PROVE  sock'[d].st = "closed" /\ \A j \in 1..Len(up') : up'[j].from = d => j < k
      <4>1. k \in 1..Len(up) /\ up'[k] = up[k]
        BY <1>3, <2>1, <2>2, <3>1 DEF Puts
      <4>2. sock[d].st = "closed" /\ \A j \in 1..Len(up) : up[j].from = d => j < k
        BY <1>3, <3>1, <4>1 DEF Succession
      <4>3. d # c
        BY <1>3, <4>2
      <4>4. \A j \in 1..Len(up') : up'[j].from = d => j \in 1..Len(up) /\ up'[j] = up[j]
        BY <2>1, <2>2, <4>3 DEF Puts
      <4> QED BY <2>3, <4>2, <4>4
    <3> QED BY <3>1 DEF Succession
  <2> QED BY <1>3, <2>4, <2>5, <2>8, <2>9 DEF Stream!OwnFramesOnly,
             Stream!StreamKeepsNumber, Stream!Busy
<1>4. ASSUME NEW c \in Conns, Stream!SocketCloses(c)
      PROVE  OrderlyInv'
  <2>1. /\ sock[c].st = "open" /\ sock[c].fin /\ sock[c].ended
        /\ SockChange(c, "closed", sock[c].fin, sock[c].ended)
        /\ UNCHANGED <<id, up, down, streamStr, hostMap, streamClosing, applied, errors, quiet>>
    BY <1>4, <1>a, SockEffects DEF Stream!SocketCloses, Stream!platform
  <2>2. \A d \in Conns : /\ d # c => sock'[d] = sock[d]
                         /\ sock'[d].fin <=> sock[d].fin
                         /\ sock'[d].ended <=> sock[d].ended
    BY <2>1 DEF SockChange
  <2>3. sock'[c].st = "closed" /\ \A j \in 1..Len(down) : down[j].from # c
    BY <2>1 DEF SockChange, DownOrder
  <2>4. NoError'
    BY <2>1, <2>2, <2>3 DEF NoError
  <2>5. DownOrder'
    BY <1>a, <2>1, <2>2, <2>3 DEF DownOrder
  <2>6. UpOrder'
    BY <1>a, <2>1, <2>2 DEF UpOrder
  <2>7. Succession'
    BY <2>1, <2>2, <2>3 DEF Succession
  <2> QED BY <2>1, <2>4, <2>5, <2>6, <2>7 DEF Stream!OwnFramesOnly,
             Stream!StreamKeepsNumber, Stream!Busy
<1>5. ASSUME Stream!AgentReceives
      PROVE  OrderlyInv'
  <2> DEFINE f == Head(down)
  <2>1. Takes(down, down', f) /\ 1 \in 1..Len(down) /\ f = down[1]
    BY <1>5, <1>a, PipeEffects DEF Stream!AgentReceives, Takes
  <2>2. PICK c \in Conns : c = f.from
    BY <1>a, <2>1
  <2>3. /\ f.type \in {"DATA", "END"} /\ sock[c].st = "open" /\ ~sock[c].ended
           /\ streamStr[c].st = "live"
        /\ f.type = "END" => streamStr[c].fin /\ \A k \in 1..Len(down) : down[k].from = c => k <= 1
        /\ f.id = id[c] /\ agentMap[f.id] = c /\ c # None
    BY <1>a, <2>1, <2>2, StreamFacts DEF DownOrder, StreamInv, HasNumber
  <2>4. UNCHANGED <<id, up, streamStr, hostMap, streamClosing, errors, quiet>>
          /\ applied' = applied \cup {<<c, c>>}
    BY <1>5, <2>2, <2>3 DEF Stream!AgentReceives, Stream!platform
  <2>5. \/ f.type = "DATA" /\ UNCHANGED sock
        \/ f.type = "END" /\ SockChange(c, sock[c].st, sock[c].fin, TRUE)
    <3>1. \/ f.type = "DATA" /\ UNCHANGED sock
          \/ f.type = "END" /\ sock' = [sock EXCEPT ![c].ended = TRUE]
      BY <1>5, <2>3 DEF Stream!AgentReceives
    <3> QED BY <1>a, <3>1, SockEffects
  <2> HIDE DEF f
  <2>6. \A d \in Conns : /\ sock'[d].st = sock[d].st
                         /\ sock'[d].fin <=> sock[d].fin
                         /\ sock'[d].ended <=> (sock[d].ended \/ (d = c /\ f.type = "END"))
    BY <2>3, <2>5 DEF SockChange
  <2>7. NoError'
    <3>1. \A d \in Conns :
            /\ sock'[d].st = "closed" => sock'[d].fin /\ sock'[d].ended
            /\ sock'[d].st \in {"none", "refused"} => ~sock'[d].fin /\ ~sock'[d].ended
      BY <2>3, <2>6 DEF NoError
    <3> QED BY <2>4, <3>1 DEF NoError
  <2>8. \A j \in 1..Len(down') : /\ j + 1 \in 1..Len(down) /\ down'[j] = down[j + 1]
                                    /\ j \in Nat \ {0}
                                 /\ down[j + 1].from \in Conns
    BY <1>a, <2>1 DEF Takes
  <2>9. DownOrder'
    <3>1. ASSUME NEW j \in 1..Len(down')
          PROVE  (/\ down[j].type \in {"DATA", "END"}
                  /\ sock[down[j].from].st = "open" /\ ~sock[down[j].from].ended
                  /\ streamStr[down[j].from].st = "live"
                  /\ down[j].type = "END" =>
                       /\ streamStr[down[j].from].fin
                       /\ \A k \in 1..Len(down) : down[k].from = down[j].from => k <= j)'
      <4>1. f.type = "END" => down[j + 1].from # c
        BY <2>3, <2>8
      <4>2. /\ down'[j].type \in {"DATA", "END"}
            /\ sock'[down'[j].from].st = "open" /\ ~sock'[down'[j].from].ended
            /\ streamStr'[down'[j].from].st = "live"
        BY <2>4, <2>6, <2>8, <4>1 DEF DownOrder
      <4>3. ASSUME down'[j].type = "END", NEW k \in 1..Len(down'), down'[k].from = down'[j].from
            PROVE  k <= j
        <5>1. k + 1 <= j + 1
          BY <2>8, <4>3 DEF DownOrder
        <5> QED BY <2>8, <5>1
      <4>4. down'[j].type = "END" => streamStr'[down'[j].from].fin
        BY <2>4, <2>8 DEF DownOrder
      <4> QED BY <4>2, <4>3, <4>4
    <3>2. \A d \in Conns : sock'[d].ended => streamStr'[d].fin
      BY <2>3, <2>4, <2>6 DEF DownOrder
    <3> QED BY <3>1, <3>2 DEF DownOrder
  <2>10. UpOrder' /\ Succession'
    <3>1. UpOrder'
      BY <1>a, <2>4, <2>6 DEF UpOrder
    <3>2. Succession'
      BY <1>a, <2>4, <2>6 DEF Succession
    <3> QED BY <3>1, <3>2
  <2> QED BY <2>4, <2>7, <2>9, <2>10 DEF Stream!OwnFramesOnly, Stream!StreamKeepsNumber,
             Stream!Busy
<1>6. ASSUME Stream!HostReceives
      PROVE  OrderlyInv'
  <2> DEFINE f == Head(up)
  <2>1. Takes(up, up', f) /\ 1 \in 1..Len(up) /\ f = up[1] /\ up # <<>> /\ Stream!Behind = {}
    BY <1>6, <1>a, PipeEffects DEF Stream!HostReceives, Takes, Orderly
  <2>2. PICK c \in Conns : c = f.from
    BY <1>a, <2>1
  <2>3. /\ f.type = "OPEN" => hostMap[f.id] = None /\ streamStr[c].st = "none"
           /\ \A d \in Conns : Stream!Busy(d) => id[d] # f.id
        /\ f.type # "OPEN" => hostMap[f.id] = c /\ Stream!Busy(c) /\ f.type \in {"DATA", "END"}
        /\ f.id = id[c] /\ f.id \in Stream!Ids /\ c # None
    BY <1>a, <2>1, <2>2, HeadOfUp, StreamFacts DEF StreamInv, OpenedOnce
  <2>4. UNCHANGED <<sock, id, down, streamClosing, errors, quiet>>
    BY <1>6, <2>3 DEF Stream!HostReceives, Stream!HandleOpen, Stream!HandleFrame,
       Stream!agent, Stream!platform
  <2>5. \/ /\ f.type = "OPEN" /\ StrChange(c, "live", streamStr[c].eof, streamStr[c].read,
              streamStr[c].fin)
           /\ hostMap' = [hostMap EXCEPT ![id[c]] = c] /\ UNCHANGED applied
        \/ f.type = "DATA" /\ UNCHANGED <<streamStr, hostMap>> /\ applied' = applied \cup {<<c, c>>}
        \/ /\ f.type = "END" /\ StrChange(c, streamStr[c].st, TRUE, streamStr[c].read,
              streamStr[c].fin)
           /\ UNCHANGED hostMap /\ applied' = applied \cup {<<c, c>>}
    <3>1. \/ /\ f.type = "OPEN" /\ streamStr' = [streamStr EXCEPT ![c].st = "live"]
             /\ hostMap' = [hostMap EXCEPT ![id[c]] = c] /\ UNCHANGED applied
          \/ f.type = "DATA" /\ UNCHANGED <<streamStr, hostMap>>
              /\ applied' = applied \cup {<<c, c>>}
          \/ /\ f.type = "END" /\ streamStr' = [streamStr EXCEPT ![c].eof = TRUE]
             /\ UNCHANGED hostMap /\ applied' = applied \cup {<<c, c>>}
      BY <1>6, <2>2, <2>3 DEF Stream!HostReceives, Stream!HandleOpen, Stream!HandleFrame,
         Stream!platform
    <3> QED BY <1>a, <3>1, StrEffects
  <2> HIDE DEF f
  <2>6. \A d \in Conns :
          /\ streamStr'[d].fin <=> streamStr[d].fin
          /\ streamStr'[d].read <=> streamStr[d].read
          /\ streamStr'[d].eof <=> (streamStr[d].eof \/ (d = c /\ f.type = "END"))
          /\ d # c => streamStr'[d].st = streamStr[d].st
          /\ f.type # "OPEN" => streamStr'[d].st = streamStr[d].st
    BY <2>5 DEF StrChange
  <2>7. streamStr'[c].st = "live"
    BY <2>3, <2>5, <2>6 DEF StrChange, Stream!Busy
  <2>8. \A j \in 1..Len(up') : /\ j + 1 \in 1..Len(up) /\ up'[j] = up[j + 1] /\ j \in Nat \ {0}
                               /\ up[j + 1].from \in Conns
    <3>1. \A j \in 1..Len(up') : j + 1 \in 1..Len(up) /\ up'[j] = up[j + 1] /\ j \in Nat \ {0}
      BY <2>1 DEF Takes
    <3> QED BY <1>a, <3>1
  <2>9. \A j \in 1..Len(up) : j # 1 => j - 1 \in 1..Len(up') /\ up'[j - 1] = up[j]
          /\ (j - 1) + 1 = j
    <3>1. \A j \in 1..Len(up) : j # 1 => j - 1 \in 1..Len(up') /\ (j - 1) + 1 = j
      BY <1>a, <2>1 DEF Takes
    <3> QED BY <2>8, <3>1
  <2>10. NoError'
    <3>1. \A j \in 1..Len(up') : up'[j].type # "ERROR"
      BY <2>8 DEF NoError
    <3>2. \A d \in Conns : streamStr'[d].st # "destroyed"
      BY <2>6, <2>7 DEF NoError
    <3> QED BY <2>4, <3>1, <3>2 DEF NoError
  <2>11. DownOrder'
    <3>1. \A j \in 1..Len(down) : streamStr'[down[j].from].st = "live"
      BY <1>a, <2>6, <2>7 DEF DownOrder
    <3> QED BY <1>a, <2>4, <2>6, <3>1 DEF DownOrder
  <2>12. UpOrder'
    <3>2. ASSUME NEW k \in 1..Len(up'), up'[k].type # "OPEN"
          PROVE  (/\ ~streamStr[up[k].from].eof
                  /\ streamStr[up[k].from].st = "none" =>
                             \E j \in 1..(k - 1) : up[j].type = "OPEN" /\ up[j].from = up[k].from)'
      <4>1. ~streamStr[up[k + 1].from].eof /\ (streamStr[up[k + 1].from].st = "none" =>
                    \E j \in 1..k : up[j].type = "OPEN" /\ up[j].from = up[k + 1].from)
        <5>1. (k + 1) - 1 = k
          BY <2>8
        <5> QED BY <2>8, <3>2, <5>1 DEF UpOrder
      <4>2. f.type = "END" => up[k + 1].from # c
        <5>1. f.type = "END" => \A j \in 1..Len(up) : up[j].from = c => j <= 1
          BY <2>1, <2>2 DEF UpOrder
        <5> QED BY <2>8, <5>1
      <4>3. ~streamStr'[up'[k].from].eof
        BY <2>6, <2>8, <4>1, <4>2
      <4>4. ASSUME streamStr'[up'[k].from].st = "none"
            PROVE  \E j \in 1..(k - 1) : up'[j].type = "OPEN" /\ up'[j].from = up'[k].from
        <5>1. up'[k].from # c /\ streamStr[up[k + 1].from].st = "none" /\ up'[k] = up[k + 1]
          BY <2>6, <2>7, <2>8, <4>4
        <5>2. PICK j \in 1..k : up[j].type = "OPEN" /\ up[j].from = up[k + 1].from
          BY <4>1, <5>1
        <5>3. j # 1 /\ j \in 1..Len(up)
          <6>1. j \in 1..Len(up)
            BY <1>a, <2>8, <5>2
          <6> QED BY <2>1, <2>2, <5>1, <5>2, <6>1
        <5>4. j - 1 \in 1..(k - 1)
          BY <2>8, <5>2, <5>3
        <5> QED BY <2>9, <5>1, <5>2, <5>3, <5>4
      <4> QED BY <4>3, <4>4
    <3>3. ASSUME NEW k \in 1..Len(up'), up'[k].type = "END"
          PROVE  (/\ sock[up[k].from].fin
                  /\ \A j \in 1..Len(up) : up[j].from = up[k].from => j <= k)'
      <4>1. sock'[up'[k].from].fin
        BY <2>4, <2>8, <3>3 DEF UpOrder
      <4>2. ASSUME NEW j \in 1..Len(up'), up'[j].from = up'[k].from
            PROVE  j <= k
        <5>1. j + 1 <= k + 1
          BY <2>8, <3>3, <4>2 DEF UpOrder
        <5> QED BY <2>8, <5>1
      <4> QED BY <4>1, <4>2
    <3>4. ASSUME NEW d \in Conns
          PROVE  (/\ id[d] # 0 /\ streamStr[d].st = "none" =>
                       \E j \in 1..Len(up) : up[j].type = "OPEN" /\ up[j].from = d
                  /\ streamStr[d].eof => sock[d].fin
                  /\ sock[d].fin /\ ~streamStr[d].eof =>
                       \E j \in 1..Len(up) : up[j].type = "END" /\ up[j].from = d)'
      <4>1. ASSUME id'[d] # 0, streamStr'[d].st = "none"
            PROVE  \E j \in 1..Len(up') : up'[j].type = "OPEN" /\ up'[j].from = d
        <5>1. d # c /\ streamStr[d].st = "none" /\ id[d] # 0
          BY <2>4, <2>6, <2>7, <4>1
        <5>2. PICK j \in 1..Len(up) : up[j].type = "OPEN" /\ up[j].from = d
          BY <5>1 DEF UpOrder
        <5>3. j # 1
          BY <2>1, <2>2, <5>1, <5>2
        <5> QED BY <2>9, <5>2, <5>3
      <4>2. streamStr'[d].eof => sock'[d].fin
        <5>1. f.type = "END" => sock[c].fin
          BY <2>1, <2>2 DEF UpOrder
        <5> QED BY <2>4, <2>6, <5>1 DEF UpOrder
      <4>3. ASSUME sock'[d].fin, ~streamStr'[d].eof
            PROVE  \E j \in 1..Len(up') : up'[j].type = "END" /\ up'[j].from = d
        <5>1. sock[d].fin /\ ~streamStr[d].eof /\ ~(d = c /\ f.type = "END")
          BY <2>4, <2>6, <4>3
        <5>2. PICK j \in 1..Len(up) : up[j].type = "END" /\ up[j].from = d
          BY <5>1 DEF UpOrder
        <5>3. j # 1
          BY <2>1, <2>2, <5>1, <5>2
        <5> QED BY <2>9, <5>2, <5>3
      <4> QED BY <4>1, <4>2, <4>3
    <3> QED BY <3>2, <3>3, <3>4 DEF UpOrder
  <2>13. Succession'
    <3>1. ASSUME NEW k \in 1..Len(up'), up'[k].type = "OPEN", NEW d \in Conns,
                 d # up'[k].from, id'[d] = up'[k].id
          PROVE  sock'[d].st = "closed" /\ \A j \in 1..Len(up') : up'[j].from = d => j < k
      <4>1. sock[d].st = "closed" /\ \A j \in 1..Len(up) : up[j].from = d => j < k + 1
        BY <2>4, <2>8, <3>1 DEF Succession
      <4>2. ASSUME NEW j \in 1..Len(up'), up'[j].from = d PROVE j < k
        <5>1. j + 1 < k + 1
          BY <2>8, <4>1, <4>2
        <5> QED BY <2>8, <5>1
      <4> QED BY <2>4, <4>1, <4>2
    <3> QED BY <3>1 DEF Succession
  <2>14. Stream!OwnFramesOnly'
    <3>1. applied' \subseteq applied \cup {<<c, c>>}
      BY <2>5
    <3> QED BY <3>1 DEF Stream!OwnFramesOnly
  <2>15. Stream!StreamKeepsNumber'
    <3>1. CASE f.type = "OPEN"
      <4>1. \A d \in Conns : d # c => (Stream!Busy(d)' => Stream!Busy(d))
        BY <2>6 DEF Stream!Busy
      <4>2. \A d \in Conns : d # c => (Stream!Busy(d)' => hostMap'[id[d]] = d)
        BY <2>3, <2>5, <3>1, <4>1, StreamFacts DEF Stream!StreamKeepsNumber, StreamInv,
           StreamTyped, Stream!Busy
      <4>3. hostMap'[id[c]] = c
        BY <2>3, <2>5, <3>1 DEF StreamInv, StreamTyped
      <4> QED BY <2>4, <4>2, <4>3 DEF Stream!StreamKeepsNumber
    <3>2. CASE f.type # "OPEN"
      <4>1. \A d \in Conns : Stream!Busy(d)' => Stream!Busy(d)
        BY <2>6, <3>2 DEF Stream!Busy
      <4> QED BY <2>4, <2>5, <3>2, <4>1 DEF Stream!StreamKeepsNumber
    <3> QED BY <3>1, <3>2
  <2> QED BY <2>10, <2>11, <2>12, <2>13, <2>14, <2>15
<1>7. ASSUME NEW c \in Conns, streamStr[c].st = "live",
             streamStr'[c].st = "live", streamStr'[c].eof <=> streamStr[c].eof, streamStr[c].fin
                 => streamStr'[c].fin,
             \A d \in Conns \ {c} : streamStr'[d] = streamStr[d],
             \/ UNCHANGED down /\ (streamStr'[c].fin <=> streamStr[c].fin)
             \/ down' = Append(down, Stream!Frame("DATA", c)) /\ ~streamStr[c].fin
                 /\ ~streamStr'[c].fin
             \/ down' = Append(down, Stream!Frame("END", c)) /\ ~streamStr[c].fin
                 /\ streamStr'[c].fin,
             Stream!OnStreamClosed(c) \/ UNCHANGED hostMap,
             Stream!Busy(c)' => Stream!Busy(c) /\ UNCHANGED hostMap, Stream!OnStreamClosed(c)
                 => UNCHANGED hostMap \/ Stream!Busy(c),
             UNCHANGED <<sock, id, up, streamClosing, applied, errors, quiet>>
      PROVE  OrderlyInv'
  <2>1. \A d \in Conns :
          /\ streamStr'[d].st = streamStr[d].st
          /\ streamStr'[d].eof <=> streamStr[d].eof
          /\ streamStr'[d].fin <=> (streamStr[d].fin \/ (d = c /\ streamStr'[c].fin))
    BY <1>7
  <2>2. NoError'
    BY <1>7, <2>1 DEF NoError
  <2>3. UpOrder' /\ Succession'
    <3>1. UNCHANGED <<sock, id, up>>
      BY <1>7
    <3>2. \A d \in Conns : streamStr'[d].st = streamStr[d].st
            /\ (streamStr'[d].eof <=> streamStr[d].eof)
      BY <2>1
    <3>3. UpOrder'
      BY <1>a, <3>1, <3>2 DEF UpOrder
    <3> QED BY <3>1, <3>3 DEF Succession
  <2>4. Stream!OwnFramesOnly' /\ Stream!StreamKeepsNumber'
    <3>1. \A d \in Conns : d # c => (Stream!Busy(d)' => Stream!Busy(d))
      BY <1>7 DEF Stream!Busy
    <3>2. \A d \in Conns : d # c /\ Stream!Busy(d) => hostMap'[id[d]] = d
      <4>1. CASE UNCHANGED hostMap
        BY <4>1 DEF Stream!StreamKeepsNumber
      <4>2. CASE Stream!OnStreamClosed(c) /\ Stream!Busy(c)
        <5>1. \A d \in Conns : d # c /\ Stream!Busy(d) => id[d] # id[c] /\ id[d] \in Stream!Ids
          BY <4>2, StreamFacts DEF Stream!StreamKeepsNumber, Stream!Busy
        <5> QED BY <4>2, <5>1 DEF Stream!OnStreamClosed, Stream!StreamKeepsNumber,
                   StreamInv, StreamTyped
      <4> QED BY <1>7, <4>1, <4>2
    <3>3. Stream!Busy(c)' => hostMap'[id[c]] = c
      BY <1>7 DEF Stream!StreamKeepsNumber
    <3> QED BY <1>7, <3>1, <3>2, <3>3 DEF Stream!OwnFramesOnly, Stream!StreamKeepsNumber
  <2>5. \A d \in Conns : sock'[d].ended => streamStr'[d].fin
    BY <1>7, <2>1 DEF DownOrder
  <2>6. CASE UNCHANGED down
    <3>1. DownOrder'
      BY <1>a, <1>7, <2>1, <2>5, <2>6 DEF DownOrder
    <3> QED BY <2>2, <2>3, <2>4, <3>1
  <2>7. ASSUME NEW t \in {"DATA", "END"}, down' = Append(down, Stream!Frame(t, c)),
               ~streamStr[c].fin,
               streamStr'[c].fin <=> (t = "END")
        PROVE  DownOrder'
    <3> DEFINE f == Stream!Frame(t, c)
    <3>1. f \in FrameSet /\ f.type = t /\ f.from = c
      BY <1>7, StreamFacts, FrameFacts DEF Stream!Frame
    <3> HIDE DEF f
    <3>2. Puts(down, down', f)
      BY <2>7, <3>1, <1>a, PipeEffects DEF f
    <3>3. sock[c].st = "open" /\ ~sock[c].ended
      <4>1. ~sock[c].ended
        BY <2>7 DEF DownOrder
      <4>2. sock[c].st \in {"open", "closed"}
        BY <1>7, StreamFacts
      <4> QED BY <4>1, <4>2 DEF NoError
    <3>4. \A j \in 1..Len(down) : down[j].from = c => down[j].type # "END"
      BY <2>7 DEF DownOrder
    <3>5. ASSUME NEW j \in 1..Len(down')
          PROVE  (/\ down[j].type \in {"DATA", "END"}
                  /\ sock[down[j].from].st = "open" /\ ~sock[down[j].from].ended
                  /\ streamStr[down[j].from].st = "live"
                  /\ down[j].type = "END" =>
                       /\ streamStr[down[j].from].fin
                       /\ \A k \in 1..Len(down) : down[k].from = down[j].from => k <= j)'
      <4>1. CASE j \in 1..Len(down) /\ down'[j] = down[j]
        <5>1. /\ down[j].type \in {"DATA", "END"}
              /\ sock'[down[j].from].st = "open" /\ ~sock'[down[j].from].ended
              /\ streamStr'[down[j].from].st = "live"
              /\ down[j].type = "END" => streamStr'[down[j].from].fin /\ down[j].from # c
          BY <1>a, <1>7, <2>1, <3>4, <4>1 DEF DownOrder
        <5>2. ASSUME down[j].type = "END", NEW k \in 1..Len(down'), down'[k].from = down[j].from
              PROVE  k <= j
          <6>1. k \in 1..Len(down) /\ down'[k] = down[k]
            BY <3>1, <3>2, <5>1, <5>2 DEF Puts
          <6> QED BY <4>1, <5>2, <6>1 DEF DownOrder
        <5> QED BY <4>1, <5>1, <5>2
      <4>2. CASE j = Len(down') /\ down'[j] = f
        <5>1. \A k \in 1..Len(down') : k <= j
          BY <1>a, <3>2, <4>2 DEF Puts
        <5> QED BY <1>7, <2>1, <2>7, <3>1, <3>3, <4>2, <5>1
      <4> QED BY <3>2, <4>1, <4>2 DEF Puts
    <3> QED BY <2>5, <3>5 DEF DownOrder
  <2>8. CASE \/ down' = Append(down, Stream!Frame("DATA", c)) /\ ~streamStr[c].fin
                /\ ~streamStr'[c].fin
             \/ down' = Append(down, Stream!Frame("END", c)) /\ ~streamStr[c].fin
                 /\ streamStr'[c].fin
    <3>1. DownOrder'
      BY <2>7, <2>8
    <3> QED BY <2>2, <2>3, <2>4, <3>1
  <2> QED BY <1>7, <2>6, <2>8
<1>8. ASSUME NEW c \in Conns, Stream!HostReads(c)
      PROVE  OrderlyInv'
  <2>1. StrChange(c, "live", streamStr[c].eof, TRUE, streamStr[c].fin) /\ streamStr[c].st = "live"
          /\ ~streamStr[c].read
    BY <1>8, <1>a, StrEffects DEF Stream!HostReads, Stream!Behind
  <2>2. /\ Stream!OnStreamClosed(c) \/ UNCHANGED hostMap
        /\ Stream!Busy(c)' => Stream!Busy(c) /\ UNCHANGED hostMap
        /\ Stream!Busy(c)
    BY <1>8, <2>1 DEF Stream!HostReads, StrChange, Stream!Busy
  <2>3. UNCHANGED down /\ UNCHANGED <<sock, id, up, streamClosing, applied, errors, quiet>>
    BY <1>8 DEF Stream!HostReads, Stream!agent
  <2>4. /\ streamStr'[c].st = "live" /\ (streamStr'[c].eof <=> streamStr[c].eof)
           /\ (streamStr[c].fin => streamStr'[c].fin)
        /\ \A d \in Conns \ {c} : streamStr'[d] = streamStr[d]
        /\ streamStr'[c].fin <=> streamStr[c].fin
    BY <2>1 DEF StrChange
  <2> QED BY <1>7, <2>1, <2>2, <2>3, <2>4
<1>9. ASSUME NEW c \in Conns, Stream!HostData(c)
      PROVE  OrderlyInv'
  <2>1. StrChange(c, "live", streamStr[c].eof, streamStr[c].read, streamStr[c].fin)
          /\ streamStr[c].st = "live" /\ ~streamStr[c].fin
    BY <1>9, <1>a, StrEffects DEF Stream!HostData
  <2>2. /\ UNCHANGED hostMap
        /\ Stream!Busy(c)' => Stream!Busy(c) /\ UNCHANGED hostMap
        /\ Stream!Busy(c)
    BY <1>9, <2>1 DEF Stream!HostData, StrChange, Stream!Busy
  <2>3. /\ down' = Append(down, Stream!Frame("DATA", c))
        /\ UNCHANGED <<sock, id, up, streamClosing, applied, errors, quiet>>
    BY <1>9 DEF Stream!HostData, Stream!agent
  <2>4. /\ streamStr'[c].st = "live" /\ (streamStr'[c].eof <=> streamStr[c].eof)
           /\ (streamStr[c].fin => streamStr'[c].fin)
        /\ \A d \in Conns \ {c} : streamStr'[d] = streamStr[d]
        /\ streamStr'[c].fin <=> streamStr[c].fin
    BY <2>1 DEF StrChange
  <2> QED BY <1>7, <2>1, <2>2, <2>3, <2>4
<1>10. ASSUME NEW c \in Conns, Stream!HostEnd(c)
       PROVE  OrderlyInv'
  <2>1. StrChange(c, "live", streamStr[c].eof, streamStr[c].read, TRUE)
          /\ streamStr[c].st = "live" /\ ~streamStr[c].fin
    BY <1>10, <1>a, StrEffects DEF Stream!HostEnd
  <2>2. /\ Stream!OnStreamClosed(c) \/ UNCHANGED hostMap
        /\ Stream!Busy(c)' => Stream!Busy(c) /\ UNCHANGED hostMap
        /\ Stream!Busy(c)
    BY <1>10, <2>1 DEF Stream!HostEnd, StrChange, Stream!Busy
  <2>3. /\ down' = Append(down, Stream!Frame("END", c))
        /\ UNCHANGED <<sock, id, up, streamClosing, applied, errors, quiet>>
    BY <1>10 DEF Stream!HostEnd, Stream!agent
  <2>4. /\ streamStr'[c].st = "live" /\ (streamStr'[c].eof <=> streamStr[c].eof)
           /\ (streamStr[c].fin => streamStr'[c].fin)
        /\ \A d \in Conns \ {c} : streamStr'[d] = streamStr[d]
        /\ streamStr'[c].fin <=> TRUE
    BY <2>1 DEF StrChange
  <2> QED BY <1>7, <2>1, <2>2, <2>3, <2>4
<1>11. ASSUME NEW c \in Conns, Stream!ClientData(c) \/ Stream!ClientEnd(c)
       PROVE  OrderlyInv'
  <2>1. CASE Stream!ClientData(c)
    <3>1. SockChange(c, "open", sock[c].fin, sock[c].ended) /\ ~sock[c].fin /\ sock[c].st = "open"
      BY <2>1, <1>a, SockEffects DEF Stream!ClientData
    <3>2. SockChange(c, "open", "DATA" = "END", sock[c].ended)
      BY <3>1 DEF SockChange
    <3> QED BY <1>3, <2>1, <3>1, <3>2 DEF Stream!ClientData, Stream!platform
  <2>2. CASE Stream!ClientEnd(c)
    <3>1. SockChange(c, "open", TRUE, sock[c].ended) /\ ~sock[c].fin /\ sock[c].st = "open"
      BY <2>2, <1>a, SockEffects DEF Stream!ClientEnd
    <3>2. SockChange(c, "open", "END" = "END", sock[c].ended)
      BY <3>1 DEF SockChange
    <3> QED BY <1>3, <2>2, <3>1, <3>2 DEF Stream!ClientEnd, Stream!platform
  <2> QED BY <1>11, <2>1, <2>2
<1>12. ~\E c \in Conns : Stream!ClientError(c) \/ Stream!CloseEvent(c) \/ Stream!HostFails(c)
         \/ Stream!HostDestroys(c)
  <2>1. errors = 0 /\ quiet = 0 /\ streamClosing = {} /\ MaxErrors = 0 /\ MaxQuiet = 0
    BY DEF NoError, Orderly
  <2> QED BY <2>1 DEF Stream!ClientError, Stream!CloseEvent, Stream!HostFails,
             Stream!HostDestroys, Stream!Error
<1>13. CASE UNCHANGED Stream!vars
  <2>1. NoError' /\ DownOrder'
    BY <1>13 DEF Stream!vars, NoError, DownOrder
  <2>2. UpOrder' /\ Succession'
    BY <1>13 DEF Stream!vars, UpOrder, Succession
  <2> QED BY <1>13, <2>1, <2>2 DEF Stream!vars, Stream!OwnFramesOnly,
             Stream!StreamKeepsNumber, Stream!Busy
<1> QED BY <1>1, <1>2, <1>4, <1>5, <1>6, <1>8, <1>9, <1>10, <1>11, <1>12, <1>13
        DEF Stream!Next, Stream!Step

-----------------------------------------------------------------------------
(* Stream numbers that are used again never mix two connections up (agent.ts, *)
(* host.ts): a frame is applied to the connection that sent it and a stream   *)
(* keeps its number, for any connections and numbers, while nothing fails,    *)
(* where no accepted connection is refused either, and whatever fails where   *)
(* there are numbers for all connections.                                     *)
THEOREM StreamsStayApart ==
  Stream!TunnelStreamsAssumption =>
           (Stream!Spec => /\ []Stream!TypeOK
                           /\ [](Orderly => Stream!OwnFramesOnly /\ Stream!StreamKeepsNumber
                               /\ Stream!AcceptedNotRefused)
                           /\ [](Enough => Stream!OwnFramesOnly /\ Stream!StreamKeepsNumber))
<1> SUFFICES ASSUME Stream!TunnelStreamsAssumption
             PROVE  Stream!Spec => /\ []Stream!TypeOK
                                   /\ [](Orderly => Stream!OwnFramesOnly
                                       /\ Stream!StreamKeepsNumber /\ Stream!AcceptedNotRefused)
                                   /\ [](Enough => Stream!OwnFramesOnly /\ Stream!StreamKeepsNumber)
  OBVIOUS
<1>1. Stream!Init => StreamInv /\ (Orderly => OrderlyInv) /\ (Enough => ApartInv)
  <2>1. Stream!Init /\ Enough => ApartInv
    <3> SUFFICES ASSUME Stream!Init, Enough PROVE ApartInv
      OBVIOUS
    <3>1. Used = {} /\ Cardinality(Used) = 0
      <4>1. Used = {}
        BY DEF Used, Stream!Init
      <4> QED BY <4>1, FS_EmptySet
    <3>2. 0 % MaxStreams = 0
      BY DEF Stream!TunnelStreamsAssumption
    <3>3. next = 1 /\ applied = {} /\ \A c \in Conns : streamStr[c].st = "none"
      BY DEF Stream!Init, Stream!NewStr
    <3> QED BY <3>1, <3>2, <3>3 DEF ApartInv, Distinct, Stream!OwnFramesOnly,
               Stream!StreamKeepsNumber, Stream!Busy
  <2> QED BY <2>1, StreamInit, OrderlyInit
<1>2. /\ StreamInv /\ (Orderly => OrderlyInv) /\ (Enough => ApartInv)
      /\ [Stream!Next]_(Stream!vars)
      => (StreamInv /\ (Orderly => OrderlyInv) /\ (Enough => ApartInv))'
  <2>1. (Orderly <=> Orderly') /\ (Enough <=> Enough')
    BY DEF Orderly, Enough
  <2> QED BY <2>1, StreamStep, OrderlyStep, ApartStep
<1>3. StreamInv /\ (Orderly => OrderlyInv) /\ (Enough => ApartInv)
      => /\ Stream!TypeOK /\ (Orderly => Stream!OwnFramesOnly /\ Stream!StreamKeepsNumber
            /\ Stream!AcceptedNotRefused)
         /\ (Enough => Stream!OwnFramesOnly /\ Stream!StreamKeepsNumber)
  <2>1. StreamInv => Stream!TypeOK
    BY StreamFacts DEF StreamInv, StreamTyped, Stream!TypeOK
  <2>2. OrderlyInv => Stream!OwnFramesOnly /\ Stream!StreamKeepsNumber /\ Stream!AcceptedNotRefused
    BY DEF OrderlyInv, NoError, Stream!AcceptedNotRefused
  <2> QED BY <2>1, <2>2 DEF ApartInv
<1> QED BY <1>1, <1>2, <1>3, PTL DEF Stream!Spec
=============================================================================
