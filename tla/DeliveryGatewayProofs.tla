------------------------ MODULE DeliveryGatewayProofs ------------------------
(***************************************************************************)
(* Proofs about the delivery gateway for any number of turns, sessions,    *)
(* users, crashes, expiries and recoveries, with or without scheduler      *)
(* ticks during startup.                                                   *)
(***************************************************************************)
EXTENDS DeliveryGateway, FiniteSetTheorems, TLAPS

-----------------------------------------------------------------------------
(* The inductive invariant *)

\* Deliveries were stored in order.
ArrivedInOrder ==
  \A t, u \in Turns : u < t /\ turn[t] # "none" => turn[u] # "none"

\* A queued turn can be claimed: its inbox row is held.
QueuedIsHeld == \A t \in Turns : turn[t] = "queued" => inbox[t] = "held"

\* A task works on a turn that has been claimed.
TaskWasClaimed ==
  \A t \in Turns : turn[t] \in {"none", "queued"} => task[t].pc = "none"

\* Only a task that has not gone past its reservation has a lease in phase 'claimed'.
ClaimedIsEarly ==
  \A t \in Turns :
    lease[t].status = "active" /\ lease[t].phase = "claimed" =>
      task[t].pc \in {"none", "claimed", "reserved"}

\* The leases redriveHeld has read are of claimed turns; one read in phase 'claimed'
\* is of a running turn that no task of this process works on.
RedriveIsStale ==
  \A t \in Turns :
    /\ redrive[t] # "none" => gateway = "redriving" /\ turn[t] \notin {"none", "queued"}
    /\ redrive[t] = "claimed" => turn[t] = "running" /\ task[t].pc = "none"

IndInv ==
  /\ TypeOK
  /\ SingleRunning
  /\ LeaseNamesRunning
  /\ ArrivedInOrder
  /\ QueuedIsHeld
  /\ TaskWasClaimed
  /\ ClaimedIsEarly
  /\ RedriveIsStale

-----------------------------------------------------------------------------
(* Settling one turn *)

DbOK ==
  /\ turn \in [Turns -> TurnStatus]
  /\ inbox \in [Turns -> InboxStatus]
  /\ idem \in [Turns -> IdemState]
  /\ merged \in [Turns -> {0} \cup Turns]
  /\ lease \in [Turns -> LeaseRows]
  /\ bundle \in [Turns -> BundleStatus]
  /\ reply \in [Turns -> {"none", "reply", "notice"}]
  /\ recovery \in [Sessions -> BOOLEAN]

\* What every finalizer does to the rows of the turns and to the leases.
Settles(t) ==
  /\ DbOK'
  /\ \A u \in Turns \ {t} :
       turn'[u] = turn[u] /\ inbox'[u] = inbox[u] /\ lease'[u] = lease[u]
  /\ turn'[t] # turn[t] => turn[t] \in LiveStatus /\ turn'[t] \in TerminalStatus
  /\ lease'[t].status = "active" => lease'[t] = lease[t] /\ turn'[t] = turn[t]
  /\ turn'[t] = "queued" => inbox'[t] = inbox[t]

\* Releasing leases leaves no lease of S active and the other leases alone.
LEMMA ReleaseLeasesFacts ==
  ASSUME lease \in [Turns -> LeaseRows], NEW S, NEW st, "active" \in st
  PROVE  /\ ReleaseLeases(S, st) \in [Turns -> LeaseRows]
         /\ \A t \in Turns : ReleaseLeases(S, st)[t].status = "active" =>
                               t \notin S /\ ReleaseLeases(S, st)[t] = lease[t]
         /\ \A t \in Turns \ S : ReleaseLeases(S, st)[t] = lease[t]
  BY DEF ReleaseLeases, LeaseRows, LeaseStatus

\* finalizeFailedTurn settles its turn.
LEMMA FailedSettles ==
  ASSUME DbOK, NEW t \in Turns, NEW kind, NEW b \in BundleStatus,
         FinalizeFailedTurn(t, kind, b)
  PROVE  Settles(t)
<1>1. CASE turn[t] = "interrupted"
  BY <1>1 DEF FinalizeFailedTurn, dbVars, Settles, DbOK
<1>2. CASE turn[t] # "interrupted"
  <2>1. SessionOf[t] \in Sessions
    BY SessionsAssumption
  <2>2. /\ lease' \in [Turns -> LeaseRows]
        /\ lease'[t].status # "active"
        /\ \A u \in Turns \ {t} : lease'[u] = lease[u]
    <3>1. CASE kind = "corrupt"
      <4>1. lease' = [lease EXCEPT ![t] = [lease[t] EXCEPT !.status = "blocked", !.expired = FALSE]]
        BY <1>2, <3>1 DEF FinalizeFailedTurn, FailRows
      <4>2. lease[t] \in LeaseRows
        BY DEF DbOK
      <4>3. [lease[t] EXCEPT !.status = "blocked", !.expired = FALSE] \in LeaseRows
        BY <4>2 DEF LeaseRows, LeaseStatus
      <4>4. [lease[t] EXCEPT !.status = "blocked", !.expired = FALSE].status # "active"
        BY <4>2 DEF LeaseRows
      <4> QED BY <4>1, <4>3, <4>4 DEF DbOK
    <3>2. CASE kind # "corrupt"
      BY <1>2, <3>2, ReleaseLeasesFacts DEF FinalizeFailedTurn, FailRows, DbOK
    <3> QED BY <3>1, <3>2
  <2>3. recovery' \in [Sessions -> BOOLEAN]
    BY <1>2, <2>1 DEF FinalizeFailedTurn, FailRows, DbOK
  <2>4. /\ turn' \in [Turns -> TurnStatus]
        /\ \A u \in Turns \ {t} : turn'[u] = turn[u]
        /\ turn'[t] = IF turn[t] \in LiveStatus THEN "failed" ELSE turn[t]
    BY <1>2 DEF FinalizeFailedTurn, FailRows, Move, DbOK, TurnStatus, LiveStatus, TerminalStatus
  <2>5. /\ inbox' \in [Turns -> InboxStatus]
        /\ \A u \in Turns \ {t} : inbox'[u] = inbox[u]
    BY <1>2 DEF FinalizeFailedTurn, FailRows, Move, DbOK, InboxStatus
  <2>6. /\ idem' \in [Turns -> IdemState]
        /\ reply' \in [Turns -> {"none", "reply", "notice"}]
        /\ bundle' \in [Turns -> BundleStatus]
        /\ merged' \in [Turns -> {0} \cup Turns]
    BY <1>2 DEF FinalizeFailedTurn, FailRows, Move, DbOK, IdemState
  <2> QED
    BY <2>2, <2>3, <2>4, <2>5, <2>6 DEF Settles, DbOK, LiveStatus, TerminalStatus
<1> QED BY <1>1, <1>2

\* What is left of a reservation is a status of the ledger.
LEMMA BundleTypes ==
  ASSUME DbOK, NEW t \in Turns
  PROVE  /\ ReleaseBundle(bundle[t]) \in BundleStatus
         /\ ReleaseByTask(t) \in BundleStatus
         /\ \A ok \in BOOLEAN : CommitByTask(t, ok) \in BundleStatus
<1>1. bundle[t] \in BundleStatus
  BY DEF DbOK
<1>2. /\ ReleaseBundle(bundle[t]) \in BundleStatus
      /\ ReleaseByTask(t) \in BundleStatus
  BY <1>1 DEF ReleaseBundle, ReleaseByTask, BundleStatus
<1>3. \A ok \in BOOLEAN :
        \/ CommitByTask(t, ok) = bundle[t]
        \/ CommitByTask(t, ok) = "committed"
        \/ CommitByTask(t, ok) = ReleaseBundle(bundle[t])
  BY DEF CommitByTask
<1> QED BY <1>1, <1>2, <1>3 DEF BundleStatus

\* A finalizer that changes no row settles, trivially.
LEMMA UnchangedSettles ==
  ASSUME DbOK, NEW t \in Turns, UNCHANGED dbVars
  PROVE  Settles(t)
BY DEF dbVars, Settles, DbOK

\* The rows of a completion are well typed and only those of the turn.
LEMMA CompleteRowsFacts ==
  ASSUME DbOK, NEW t \in Turns, CompleteRows(t)
  PROVE  /\ turn' \in [Turns -> TurnStatus]
         /\ inbox' \in [Turns -> InboxStatus]
         /\ idem' \in [Turns -> IdemState]
         /\ reply' \in [Turns -> {"none", "reply", "notice"}]
         /\ \A u \in Turns \ {t} : turn'[u] = turn[u] /\ inbox'[u] = inbox[u]
         /\ turn'[t] = IF turn[t] \in LiveStatus THEN "completed" ELSE turn[t]
<1>1. /\ turn' \in [Turns -> TurnStatus]
      /\ \A u \in Turns \ {t} : turn'[u] = turn[u]
      /\ turn'[t] = IF turn[t] \in LiveStatus THEN "completed" ELSE turn[t]
  BY DEF CompleteRows, Move, DbOK, TurnStatus, LiveStatus, TerminalStatus
<1>2. /\ inbox' \in [Turns -> InboxStatus]
      /\ \A u \in Turns \ {t} : inbox'[u] = inbox[u]
  BY DEF CompleteRows, Move, DbOK, InboxStatus
<1>3. /\ idem' \in [Turns -> IdemState]
      /\ reply' \in [Turns -> {"none", "reply", "notice"}]
  BY DEF CompleteRows, Move, DbOK, IdemState
<1> QED BY <1>1, <1>2, <1>3

\* finalizeInterruptedTurn settles its turn.
LEMMA InterruptedSettles ==
  ASSUME DbOK, NEW t \in Turns, FinalizeInterruptedTurn(t)
  PROVE  Settles(t)
<1>1. /\ lease' \in [Turns -> LeaseRows]
      /\ lease'[t].status # "active"
      /\ \A u \in Turns \ {t} : lease'[u] = lease[u]
  BY ReleaseLeasesFacts DEF FinalizeInterruptedTurn, DbOK
<1>2. bundle' \in [Turns -> BundleStatus]
  BY BundleTypes DEF FinalizeInterruptedTurn, DbOK
<1>3. CASE turn[t] \in TerminalStatus
  BY <1>1, <1>2, <1>3 DEF FinalizeInterruptedTurn, Settles, DbOK
<1>4. CASE turn[t] \notin TerminalStatus
  <2>1. /\ turn' \in [Turns -> TurnStatus]
        /\ \A u \in Turns \ {t} : turn'[u] = turn[u]
        /\ turn'[t] = IF turn[t] \in LiveStatus THEN "interrupted" ELSE turn[t]
    BY <1>4 DEF FinalizeInterruptedTurn, Move, DbOK, TurnStatus, LiveStatus, TerminalStatus
  <2>2. /\ inbox' \in [Turns -> InboxStatus]
        /\ \A u \in Turns \ {t} : inbox'[u] = inbox[u]
    BY <1>4 DEF FinalizeInterruptedTurn, Move, DbOK, InboxStatus
  <2>3. idem' \in [Turns -> IdemState]
    BY <1>4 DEF FinalizeInterruptedTurn, Move, DbOK, IdemState
  <2>4. UNCHANGED <<merged, reply, recovery>>
    BY DEF FinalizeInterruptedTurn
  <2> QED
    BY <1>1, <1>2, <2>1, <2>2, <2>3, <2>4 DEF Settles, DbOK, LiveStatus, TerminalStatus
<1> QED BY <1>3, <1>4

\* finalizeCompletedTurn, as the task calls it, settles its turn.
LEMMA CompletedSettles ==
  ASSUME DbOK, NEW t \in Turns, NEW ok \in BOOLEAN, FinalizeCompletedTurn(t, ok)
  PROVE  Settles(t)
<1>0. /\ bundle[t] \in BundleStatus
      /\ ReleaseByTask(t) \in BundleStatus
      /\ CommitByTask(t, ok) \in BundleStatus
      /\ "committed" \in BundleStatus
  BY BundleTypes DEF DbOK, BundleStatus
<1>1. CASE turn[t] = "completed"
  <2>1. /\ lease' = ReleaseLeases({t}, {"active"})
        /\ bundle' \in [Turns -> BundleStatus]
        /\ UNCHANGED <<turn, inbox, idem, merged, reply, recovery>>
    BY <1>0, <1>1 DEF FinalizeCompletedTurn, DbOK
  <2> QED
    BY <2>1, ReleaseLeasesFacts DEF Settles, DbOK
<1>2. CASE turn[t] \notin {"completed", "running"}
  BY <1>2, UnchangedSettles DEF FinalizeCompletedTurn
<1>3. CASE turn[t] = "running" /\ inbox[t] \notin Pending
  <2>1. /\ bundle' = [bundle EXCEPT ![t] = ReleaseByTask(t)]
        /\ UNCHANGED <<turn, inbox, idem, merged, lease, reply, recovery>>
    BY <1>3 DEF FinalizeCompletedTurn
  <2> QED
    BY <1>0, <2>1 DEF Settles, DbOK
<1>4. CASE turn[t] = "running" /\ inbox[t] \in Pending /\ lease[t].status # "active"
  BY <1>0, <1>4, FailedSettles DEF FinalizeCompletedTurn
<1>5. CASE turn[t] = "running" /\ inbox[t] \in Pending /\ lease[t].status = "active"
  <2>1. /\ CompleteRows(t)
        /\ bundle' = [bundle EXCEPT ![t] = CommitByTask(t, ok)]
        /\ lease' = ReleaseLeases({t}, {"active"})
        /\ UNCHANGED <<merged, recovery>>
    BY <1>5 DEF FinalizeCompletedTurn
  <2> QED
    BY <1>0, <1>5, <2>1, ReleaseLeasesFacts, CompleteRowsFacts
    DEF Settles, DbOK, LiveStatus, TerminalStatus
<1> QED BY <1>1, <1>2, <1>3, <1>4, <1>5

\* finalizeCompletedTurn, as redriveHeld calls it, settles its turn.
LEMMA ReconciledSettles ==
  ASSUME DbOK, NEW t \in Turns, NEW ok \in BOOLEAN, ReconcileCompleted(t, ok)
  PROVE  Settles(t)
<1>1. CASE turn[t] \in {"failed", "interrupted"}
  BY <1>1, UnchangedSettles DEF ReconcileCompleted
<1>2. CASE turn[t] \notin {"failed", "interrupted"}
  <2>1. bundle' \in [Turns -> BundleStatus]
    BY <1>2 DEF ReconcileCompleted, DbOK, BundleStatus
  <2>2. /\ lease' = ReleaseLeases({t}, {"active"})
        /\ UNCHANGED <<merged, recovery>>
    BY <1>2 DEF ReconcileCompleted
  <2>3. CASE turn[t] = "completed"
    <3>1. UNCHANGED <<turn, inbox, idem, reply>>
      BY <1>2, <2>3 DEF ReconcileCompleted
    <3> QED
      BY <2>1, <2>2, <2>3, <3>1, ReleaseLeasesFacts DEF Settles, DbOK
  <2>4. CASE turn[t] # "completed"
    <3>1. CompleteRows(t)
      BY <1>2, <2>4 DEF ReconcileCompleted
    <3> QED
      BY <2>1, <2>2, <3>1, ReleaseLeasesFacts, CompleteRowsFacts
      DEF Settles, DbOK, LiveStatus, TerminalStatus
  <2> QED BY <2>3, <2>4
<1> QED BY <1>1, <1>2

-----------------------------------------------------------------------------
(* Type correctness *)

RestOK ==
  /\ gateway \in GatewayState
  /\ task \in [Turns -> TaskRows]
  /\ cancel \in [Turns -> CancelState]
  /\ paused \subseteq Users
  /\ redrive \in [Turns -> {"none"} \cup LeasePhase]
  /\ exec \in [Turns -> ExecState]
  /\ runs \in [Turns -> Nat]
  /\ seen \subseteq Turns
  /\ crashes \in 0..MaxCrashes
  /\ expiries \in 0..MaxExpiries
  /\ resets \in 0..MaxResets

\* The type invariant in two halves.
LEMMA TypeHalves == TypeOK <=> DbOK /\ RestOK
BY DEF TypeOK, DbOK, RestOK

\* A row of activeTasks stays one when a field of it is assigned.
LEMMA TaskRowFields ==
  ASSUME NEW r \in TaskRows
  PROVE  /\ NoTask \in TaskRows
         /\ \A c \in TaskPc : [r EXCEPT !.pc = c] \in TaskRows
         /\ \A x \in ReservationState : [r EXCEPT !.res = x] \in TaskRows
         /\ [r EXCEPT !.leaseLost = TRUE] \in TaskRows
         /\ [r EXCEPT !.pc = "reserved", !.res = "pending"] \in TaskRows
         /\ \A k \in ErrorKind : [r EXCEPT !.pc = "failing", !.error = k] \in TaskRows
         /\ \A M \in SUBSET Turns :
              [NoTask EXCEPT !.pc = "claimed", !.content = M] \in TaskRows
BY DEF TaskRows, NoTask, TaskPc, ReservationState, ErrorKind

\* The steps by which a task settles its turn and ends.
TaskSettles(t) ==
  /\ task[t].pc # "none"
  /\ Settles(t)
  /\ EndTask(t)
  /\ UNCHANGED <<gateway, cancel, paused, redrive, extVars, bounds>>

\* Each of these steps of a task settles its turn and ends the task.
LEMMA TaskSettlesSteps ==
  ASSUME TypeOK, NEW t \in Turns,
         \/ QuotaRefused(t) \/ ResolveFails(t) \/ PersistExecutionFailure(t)
         \/ UsageFails(t) \/ PersistTurnCompletion(t)
         \/ ExecuteResolves(t) /\ task[t].leaseLost
  PROVE  TaskSettles(t)
<1>1. DbOK
  BY TypeHalves
<1>2. bundle[t] \in BundleStatus /\ ReleaseByTask(t) \in BundleStatus
  BY <1>1, BundleTypes DEF DbOK
<1>3. CASE QuotaRefused(t)
  BY <1>1, <1>2, <1>3, FailedSettles DEF QuotaRefused, TaskSettles
<1>4. CASE ResolveFails(t)
  BY <1>1, <1>2, <1>4, FailedSettles DEF ResolveFails, TaskSettles
<1>5. CASE PersistExecutionFailure(t)
  BY <1>1, <1>2, <1>5, FailedSettles DEF PersistExecutionFailure, TaskSettles
<1>6. CASE UsageFails(t)
  BY <1>1, <1>2, <1>6, FailedSettles DEF UsageFails, TaskSettles
<1>7. CASE PersistTurnCompletion(t)
  BY <1>1, <1>7, CompletedSettles DEF PersistTurnCompletion, TaskSettles
<1>8. CASE ExecuteResolves(t) /\ task[t].leaseLost
  BY <1>1, <1>2, <1>8, FailedSettles DEF ExecuteResolves, TaskSettles
<1> QED BY <1>3, <1>4, <1>5, <1>6, <1>7, <1>8

\* The steps by which startup settles a turn.
LEMMA StartupSettlesSteps ==
  ASSUME TypeOK, NEW t \in Turns, ReconcileInspected(t) \/ InterruptOrphan(t)
  PROVE  Settles(t)
<1>1. DbOK
  BY TypeHalves
<1>2. ReleaseBundle(bundle[t]) \in BundleStatus
  BY <1>1, BundleTypes
<1>3. CASE ReconcileInspected(t)
  <2>1. PICK r \in Inspected(t) :
          CASE r = "completed" -> \E ok \in BOOLEAN : ReconcileCompleted(t, ok)
            [] r = "failed" -> \E k \in {"plain", "corrupt"} :
                                 FinalizeFailedTurn(t, k, ReleaseBundle(bundle[t]))
            [] OTHER -> FinalizeInterruptedTurn(t)
    BY <1>3 DEF ReconcileInspected
  <2>2. CASE r = "completed"
    BY <1>1, <2>1, <2>2, ReconciledSettles
  <2>3. CASE r = "failed"
    BY <1>1, <1>2, <2>1, <2>3, FailedSettles
  <2>4. CASE r \notin {"completed", "failed"}
    BY <1>1, <2>1, <2>4, InterruptedSettles
  <2> QED BY <2>2, <2>3, <2>4
<1>4. CASE InterruptOrphan(t)
  BY <1>1, <1>4, InterruptedSettles DEF InterruptOrphan
<1> QED BY <1>3, <1>4

\* Every step keeps the types.
LEMMA TypePreserved == TypeOK /\ [Next]_vars => TypeOK'
<1> SUFFICES ASSUME TypeOK, [Next]_vars
             PROVE  TypeOK'
  OBVIOUS
<1>1. DbOK /\ RestOK
  BY TypeHalves
<1>2. (DbOK' /\ RestOK') => TypeOK'
  BY DEF TypeOK, DbOK, RestOK
<1> USE DEF bounds, extVars, memVars
<1>3. ASSUME NEW t \in Turns, TaskSettles(t)
      PROVE  TypeOK'
  <2>1. task' \in [Turns -> TaskRows]
    BY <1>1, <1>3, TaskRowFields DEF TaskSettles, EndTask, RestOK
  <2> QED
    BY <1>1, <1>2, <1>3, <2>1 DEF TaskSettles, Settles, RestOK
<1>4. ASSUME NEW t \in Turns, DispatchInbound(t)
      PROVE  TypeOK'
  BY <1>1, <1>2, <1>4
  DEF DispatchInbound, DbOK, RestOK, TurnStatus, LiveStatus, InboxStatus, IdemState
<1>5. ASSUME NEW t \in Turns, ReserveQuota(t)
      PROVE  TypeOK'
  BY <1>1, <1>2, <1>5, TaskRowFields DEF ReserveQuota, DbOK, RestOK, BundleStatus
<1>6. ASSUME NEW t \in Turns, BeginExecuting(t)
      PROVE  TypeOK'
  <2>1. lease' \in [Turns -> LeaseRows]
    BY <1>1, <1>6 DEF BeginExecuting, DbOK, LeaseRows, LeasePhase
  <2>2. task' \in [Turns -> TaskRows]
    <3>1. task' = [task EXCEPT ![t] = [task[t] EXCEPT !.pc = "resolving"]]
      BY <1>6 DEF BeginExecuting
    <3> QED BY <1>1, <3>1, TaskRowFields DEF RestOK, TaskPc
  <2> QED BY <1>1, <1>2, <1>6, <2>1, <2>2 DEF BeginExecuting, DbOK, RestOK
<1>7. ASSUME NEW t \in Turns, Heartbeat(t)
      PROVE  TypeOK'
  <2>1. lease' \in [Turns -> LeaseRows]
    <3>1. lease' = lease \/ lease' = [lease EXCEPT ![t] = [lease[t] EXCEPT !.expired = FALSE]]
      BY <1>7 DEF Heartbeat
    <3>2. [lease[t] EXCEPT !.expired = FALSE] \in LeaseRows
      BY <1>1 DEF DbOK, LeaseRows
    <3> QED BY <1>1, <3>1, <3>2 DEF DbOK
  <2>2. task' \in [Turns -> TaskRows]
    <3>1. task' = task \/ task' = [task EXCEPT ![t] = [task[t] EXCEPT !.leaseLost = TRUE]]
      BY <1>7 DEF Heartbeat
    <3>2. [task[t] EXCEPT !.leaseLost = TRUE] \in TaskRows
      BY <1>1, TaskRowFields DEF RestOK
    <3> QED BY <1>1, <3>1, <3>2 DEF RestOK
  <2> QED BY <1>1, <1>2, <1>7, <2>1, <2>2 DEF Heartbeat, DbOK, RestOK
<1>8. ASSUME NEW t \in Turns, ExecuteTurn(t)
      PROVE  TypeOK'
  <2>1. /\ exec' \in [Turns -> ExecState]
        /\ runs' \in [Turns -> Nat]
    BY <1>1, <1>8 DEF ExecuteTurn, RestOK, ExecState
  <2>2. /\ task' \in [Turns -> TaskRows]
        /\ seen' \subseteq Turns
    BY <1>1, <1>8 DEF ExecuteTurn, RestOK, TaskRows, TaskPc
  <2> QED BY <1>1, <1>2, <1>8, <2>1, <2>2 DEF ExecuteTurn, dbVars, DbOK, RestOK
<1>9. ASSUME NEW t \in Turns, RuntimeEndsTurn(t)
      PROVE  TypeOK'
  BY <1>1, <1>2, <1>9 DEF RuntimeEndsTurn, dbVars, DbOK, RestOK, ExecState
<1>10. ASSUME NEW t \in Turns, ExecuteRejects(t)
       PROVE  TypeOK'
  <2>1. task' \in [Turns -> TaskRows]
    <3>1. CASE turn[t] = "interrupted"
      BY <1>1, <1>10, <3>1, TaskRowFields DEF ExecuteRejects, EndTask, RestOK
    <3>2. CASE turn[t] # "interrupted"
      <4>1. PICK k \in ErrorKind :
              task' = [task EXCEPT ![t] = [task[t] EXCEPT !.pc = "failing", !.error = k]]
        BY <1>10, <3>2 DEF ExecuteRejects
      <4> QED BY <1>1, <4>1, TaskRowFields DEF RestOK
    <3> QED BY <3>1, <3>2
  <2> QED BY <1>1, <1>2, <1>10, <2>1 DEF ExecuteRejects, dbVars, DbOK, RestOK
<1>11. ASSUME NEW t \in Turns, ExecuteResolves(t), ~task[t].leaseLost
       PROVE  TypeOK'
  <2>1. lease' \in [Turns -> LeaseRows]
    BY <1>1, <1>11 DEF ExecuteResolves, DbOK, LeaseRows, LeasePhase
  <2>2. task' \in [Turns -> TaskRows]
    BY <1>1, <1>11 DEF ExecuteResolves, RestOK, TaskRows, TaskPc
  <2> QED BY <1>1, <1>2, <1>11, <2>1, <2>2 DEF ExecuteResolves, DbOK, RestOK
<1>12. ASSUME NEW t \in Turns, TaskStep(t)
       PROVE  TypeOK'
  BY <1>3, <1>5, <1>6, <1>8, <1>10, <1>11, <1>12, TaskSettlesSteps DEF TaskStep
<1>13. ASSUME NEW t \in Turns,
              CancelTurn(t) \/ CancelAccepted(t) \/ CancelRejected(t)
       PROVE  TypeOK'
  BY <1>1, <1>2, <1>13
  DEF CancelTurn, CancelAccepted, CancelRejected, dbVars, DbOK, RestOK, CancelState
<1>14. ASSUME NEW t \in Turns, CancelQueuedTurn(t)
       PROVE  TypeOK'
  BY <1>1, <1>2, <1>14
  DEF CancelQueuedTurn, Move, DbOK, RestOK, TurnStatus, TerminalStatus, InboxStatus, IdemState
<1>15. ASSUME NEW t \in Turns, CancelCommits(t)
       PROVE  TypeOK'
  <2>1. cancel' \in [Turns -> CancelState]
    BY <1>1, <1>15 DEF CancelCommits, RestOK, CancelState
  <2>2. CASE turn[t] = "running" /\ InboxCancellable(t)
    <3>1. /\ turn' \in [Turns -> TurnStatus]
          /\ inbox' \in [Turns -> InboxStatus]
          /\ idem' \in [Turns -> IdemState]
      BY <1>1, <1>15, <2>2
      DEF CancelCommits, Move, DbOK, TurnStatus, TerminalStatus, InboxStatus, IdemState
    <3>2. lease' \in [Turns -> LeaseRows]
      BY <1>1, <1>15, <2>2, ReleaseLeasesFacts DEF CancelCommits, DbOK
    <3>3. bundle' \in [Turns -> BundleStatus]
      BY <1>1, <1>15, <2>2, BundleTypes DEF CancelCommits, DbOK
    <3>4. task' \in [Turns -> TaskRows]
      BY <1>1, <1>15, <2>2, SMTT(30) DEF CancelCommits, RestOK, TaskRows, ReservationState
    <3> QED
      BY <1>1, <1>2, <1>15, <2>1, <2>2, <3>1, <3>2, <3>3, <3>4
      DEF CancelCommits, DbOK, RestOK
  <2>3. CASE ~(turn[t] = "running" /\ InboxCancellable(t))
    BY <1>1, <1>2, <1>15, <2>1, <2>3 DEF CancelCommits, dbVars, DbOK, RestOK
  <2> QED BY <2>2, <2>3
<1>16. ASSUME NEW t \in Turns, LeaseTimesOut(t)
       PROVE  TypeOK'
  <2>1. lease' \in [Turns -> LeaseRows]
    BY <1>1, <1>16 DEF LeaseTimesOut, DbOK, LeaseRows
  <2>2. expiries' \in 0..MaxExpiries
    BY <1>1, <1>16, BoundsAssumption DEF LeaseTimesOut, RestOK
  <2> QED BY <1>1, <1>2, <1>16, <2>1, <2>2 DEF LeaseTimesOut, DbOK, RestOK
<1>17. ASSUME NEW t \in Turns, BundleExpires(t)
       PROVE  TypeOK'
  <2>1. bundle' \in [Turns -> BundleStatus]
    BY <1>1, <1>17 DEF BundleExpires, DbOK, BundleStatus
  <2>2. expiries' \in 0..MaxExpiries
    BY <1>1, <1>17, BoundsAssumption DEF BundleExpires, RestOK
  <2> QED BY <1>1, <1>2, <1>17, <2>1, <2>2 DEF BundleExpires, DbOK, RestOK
<1>18. ASSUME NEW c \in Turns, NEW e \in Turns, ClaimOneQueuedTurn(c, e)
       PROVE  TypeOK'
  <2> DEFINE M == MergePrefix(c) \ {e}
  <2>1. M \subseteq Turns
    BY DEF MergePrefix, MergeRows, Held, TurnsOf
  <2>2. turn' \in [Turns -> TurnStatus]
    BY <1>1, <1>18 DEF ClaimOneQueuedTurn, DbOK, TurnStatus, LiveStatus, TerminalStatus
  <2>3. inbox' \in [Turns -> InboxStatus]
    BY <1>1, <1>18 DEF ClaimOneQueuedTurn, DbOK, InboxStatus
  <2>4. idem' \in [Turns -> IdemState]
    BY <1>1, <1>18 DEF ClaimOneQueuedTurn, DbOK, IdemState
  <2>5. merged' \in [Turns -> {0} \cup Turns]
    BY <1>1, <1>18 DEF ClaimOneQueuedTurn, DbOK
  <2>6. lease' \in [Turns -> LeaseRows]
    <3>1. ReleaseLeases(ExpiredLeases, {"active"}) \in [Turns -> LeaseRows]
      BY <1>1, ReleaseLeasesFacts DEF DbOK
    <3>2. [status |-> "active", phase |-> "claimed", expired |-> FALSE] \in LeaseRows
      BY DEF LeaseRows, LeaseStatus, LeasePhase
    <3> QED BY <1>18, <3>1, <3>2 DEF ClaimOneQueuedTurn
  <2>7. task' \in [Turns -> TaskRows]
    <3>1. M \cup {e} \in SUBSET Turns
      BY <2>1
    <3>2. [NoTask EXCEPT !.pc = "claimed", !.content = M \cup {e}] \in TaskRows
      BY <1>1, <3>1, TaskRowFields DEF RestOK
    <3>3. task' = [task EXCEPT ![e] = [NoTask EXCEPT !.pc = "claimed", !.content = M \cup {e}]]
      BY <1>18 DEF ClaimOneQueuedTurn
    <3> QED BY <1>1, <3>2, <3>3 DEF RestOK
  <2>8. UNCHANGED <<bundle, reply, recovery, gateway, cancel, paused, redrive, extVars, bounds>>
    BY <1>18 DEF ClaimOneQueuedTurn
  <2> QED
    BY <1>1, <1>2, <2>2, <2>3, <2>4, <2>5, <2>6, <2>7, <2>8 DEF DbOK, RestOK
<1>19. ASSUME ReleaseExpiredLeases
       PROVE  TypeOK'
  BY <1>1, <1>2, <1>19, ReleaseLeasesFacts DEF ReleaseExpiredLeases, DbOK, RestOK
<1>20. ASSUME NEW u \in Users, PauseUserDispatch(u) \/ ResumeUserDispatch(u)
       PROVE  TypeOK'
  BY <1>1, <1>2, <1>20
  DEF PauseUserDispatch, ResumeUserDispatch, dbVars, DbOK, RestOK
<1>21. ASSUME NEW s \in Sessions, NEW replayQueued \in BOOLEAN, ResetSession(s, replayQueued)
       PROVE  TypeOK'
  <2>1. lease' \in [Turns -> LeaseRows]
    BY <1>1, <1>21, ReleaseLeasesFacts DEF ResetSession, DbOK
  <2>2. turn' \in [Turns -> TurnStatus] /\ inbox' \in [Turns -> InboxStatus]
    BY <1>1, <1>21 DEF ResetSession, DbOK, TurnStatus, TerminalStatus, InboxStatus
  <2>3. recovery' \in [Sessions -> BOOLEAN] /\ resets' \in 0..MaxResets
    BY <1>1, <1>21, BoundsAssumption DEF ResetSession, DbOK, RestOK
  <2> QED
    BY <1>1, <1>2, <1>21, <2>1, <2>2, <2>3 DEF ResetSession, DbOK, RestOK
<1>22. ASSUME Crash
       PROVE  TypeOK'
  <2>1. NoTask \in TaskRows
    BY DEF NoTask, TaskRows, TaskPc, ReservationState, ErrorKind
  <2>2. crashes' \in 0..MaxCrashes
    BY <1>1, <1>22, BoundsAssumption DEF Crash, RestOK
  <2> QED
    BY <1>1, <1>2, <1>22, <2>1, <2>2
    DEF Crash, dbVars, DbOK, RestOK, GatewayState, CancelState
<1>23. ASSUME Boot
       PROVE  TypeOK'
  BY <1>1, <1>2, <1>23 DEF Boot, dbVars, DbOK, RestOK, GatewayState
<1>24. ASSUME RedriveHeld
       PROVE  TypeOK'
  <2>1. redrive' \in [Turns -> {"none"} \cup LeasePhase]
    BY <1>1, <1>24 DEF RedriveHeld, DbOK, LeaseRows
  <2> QED
    BY <1>1, <1>2, <1>24, <2>1 DEF RedriveHeld, dbVars, DbOK, RestOK, GatewayState
<1>25. ASSUME FinishRedrive
       PROVE  TypeOK'
  BY <1>1, <1>2, <1>25
  DEF FinishRedrive, DbOK, RestOK, GatewayState, InboxStatus, IdemState
<1>26. ASSUME NEW t \in Turns, RequeueClaimed(t)
       PROVE  TypeOK'
  <2>1. lease' \in [Turns -> LeaseRows]
    BY <1>1, <1>26 DEF RequeueClaimed, DbOK, LeaseRows, LeaseStatus
  <2> QED
    BY <1>1, <1>2, <1>26, <2>1
    DEF RequeueClaimed, DbOK, RestOK, TurnStatus, LiveStatus, InboxStatus, IdemState
<1>27. ASSUME NEW t \in Turns, ReconcileInspected(t) \/ InterruptOrphan(t)
       PROVE  TypeOK'
  <2>1. DbOK'
    BY <1>27, StartupSettlesSteps DEF Settles
  <2>2. RestOK'
    BY <1>1, <1>27 DEF ReconcileInspected, InterruptOrphan, RestOK
  <2> QED BY <1>2, <2>1, <2>2
<1>28. ASSUME UNCHANGED vars
       PROVE  TypeOK'
  BY <1>1, <1>2, <1>28 DEF vars, dbVars, DbOK, RestOK
<1> QED
  BY <1>4, <1>7, <1>9, <1>12, <1>13, <1>14, <1>15, <1>16, <1>17, <1>18, <1>19, <1>20,
     <1>21, <1>22, <1>23, <1>24, <1>25, <1>26, <1>27, <1>28
  DEF Next, Claim, StartupStep, RecoverValidPrefix, StartNewGeneration

\* Every reachable state of the gateway is well typed, for any constants.
THEOREM TypeCorrect == Spec => []TypeOK
<1>1. Init => TypeOK
  BY BoundsAssumption
  DEF Init, TypeOK, TurnStatus, InboxStatus, IdemState, NoLease, LeaseRows, LeaseStatus,
      LeasePhase, BundleStatus, GatewayState, NoTask, TaskRows, TaskPc, ReservationState,
      ErrorKind, CancelState, ExecState
<1> QED BY <1>1, TypePreserved, PTL DEF Spec

-----------------------------------------------------------------------------
(* What a claim takes from the queue of a session *)

\* The LIMIT of a query ordered by rowid keeps every row before one it keeps.
LEMMA LimitKeepsEarlier ==
  ASSUME NEW S \in SUBSET Turns, NEW u \in Turns, NEW v \in Turns, u <= v,
         NEW k \in Nat, Cardinality({x \in S : x < v}) < k
  PROVE  Cardinality({x \in S : x < u}) < k
<1>1. IsFiniteSet(Turns)
  BY FS_Interval, TurnsAssumption DEF Turns
<1>2. IsFiniteSet({x \in S : x < v})
  BY <1>1, FS_Subset
<1>3. {x \in S : x < u} \subseteq {x \in S : x < v}
  <2>1. \A x \in Turns : x < u => x < v
    BY TurnsAssumption DEF Turns
  <2> QED BY <2>1
<1>4. /\ IsFiniteSet({x \in S : x < u})
      /\ Cardinality({x \in S : x < u}) <= Cardinality({x \in S : x < v})
  BY <1>2, <1>3, FS_Subset
<1>5. /\ Cardinality({x \in S : x < u}) \in Nat
      /\ Cardinality({x \in S : x < v}) \in Nat
  BY <1>2, <1>4, FS_CardinalityType
<1> QED BY <1>4, <1>5

\* A claim starts the front of the queue of an idle session: with the turns merged
\* into the one it runs, every earlier turn of the session is settled.
LEMMA ClaimTakesFront ==
  ASSUME IndInv, NEW c \in Turns, NEW e \in Turns, ClaimOneQueuedTurn(c, e)
  PROVE  /\ turn[e] = "queued"
         /\ \A u \in Turns : SessionOf[u] = SessionOf[e] => turn[u] # "running"
         /\ \A u \in MergePrefix(c) \ {e} :
              /\ u \in Turns /\ u < e
              /\ SessionOf[u] = SessionOf[e]
              /\ turn[u] = "queued"
         /\ \A u \in Turns :
              SessionOf[u] = SessionOf[e] /\ u < e /\ u \notin MergePrefix(c)
                => turn[u] \in TerminalStatus
<1> USE TurnsAssumption DEF Turns
<1>1. /\ c \in Eligible
      /\ Cardinality({x \in Eligible : x < c}) < CandidateLimit
      /\ UserMayRun(c)
      /\ \A u \in Candidates : u < c => ~UserMayRun(u)
      /\ Effective(c, e)
  BY DEF ClaimOneQueuedTurn, Selected, Candidates
<1>2. /\ c \in Held(SessionOf[c])
      /\ FreeSession(SessionOf[c])
  BY <1>1 DEF Eligible
<1>3. \A u \in Turns : SessionOf[u] = SessionOf[c] => turn[u] # "running"
  BY <1>2 DEF FreeSession, Running, TurnsOf
<1>4. \A u \in Turns : SessionOf[u] = SessionOf[c] /\ turn[u] = "queued" => u \in Held(SessionOf[c])
  BY DEF IndInv, QueuedIsHeld, Held, TurnsOf
<1>5. ASSUME NEW u \in Turns, SessionOf[u] = SessionOf[c], u < c, turn[u] = "queued"
      PROVE  FALSE
  <2>1. u \in Eligible
    BY <1>2, <1>4, <1>5 DEF Eligible
  <2>2. Cardinality({x \in Eligible : x < u}) < CandidateLimit
    <3>1. Eligible \in SUBSET Turns
      BY DEF Eligible
    <3> QED BY <1>1, <1>5, <3>1, LimitKeepsEarlier, LimitsAssumption
  <2>3. UserMayRun(u)
    BY <1>1, <1>5 DEF UserMayRun
  <2> QED BY <1>1, <1>5, <2>1, <2>2, <2>3 DEF Candidates
<1>6. \A u \in MergePrefix(c) :
        u \in Turns /\ u \in MergeRows(SessionOf[c]) /\ SessionOf[u] = SessionOf[c] /\ turn[u] = "queued"
  BY DEF MergePrefix, MergeRows, Held, TurnsOf
<1>7. /\ turn[e] = "queued"
      /\ SessionOf[e] = SessionOf[c]
      /\ \A u \in MergePrefix(c) \ {e} : u < e
  <2>1. CASE MergePrefix(c) \ {c} = {}
    BY <1>1, <1>2, <2>1 DEF Effective, Held, TurnsOf
  <2>2. CASE MergePrefix(c) \ {c} # {}
    BY <1>1, <1>6, <2>2 DEF Effective
  <2> QED BY <2>1, <2>2
<1>8. ASSUME NEW u \in Turns, SessionOf[u] = SessionOf[e], u < e, u \notin MergePrefix(c)
      PROVE  turn[u] # "queued"
  <2> SUFFICES ASSUME turn[u] = "queued" PROVE FALSE
    OBVIOUS
  <2>1. CASE MergePrefix(c) \ {c} = {}
    BY <1>1, <1>5, <1>7, <1>8, <2>1 DEF Effective
  <2>2. CASE MergePrefix(c) \ {c} # {}
    <3>1. e \in MergePrefix(c)
      BY <1>1, <2>2 DEF Effective
    <3>2. Cardinality({x \in Held(SessionOf[c]) : x < e}) < MergeLimit
      BY <1>6, <3>1 DEF MergeRows
    <3>3. Cardinality({x \in Held(SessionOf[c]) : x < u}) < MergeLimit
      <4>1. Held(SessionOf[c]) \in SUBSET Turns
        BY DEF Held, TurnsOf
      <4> QED BY <1>8, <3>2, <4>1, LimitKeepsEarlier, LimitsAssumption
    <3>4. u \in MergeRows(SessionOf[c])
      BY <1>4, <1>7, <1>8, <3>3 DEF MergeRows
    <3>5. \A w \in MergeRows(SessionOf[c]) :
            w <= u => w \notin Commands /\ ContextOf[w] = ContextOf[c]
      <4>1. \A w \in MergeRows(SessionOf[c]) : w \in Turns
        BY DEF MergeRows, Held, TurnsOf
      <4> QED BY <1>8, <3>1, <4>1 DEF MergePrefix
    <3> QED BY <1>8, <3>4, <3>5 DEF MergePrefix
  <2> QED BY <2>1, <2>2
<1>9. ASSUME NEW u \in Turns, SessionOf[u] = SessionOf[e], u < e, u \notin MergePrefix(c)
      PROVE  turn[u] \in TerminalStatus
  <2>1. turn[u] # "none"
    BY <1>7, <1>9 DEF IndInv, ArrivedInOrder
  <2>2. turn[u] \in TurnStatus
    BY DEF IndInv, TypeOK
  <2> QED BY <1>3, <1>7, <1>8, <1>9, <2>1, <2>2 DEF TurnStatus, LiveStatus
<1> QED BY <1>3, <1>6, <1>7, <1>9

-----------------------------------------------------------------------------
(* The invariant is inductive *)

\* The parts of the invariant besides the types.
Safe ==
  /\ SingleRunning
  /\ LeaseNamesRunning
  /\ ArrivedInOrder
  /\ QueuedIsHeld
  /\ TaskWasClaimed
  /\ ClaimedIsEarly
  /\ RedriveIsStale

\* The inductive invariant is the type invariant and the named parts of Safe.
LEMMA IndInvParts == IndInv <=> TypeOK /\ Safe
BY DEF IndInv, Safe

\* Settling a turn that some task or startup pass is entitled to settle keeps the
\* parts of the invariant that concern rows and leases.
LEMMA SettlesKeepsRows ==
  ASSUME IndInv, NEW t \in Turns, Settles(t)
  PROVE  /\ SingleRunning'
         /\ LeaseNamesRunning'
         /\ ArrivedInOrder'
         /\ QueuedIsHeld'
<1> USE DEF IndInv, Settles, LiveStatus, TerminalStatus
<1>1. SingleRunning'
  BY DEF SingleRunning
<1>2. LeaseNamesRunning'
  BY DEF LeaseNamesRunning
<1>3. ArrivedInOrder'
  BY DEF ArrivedInOrder
<1>4. QueuedIsHeld'
  BY DEF QueuedIsHeld
<1> QED BY <1>1, <1>2, <1>3, <1>4

\* Every step keeps the invariant.
LEMMA Inductive == IndInv /\ [Next]_vars => IndInv'
<1> SUFFICES ASSUME IndInv, [Next]_vars
             PROVE  Safe'
  <2>1. TypeOK /\ [Next]_vars /\ Safe' => IndInv'
    BY TypePreserved DEF IndInv, Safe
  <2> QED BY <2>1 DEF IndInv
<1>1. /\ TypeOK
      /\ turn \in [Turns -> TurnStatus]
      /\ lease \in [Turns -> LeaseRows]
      /\ task \in [Turns -> TaskRows]
      /\ TypeOK'
  BY TypePreserved DEF IndInv, TypeOK
<1> USE DEF bounds, extVars, memVars
<1>2. ASSUME NEW t \in Turns, TaskSettles(t)
      PROVE  Safe'
  <2>1. task' = [task EXCEPT ![t] = NoTask] /\ UNCHANGED <<redrive, gateway>>
    BY <1>2 DEF TaskSettles, EndTask
  <2>2. NoTask.pc = "none"
    BY DEF NoTask
  <2>3. turn[t] \notin {"none", "queued"} /\ redrive[t] # "claimed"
    BY <1>2 DEF TaskSettles, IndInv, TaskWasClaimed, RedriveIsStale
  <2>4. TaskWasClaimed'
    BY <1>1, <1>2, <2>1, <2>2 DEF TaskSettles, Settles, IndInv, TaskWasClaimed
  <2>5. ClaimedIsEarly'
    BY <1>1, <1>2, <2>1, <2>2 DEF TaskSettles, Settles, IndInv, ClaimedIsEarly
  <2>6. RedriveIsStale'
    BY <1>1, <1>2, <2>1, <2>2, <2>3
    DEF TaskSettles, Settles, IndInv, RedriveIsStale, LiveStatus, TerminalStatus
  <2> QED BY <1>2, <2>4, <2>5, <2>6, SettlesKeepsRows DEF TaskSettles, Safe
<1>3. ASSUME NEW t \in Turns, DispatchInbound(t)
      PROVE  Safe'
  <2>1. gateway = "up" /\ turn[t] = "none"
    BY <1>3 DEF DispatchInbound, Serving
  <2>2. /\ turn' = [turn EXCEPT ![t] = "queued"]
        /\ inbox' = [inbox EXCEPT ![t] = "held"]
        /\ \A u \in Turns : u < t => turn[u] # "none"
        /\ UNCHANGED <<lease, task, redrive, gateway>>
    BY <1>3 DEF DispatchInbound
  <2>3. inbox \in [Turns -> InboxStatus]
    BY <1>1 DEF TypeOK
  <2>4. SingleRunning' /\ LeaseNamesRunning'
    BY <1>1, <2>1, <2>2 DEF IndInv, SingleRunning, LeaseNamesRunning
  <2>5. ArrivedInOrder' /\ QueuedIsHeld'
    BY <1>1, <2>1, <2>2, <2>3, TurnsAssumption DEF IndInv, ArrivedInOrder, QueuedIsHeld, Turns
  <2>6. TaskWasClaimed' /\ ClaimedIsEarly' /\ RedriveIsStale'
    BY <1>1, <2>1, <2>2 DEF IndInv, TaskWasClaimed, ClaimedIsEarly, RedriveIsStale
  <2> QED BY <2>4, <2>5, <2>6 DEF Safe
\* A task moves on without settling its turn.
<1>4. ASSUME NEW t \in Turns,
             task[t].pc # "none",
             UNCHANGED <<turn, inbox, redrive, gateway>>,
             \A u \in Turns \ {t} : task'[u].pc = task[u].pc /\ lease'[u] = lease[u],
             lease'[t].status = lease[t].status,
             lease'[t].status = "active" /\ lease'[t].phase = "claimed" =>
               task'[t].pc \in {"none", "claimed", "reserved"}
      PROVE  Safe'
  BY <1>1, <1>4
  DEF IndInv, Safe, SingleRunning, LeaseNamesRunning, ArrivedInOrder, QueuedIsHeld,
      TaskWasClaimed, ClaimedIsEarly, RedriveIsStale
<1>5. ASSUME NEW t \in Turns, ReserveQuota(t)
      PROVE  Safe'
  <2>1. task[t].pc = "claimed" /\ UNCHANGED <<turn, inbox, redrive, gateway, lease>>
    BY <1>5 DEF ReserveQuota
  <2>2. task'[t].pc = "reserved" /\ \A u \in Turns \ {t} : task'[u] = task[u]
    BY <1>1, <1>5 DEF ReserveQuota, TaskRows
  <2> QED BY <1>4, <2>1, <2>2
<1>6. ASSUME NEW t \in Turns, BeginExecuting(t)
      PROVE  Safe'
  <2>1. task[t].pc = "reserved" /\ UNCHANGED <<turn, inbox, redrive, gateway>>
    BY <1>6 DEF BeginExecuting
  <2>2. \A u \in Turns \ {t} : task'[u] = task[u] /\ lease'[u] = lease[u]
    BY <1>1, <1>6 DEF BeginExecuting
  <2>3. lease'[t].status = lease[t].status
    BY <1>1, <1>6 DEF BeginExecuting, LeaseRows
  <2>4. lease'[t].status = "active" => lease'[t].phase = "executing"
    BY <1>1, <1>6 DEF BeginExecuting, LeaseRows
  <2> QED BY <1>4, <2>1, <2>2, <2>3, <2>4
<1>7. ASSUME NEW t \in Turns, Heartbeat(t)
      PROVE  Safe'
  <2>1. task[t].pc # "none" /\ UNCHANGED <<turn, inbox, redrive, gateway>>
    BY <1>7 DEF Heartbeat
  <2>2. \A u \in Turns : task'[u].pc = task[u].pc
    BY <1>1, <1>7 DEF Heartbeat, TaskRows
  <2>3. /\ \A u \in Turns \ {t} : lease'[u] = lease[u]
        /\ lease'[t].status = lease[t].status
        /\ lease'[t].phase = lease[t].phase
    BY <1>1, <1>7 DEF Heartbeat, LeaseRows
  <2> QED BY <1>4, <2>1, <2>2, <2>3 DEF IndInv, ClaimedIsEarly
<1>8. ASSUME NEW t \in Turns, ExecuteTurn(t) \/ ExecuteRejects(t)
      PROVE  Safe'
  <2>1. /\ task[t].pc \in {"resolving", "executing"}
        /\ UNCHANGED <<turn, inbox, redrive, gateway, lease>>
        /\ \A u \in Turns \ {t} : task'[u] = task[u]
    BY <1>1, <1>8 DEF ExecuteTurn, ExecuteRejects, EndTask, dbVars
  <2>2. ~(lease[t].status = "active" /\ lease[t].phase = "claimed")
    BY <2>1 DEF IndInv, ClaimedIsEarly
  <2> QED BY <1>4, <2>1, <2>2
<1>9. ASSUME NEW t \in Turns, ExecuteResolves(t), ~task[t].leaseLost
      PROVE  Safe'
  <2>1. task[t].pc = "executing" /\ UNCHANGED <<turn, inbox, redrive, gateway>>
    BY <1>9 DEF ExecuteResolves
  <2>2. \A u \in Turns \ {t} : task'[u] = task[u] /\ lease'[u] = lease[u]
    BY <1>1, <1>9 DEF ExecuteResolves
  <2>3. lease'[t].status = lease[t].status
    BY <1>1, <1>9 DEF ExecuteResolves, LeaseRows
  <2>4. lease'[t].status = "active" => lease'[t].phase = "result_observed"
    BY <1>1, <1>9 DEF ExecuteResolves, LeaseRows
  <2> QED BY <1>4, <2>1, <2>2, <2>3, <2>4
<1>10. ASSUME NEW t \in Turns, TaskStep(t)
       PROVE  Safe'
  BY <1>1, <1>2, <1>5, <1>6, <1>8, <1>9, <1>10, TaskSettlesSteps DEF TaskStep
\* Nothing but leases changes, and those only by being released or timed.
<1>11. ASSUME UNCHANGED <<turn, inbox, task, redrive, gateway>>,
              \A u \in Turns : lease'[u].status = "active" =>
                lease[u].status = "active" /\ lease'[u].phase = lease[u].phase
       PROVE  Safe'
  BY <1>1, <1>11
  DEF IndInv, Safe, SingleRunning, LeaseNamesRunning, ArrivedInOrder, QueuedIsHeld,
      TaskWasClaimed, ClaimedIsEarly, RedriveIsStale
<1>12. ASSUME NEW t \in Turns,
              \/ RuntimeEndsTurn(t) \/ BundleExpires(t)
              \/ CancelTurn(t) \/ CancelAccepted(t) \/ CancelRejected(t)
       PROVE  Safe'
  BY <1>11, <1>12
  DEF RuntimeEndsTurn, BundleExpires, CancelTurn, CancelAccepted, CancelRejected, dbVars
<1>13. ASSUME NEW u \in Users, PauseUserDispatch(u) \/ ResumeUserDispatch(u)
       PROVE  Safe'
  BY <1>11, <1>13 DEF PauseUserDispatch, ResumeUserDispatch, dbVars
<1>14. ASSUME NEW t \in Turns, LeaseTimesOut(t)
       PROVE  Safe'
  <2>1. \A u \in Turns : lease'[u].status = lease[u].status /\ lease'[u].phase = lease[u].phase
    BY <1>1, <1>14 DEF LeaseTimesOut, LeaseRows
  <2> QED BY <1>11, <1>14, <2>1 DEF LeaseTimesOut
<1>15. ASSUME ReleaseExpiredLeases
       PROVE  Safe'
  <2>1. \A u \in Turns : lease'[u].status = "active" => lease'[u] = lease[u]
    BY <1>1, <1>15, ReleaseLeasesFacts DEF ReleaseExpiredLeases
  <2> QED BY <1>11, <1>15, <2>1 DEF ReleaseExpiredLeases
<1>16. ASSUME UNCHANGED vars
       PROVE  Safe'
  BY <1>11, <1>16 DEF vars, dbVars
\* Turns are given up: queued ones, or a running one with the leases of its session.
<1>17. ASSUME NEW S \in SUBSET Turns, gateway = "up",
              UNCHANGED <<redrive, gateway>>,
              \A u \in Turns : task'[u].pc = task[u].pc,
              \A u \in Turns : lease'[u].status = "active" => lease'[u] = lease[u],
              \A u \in S : turn[u] \in LiveStatus /\ turn'[u] = "interrupted",
              \A u \in S : turn[u] = "running" => lease'[u].status # "active",
              \A u \in Turns \ S : turn'[u] = turn[u],
              \A u \in Turns \ S : turn[u] = "queued" => inbox'[u] = inbox[u]
       PROVE  Safe'
  <2> USE <1>1, <1>17 DEF IndInv, LiveStatus
  <2>1. SingleRunning' /\ LeaseNamesRunning'
    BY DEF SingleRunning, LeaseNamesRunning
  <2>2. ArrivedInOrder' /\ QueuedIsHeld'
    BY DEF ArrivedInOrder, QueuedIsHeld
  <2>3. TaskWasClaimed' /\ ClaimedIsEarly' /\ RedriveIsStale'
    BY DEF TaskWasClaimed, ClaimedIsEarly, RedriveIsStale
  <2> QED BY <2>1, <2>2, <2>3 DEF Safe
<1>18. ASSUME NEW t \in Turns, CancelQueuedTurn(t)
       PROVE  Safe'
  <2>1. /\ gateway = "up" /\ turn[t] = "queued"
        /\ UNCHANGED <<redrive, gateway, task, lease>>
    BY <1>18 DEF CancelQueuedTurn, Serving
  <2>2. /\ turn'[t] = "interrupted"
        /\ \A u \in Turns \ {t} : turn'[u] = turn[u] /\ inbox'[u] = inbox[u]
    BY <1>1, <1>18 DEF CancelQueuedTurn, Move, TypeOK
  <2>3. {t} \in SUBSET Turns
    OBVIOUS
  <2> QED BY <1>17, <2>1, <2>2, <2>3 DEF LiveStatus
<1>19. ASSUME NEW t \in Turns, CancelCommits(t)
       PROVE  Safe'
  <2>1. CASE turn[t] = "running" /\ InboxCancellable(t)
    <3>1. /\ gateway = "up"
          /\ UNCHANGED <<redrive, gateway>>
          /\ lease' = ReleaseLeases(TurnsOf(SessionOf[t]), {"active"})
      BY <1>19, <2>1 DEF CancelCommits, Serving
    <3>2. /\ turn'[t] = "interrupted"
          /\ \A u \in Turns \ {t} : turn'[u] = turn[u] /\ inbox'[u] = inbox[u]
      BY <1>1, <1>19, <2>1 DEF CancelCommits, Move, TypeOK
    <3>3. \A u \in Turns : task'[u].pc = task[u].pc
      BY <1>1, <1>19, <2>1 DEF CancelCommits, TaskRows
    <3>4. /\ \A u \in Turns : lease'[u].status = "active" => lease'[u] = lease[u]
          /\ lease'[t].status # "active"
      BY <1>1, <3>1, ReleaseLeasesFacts DEF TurnsOf
    <3>5. {t} \in SUBSET Turns
      OBVIOUS
    <3> QED BY <1>17, <2>1, <3>1, <3>2, <3>3, <3>4, <3>5 DEF LiveStatus
  <2>2. CASE ~(turn[t] = "running" /\ InboxCancellable(t))
    BY <1>11, <1>19, <2>2 DEF CancelCommits, dbVars
  <2> QED BY <2>1, <2>2
<1>20. ASSUME NEW s \in Sessions, NEW replayQueued \in BOOLEAN, ResetSession(s, replayQueued)
       PROVE  Safe'
  <2> DEFINE S == {u \in TurnsOf(s) : turn[u] = "queued"}
  <2>1. /\ gateway = "up"
        /\ UNCHANGED <<redrive, gateway, task>>
        /\ lease' = ReleaseLeases(TurnsOf(s), {"active", "blocked"})
    BY <1>20 DEF ResetSession, Serving
  <2>2. \A u \in Turns : lease'[u].status = "active" => lease'[u] = lease[u]
    BY <1>1, <2>1, ReleaseLeasesFacts
  <2>3. CASE replayQueued
    BY <1>11, <1>20, <2>1, <2>2, <2>3 DEF ResetSession
  <2>4. CASE ~replayQueued
    <3>1. /\ turn' = [u \in Turns |-> IF u \in TurnsOf(s) /\ turn[u] = "queued"
                                      THEN "interrupted" ELSE turn[u]]
          /\ inbox' = [u \in Turns |-> IF u \in TurnsOf(s) /\ inbox[u] = "held"
                                       THEN "cancelled" ELSE inbox[u]]
      BY <1>20, <2>4 DEF ResetSession
    <3>2. S \in SUBSET Turns
      BY DEF TurnsOf
    <3>3. /\ \A u \in S : turn[u] = "queued" /\ turn'[u] = "interrupted"
          /\ \A u \in Turns \ S : turn'[u] = turn[u]
          /\ \A u \in Turns \ S : turn[u] = "queued" => inbox'[u] = inbox[u]
      BY <3>1 DEF TurnsOf
    <3> HIDE DEF S
    <3> QED BY <1>17, <2>1, <2>2, <3>2, <3>3 DEF LiveStatus
  <2> QED BY <2>3, <2>4
<1>21. ASSUME NEW c \in Turns, NEW e \in Turns, ClaimOneQueuedTurn(c, e)
       PROVE  Safe'
  <2> DEFINE M == MergePrefix(c) \ {e}
  <2>1. /\ turn' = [t \in Turns |-> CASE t = e -> "running"
                                      [] t \in M -> "completed"
                                      [] OTHER -> turn[t]]
        /\ inbox' = [t \in Turns |-> CASE t = e -> "processing"
                                       [] t \in M -> "delivered"
                                       [] OTHER -> inbox[t]]
        /\ task' = [task EXCEPT ![e] = [NoTask EXCEPT !.pc = "claimed", !.content = M \cup {e}]]
        /\ lease' = [ReleaseLeases(ExpiredLeases, {"active"}) EXCEPT
                       ![e] = [status |-> "active", phase |-> "claimed", expired |-> FALSE]]
        /\ UNCHANGED <<redrive, gateway>>
    BY <1>21 DEF ClaimOneQueuedTurn
  <2>2. /\ turn[e] = "queued"
        /\ \A u \in Turns : SessionOf[u] = SessionOf[e] => turn[u] # "running"
        /\ \A u \in M : u \in Turns /\ turn[u] = "queued"
    BY <1>21, ClaimTakesFront
  <2>3. e \notin M
    OBVIOUS
  <2> HIDE DEF M
  <2>4. /\ turn'[e] = "running"
        /\ \A u \in M : turn'[u] = "completed"
        /\ \A u \in Turns : u # e /\ u \notin M => turn'[u] = turn[u] /\ inbox'[u] = inbox[u]
    BY <2>1, <2>2, <2>3
  <2>5. /\ ReleaseLeases(ExpiredLeases, {"active"}) \in [Turns -> LeaseRows]
        /\ \A u \in Turns \ {e} : lease'[u].status = "active" => lease'[u] = lease[u]
    BY <1>1, <2>1, ReleaseLeasesFacts
  <2>6. /\ task'[e].pc = "claimed"
        /\ \A u \in Turns \ {e} : task'[u] = task[u]
    BY <1>1, <2>1 DEF NoTask
  <2>7. \A u \in Turns : turn[u] = "queued" => redrive[u] = "none"
    BY <1>1 DEF IndInv, RedriveIsStale, TypeOK
  <2>8. SingleRunning'
    BY <2>2, <2>4 DEF IndInv, SingleRunning
  <2>9. LeaseNamesRunning'
    BY <2>2, <2>4, <2>5 DEF IndInv, LeaseNamesRunning
  <2>10. ArrivedInOrder' /\ QueuedIsHeld'
    BY <2>2, <2>4 DEF IndInv, ArrivedInOrder, QueuedIsHeld
  <2>11. TaskWasClaimed' /\ ClaimedIsEarly'
    BY <2>2, <2>4, <2>5, <2>6 DEF IndInv, TaskWasClaimed, ClaimedIsEarly
  <2>12. RedriveIsStale'
    BY <2>1, <2>2, <2>4, <2>6, <2>7 DEF IndInv, RedriveIsStale
  <2> QED BY <2>8, <2>9, <2>10, <2>11, <2>12 DEF Safe
<1>22. ASSUME Crash
       PROVE  Safe'
  <2>1. /\ UNCHANGED <<turn, inbox, lease>>
        /\ task' = [t \in Turns |-> NoTask]
        /\ redrive' = [t \in Turns |-> "none"]
    BY <1>22 DEF Crash, dbVars
  <2>2. NoTask.pc = "none"
    BY DEF NoTask
  <2> QED
    BY <2>1, <2>2
    DEF IndInv, Safe, SingleRunning, LeaseNamesRunning, ArrivedInOrder, QueuedIsHeld,
        TaskWasClaimed, ClaimedIsEarly, RedriveIsStale
<1>23. ASSUME Boot
       PROVE  Safe'
  BY <1>1, <1>23
  DEF Boot, dbVars, IndInv, Safe, SingleRunning, LeaseNamesRunning, ArrivedInOrder, QueuedIsHeld,
      TaskWasClaimed, ClaimedIsEarly, RedriveIsStale
<1>24. ASSUME RedriveHeld
       PROVE  Safe'
  <2>1. /\ UNCHANGED <<turn, inbox, lease, task>>
        /\ gateway' = "redriving"
        /\ redrive' = [t \in Turns |-> IF lease[t].status = "active" THEN lease[t].phase ELSE "none"]
        /\ \A t \in Turns : task[t].pc \notin {"claimed", "reserved", "observed"}
    BY <1>24 DEF RedriveHeld, dbVars, Quiet
  <2>2. RedriveIsStale'
    BY <2>1 DEF IndInv, LeaseNamesRunning, ClaimedIsEarly, RedriveIsStale
  <2> QED
    BY <2>1, <2>2
    DEF IndInv, Safe, SingleRunning, LeaseNamesRunning, ArrivedInOrder, QueuedIsHeld,
        TaskWasClaimed, ClaimedIsEarly
<1>25. ASSUME FinishRedrive
       PROVE  Safe'
  <2>1. /\ UNCHANGED <<turn, lease, task, redrive>>
        /\ inbox' = [t \in Turns |-> IF inbox[t] = "processing" THEN "failed" ELSE inbox[t]]
        /\ \A t \in Turns : redrive[t] = "none"
    BY <1>25 DEF FinishRedrive, Reconciled
  <2>2. QueuedIsHeld' /\ RedriveIsStale'
    BY <2>1 DEF IndInv, QueuedIsHeld, RedriveIsStale
  <2> QED
    BY <2>1, <2>2
    DEF IndInv, Safe, SingleRunning, LeaseNamesRunning, ArrivedInOrder,
        TaskWasClaimed, ClaimedIsEarly
<1>26. ASSUME NEW t \in Turns, RequeueClaimed(t)
       PROVE  Safe'
  <2>1. /\ redrive[t] = "claimed"
        /\ turn[t] = "running"
        /\ task[t].pc = "none"
        /\ UNCHANGED <<task, gateway>>
    BY <1>26 DEF RequeueClaimed, IndInv, RedriveIsStale
  <2>2. /\ turn'[t] = "queued" /\ inbox'[t] = "held" /\ redrive'[t] = "none"
        /\ \A u \in Turns \ {t} :
             turn'[u] = turn[u] /\ inbox'[u] = inbox[u] /\ redrive'[u] = redrive[u]
    BY <1>1, <1>26 DEF RequeueClaimed, TypeOK
  <2>3. /\ lease'[t].status = "released"
        /\ \A u \in Turns \ {t} : lease'[u] = lease[u]
    BY <1>1, <1>26 DEF RequeueClaimed, LeaseRows
  <2>4. SingleRunning' /\ LeaseNamesRunning'
    BY <2>2, <2>3 DEF IndInv, SingleRunning, LeaseNamesRunning
  <2>5. ArrivedInOrder' /\ QueuedIsHeld'
    BY <2>1, <2>2 DEF IndInv, ArrivedInOrder, QueuedIsHeld
  <2>6. TaskWasClaimed' /\ ClaimedIsEarly' /\ RedriveIsStale'
    BY <2>1, <2>2, <2>3 DEF IndInv, TaskWasClaimed, ClaimedIsEarly, RedriveIsStale
  <2> QED BY <2>4, <2>5, <2>6 DEF Safe
<1>27. ASSUME NEW t \in Turns, ReconcileInspected(t) \/ InterruptOrphan(t)
       PROVE  Safe'
  <2>1. Settles(t)
    BY <1>1, <1>27, StartupSettlesSteps
  <2>2. /\ UNCHANGED <<task, gateway>>
        /\ redrive'[t] = "none"
        /\ \A u \in Turns \ {t} : redrive'[u] = redrive[u]
        /\ turn[t] \notin {"none", "queued"}
    BY <1>1, <1>27
    DEF ReconcileInspected, InterruptOrphan, Reconciled, Orphans, TypeOK, IndInv, RedriveIsStale
  <2>3. TaskWasClaimed' /\ ClaimedIsEarly'
    BY <1>1, <2>1, <2>2
    DEF Settles, IndInv, TaskWasClaimed, ClaimedIsEarly, LiveStatus, TerminalStatus
  <2>4. RedriveIsStale'
    BY <2>1, <2>2 DEF Settles, IndInv, RedriveIsStale
  <2> QED BY <2>1, <2>3, <2>4, SettlesKeepsRows DEF Safe
<1> QED
  BY <1>3, <1>7, <1>10, <1>12, <1>13, <1>14, <1>15, <1>16, <1>18, <1>19, <1>20, <1>21,
     <1>22, <1>23, <1>24, <1>25, <1>26, <1>27
  DEF Next, Claim, StartupStep, RecoverValidPrefix, StartNewGeneration

\* The initial state satisfies the invariant.
LEMMA InitInv == Init => IndInv
<1> SUFFICES ASSUME Init PROVE IndInv
  OBVIOUS
<1>1. TypeOK
  BY BoundsAssumption
  DEF Init, TypeOK, TurnStatus, InboxStatus, IdemState, NoLease, LeaseRows, LeaseStatus,
      LeasePhase, BundleStatus, GatewayState, NoTask, TaskRows, TaskPc, ReservationState,
      ErrorKind, CancelState, ExecState
<1>2. Safe
  BY DEF Init, Safe, SingleRunning, LeaseNamesRunning, ArrivedInOrder, QueuedIsHeld,
         TaskWasClaimed, ClaimedIsEarly, RedriveIsStale, NoLease, NoTask
<1> QED BY <1>1, <1>2, IndInvParts

\* Every reachable state satisfies the inductive invariant.
LEMMA Invariant == Spec => []IndInv
BY InitInv, Inductive, PTL DEF Spec

\* At most one turn of a session runs at any time, whatever leases expire, whatever
\* is cancelled or recovered, and wherever the server crashes.
THEOREM OneTurnPerSession == Spec => []SingleRunning
<1>1. IndInv => SingleRunning
  BY DEF IndInv
<1> QED BY <1>1, Invariant, PTL

\* An active lease is always of a running turn, so a 'claimed' lease found at startup
\* never brings a settled turn back.
THEOREM ActiveLeaseIsRunning == Spec => []LeaseNamesRunning
<1>1. IndInv => LeaseNamesRunning
  BY DEF IndInv
<1> QED BY <1>1, Invariant, PTL

-----------------------------------------------------------------------------
(* The gateway implements the queue of turns *)

\* From a state of the invariant, every step of the gateway is a step of the
\* abstract queue or leaves turn_runs.status alone.
LEMMA StepRefines == IndInv /\ [Next]_vars => [Queue!Next]_turn
<1> SUFFICES ASSUME IndInv, [Next]_vars, turn' # turn
             PROVE  Queue!Next
  OBVIOUS
<1> USE DEF bounds, extVars, memVars
<1>1. /\ TypeOK
      /\ turn \in [Turns -> TurnStatus]
      /\ turn' \in [Turns -> TurnStatus]
      /\ Queue!Turns = Turns
      /\ Queue!Outcome = TerminalStatus
  BY TypePreserved DEF IndInv, TypeOK, Queue!Turns, Turns, Queue!Outcome, TerminalStatus
<1>2. ASSUME NEW t \in Turns, Settles(t), turn[t] # "queued"
      PROVE  Queue!Next
  <2>1. turn'[t] # turn[t]
    BY <1>1, <1>2 DEF Settles
  <2>2. turn[t] = "running" /\ turn'[t] \in TerminalStatus
    BY <1>2, <2>1 DEF Settles, LiveStatus
  <2>3. turn' = [turn EXCEPT ![t] = turn'[t]]
    BY <1>1, <1>2 DEF Settles
  <2>4. Queue!Finish(t, turn'[t])
    BY <2>2, <2>3 DEF Queue!Finish
  <2> QED BY <1>1, <2>2, <2>4 DEF Queue!Next
<1>3. ASSUME NEW t \in Turns, DispatchInbound(t)
      PROVE  Queue!Next
  <2>1. Queue!Arrive(t)
    BY <1>1, <1>3 DEF DispatchInbound, Queue!Arrive
  <2> QED BY <1>1, <2>1 DEF Queue!Next
<1>4. ASSUME NEW t \in Turns, TaskStep(t)
      PROVE  Queue!Next
  <2>1. TaskSettles(t)
    BY <1>1, <1>4, TaskSettlesSteps
    DEF TaskStep, ReserveQuota, BeginExecuting, ExecuteTurn, ExecuteRejects, ExecuteResolves, dbVars
  <2> QED BY <1>2, <2>1 DEF TaskSettles, IndInv, TaskWasClaimed
<1>5. ASSUME NEW t \in Turns, CancelQueuedTurn(t)
      PROVE  Queue!Next
  <2>1. turn' = [u \in Turns |-> IF u \in {t} THEN "interrupted" ELSE turn[u]]
    BY <1>1, <1>5 DEF CancelQueuedTurn
  <2>2. Queue!Withdraw({t})
    BY <1>1, <1>5, <2>1 DEF CancelQueuedTurn, Queue!Withdraw, Queue!Waiting
  <2> QED BY <1>1, <2>2 DEF Queue!Next
<1>6. ASSUME NEW t \in Turns, CancelCommits(t)
      PROVE  Queue!Next
  <2>1. turn[t] = "running" /\ turn' = [turn EXCEPT ![t] = "interrupted"]
    BY <1>6 DEF CancelCommits, dbVars
  <2>2. Queue!Finish(t, "interrupted")
    BY <2>1 DEF Queue!Finish
  <2> QED BY <1>1, <2>2 DEF Queue!Next, TerminalStatus
<1>7. ASSUME NEW s \in Sessions, NEW replayQueued \in BOOLEAN, ResetSession(s, replayQueued)
      PROVE  Queue!Next
  <2> DEFINE S == {u \in TurnsOf(s) : turn[u] = "queued"}
  <2>1. S \in SUBSET Turns
    BY DEF TurnsOf
  <2>2. turn' = [u \in Turns |-> IF u \in S THEN "interrupted" ELSE turn[u]]
    BY <1>7 DEF ResetSession
  <2>3. Queue!Withdraw(S)
    BY <1>1, <2>2 DEF Queue!Withdraw, Queue!Waiting
  <2> QED BY <1>1, <2>1, <2>3 DEF Queue!Next
<1>8. ASSUME NEW c \in Turns, NEW e \in Turns, ClaimOneQueuedTurn(c, e)
      PROVE  Queue!Next
  <2> DEFINE M == MergePrefix(c) \ {e}
  <2>1. turn' = [t \in Turns |-> IF t = e THEN "running"
                                 ELSE IF t \in M THEN "completed" ELSE turn[t]]
    BY <1>8 DEF ClaimOneQueuedTurn
  <2>2. /\ turn[e] = "queued"
        /\ \A u \in Turns : SessionOf[u] = SessionOf[e] => turn[u] # "running"
        /\ \A u \in M : u \in Turns /\ u < e /\ SessionOf[u] = SessionOf[e] /\ turn[u] = "queued"
        /\ \A u \in Turns : SessionOf[u] = SessionOf[e] /\ u < e /\ u \notin M
                              => turn[u] \in TerminalStatus
    BY <1>8, ClaimTakesFront, TurnsAssumption DEF Turns
  <2> HIDE DEF M
  <2>3. M \in SUBSET Turns
    BY <2>2
  <2>4. Queue!Start(e, M)
    BY <1>1, <2>1, <2>2 DEF Queue!Start, Queue!Idle, Queue!Earlier, Queue!Waiting
  <2> QED BY <1>1, <2>3, <2>4 DEF Queue!Next
<1>9. ASSUME NEW t \in Turns, RequeueClaimed(t)
      PROVE  Queue!Next
  <2>1. Queue!Requeue(t)
    BY <1>9 DEF RequeueClaimed, IndInv, RedriveIsStale, Queue!Requeue
  <2> QED BY <1>1, <2>1 DEF Queue!Next
<1>10. ASSUME NEW t \in Turns, ReconcileInspected(t) \/ InterruptOrphan(t)
       PROVE  Queue!Next
  <2>1. Settles(t)
    BY <1>1, <1>10, StartupSettlesSteps
  <2>2. turn[t] # "queued"
    BY <1>10 DEF ReconcileInspected, InterruptOrphan, Orphans, IndInv, RedriveIsStale
  <2> QED BY <1>2, <2>1, <2>2
<1>11. ASSUME NEW t \in Turns,
              \/ Heartbeat(t) \/ RuntimeEndsTurn(t) \/ CancelTurn(t) \/ CancelAccepted(t)
              \/ CancelRejected(t) \/ LeaseTimesOut(t) \/ BundleExpires(t)
       PROVE  FALSE
  BY <1>11
  DEF Heartbeat, RuntimeEndsTurn, CancelTurn, CancelAccepted, CancelRejected, LeaseTimesOut,
      BundleExpires, dbVars
<1>12. ASSUME NEW u \in Users, PauseUserDispatch(u) \/ ResumeUserDispatch(u)
       PROVE  FALSE
  BY <1>12 DEF PauseUserDispatch, ResumeUserDispatch, dbVars
<1>13. ~(ReleaseExpiredLeases \/ Crash \/ Boot \/ RedriveHeld \/ FinishRedrive \/ UNCHANGED vars)
  BY DEF ReleaseExpiredLeases, Crash, Boot, RedriveHeld, FinishRedrive, vars, dbVars
<1> QED
  BY <1>3, <1>4, <1>5, <1>6, <1>7, <1>8, <1>9, <1>10, <1>11, <1>12, <1>13
  DEF Next, Claim, StartupStep, RecoverValidPrefix, StartNewGeneration

\* The gateway implements the abstract queue of turns: whatever the leases, tasks,
\* reservations, restarts and recoveries do, turn_runs.status moves only as a queue
\* served one turn at a time in arrival order would.
THEOREM Refinement == Spec => ImplementsTurnQueue
<1>1. Init => Queue!Init
  BY DEF Init, Queue!Init, Queue!Turns, Turns
<1> QED
  BY <1>1, StepRefines, Invariant, PTL DEF Spec, ImplementsTurnQueue, Queue!Spec

\* A settled turn keeps its outcome: no late result, cancellation, startup pass or
\* session recovery changes it.
THEOREM SettledStays == Spec => SettledIsFinal
<1>1. ASSUME TypeOK, [Queue!Next]_turn
      PROVE  \A t \in Turns : turn[t] \in TerminalStatus => turn'[t] = turn[t]
  <2> USE DEF TerminalStatus
  <2> SUFFICES ASSUME Queue!Next, NEW t \in Turns, turn[t] \in TerminalStatus
               PROVE  turn'[t] = turn[t]
    BY <1>1
  <2>0. turn \in [Turns -> TurnStatus] /\ Queue!Turns = Turns
    BY <1>1 DEF TypeOK, Queue!Turns, Turns
  <2>1. ASSUME NEW u \in Turns, NEW o,
               Queue!Arrive(u) \/ Queue!Requeue(u) \/ Queue!Finish(u, o)
        PROVE  turn'[t] = turn[t]
    BY <2>0, <2>1 DEF Queue!Arrive, Queue!Requeue, Queue!Finish
  <2>2. ASSUME NEW u \in Turns, NEW M \in SUBSET Turns, Queue!Start(u, M)
        PROVE  turn'[t] = turn[t]
    BY <2>0, <2>2 DEF Queue!Start, Queue!Waiting
  <2>3. ASSUME NEW S \in SUBSET Turns, Queue!Withdraw(S)
        PROVE  turn'[t] = turn[t]
    BY <2>0, <2>3 DEF Queue!Withdraw, Queue!Waiting
  <2> QED BY <2>0, <2>1, <2>2, <2>3 DEF Queue!Next
<1>2. IndInv /\ [Next]_vars =>
        [\A t \in Turns : turn[t] \in TerminalStatus => turn'[t] = turn[t]]_vars
  BY <1>1, StepRefines DEF IndInv
<1> QED BY <1>2, Invariant, PTL DEF Spec, SettledIsFinal

\* A session's turns start in arrival order.
THEOREM StartsAreOrdered == Spec => StartsInOrder
<1> DEFINE Ordered ==
      \A t \in Turns : turn[t] = "queued" /\ turn'[t] = "running" =>
        \A u \in TurnsOf(SessionOf[t]) : u < t => turn'[u] \in TerminalStatus
<1>1. ASSUME TypeOK, [Queue!Next]_turn
      PROVE  Ordered
  <2> SUFFICES ASSUME Queue!Next,
                      NEW t \in Turns, turn[t] = "queued", turn'[t] = "running",
                      NEW u \in TurnsOf(SessionOf[t]), u < t
               PROVE  turn'[u] \in TerminalStatus
    BY <1>1
  <2>0. turn \in [Turns -> TurnStatus] /\ Queue!Turns = Turns /\ Queue!Outcome = TerminalStatus
    BY <1>1 DEF TypeOK, Queue!Turns, Turns, Queue!Outcome, TerminalStatus
  <2>1. ASSUME NEW v \in Turns, NEW o \in TerminalStatus,
               Queue!Arrive(v) \/ Queue!Requeue(v) \/ Queue!Finish(v, o)
        PROVE  FALSE
    BY <2>0, <2>1 DEF Queue!Arrive, Queue!Requeue, Queue!Finish, TerminalStatus
  <2>2. ASSUME NEW v \in Turns, NEW M \in SUBSET Turns, Queue!Start(v, M)
        PROVE  turn'[u] \in TerminalStatus
    <3>1. v = t
      BY <2>0, <2>2 DEF Queue!Start
    <3>2. u \in Turns /\ u # t /\ u \in Queue!Earlier(t)
      BY <2>0, TurnsAssumption DEF TurnsOf, Queue!Earlier, Turns
    <3> QED BY <2>0, <2>2, <3>1, <3>2 DEF Queue!Start, TerminalStatus
  <2>3. ASSUME NEW S \in SUBSET Turns, Queue!Withdraw(S)
        PROVE  FALSE
    BY <2>0, <2>3 DEF Queue!Withdraw
  <2>4. "failed" \in TerminalStatus
    BY DEF TerminalStatus
  <2> QED BY <2>0, <2>1, <2>2, <2>3, <2>4 DEF Queue!Next
<1>2. IndInv /\ [Next]_vars => [Ordered]_vars
  BY <1>1, StepRefines DEF IndInv
<1> QED BY <1>2, Invariant, PTL DEF Spec, StartsInOrder

-----------------------------------------------------------------------------
(* Outcomes.  A turn is given to a runtime at most once; what the user     *)
(* sees, what is recorded and what is charged agree; the three rows of a   *)
(* delivery tell the same story; a settled turn holds no quota; merged     *)
(* messages are delivered.  The last three hold only without some of the   *)
(* faults, and the theorems say which.                                     *)

(* The inductive invariant, on top of IndInv *)

\* The executor can still be called for the turn: it waits, its task has not got
\* that far, or a restart would queue it again.
MayStillExecute(t) ==
  \/ turn[t] \in {"none", "queued"}
  \/ task[t].pc \in {"claimed", "reserved", "resolving"}
  \/ lease[t].status = "active" /\ lease[t].phase = "claimed"
  \/ redrive[t] = "claimed"

\* A turn the executor can still be called for was not executed.
NotYetExecuted == \A t \in Turns : MayStillExecute(t) => runs[t] = 0

\* A merged turn is completed, and no task and no startup pass works on it.
MergedIsOver ==
  \A t \in Turns :
    merged[t] # 0 => turn[t] = "completed" /\ task[t].pc = "none" /\ redrive[t] = "none"

OutcomeInv ==
  /\ NotYetExecuted
  /\ ExecutedAtMostOnce
  /\ MergedIsOver
  /\ OutcomeMatchesReply

\* Without scheduler ticks during startup: nothing runs until the server serves, and
\* startup has every active lease in its list.
QuietStart ==
  /\ gateway # "up" => \A t \in Turns : task[t].pc = "none"
  /\ gateway = "redriving" => \A t \in Turns : lease[t].status = "active" => redrive[t] # "none"

\* A turn that did not arrive has no inbox row.
NoneHasNoRow == \A t \in Turns : turn[t] = "none" => inbox[t] = "none"

RowsInv == QuietStart /\ NoneHasNoRow /\ RowsAgree

\* No fault has happened: no crash, no expiry, no recovery by the user.
Faultless == crashes = 0 /\ expiries = 0 /\ resets = 0

\* The reservation of a turn that is not settled is known to its task.
TaskHasQuota(t) ==
  /\ turn[t] \in {"none", "queued"} => bundle[t] = "none"
  /\ turn[t] = "running" =>
       /\ inbox[t] = "processing"
       /\ lease[t].status = "active"
       /\ task[t].pc # "none" /\ ~task[t].leaseLost
       /\ task[t].pc = "claimed" => bundle[t] = "none"
       /\ task[t].pc # "claimed" => task[t].res = "pending"
  /\ task[t].pc \in {"claimed", "reserved"} => turn[t] = "running"

QuotaInv ==
  Faultless =>
    /\ gateway = "up"
    /\ ExpiredLeases = {}
    /\ \A t \in Turns : TaskHasQuota(t)
    /\ SettledHoldsNoQuota

\* What a task was given reaches the runtime with the turn it runs.
ContentOnItsWay ==
  /\ \A t \in Turns : task[t].pc \in {"executing", "observed"} => task[t].content \subseteq seen
  /\ \A t \in Turns : merged[t] # 0 /\ t \notin seen =>
       /\ turn[merged[t]] \notin {"none", "queued"}
       /\ reply[merged[t]] # "reply"
       /\ task[merged[t]].pc # "none" => t \in task[merged[t]].content

MergeInv == crashes = 0 => gateway = "up" /\ ContentOnItsWay

-----------------------------------------------------------------------------
(* What the finalizers do to the rows of a turn *)

\* Reply, status and quota of one turn agree.
OutcomeOK(t) ==
  /\ reply[t] = "reply" <=> turn[t] = "completed" /\ merged[t] = 0
  /\ reply[t] = "notice" => turn[t] = "failed"
  /\ bundle[t] = "committed" => reply[t] = "reply"

\* The three rows of one turn agree.
RowsOK(t) ==
  /\ turn[t] = "queued" => inbox[t] = "held" /\ idem[t] = "held"
  /\ turn[t] = "running" => inbox[t] = "processing" /\ idem[t] = "processing"
  /\ turn[t] = "completed" => inbox[t] = "delivered" /\ idem[t] = "completed"
  /\ turn[t] = "failed" => inbox[t] = "failed" /\ idem[t] = "failed"
  /\ turn[t] = "interrupted" =>
       inbox[t] \in {"failed", "cancelled"} /\ idem[t] \notin {"processing", "completed"}

\* The two invariants, turn by turn.
LEMMA TurnByTurn ==
  /\ OutcomeMatchesReply <=> \A t \in Turns : OutcomeOK(t)
  /\ RowsAgree <=> \A t \in Turns : RowsOK(t)
BY DEF OutcomeMatchesReply, ReplyMeansCompleted, ChargedMeansReplied, OutcomeOK, RowsAgree, RowsOK

\* What every finalizer does to the rows that Settles does not speak of.
Closes(t) ==
  /\ merged' = merged
  /\ \A u \in Turns \ {t} :
       idem'[u] = idem[u] /\ reply'[u] = reply[u] /\ bundle'[u] = bundle[u]
  /\ turn[t] # "none" /\ merged[t] = 0 /\ OutcomeOK(t) => OutcomeOK(t)'
  /\ turn[t] # "none" /\ RowsOK(t) => RowsOK(t)'

\* A finalizer that changes no row closes, trivially.
LEMMA UnchangedCloses ==
  ASSUME NEW t \in Turns, UNCHANGED dbVars
  PROVE  Closes(t)
BY DEF dbVars, Closes, OutcomeOK, RowsOK

\* finalizeFailedTurn closes its turn, if it does not charge.
LEMMA FailedCloses ==
  ASSUME DbOK, NEW t \in Turns, NEW kind, NEW b \in BundleStatus,
         b = "committed" => bundle[t] = "committed",
         FinalizeFailedTurn(t, kind, b)
  PROVE  Closes(t)
<1>1. CASE turn[t] = "interrupted"
  BY <1>1, UnchangedCloses DEF FinalizeFailedTurn
<1>2. CASE turn[t] # "interrupted"
  <2> USE DEF DbOK
  <2>1. FailRows(t, kind, b)
    BY <1>2 DEF FinalizeFailedTurn
  <2>2. /\ merged' = merged
        /\ turn'[t] = IF turn[t] \in LiveStatus THEN "failed" ELSE turn[t]
        /\ inbox'[t] = IF inbox[t] \in Pending THEN "failed" ELSE inbox[t]
        /\ idem'[t] = IF idem[t] \in Pending THEN "failed" ELSE idem[t]
        /\ reply'[t] = IF kind = "notice" /\ reply[t] = "none" THEN "notice" ELSE reply[t]
        /\ bundle'[t] = b
    BY <2>1 DEF FailRows, Move
  <2>3. \A u \in Turns \ {t} :
          idem'[u] = idem[u] /\ reply'[u] = reply[u] /\ bundle'[u] = bundle[u]
    BY <2>1 DEF FailRows, Move
  <2>4. turn[t] \in TurnStatus /\ reply[t] \in {"none", "reply", "notice"}
    OBVIOUS
  <2>5. turn[t] # "none" /\ merged[t] = 0 /\ OutcomeOK(t) => OutcomeOK(t)'
    BY <1>2, <2>2, <2>4 DEF OutcomeOK, TurnStatus, LiveStatus, TerminalStatus
  <2>6. turn[t] # "none" /\ RowsOK(t) => RowsOK(t)'
    BY <2>2, <2>4 DEF RowsOK, TurnStatus, LiveStatus, TerminalStatus, Pending
  <2> QED BY <2>2, <2>3, <2>5, <2>6 DEF Closes
<1> QED BY <1>1, <1>2

\* The rows of a completion agree.
LEMMA CompleteRowsClose ==
  ASSUME DbOK, NEW t \in Turns, CompleteRows(t), turn[t] \notin TerminalStatus,
         merged' = merged, \A u \in Turns \ {t} : bundle'[u] = bundle[u]
  PROVE  Closes(t)
<1> USE DEF DbOK
<1>1. /\ turn'[t] = IF turn[t] \in LiveStatus THEN "completed" ELSE turn[t]
      /\ inbox'[t] = IF inbox[t] \in Pending THEN "delivered" ELSE inbox[t]
      /\ idem'[t] = IF idem[t] \in Pending THEN "completed" ELSE idem[t]
      /\ reply'[t] = IF reply[t] = "none" THEN "reply" ELSE reply[t]
  BY DEF CompleteRows, Move
<1>2. \A u \in Turns \ {t} : idem'[u] = idem[u] /\ reply'[u] = reply[u]
  BY DEF CompleteRows, Move
<1>3. turn[t] \in TurnStatus /\ reply[t] \in {"none", "reply", "notice"}
  OBVIOUS
<1>4. turn[t] # "none" /\ RowsOK(t) => RowsOK(t)'
  BY <1>1, <1>3 DEF RowsOK, TurnStatus, LiveStatus, TerminalStatus, Pending
<1>5. turn[t] # "none" /\ merged[t] = 0 /\ OutcomeOK(t) => OutcomeOK(t)'
  BY <1>1, <1>3 DEF OutcomeOK, TurnStatus, LiveStatus, TerminalStatus
<1> QED BY <1>2, <1>4, <1>5 DEF Closes

\* finalizeInterruptedTurn closes its turn.
LEMMA InterruptedCloses ==
  ASSUME DbOK, NEW t \in Turns, FinalizeInterruptedTurn(t)
  PROVE  Closes(t)
<1> USE DEF DbOK
<1>1. UNCHANGED <<merged, reply>>
  BY DEF FinalizeInterruptedTurn
<1>2. bundle' = [bundle EXCEPT ![t] = ReleaseBundle(bundle[t])]
  BY DEF FinalizeInterruptedTurn
<1>3. /\ \A u \in Turns \ {t} : idem'[u] = idem[u]
      /\ \/ turn'[t] = turn[t] /\ inbox'[t] = inbox[t] /\ idem'[t] = idem[t]
         \/ /\ turn[t] \notin TerminalStatus
            /\ turn'[t] = IF turn[t] \in LiveStatus THEN "interrupted" ELSE turn[t]
            /\ inbox'[t] = IF inbox[t] \in Pending THEN "failed" ELSE inbox[t]
            /\ idem'[t] = IF idem[t] \in Pending THEN "failed" ELSE idem[t]
  BY DEF FinalizeInterruptedTurn, Move
<1>4. turn[t] \in TurnStatus /\ reply[t] \in {"none", "reply", "notice"}
  OBVIOUS
<1>5. turn[t] # "none" /\ merged[t] = 0 /\ OutcomeOK(t) => OutcomeOK(t)'
  BY <1>1, <1>2, <1>3, <1>4 DEF OutcomeOK, TurnStatus, LiveStatus, TerminalStatus, ReleaseBundle
<1>6. turn[t] # "none" /\ RowsOK(t) => RowsOK(t)'
  BY <1>3, <1>4 DEF RowsOK, TurnStatus, LiveStatus, TerminalStatus, Pending
<1> QED BY <1>1, <1>2, <1>3, <1>5, <1>6 DEF Closes

\* What is left of a reservation that is released is not a charge, unless it was one.
LEMMA ReleaseIsNoCharge ==
  ASSUME NEW t \in Turns
  PROVE  /\ ReleaseBundle(bundle[t]) = "committed" => bundle[t] = "committed"
         /\ ReleaseByTask(t) = "committed" => bundle[t] = "committed"
BY DEF ReleaseBundle, ReleaseByTask

\* finalizeCompletedTurn, as the task calls it, closes its turn.
LEMMA CompletedCloses ==
  ASSUME DbOK, NEW t \in Turns, NEW ok \in BOOLEAN, FinalizeCompletedTurn(t, ok)
  PROVE  Closes(t)
<1>1. CASE turn[t] = "completed"
  <2>1. /\ \A u \in Turns \ {t} : bundle'[u] = bundle[u]
        /\ UNCHANGED <<turn, inbox, idem, merged, reply>>
    BY <1>1 DEF FinalizeCompletedTurn, DbOK
  <2> QED BY <1>1, <2>1 DEF Closes, OutcomeOK, RowsOK
<1>2. CASE turn[t] \notin {"completed", "running"}
  BY <1>2, UnchangedCloses DEF FinalizeCompletedTurn
<1>3. CASE turn[t] = "running" /\ inbox[t] \notin Pending
  <2>1. /\ bundle' = [bundle EXCEPT ![t] = ReleaseByTask(t)]
        /\ UNCHANGED <<turn, inbox, idem, merged, reply>>
    BY <1>3 DEF FinalizeCompletedTurn
  <2> QED BY <2>1, ReleaseIsNoCharge DEF Closes, OutcomeOK, RowsOK, DbOK
<1>4. CASE turn[t] = "running" /\ inbox[t] \in Pending /\ lease[t].status # "active"
  <2>1. FinalizeFailedTurn(t, "plain", bundle[t]) /\ bundle[t] \in BundleStatus
    BY <1>4 DEF FinalizeCompletedTurn, DbOK
  <2> QED BY <2>1, FailedCloses
<1>5. CASE turn[t] = "running" /\ inbox[t] \in Pending /\ lease[t].status = "active"
  <2>1. /\ CompleteRows(t)
        /\ bundle' = [bundle EXCEPT ![t] = CommitByTask(t, ok)]
        /\ merged' = merged
    BY <1>5 DEF FinalizeCompletedTurn
  <2>2. turn[t] \notin TerminalStatus
    BY <1>5 DEF TerminalStatus
  <2> QED BY <2>1, <2>2, CompleteRowsClose DEF DbOK
<1> QED BY <1>1, <1>2, <1>3, <1>4, <1>5

\* finalizeCompletedTurn, as redriveHeld calls it, closes its turn.
LEMMA ReconciledCloses ==
  ASSUME DbOK, NEW t \in Turns, NEW ok \in BOOLEAN, ReconcileCompleted(t, ok)
  PROVE  Closes(t)
<1>1. CASE turn[t] \in {"failed", "interrupted"}
  BY <1>1, UnchangedCloses DEF ReconcileCompleted
<1>2. CASE turn[t] \notin {"failed", "interrupted"}
  <2>1. merged' = merged /\ \A u \in Turns \ {t} : bundle'[u] = bundle[u]
    BY <1>2 DEF ReconcileCompleted, DbOK
  <2>2. CASE turn[t] = "completed"
    <3>1. UNCHANGED <<turn, inbox, idem, reply>>
      BY <1>2, <2>2 DEF ReconcileCompleted
    <3> QED BY <2>1, <2>2, <3>1 DEF Closes, OutcomeOK, RowsOK
  <2>3. CASE turn[t] # "completed"
    <3>1. CompleteRows(t) /\ turn[t] \notin TerminalStatus
      BY <1>2, <2>3 DEF ReconcileCompleted, TerminalStatus
    <3> QED BY <2>1, <3>1, CompleteRowsClose
  <2> QED BY <2>2, <2>3
<1> QED BY <1>1, <1>2

\* Each step of a task that settles its turn closes it.
LEMMA TaskClosesSteps ==
  ASSUME TypeOK, NEW t \in Turns,
         \/ QuotaRefused(t) \/ ResolveFails(t) \/ PersistExecutionFailure(t)
         \/ UsageFails(t) \/ PersistTurnCompletion(t)
         \/ ExecuteResolves(t) /\ task[t].leaseLost
  PROVE  Closes(t)
<1>1. DbOK
  BY TypeHalves
<1>2. /\ bundle[t] \in BundleStatus /\ ReleaseByTask(t) \in BundleStatus
      /\ ReleaseByTask(t) = "committed" => bundle[t] = "committed"
  BY <1>1, BundleTypes, ReleaseIsNoCharge DEF DbOK
<1>3. CASE QuotaRefused(t)
  BY <1>1, <1>2, <1>3, FailedCloses DEF QuotaRefused
<1>4. CASE ResolveFails(t)
  BY <1>1, <1>2, <1>4, FailedCloses DEF ResolveFails
<1>5. CASE PersistExecutionFailure(t)
  BY <1>1, <1>2, <1>5, FailedCloses DEF PersistExecutionFailure
<1>6. CASE UsageFails(t)
  BY <1>1, <1>2, <1>6, FailedCloses DEF UsageFails
<1>7. CASE PersistTurnCompletion(t)
  BY <1>1, <1>7, CompletedCloses DEF PersistTurnCompletion
<1>8. CASE ExecuteResolves(t) /\ task[t].leaseLost
  BY <1>1, <1>2, <1>8, FailedCloses DEF ExecuteResolves
<1> QED BY <1>3, <1>4, <1>5, <1>6, <1>7, <1>8

\* Each step of startup that settles a turn closes it.
LEMMA StartupClosesSteps ==
  ASSUME TypeOK, NEW t \in Turns, ReconcileInspected(t) \/ InterruptOrphan(t)
  PROVE  Closes(t)
<1>1. DbOK
  BY TypeHalves
<1>2. /\ ReleaseBundle(bundle[t]) \in BundleStatus
      /\ ReleaseBundle(bundle[t]) = "committed" => bundle[t] = "committed"
  BY <1>1, BundleTypes, ReleaseIsNoCharge
<1>3. CASE ReconcileInspected(t)
  <2>1. PICK r \in Inspected(t) :
          CASE r = "completed" -> \E ok \in BOOLEAN : ReconcileCompleted(t, ok)
            [] r = "failed" -> \E k \in {"plain", "corrupt"} :
                                 FinalizeFailedTurn(t, k, ReleaseBundle(bundle[t]))
            [] OTHER -> FinalizeInterruptedTurn(t)
    BY <1>3 DEF ReconcileInspected
  <2>2. CASE r = "completed"
    BY <1>1, <2>1, <2>2, ReconciledCloses
  <2>3. CASE r = "failed"
    BY <1>1, <1>2, <2>1, <2>3, FailedCloses
  <2>4. CASE r \notin {"completed", "failed"}
    BY <1>1, <2>1, <2>4, InterruptedCloses
  <2> QED BY <2>2, <2>3, <2>4
<1>4. CASE InterruptOrphan(t)
  BY <1>1, <1>4, InterruptedCloses DEF InterruptOrphan
<1> QED BY <1>3, <1>4

-----------------------------------------------------------------------------
(* One execution and one outcome *)

\* What a claim does to every turn: e starts, those merged into it are completed, the
\* others keep their rows and tasks, and lose at most an expired lease.
LEMMA ClaimFacts ==
  ASSUME IndInv, NEW c \in Turns, NEW e \in Turns, ClaimOneQueuedTurn(c, e),
         NEW M, M = MergePrefix(c) \ {e}
  PROVE  /\ e \notin M /\ M \subseteq Turns
         /\ turn[e] = "queued" /\ \A u \in M : turn[u] = "queued"
         /\ turn'[e] = "running" /\ inbox'[e] = "processing"
         /\ idem'[e] = IF idem[e] = "held" THEN "processing" ELSE idem[e]
         /\ lease'[e].status = "active" /\ task'[e].pc = "claimed"
         /\ merged'[e] = merged[e]
         /\ task'[e].content = M \cup {e} /\ ~task'[e].leaseLost
         /\ \A u \in M : /\ turn'[u] = "completed" /\ inbox'[u] = "delivered"
                         /\ idem'[u] = "completed" /\ merged'[u] = e
         /\ \A u \in Turns \ {e} :
              task'[u] = task[u] /\ (lease'[u].status = "active" => lease'[u] = lease[u])
         /\ \A u \in Turns \ (M \cup {e}) :
              /\ turn'[u] = turn[u] /\ inbox'[u] = inbox[u]
              /\ idem'[u] = idem[u] /\ merged'[u] = merged[u]
         /\ UNCHANGED <<bundle, reply, gateway, redrive, runs, seen, crashes, expiries, resets>>
<1>1. /\ TypeOK
      /\ task \in [Turns -> TaskRows]
      /\ lease \in [Turns -> LeaseRows]
  BY DEF IndInv, TypeOK
<1>2. /\ turn[e] = "queued"
      /\ \A u \in M : u \in Turns /\ turn[u] = "queued"
  BY ClaimTakesFront
<1>3. e \notin M
  OBVIOUS
<1>4. /\ turn' = [t \in Turns |-> CASE t = e -> "running"
                                     [] t \in M -> "completed"
                                     [] OTHER -> turn[t]]
      /\ inbox' = [t \in Turns |-> CASE t = e -> "processing"
                                     [] t \in M -> "delivered"
                                     [] OTHER -> inbox[t]]
      /\ idem' = [t \in Turns |-> CASE t = e /\ idem[t] = "held" -> "processing"
                                    [] t \in M -> "completed"
                                    [] OTHER -> idem[t]]
      /\ merged' = [t \in Turns |-> IF t \in M THEN e ELSE merged[t]]
      /\ task' = [task EXCEPT ![e] = [NoTask EXCEPT !.pc = "claimed", !.content = M \cup {e}]]
      /\ lease' = [ReleaseLeases(ExpiredLeases, {"active"}) EXCEPT
                     ![e] = [status |-> "active", phase |-> "claimed", expired |-> FALSE]]
      /\ UNCHANGED <<bundle, reply, gateway, redrive, runs, seen, crashes, expiries, resets>>
  BY DEF ClaimOneQueuedTurn, extVars, bounds
<1>5. /\ turn'[e] = "running" /\ inbox'[e] = "processing"
      /\ \A u \in M : turn'[u] = "completed" /\ inbox'[u] = "delivered"
      /\ \A u \in Turns \ (M \cup {e}) : turn'[u] = turn[u] /\ inbox'[u] = inbox[u]
  BY <1>2, <1>3, <1>4
<1>6. /\ idem'[e] = IF idem[e] = "held" THEN "processing" ELSE idem[e]
      /\ merged'[e] = merged[e]
      /\ \A u \in M : idem'[u] = "completed" /\ merged'[u] = e
      /\ \A u \in Turns \ (M \cup {e}) : idem'[u] = idem[u] /\ merged'[u] = merged[u]
  BY <1>2, <1>3, <1>4
<1>7. /\ task'[e].pc = "claimed" /\ task'[e].content = M \cup {e} /\ ~task'[e].leaseLost
      /\ \A u \in Turns \ {e} : task'[u] = task[u]
  BY <1>1, <1>4 DEF NoTask
<1>8. /\ lease'[e].status = "active"
      /\ \A u \in Turns \ {e} : lease'[u].status = "active" => lease'[u] = lease[u]
  BY <1>1, <1>4, ReleaseLeasesFacts
<1> QED BY <1>2, <1>3, <1>4, <1>5, <1>6, <1>7, <1>8

\* Every step keeps the executions and the outcomes in order.
LEMMA OutcomeInductive == IndInv /\ OutcomeInv /\ [Next]_vars => OutcomeInv'
<1> SUFFICES ASSUME IndInv, OutcomeInv, [Next]_vars
             PROVE  OutcomeInv'
  OBVIOUS
<1>1. /\ TypeOK
      /\ turn \in [Turns -> TurnStatus]
      /\ merged \in [Turns -> {0} \cup Turns]
      /\ bundle \in [Turns -> BundleStatus]
      /\ reply \in [Turns -> {"none", "reply", "notice"}]
      /\ lease \in [Turns -> LeaseRows]
      /\ task \in [Turns -> TaskRows]
      /\ redrive \in [Turns -> {"none"} \cup LeasePhase]
      /\ runs \in [Turns -> Nat]
  BY DEF IndInv, TypeOK
<1>2. /\ NotYetExecuted /\ ExecutedAtMostOnce /\ MergedIsOver
      /\ \A u \in Turns : OutcomeOK(u)
  BY TurnByTurn DEF OutcomeInv
<1>3. ASSUME NotYetExecuted', ExecutedAtMostOnce', MergedIsOver', \A u \in Turns : OutcomeOK(u)'
      PROVE  OutcomeInv'
  BY <1>3 DEF OutcomeInv, OutcomeMatchesReply, ReplyMeansCompleted, ChargedMeansReplied, OutcomeOK
<1> USE DEF bounds, extVars, memVars
\* No turn gets another chance to be executed.
<1>4. ASSUME runs' = runs, \A u \in Turns : MayStillExecute(u)' => MayStillExecute(u)
      PROVE  NotYetExecuted' /\ ExecutedAtMostOnce'
  BY <1>2, <1>4 DEF NotYetExecuted, ExecutedAtMostOnce
\* A turn that has begun is settled by its task or by startup.
<1>5. ASSUME NEW t \in Turns, Settles(t), Closes(t), runs' = runs,
             turn[t] \notin {"none", "queued"}, merged[t] = 0,
             \A u \in Turns \ {t} : task'[u] = task[u] /\ redrive'[u] = redrive[u],
             task'[t].pc = "none" \/ task' = task,
             redrive'[t] \in {"none", redrive[t]}
      PROVE  OutcomeInv'
  <2>1. \A u \in Turns : MayStillExecute(u)' => MayStillExecute(u)
    BY <1>5 DEF MayStillExecute, Settles, TerminalStatus
  <2>2. MergedIsOver'
    BY <1>2, <1>5 DEF MergedIsOver, Settles, Closes
  <2>3. \A u \in Turns : OutcomeOK(u)'
    BY <1>2, <1>5 DEF Settles, Closes, OutcomeOK
  <2> QED BY <1>3, <1>4, <1>5, <2>1, <2>2, <2>3
<1>6. ASSUME NEW t \in Turns, TaskSettles(t), Closes(t)
      PROVE  OutcomeInv'
  <2>1. /\ task' = [task EXCEPT ![t] = NoTask] /\ NoTask.pc = "none"
        /\ UNCHANGED <<redrive, runs>> /\ task[t].pc # "none"
    BY <1>6 DEF TaskSettles, EndTask, NoTask
  <2>2. turn[t] \notin {"none", "queued"} /\ merged[t] = 0
    BY <1>2, <2>1 DEF IndInv, TaskWasClaimed, MergedIsOver
  <2>3. task'[t].pc = "none" /\ \A u \in Turns \ {t} : task'[u] = task[u]
    BY <1>1, <2>1
  <2> QED BY <1>5, <1>6, <2>1, <2>2, <2>3 DEF TaskSettles
\* The statuses, the replies and the executions stay.
<1>7. ASSUME UNCHANGED <<turn, merged, reply, runs>>,
             \A u \in Turns : bundle'[u] = "committed" => bundle[u] = "committed",
             \A u \in Turns : task'[u].pc # "none" => task[u].pc # "none",
             \A u \in Turns : redrive'[u] # "none" =>
               redrive[u] # "none" \/ turn[u] = "running",
             \A u \in Turns : MayStillExecute(u)' => MayStillExecute(u)
      PROVE  OutcomeInv'
  <2>1. MergedIsOver'
    BY <1>2, <1>7 DEF MergedIsOver
  <2>2. \A u \in Turns : OutcomeOK(u)'
    BY <1>2, <1>7 DEF OutcomeOK
  <2> QED BY <1>3, <1>4, <1>7, <2>1, <2>2
<1>8. ASSUME NEW t \in Turns, DispatchInbound(t)
      PROVE  OutcomeInv'
  <2>1. /\ turn[t] = "none" /\ turn'[t] = "queued"
        /\ \A u \in Turns \ {t} : turn'[u] = turn[u]
        /\ UNCHANGED <<merged, bundle, reply, lease, task, redrive, runs>>
    BY <1>1, <1>8 DEF DispatchInbound
  <2>2. \A u \in Turns : MayStillExecute(u)' => MayStillExecute(u)
    BY <2>1 DEF MayStillExecute
  <2>3. MergedIsOver' /\ \A u \in Turns : OutcomeOK(u)'
    BY <1>2, <2>1 DEF MergedIsOver, OutcomeOK
  <2> QED BY <1>3, <1>4, <2>1, <2>2, <2>3
<1>9. ASSUME NEW t \in Turns, ReserveQuota(t)
      PROVE  OutcomeInv'
  <2>1. /\ task[t].pc = "claimed" /\ task'[t].pc = "reserved"
        /\ \A u \in Turns \ {t} : task'[u] = task[u]
        /\ UNCHANGED <<turn, merged, reply, lease, redrive, runs>>
    BY <1>1, <1>9 DEF ReserveQuota, TaskRows
  <2>2. \A u \in Turns : bundle'[u] = "committed" => bundle[u] = "committed"
    BY <1>1, <1>9 DEF ReserveQuota
  <2>3. \A u \in Turns : MayStillExecute(u)' => MayStillExecute(u)
    BY <2>1 DEF MayStillExecute
  <2> QED BY <1>7, <2>1, <2>2, <2>3
<1>10. ASSUME NEW t \in Turns, BeginExecuting(t)
       PROVE  OutcomeInv'
  <2>1. /\ task[t].pc = "reserved"
        /\ \A u \in Turns \ {t} : task'[u] = task[u] /\ lease'[u] = lease[u]
        /\ UNCHANGED <<turn, merged, reply, bundle, redrive, runs>>
    BY <1>1, <1>10 DEF BeginExecuting
  <2>2. \A u \in Turns : MayStillExecute(u)' => MayStillExecute(u)
    BY <2>1 DEF MayStillExecute
  <2> QED BY <1>7, <2>1, <2>2
<1>11. ASSUME NEW t \in Turns, Heartbeat(t)
       PROVE  OutcomeInv'
  <2>1. UNCHANGED <<turn, merged, reply, bundle, redrive, runs>>
    BY <1>11 DEF Heartbeat
  <2>2. \A u \in Turns : task'[u].pc = task[u].pc
    <3>1. task' = task \/ task' = [task EXCEPT ![t] = [task[t] EXCEPT !.leaseLost = TRUE]]
      BY <1>11 DEF Heartbeat
    <3>2. task[t] \in TaskRows
      BY <1>1
    <3>3. [task[t] EXCEPT !.leaseLost = TRUE].pc = task[t].pc
      BY <3>2 DEF TaskRows
    <3> QED BY <1>1, <3>1, <3>3
  <2>3. \A u \in Turns : lease'[u].status = lease[u].status /\ lease'[u].phase = lease[u].phase
    <3>1. \/ lease' = lease
          \/ lease' = [lease EXCEPT ![t] = [lease[t] EXCEPT !.expired = FALSE]]
      BY <1>11 DEF Heartbeat
    <3>2. lease[t] \in LeaseRows
      BY <1>1
    <3>3. /\ [lease[t] EXCEPT !.expired = FALSE].status = lease[t].status
          /\ [lease[t] EXCEPT !.expired = FALSE].phase = lease[t].phase
      BY <3>2 DEF LeaseRows
    <3> QED BY <1>1, <3>1, <3>3
  <2>4. \A u \in Turns : MayStillExecute(u)' => MayStillExecute(u)
    BY <2>1, <2>2, <2>3 DEF MayStillExecute
  <2> QED BY <1>7, <2>1, <2>2, <2>4
<1>12. ASSUME NEW t \in Turns, ExecuteTurn(t)
       PROVE  OutcomeInv'
  <2>1. /\ task[t].pc = "resolving" /\ task'[t].pc = "executing"
        /\ runs'[t] = runs[t] + 1
        /\ \A u \in Turns \ {t} : task'[u] = task[u] /\ runs'[u] = runs[u]
        /\ UNCHANGED <<turn, merged, reply, bundle, lease, redrive>>
    BY <1>1, <1>12 DEF ExecuteTurn, dbVars, TaskRows
  <2>2. runs[t] = 0
    BY <1>2, <2>1 DEF NotYetExecuted, MayStillExecute
  <2>3. ~MayStillExecute(t)'
    BY <2>1 DEF MayStillExecute, IndInv, TaskWasClaimed, ClaimedIsEarly, RedriveIsStale
  <2>4. \A u \in Turns \ {t} : MayStillExecute(u)' => MayStillExecute(u)
    BY <2>1 DEF MayStillExecute
  <2>5. NotYetExecuted'
    BY <1>2, <2>1, <2>3, <2>4 DEF NotYetExecuted
  <2>6. ExecutedAtMostOnce'
    BY <1>2, <2>1, <2>2 DEF ExecutedAtMostOnce
  <2>7. MergedIsOver' /\ \A u \in Turns : OutcomeOK(u)'
    BY <1>2, <2>1 DEF MergedIsOver, OutcomeOK
  <2> QED BY <1>3, <2>5, <2>6, <2>7
<1>13. ASSUME NEW t \in Turns, ExecuteRejects(t)
       PROVE  OutcomeInv'
  <2>1. /\ task[t].pc \in {"resolving", "executing"}
        /\ \A u \in Turns \ {t} : task'[u] = task[u]
        /\ UNCHANGED <<turn, merged, reply, bundle, lease, redrive, runs>>
    BY <1>1, <1>13 DEF ExecuteRejects, EndTask, dbVars
  <2>2. task'[t].pc \in {"none", "failing"}
    <3>1. CASE turn[t] = "interrupted"
      BY <1>1, <1>13, <3>1 DEF ExecuteRejects, EndTask, NoTask
    <3>2. CASE turn[t] # "interrupted"
      <4>1. PICK k \in ErrorKind :
              task' = [task EXCEPT ![t] = [task[t] EXCEPT !.pc = "failing", !.error = k]]
        BY <1>13, <3>2 DEF ExecuteRejects
      <4> QED BY <1>1, <4>1 DEF TaskRows
    <3> QED BY <3>1, <3>2
  <2>3. \A u \in Turns : MayStillExecute(u)' => MayStillExecute(u)
    BY <2>1, <2>2 DEF MayStillExecute
  <2> QED BY <1>7, <2>1, <2>3
<1>14. ASSUME NEW t \in Turns, ExecuteResolves(t), ~task[t].leaseLost
       PROVE  OutcomeInv'
  <2>1. /\ task[t].pc = "executing" /\ task'[t].pc = "observed"
        /\ \A u \in Turns \ {t} : task'[u] = task[u] /\ lease'[u] = lease[u]
        /\ UNCHANGED <<turn, merged, reply, bundle, redrive, runs>>
    BY <1>1, <1>14 DEF ExecuteResolves, TaskRows
  <2>2. lease'[t].status = "active" => lease'[t].phase = "result_observed"
    BY <1>1, <1>14 DEF ExecuteResolves, LeaseRows
  <2>3. \A u \in Turns : MayStillExecute(u)' => MayStillExecute(u)
    BY <2>1, <2>2 DEF MayStillExecute
  <2> QED BY <1>7, <2>1, <2>3
<1>15. ASSUME NEW t \in Turns, TaskStep(t)
       PROVE  OutcomeInv'
  BY <1>1, <1>6, <1>9, <1>10, <1>12, <1>13, <1>14, <1>15, TaskSettlesSteps, TaskClosesSteps
  DEF TaskStep
\* Only leases change, and those by being released or timed.
<1>16. ASSUME UNCHANGED <<turn, merged, reply, bundle, task, redrive, runs>>,
              \A u \in Turns : lease'[u].status = "active" =>
                lease[u].status = "active" /\ lease'[u].phase = lease[u].phase
       PROVE  OutcomeInv'
  <2>1. \A u \in Turns : MayStillExecute(u)' => MayStillExecute(u)
    BY <1>16 DEF MayStillExecute
  <2> QED BY <1>7, <1>16, <2>1
<1>17. ASSUME NEW t \in Turns,
              \/ RuntimeEndsTurn(t) \/ CancelTurn(t) \/ CancelAccepted(t) \/ CancelRejected(t)
       PROVE  OutcomeInv'
  BY <1>16, <1>17 DEF RuntimeEndsTurn, CancelTurn, CancelAccepted, CancelRejected, dbVars
<1>18. ASSUME NEW u \in Users, PauseUserDispatch(u) \/ ResumeUserDispatch(u)
       PROVE  OutcomeInv'
  BY <1>16, <1>18 DEF PauseUserDispatch, ResumeUserDispatch, dbVars
<1>19. ASSUME NEW t \in Turns, LeaseTimesOut(t)
       PROVE  OutcomeInv'
  <2>1. \A u \in Turns : lease'[u].status = lease[u].status /\ lease'[u].phase = lease[u].phase
    BY <1>1, <1>19 DEF LeaseTimesOut, LeaseRows
  <2> QED BY <1>16, <1>19, <2>1 DEF LeaseTimesOut
<1>20. ASSUME NEW t \in Turns, BundleExpires(t)
       PROVE  OutcomeInv'
  <2>1. /\ \A u \in Turns : bundle'[u] = "committed" => bundle[u] = "committed"
        /\ UNCHANGED <<turn, merged, reply, lease, task, redrive, runs>>
    BY <1>1, <1>20 DEF BundleExpires
  <2>2. \A u \in Turns : MayStillExecute(u)' => MayStillExecute(u)
    BY <2>1 DEF MayStillExecute
  <2> QED BY <1>7, <2>1, <2>2
<1>21. ASSUME ReleaseExpiredLeases
       PROVE  OutcomeInv'
  <2>1. \A u \in Turns : lease'[u].status = "active" => lease'[u] = lease[u]
    BY <1>1, <1>21, ReleaseLeasesFacts DEF ReleaseExpiredLeases
  <2> QED BY <1>16, <1>21, <2>1 DEF ReleaseExpiredLeases
\* Turns are given up: queued ones, or a running one.
<1>22. ASSUME UNCHANGED <<merged, reply, redrive, runs>>,
              \A u \in Turns : task'[u].pc = task[u].pc,
              \A u \in Turns : lease'[u].status = "active" => lease'[u] = lease[u],
              \A u \in Turns : bundle'[u] = "committed" => bundle[u] = "committed",
              \A u \in Turns : \/ turn'[u] = turn[u]
                               \/ turn[u] \in LiveStatus /\ turn'[u] = "interrupted"
       PROVE  OutcomeInv'
  <2>1. \A u \in Turns : MayStillExecute(u)' => MayStillExecute(u)
    BY <1>22 DEF MayStillExecute
  <2>2. MergedIsOver' /\ \A u \in Turns : OutcomeOK(u)'
    BY <1>2, <1>22 DEF MergedIsOver, OutcomeOK, LiveStatus
  <2> QED BY <1>3, <1>4, <1>22, <2>1, <2>2
<1>23. ASSUME NEW t \in Turns, CancelQueuedTurn(t)
       PROVE  OutcomeInv'
  <2>1. /\ turn[t] = "queued" /\ turn'[t] = "interrupted"
        /\ \A u \in Turns \ {t} : turn'[u] = turn[u]
        /\ UNCHANGED <<merged, bundle, reply, lease, task, redrive, runs>>
    BY <1>1, <1>23 DEF CancelQueuedTurn
  <2> QED BY <1>22, <2>1 DEF LiveStatus
<1>24. ASSUME NEW t \in Turns, CancelCommits(t)
       PROVE  OutcomeInv'
  <2>1. CASE turn[t] = "running" /\ InboxCancellable(t)
    <3>1. /\ turn'[t] = "interrupted"
          /\ \A u \in Turns \ {t} : turn'[u] = turn[u]
          /\ UNCHANGED <<merged, reply, redrive, runs>>
      BY <1>1, <1>24, <2>1 DEF CancelCommits
    <3>2. \A u \in Turns : lease'[u].status = "active" => lease'[u] = lease[u]
      BY <1>1, <1>24, <2>1, ReleaseLeasesFacts DEF CancelCommits
    <3>3. \A u \in Turns : bundle'[u] = "committed" => bundle[u] = "committed"
      BY <1>1, <1>24, <2>1, ReleaseIsNoCharge DEF CancelCommits
    <3>4. \A u \in Turns : task'[u].pc = task[u].pc
      BY <1>1, <1>24, <2>1 DEF CancelCommits, TaskRows
    <3> QED BY <1>22, <2>1, <3>1, <3>2, <3>3, <3>4 DEF LiveStatus
  <2>2. CASE ~(turn[t] = "running" /\ InboxCancellable(t))
    BY <1>16, <1>24, <2>2 DEF CancelCommits, dbVars
  <2> QED BY <2>1, <2>2
<1>25. ASSUME NEW s \in Sessions, NEW replayQueued \in BOOLEAN, ResetSession(s, replayQueued)
       PROVE  OutcomeInv'
  <2>1. UNCHANGED <<merged, bundle, reply, task, redrive, runs>>
    BY <1>25 DEF ResetSession
  <2>2. \A u \in Turns : lease'[u].status = "active" => lease'[u] = lease[u]
    BY <1>1, <1>25, ReleaseLeasesFacts DEF ResetSession
  <2>3. \A u \in Turns : \/ turn'[u] = turn[u]
                         \/ turn[u] \in LiveStatus /\ turn'[u] = "interrupted"
    BY <1>1, <1>25 DEF ResetSession, LiveStatus
  <2> QED BY <1>22, <2>1, <2>2, <2>3
<1>26. ASSUME NEW c \in Turns, NEW e \in Turns, ClaimOneQueuedTurn(c, e)
       PROVE  OutcomeInv'
  <2>0. PICK M : M = MergePrefix(c) \ {e}
    OBVIOUS
  <2>1. /\ e \notin M /\ M \subseteq Turns
        /\ turn[e] = "queued" /\ \A u \in M : turn[u] = "queued"
        /\ turn'[e] = "running" /\ merged'[e] = merged[e]
        /\ \A u \in M : turn'[u] = "completed" /\ merged'[u] = e
        /\ \A u \in Turns \ {e} :
              task'[u] = task[u] /\ (lease'[u].status = "active" => lease'[u] = lease[u])
        /\ \A u \in Turns \ (M \cup {e}) : turn'[u] = turn[u] /\ merged'[u] = merged[u]
        /\ UNCHANGED <<bundle, reply, redrive, runs>>
    BY <1>26, <2>0, ClaimFacts
  <2>2. e # 0
    BY TurnsAssumption DEF Turns
  <2>3. \A u \in Turns : turn[u] = "queued" =>
          runs[u] = 0 /\ merged[u] = 0 /\ redrive[u] = "none" /\ task[u].pc = "none"
    BY <1>1, <1>2
    DEF NotYetExecuted, MayStillExecute, MergedIsOver, IndInv, RedriveIsStale, TaskWasClaimed
  <2>4. \A u \in Turns : MayStillExecute(u)' => MayStillExecute(u)
    BY <2>1 DEF MayStillExecute
  <2>5. MergedIsOver'
    BY <1>2, <2>1, <2>3 DEF MergedIsOver
  <2>6. \A u \in Turns : OutcomeOK(u)'
    BY <1>2, <2>1, <2>2, <2>3 DEF OutcomeOK
  <2> QED BY <1>3, <1>4, <2>1, <2>4, <2>5, <2>6
<1>27. ASSUME Crash
       PROVE  OutcomeInv'
  <2>1. /\ UNCHANGED <<turn, merged, reply, bundle, lease, runs>>
        /\ \A u \in Turns : task'[u].pc = "none" /\ redrive'[u] = "none"
    BY <1>27 DEF Crash, dbVars, NoTask
  <2>2. \A u \in Turns : MayStillExecute(u)' => MayStillExecute(u)
    BY <2>1 DEF MayStillExecute
  <2> QED BY <1>7, <2>1, <2>2
<1>28. ASSUME Boot \/ FinishRedrive
       PROVE  OutcomeInv'
  BY <1>16, <1>28 DEF Boot, FinishRedrive, dbVars
<1>29. ASSUME RedriveHeld
       PROVE  OutcomeInv'
  <2>1. /\ UNCHANGED <<turn, merged, reply, bundle, lease, task, runs>>
        /\ \A u \in Turns :
             redrive'[u] = IF lease[u].status = "active" THEN lease[u].phase ELSE "none"
    BY <1>29 DEF RedriveHeld, dbVars
  <2>2. \A u \in Turns : MayStillExecute(u)' => MayStillExecute(u)
    BY <2>1 DEF MayStillExecute
  <2>3. \A u \in Turns : redrive'[u] # "none" => turn[u] = "running"
    BY <2>1 DEF IndInv, LeaseNamesRunning
  <2> QED BY <1>7, <2>1, <2>2, <2>3
<1>30. ASSUME NEW t \in Turns, RequeueClaimed(t)
       PROVE  OutcomeInv'
  <2>1. /\ redrive[t] = "claimed" /\ redrive'[t] = "none"
        /\ turn[t] = "running" /\ turn'[t] = "queued"
        /\ \A u \in Turns \ {t} :
             turn'[u] = turn[u] /\ redrive'[u] = redrive[u] /\ lease'[u] = lease[u]
        /\ UNCHANGED <<merged, reply, bundle, task, runs>>
    BY <1>1, <1>30 DEF RequeueClaimed, IndInv, RedriveIsStale
  <2>2. \A u \in Turns : MayStillExecute(u)' => MayStillExecute(u)
    BY <2>1 DEF MayStillExecute
  <2>3. MergedIsOver' /\ \A u \in Turns : OutcomeOK(u)'
    BY <1>2, <2>1 DEF MergedIsOver, OutcomeOK
  <2> QED BY <1>3, <1>4, <2>1, <2>2, <2>3
<1>31. ASSUME NEW t \in Turns, ReconcileInspected(t) \/ InterruptOrphan(t)
       PROVE  OutcomeInv'
  <2>1. Settles(t) /\ Closes(t)
    BY <1>1, <1>31, StartupSettlesSteps, StartupClosesSteps
  <2>2. /\ UNCHANGED <<task, runs>>
        /\ \A u \in Turns \ {t} : redrive'[u] = redrive[u]
        /\ redrive'[t] \in {"none", redrive[t]}
        /\ redrive[t] # "none" \/ turn[t] = "running"
    BY <1>1, <1>31 DEF ReconcileInspected, InterruptOrphan, Orphans
  <2>3. turn[t] \notin {"none", "queued"} /\ merged[t] = 0
    BY <1>2, <2>2 DEF IndInv, RedriveIsStale, MergedIsOver
  <2> QED BY <1>5, <2>1, <2>2, <2>3
<1>32. ASSUME UNCHANGED vars
       PROVE  OutcomeInv'
  BY <1>16, <1>32 DEF vars, dbVars
<1> QED
  BY <1>8, <1>11, <1>15, <1>17, <1>18, <1>19, <1>20, <1>21, <1>23, <1>24, <1>25, <1>26,
     <1>27, <1>28, <1>29, <1>30, <1>31, <1>32
  DEF Next, Claim, StartupStep, RecoverValidPrefix, StartNewGeneration

\* Every reachable state has the outcomes in order.
LEMMA OutcomeInvariant == Spec => []OutcomeInv
<1>1. Init => OutcomeInv
  BY DEF Init, OutcomeInv, NotYetExecuted, MayStillExecute, ExecutedAtMostOnce, MergedIsOver,
         OutcomeMatchesReply, ReplyMeansCompleted, ChargedMeansReplied, NoLease, NoTask
<1> QED BY <1>1, OutcomeInductive, Invariant, PTL DEF Spec

\* The executor is called at most once for a turn, however often the server crashes and
\* whatever leases are read, released or run out during a restart.
THEOREM AgentRunsTurnOnce == Spec => []ExecutedAtMostOnce
<1>1. OutcomeInv => ExecutedAtMostOnce
  BY DEF OutcomeInv
<1> QED BY <1>1, OutcomeInvariant, PTL

\* Reply, status and charge of a turn agree, whoever settles it: its task, a
\* cancellation that races it, or a restart.
THEOREM OutcomesAgree == Spec => []OutcomeMatchesReply
<1>1. OutcomeInv => OutcomeMatchesReply
  BY DEF OutcomeInv
<1> QED BY <1>1, OutcomeInvariant, PTL

-----------------------------------------------------------------------------
(* The three rows of a delivery *)

\* What startup settles while the turn is running loses its lease.
LEMMA StartupReleases ==
  ASSUME DbOK, NEW t \in Turns, ReconcileInspected(t), turn[t] = "running"
  PROVE  lease'[t].status # "active"
<1>1. CASE lease' = ReleaseLeases({t}, {"active"})
  BY <1>1, ReleaseLeasesFacts DEF DbOK
<1>2. CASE lease' = [lease EXCEPT ![t] = [lease[t] EXCEPT !.status = "blocked", !.expired = FALSE]]
  <2>1. lease[t] \in LeaseRows
    BY DEF DbOK
  <2>2. [lease[t] EXCEPT !.status = "blocked", !.expired = FALSE].status # "active"
    BY <2>1 DEF LeaseRows
  <2> QED BY <1>2, <2>2 DEF DbOK
<1>3. PICK r \in Inspected(t) :
        CASE r = "completed" -> \E ok \in BOOLEAN : ReconcileCompleted(t, ok)
          [] r = "failed" -> \E k \in {"plain", "corrupt"} :
                               FinalizeFailedTurn(t, k, ReleaseBundle(bundle[t]))
          [] OTHER -> FinalizeInterruptedTurn(t)
  BY DEF ReconcileInspected
<1>4. CASE r = "completed"
  BY <1>1, <1>3, <1>4 DEF ReconcileCompleted
<1>5. CASE r = "failed"
  BY <1>1, <1>2, <1>3, <1>5 DEF FinalizeFailedTurn, FailRows
<1>6. CASE r \notin {"completed", "failed"}
  BY <1>1, <1>3, <1>6 DEF FinalizeInterruptedTurn
<1> QED BY <1>4, <1>5, <1>6

\* Without ticks during startup, every step keeps the rows of each delivery in step.
LEMMA RowsInductive == ~StartupTicks /\ IndInv /\ RowsInv /\ [Next]_vars => RowsInv'
<1> SUFFICES ASSUME ~StartupTicks, IndInv, RowsInv, [Next]_vars
             PROVE  RowsInv'
  OBVIOUS
<1>1. /\ TypeOK /\ DbOK
      /\ turn \in [Turns -> TurnStatus]
      /\ inbox \in [Turns -> InboxStatus]
      /\ idem \in [Turns -> IdemState]
      /\ lease \in [Turns -> LeaseRows]
      /\ task \in [Turns -> TaskRows]
      /\ redrive \in [Turns -> {"none"} \cup LeasePhase]
  BY DEF IndInv, TypeOK, DbOK
<1>2. QuietStart /\ NoneHasNoRow /\ \A u \in Turns : RowsOK(u)
  BY TurnByTurn DEF RowsInv
<1>3. ASSUME QuietStart', NoneHasNoRow', \A u \in Turns : RowsOK(u)'
      PROVE  RowsInv'
  BY <1>3 DEF RowsInv, RowsAgree, RowsOK
<1> USE DEF bounds, extVars, memVars
\* A running task is a task of a server that serves.
<1>4. ASSUME NEW t \in Turns, task[t].pc # "none"
      PROVE  gateway = "up"
  BY <1>2, <1>4 DEF QuietStart
\* Nothing happens to the rows, or to the startup pass.
<1>5. ASSUME UNCHANGED <<turn, inbox, idem, gateway, redrive>>,
             \A u \in Turns : task'[u].pc # "none" => task[u].pc # "none",
             \A u \in Turns : lease'[u].status = "active" => lease[u].status = "active"
      PROVE  RowsInv'
  <2>1. QuietStart' /\ NoneHasNoRow'
    BY <1>2, <1>5 DEF QuietStart, NoneHasNoRow
  <2>2. \A u \in Turns : RowsOK(u)'
    BY <1>2, <1>5 DEF RowsOK
  <2> QED BY <1>3, <2>1, <2>2
\* A turn that has begun is settled.
<1>6. ASSUME NEW t \in Turns, Settles(t), Closes(t), turn[t] # "none", gateway' = gateway,
             \A u \in Turns : task'[u].pc # "none" => task[u].pc # "none",
             gateway = "redriving" => \A u \in Turns \ {t} : redrive'[u] = redrive[u],
             gateway = "redriving" /\ lease'[t].status = "active" => redrive'[t] # "none"
      PROVE  RowsInv'
  <2>1. QuietStart' /\ NoneHasNoRow'
    BY <1>2, <1>6 DEF QuietStart, NoneHasNoRow, Settles, TerminalStatus
  <2>2. \A u \in Turns : RowsOK(u)'
    BY <1>2, <1>6 DEF RowsOK, Settles, Closes
  <2> QED BY <1>3, <2>1, <2>2
<1>7. ASSUME NEW t \in Turns, TaskSettles(t), Closes(t)
      PROVE  RowsInv'
  <2>1. /\ task' = [task EXCEPT ![t] = NoTask] /\ NoTask.pc = "none"
        /\ UNCHANGED <<gateway, redrive>> /\ task[t].pc # "none"
    BY <1>7 DEF TaskSettles, EndTask, NoTask
  <2>2. turn[t] # "none" /\ gateway # "redriving"
    BY <1>4, <2>1 DEF IndInv, TaskWasClaimed
  <2>3. \A u \in Turns : task'[u].pc # "none" => task[u].pc # "none"
    BY <1>1, <2>1
  <2> QED BY <1>6, <1>7, <2>1, <2>2, <2>3 DEF TaskSettles
\* The server serves, and goes on doing so.
<1>8. ASSUME gateway = "up", gateway' = "up"
      PROVE  QuietStart'
  BY <1>8 DEF QuietStart
<1>9. ASSUME NEW t \in Turns, DispatchInbound(t)
      PROVE  RowsInv'
  <2>1. /\ turn'[t] = "queued" /\ inbox'[t] = "held" /\ idem'[t] = "held"
        /\ \A u \in Turns \ {t} : turn'[u] = turn[u] /\ inbox'[u] = inbox[u] /\ idem'[u] = idem[u]
        /\ gateway = "up" /\ gateway' = "up"
    BY <1>1, <1>9 DEF DispatchInbound, Serving
  <2>2. NoneHasNoRow'
    BY <1>2, <2>1 DEF NoneHasNoRow
  <2>3. \A u \in Turns : RowsOK(u)'
    BY <1>2, <2>1 DEF RowsOK
  <2> QED BY <1>3, <1>8, <2>1, <2>2, <2>3
\* A step of a task that leaves the rows alone.
<1>10. ASSUME NEW t \in Turns, task[t].pc # "none",
              UNCHANGED <<turn, inbox, idem, gateway, redrive>>
       PROVE  RowsInv'
  <2>1. QuietStart'
    BY <1>4, <1>8, <1>10
  <2>2. NoneHasNoRow' /\ \A u \in Turns : RowsOK(u)'
    BY <1>2, <1>10 DEF NoneHasNoRow, RowsOK
  <2> QED BY <1>3, <2>1, <2>2
<1>11. ASSUME NEW t \in Turns, TaskStep(t) \/ Heartbeat(t)
       PROVE  RowsInv'
  <2>1. ASSUME \/ ReserveQuota(t) \/ BeginExecuting(t) \/ ExecuteTurn(t) \/ ExecuteRejects(t)
               \/ Heartbeat(t)
        PROVE  RowsInv'
    BY <1>10, <2>1 DEF ReserveQuota, BeginExecuting, ExecuteTurn, ExecuteRejects, Heartbeat, dbVars
  <2>2. ASSUME ExecuteResolves(t), ~task[t].leaseLost
        PROVE  RowsInv'
    BY <1>10, <2>2 DEF ExecuteResolves
  <2> QED
    BY <1>1, <1>7, <1>11, <2>1, <2>2, TaskSettlesSteps, TaskClosesSteps DEF TaskStep
<1>12. ASSUME NEW t \in Turns,
              \/ RuntimeEndsTurn(t) \/ CancelTurn(t) \/ CancelAccepted(t) \/ CancelRejected(t)
              \/ BundleExpires(t)
       PROVE  RowsInv'
  BY <1>5, <1>12
  DEF RuntimeEndsTurn, CancelTurn, CancelAccepted, CancelRejected, BundleExpires, dbVars
<1>13. ASSUME NEW u \in Users, PauseUserDispatch(u) \/ ResumeUserDispatch(u)
       PROVE  RowsInv'
  BY <1>5, <1>13 DEF PauseUserDispatch, ResumeUserDispatch, dbVars
<1>14. ASSUME NEW t \in Turns, LeaseTimesOut(t)
       PROVE  RowsInv'
  <2>1. \A u \in Turns : lease'[u].status = lease[u].status
    BY <1>1, <1>14 DEF LeaseTimesOut, LeaseRows
  <2> QED BY <1>5, <1>14, <2>1 DEF LeaseTimesOut
<1>15. ASSUME ReleaseExpiredLeases
       PROVE  RowsInv'
  <2>1. \A u \in Turns : lease'[u].status = "active" => lease'[u] = lease[u]
    BY <1>1, <1>15, ReleaseLeasesFacts DEF ReleaseExpiredLeases
  <2> QED BY <1>5, <1>15, <2>1 DEF ReleaseExpiredLeases
<1>16. ASSUME NEW t \in Turns, CancelQueuedTurn(t)
       PROVE  RowsInv'
  <2>1. /\ turn[t] = "queued" /\ gateway = "up" /\ gateway' = "up"
        /\ turn'[t] = "interrupted" /\ inbox'[t] = "cancelled" /\ idem'[t] = "failed"
        /\ \A u \in Turns \ {t} : turn'[u] = turn[u] /\ inbox'[u] = inbox[u] /\ idem'[u] = idem[u]
    BY <1>1, <1>2, <1>16 DEF CancelQueuedTurn, Serving, Move, RowsOK, Pending
  <2>2. NoneHasNoRow' /\ \A u \in Turns : RowsOK(u)'
    BY <1>2, <2>1 DEF NoneHasNoRow, RowsOK
  <2> QED BY <1>3, <1>8, <2>1, <2>2
<1>17. ASSUME NEW t \in Turns, CancelCommits(t)
       PROVE  RowsInv'
  <2>1. gateway = "up" /\ gateway' = "up"
    BY <1>17 DEF CancelCommits, Serving
  <2>2. CASE turn[t] = "running" /\ InboxCancellable(t)
    <3>1. /\ turn'[t] = "interrupted" /\ inbox'[t] = "cancelled" /\ idem'[t] = "failed"
          /\ \A u \in Turns \ {t} :
               turn'[u] = turn[u] /\ inbox'[u] = inbox[u] /\ idem'[u] = idem[u]
      BY <1>1, <1>2, <1>17, <2>2 DEF CancelCommits, Move, RowsOK, Pending
    <3>2. NoneHasNoRow' /\ \A u \in Turns : RowsOK(u)'
      BY <1>2, <2>2, <3>1 DEF NoneHasNoRow, RowsOK
    <3> QED BY <1>3, <1>8, <2>1, <3>2
  <2>3. CASE ~(turn[t] = "running" /\ InboxCancellable(t))
    BY <1>5, <1>17, <2>3 DEF CancelCommits, dbVars
  <2> QED BY <2>2, <2>3
<1>18. ASSUME NEW s \in Sessions, NEW replayQueued \in BOOLEAN, ResetSession(s, replayQueued)
       PROVE  RowsInv'
  <2>1. gateway = "up" /\ gateway' = "up" /\ idem' = idem
    BY <1>18 DEF ResetSession, Serving
  <2>2. \A u \in Turns : \/ turn'[u] = turn[u] /\ inbox'[u] = inbox[u]
                         \/ /\ turn[u] = "queued" /\ turn'[u] = "interrupted"
                            /\ inbox'[u] = "cancelled"
    <3>1. \A u \in Turns : turn[u] = "queued" <=> inbox[u] = "held"
      BY <1>1, <1>2 DEF RowsOK, NoneHasNoRow, TurnStatus, LiveStatus, TerminalStatus
    <3> QED BY <1>1, <1>18, <3>1 DEF ResetSession
  <2>3. NoneHasNoRow' /\ \A u \in Turns : RowsOK(u)'
    BY <1>2, <2>1, <2>2 DEF NoneHasNoRow, RowsOK
  <2> QED BY <1>3, <1>8, <2>1, <2>3
<1>19. ASSUME NEW c \in Turns, NEW e \in Turns, ClaimOneQueuedTurn(c, e)
       PROVE  RowsInv'
  <2>0. PICK M : M = MergePrefix(c) \ {e}
    OBVIOUS
  <2>1. /\ turn[e] = "queued" /\ M \subseteq Turns
        /\ turn'[e] = "running" /\ inbox'[e] = "processing"
        /\ idem'[e] = IF idem[e] = "held" THEN "processing" ELSE idem[e]
        /\ \A u \in M : turn'[u] = "completed" /\ inbox'[u] = "delivered" /\ idem'[u] = "completed"
        /\ \A u \in Turns \ (M \cup {e}) :
             turn'[u] = turn[u] /\ inbox'[u] = inbox[u] /\ idem'[u] = idem[u]
        /\ gateway' = gateway
    BY <1>19, <2>0, ClaimFacts
  <2>2. gateway = "up"
    BY <1>19 DEF ClaimOneQueuedTurn, CanSchedule, TimerCanFire
  <2>3. idem'[e] = "processing"
    BY <1>2, <2>1 DEF RowsOK
  <2>4. NoneHasNoRow' /\ \A u \in Turns : RowsOK(u)'
    BY <1>2, <2>1, <2>3 DEF NoneHasNoRow, RowsOK
  <2> QED BY <1>3, <1>8, <2>1, <2>2, <2>4
<1>20. ASSUME UNCHANGED <<turn, inbox, idem>>, QuietStart'
       PROVE  RowsInv'
  <2>1. NoneHasNoRow' /\ \A u \in Turns : RowsOK(u)'
    BY <1>2, <1>20 DEF NoneHasNoRow, RowsOK
  <2> QED BY <1>3, <1>20, <2>1
<1>21. ASSUME Crash
       PROVE  RowsInv'
  <2>1. gateway' = "down" /\ \A u \in Turns : task'[u].pc = "none"
    BY <1>21 DEF Crash, NoTask
  <2>2. QuietStart'
    BY <2>1 DEF QuietStart
  <2> QED BY <1>20, <1>21, <2>2 DEF Crash, dbVars
<1>22. ASSUME Boot
       PROVE  RowsInv'
  <2>1. gateway = "down" /\ gateway' = "starting" /\ UNCHANGED <<task, lease, redrive>>
    BY <1>22 DEF Boot, dbVars
  <2>2. QuietStart'
    BY <1>2, <2>1 DEF QuietStart
  <2> QED BY <1>20, <1>22, <2>2 DEF Boot, dbVars
<1>23. ASSUME RedriveHeld
       PROVE  RowsInv'
  <2>1. /\ gateway = "starting" /\ gateway' = "redriving" /\ UNCHANGED <<task, lease>>
        /\ \A u \in Turns :
             redrive'[u] = IF lease[u].status = "active" THEN lease[u].phase ELSE "none"
    BY <1>23 DEF RedriveHeld, dbVars
  <2>2. \A u \in Turns : lease[u].phase # "none"
    BY <1>1 DEF LeaseRows, LeasePhase
  <2>3. QuietStart'
    BY <1>2, <2>1, <2>2 DEF QuietStart
  <2> QED BY <1>20, <1>23, <2>3 DEF RedriveHeld, dbVars
<1>24. ASSUME NEW t \in Turns, RequeueClaimed(t)
       PROVE  RowsInv'
  <2>1. /\ turn'[t] = "queued" /\ inbox'[t] = "held" /\ idem'[t] = "held"
        /\ \A u \in Turns \ {t} :
             /\ turn'[u] = turn[u] /\ inbox'[u] = inbox[u] /\ idem'[u] = idem[u]
             /\ redrive'[u] = redrive[u] /\ lease'[u] = lease[u]
        /\ UNCHANGED <<gateway, task>>
    BY <1>1, <1>24 DEF RequeueClaimed
  <2>2. lease'[t].status = "released"
    BY <1>1, <1>24 DEF RequeueClaimed, LeaseRows
  <2>3. QuietStart'
    BY <1>2, <2>1, <2>2 DEF QuietStart
  <2>4. NoneHasNoRow' /\ \A u \in Turns : RowsOK(u)'
    BY <1>2, <2>1 DEF NoneHasNoRow, RowsOK
  <2> QED BY <1>3, <2>3, <2>4
<1>25. ASSUME NEW t \in Turns, ReconcileInspected(t)
       PROVE  RowsInv'
  <2>1. /\ Settles(t) /\ Closes(t)
        /\ redrive[t] # "none" /\ UNCHANGED <<gateway, task>>
        /\ \A u \in Turns \ {t} : redrive'[u] = redrive[u]
    BY <1>1, <1>25, StartupSettlesSteps, StartupClosesSteps DEF ReconcileInspected
  <2>2. turn[t] # "none"
    BY <2>1 DEF IndInv, RedriveIsStale
  <2>3. lease'[t].status # "active"
    BY <1>1, <1>25, <2>1, StartupReleases DEF Settles, IndInv, LeaseNamesRunning
  <2> QED BY <1>6, <2>1, <2>2, <2>3
<1>26. ASSUME NEW t \in Turns, InterruptOrphan(t)
       PROVE  RowsInv'
  <2>1. /\ Settles(t) /\ Closes(t)
        /\ turn[t] = "running" /\ lease[t].status # "active"
        /\ UNCHANGED <<gateway, task, redrive>>
    BY <1>1, <1>26, StartupSettlesSteps, StartupClosesSteps DEF InterruptOrphan, Orphans
  <2>2. lease'[t].status # "active"
    BY <2>1 DEF Settles
  <2> QED BY <1>6, <2>1, <2>2
\* The last step of startup finds no turn running, so it fails no row.
<1>27. ASSUME FinishRedrive
       PROVE  RowsInv'
  <2>1. \A u \in Turns : turn[u] # "running"
    BY <1>2, <1>27 DEF FinishRedrive, Reconciled, Orphans, QuietStart
  <2>2. \A u \in Turns : inbox[u] # "processing"
    BY <1>1, <1>2, <2>1 DEF RowsOK, NoneHasNoRow, TurnStatus, LiveStatus, TerminalStatus
  <2>3. /\ turn' = turn /\ gateway' = "up"
        /\ \A u \in Turns : inbox'[u] = inbox[u]
        /\ \A u \in Turns : idem'[u] = IF idem[u] = "processing" THEN "failed" ELSE idem[u]
    BY <1>1, <1>27, <2>2 DEF FinishRedrive
  <2>4. NoneHasNoRow' /\ \A u \in Turns : RowsOK(u)'
    BY <1>2, <2>1, <2>3 DEF NoneHasNoRow, RowsOK
  <2>5. QuietStart'
    BY <2>3 DEF QuietStart
  <2> QED BY <1>3, <2>4, <2>5
<1>28. ASSUME UNCHANGED vars
       PROVE  RowsInv'
  BY <1>5, <1>28 DEF vars, dbVars
<1> QED
  BY <1>9, <1>11, <1>12, <1>13, <1>14, <1>15, <1>16, <1>17, <1>18, <1>19, <1>21, <1>22, <1>23,
     <1>24, <1>25, <1>26, <1>27, <1>28
  DEF Next, Claim, StartupStep, RecoverValidPrefix, StartNewGeneration

\* When the scheduler's timer does not fire during startup, turn_runs, delivery_inbox
\* and idempotency_records agree on every delivery in every state.  With such ticks
\* they do not: the run v_startup shows how.
THEOREM RowsTellOneStory == ~StartupTicks => (Spec => []RowsAgree)
<1> SUFFICES ASSUME ~StartupTicks
             PROVE  Spec => []RowsAgree
  OBVIOUS
<1>1. Init => RowsInv
  BY DEF Init, RowsInv, QuietStart, NoneHasNoRow, RowsAgree, NoLease, NoTask
<1>2. IndInv /\ RowsInv /\ [Next]_vars => RowsInv'
  BY RowsInductive
<1>3. RowsInv => RowsAgree
  BY DEF RowsInv
<1> QED BY <1>1, <1>2, <1>3, Invariant, PTL DEF Spec

-----------------------------------------------------------------------------
(* The quota of a settled turn *)

\* What is left of the reservation of a turn.
NoQuotaLeft(t) == turn[t] \in TerminalStatus => bundle[t] # "reserved"

\* A turn whose task settles it while the lease and the inbox row are in order holds no
\* quota afterwards.
LEMMA SettlingReleases ==
  ASSUME DbOK, NEW t \in Turns, TaskHasQuota(t), NoQuotaLeft(t),
         \/ QuotaRefused(t) \/ ResolveFails(t) \/ PersistExecutionFailure(t)
         \/ UsageFails(t) \/ PersistTurnCompletion(t)
         \/ ExecuteResolves(t) /\ task[t].leaseLost
  PROVE  bundle'[t] # "reserved" /\ turn'[t] # "running"
<1>1. /\ bundle[t] \in BundleStatus /\ turn[t] \in TurnStatus /\ bundle \in [Turns -> BundleStatus]
      /\ turn \in [Turns -> TurnStatus]
  BY DEF DbOK
<1>2. ASSUME NEW k, NEW b, FinalizeFailedTurn(t, k, b), b # "reserved"
      PROVE  bundle'[t] # "reserved" /\ turn'[t] # "running"
  <2>1. CASE turn[t] = "interrupted"
    BY <1>2, <2>1 DEF FinalizeFailedTurn, dbVars, NoQuotaLeft, TerminalStatus
  <2>2. CASE turn[t] # "interrupted"
    <3>1. bundle' = [bundle EXCEPT ![t] = b] /\ turn' = Move(turn, t, LiveStatus, "failed")
      BY <1>2, <2>2 DEF FinalizeFailedTurn, FailRows
    <3> QED BY <1>1, <1>2, <3>1 DEF Move, LiveStatus
  <2> QED BY <2>1, <2>2
<1>3. ReleaseBundle(bundle[t]) # "reserved"
  BY DEF ReleaseBundle
\* The task's object releases the reservation, unless the turn is settled and has none.
<1>4. ASSUME task[t].pc # "claimed", task[t].pc # "none", turn[t] \notin {"none", "queued"}
      PROVE  ReleaseByTask(t) # "reserved"
  <2>1. CASE turn[t] = "running"
    BY <1>3, <1>4, <2>1 DEF TaskHasQuota, ReleaseByTask
  <2>2. CASE turn[t] \in TerminalStatus
    BY <1>3, <2>2 DEF NoQuotaLeft, ReleaseByTask
  <2> QED BY <1>1, <1>4, <2>1, <2>2 DEF TurnStatus, LiveStatus
<1>5. ReleaseByTask(t) # "reserved" \/ task[t].pc \in {"claimed", "none"}
  BY <1>4 DEF TaskHasQuota, ReleaseByTask, ReleaseBundle
<1>6. CASE QuotaRefused(t)
  <2>1. turn[t] = "running" /\ task[t].pc = "claimed"
    BY <1>6 DEF QuotaRefused, TaskHasQuota
  <2>2. bundle[t] # "reserved"
    BY <2>1 DEF TaskHasQuota
  <2> QED BY <1>2, <1>6, <2>2 DEF QuotaRefused
<1>7. CASE ResolveFails(t)
  BY <1>2, <1>5, <1>7 DEF ResolveFails
<1>8. CASE PersistExecutionFailure(t)
  BY <1>2, <1>5, <1>8 DEF PersistExecutionFailure
<1>9. CASE UsageFails(t)
  BY <1>2, <1>5, <1>9 DEF UsageFails
<1>10. CASE ExecuteResolves(t) /\ task[t].leaseLost
  BY <1>2, <1>5, <1>10 DEF ExecuteResolves
<1>11. CASE PersistTurnCompletion(t)
  <2>1. PICK ok \in BOOLEAN : FinalizeCompletedTurn(t, ok)
    BY <1>11 DEF PersistTurnCompletion
  <2>2. task[t].pc = "observed"
    BY <1>11 DEF PersistTurnCompletion
  <2>3. CASE turn[t] = "completed"
    <3>1. bundle[t] # "reserved"
      BY <2>3 DEF NoQuotaLeft, TerminalStatus
    <3>2. /\ turn' = turn
          /\ bundle' = [bundle EXCEPT ![t] =
               IF task[t].res = "pending" /\ ok /\ bundle[t] = "reserved"
               THEN "committed" ELSE bundle[t]]
      BY <2>1, <2>3 DEF FinalizeCompletedTurn
    <3> QED BY <1>1, <2>3, <3>1, <3>2
  <2>4. CASE turn[t] \notin {"completed", "running"}
    <3>1. UNCHANGED <<turn, bundle>>
      BY <2>1, <2>4 DEF FinalizeCompletedTurn, dbVars
    <3> QED BY <1>1, <2>4, <3>1 DEF NoQuotaLeft, TaskHasQuota, TurnStatus, LiveStatus
  <2>5. CASE turn[t] = "running"
    <3>1. inbox[t] = "processing" /\ lease[t].status = "active" /\ task[t].res = "pending"
      BY <2>2, <2>5 DEF TaskHasQuota
    <3>2. CompleteRows(t) /\ bundle' = [bundle EXCEPT ![t] = CommitByTask(t, ok)]
      BY <2>1, <2>5, <3>1 DEF FinalizeCompletedTurn, Pending
    <3>3. CommitByTask(t, ok) # "reserved"
      BY <1>3, <3>1 DEF CommitByTask
    <3>4. turn' = Move(turn, t, LiveStatus, "completed")
      BY <3>2 DEF CompleteRows
    <3> QED BY <1>1, <3>2, <3>3, <3>4 DEF Move, LiveStatus
  <2> QED BY <2>3, <2>4, <2>5
<1> QED BY <1>6, <1>7, <1>8, <1>9, <1>10, <1>11

\* Every step keeps the reservations known to the tasks, as long as no fault happens.
LEMMA QuotaInductive == IndInv /\ QuotaInv /\ [Next]_vars => QuotaInv'
<1> DEFINE InTime(u) == lease[u].status = "active" => ~lease[u].expired
           Good == /\ gateway = "up"
                   /\ \A u \in Turns : InTime(u) /\ TaskHasQuota(u) /\ NoQuotaLeft(u)
<1>1. QuotaInv <=> (Faultless => Good)
  BY DEF QuotaInv, SettledHoldsNoQuota, NoQuotaLeft, ExpiredLeases
<1>2. QuotaInv' <=> (Faultless' => Good')
  BY DEF QuotaInv, SettledHoldsNoQuota, NoQuotaLeft, ExpiredLeases
<1> SUFFICES ASSUME IndInv, QuotaInv, [Next]_vars, Faultless'
             PROVE  Good'
  BY <1>2
<1>3. /\ TypeOK /\ DbOK
      /\ turn \in [Turns -> TurnStatus]
      /\ inbox \in [Turns -> InboxStatus]
      /\ lease \in [Turns -> LeaseRows]
      /\ task \in [Turns -> TaskRows]
      /\ bundle \in [Turns -> BundleStatus]
      /\ crashes \in Nat /\ expiries \in Nat /\ resets \in Nat
  BY BoundsAssumption DEF IndInv, TypeOK, DbOK
<1> USE DEF bounds, extVars, memVars
\* The step is not a fault.
<1>4. crashes' # crashes + 1 /\ expiries' # expiries + 1 /\ resets' # resets + 1
  BY <1>3 DEF Faultless
<1>5. UNCHANGED <<crashes, expiries, resets>> => Good
  BY <1>1 DEF Faultless
\* A step that touches one turn.
<1>6. ASSUME NEW t \in Turns, UNCHANGED <<gateway, crashes, expiries, resets>>,
             \A u \in Turns \ {t} :
               /\ turn'[u] = turn[u] /\ inbox'[u] = inbox[u] /\ lease'[u] = lease[u]
               /\ bundle'[u] = bundle[u] /\ task'[u] = task[u],
             InTime(t)', TaskHasQuota(t)', NoQuotaLeft(t)'
      PROVE  Good'
  <2>1. \A u \in Turns \ {t} : InTime(u)' /\ TaskHasQuota(u)' /\ NoQuotaLeft(u)'
    BY <1>5, <1>6 DEF TaskHasQuota, NoQuotaLeft
  <2> QED BY <1>5, <1>6, <2>1
<1> HIDE DEF Good
<1>7. ASSUME UNCHANGED <<gateway, crashes, expiries, resets, turn, inbox, lease, bundle, task>>
      PROVE  Good'
  BY <1>5, <1>7 DEF Good, TaskHasQuota, NoQuotaLeft
<1>8. Good => /\ gateway = "up"
              /\ \A u \in Turns : InTime(u) /\ TaskHasQuota(u) /\ NoQuotaLeft(u)
  BY DEF Good
<1>9. ASSUME NEW t \in Turns, DispatchInbound(t)
      PROVE  Good'
  <2>1. /\ turn[t] = "none" /\ turn'[t] = "queued"
        /\ \A u \in Turns \ {t} : turn'[u] = turn[u] /\ inbox'[u] = inbox[u]
        /\ UNCHANGED <<lease, bundle, task, gateway, crashes, expiries, resets>>
    BY <1>3, <1>9 DEF DispatchInbound
  <2>2. bundle[t] = "none" /\ task[t].pc = "none" /\ InTime(t)
    BY <1>5, <1>8, <2>1 DEF TaskHasQuota, IndInv, TaskWasClaimed
  <2>3. TaskHasQuota(t)' /\ NoQuotaLeft(t)' /\ InTime(t)'
    BY <2>1, <2>2 DEF TaskHasQuota, NoQuotaLeft, TerminalStatus
  <2> QED BY <1>6, <2>1, <2>3
<1>10. ASSUME NEW t \in Turns, ReserveQuota(t)
       PROVE  Good'
  <2>1. /\ task[t].pc = "claimed"
        /\ task' = [task EXCEPT ![t] = [task[t] EXCEPT !.pc = "reserved", !.res = "pending"]]
        /\ \A u \in Turns \ {t} : bundle'[u] = bundle[u]
        /\ UNCHANGED <<turn, inbox, lease, gateway, crashes, expiries, resets>>
    BY <1>3, <1>10 DEF ReserveQuota
  <2>2. task[t] \in TaskRows
    BY <1>3
  <2>3. LET r == [task[t] EXCEPT !.pc = "reserved", !.res = "pending"] IN
          r.pc = "reserved" /\ r.res = "pending" /\ r.leaseLost = task[t].leaseLost
    BY <2>2 DEF TaskRows
  <2>4. /\ task'[t].pc = "reserved" /\ task'[t].res = "pending"
        /\ task'[t].leaseLost = task[t].leaseLost
        /\ \A u \in Turns \ {t} : task'[u] = task[u]
    BY <1>3, <2>1, <2>3
  <2>5. InTime(t) /\ TaskHasQuota(t) /\ turn[t] = "running"
    BY <1>5, <1>8, <2>1 DEF TaskHasQuota
  <2>6. TaskHasQuota(t)' /\ NoQuotaLeft(t)' /\ InTime(t)'
    BY <2>1, <2>4, <2>5 DEF TaskHasQuota, NoQuotaLeft, TerminalStatus
  <2> QED BY <1>6, <2>1, <2>4, <2>6
\* A task that settles its turn.
<1>11. ASSUME NEW t \in Turns,
              \/ QuotaRefused(t) \/ ResolveFails(t) \/ PersistExecutionFailure(t)
              \/ UsageFails(t) \/ PersistTurnCompletion(t)
              \/ ExecuteResolves(t) /\ task[t].leaseLost
       PROVE  Good'
  <2>1. TaskSettles(t) /\ Closes(t)
    BY <1>3, <1>11, TaskSettlesSteps, TaskClosesSteps
  <2>2. /\ task[t].pc # "none" /\ Settles(t)
        /\ task' = [task EXCEPT ![t] = NoTask] /\ NoTask.pc = "none"
        /\ UNCHANGED <<gateway, crashes, expiries, resets>>
    BY <2>1 DEF TaskSettles, EndTask, NoTask
  <2>3. task'[t].pc = "none" /\ \A u \in Turns \ {t} : task'[u] = task[u]
    BY <1>3, <2>2
  <2>4. InTime(t) /\ TaskHasQuota(t) /\ NoQuotaLeft(t)
    BY <1>5, <1>8, <2>2
  <2>5. bundle'[t] # "reserved" /\ turn'[t] # "running"
    BY <1>3, <1>11, <2>4, SettlingReleases
  <2>6. turn'[t] \notin {"none", "queued"}
    BY <2>2 DEF IndInv, TaskWasClaimed, Settles, TerminalStatus
  <2>7. TaskHasQuota(t)' /\ NoQuotaLeft(t)' /\ InTime(t)'
    BY <2>2, <2>3, <2>4, <2>5, <2>6 DEF TaskHasQuota, NoQuotaLeft, Settles
  <2> QED BY <1>6, <2>1, <2>2, <2>3, <2>7 DEF Settles, Closes
\* A task goes on: the reservation stays with it, and the lease with the turn.
<1>12. ASSUME NEW t \in Turns, task[t].pc \notin {"none", "claimed"},
              task'[t].pc \notin {"none", "claimed", "reserved"},
              task'[t].res = task[t].res,
              task'[t].leaseLost => task[t].leaseLost \/ lease[t].status # "active",
              lease'[t].status = lease[t].status,
              lease'[t].expired => lease[t].expired,
              \A u \in Turns \ {t} : task'[u] = task[u] /\ lease'[u] = lease[u],
              UNCHANGED <<turn, inbox, bundle, gateway, crashes, expiries, resets>>
       PROVE  Good'
  <2>1. InTime(t) /\ TaskHasQuota(t) /\ NoQuotaLeft(t)
    BY <1>5, <1>8, <1>12
  <2>2. TaskHasQuota(t)' /\ NoQuotaLeft(t)' /\ InTime(t)'
    BY <1>12, <2>1 DEF TaskHasQuota, NoQuotaLeft
  <2> QED BY <1>6, <1>12, <2>2
\* A task whose pc moves on, and whose lease may move to another phase.
<1>13. ASSUME NEW t \in Turns, NEW c \in {"resolving", "executing", "observed"}, NEW p,
              task[t].pc \notin {"none", "claimed"},
              task' = [task EXCEPT ![t].pc = c],
              lease' = lease \/ lease' = [lease EXCEPT ![t].phase = p],
              UNCHANGED <<turn, inbox, bundle, gateway, crashes, expiries, resets>>
       PROVE  Good'
  <2>1. task[t] \in TaskRows /\ lease[t] \in LeaseRows
    BY <1>3
  <2>2. LET r == [task[t] EXCEPT !.pc = c] IN
          r.pc = c /\ r.res = task[t].res /\ r.leaseLost = task[t].leaseLost
    BY <2>1 DEF TaskRows
  <2>3. LET r == [lease[t] EXCEPT !.phase = p] IN
          r.status = lease[t].status /\ r.expired = lease[t].expired
    BY <2>1 DEF LeaseRows
  <2>4. /\ task'[t] = [task[t] EXCEPT !.pc = c]
        /\ \A u \in Turns \ {t} : task'[u] = task[u]
    BY <1>3, <1>13
  <2>5. /\ lease'[t] = lease[t] \/ lease'[t] = [lease[t] EXCEPT !.phase = p]
        /\ \A u \in Turns \ {t} : lease'[u] = lease[u]
    BY <1>3, <1>13
  <2> QED BY <1>12, <1>13, <2>2, <2>3, <2>4, <2>5
<1>14. ASSUME NEW t \in Turns, BeginExecuting(t)
       PROVE  Good'
  BY <1>13, <1>14 DEF BeginExecuting
<1>15. ASSUME NEW t \in Turns, ExecuteTurn(t)
       PROVE  Good'
  BY <1>13, <1>15 DEF ExecuteTurn, dbVars
<1>16. ASSUME NEW t \in Turns, ExecuteResolves(t), ~task[t].leaseLost
       PROVE  Good'
  BY <1>13, <1>16 DEF ExecuteResolves
<1>17. ASSUME NEW t \in Turns, Heartbeat(t)
       PROVE  Good'
  <2>1. /\ task[t].pc \in {"resolving", "executing", "failing"}
        /\ UNCHANGED <<turn, inbox, bundle, gateway, crashes, expiries, resets>>
    BY <1>17 DEF Heartbeat
  <2>2. task[t] \in TaskRows /\ lease[t] \in LeaseRows
    BY <1>3
  <2>3. CASE lease[t].status = "active"
    <3>1. lease[t].expired
      BY <1>17, <2>3 DEF Heartbeat
    <3> QED BY <1>5, <1>8, <2>1, <2>3, <3>1
  <2>4. CASE lease[t].status # "active"
    <3>1. task' = [task EXCEPT ![t].leaseLost = TRUE] /\ lease' = lease
      BY <1>17, <2>4 DEF Heartbeat
    <3>2. LET r == [task[t] EXCEPT !.leaseLost = TRUE] IN r.pc = task[t].pc /\ r.res = task[t].res
      BY <2>2 DEF TaskRows
    <3>3. /\ task'[t].pc = task[t].pc /\ task'[t].res = task[t].res
          /\ \A u \in Turns \ {t} : task'[u] = task[u]
      BY <1>3, <3>1, <3>2
    <3> QED BY <1>12, <2>1, <2>4, <3>1, <3>3
  <2> QED BY <2>3, <2>4
<1>18. ASSUME NEW t \in Turns, ExecuteRejects(t)
       PROVE  Good'
  <2>1. /\ task[t].pc \in {"resolving", "executing"}
        /\ UNCHANGED <<turn, inbox, lease, bundle, gateway, crashes, expiries, resets>>
    BY <1>18 DEF ExecuteRejects, dbVars
  <2>2. CASE turn[t] = "interrupted"
    <3>1. task' = [task EXCEPT ![t] = NoTask] /\ NoTask.pc = "none"
      BY <1>18, <2>2 DEF ExecuteRejects, EndTask, NoTask
    <3>2. task'[t].pc = "none" /\ \A u \in Turns \ {t} : task'[u] = task[u]
      BY <1>3, <3>1
    <3>3. InTime(t)' /\ TaskHasQuota(t)' /\ NoQuotaLeft(t)'
      BY <1>5, <1>8, <2>1, <2>2, <3>2 DEF TaskHasQuota, NoQuotaLeft
    <3> QED BY <1>6, <2>1, <3>2, <3>3
  <2>3. CASE turn[t] # "interrupted"
    <3>1. PICK k \in ErrorKind :
            task' = [task EXCEPT ![t] = [task[t] EXCEPT !.pc = "failing", !.error = k]]
      BY <1>18, <2>3 DEF ExecuteRejects
    <3>2. task[t] \in TaskRows
      BY <1>3
    <3>3. LET r == [task[t] EXCEPT !.pc = "failing", !.error = k] IN
            r.pc = "failing" /\ r.res = task[t].res /\ r.leaseLost = task[t].leaseLost
      BY <3>2 DEF TaskRows
    <3>4. /\ task'[t].pc = "failing" /\ task'[t].res = task[t].res
          /\ task'[t].leaseLost = task[t].leaseLost
          /\ \A u \in Turns \ {t} : task'[u] = task[u]
      BY <1>3, <3>1, <3>3
    <3> QED BY <1>12, <2>1, <3>4
  <2> QED BY <2>2, <2>3
<1>19. ASSUME NEW t \in Turns, TaskStep(t)
       PROVE  Good'
  BY <1>10, <1>11, <1>14, <1>15, <1>16, <1>18, <1>19 DEF TaskStep
<1>20. ASSUME NEW t \in Turns,
              \/ RuntimeEndsTurn(t) \/ CancelTurn(t) \/ CancelAccepted(t) \/ CancelRejected(t)
       PROVE  Good'
  BY <1>7, <1>20 DEF RuntimeEndsTurn, CancelTurn, CancelAccepted, CancelRejected, dbVars
<1>21. ASSUME NEW u \in Users, PauseUserDispatch(u) \/ ResumeUserDispatch(u)
       PROVE  Good'
  BY <1>7, <1>21 DEF PauseUserDispatch, ResumeUserDispatch, dbVars
<1>22. ASSUME NEW t \in Turns, CancelQueuedTurn(t)
       PROVE  Good'
  <2>1. /\ turn[t] = "queued" /\ turn'[t] = "interrupted"
        /\ \A u \in Turns \ {t} : turn'[u] = turn[u] /\ inbox'[u] = inbox[u]
        /\ UNCHANGED <<lease, bundle, task, gateway, crashes, expiries, resets>>
    BY <1>3, <1>22 DEF CancelQueuedTurn, Move
  <2>2. bundle[t] = "none" /\ task[t].pc = "none" /\ InTime(t)
    BY <1>5, <1>8, <2>1 DEF TaskHasQuota, IndInv, TaskWasClaimed
  <2>3. TaskHasQuota(t)' /\ NoQuotaLeft(t)' /\ InTime(t)'
    BY <2>1, <2>2 DEF TaskHasQuota, NoQuotaLeft
  <2> QED BY <1>6, <2>1, <2>3
<1>23. ASSUME NEW t \in Turns, CancelCommits(t)
       PROVE  Good'
  <2>1. /\ UNCHANGED <<gateway, crashes, expiries, resets>>
        /\ task[t].pc \notin {"claimed", "reserved"}
    BY <1>23 DEF CancelCommits, Serving, Quiet
  <2>2. CASE turn[t] = "running" /\ InboxCancellable(t)
    <3>1. /\ turn'[t] = "interrupted"
          /\ \A u \in Turns \ {t} : turn'[u] = turn[u] /\ inbox'[u] = inbox[u]
          /\ lease' = ReleaseLeases(TurnsOf(SessionOf[t]), {"active"})
          /\ bundle' = [bundle EXCEPT ![t] = ReleaseByTask(t)]
          /\ task' = [task EXCEPT ![t].res = IF task[t].res = "pending" THEN "released" ELSE task[t].res]
      BY <1>3, <1>23, <2>2 DEF CancelCommits, Move
    <3>2. InTime(t) /\ TaskHasQuota(t) /\ task[t].res = "pending"
      BY <1>5, <1>8, <2>1, <2>2 DEF TaskHasQuota
    <3>3. ReleaseByTask(t) # "reserved"
      BY <3>2 DEF ReleaseByTask, ReleaseBundle
    <3>4. bundle'[t] # "reserved" /\ \A u \in Turns \ {t} : bundle'[u] = bundle[u]
      BY <1>3, <3>1, <3>3
    <3>5. /\ task'[t].pc = task[t].pc
          /\ \A u \in Turns \ {t} : task'[u] = task[u]
      BY <1>3, <3>1 DEF TaskRows
    <3>6. \A u \in Turns \ {t} :
            SessionOf[u] = SessionOf[t] => lease[u].status # "active"
      BY <2>2 DEF IndInv, SingleRunning, LeaseNamesRunning
    <3>7. \A u \in Turns \ {t} : lease'[u] = lease[u]
      BY <1>3, <3>1, <3>6 DEF ReleaseLeases, TurnsOf
    <3>8. lease'[t].status # "active"
      BY <1>3, <3>1, ReleaseLeasesFacts DEF TurnsOf
    <3>9. TaskHasQuota(t)' /\ NoQuotaLeft(t)' /\ InTime(t)'
      BY <2>1, <3>1, <3>4, <3>5, <3>8 DEF TaskHasQuota, NoQuotaLeft
    <3> QED BY <1>6, <2>1, <3>1, <3>4, <3>5, <3>7, <3>9
  <2>3. CASE ~(turn[t] = "running" /\ InboxCancellable(t))
    BY <1>7, <1>23, <2>3 DEF CancelCommits, dbVars
  <2> QED BY <2>2, <2>3
<1>24. ASSUME NEW c \in Turns, NEW e \in Turns, ClaimOneQueuedTurn(c, e)
       PROVE  Good'
  <2>0. PICK M : M = MergePrefix(c) \ {e}
    OBVIOUS
  <2>1. /\ e \notin M /\ M \subseteq Turns
        /\ turn[e] = "queued" /\ \A u \in M : turn[u] = "queued"
        /\ turn'[e] = "running" /\ inbox'[e] = "processing"
        /\ task'[e].pc = "claimed" /\ ~task'[e].leaseLost
        /\ \A u \in M : turn'[u] = "completed"
        /\ \A u \in Turns \ {e} : task'[u] = task[u]
        /\ \A u \in Turns \ (M \cup {e}) : turn'[u] = turn[u] /\ inbox'[u] = inbox[u]
        /\ UNCHANGED <<bundle, gateway, crashes, expiries, resets>>
    BY <1>24, <2>0, ClaimFacts
  <2>2. /\ gateway = "up"
        /\ \A u \in Turns : InTime(u) /\ TaskHasQuota(u) /\ NoQuotaLeft(u)
    BY <1>5, <1>8, <2>1
  <2>3. lease' = [ReleaseLeases(ExpiredLeases, {"active"}) EXCEPT
                    ![e] = [status |-> "active", phase |-> "claimed", expired |-> FALSE]]
    BY <1>24 DEF ClaimOneQueuedTurn
  <2>4. ExpiredLeases = {}
    BY <2>2 DEF ExpiredLeases
  <2>5. \A u \in Turns : ReleaseLeases(ExpiredLeases, {"active"})[u] = lease[u]
    BY <2>4 DEF ReleaseLeases
  <2>6. /\ lease'[e].status = "active" /\ ~lease'[e].expired
        /\ \A u \in Turns \ {e} : lease'[u] = lease[u]
    BY <2>3, <2>5 DEF ReleaseLeases
  <2>7. \A u \in M \cup {e} : bundle[u] = "none" /\ task[u].pc = "none"
    BY <2>1, <2>2 DEF TaskHasQuota, IndInv, TaskWasClaimed
  <2>8. InTime(e)' /\ TaskHasQuota(e)' /\ NoQuotaLeft(e)'
    BY <2>1, <2>6, <2>7 DEF TaskHasQuota, NoQuotaLeft
  <2>9. \A u \in M : InTime(u)' /\ TaskHasQuota(u)' /\ NoQuotaLeft(u)'
    BY <2>1, <2>2, <2>6, <2>7 DEF TaskHasQuota, NoQuotaLeft
  <2>10. \A u \in Turns \ (M \cup {e}) : InTime(u)' /\ TaskHasQuota(u)' /\ NoQuotaLeft(u)'
    BY <2>1, <2>2, <2>6 DEF TaskHasQuota, NoQuotaLeft
  <2> QED BY <2>1, <2>2, <2>8, <2>9, <2>10 DEF Good
\* There is no expired lease to release, and no startup to go through.
<1>25. ASSUME ReleaseExpiredLeases
       PROVE  Good'
  BY <1>5, <1>8, <1>25 DEF ReleaseExpiredLeases, ExpiredLeases
<1>26. ASSUME StartupStep
       PROVE  Good'
  <2>1. gateway # "up"
    BY <1>26
    DEF StartupStep, Boot, RedriveHeld, FinishRedrive, RequeueClaimed, ReconcileInspected,
        InterruptOrphan, Reconciled
  <2>2. UNCHANGED <<crashes, expiries, resets>>
    BY <1>26
    DEF StartupStep, Boot, RedriveHeld, FinishRedrive, RequeueClaimed, ReconcileInspected,
        InterruptOrphan
  <2> QED BY <1>5, <1>8, <2>1, <2>2
<1>27. /\ ~Crash
       /\ \A t \in Turns : ~LeaseTimesOut(t) /\ ~BundleExpires(t)
       /\ \A s \in Sessions : \A q \in BOOLEAN : ~ResetSession(s, q)
  BY <1>4 DEF Crash, LeaseTimesOut, BundleExpires, ResetSession
<1>28. ASSUME UNCHANGED vars
       PROVE  Good'
  BY <1>7, <1>28 DEF vars, dbVars
<1> QED
  BY <1>9, <1>17, <1>19, <1>20, <1>21, <1>22, <1>23, <1>24, <1>25, <1>26, <1>27, <1>28
  DEF Next, Claim, RecoverValidPrefix, StartNewGeneration

\* Until the first crash, expiry or recovery, a turn that is over holds no quota: its
\* task or the cancellation that settled it has given back or charged the reservation.
THEOREM SettledGivesQuotaBack == Spec => [](Faultless => SettledHoldsNoQuota)
<1>1. Init => QuotaInv
  BY DEF Init, QuotaInv, TaskHasQuota, SettledHoldsNoQuota, TerminalStatus, ExpiredLeases,
         NoLease, NoTask
<1>2. QuotaInv => (Faultless => SettledHoldsNoQuota)
  BY DEF QuotaInv
<1> QED BY <1>1, <1>2, QuotaInductive, Invariant, PTL DEF Spec

-----------------------------------------------------------------------------
(* Merged messages *)

\* Only a completion shows the agent's reply.
LEMMA FailureIsNoReply ==
  ASSUME DbOK, NEW t \in Turns,
         \/ QuotaRefused(t) \/ ResolveFails(t) \/ PersistExecutionFailure(t)
         \/ UsageFails(t) \/ (ExecuteResolves(t) /\ task[t].leaseLost)
  PROVE  reply'[t] = "reply" => reply[t] = "reply"
<1>1. ASSUME NEW k, NEW b, FinalizeFailedTurn(t, k, b)
      PROVE  reply'[t] = "reply" => reply[t] = "reply"
  <2>1. \/ reply' = reply
        \/ reply' = [reply EXCEPT ![t] = IF k = "notice" /\ reply[t] = "none"
                                         THEN "notice" ELSE reply[t]]
    BY <1>1 DEF FinalizeFailedTurn, FailRows, dbVars
  <2> QED BY <2>1 DEF DbOK
<1> QED
  BY <1>1 DEF QuotaRefused, ResolveFails, PersistExecutionFailure, UsageFails, ExecuteResolves

\* Every step keeps the merged content on its way, as long as the server does not crash.
LEMMA MergeInductive == IndInv /\ OutcomeInv /\ MergeInv /\ [Next]_vars => MergeInv'
<1> DEFINE Sent(u) == task[u].pc \in {"executing", "observed"} => task[u].content \subseteq seen
           Kept(u) == merged[u] # 0 /\ u \notin seen =>
                        /\ turn[merged[u]] \notin {"none", "queued"}
                        /\ reply[merged[u]] # "reply"
                        /\ task[merged[u]].pc # "none" => u \in task[merged[u]].content
           Good == gateway = "up" /\ \A u \in Turns : Sent(u) /\ Kept(u)
<1>1. (MergeInv <=> (crashes = 0 => Good)) /\ (MergeInv' <=> (crashes' = 0 => Good'))
  BY DEF MergeInv, ContentOnItsWay
<1> SUFFICES ASSUME IndInv, OutcomeInv, MergeInv, [Next]_vars, crashes' = 0
             PROVE  Good'
  BY <1>1
<1>2. /\ TypeOK /\ DbOK
      /\ turn \in [Turns -> TurnStatus]
      /\ merged \in [Turns -> {0} \cup Turns]
      /\ reply \in [Turns -> {"none", "reply", "notice"}]
      /\ task \in [Turns -> TaskRows]
      /\ crashes \in Nat
  BY BoundsAssumption DEF IndInv, TypeOK, DbOK
<1> USE DEF bounds, extVars, memVars
<1>3. crashes' # crashes + 1
  BY <1>2
<1>4. crashes' = crashes => Good
  BY <1>1
<1>5. \A u \in Turns : merged[u] # 0 => merged[u] \in Turns
  BY <1>2
<1>6. \A u \in Turns : OutcomeOK(u)
  BY TurnByTurn DEF OutcomeInv
\* A step that merges nothing, and shows no reply.
<1>7. ASSUME UNCHANGED <<gateway, merged, crashes>>, seen \subseteq seen',
             \A u \in Turns : turn'[u] \in {"none", "queued"} => turn[u] \in {"none", "queued"},
             \A u \in Turns : reply'[u] = "reply" => reply[u] = "reply",
             \A u \in Turns : task'[u].pc # "none" =>
                task[u].pc # "none" /\ task'[u].content = task[u].content,
             \A u \in Turns : task'[u].pc \in {"executing", "observed"} =>
                task[u].pc \in {"executing", "observed"} \/ task[u].content \subseteq seen'
      PROVE  Good'
  <2>1. \A u \in Turns : Sent(u)'
    BY <1>4, <1>7
  <2>2. \A u \in Turns : Kept(u)'
    BY <1>4, <1>5, <1>7
  <2> QED BY <1>4, <1>7, <2>1, <2>2
\* The task of t ends.
<1>8. ASSUME NEW t \in Turns, task' = [task EXCEPT ![t] = NoTask]
      PROVE  /\ \A u \in Turns \ {t} : task'[u] = task[u]
             /\ task'[t].pc = "none"
  BY <1>2, <1>8 DEF NoTask
<1>9. ASSUME NEW t \in Turns, DispatchInbound(t)
      PROVE  Good'
  <2>1. /\ turn[t] = "none" /\ \A u \in Turns \ {t} : turn'[u] = turn[u]
        /\ UNCHANGED <<gateway, merged, reply, task, seen, crashes>>
    BY <1>2, <1>9 DEF DispatchInbound
  <2> QED BY <1>7, <2>1
<1>10. ASSUME NEW t \in Turns, TaskStep(t), TaskSettles(t), Closes(t),
              reply'[t] = "reply" => reply[t] = "reply"
       PROVE  Good'
  <2>1. /\ task' = [task EXCEPT ![t] = NoTask] /\ task[t].pc # "none"
        /\ UNCHANGED <<gateway, seen, crashes>>
    BY <1>10 DEF TaskSettles, EndTask
  <2>2. /\ \A u \in Turns : turn'[u] \in {"none", "queued"} => turn[u] \in {"none", "queued"}
        /\ \A u \in Turns : reply'[u] = "reply" => reply[u] = "reply"
        /\ merged' = merged
    BY <1>10 DEF TaskSettles, Settles, Closes, TerminalStatus
  <2> QED BY <1>7, <1>8, <2>1, <2>2
\* A completion shows the reply of a turn whose content was sent.
<1>11. ASSUME NEW t \in Turns, PersistTurnCompletion(t)
       PROVE  Good'
  <2>1. TaskSettles(t) /\ Closes(t)
    BY <1>2, <1>11, TaskSettlesSteps, TaskClosesSteps
  <2>2. /\ task' = [task EXCEPT ![t] = NoTask] /\ task[t].pc = "observed"
        /\ UNCHANGED <<gateway, seen, crashes>>
    BY <1>11, <2>1 DEF TaskSettles, EndTask, PersistTurnCompletion
  <2>3. /\ \A u \in Turns : turn'[u] \in {"none", "queued"} => turn[u] \in {"none", "queued"}
        /\ \A u \in Turns \ {t} : reply'[u] = reply[u]
        /\ merged' = merged
    BY <2>1 DEF TaskSettles, Settles, Closes, TerminalStatus
  <2>4. \A u \in Turns : merged[u] = t => u \in seen
    BY <1>4, <2>2, TurnsAssumption DEF Turns
  <2>5. \A u \in Turns : Sent(u)'
    BY <1>4, <1>8, <2>2
  <2>6. \A u \in Turns : Kept(u)'
    BY <1>4, <1>5, <1>8, <2>2, <2>3, <2>4
  <2> QED BY <1>4, <2>2, <2>5, <2>6
\* A task goes on.
<1>12. ASSUME NEW t \in Turns, NEW c, task[t].pc # "none",
              UNCHANGED <<gateway, turn, merged, reply, crashes>>, seen \subseteq seen',
              task'[t].pc = c, task'[t].content = task[t].content,
              \A u \in Turns \ {t} : task'[u] = task[u],
              c \in {"executing", "observed"} =>
                task[t].pc \in {"executing", "observed"} \/ task[t].content \subseteq seen'
       PROVE  Good'
  BY <1>7, <1>12
<1>13. ASSUME NEW t \in Turns, NEW c, task' = [task EXCEPT ![t].pc = c]
       PROVE  /\ task'[t].pc = c /\ task'[t].content = task[t].content
              /\ \A u \in Turns \ {t} : task'[u] = task[u]
  BY <1>2, <1>13 DEF TaskRows
<1>14. ASSUME NEW t \in Turns, BeginExecuting(t)
       PROVE  Good'
  <2>1. task' = [task EXCEPT ![t].pc = "resolving"] /\ task[t].pc # "none"
    BY <1>14 DEF BeginExecuting
  <2> QED BY <1>12, <1>13, <1>14, <2>1 DEF BeginExecuting
<1>15. ASSUME NEW t \in Turns, ExecuteTurn(t)
       PROVE  Good'
  <2>1. task' = [task EXCEPT ![t].pc = "executing"] /\ task[t].pc # "none"
    BY <1>15 DEF ExecuteTurn
  <2> QED BY <1>12, <1>13, <1>15, <2>1 DEF ExecuteTurn, dbVars
<1>16. ASSUME NEW t \in Turns, ExecuteResolves(t), ~task[t].leaseLost
       PROVE  Good'
  <2>1. task' = [task EXCEPT ![t].pc = "observed"] /\ task[t].pc = "executing"
    BY <1>16 DEF ExecuteResolves
  <2> QED BY <1>12, <1>13, <1>16, <2>1 DEF ExecuteResolves
<1>17. ASSUME NEW t \in Turns, ReserveQuota(t)
       PROVE  Good'
  <2>1. /\ task' = [task EXCEPT ![t] = [task[t] EXCEPT !.pc = "reserved", !.res = "pending"]]
        /\ task[t].pc # "none" /\ UNCHANGED <<gateway, turn, merged, reply, seen, crashes>>
    BY <1>17 DEF ReserveQuota
  <2>2. task[t] \in TaskRows
    BY <1>2
  <2>3. LET r == [task[t] EXCEPT !.pc = "reserved", !.res = "pending"] IN
          r.pc = "reserved" /\ r.content = task[t].content
    BY <2>2 DEF TaskRows
  <2>4. /\ task'[t].pc = "reserved" /\ task'[t].content = task[t].content
        /\ \A u \in Turns \ {t} : task'[u] = task[u]
    BY <1>2, <2>1, <2>3
  <2> QED BY <1>12, <2>1, <2>4
<1>18. ASSUME NEW t \in Turns, Heartbeat(t)
       PROVE  Good'
  <2>1. /\ task' = task \/ task' = [task EXCEPT ![t] = [task[t] EXCEPT !.leaseLost = TRUE]]
        /\ task[t].pc # "none" /\ UNCHANGED <<gateway, turn, merged, reply, seen, crashes>>
    BY <1>18 DEF Heartbeat
  <2>2. task[t] \in TaskRows
    BY <1>2
  <2>3. LET r == [task[t] EXCEPT !.leaseLost = TRUE] IN
          r.pc = task[t].pc /\ r.content = task[t].content
    BY <2>2 DEF TaskRows
  <2>4. /\ task'[t].pc = task[t].pc /\ task'[t].content = task[t].content
        /\ \A u \in Turns \ {t} : task'[u] = task[u]
    BY <1>2, <2>1, <2>3
  <2> QED BY <1>12, <2>1, <2>4
<1>19. ASSUME NEW t \in Turns, ExecuteRejects(t)
       PROVE  Good'
  <2>1. task[t].pc # "none" /\ UNCHANGED <<gateway, turn, merged, reply, seen, crashes>>
    BY <1>19 DEF ExecuteRejects, dbVars
  <2>2. CASE turn[t] = "interrupted"
    <3>1. task' = [task EXCEPT ![t] = NoTask]
      BY <1>19, <2>2 DEF ExecuteRejects, EndTask
    <3> QED BY <1>7, <1>8, <2>1, <3>1
  <2>3. CASE turn[t] # "interrupted"
    <3>1. PICK k \in ErrorKind :
            task' = [task EXCEPT ![t] = [task[t] EXCEPT !.pc = "failing", !.error = k]]
      BY <1>19, <2>3 DEF ExecuteRejects
    <3>2. task[t] \in TaskRows
      BY <1>2
    <3>3. LET r == [task[t] EXCEPT !.pc = "failing", !.error = k] IN
            r.pc = "failing" /\ r.content = task[t].content
      BY <3>2 DEF TaskRows
    <3>4. /\ task'[t].pc = "failing" /\ task'[t].content = task[t].content
          /\ \A u \in Turns \ {t} : task'[u] = task[u]
      BY <1>2, <3>1, <3>3
    <3> QED BY <1>12, <2>1, <3>4
  <2> QED BY <2>2, <2>3
<1>20. ASSUME NEW t \in Turns, TaskStep(t)
       PROVE  Good'
  <2>1. CASE \/ QuotaRefused(t) \/ ResolveFails(t) \/ PersistExecutionFailure(t)
             \/ UsageFails(t) \/ (ExecuteResolves(t) /\ task[t].leaseLost)
    BY <1>2, <1>10, <1>20, <2>1, TaskSettlesSteps, TaskClosesSteps, FailureIsNoReply
  <2> QED
    BY <1>11, <1>14, <1>15, <1>16, <1>17, <1>19, <1>20, <2>1 DEF TaskStep
<1>21. ASSUME UNCHANGED <<gateway, merged, reply, task, seen, crashes>>,
              \A u \in Turns : turn'[u] = turn[u] \/ turn'[u] = "interrupted"
       PROVE  Good'
  BY <1>7, <1>21
<1>22. ASSUME NEW t \in Turns,
              \/ RuntimeEndsTurn(t) \/ CancelTurn(t) \/ CancelAccepted(t) \/ CancelRejected(t)
              \/ LeaseTimesOut(t) \/ BundleExpires(t)
       PROVE  Good'
  BY <1>21, <1>22
  DEF RuntimeEndsTurn, CancelTurn, CancelAccepted, CancelRejected, LeaseTimesOut, BundleExpires,
      dbVars
<1>23. ASSUME NEW u \in Users, PauseUserDispatch(u) \/ ResumeUserDispatch(u)
       PROVE  Good'
  BY <1>21, <1>23 DEF PauseUserDispatch, ResumeUserDispatch, dbVars
<1>24. ASSUME NEW t \in Turns, CancelQueuedTurn(t)
       PROVE  Good'
  BY <1>2, <1>21, <1>24 DEF CancelQueuedTurn
<1>25. ASSUME NEW t \in Turns, CancelCommits(t)
       PROVE  Good'
  <2>1. CASE turn[t] = "running" /\ InboxCancellable(t)
    <3>1. /\ \A u \in Turns : turn'[u] = turn[u] \/ turn'[u] = "interrupted"
          /\ UNCHANGED <<gateway, merged, reply, seen, crashes>>
          /\ task' = [task EXCEPT ![t].res = IF task[t].res = "pending" THEN "released" ELSE task[t].res]
      BY <1>2, <1>25, <2>1 DEF CancelCommits
    <3>2. \A u \in Turns : task'[u].pc = task[u].pc /\ task'[u].content = task[u].content
      BY <1>2, <3>1 DEF TaskRows
    <3> QED BY <1>7, <3>1, <3>2
  <2>2. CASE ~(turn[t] = "running" /\ InboxCancellable(t))
    BY <1>21, <1>25, <2>2 DEF CancelCommits, dbVars
  <2> QED BY <2>1, <2>2
<1>26. ASSUME NEW s \in Sessions, NEW replayQueued \in BOOLEAN, ResetSession(s, replayQueued)
       PROVE  Good'
  <2>1. \A u \in Turns : turn'[u] = turn[u] \/ turn'[u] = "interrupted"
    BY <1>2, <1>26 DEF ResetSession
  <2> QED BY <1>21, <1>26, <2>1 DEF ResetSession
<1>27. ASSUME ReleaseExpiredLeases
       PROVE  Good'
  BY <1>21, <1>27 DEF ReleaseExpiredLeases
\* A claim: the merged turns are in the content of the new task.
<1>28. ASSUME NEW c \in Turns, NEW e \in Turns, ClaimOneQueuedTurn(c, e)
       PROVE  Good'
  <2>0. PICK M : M = MergePrefix(c) \ {e}
    OBVIOUS
  <2>1. /\ e \notin M /\ M \subseteq Turns
        /\ turn[e] = "queued" /\ \A u \in M : turn[u] = "queued"
        /\ turn'[e] = "running" /\ merged'[e] = merged[e]
        /\ task'[e].pc = "claimed" /\ task'[e].content = M \cup {e}
        /\ \A u \in M : turn'[u] = "completed" /\ merged'[u] = e
        /\ \A u \in Turns \ {e} : task'[u] = task[u]
        /\ \A u \in Turns \ (M \cup {e}) : turn'[u] = turn[u] /\ merged'[u] = merged[u]
        /\ UNCHANGED <<reply, gateway, seen, crashes>>
    BY <1>28, <2>0, ClaimFacts
  <2>2. Good
    BY <1>4, <2>1
  <2>3. reply[e] # "reply"
    BY <1>6, <2>1 DEF OutcomeOK
  <2>4. \A u \in Turns : Sent(u)'
    BY <2>1, <2>2
  <2>5. \A u \in M : Kept(u)'
    BY <2>1, <2>3
  <2>6. ASSUME NEW u \in Turns \ M, merged'[u] # 0, u \notin seen
        PROVE  /\ turn'[merged'[u]] \notin {"none", "queued"}
               /\ reply'[merged'[u]] # "reply"
               /\ task'[merged'[u]].pc # "none" => u \in task'[merged'[u]].content
    <3>1. merged'[u] = merged[u] /\ merged[u] \in Turns
      BY <1>5, <2>1, <2>6
    <3>2. turn[merged[u]] \notin {"none", "queued"}
      BY <2>2, <2>6, <3>1
    <3>3. merged[u] \notin M \cup {e}
      BY <2>1, <3>2
    <3> QED BY <2>1, <2>2, <2>6, <3>1, <3>3
  <2> QED BY <2>1, <2>2, <2>4, <2>5, <2>6
<1>29. ASSUME StartupStep
       PROVE  Good'
  <2>1. gateway # "up" /\ crashes' = crashes
    BY <1>29
    DEF StartupStep, Boot, RedriveHeld, FinishRedrive, RequeueClaimed, ReconcileInspected,
        InterruptOrphan, Reconciled
  <2> QED BY <1>4, <2>1
<1>30. ~Crash
  BY <1>3 DEF Crash
<1>31. ASSUME UNCHANGED vars
       PROVE  Good'
  BY <1>21, <1>31 DEF vars, dbVars
<1> QED
  BY <1>9, <1>18, <1>20, <1>22, <1>23, <1>24, <1>25, <1>26, <1>27, <1>28, <1>29, <1>30, <1>31
  DEF Next, Claim, RecoverValidPrefix, StartNewGeneration

\* Until the first crash, the reply to a turn is a reply to the messages merged into it
\* too: the runtime has seen them all, whatever leases run out and whoever cancels.
THEOREM MergedMessagesAnswered == Spec => [](crashes = 0 => MergedContentDelivered)
<1>1. Init => MergeInv
  BY DEF Init, MergeInv, ContentOnItsWay, NoTask
<1>2. IndInv /\ MergeInv => (crashes = 0 => MergedContentDelivered)
  BY DEF MergeInv, ContentOnItsWay, MergedContentDelivered
<1> QED BY <1>1, <1>2, MergeInductive, OutcomeInvariant, Invariant, PTL DEF Spec
=============================================================================
