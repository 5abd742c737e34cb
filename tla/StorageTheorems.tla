-------------------------- MODULE StorageTheorems ---------------------------
(***************************************************************************)
(* What is proved about the components that keep sessions and their forks, *)
(* attachments, uploads and origins of turns, for any values of their      *)
(* constants.                                                              *)
(* The components share no state.  The variables have the names they have  *)
(* in MCStorage, which takes its instances from here, so that the theorems *)
(* can be cited for them.                                                  *)
(***************************************************************************)
EXTENDS Integers, Sequences, SequenceTheorems, FiniteSetTheorems,
  WellFoundedInduction, TLAPS

CONSTANTS
  None,                                         \* nothing
  Turns, Keys, Calls,                           \* turns, keys and calls of requests
  MaxGen, MaxCorrupt, MaxRestores, Anytime,     \* SessionLifecycle
  Forks, MaxResets, MaxCancels, MaxFaults, MaxCrashes,  \* SessionForks
  Contents, Quoted, LostReplies,                \* Attachments
  MaxChanges, MaxRows, MaxStops,
  Uploads, MaxOpen,                             \* FileTransfers
  Platform, Children, Jobs, Overlap, Restarts, MaxTurn  \* TurnOrigins

VARIABLES
  sessionSpace, status, gen, dsh, genRow, sessionUsed, files, sessionHist,
  damage, place, run, at, ran, lease, flag, call, restoring, restores, kept, done,
  answer,
  turn, forkMsgs, forkGen, forkHist, when, forkSpace, op, forkKey, from, plan,
  src, forkPc, seed, dst, route, keyRow, up, forkFaults, forkCrashes,
  file, snap, row, rows, etag, attachMsgs, attachPc, attachKey, mine,
  copying, boot, bad, attachActive, attachSpace, skipped, changes,
  attachCrashes,
  target, stage, backup, journal, created, clock, idem, server, uploadPc, req,
  told, todo, doing, failed, uploadCrashes, uploadFaults, origin, held,
  agent, kids, task, originActive, auto, intMap, pend, origins, store, jobs,
  frames, replies, left

Fork == INSTANCE SessionForks WITH
  msgs <- forkMsgs, gen <- forkGen, hist <- forkHist, space <- forkSpace, key <- forkKey,
  pc <- forkPc, faults <- forkFaults, crashes <- forkCrashes
Life == INSTANCE SessionLifecycle WITH
  space <- sessionSpace, used <- sessionUsed, hist <- sessionHist
Attach == INSTANCE Attachments WITH
  MaxCrashes <- MaxStops, msgs <- attachMsgs, pc <- attachPc,
  key <- attachKey, active <- attachActive, space <- attachSpace,
  crashes <- attachCrashes
Upload == INSTANCE FileTransfers WITH
  Absent <- None, pc <- uploadPc, crashes <- uploadCrashes, faults <- uploadFaults
Orig == INSTANCE TurnOrigins WITH active <- originActive

-----------------------------------------------------------------------------
(* The source session.                                                     *)

SourceTyped ==
  /\ turn \in [Turns -> {"none", "queued", "running", "completed", "cancelled"}]
  /\ forkMsgs \in Seq(Turns) /\ forkGen \in Fork!Gens
  /\ forkHist \in [Fork!Gens -> Seq(Turns)] /\ when \in [Turns -> Fork!Gens]

(* A turn is sent once, when it leaves "none".                             *)
SentOnce ==
  /\ \A i, j \in 1..Len(forkMsgs) : forkMsgs[i] = forkMsgs[j] => i = j
  /\ \A i \in 1..Len(forkMsgs) : turn[forkMsgs[i]] # "none"
  /\ \A t \in Turns : turn[t] # "none" => \E i \in 1..Len(forkMsgs) : forkMsgs[i] = t

(* A history has the turns that ran in its generation.                     *)
RanInHistory ==
  /\ \A g \in Fork!Gens : \A i \in 1..Len(forkHist[g]) :
       turn[forkHist[g][i]] \in {"running", "completed"}
  /\ \A t \in Turns : turn[t] \in {"running", "completed"}
       => \E i \in 1..Len(forkHist[when[t]]) : forkHist[when[t]][i] = t

(* Turns run in the order they were sent: a turn comes no later in a       *)
(* history than among the messages, and what is queued was sent after all  *)
(* that ran.                                                               *)
RunsInOrder ==
  \A g \in Fork!Gens :
    /\ \A i \in 1..Len(forkHist[g]), j \in 1..Len(forkMsgs) :
         forkMsgs[j] = forkHist[g][i] => i <= j
    /\ \A i \in 1..Len(forkHist[g]), j, k \in 1..Len(forkMsgs) :
         forkMsgs[j] = forkHist[g][i] /\ turn[forkMsgs[k]] = "queued" => j < k

SourceInv == SourceTyped /\ SentOnce /\ RanInHistory /\ RunsInOrder

(* What is sent and what is in a history are turns.                        *)
LEMMA SourceElements ==
  ASSUME SourceTyped
  PROVE  /\ \A i \in 1..Len(forkMsgs) : forkMsgs[i] \in Turns
         /\ \A g \in Fork!Gens : \A i \in 1..Len(forkHist[g]) : forkHist[g][i] \in Turns
<1>1. ASSUME NEW i \in 1..Len(forkMsgs)
      PROVE  forkMsgs[i] \in Turns
  BY ElementOfSeq DEF SourceTyped
<1>2. ASSUME NEW g \in Fork!Gens, NEW i \in 1..Len(forkHist[g])
      PROVE  forkHist[g][i] \in Turns
  <2>1. forkHist[g] \in Seq(Turns)
    BY DEF SourceTyped
  <2> QED BY <2>1, ElementOfSeq
<1> QED BY <1>1, <1>2

(* The place of a turn that was sent.                                      *)
LEMMA PlaceOfSent ==
  ASSUME SourceInv, NEW t \in Turns, turn[t] # "none"
  PROVE  Fork!Place(t) \in 1..Len(forkMsgs) /\ forkMsgs[Fork!Place(t)] = t
BY DEF SourceInv, SentOnce, Fork!Place

LEMMA SourceInvInit == Fork!SessionForksAssumption /\ Fork!Init => SourceInv
  BY DEF Fork!SessionForksAssumption, Fork!Init, Fork!Gens, SourceInv, SourceTyped, SentOnce,
      RanInHistory, RunsInOrder

(* A step of a turn leaves the messages there are, and what is over.       *)
Grows ==
  /\ Len(forkMsgs) <= Len(forkMsgs') /\ \A i \in 1..Len(forkMsgs) : forkMsgs'[i] = forkMsgs[i]
  /\ \A t \in Turns : turn[t] \in {"completed", "cancelled"}
                        => turn'[t] = turn[t] /\ when'[t] = when[t]

LEMMA SourceInvStep ==
  ASSUME Fork!SessionForksAssumption, SourceInv, [Fork!Next]_(Fork!vars)
  PROVE  SourceInv' /\ Grows
<1>0. /\ SourceTyped /\ SentOnce /\ RanInHistory /\ RunsInOrder
      /\ Len(forkMsgs) \in Nat /\ \A g \in Fork!Gens : Len(forkHist[g]) \in Nat
  BY DEF SourceInv, SourceTyped
<1>1. ASSUME UNCHANGED Fork!source
      PROVE  SourceInv' /\ Grows
  BY <1>0, <1>1 DEF Fork!source, SourceInv, SourceTyped, SentOnce, RanInHistory,
     RunsInOrder, Grows
<1>2. ASSUME NEW t \in Turns, Fork!Dispatch(t)
      PROVE  SourceInv' /\ Grows
  <2>1. /\ turn[t] = "none" /\ turn' = [turn EXCEPT ![t] = "queued"]
           /\ forkMsgs' = Append(forkMsgs, t)
        /\ forkHist' = forkHist /\ forkGen' = forkGen /\ when' = when
    BY <1>2 DEF Fork!Dispatch, Fork!To
  <2>2. /\ forkMsgs' \in Seq(Turns) /\ Len(forkMsgs') = Len(forkMsgs) + 1
           /\ forkMsgs'[Len(forkMsgs) + 1] = t
        /\ \A i \in 1..Len(forkMsgs) : forkMsgs'[i] = forkMsgs[i]
    BY <1>0, <2>1, AppendProperties DEF SourceTyped
  <2>3. \A i \in 1..Len(forkMsgs') : i \in 1..Len(forkMsgs) \/ i = Len(forkMsgs) + 1
    BY <1>0, <2>2
  <2>4. \A i \in 1..Len(forkMsgs) : /\ i \in 1..Len(forkMsgs') /\ i < Len(forkMsgs) + 1
                                    /\ forkMsgs[i] \in Turns /\ forkMsgs[i] # t
    BY <1>0, <2>1, <2>2, SourceElements DEF SentOnce
  <2>5. Len(forkMsgs) + 1 \in 1..Len(forkMsgs')
    BY <1>0, <2>2
  <2>6. \A g \in Fork!Gens : \A i \in 1..Len(forkHist[g]) :
          forkHist[g][i] \in Turns /\ forkHist[g][i] # t
    BY <1>0, <2>1, SourceElements DEF RanInHistory
  <2>7. \A u \in Turns : u # t => turn'[u] = turn[u]
    BY <1>0, <2>1 DEF SourceTyped
  <2>8. turn'[t] = "queued" /\ SourceTyped'
    BY <1>0, <2>1, <2>2 DEF SourceTyped
  <2>9. SentOnce'
    BY <1>0, <2>2, <2>3, <2>4, <2>5, <2>7, <2>8 DEF SentOnce
  <2>10. RanInHistory'
    BY <1>0, <2>1, <2>6, <2>7, <2>8 DEF RanInHistory
  <2>11. RunsInOrder'
    <3>1. ASSUME NEW g \in Fork!Gens, NEW i \in 1..Len(forkHist[g]),
                 NEW j \in 1..Len(forkMsgs'), forkMsgs'[j] = forkHist[g][i]
          PROVE  i <= j /\ \A k \in 1..Len(forkMsgs') : turn'[forkMsgs'[k]] = "queued" => j < k
      <4>1. j \in 1..Len(forkMsgs) /\ forkMsgs[j] = forkHist[g][i]
        BY <2>2, <2>3, <2>6, <3>1
      <4>2. i <= j
        BY <1>0, <4>1 DEF RunsInOrder
      <4>3. ASSUME NEW k \in 1..Len(forkMsgs'), turn'[forkMsgs'[k]] = "queued"
            PROVE  j < k
        <5>1. CASE k \in 1..Len(forkMsgs)
          BY <1>0, <2>2, <2>4, <2>7, <4>1, <4>3, <5>1 DEF RunsInOrder
        <5>2. CASE k = Len(forkMsgs) + 1
          BY <1>0, <4>1, <5>2
        <5> QED BY <2>3, <5>1, <5>2
      <4> QED BY <4>2, <4>3
    <3> QED BY <2>1, <3>1 DEF RunsInOrder
  <2>12. Grows
    BY <1>0, <2>1, <2>2, <2>7 DEF Grows
  <2> QED BY <2>8, <2>9, <2>10, <2>11, <2>12 DEF SourceInv
<1>3. ASSUME NEW t \in Turns, Fork!Execute(t)
      PROVE  SourceInv' /\ Grows
  <2> DEFINE p == Fork!Place(t)
             old == forkHist[forkGen]
             new == Append(old, t)
  <2>1. /\ turn[t] = "queued" /\ turn' = [turn EXCEPT ![t] = "running"]
        /\ when' = [when EXCEPT ![t] = forkGen] /\ forkGen' = forkGen /\ forkMsgs' = forkMsgs
        /\ forkHist' = [forkHist EXCEPT ![forkGen] = new]
        /\ \A i \in 1..p - 1 : turn[forkMsgs[i]] \notin {"queued", "running"}
    BY <1>3 DEF Fork!Execute, Fork!To
  <2>2. p \in 1..Len(forkMsgs) /\ forkMsgs[p] = t
    BY <2>1, PlaceOfSent
  <2> HIDE DEF p
  <2>3. /\ old \in Seq(Turns) /\ new \in Seq(Turns) /\ Len(new) = Len(old) + 1
        /\ new[Len(old) + 1] = t /\ \A i \in 1..Len(old) : new[i] = old[i]
        /\ forkGen \in Fork!Gens /\ Len(old) \in Nat
    BY <1>0, AppendProperties DEF SourceTyped
  <2>4. /\ \A i \in 1..Len(new) : i \in 1..Len(old) \/ i = Len(old) + 1
        /\ \A i \in 1..Len(old) : i \in 1..Len(new)
        /\ Len(old) + 1 \in 1..Len(new)
    BY <2>3
  <2>5. /\ \A u \in Turns : u # t => turn'[u] = turn[u] /\ when'[u] = when[u]
        /\ turn'[t] = "running" /\ when'[t] = forkGen
        /\ \A g \in Fork!Gens : g # forkGen => forkHist'[g] = forkHist[g]
        /\ forkHist'[forkGen] = new
    BY <1>0, <2>1, <2>3 DEF SourceTyped
  <2>6. SourceTyped'
    BY <1>0, <2>1, <2>3 DEF SourceTyped
  <2>7. /\ \A g \in Fork!Gens : \A i \in 1..Len(forkHist[g]) :
             forkHist[g][i] \in Turns /\ forkHist[g][i] # t
        /\ \A i \in 1..Len(forkMsgs) : forkMsgs[i] \in Turns /\ (forkMsgs[i] = t => i = p)
    BY <1>0, <2>1, <2>2, SourceElements DEF RanInHistory, SentOnce
  <2>8. \A i \in 1..Len(old) : old[i] \in Turns /\ old[i] # t
    BY <2>3, <2>7
  <2>9. Len(old) + 1 <= p
    <3>1. CASE Len(old) = 0
      BY <2>2, <3>1
    <3>2. CASE Len(old) # 0
      <4>1. Len(old) \in 1..Len(old) /\ old[Len(old)] \in Turns /\ turn[old[Len(old)]] # "none"
        BY <1>0, <2>3, <2>8, <3>2 DEF RanInHistory
      <4>2. PICK j \in 1..Len(forkMsgs) : forkMsgs[j] = old[Len(old)]
        BY <1>0, <4>1 DEF SentOnce
      <4>3. Len(old) <= j /\ j < p
        BY <1>0, <2>1, <2>2, <2>3, <4>1, <4>2 DEF RunsInOrder
      <4> QED BY <1>0, <2>2, <2>3, <4>3
    <3> QED BY <3>1, <3>2
  <2> HIDE DEF new
  <2>10. \A k \in 1..Len(forkMsgs) : turn'[forkMsgs[k]] = "queued" => p < k
    <3> SUFFICES ASSUME NEW k \in 1..Len(forkMsgs), turn'[forkMsgs[k]] = "queued"
                 PROVE  p < k
      OBVIOUS
    <3>1. turn[forkMsgs[k]] = "queued" /\ k # p
      BY <2>2, <2>5, <2>7
    <3>2. k \notin 1..p - 1
      BY <2>1, <3>1
    <3> QED BY <1>0, <2>2, <3>1, <3>2
  <2>11. SentOnce'
    <3>1. \A i \in 1..Len(forkMsgs') : turn'[forkMsgs'[i]] # "none"
      BY <1>0, <2>1, <2>5, <2>7 DEF SentOnce
    <3>2. \A u \in Turns : turn'[u] # "none" => \E i \in 1..Len(forkMsgs') : forkMsgs'[i] = u
      BY <1>0, <2>1, <2>2, <2>5 DEF SentOnce
    <3> QED BY <1>0, <2>1, <3>1, <3>2 DEF SentOnce
  <2>12. RanInHistory'
    <3>1. ASSUME NEW g \in Fork!Gens, NEW i \in 1..Len(forkHist'[g])
          PROVE  turn'[forkHist'[g][i]] \in {"running", "completed"}
      <4>1. CASE g = forkGen
        BY <1>0, <2>3, <2>4, <2>5, <2>8, <3>1, <4>1 DEF RanInHistory
      <4>2. CASE g # forkGen
        BY <1>0, <2>5, <2>7, <3>1, <4>2 DEF RanInHistory
      <4> QED BY <4>1, <4>2
    <3>2. ASSUME NEW u \in Turns, turn'[u] \in {"running", "completed"}
          PROVE  \E i \in 1..Len(forkHist'[when'[u]]) : forkHist'[when'[u]][i] = u
      <4>1. CASE u = t
        BY <2>3, <2>4, <2>5, <4>1
      <4>2. CASE u # t
        <5>1. PICK i \in 1..Len(forkHist[when[u]]) : forkHist[when[u]][i] = u
          BY <1>0, <2>5, <3>2, <4>2 DEF RanInHistory
        <5>2. when[u] \in Fork!Gens /\ when'[u] = when[u]
          BY <1>0, <2>5, <4>2 DEF SourceTyped
        <5>3. CASE when[u] = forkGen
          BY <2>3, <2>4, <2>5, <5>1, <5>2, <5>3
        <5>4. CASE when[u] # forkGen
          BY <2>5, <5>1, <5>2, <5>4
        <5> QED BY <5>3, <5>4
      <4> QED BY <4>1, <4>2
    <3> QED BY <3>1, <3>2 DEF RanInHistory
  <2>13. RunsInOrder'
    <3>1. ASSUME NEW g \in Fork!Gens, NEW i \in 1..Len(forkHist'[g]),
                 NEW j \in 1..Len(forkMsgs), forkMsgs[j] = forkHist'[g][i]
          PROVE  i <= j /\ \A k \in 1..Len(forkMsgs) : turn'[forkMsgs[k]] = "queued" => j < k
      <4>0. \A k \in 1..Len(forkMsgs) : turn'[forkMsgs[k]] = "queued"
              => turn[forkMsgs[k]] = "queued"
        BY <2>5, <2>7
      <4>1. CASE g = forkGen /\ i = Len(old) + 1
        BY <2>3, <2>5, <2>7, <2>9, <2>10, <3>1, <4>1
      <4>2. CASE g = forkGen /\ i \in 1..Len(old)
        <5>1. forkMsgs[j] = forkHist[g][i] /\ i \in 1..Len(forkHist[g])
          BY <2>3, <2>5, <3>1, <4>2
        <5> QED BY <1>0, <4>0, <5>1 DEF RunsInOrder
      <4>3. CASE g # forkGen
        <5>1. forkMsgs[j] = forkHist[g][i] /\ i \in 1..Len(forkHist[g])
          BY <2>5, <3>1, <4>3
        <5> QED BY <1>0, <4>0, <5>1 DEF RunsInOrder
      <4> QED BY <2>4, <2>5, <3>1, <4>1, <4>2, <4>3
    <3> QED BY <2>1, <3>1 DEF RunsInOrder
  <2>14. Grows
    BY <1>0, <2>1, <2>5 DEF Grows
  <2> QED BY <2>6, <2>11, <2>12, <2>13, <2>14 DEF SourceInv
<1>4. ASSUME NEW t \in Turns, Fork!Complete(t) \/ Fork!CancelQueued(t)
      PROVE  SourceInv' /\ Grows
  <2>1. /\ UNCHANGED <<forkMsgs, forkGen, forkHist, when>>
        /\ \/ turn[t] = "running" /\ turn' = [turn EXCEPT ![t] = "completed"]
           \/ turn[t] = "queued" /\ turn' = [turn EXCEPT ![t] = "cancelled"]
    BY <1>4 DEF Fork!Complete, Fork!CancelQueued, Fork!To
  <2>2. /\ \A u \in Turns : u # t => turn'[u] = turn[u]
        /\ turn'[t] \in {"completed", "cancelled"} /\ SourceTyped'
        /\ turn'[t] = "completed" <=> turn[t] = "running"
    BY <1>0, <2>1 DEF SourceTyped
  <2>3. /\ \A g \in Fork!Gens : \A i \in 1..Len(forkHist[g]) : forkHist[g][i] \in Turns
        /\ \A i \in 1..Len(forkMsgs) : forkMsgs[i] \in Turns
    BY <1>0 DEF SourceTyped
  <2>4. SentOnce'
    BY <1>0, <2>1, <2>2, <2>3 DEF SentOnce
  <2>5. RanInHistory'
    BY <1>0, <2>1, <2>2, <2>3 DEF RanInHistory
  <2>6. RunsInOrder'
    BY <1>0, <2>1, <2>2, <2>3 DEF RunsInOrder
  <2>7. Grows
    BY <1>0, <2>1, <2>2 DEF Grows
  <2> QED BY <2>2, <2>4, <2>5, <2>6, <2>7 DEF SourceInv
<1>5. ASSUME NEW f \in Forks,
             \/ \E k \in Keys \cup {None}, t \in Turns \cup {None} : Fork!BeginFork(f, k, t)
             \/ Fork!Step(f) \/ Fork!Reconcile(f)
      PROVE  SourceInv' /\ Grows
  BY <1>1, <1>5 DEF Fork!BeginFork, Fork!Step, Fork!Export, Fork!Import, Fork!MarkSeeded,
     Fork!Copy, Fork!Finalize, Fork!Reconcile
<1>6. CASE Fork!ArchiveSpace \/ Fork!Crash \/ Fork!Listen \/ UNCHANGED Fork!vars
  BY <1>1, <1>6 DEF Fork!ArchiveSpace, Fork!Crash, Fork!Listen, Fork!vars
<1>7. ASSUME Fork!StartGeneration
      PROVE  SourceInv' /\ Grows
  <2>1. /\ UNCHANGED <<forkMsgs, forkHist, when>> /\ forkGen' = forkGen + 1 /\ forkGen < MaxResets
        /\ turn' = [t \in Turns |-> IF turn[t] = "queued" THEN "cancelled" ELSE turn[t]]
    BY <1>7 DEF Fork!StartGeneration
  <2>2. /\ \A t \in Turns : /\ turn[t] \in {"none", "running", "completed", "cancelled"}
                                 => turn'[t] = turn[t]
                            /\ turn[t] = "queued" => turn'[t] = "cancelled"
        /\ \A t \in Turns : turn'[t] # "queued"
        /\ turn' \in [Turns -> {"none", "queued", "running", "completed", "cancelled"}]
    BY <1>0, <2>1 DEF SourceTyped
  <2>3. forkGen' \in Fork!Gens
    BY <1>0, <2>1 DEF SourceTyped, Fork!Gens, Fork!SessionForksAssumption
  <2>4. /\ \A g \in Fork!Gens : \A i \in 1..Len(forkHist[g]) : forkHist[g][i] \in Turns
        /\ \A i \in 1..Len(forkMsgs) : forkMsgs[i] \in Turns
    BY <1>0 DEF SourceTyped
  <2>5. SourceTyped'
    BY <1>0, <2>1, <2>2, <2>3 DEF SourceTyped
  <2>6. \A t \in Turns : /\ turn'[t] = "none" <=> turn[t] = "none"
                         /\ turn'[t] \in {"running", "completed"}
                              <=> turn[t] \in {"running", "completed"}
    BY <1>0, <2>2 DEF SourceTyped
  <2>7. SentOnce' /\ RanInHistory'
    BY <1>0, <2>1, <2>4, <2>6 DEF SentOnce, RanInHistory
  <2>8. RunsInOrder'
    BY <1>0, <2>1, <2>2, <2>4 DEF RunsInOrder
  <2>9. Grows
    BY <1>0, <2>1, <2>2 DEF Grows
  <2> QED BY <2>5, <2>7, <2>8, <2>9 DEF SourceInv
<1> QED BY <1>2, <1>3, <1>4, <1>5, <1>6, <1>7 DEF Fork!Next

-----------------------------------------------------------------------------
(* The forks.                                                              *)

ForkTyped ==
  /\ Fork!TypeOK
  /\ forkKey \in [Forks -> Keys \cup {None}] /\ from \in [Forks -> Turns \cup {None}]
  /\ plan \in [Forks -> Seq(Turns)] /\ seed \in [Forks -> Seq(Turns)]
  /\ DOMAIN dst = Forks /\ src \in [Forks -> Fork!Gens]

(* How far a request is and what its journal row says; only a row that is  *)
(* finalized has a session, and a stopped server runs no request.          *)
JournalOf(f) ==
  /\ (forkPc[f] = "none") <=> (op[f] = "none")
  /\ forkPc[f] \in {"export", "import", "imported"} => op[f] = "prepared"
  /\ forkPc[f] = "copy" => op[f] = "seeded"
  /\ forkPc[f] = "finalize" => op[f] = "attachments_copied"
  /\ route[f] # "none" => op[f] = "finalized"
  /\ ~up => forkPc[f] \in {"none", "ended"}

Journal == \A f \in Forks : JournalOf(f)

(* The key of a session that was made is its own.                          *)
KeyIsMine ==
  \A f \in Forks : route[f] # "none" /\ forkKey[f] # None => keyRow[forkKey[f]] = f

(* A plan is a beginning of the messages, and its turns are over.          *)
PlanIsPrefix ==
  \A f \in Forks : \A i \in 1..Len(plan[f]) :
    /\ i \in 1..Len(forkMsgs) /\ plan[f][i] = forkMsgs[i]
    /\ turn[plan[f][i]] \in {"completed", "cancelled"}

(* A history has every turn of the plan that ran in the generation.        *)
Has(f, h) ==
  \A i \in 1..Len(plan[f]) :
    turn[plan[f][i]] = "completed" /\ when[plan[f][i]] = src[f]
        => \E j \in 1..Len(h) : h[j] = plan[f][i]

HistoryOf(f) ==
  /\ forkPc[f] \in {"import", "imported", "copy", "finalize"} => Has(f, seed[f])
  /\ (\/ forkPc[f] \in {"imported", "copy", "finalize"}
      \/ op[f] \in {"seeded", "attachments_copied", "finalized"})
     => dst[f] \in Seq(Turns) /\ Has(f, dst[f])

HistoryFollows == \A f \in Forks : HistoryOf(f)

ForkInv ==
  ForkTyped /\ Journal /\ KeyIsMine /\ PlanIsPrefix /\ HistoryFollows /\ Fork!NothingStuck

LEMMA ForkInvInit == Fork!SessionForksAssumption /\ Fork!Init => ForkInv
<1> SUFFICES ASSUME Fork!SessionForksAssumption, Fork!Init
             PROVE  ForkInv
  OBVIOUS
<1>1. \A f \in Forks : /\ op[f] = "none" /\ forkPc[f] = "none" /\ route[f] = "none"
                       /\ plan[f] = <<>> /\ forkKey[f] = None
  BY DEF Fork!Init
<1>2. ForkTyped
  BY DEF Fork!SessionForksAssumption, Fork!Gens, Fork!Init, ForkTyped, Fork!TypeOK
<1>3. Journal /\ KeyIsMine /\ Fork!NothingStuck
  BY <1>1 DEF Fork!Init, Journal, JournalOf, KeyIsMine, Fork!NothingStuck
<1>4. PlanIsPrefix /\ HistoryFollows
  BY <1>1 DEF PlanIsPrefix, HistoryFollows, HistoryOf
<1> QED BY <1>2, <1>3, <1>4 DEF ForkInv

(* What the invariant says of the sessions.                                *)
LEMMA ForkInvIsComplete == Fork!SessionForksAssumption /\ ForkInv => Fork!ForksComplete
<1> SUFFICES ASSUME Fork!SessionForksAssumption, ForkInv
             PROVE  Fork!ForksComplete
  OBVIOUS
<1>1. Fork!ForkedOnce
  BY DEF ForkInv, KeyIsMine, Fork!ForkedOnce
<1>2. Fork!RouteHasHistory
  <2> SUFFICES ASSUME NEW f \in Forks, route[f] # "none"
               PROVE  /\ dst[f] # Fork!NoSeed
                      /\ \A t \in Range(plan[f]) : turn[t] = "completed" /\ when[t] = src[f]
                                                    => t \in Range(dst[f])
    BY DEF Fork!RouteHasHistory, Fork!Range, Range
  <2>1. dst[f] \in Seq(Turns) /\ Has(f, dst[f]) /\ plan[f] \in Seq(Turns)
    BY DEF ForkInv, ForkTyped, Journal, JournalOf, HistoryFollows, HistoryOf
  <2>2. dst[f] # Fork!NoSeed
    <3> SUFFICES ASSUME dst[f] = <<None>>
                 PROVE  FALSE
      BY DEF Fork!NoSeed
    <3>1. <<None>> \in Seq(Turns) /\ Len(<<None>>) = 1 /\ <<None>>[1] = None
      BY <2>1
    <3>2. <<None>>[1] \in Turns
      BY <3>1, ElementOfSeq
    <3> QED BY <3>1, <3>2 DEF Fork!SessionForksAssumption
  <2>3. \A t \in Range(plan[f]) : turn[t] = "completed" /\ when[t] = src[f]
                                   => t \in Range(dst[f])
    BY <2>1 DEF Has, Range
  <2> QED BY <2>2, <2>3
<1> QED BY <1>1, <1>2 DEF Fork!ForksComplete, ForkInv, ForkTyped

(* What a step of one request or of its reconciliation has to keep.        *)
LEMMA OneFork ==
  ASSUME Fork!SessionForksAssumption, ForkInv, ForkTyped', NEW f \in Forks,
         UNCHANGED <<Fork!source, Fork!request, up>>,
         \A g \in Forks \ {f} : /\ op'[g] = op[g] /\ forkPc'[g] = forkPc[g] /\ route'[g] = route[g]
                                /\ seed'[g] = seed[g] /\ dst'[g] = dst[g],
         \A k \in Keys : keyRow[k] # None => keyRow'[k] = keyRow[k],
         JournalOf(f)', HistoryOf(f)',
         route'[f] # "none" /\ forkKey[f] # None => keyRow'[forkKey[f]] = f,
         up /\ op'[f] \in {"seeded", "attachments_copied"} =>
           forkPc'[f] \in {"copy", "finalize"} \/ Fork!KeyTaken(f)'
  PROVE  ForkInv'
<1>0. /\ turn' = turn /\ forkMsgs' = forkMsgs /\ forkHist' = forkHist /\ forkKey' = forkKey
         /\ from' = from /\ plan' = plan /\ src' = src /\ when' = when
      /\ up' = up /\ None \notin Keys /\ None \notin Forks
      /\ \A g \in Forks : forkKey[g] # None => forkKey[g] \in Keys
  BY DEF Fork!source, Fork!request, Fork!SessionForksAssumption, ForkInv, ForkTyped
<1>1. Journal'
  BY <1>0 DEF ForkInv, Journal, JournalOf
<1>2. KeyIsMine'
  BY <1>0 DEF ForkInv, KeyIsMine
<1>3. PlanIsPrefix'
  BY <1>0 DEF ForkInv, PlanIsPrefix
<1>4. HistoryFollows'
  <2> SUFFICES ASSUME NEW g \in Forks \ {f}
               PROVE  HistoryOf(g)'
    BY DEF HistoryFollows
  <2>1. HistoryOf(g)
    BY DEF ForkInv, HistoryFollows
  <2> QED BY <1>0, <2>1 DEF HistoryOf, Has
<1>5. Fork!NothingStuck'
  <2> SUFFICES ASSUME NEW g \in Forks \ {f}, up, op[g] \in {"seeded", "attachments_copied"}
               PROVE  forkPc[g] \in {"copy", "finalize"} \/ Fork!KeyTaken(g)'
    BY <1>0 DEF Fork!NothingStuck
  <2>1. forkPc[g] \in {"copy", "finalize"} \/ Fork!KeyTaken(g)
    BY DEF ForkInv, Fork!NothingStuck
  <2> QED BY <1>0, <2>1 DEF Fork!KeyTaken
<1> QED BY <1>1, <1>2, <1>3, <1>4, <1>5 DEF ForkInv

(* The exported history has the turns of the plan that ran, as they ran in *)
(* the order of the messages.                                              *)
LEMMA SeedHas ==
  ASSUME Fork!SessionForksAssumption, SourceInv, ForkInv, NEW f \in Forks, ~Fork!Unavailable(f)
  PROVE  Fork!Seed(f) \in Seq(Turns) /\ Has(f, Fork!Seed(f))
<1> DEFINE h == forkHist[src[f]]
           n == Len(plan[f])
<1>0. /\ src[f] \in Fork!Gens /\ h \in Seq(Turns) /\ forkMsgs \in Seq(Turns)
      /\ plan[f] \in Seq(Turns) /\ Len(h) \in Nat /\ n \in Nat
  BY DEF SourceInv, SourceTyped, ForkInv, ForkTyped
<1>1. ASSUME NEW i \in 1..n, turn[plan[f][i]] = "completed", when[plan[f][i]] = src[f]
      PROVE  \E j \in 1..Len(h) : h[j] = plan[f][i] /\ j <= i
  <2>1. i \in 1..Len(forkMsgs) /\ plan[f][i] = forkMsgs[i] /\ plan[f][i] \in Turns
    BY <1>0 DEF ForkInv, PlanIsPrefix
  <2>2. PICK j \in 1..Len(h) : h[j] = plan[f][i]
    BY <1>1, <2>1 DEF SourceInv, RanInHistory
  <2> QED BY <1>0, <2>1, <2>2 DEF SourceInv, RunsInOrder
<1>2. CASE from[f] = None
  BY <1>0, <1>1, <1>2 DEF Fork!Seed, Has
<1>3. CASE from[f] # None
  <2>1. n <= Len(h)
    BY <1>0, <1>3 DEF Fork!Unavailable
  <2>2. /\ Fork!Seed(f) = SubSeq(h, 1, n)
    BY <1>3 DEF Fork!Seed
  <2> HIDE DEF n, h
  <2>3. /\ Fork!Seed(f) \in Seq(Turns) /\ Len(Fork!Seed(f)) = n
        /\ \A j \in 1..n : Fork!Seed(f)[j] = h[j]
    BY <1>0, <2>1, <2>2
  <2>4. ASSUME NEW i \in 1..n, turn[plan[f][i]] = "completed", when[plan[f][i]] = src[f]
        PROVE  \E j \in 1..Len(Fork!Seed(f)) : Fork!Seed(f)[j] = plan[f][i]
    <3>1. PICK j \in 1..Len(h) : h[j] = plan[f][i] /\ j <= i
      BY <1>1, <2>4
    <3>2. j \in 1..n
      BY <1>0, <2>1, <3>1
    <3> QED BY <2>3, <3>1, <3>2
  <2> QED BY <2>3, <2>4 DEF Has, n
<1> QED BY <1>2, <1>3

LEMMA ForkInvStep ==
  ASSUME Fork!SessionForksAssumption, SourceInv, ForkInv, [Fork!Next]_(Fork!vars)
  PROVE  ForkInv'
<1>0. /\ ForkTyped /\ Journal /\ KeyIsMine /\ PlanIsPrefix /\ HistoryFollows /\ Fork!NothingStuck
      /\ None \notin Keys /\ None \notin Turns /\ None \notin Forks
      /\ SourceTyped /\ SourceInv' /\ Grows
  BY SourceInvStep DEF ForkInv, SourceInv, Fork!SessionForksAssumption
<1>1. \A f \in Forks : /\ JournalOf(f) /\ HistoryOf(f)
                       /\ plan[f] \in Seq(Turns) /\ seed[f] \in Seq(Turns)
  BY <1>0 DEF Journal, HistoryFollows, ForkTyped
<1>2. \A f \in Forks : \A i \in 1..Len(plan[f]) :
        /\ plan[f][i] \in Turns /\ turn'[plan[f][i]] = turn[plan[f][i]]
        /\ when'[plan[f][i]] = when[plan[f][i]]
        /\ i \in 1..Len(forkMsgs') /\ plan[f][i] = forkMsgs'[i]
  <2> SUFFICES ASSUME NEW f \in Forks, NEW i \in 1..Len(plan[f])
               PROVE  /\ plan[f][i] \in Turns /\ turn'[plan[f][i]] = turn[plan[f][i]]
                      /\ when'[plan[f][i]] = when[plan[f][i]]
                      /\ i \in 1..Len(forkMsgs') /\ plan[f][i] = forkMsgs'[i]
    OBVIOUS
  <2>1. /\ i \in 1..Len(forkMsgs) /\ plan[f][i] = forkMsgs[i] /\ plan[f][i] \in Turns
        /\ turn[plan[f][i]] \in {"completed", "cancelled"}
    BY <1>0, <1>1 DEF PlanIsPrefix
  <2>2. Len(forkMsgs) \in Nat /\ Len(forkMsgs') \in Nat
    BY <1>0 DEF SourceInv, SourceTyped
  <2> QED BY <1>0, <2>1, <2>2 DEF Grows
<1>3. ASSUME UNCHANGED <<op, Fork!request, forkPc, seed, dst, route, keyRow, up>>
      PROVE  ForkInv'
  <2>1. forkKey' = forkKey /\ from' = from /\ plan' = plan /\ src' = src
    BY <1>3 DEF Fork!request
  <2>2. PlanIsPrefix'
    BY <1>0, <1>2, <2>1 DEF PlanIsPrefix
  <2>3. HistoryFollows'
    BY <1>0, <1>2, <1>3, <2>1 DEF HistoryFollows, HistoryOf, Has
  <2>4. ForkTyped' /\ Journal' /\ KeyIsMine' /\ Fork!NothingStuck'
    BY <1>0, <1>3, <2>1 DEF ForkTyped, Fork!TypeOK, Journal, JournalOf, KeyIsMine,
       Fork!NothingStuck, Fork!KeyTaken
  <2> QED BY <2>2, <2>3, <2>4 DEF ForkInv
<1>16. CASE Fork!StartGeneration
  BY <1>3, <1>16 DEF Fork!StartGeneration
<1>4. ASSUME NEW t \in Turns, Fork!Dispatch(t) \/ Fork!Execute(t) \/ Fork!Complete(t)
             \/ Fork!CancelQueued(t)
      PROVE  ForkInv'
  BY <1>3, <1>4 DEF Fork!Dispatch, Fork!Execute, Fork!Complete, Fork!CancelQueued
<1>5. ASSUME NEW f \in Forks, NEW k \in Keys \cup {None}, NEW t \in Turns \cup {None},
             Fork!BeginFork(f, k, t)
      PROVE  ForkInv'
  <2>1. /\ up /\ op[f] = "none" /\ op' = [op EXCEPT ![f] = "prepared"]
        /\ forkKey' = [forkKey EXCEPT ![f] = k] /\ from' = [from EXCEPT ![f] = t]
        /\ plan' = [plan EXCEPT ![f] = Fork!Upto(t)] /\ forkPc' = [forkPc EXCEPT ![f] = "export"]
        /\ src' = [src EXCEPT ![f] = forkGen] /\ forkGen \in Fork!Gens
        /\ UNCHANGED <<turn, forkMsgs, forkHist, when, seed, dst, route, keyRow, up>>
        /\ \A u \in Turns : turn[u] \in {"none", "completed", "cancelled"}
        /\ t \in Range(forkMsgs) \cup {None}
    BY <1>0, <1>5 DEF Fork!BeginFork, Fork!To, Fork!source, Fork!Range, Range, SourceTyped
  <2>2. /\ Fork!Upto(t) \in Seq(Turns) /\ Len(Fork!Upto(t)) \in Nat
        /\ \A i \in 1..Len(Fork!Upto(t)) : i \in 1..Len(forkMsgs) /\ Fork!Upto(t)[i] = forkMsgs[i]
    <3>0. forkMsgs \in Seq(Turns) /\ Len(forkMsgs) \in Nat
      BY <1>0 DEF SourceTyped
    <3>1. CASE t = None
      BY <3>0, <3>1 DEF Fork!Upto
    <3>2. CASE t # None
      <4> DEFINE p == Fork!Place(t)
      <4>1. p \in 1..Len(forkMsgs)
        <5>1. \E i \in 1..Len(forkMsgs) : forkMsgs[i] = t
          BY <2>1, <3>0, <3>2 DEF Range
        <5> QED BY <5>1 DEF Fork!Place
      <4>2. Fork!Upto(t) = SubSeq(forkMsgs, 1, p)
        BY <3>2 DEF Fork!Upto
      <4> HIDE DEF p
      <4>3. p \in Nat /\ 1 <= p /\ p <= Len(forkMsgs)
        BY <3>0, <4>1
      <4>4. /\ Fork!Upto(t) \in Seq(Turns) /\ Len(Fork!Upto(t)) = p
            /\ \A i \in 1..p : Fork!Upto(t)[i] = forkMsgs[i]
        BY <3>0, <4>2, <4>3
      <4> QED BY <3>0, <4>3, <4>4
    <3> QED BY <3>1, <3>2
  <2>3. \A i \in 1..Len(Fork!Upto(t)) : /\ Fork!Upto(t)[i] \in Turns
                                        /\ turn[Fork!Upto(t)[i]] \in {"completed", "cancelled"}
    <3>1. \A i \in 1..Len(forkMsgs) : forkMsgs[i] \in Turns /\ turn[forkMsgs[i]] # "none"
      BY <1>0, SourceElements DEF SourceInv, SentOnce
    <3> QED BY <2>1, <2>2, <3>1
  <2>4. /\ \A g \in Forks \ {f} : /\ op'[g] = op[g] /\ forkKey'[g] = forkKey[g]
                                     /\ plan'[g] = plan[g] /\ src'[g] = src[g]
                                  /\ forkPc'[g] = forkPc[g]
        /\ op'[f] = "prepared" /\ forkKey'[f] = k /\ plan'[f] = Fork!Upto(t)
            /\ forkPc'[f] = "export"
        /\ route[f] = "none"
    BY <1>0, <1>1, <2>1 DEF ForkTyped, Fork!TypeOK, JournalOf
  <2>5. ForkTyped'
    BY <1>0, <2>1, <2>2 DEF ForkTyped, Fork!TypeOK
  <2>6. Journal'
    BY <1>1, <2>1, <2>4 DEF Journal, JournalOf
  <2>7. KeyIsMine'
    BY <1>0, <2>1, <2>4 DEF KeyIsMine
  <2>8. PlanIsPrefix'
    BY <1>0, <2>1, <2>2, <2>3, <2>4 DEF PlanIsPrefix
  <2>9. HistoryFollows'
    <3>1. HistoryOf(f)'
      BY <2>4 DEF HistoryOf
    <3>2. ASSUME NEW g \in Forks \ {f}
          PROVE  HistoryOf(g)'
      <4>1. HistoryOf(g)
        BY <1>1
      <4>2. /\ op'[g] = op[g] /\ forkPc'[g] = forkPc[g] /\ seed'[g] = seed[g] /\ dst'[g] = dst[g]
            /\ plan'[g] = plan[g] /\ src'[g] = src[g] /\ turn' = turn /\ when' = when
        BY <2>1, <2>4
      <4>3. Has(g, seed[g])' = Has(g, seed[g]) /\ Has(g, dst[g])' = Has(g, dst[g])
        BY <4>2 DEF Has
      <4> QED BY <4>1, <4>2, <4>3 DEF HistoryOf
    <3> QED BY <3>1, <3>2 DEF HistoryFollows
  <2>10. Fork!NothingStuck'
    BY <1>0, <2>1, <2>4 DEF Fork!NothingStuck, Fork!KeyTaken
  <2> QED BY <2>5, <2>6, <2>7, <2>8, <2>9, <2>10 DEF ForkInv
<1>6. ASSUME NEW f \in Forks, Fork!Export(f)
      PROVE  ForkInv'
  <2>1. /\ forkPc[f] = "export" /\ UNCHANGED <<Fork!source, Fork!request, dst, route, keyRow, up>>
        /\ op[f] = "prepared" /\ route[f] = "none" /\ up
    BY <1>1, <1>6 DEF Fork!Export, JournalOf
  <2>2. CASE /\ ~Fork!Unavailable(f) /\ seed' = [seed EXCEPT ![f] = Fork!Seed(f)]
             /\ forkPc' = [forkPc EXCEPT ![f] = "import"] /\ op' = op
    <3>1. Fork!Seed(f) \in Seq(Turns) /\ Has(f, Fork!Seed(f))
      BY <2>2, SeedHas
    <3>2. ForkTyped' /\ seed'[f] = Fork!Seed(f) /\ forkPc'[f] = "import"
      BY <1>0, <2>1, <2>2, <3>1 DEF ForkTyped, Fork!TypeOK, Fork!request
    <3>3. JournalOf(f)'
      BY <1>1, <2>1, <2>2, <3>2 DEF JournalOf
    <3>4. HistoryOf(f)'
      BY <1>1, <2>1, <2>2, <3>1, <3>2 DEF HistoryOf, Has, Fork!source, Fork!request
    <3> QED BY <1>0, <2>1, <2>2, <3>2, <3>3, <3>4, OneFork DEF ForkTyped, Fork!TypeOK
  <2>3. CASE op' = [op EXCEPT ![f] = "failed"] /\ forkPc' = [forkPc EXCEPT ![f] = "ended"]
             /\ seed' = seed
    <3>1. ForkTyped' /\ op'[f] = "failed" /\ forkPc'[f] = "ended"
      BY <1>0, <2>1, <2>3 DEF ForkTyped, Fork!TypeOK, Fork!request
    <3>2. JournalOf(f)' /\ HistoryOf(f)'
      BY <2>1, <3>1 DEF JournalOf, HistoryOf
    <3> QED BY <1>0, <2>1, <2>3, <3>1, <3>2, OneFork DEF ForkTyped, Fork!TypeOK
  <2> QED BY <1>6, <2>2, <2>3 DEF Fork!Export, Fork!To
<1>7. ASSUME NEW f \in Forks, Fork!Import(f)
      PROVE  ForkInv'
  <2>1. /\ forkPc[f] = "import" /\ UNCHANGED <<Fork!source, Fork!request, seed, route, keyRow, up>>
        /\ op[f] = "prepared" /\ route[f] = "none" /\ Has(f, seed[f]) /\ up
        /\ DOMAIN dst = Forks
    BY <1>0, <1>1, <1>7 DEF Fork!Import, JournalOf, HistoryOf, ForkTyped
  <2>2. CASE /\ dst' = [dst EXCEPT ![f] = seed[f]] /\ op' = op
             /\ forkPc' = [forkPc EXCEPT ![f] = "imported"]
    <3>1. ForkTyped' /\ dst'[f] = seed[f] /\ forkPc'[f] = "imported"
      BY <1>0, <2>1, <2>2 DEF ForkTyped, Fork!TypeOK, Fork!request
    <3>2. JournalOf(f)'
      BY <1>1, <2>1, <2>2, <3>1 DEF JournalOf
    <3>3. HistoryOf(f)'
      BY <1>1, <2>1, <2>2, <3>1 DEF HistoryOf, Has, Fork!source, Fork!request
    <3> QED BY <1>0, <2>1, <2>2, <3>1, <3>2, <3>3, OneFork DEF ForkTyped, Fork!TypeOK
  <2>3. CASE /\ op' = [op EXCEPT ![f] = "failed"] /\ forkPc' = [forkPc EXCEPT ![f] = "ended"]
             /\ \E x : dst' = [dst EXCEPT ![f] = x]
    <3>1. ForkTyped' /\ op'[f] = "failed" /\ forkPc'[f] = "ended"
      BY <1>0, <2>1, <2>3 DEF ForkTyped, Fork!TypeOK, Fork!request
    <3>2. JournalOf(f)' /\ HistoryOf(f)'
      BY <2>1, <3>1 DEF JournalOf, HistoryOf
    <3> QED BY <1>0, <2>1, <2>3, <3>1, <3>2, OneFork DEF ForkTyped, Fork!TypeOK
  <2> QED BY <1>7, <2>2, <2>3 DEF Fork!Import, Fork!To
<1>8. ASSUME NEW f \in Forks, Fork!MarkSeeded(f) \/ Fork!Copy(f)
      PROVE  ForkInv'
  <2>1. /\ UNCHANGED <<Fork!source, Fork!request, seed, dst, route, keyRow, up>>
           /\ route[f] = "none" /\ up
        /\ forkPc[f] \in {"imported", "copy"}
    BY <1>1, <1>8 DEF Fork!MarkSeeded, Fork!Copy, JournalOf
  <2>2. dst[f] \in Seq(Turns) /\ Has(f, dst[f]) /\ Has(f, seed[f])
    BY <1>1, <2>1 DEF HistoryOf
  <2>3. /\ dst'[f] \in Seq(Turns) /\ Has(f, dst[f])' /\ Has(f, seed[f])'
    BY <2>1, <2>2 DEF Has, Fork!source, Fork!request
  <2>4. PICK o \in {"seeded", "attachments_copied", "failed"}, c \in {"copy", "finalize", "ended"} :
          /\ op' = [op EXCEPT ![f] = o] /\ forkPc' = [forkPc EXCEPT ![f] = c]
          /\ c = "copy" => o = "seeded"
          /\ c = "finalize" => o = "attachments_copied"
          /\ c = "ended" => o = "failed"
    BY <1>8 DEF Fork!MarkSeeded, Fork!Copy, Fork!To
  <2>5. ForkTyped' /\ op'[f] = o /\ forkPc'[f] = c
    BY <1>0, <2>1, <2>4 DEF ForkTyped, Fork!TypeOK, Fork!request
  <2>6. JournalOf(f)' /\ HistoryOf(f)'
    BY <2>1, <2>3, <2>4, <2>5 DEF JournalOf, HistoryOf
  <2> QED BY <1>0, <2>1, <2>4, <2>5, <2>6, OneFork DEF ForkTyped, Fork!TypeOK

<1>9. ASSUME NEW f \in Forks, Fork!Commit(f), UNCHANGED <<Fork!source, Fork!request, seed, dst,
             up>>,
             forkPc' = [forkPc EXCEPT ![f] = "ended"], op[f] \in {"seeded", "attachments_copied"}
      PROVE  ForkInv'
  <2>1. /\ ~Fork!KeyTaken(f) /\ route' = [route EXCEPT ![f] = "active"]
        /\ op' = [op EXCEPT ![f] = "finalized"]
        /\ IF forkKey[f] = None THEN keyRow' = keyRow ELSE keyRow' = [keyRow EXCEPT ![forkKey[f]] = f]
        /\ forkKey[f] \in Keys \cup {None}
    BY <1>0, <1>9 DEF Fork!Commit, Fork!To, ForkTyped
  <2>2. dst[f] \in Seq(Turns) /\ Has(f, dst[f])'
    <3>1. dst[f] \in Seq(Turns) /\ Has(f, dst[f])
      BY <1>1, <1>9 DEF HistoryOf
    <3> QED BY <1>9, <3>1 DEF Has, Fork!source, Fork!request
  <2>3. ForkTyped' /\ op'[f] = "finalized" /\ forkPc'[f] = "ended"
    <3>1. keyRow' \in [Keys -> Forks \cup {None}]
      BY <1>0, <2>1 DEF ForkTyped, Fork!TypeOK
    <3>2. Fork!TypeOK' /\ op'[f] = "finalized" /\ forkPc'[f] = "ended"
      BY <1>0, <1>9, <2>1, <3>1 DEF ForkTyped, Fork!TypeOK
    <3> QED BY <1>0, <1>9, <3>2 DEF ForkTyped, Fork!request
  <2>4. JournalOf(f)' /\ HistoryOf(f)'
    BY <1>9, <2>2, <2>3 DEF JournalOf, HistoryOf
  <2>5. /\ \A k \in Keys : keyRow[k] # None => keyRow'[k] = keyRow[k]
        /\ forkKey[f] # None => keyRow'[forkKey[f]] = f
    BY <1>0, <2>1 DEF Fork!KeyTaken, ForkTyped, Fork!TypeOK
  <2> QED BY <1>0, <1>9, <2>1, <2>3, <2>4, <2>5, OneFork DEF ForkTyped, Fork!TypeOK
<1>10. ASSUME NEW f \in Forks, Fork!Finalize(f)
       PROVE  ForkInv'
  <2>1. /\ forkPc[f] = "finalize" /\ forkPc' = [forkPc EXCEPT ![f] = "ended"]
           /\ op[f] = "attachments_copied"
        /\ UNCHANGED <<Fork!source, Fork!request, seed, dst, up>> /\ up
    BY <1>1, <1>10 DEF Fork!Finalize, Fork!To, JournalOf
  <2>2. CASE Fork!Commit(f)
    BY <1>9, <2>1, <2>2
  <2>3. CASE Fork!KeyTaken(f) /\ UNCHANGED <<op, route, keyRow>>
    <3>1. ForkTyped' /\ forkPc'[f] = "ended"
      BY <1>0, <2>1, <2>3 DEF ForkTyped, Fork!TypeOK, Fork!request
    <3>2. JournalOf(f)'
      BY <1>1, <2>1, <2>3, <3>1 DEF JournalOf
    <3>3. HistoryOf(f)'
      BY <1>1, <2>1, <2>3, <3>1 DEF HistoryOf, Has, Fork!source, Fork!request
    <3>4. Fork!KeyTaken(f)'
      BY <2>1, <2>3 DEF Fork!KeyTaken, Fork!request
    <3> QED BY <1>0, <2>1, <2>3, <3>1, <3>2, <3>3, <3>4, OneFork DEF ForkTyped,
               Fork!TypeOK, KeyIsMine
  <2> QED BY <1>10, <2>2, <2>3 DEF Fork!Finalize
<1>11. ASSUME NEW f \in Forks, Fork!Reconcile(f)
       PROVE  ForkInv'
  <2>1. /\ ~up /\ op[f] \in {"seeded", "attachments_copied"} /\ route[f] = "none"
        /\ forkPc[f] = "ended" /\ forkPc' = forkPc /\ UNCHANGED <<Fork!source, Fork!request, seed,
            dst, up>>
    BY <1>1, <1>11 DEF Fork!Reconcile, Fork!Pending, JournalOf
  <2>2. CASE Fork!Commit(f)
    <3>1. forkPc' = [forkPc EXCEPT ![f] = "ended"]
      BY <1>0, <2>1 DEF ForkTyped, Fork!TypeOK
    <3> QED BY <1>9, <2>1, <2>2, <3>1
  <2>3. CASE op' = [op EXCEPT ![f] = "failed"] /\ UNCHANGED <<route, keyRow>>
    <3>1. ForkTyped' /\ op'[f] = "failed"
      BY <1>0, <2>1, <2>3 DEF ForkTyped, Fork!TypeOK, Fork!request
    <3>2. JournalOf(f)' /\ HistoryOf(f)'
      BY <2>1, <2>3, <3>1 DEF JournalOf, HistoryOf
    <3> QED BY <1>0, <2>1, <2>3, <3>1, <3>2, OneFork DEF ForkTyped, Fork!TypeOK
  <2> QED BY <1>11, <2>2, <2>3 DEF Fork!Reconcile, Fork!To
<1>12. CASE Fork!ArchiveSpace
  <2>1. /\ UNCHANGED <<op, forkPc, seed, dst, keyRow, up, forkKey, from, plan, src, turn, forkMsgs,
           forkHist, when>>
        /\ route' = [f \in Forks |-> IF route[f] = "active" THEN "archived" ELSE route[f]]
    BY <1>12 DEF Fork!ArchiveSpace, Fork!source, Fork!request
  <2>2. /\ route' \in [Forks -> {"none", "active", "archived"}]
        /\ \A f \in Forks : route'[f] # "none" => route[f] # "none"
    BY <1>0, <2>1 DEF ForkTyped, Fork!TypeOK
  <2>3. ForkTyped' /\ KeyIsMine' /\ Journal'
    BY <1>0, <2>1, <2>2 DEF ForkTyped, Fork!TypeOK, KeyIsMine, Journal, JournalOf
  <2>4. PlanIsPrefix' /\ HistoryFollows' /\ Fork!NothingStuck'
    BY <1>0, <2>1 DEF PlanIsPrefix, HistoryFollows, HistoryOf, Has, Fork!NothingStuck,
       Fork!KeyTaken
  <2> QED BY <2>3, <2>4 DEF ForkInv
<1>13. CASE Fork!Crash
  <2>1. /\ UNCHANGED <<op, seed, dst, keyRow, route, forkKey, from, plan, src, turn, forkMsgs,
           forkHist, when>> /\ ~up'
        /\ forkPc' = [f \in Forks |-> IF forkPc[f] = "none" THEN "none" ELSE "ended"]
    BY <1>13 DEF Fork!Crash, Fork!source, Fork!request
  <2>2. ForkTyped' /\ KeyIsMine' /\ PlanIsPrefix'
    BY <1>0, <2>1 DEF ForkTyped, Fork!TypeOK, KeyIsMine, PlanIsPrefix
  <2>3. Journal' /\ Fork!NothingStuck'
    BY <1>0, <2>1 DEF Journal, JournalOf, Fork!NothingStuck
  <2>4. HistoryFollows'
    BY <1>0, <2>1 DEF HistoryFollows, HistoryOf, Has
  <2> QED BY <2>2, <2>3, <2>4 DEF ForkInv
<1>14. CASE Fork!Listen
  <2>1. /\ UNCHANGED <<op, forkPc, seed, dst, keyRow, route, forkKey, from, plan, src, turn,
           forkMsgs,
           forkHist, when>>
        /\ \A f \in Forks : op[f] \notin {"seeded", "attachments_copied"}
    BY <1>14 DEF Fork!Listen, Fork!source, Fork!request, Fork!Pending
  <2>2. ForkTyped' /\ KeyIsMine' /\ PlanIsPrefix'
    BY <1>0, <2>1 DEF ForkTyped, Fork!TypeOK, KeyIsMine, PlanIsPrefix
  <2>3. Journal' /\ Fork!NothingStuck'
    BY <1>0, <1>14, <2>1 DEF Fork!Listen, Journal, JournalOf, Fork!NothingStuck
  <2>4. HistoryFollows'
    BY <1>0, <2>1 DEF HistoryFollows, HistoryOf, Has
  <2> QED BY <2>2, <2>3, <2>4 DEF ForkInv
<1>15. CASE UNCHANGED Fork!vars
  BY <1>3, <1>15 DEF Fork!vars
<1> QED
  BY <1>4, <1>5, <1>6, <1>7, <1>8, <1>10, <1>11, <1>12, <1>13, <1>14, <1>15, <1>16
  DEF Fork!Next, Fork!Step

-----------------------------------------------------------------------------
(* Requests with one key make one session; a session that was made has in  *)
(* the runtime every turn that ran, in the generation the fork was planned *)
(* of, among those it shows; and a fork whose history was imported is      *)
(* taken to its end by its request or by the next start, whatever turns,   *)
(* resets of the source, faults and stops come between (forkSession and    *)
(* reconcilePendingOperations).                                            *)
THEOREM ForksAreComplete == Fork!SessionForksAssumption => (Fork!Spec => []Fork!ForksComplete)
<1> SUFFICES ASSUME Fork!SessionForksAssumption
             PROVE  Fork!Spec => []Fork!ForksComplete
  OBVIOUS
<1> DEFINE IInv == SourceInv /\ ForkInv
<1>1. Fork!Init => IInv
  BY SourceInvInit, ForkInvInit
<1>2. IInv /\ [Fork!Next]_(Fork!vars) => IInv'
  BY SourceInvStep, ForkInvStep
<1>3. IInv => Fork!ForksComplete
  BY ForkInvIsComplete
<1> QED BY <1>1, <1>2, <1>3, PTL DEF Fork!Spec

-----------------------------------------------------------------------------
(* The inductive invariant.                                                *)

Recovery == [pc : {"none", "begun", "copied", "ended"}, gen : {0} \cup Life!Gens,
             from : {0} \cup Life!Ids, to : {0} \cup Life!Ids, replay : BOOLEAN]

Begun == {c \in Calls : call[c].pc # "none"}
Waiting == {c \in Calls : call[c].pc \in {"begun", "copied"}}

StateTyped ==
  /\ Life!TypeOK
  /\ call \in [Calls -> Recovery] /\ sessionHist \in [Life!Ids -> SUBSET Turns]
  /\ at \in [Turns -> {0} \cup Life!Ids] /\ ran \in [Turns -> {"no", "ok", "corrupt"}]
  /\ kept \subseteq Turns
  /\ \A t \in Turns : run[t] = "running" => at[t] \in Life!Ids

(* An id is given out by a new generation or by a call.                    *)
IdsCounted == sessionUsed <= gen + Cardinality(Begun)

(* Rows hold ids that were given out, and only generations that were made  *)
(* are flagged.                                                            *)
RowsKnown ==
  /\ \A g \in Life!Gens : genRow[g] <= sessionUsed
  /\ \A g \in flag : g <= gen

(* A call makes at most the next generation, with an id of its own.        *)
CallsApart ==
  /\ \A c \in Begun : /\ call[c].gen \in Life!Gens /\ call[c].gen <= gen + 1
                      /\ call[c].to \in Life!Ids /\ call[c].to <= sessionUsed
                      /\ call[c].from \in Life!Ids
  /\ \A c \in Waiting, g \in Life!Gens : genRow[g] # call[c].to
  /\ \A c, d \in Begun : call[c].to = call[d].to => c = d

(* One turn runs, none of a generation that is flagged.                    *)
OneRuns ==
  /\ \A t, u \in Turns : run[t] = "running" /\ run[u] = "running" => t = u
  /\ gen \in flag => \A t \in Turns : run[t] # "running"
  /\ \A t \in Turns : run[t] \in {"none", "queued"} => ran[t] = "no"

(* A call that can still be committed was begun of the flagged generation, *)
(* and what it copied has the turns that were answered.                    *)
RecoversFlagged ==
  \A c \in Waiting :
    call[c].gen = gen + 1 =>
      /\ gen \in flag /\ call[c].from = dsh
      /\ call[c].pc = "copied" => kept \subseteq Life!ValidPrefix(call[c].to)

RanIsInHistory ==
  \A t \in Turns : run[t] = "running" /\ ran[t] = "ok" => t \in Life!ValidPrefix(dsh)

NumbersInv == StateTyped /\ IdsCounted /\ RowsKnown /\ CallsApart /\ Life!GenerationsAgree
LifeInv == NumbersInv /\ Life!ArchivedIsIdle /\ OneRuns
TurnsInv == RecoversFlagged /\ RanIsInHistory /\ Life!HistoryKeepsTurns

-----------------------------------------------------------------------------
(* The cardinality the module uses is that of the library.                 *)
LEMMA LifeCardinality ==
  \A S : /\ Life!Cardinality(S) = Cardinality(S)
         /\ Life!IsFiniteSet(S) <=> IsFiniteSet(S)
BY DEF Life!Cardinality, Cardinality, Life!IsFiniteSet, IsFiniteSet

(* Numbers.                                                                *)

LEMMA GensIds ==
  ASSUME Life!SessionLifecycleAssumption
  PROVE  /\ Cardinality(Calls) \in Nat /\ MaxGen \in Nat /\ 1 <= MaxGen
         /\ Life!Gens \subseteq Nat /\ Life!Ids \subseteq Nat
         /\ \A g \in Nat : g \in Life!Gens <=> 1 <= g /\ g <= MaxGen
         /\ \A i \in Nat : i \in Life!Ids <=> 1 <= i /\ i <= MaxGen + Cardinality(Calls)
         /\ 0 \notin Life!Gens /\ 0 \notin Life!Ids /\ 1 \in Life!Gens /\ 1 \in Life!Ids
<1>1. Cardinality(Calls) \in Nat
  BY FS_CardinalityType, LifeCardinality DEF Life!SessionLifecycleAssumption
<1>2. QED
  BY <1>1, LifeCardinality DEF Life!SessionLifecycleAssumption, Life!Gens, Life!Ids

(* Calls are counted.                                                      *)
LEMMA BegunCounted ==
  ASSUME Life!SessionLifecycleAssumption
  PROVE  Cardinality(Begun) \in Nat /\ Cardinality(Begun) <= Cardinality(Calls)
<1>1. PICK B : B = Begun
  OBVIOUS
<1>2. B \subseteq Calls /\ IsFiniteSet(Calls)
  BY <1>1, LifeCardinality DEF Begun, Life!SessionLifecycleAssumption
<1>3. IsFiniteSet(B) /\ Cardinality(B) <= Cardinality(Calls)
  BY <1>2, FS_Subset
<1>4. Cardinality(B) \in Nat
  BY <1>3, FS_CardinalityType
<1>5. QED
  BY <1>1, <1>3, <1>4

(* Damage is at a place.                                                   *)
LEMMA TurnsCounted ==
  ASSUME Life!SessionLifecycleAssumption
  PROVE  \A n \in 1..(Life!Cardinality(Turns) + 1) : n \in Nat
BY FS_CardinalityType, LifeCardinality DEF Life!SessionLifecycleAssumption

(* A generation that is made finds an id, and so does a call.              *)
LEMMA RoomForGeneration ==
  ASSUME Life!SessionLifecycleAssumption, NumbersInv, gen < MaxGen
  PROVE  gen + 1 \in Life!Gens /\ sessionUsed + 1 \in Life!Ids
BY GensIds, BegunCounted DEF NumbersInv, StateTyped, Life!TypeOK, IdsCounted

LEMMA RoomForCall ==
  ASSUME Life!SessionLifecycleAssumption, NumbersInv, NEW c \in Calls,
         call[c].pc = "none", call'[c].pc # "none",
         \A d \in Calls \ {c} : call'[d].pc = call[d].pc
  PROVE  Cardinality(Begun') = Cardinality(Begun) + 1
<1>1. PICK B, D : B = Begun /\ D = Begun'
  OBVIOUS
<1>2. D = B \cup {c} /\ c \notin B /\ B \subseteq Calls /\ IsFiniteSet(Calls)
  BY <1>1, LifeCardinality DEF Begun, Life!SessionLifecycleAssumption
<1>3. IsFiniteSet(B)
  BY <1>2, FS_Subset
<1>4. Cardinality(D) = Cardinality(B) + 1
  BY <1>2, <1>3, FS_AddElement
<1>5. QED
  BY <1>1, <1>4

-----------------------------------------------------------------------------
LEMMA LifeInvInit ==
  ASSUME Life!SessionLifecycleAssumption, Life!Init
  PROVE  LifeInv /\ TurnsInv
<1>1. StateTyped
  BY GensIds DEF Life!Init, StateTyped, Life!TypeOK, Life!Corrupt, Life!Idle, Recovery
<1>2. IdsCounted /\ RowsKnown /\ CallsApart
  BY GensIds, BegunCounted DEF Life!Init, IdsCounted, RowsKnown, CallsApart, Life!Idle,
     Begun, Waiting
<1>3. Life!GenerationsAgree
  BY GensIds DEF Life!Init, Life!GenerationsAgree
<1>4. Life!ArchivedIsIdle /\ OneRuns /\ TurnsInv
  BY GensIds DEF Life!Init, Life!ArchivedIsIdle, OneRuns, TurnsInv, RecoversFlagged,
     RanIsInHistory,
                 Life!HistoryKeepsTurns, Waiting, Life!Idle
<1>5. QED
  BY <1>1, <1>2, <1>3, <1>4 DEF LifeInv, NumbersInv

-----------------------------------------------------------------------------
(* Steps of turns, of archiving and of restoring make no generation.       *)
LEMMA NumbersKept ==
  ASSUME Life!SessionLifecycleAssumption, NumbersInv, StateTyped',
         UNCHANGED <<gen, dsh, genRow, sessionUsed, call>>, flag' \subseteq flag \cup {gen}
  PROVE  NumbersInv'
<1>1. Begun' = Begun /\ Waiting' = Waiting
  BY DEF Begun, Waiting
<1>2. gen \in Nat
  BY GensIds DEF NumbersInv, StateTyped, Life!TypeOK
<1>3. IdsCounted' /\ RowsKnown' /\ Life!GenerationsAgree'
  BY <1>1, <1>2 DEF NumbersInv, IdsCounted, RowsKnown, Life!GenerationsAgree
<1>4. CallsApart'
  BY <1>1 DEF NumbersInv, CallsApart
<1>5. QED
  BY <1>3, <1>4 DEF NumbersInv

(* A new generation has a row of its own.                                  *)
LEMMA MakesGeneration ==
  ASSUME Life!SessionLifecycleAssumption, NumbersInv, NEW id \in Life!Ids,
         gen + 1 \in Life!Gens, Life!NewGeneration(gen + 1, id), sessionUsed' \in Nat,
             sessionUsed <= sessionUsed', id <= sessionUsed',
         \A g \in Life!Gens : genRow[g] # id, flag' \subseteq flag
  PROVE  Life!GenerationsAgree' /\ RowsKnown' /\ gen' = gen + 1 /\ dsh' = id
         /\ gen' \in Life!Gens /\ dsh' \in Life!Ids /\ genRow' \in [Life!Gens -> {0} \cup Life!Ids]
         /\ \A g \in Life!Gens : genRow'[g] = IF g = gen + 1 THEN id ELSE genRow[g]
<1>1. /\ gen' = gen + 1 /\ dsh' = id /\ genRow' \in [Life!Gens -> {0} \cup Life!Ids]
      /\ \A g \in Life!Gens : genRow'[g] = IF g = gen + 1 THEN id ELSE genRow[g]
  BY DEF Life!NewGeneration, NumbersInv, StateTyped, Life!TypeOK
<1>2. gen \in Nat /\ sessionUsed \in Nat /\ \A g \in Life!Gens : genRow[g] \in Nat /\ g \in Nat
  BY GensIds DEF NumbersInv, StateTyped, Life!TypeOK
<1>3. id \in Nat /\ id # 0
  BY GensIds
<1>4. \A g \in Life!Gens : genRow'[g] <= sessionUsed'
  BY <1>1, <1>2, <1>3 DEF NumbersInv, RowsKnown
<1>5. \A g \in flag' : g <= gen'
  BY <1>1, <1>2 DEF NumbersInv, RowsKnown, StateTyped, Life!TypeOK
<1>6. \A g \in Life!Gens : genRow'[g] # 0 <=> g <= gen'
  BY <1>1, <1>2, <1>3 DEF NumbersInv, Life!GenerationsAgree
<1>7. ASSUME NEW g \in 1..gen', NEW h \in 1..gen', genRow'[g] = genRow'[h]
      PROVE  g = h
  <2>1. g \in Life!Gens /\ h \in Life!Gens /\ g <= gen + 1 /\ h <= gen + 1 /\ 1 <= g /\ 1 <= h
    BY <1>1, <1>2, <1>7, GensIds
  <2>2. CASE g # gen + 1 /\ h # gen + 1
    BY <1>1, <1>2, <1>7, <2>1, <2>2 DEF NumbersInv, Life!GenerationsAgree
  <2>3. QED
    BY <1>1, <1>7, <2>1, <2>2
<1>8. genRow'[gen'] = dsh'
  BY <1>1
<1>9. QED
  BY <1>1, <1>4, <1>5, <1>6, <1>7, <1>8 DEF Life!GenerationsAgree, RowsKnown

(* The next generation, of a reset or of a fresh start.                    *)
LEMMA NextGeneration ==
  ASSUME Life!SessionLifecycleAssumption, NumbersInv, gen < MaxGen,
         Life!NewGeneration(gen + 1, sessionUsed + 1), sessionUsed' = sessionUsed + 1,
             flag' \subseteq flag,
         UNCHANGED <<call, Life!hists, at, ran>>, kept' = {},
             {sessionSpace', status'} \subseteq {"active", "archived"},
         run' \in [Turns -> {"none", "queued", "running", "completed", "failed", "interrupted"}],
         lease' \in [Turns -> {"none", "active", "blocked", "released"}],
         \A t \in Turns : run'[t] = "running" => run[t] = "running"
  PROVE  NumbersInv' /\ gen' = gen + 1 /\ dsh' = sessionUsed + 1
<1>1. gen + 1 \in Life!Gens /\ sessionUsed + 1 \in Life!Ids
  BY RoomForGeneration
<1>2. gen \in Nat /\ sessionUsed \in Nat /\ \A g \in Life!Gens : genRow[g] \in Nat
        /\ genRow[g] <= sessionUsed
  BY GensIds DEF NumbersInv, StateTyped, Life!TypeOK, RowsKnown
<1>3. \A g \in Life!Gens : genRow[g] # sessionUsed + 1
  BY <1>2
<1>4. /\ Life!GenerationsAgree' /\ RowsKnown' /\ gen' = gen + 1 /\ dsh' = sessionUsed + 1
      /\ gen' \in Life!Gens /\ dsh' \in Life!Ids /\ genRow' \in [Life!Gens -> {0} \cup Life!Ids]
      /\ \A g \in Life!Gens : genRow'[g] = IF g = gen + 1 THEN sessionUsed + 1 ELSE genRow[g]
  <2>1. PICK id \in Life!Ids : id = sessionUsed + 1
    BY <1>1
  <2>2. Life!NewGeneration(gen + 1, id) /\ \A g \in Life!Gens : genRow[g] # id
    BY <2>1, <1>3
  <2>3. sessionUsed' \in Nat /\ sessionUsed <= sessionUsed' /\ id <= sessionUsed'
    BY <1>2, <2>1
  <2>4. /\ Life!GenerationsAgree' /\ RowsKnown' /\ gen' = gen + 1 /\ dsh' = id
        /\ gen' \in Life!Gens /\ dsh' \in Life!Ids /\ genRow' \in [Life!Gens -> {0} \cup Life!Ids]
        /\ \A g \in Life!Gens : genRow'[g] = IF g = gen + 1 THEN id ELSE genRow[g]
    BY <1>1, <2>2, <2>3, MakesGeneration
  <2>5. QED
    BY <2>1, <2>4
<1>5. StateTyped'
  BY <1>1, <1>4 DEF NumbersInv, StateTyped, Life!TypeOK, Life!Corrupt, Life!hists
<1>6. Begun' = Begun /\ Waiting' = Waiting
  BY DEF Begun, Waiting
<1>7. IdsCounted'
  BY <1>2, <1>4, <1>6, BegunCounted DEF NumbersInv, IdsCounted
<1>8. CallsApart'
  <2>1. ASSUME NEW c \in Begun
        PROVE  call[c].to \in Nat /\ call[c].to <= sessionUsed /\ call[c].gen \in Nat
               /\ call[c].gen <= gen + 1
    BY <2>1, GensIds DEF NumbersInv, CallsApart
  <2>2. ASSUME NEW c \in Begun
        PROVE  /\ call'[c].gen \in Life!Gens /\ call'[c].gen <= gen' + 1
               /\ call'[c].to \in Life!Ids /\ call'[c].to <= sessionUsed'
                   /\ call'[c].from \in Life!Ids
    BY <2>1, <2>2, <1>2, <1>4 DEF NumbersInv, CallsApart
  <2>3. ASSUME NEW c \in Waiting, NEW g \in Life!Gens
        PROVE  genRow'[g] # call'[c].to
    <3>1. c \in Begun
      BY <2>3 DEF Waiting, Begun
    <3>2. call[c].to # sessionUsed + 1
      BY <3>1, <2>1, <1>2
    <3>3. QED
      BY <3>2, <1>4 DEF NumbersInv, CallsApart
  <2>4. QED
    BY <1>6, <2>2, <2>3 DEF NumbersInv, CallsApart
<1>9. QED
  BY <1>4, <1>5, <1>7, <1>8 DEF NumbersInv

(* Types of what a recovery releases and interrupts.                       *)
LEMMA Interrupted ==
  ASSUME Life!TypeOK, Life!InterruptQueued
  PROVE  /\ run' \in [Turns -> {"none", "queued", "running", "completed", "failed", "interrupted"}]
         /\ \A t \in Turns : /\ run'[t] = "running" <=> run[t] = "running"
                             /\ run'[t] # "queued"
                             /\ run'[t] \in {"none", "queued", "running"} => run'[t] = run[t]
BY DEF Life!TypeOK, Life!InterruptQueued

LEMMA Released ==
  ASSUME Life!TypeOK, Life!Release
  PROVE  lease' \in [Turns -> {"none", "active", "blocked", "released"}]
BY DEF Life!TypeOK, Life!Release

LEMMA ResetNumbers ==
  ASSUME Life!SessionLifecycleAssumption, NumbersInv, NEW k \in Keys, Life!ResetFresh(k)
  PROVE  NumbersInv' /\ gen' = gen + 1 /\ dsh' = sessionUsed + 1
<1>1. /\ gen < MaxGen /\ Life!NewGeneration(gen + 1, sessionUsed + 1)
         /\ sessionUsed' = sessionUsed + 1 /\ kept' = {}
      /\ UNCHANGED <<sessionSpace, status, flag, call, Life!hists, at, ran, run, lease>>
  BY DEF Life!ResetFresh, Life!route, Life!turns, Life!calls
<1>2. /\ {sessionSpace', status'} \subseteq {"active", "archived"}
      /\ run' \in [Turns -> {"none", "queued", "running", "completed", "failed", "interrupted"}]
      /\ lease' \in [Turns -> {"none", "active", "blocked", "released"}]
      /\ \A t \in Turns : run'[t] = "running" => run[t] = "running"
  BY <1>1 DEF NumbersInv, StateTyped, Life!TypeOK
<1>3. flag' \subseteq flag /\ UNCHANGED <<call, Life!hists, at, ran>>
  BY <1>1
<1>4. QED
  BY <1>1, <1>2, <1>3, NextGeneration

LEMMA FreshNumbers ==
  ASSUME Life!SessionLifecycleAssumption, NumbersInv, Life!StartNewGeneration
  PROVE  NumbersInv' /\ gen' = gen + 1 /\ dsh' = sessionUsed + 1
<1>1. /\ gen < MaxGen /\ Life!NewGeneration(gen + 1, sessionUsed + 1)
         /\ sessionUsed' = sessionUsed + 1 /\ kept' = {}
      /\ flag' = {} /\ Life!Release /\ Life!InterruptQueued
      /\ UNCHANGED <<sessionSpace, status, call, Life!hists, at, ran>>
  BY DEF Life!StartNewGeneration, Life!route, Life!calls
<1>2. Life!TypeOK
  BY DEF NumbersInv, StateTyped
<1>3. /\ {sessionSpace', status'} \subseteq {"active", "archived"}
      /\ run' \in [Turns -> {"none", "queued", "running", "completed", "failed", "interrupted"}]
      /\ lease' \in [Turns -> {"none", "active", "blocked", "released"}]
      /\ \A t \in Turns : run'[t] = "running" => run[t] = "running"
  BY <1>1, <1>2, Interrupted, Released DEF Life!TypeOK
<1>4. flag' \subseteq flag /\ UNCHANGED <<call, Life!hists, at, ran>>
  BY <1>1
<1>5. QED
  BY <1>1, <1>3, <1>4, NextGeneration

(* A call commits the next generation, or finds its row taken.             *)
LEMMA CommitNumbers ==
  ASSUME Life!SessionLifecycleAssumption, NumbersInv, NEW c \in Calls, Life!CommitRecovery(c)
  PROVE  /\ NumbersInv' /\ gen' = gen + 1 /\ dsh' = call[c].to /\ call[c].gen = gen + 1
         /\ \A d \in Calls : d # c => call'[d] = call[d]
         /\ call'[c].pc = "ended" /\ c \in Waiting
         /\ \A t \in Turns : /\ run'[t] = "running" <=> run[t] = "running"
                             /\ run'[t] \in {"none", "queued", "running"} => run'[t] = run[t]
<1>1. /\ call[c].pc = "copied" /\ Life!NewGeneration(call[c].gen, call[c].to)
      /\ flag' = {} /\ Life!Release /\ (UNCHANGED run \/ Life!InterruptQueued)
      /\ call' = [call EXCEPT ![c].pc = "ended"]
      /\ UNCHANGED <<sessionSpace, status, sessionUsed, files, sessionHist, damage, at, ran,
          kept>>
  BY DEF Life!CommitRecovery, Life!route, Life!hists
<1>2. Life!TypeOK /\ call \in [Calls -> Recovery]
  BY DEF NumbersInv, StateTyped
<1>3. c \in Waiting /\ c \in Begun
  BY <1>1 DEF Waiting, Begun
<1>4. /\ call[c].gen \in Life!Gens /\ call[c].gen <= gen + 1
      /\ call[c].to \in Life!Ids /\ call[c].to <= sessionUsed
          /\ \A g \in Life!Gens : genRow[g] # call[c].to
  BY <1>3 DEF NumbersInv, CallsApart
<1>5. gen \in Nat /\ sessionUsed \in Nat /\ call[c].gen \in Nat
  BY <1>2, <1>4, GensIds DEF Life!TypeOK
<1>6. call[c].gen = gen + 1
  <2>1. genRow[call[c].gen] = 0
    BY <1>1 DEF Life!NewGeneration
  <2>2. ~(call[c].gen <= gen)
    BY <2>1, <1>4 DEF NumbersInv, Life!GenerationsAgree
  <2>3. QED
    BY <2>2, <1>4, <1>5
<1>7. /\ Life!GenerationsAgree' /\ RowsKnown' /\ gen' = gen + 1 /\ dsh' = call[c].to
      /\ gen' \in Life!Gens /\ dsh' \in Life!Ids /\ genRow' \in [Life!Gens -> {0} \cup Life!Ids]
      /\ \A g \in Life!Gens : genRow'[g] = IF g = gen + 1 THEN call[c].to ELSE genRow[g]
  <2>1. PICK id \in Life!Ids : id = call[c].to
    BY <1>4
  <2>2. Life!NewGeneration(gen + 1, id) /\ (\A g \in Life!Gens : genRow[g] # id)
          /\ gen + 1 \in Life!Gens
    BY <2>1, <1>1, <1>4, <1>6
  <2>3. sessionUsed' \in Nat /\ sessionUsed <= sessionUsed' /\ id <= sessionUsed'
          /\ flag' \subseteq flag
    BY <1>1, <1>4, <1>5, <2>1
  <2>4. /\ Life!GenerationsAgree' /\ RowsKnown' /\ gen' = gen + 1 /\ dsh' = id
        /\ gen' \in Life!Gens /\ dsh' \in Life!Ids /\ genRow' \in [Life!Gens -> {0} \cup Life!Ids]
        /\ \A g \in Life!Gens : genRow'[g] = IF g = gen + 1 THEN id ELSE genRow[g]
    BY <2>2, <2>3, MakesGeneration
  <2>5. QED
    BY <2>1, <2>4
<1>8. /\ run' \in [Turns -> {"none", "queued", "running", "completed", "failed", "interrupted"}]
      /\ \A t \in Turns : /\ run'[t] = "running" <=> run[t] = "running"
                          /\ run'[t] \in {"none", "queued", "running"} => run'[t] = run[t]
  <2>1. CASE UNCHANGED run
    BY <1>2, <2>1 DEF Life!TypeOK
  <2>2. CASE Life!InterruptQueued
    BY <1>2, <2>2, Interrupted
  <2>3. QED
    BY <1>1, <2>1, <2>2
<1>9. lease' \in [Turns -> {"none", "active", "blocked", "released"}]
  BY <1>1, <1>2, Released
<1>10. /\ call' \in [Calls -> Recovery] /\ call'[c].pc = "ended"
       /\ \A d \in Calls : /\ call'[d].gen = call[d].gen /\ call'[d].to = call[d].to
                           /\ call'[d].from = call[d].from
                           /\ d # c => call'[d] = call[d]
  BY <1>1, <1>2 DEF Recovery
<1>11. StateTyped'
  BY <1>1, <1>7, <1>8, <1>9, <1>10 DEF NumbersInv, StateTyped, Life!TypeOK, Life!Corrupt
<1>12. Begun' = Begun /\ Waiting' = Waiting \ {c}
  BY <1>1, <1>10 DEF Begun, Waiting
<1>13. IdsCounted'
  BY <1>1, <1>5, <1>7, <1>12, BegunCounted DEF NumbersInv, IdsCounted
<1>14. CallsApart'
  <2>1. ASSUME NEW d \in Begun
        PROVE  /\ call'[d].gen \in Life!Gens /\ call'[d].gen <= gen' + 1
               /\ call'[d].to \in Life!Ids /\ call'[d].to <= sessionUsed'
                   /\ call'[d].from \in Life!Ids
    <3>1. d \in Calls /\ call[d].gen \in Life!Gens /\ call[d].gen <= gen + 1
            /\ call[d].to \in Life!Ids
          /\ call[d].to <= sessionUsed /\ call[d].from \in Life!Ids /\ call[d].gen \in Nat
      BY <2>1, GensIds DEF NumbersInv, CallsApart, Begun
    <3>2. call[d].gen <= gen' + 1
      BY <3>1, <1>5, <1>7
    <3>3. QED
      BY <3>1, <3>2, <1>1, <1>10
  <2>2. ASSUME NEW d \in Waiting \ {c}, NEW g \in Life!Gens
        PROVE  genRow'[g] # call'[d].to
    <3>1. d \in Begun /\ d \in Calls
      BY <2>2 DEF Waiting, Begun
    <3>2. call[d].to # call[c].to /\ genRow[g] # call[d].to
      BY <3>1, <1>3, <2>2 DEF NumbersInv, CallsApart
    <3>3. QED
      BY <3>1, <3>2, <1>7, <1>10
  <2>3. ASSUME NEW d \in Begun, NEW e \in Begun, call'[d].to = call'[e].to
        PROVE  d = e
    BY <2>3, <1>10 DEF NumbersInv, CallsApart, Begun
  <2>4. QED
    BY <1>12, <2>1, <2>2, <2>3 DEF CallsApart
<1>15. QED
  BY <1>3, <1>6, <1>7, <1>8, <1>10, <1>11, <1>13, <1>14 DEF NumbersInv

(* A call takes the next id; it is of no row and of no other call.         *)
LEMMA BeginNumbers ==
  ASSUME Life!SessionLifecycleAssumption, NumbersInv, NEW c \in Calls, NEW replay \in BOOLEAN,
         Life!BeginRecovery(c, replay)
  PROVE  /\ NumbersInv'
         /\ call'[c].pc = "begun" /\ call'[c].from = dsh
         /\ \A d \in Calls : d # c => call'[d] = call[d]
<1>1. /\ call[c].pc = "none" /\ gen < MaxGen /\ sessionUsed' = sessionUsed + 1
      /\ call' = [call EXCEPT ![c] = [pc |-> "begun", gen |-> gen + 1, from |-> dsh,
                                      to |-> sessionUsed + 1, replay |-> replay]]
      /\ UNCHANGED <<sessionSpace, status, gen, dsh, genRow, files, sessionHist, damage, run, at,
          ran, lease, flag, kept>>
  BY DEF Life!BeginRecovery, Life!route, Life!hists, Life!turns
<1>2. gen + 1 \in Life!Gens /\ sessionUsed + 1 \in Life!Ids
  BY <1>1, RoomForGeneration
<1>3. /\ gen \in Nat /\ sessionUsed \in Nat /\ dsh \in Life!Ids /\ call \in [Calls -> Recovery]
      /\ \A g \in Life!Gens : genRow[g] \in Nat /\ genRow[g] <= sessionUsed
  BY GensIds DEF NumbersInv, StateTyped, Life!TypeOK, RowsKnown
<1>4. /\ call' \in [Calls -> Recovery] /\ \A d \in Calls : d # c => call'[d] = call[d]
      /\ call'[c].pc = "begun" /\ call'[c].gen = gen + 1 /\ call'[c].from = dsh
      /\ call'[c].to = sessionUsed + 1
  BY <1>1, <1>2, <1>3 DEF Recovery
<1>5. StateTyped'
  BY <1>1, <1>2, <1>4 DEF NumbersInv, StateTyped, Life!TypeOK, Life!Corrupt
<1>6. Begun' = Begun \cup {c} /\ Waiting' = Waiting \cup {c} /\ c \notin Begun
  BY <1>1, <1>4 DEF Begun, Waiting
<1>7. IdsCounted'
  <2>1. Cardinality(Begun') = Cardinality(Begun) + 1
    BY <1>1, <1>4, RoomForCall
  <2>2. QED
    BY <1>1, <1>3, <2>1, BegunCounted DEF NumbersInv, IdsCounted
<1>8. Life!GenerationsAgree' /\ RowsKnown'
  BY <1>1, <1>3 DEF NumbersInv, Life!GenerationsAgree, RowsKnown
<1>9. ASSUME NEW d \in Begun
      PROVE  /\ d \in Calls /\ d # c /\ call'[d] = call[d]
             /\ call[d].gen \in Life!Gens /\ call[d].gen <= gen + 1
             /\ call[d].to \in Life!Ids /\ call[d].to \in Nat /\ call[d].to <= sessionUsed
             /\ call[d].from \in Life!Ids
  BY <1>4, <1>6, <1>9, GensIds DEF NumbersInv, CallsApart, Begun
<1>10. CallsApart'
  <2>1. ASSUME NEW d \in Begun \cup {c}
        PROVE  /\ call'[d].gen \in Life!Gens /\ call'[d].gen <= gen' + 1
               /\ call'[d].to \in Life!Ids /\ call'[d].to <= sessionUsed'
                   /\ call'[d].from \in Life!Ids
    <3>1. CASE d = c
      BY <3>1, <1>1, <1>2, <1>3, <1>4
    <3>2. CASE d \in Begun
      BY <3>2, <1>1, <1>3, <1>9
    <3>3. QED
      BY <3>1, <3>2
  <2>2. ASSUME NEW d \in Waiting \cup {c}, NEW g \in Life!Gens
        PROVE  genRow'[g] # call'[d].to
    <3>1. CASE d = c
      BY <3>1, <1>1, <1>3, <1>4
    <3>2. CASE d \in Waiting
      <4>1. d \in Begun
        BY <3>2 DEF Waiting, Begun
      <4>2. QED
        BY <3>2, <4>1, <1>1, <1>9 DEF NumbersInv, CallsApart
    <3>3. QED
      BY <3>1, <3>2
  <2>3. ASSUME NEW d \in Begun \cup {c}, NEW e \in Begun \cup {c}, call'[d].to = call'[e].to
        PROVE  d = e
    <3>1. CASE d \in Begun /\ e \in Begun
      BY <3>1, <2>3, <1>9 DEF NumbersInv, CallsApart
    <3>2. CASE d \in Begun /\ e = c
      BY <3>2, <2>3, <1>3, <1>4, <1>9
    <3>3. CASE d = c /\ e \in Begun
      BY <3>3, <2>3, <1>3, <1>4, <1>9
    <3>4. QED
      BY <3>1, <3>2, <3>3
  <2>4. QED
    BY <1>6, <2>1, <2>2, <2>3 DEF CallsApart
<1>11. QED
  BY <1>4, <1>5, <1>7, <1>8, <1>10 DEF NumbersInv

(* A call that copies or ends keeps its generation and its ids.            *)
LEMMA CallKeepsIds ==
  ASSUME Life!SessionLifecycleAssumption, NumbersInv, StateTyped', NEW c \in Calls,
         NEW p \in {"copied", "ended"},
         c \in Waiting, call' = [call EXCEPT ![c].pc = p],
         UNCHANGED <<gen, dsh, genRow, sessionUsed, flag>>
  PROVE  /\ NumbersInv' /\ Waiting' \subseteq Waiting
         /\ \A d \in Calls : /\ call'[d].gen = call[d].gen /\ call'[d].to = call[d].to
                             /\ call'[d].from = call[d].from
                             /\ d # c => call'[d] = call[d]
         /\ call'[c].pc = p
<1>1. /\ \A d \in Calls : /\ call'[d].gen = call[d].gen /\ call'[d].to = call[d].to
                          /\ call'[d].from = call[d].from
                          /\ d # c => call'[d] = call[d]
      /\ call'[c].pc = p
  BY DEF NumbersInv, StateTyped, Recovery
<1>2. Begun' = Begun /\ Waiting' \subseteq Waiting /\ Begun \subseteq Calls
        /\ Waiting \subseteq Calls
  BY <1>1 DEF Begun, Waiting
<1>3. IdsCounted' /\ Life!GenerationsAgree' /\ RowsKnown'
  BY <1>2 DEF NumbersInv, IdsCounted, Life!GenerationsAgree, RowsKnown
<1>4. CallsApart'
  BY <1>1, <1>2 DEF NumbersInv, CallsApart
<1>5. QED
  BY <1>1, <1>2, <1>3, <1>4 DEF NumbersInv

LEMMA CopyNumbers ==
  ASSUME Life!SessionLifecycleAssumption, NumbersInv, NEW c \in Calls, Life!CopyPrefix(c)
  PROVE  /\ NumbersInv' /\ Waiting' \subseteq Waiting /\ c \in Waiting
         /\ \A d \in Calls : /\ call'[d].gen = call[d].gen /\ call'[d].to = call[d].to
                             /\ call'[d].from = call[d].from
                             /\ d # c => call'[d] = call[d]
<1>1. /\ call[c].pc = "begun" /\ call' = [call EXCEPT ![c].pc = "copied"]
      /\ files' = files \cup {call[c].to}
      /\ sessionHist' = [sessionHist EXCEPT ![call[c].to] = Life!ValidPrefix(call[c].from)]
      /\ damage' = [damage EXCEPT ![call[c].to] = 0]
      /\ UNCHANGED <<sessionSpace, status, gen, dsh, genRow, sessionUsed, run, at, ran,
          lease, flag, kept>>
  BY DEF Life!CopyPrefix, Life!route, Life!turns
<1>2. c \in Waiting /\ c \in Begun
  BY <1>1 DEF Waiting, Begun
<1>3. call[c].to \in Life!Ids /\ call[c].from \in Life!Ids
  BY <1>2 DEF NumbersInv, CallsApart
<1>4. call' \in [Calls -> Recovery]
  BY <1>1 DEF NumbersInv, StateTyped, Recovery
<1>5. StateTyped'
  BY <1>1, <1>3, <1>4 DEF NumbersInv, StateTyped, Life!TypeOK, Life!Corrupt, Life!ValidPrefix
<1>6. QED
  BY <1>1, <1>2, <1>5, CallKeepsIds

LEMMA FailsNumbers ==
  ASSUME Life!SessionLifecycleAssumption, NumbersInv, NEW c \in Calls, Life!RecoveryFails(c)
  PROVE  /\ NumbersInv' /\ Waiting' \subseteq Waiting
         /\ \A d \in Calls : /\ call'[d].gen = call[d].gen /\ call'[d].to = call[d].to
                             /\ call'[d].from = call[d].from
                             /\ d # c => call'[d] = call[d]
         /\ call'[c].pc = "ended"
<1>1. /\ call[c].pc \in {"begun", "copied"} /\ call' = [call EXCEPT ![c].pc = "ended"]
      /\ UNCHANGED <<sessionSpace, status, gen, dsh, genRow, sessionUsed, files, sessionHist,
          damage, run, at, ran, lease, flag, kept>>
  BY DEF Life!RecoveryFails, Life!route, Life!hists, Life!turns
<1>2. c \in Waiting
  BY <1>1 DEF Waiting
<1>3. call' \in [Calls -> Recovery]
  BY <1>1 DEF NumbersInv, StateTyped, Recovery
<1>4. StateTyped'
  BY <1>1, <1>3 DEF NumbersInv, StateTyped, Life!TypeOK, Life!Corrupt
<1>5. QED
  BY <1>1, <1>2, <1>4, CallKeepsIds

-----------------------------------------------------------------------------
(* The step cases of Next.                                                 *)
LEMMA LifeInvStep ==
  ASSUME Life!SessionLifecycleAssumption, LifeInv, [Life!Next]_(Life!vars)
  PROVE  LifeInv'
<1>0. NumbersInv /\ StateTyped /\ Life!TypeOK /\ Life!ArchivedIsIdle /\ OneRuns /\ RowsKnown
        /\ gen \in Nat
  BY GensIds DEF LifeInv, NumbersInv, StateTyped, Life!TypeOK
<1>1. ASSUME NEW t \in Turns, Life!Dispatch(t)
      PROVE  LifeInv'
  <2>1. /\ run[t] = "none" /\ status = "active" /\ sessionSpace = "active"
        /\ run' = [run EXCEPT ![t] = "queued"]
        /\ UNCHANGED <<sessionSpace, status, gen, dsh, genRow, sessionUsed, files, sessionHist,
            damage, at, ran, lease, flag, call, kept>>
    BY <1>1 DEF Life!Dispatch, Life!route, Life!hists, Life!calls
  <2>2. StateTyped'
    BY <1>0, <2>1 DEF StateTyped, Life!TypeOK, Life!Corrupt
  <2>3. NumbersInv'
    BY <1>0, <2>1, <2>2, NumbersKept
  <2>4. Life!ArchivedIsIdle'
    BY <2>1 DEF Life!ArchivedIsIdle
  <2>5. OneRuns'
    BY <1>0, <2>1 DEF OneRuns, Life!TypeOK
  <2>6. QED
    BY <2>3, <2>4, <2>5 DEF LifeInv
<1>2. ASSUME NEW t \in Turns, Life!Claim(t)
      PROVE  LifeInv'
  <2>1. /\ run[t] = "queued" /\ \A u \in Turns : run[u] # "running"
        /\ status = "active" /\ sessionSpace = "active" /\ gen \notin flag
        /\ run' = [run EXCEPT ![t] = "running"] /\ lease' = [lease EXCEPT ![t] = "active"]
        /\ at' = [at EXCEPT ![t] = dsh]
        /\ UNCHANGED <<sessionSpace, status, gen, dsh, genRow, sessionUsed, files, sessionHist,
            damage, ran, flag, call, kept>>
    BY <1>2 DEF Life!Claim, Life!route, Life!hists, Life!calls
  <2>2. StateTyped'
    BY <1>0, <2>1 DEF StateTyped, Life!TypeOK, Life!Corrupt
  <2>3. NumbersInv'
    BY <1>0, <2>1, <2>2, NumbersKept
  <2>4. Life!ArchivedIsIdle'
    BY <2>1 DEF Life!ArchivedIsIdle
  <2>5. OneRuns'
    BY <1>0, <2>1 DEF OneRuns, Life!TypeOK
  <2>6. QED
    BY <2>3, <2>4, <2>5 DEF LifeInv
<1>3. ASSUME NEW t \in Turns, Life!Execute(t)
      PROVE  LifeInv'
  <2>1. /\ run[t] = "running" /\ at[t] \in Life!Ids
        /\ files' = files \cup {at[t]}
        /\ damage' = damage \/ \E n \in Nat : damage' = [damage EXCEPT ![at[t]] = n]
        /\ sessionHist' = sessionHist \/ sessionHist' = [sessionHist EXCEPT ![at[t]] = @ \cup {t}]
        /\ ran' = [ran EXCEPT ![t] = "ok"] \/ ran' = [ran EXCEPT ![t] = "corrupt"]
        /\ kept' \subseteq kept
        /\ UNCHANGED <<sessionSpace, status, gen, dsh, genRow, sessionUsed, run, at, lease, flag,
            call>>
    BY <1>0, <1>3, TurnsCounted DEF Life!Execute, Life!route, Life!calls, StateTyped
  <2>2. StateTyped'
    BY <1>0, <2>1 DEF StateTyped, Life!TypeOK, Life!Corrupt
  <2>3. NumbersInv'
    BY <1>0, <2>1, <2>2, NumbersKept
  <2>4. Life!ArchivedIsIdle'
    BY <1>0, <2>1 DEF Life!ArchivedIsIdle, Life!Active
  <2>5. OneRuns'
    BY <1>0, <2>1 DEF OneRuns, Life!TypeOK, StateTyped
  <2>6. QED
    BY <2>3, <2>4, <2>5 DEF LifeInv
<1>4. ASSUME NEW t \in Turns, Life!Complete(t)
      PROVE  LifeInv'
  <2>1. /\ run[t] = "running" /\ run' = [run EXCEPT ![t] = "completed"]
        /\ lease' = [lease EXCEPT ![t] = "released"] /\ kept' = kept \cup {t}
        /\ UNCHANGED <<sessionSpace, status, gen, dsh, genRow, sessionUsed, files, sessionHist,
            damage, at, ran, flag, call>>
    BY <1>4 DEF Life!Complete, Life!route, Life!hists, Life!calls
  <2>2. StateTyped'
    BY <1>0, <2>1 DEF StateTyped, Life!TypeOK, Life!Corrupt
  <2>3. NumbersInv'
    BY <1>0, <2>1, <2>2, NumbersKept
  <2>4. Life!ArchivedIsIdle'
    BY <1>0, <2>1 DEF Life!ArchivedIsIdle, Life!Active, Life!TypeOK
  <2>5. OneRuns'
    BY <1>0, <2>1 DEF OneRuns, Life!TypeOK
  <2>6. QED
    BY <2>3, <2>4, <2>5 DEF LifeInv
<1>5. ASSUME NEW t \in Turns, Life!Fail(t)
      PROVE  LifeInv'
  <2>1. /\ run[t] = "running" /\ run' = [run EXCEPT ![t] = "failed"]
        /\ lease' = [lease EXCEPT ![t] = "blocked"] /\ flag' = flag \cup {gen}
        /\ UNCHANGED <<sessionSpace, status, gen, dsh, genRow, sessionUsed, files, sessionHist,
            damage, at, ran, call, kept>>
    BY <1>5 DEF Life!Fail, Life!route, Life!hists, Life!calls
  <2>2. StateTyped'
    BY <1>0, <2>1 DEF StateTyped, Life!TypeOK, Life!Corrupt
  <2>3. NumbersInv'
    BY <1>0, <2>1, <2>2, NumbersKept
  <2>4. Life!ArchivedIsIdle'
    BY <1>0, <2>1 DEF Life!ArchivedIsIdle, Life!Active, Life!TypeOK
  <2>5. OneRuns'
    BY <1>0, <2>1 DEF OneRuns, Life!TypeOK
  <2>6. QED
    BY <2>3, <2>4, <2>5 DEF LifeInv
<1>6. ASSUME NEW k \in Keys, Life!ResetFresh(k)
      PROVE  LifeInv'
  <2>1. UNCHANGED <<sessionSpace, status, run, ran, flag>>
    BY <1>6 DEF Life!ResetFresh, Life!route, Life!turns
  <2>2. NumbersInv' /\ gen' = gen + 1
    BY <1>0, <1>6, ResetNumbers
  <2>3. Life!ArchivedIsIdle'
    BY <1>0, <2>1 DEF Life!ArchivedIsIdle, Life!Active
  <2>4. gen' \notin flag'
    BY <1>0, <2>1, <2>2 DEF RowsKnown
  <2>5. OneRuns'
    BY <1>0, <2>1, <2>4 DEF OneRuns
  <2>6. QED
    BY <2>2, <2>3, <2>5 DEF LifeInv
<1>7. ASSUME Life!StartNewGeneration
      PROVE  LifeInv'
  <2>1. UNCHANGED <<sessionSpace, status, ran>> /\ flag' = {} /\ Life!InterruptQueued
    BY <1>7 DEF Life!StartNewGeneration, Life!route
  <2>2. NumbersInv'
    BY <1>0, <1>7, FreshNumbers
  <2>3. \A t \in Turns : /\ run'[t] = "running" <=> run[t] = "running"
                         /\ run'[t] # "queued"
                         /\ run'[t] \in {"none", "queued", "running"} => run'[t] = run[t]
    BY <1>0, <2>1, Interrupted
  <2>4. Life!ArchivedIsIdle'
    BY <1>0, <2>1, <2>3 DEF Life!ArchivedIsIdle, Life!Active
  <2>5. OneRuns'
    BY <1>0, <2>1, <2>3 DEF OneRuns
  <2>6. QED
    BY <2>2, <2>4, <2>5 DEF LifeInv
<1>8. ASSUME NEW c \in Calls, Life!CommitRecovery(c)
      PROVE  LifeInv'
  <2>1. UNCHANGED <<sessionSpace, status, ran>> /\ flag' = {}
    BY <1>8 DEF Life!CommitRecovery, Life!route
  <2>2. /\ NumbersInv'
        /\ \A t \in Turns : /\ run'[t] = "running" <=> run[t] = "running"
                            /\ run'[t] \in {"none", "queued", "running"} => run'[t] = run[t]
    BY <1>0, <1>8, CommitNumbers
  <2>3. Life!ArchivedIsIdle'
    BY <1>0, <2>1, <2>2 DEF Life!ArchivedIsIdle, Life!Active
  <2>4. OneRuns'
    BY <1>0, <2>1, <2>2 DEF OneRuns
  <2>5. QED
    BY <2>2, <2>3, <2>4 DEF LifeInv
<1>9. ASSUME NEW c \in Calls, NEW replay \in BOOLEAN, Life!BeginRecovery(c, replay)
      PROVE  LifeInv'
  <2>1. UNCHANGED <<sessionSpace, status, gen, run, ran, flag>>
    BY <1>9 DEF Life!BeginRecovery, Life!route, Life!turns
  <2>2. NumbersInv'
    BY <1>0, <1>9, BeginNumbers
  <2>3. QED
    BY <1>0, <2>1, <2>2 DEF LifeInv, Life!ArchivedIsIdle, Life!Active, OneRuns
<1>10. ASSUME NEW c \in Calls, Life!CopyPrefix(c) \/ Life!RecoveryFails(c)
       PROVE  LifeInv'
  <2>1. UNCHANGED <<sessionSpace, status, gen, run, ran, flag>>
    BY <1>10 DEF Life!CopyPrefix, Life!RecoveryFails, Life!route, Life!turns
  <2>2. NumbersInv'
    BY <1>0, <1>10, CopyNumbers, FailsNumbers
  <2>3. QED
    BY <1>0, <2>1, <2>2 DEF LifeInv, Life!ArchivedIsIdle, Life!Active, OneRuns
<1>11. ASSUME UNCHANGED <<gen, dsh, genRow, sessionUsed, Life!hists, Life!turns, flag, call, kept>>,
              /\ {sessionSpace', status'} \subseteq {"active", "archived"}
              /\ Life!Active = {} \/ status' = status \/ status' = "active"
              /\ Life!Active = {} \/ sessionSpace' = sessionSpace \/ sessionSpace' = "active"
       PROVE  LifeInv'
  <2>1. UNCHANGED <<files, sessionHist, damage, run, at, ran, lease>>
    BY <1>11 DEF Life!hists, Life!turns
  <2>2. StateTyped'
    BY <1>0, <1>11, <2>1 DEF StateTyped, Life!TypeOK, Life!Corrupt
  <2>3. NumbersInv'
    BY <1>0, <1>11, <2>2, NumbersKept
  <2>4. Life!ArchivedIsIdle'
    BY <1>0, <1>11, <2>1 DEF Life!ArchivedIsIdle, Life!Active
  <2>5. OneRuns'
    BY <1>0, <1>11, <2>1 DEF OneRuns
  <2>6. QED
    BY <2>3, <2>4, <2>5 DEF LifeInv
<1>12. CASE \E k \in Keys : Life!ResetAgain(k)
  BY <1>0, <1>11, <1>12 DEF Life!ResetAgain, Life!route, Life!calls, Life!TypeOK
<1>13. CASE Life!ArchiveSession \/ Life!ArchiveSpace
  BY <1>0, <1>11, <1>13 DEF Life!ArchiveSession, Life!ArchiveSpace, Life!calls,
     Life!TypeOK
<1>14. CASE Life!RestoreSpace \/ Life!BeginRestore \/ Life!EndRestore
  BY <1>0, <1>11, <1>14 DEF Life!RestoreSpace, Life!BeginRestore, Life!EndRestore,
     Life!route, Life!calls, Life!TypeOK
<1>15. CASE UNCHANGED Life!vars
  BY <1>0, <1>11, <1>15 DEF Life!vars, Life!route, Life!calls, Life!TypeOK
<1>16. QED
  BY <1>1, <1>2, <1>3, <1>4, <1>5, <1>6, <1>7, <1>8, <1>9, <1>10, <1>12, <1>13, <1>14,
     <1>15
     DEF Life!Next

(* A new generation: nothing runs, no call can be committed any more, and  *)
(* its history has what is kept.                                           *)
LEMMA NewGenerationKeeps ==
  ASSUME Life!SessionLifecycleAssumption, LifeInv, gen' = gen + 1,
         UNCHANGED <<sessionHist, damage, place>>,
         Waiting' \subseteq Waiting,
         \A d \in Waiting' : call'[d] = call[d],
         \A t \in Turns : run'[t] # "running", kept' \subseteq Life!ValidPrefix(dsh)'
  PROVE  TurnsInv'
<1>1. gen \in Nat
  BY GensIds DEF LifeInv, NumbersInv, StateTyped, Life!TypeOK
<1>2. ASSUME NEW d \in Waiting'
      PROVE  call'[d].gen # gen' + 1
  <2>1. d \in Begun
    BY <1>2 DEF Waiting, Begun
  <2>2. call[d].gen \in Nat /\ call[d].gen <= gen + 1
    BY <2>1, GensIds DEF LifeInv, NumbersInv, CallsApart
  <2>3. QED
    BY <1>1, <1>2, <2>2
<1>3. QED
  BY <1>2 DEF TurnsInv, RecoversFlagged, RanIsInHistory, Life!HistoryKeepsTurns

LEMMA TurnsInvStep ==
  ASSUME Life!SessionLifecycleAssumption, ~Anytime, LifeInv, TurnsInv, [Life!Next]_(Life!vars)
  PROVE  TurnsInv'
<1>0. /\ NumbersInv /\ StateTyped /\ OneRuns /\ CallsApart /\ dsh \in Life!Ids
      /\ sessionHist \in [Life!Ids -> SUBSET Turns] /\ ran \in [Turns -> {"no", "ok", "corrupt"}]
      /\ run \in [Turns -> {"none", "queued", "running", "completed", "failed", "interrupted"}]
      /\ at \in [Turns -> {0} \cup Life!Ids]
      /\ RecoversFlagged /\ RanIsInHistory /\ Life!HistoryKeepsTurns
  BY DEF LifeInv, NumbersInv, StateTyped, Life!TypeOK, TurnsInv
<1>1. ASSUME NEW t \in Turns, Life!Dispatch(t)
      PROVE  TurnsInv'
  <2>1. /\ run[t] = "none" /\ run' = [run EXCEPT ![t] = "queued"]
        /\ UNCHANGED <<gen, dsh, Life!hists, at, ran, flag, call, kept>>
    BY <1>1 DEF Life!Dispatch, Life!hists, Life!calls
  <2>2. \A u \in Turns : run'[u] = "running" => run[u] = "running"
    BY <1>0, <2>1
  <2>3. QED
    BY <1>0, <2>1, <2>2 DEF TurnsInv, RecoversFlagged, RanIsInHistory,
       Life!HistoryKeepsTurns, Life!ValidPrefix, Life!Before, Life!hists, Waiting
<1>2. ASSUME NEW t \in Turns, Life!Claim(t)
      PROVE  TurnsInv'
  <2>1. /\ run[t] = "queued" /\ run' = [run EXCEPT ![t] = "running"] /\ at' = [at EXCEPT ![t] = dsh]
        /\ UNCHANGED <<gen, dsh, Life!hists, ran, flag, call, kept>>
    BY <1>2 DEF Life!Claim, Life!hists, Life!calls
  <2>2. ran[t] = "no"
    BY <1>0, <2>1 DEF OneRuns
  <2>3. \A u \in Turns \ {t} : run'[u] = run[u] /\ at'[u] = at[u]
    BY <1>0, <2>1
  <2>4. at'[t] = dsh
    BY <1>0, <2>1
  <2>5. QED
    BY <1>0, <2>1, <2>2, <2>3, <2>4 DEF TurnsInv, RecoversFlagged, RanIsInHistory,
       Life!HistoryKeepsTurns, Life!ValidPrefix, Life!Before, Life!hists, Waiting
<1>3. ASSUME NEW t \in Turns, Life!Execute(t)
      PROVE  TurnsInv'
  <2>1. run[t] = "running" /\ ran[t] = "no" /\ UNCHANGED <<gen, dsh, run, at, flag, call>>
    BY <1>3 DEF Life!Execute, Life!calls
  <2>2. at[t] = dsh /\ gen \notin flag /\ \A u \in Turns \ {t} : run[u] # "running"
    BY <1>0, <2>1 DEF Life!HistoryKeepsTurns, OneRuns
  <2>3. RecoversFlagged'
    BY <1>0, <2>1, <2>2 DEF RecoversFlagged, Waiting
  <2>4. CASE /\ damage[dsh] = 0 /\ UNCHANGED <<damage, kept>>
             /\ sessionHist' = [sessionHist EXCEPT ![dsh] = @ \cup {t}]
             /\ ran' = [ran EXCEPT ![t] = "ok"]
    <3>1. Life!ValidPrefix(dsh)' = sessionHist[dsh] \cup {t}
          /\ Life!ValidPrefix(dsh) = sessionHist[dsh]
      BY <1>0, <2>1, <2>4 DEF Life!ValidPrefix, Life!Before
    <3>2. QED
      BY <1>0, <2>1, <2>2, <2>3, <2>4, <3>1 DEF TurnsInv, RanIsInHistory, Life!HistoryKeepsTurns
  <2>5. CASE ran' = [ran EXCEPT ![t] = "corrupt"] /\ kept' \subseteq Life!ValidPrefix(dsh)'
    BY <1>0, <2>1, <2>2, <2>3, <2>5 DEF TurnsInv, RanIsInHistory, Life!HistoryKeepsTurns
  <2>6. \/ /\ damage[dsh] = 0 /\ UNCHANGED <<damage, kept>>
           /\ sessionHist' = [sessionHist EXCEPT ![dsh] = @ \cup {t}]
           /\ ran' = [ran EXCEPT ![t] = "ok"]
        \/ /\ ran' = [ran EXCEPT ![t] = "corrupt"] /\ UNCHANGED <<sessionHist, place>>
           /\ \/ UNCHANGED <<damage, kept>>
              \/ \E n \in Nat : /\ damage' = [damage EXCEPT ![dsh] = n]
                               /\ kept' = kept \ {u \in sessionHist[dsh] : ~Life!Before(u, n)}
    BY <1>0, <1>3, <2>2, TurnsCounted DEF Life!Execute, Life!Corrupt
  <2>7. ASSUME UNCHANGED <<sessionHist, place, damage, kept, dsh>>
        PROVE  kept' \subseteq Life!ValidPrefix(dsh)'
    BY <1>0, <2>7 DEF Life!HistoryKeepsTurns, Life!ValidPrefix, Life!Before
  <2>8. ASSUME UNCHANGED <<sessionHist, place, dsh>>,
               NEW n \in Nat, damage' = [damage EXCEPT ![dsh] = n],
               kept' = kept \ {u \in sessionHist[dsh] : ~Life!Before(u, n)}
        PROVE  kept' \subseteq Life!ValidPrefix(dsh)'
    <3>1. damage'[dsh] = n /\ kept \subseteq sessionHist[dsh]
      BY <1>0, <2>8 DEF Life!HistoryKeepsTurns, Life!ValidPrefix, StateTyped, Life!TypeOK
    <3>2. Life!ValidPrefix(dsh)' = {u \in sessionHist[dsh] : Life!Before(u, n)}
      BY <2>8, <3>1 DEF Life!ValidPrefix, Life!Before
    <3>3. QED
      BY <2>8, <3>1, <3>2
  <2>9. QED
    BY <2>1, <2>4, <2>5, <2>6, <2>7, <2>8
<1>4. ASSUME NEW t \in Turns, Life!Complete(t)
      PROVE  TurnsInv'
  <2>1. /\ run[t] = "running" /\ ran[t] = "ok" /\ run' = [run EXCEPT ![t] = "completed"]
        /\ kept' = kept \cup {t} /\ UNCHANGED <<gen, dsh, Life!hists, at, ran, flag, call>>
    BY <1>4 DEF Life!Complete, Life!hists, Life!calls
  <2>2. gen \notin flag
    BY <1>0, <2>1 DEF OneRuns
  <2>3. t \in Life!ValidPrefix(dsh)
    BY <1>0, <2>1 DEF RanIsInHistory
  <2>4. \A u \in Turns : run'[u] = "running" => run[u] = "running"
    BY <1>0, <2>1
  <2>5. Waiting' = Waiting
    BY <2>1 DEF Waiting
  <2>6. QED
    BY <1>0, <2>1, <2>2, <2>3, <2>4, <2>5 DEF TurnsInv, RecoversFlagged, RanIsInHistory,
       Life!HistoryKeepsTurns, Life!ValidPrefix, Life!Before, Life!hists
<1>5. ASSUME NEW t \in Turns, Life!Fail(t)
      PROVE  TurnsInv'
  <2>1. /\ run' = [run EXCEPT ![t] = "failed"] /\ flag' = flag \cup {gen}
        /\ UNCHANGED <<gen, dsh, Life!hists, at, ran, call, kept>>
    BY <1>5 DEF Life!Fail, Life!hists, Life!calls
  <2>2. \A u \in Turns : run'[u] = "running" => run[u] = "running"
    BY <1>0, <2>1
  <2>3. Waiting' = Waiting
    BY <2>1 DEF Waiting
  <2>4. QED
    BY <1>0, <2>1, <2>2, <2>3 DEF TurnsInv, RecoversFlagged, RanIsInHistory,
       Life!HistoryKeepsTurns, Life!ValidPrefix, Life!Before, Life!hists
<1>6. ASSUME NEW k \in Keys, Life!ResetFresh(k)
      PROVE  TurnsInv'
  <2>1. Life!Active = {} /\ kept' = {} /\ UNCHANGED <<sessionHist, damage, place, run, call>>
    BY <1>6 DEF Life!ResetFresh, Life!Resettable, Life!hists, Life!turns, Life!calls
  <2>2. gen' = gen + 1
    BY <1>0, <1>6, ResetNumbers
  <2>3. Waiting' = Waiting /\ \A t \in Turns : run'[t] # "running"
    BY <2>1 DEF Waiting, Life!Active
  <2>4. QED
    BY <2>1, <2>2, <2>3, NewGenerationKeeps
<1>7. ASSUME Life!StartNewGeneration
      PROVE  TurnsInv'
  <2>1. gen \in flag /\ kept' = {} /\ Life!InterruptQueued
          /\ UNCHANGED <<sessionHist, damage, place, call>>
    BY <1>7 DEF Life!StartNewGeneration, Life!hists, Life!calls
  <2>2. gen' = gen + 1
    BY <1>0, <1>7, FreshNumbers
  <2>3. Waiting' = Waiting /\ \A t \in Turns : run'[t] # "running"
    BY <1>0, <2>1, Interrupted DEF Waiting, OneRuns, StateTyped
  <2>4. QED
    BY <2>1, <2>2, <2>3, NewGenerationKeeps
<1>8. ASSUME NEW c \in Calls, Life!CommitRecovery(c)
      PROVE  TurnsInv'
  <2>1. call[c].pc = "copied" /\ UNCHANGED <<sessionHist, damage, place, kept>>
    BY <1>8 DEF Life!CommitRecovery, Life!hists
  <2>2. /\ gen' = gen + 1 /\ dsh' = call[c].to /\ call[c].gen = gen + 1 /\ c \in Waiting
        /\ \A d \in Calls : d # c => call'[d] = call[d]
        /\ call'[c].pc = "ended"
        /\ \A t \in Turns : run'[t] = "running" <=> run[t] = "running"
    BY <1>0, <1>8, CommitNumbers
  <2>3. gen \in flag /\ kept \subseteq Life!ValidPrefix(call[c].to)
    BY <1>0, <2>1, <2>2 DEF RecoversFlagged
  <2>4. \A t \in Turns : run'[t] # "running"
    BY <1>0, <2>2, <2>3 DEF OneRuns
  <2>5. Waiting' \subseteq Waiting /\ \A d \in Waiting' : call'[d] = call[d]
    BY <2>2 DEF Waiting
  <2>6. Life!ValidPrefix(dsh)' = Life!ValidPrefix(call[c].to)
    BY <2>1, <2>2 DEF Life!ValidPrefix, Life!Before
  <2>7. QED
    BY <2>1, <2>2, <2>3, <2>4, <2>5, <2>6, NewGenerationKeeps
<1>9. ASSUME NEW c \in Calls, NEW replay \in BOOLEAN, Life!BeginRecovery(c, replay)
      PROVE  TurnsInv'
  <2>1. gen \in flag /\ UNCHANGED <<gen, dsh, Life!hists, run, at, ran, flag, kept>>
    BY <1>9 DEF Life!BeginRecovery, Life!hists, Life!turns
  <2>2. /\ call'[c].pc = "begun" /\ call'[c].from = dsh
        /\ \A d \in Calls : d # c => call'[d] = call[d]
    BY <1>0, <1>9, BeginNumbers
  <2>3. RecoversFlagged'
    BY <1>0, <2>1, <2>2 DEF RecoversFlagged, Waiting, Life!ValidPrefix, Life!Before, Life!hists
  <2>4. QED
    BY <1>0, <2>1, <2>3 DEF TurnsInv, RanIsInHistory, Life!HistoryKeepsTurns,
       Life!ValidPrefix, Life!Before, Life!hists
<1>10. ASSUME NEW c \in Calls, Life!CopyPrefix(c)
       PROVE  TurnsInv'
  <2>1. /\ sessionHist' = [sessionHist EXCEPT ![call[c].to] = Life!ValidPrefix(call[c].from)]
        /\ damage' = [damage EXCEPT ![call[c].to] = 0]
        /\ UNCHANGED <<gen, dsh, genRow, place, run, at, ran, flag, kept>>
    BY <1>10 DEF Life!CopyPrefix, Life!turns
  <2>2. /\ Waiting' \subseteq Waiting /\ c \in Waiting
        /\ \A d \in Calls : /\ call'[d].gen = call[d].gen /\ call'[d].to = call[d].to
                            /\ call'[d].from = call[d].from
                            /\ d # c => call'[d] = call[d]
    BY <1>0, <1>10, CopyNumbers
  <2>3. \A d \in Waiting : d \in Begun /\ d \in Calls
    BY DEF Waiting, Begun
  <2>4. call[c].to # dsh /\ call[c].to \in Life!Ids
    BY <1>0, <2>2, <2>3 DEF CallsApart, NumbersInv, Life!GenerationsAgree, StateTyped,
       Life!TypeOK
  <2>5. damage \in [Life!Ids -> Nat]
    BY <1>0 DEF StateTyped, Life!TypeOK
  <2>9. \A i \in Life!Ids \ {call[c].to} :
          sessionHist'[i] = sessionHist[i] /\ damage'[i] = damage[i]
    BY <1>0, <2>1, <2>4, <2>5
  <2>10. sessionHist'[call[c].to] = Life!ValidPrefix(call[c].from) /\ damage'[call[c].to] = 0
    BY <1>0, <2>1, <2>4, <2>5
  <2>11. ASSUME NEW i \in Life!Ids
         PROVE  /\ {u \in sessionHist'[i] : damage'[i] = 0 \/ place'[u] < damage'[i]}
                      = IF i = call[c].to THEN Life!ValidPrefix(call[c].from)
                                          ELSE Life!ValidPrefix(i)
    BY <2>1, <2>9, <2>10 DEF Life!ValidPrefix, Life!Before
  <2>12. \A i \in Life!Ids : Life!ValidPrefix(i)'
            = IF i = call[c].to THEN Life!ValidPrefix(call[c].from) ELSE Life!ValidPrefix(i)
    BY <2>11 DEF Life!ValidPrefix, Life!Before
  <2>6. ASSUME NEW d \in Waiting, d # c
        PROVE  \E i \in Life!Ids : i = call[d].to /\ i # call[c].to
    BY <1>0, <2>2, <2>3, <2>6 DEF CallsApart
  <2>7. RecoversFlagged'
    <3>1. ASSUME NEW d \in Waiting', call'[d].gen = gen + 1
          PROVE  /\ gen \in flag /\ call'[d].from = dsh
                 /\ call'[d].pc = "copied" => kept \subseteq Life!ValidPrefix(call[d].to)'
      <4>1. d \in Waiting /\ d \in Calls /\ call[d].gen = gen + 1
        BY <2>2, <2>3, <3>1
      <4>2. gen \in flag /\ call[d].from = dsh
            /\ (call[d].pc = "copied" => kept \subseteq Life!ValidPrefix(call[d].to))
        BY <1>0, <4>1 DEF RecoversFlagged
      <4>3. PICK i \in Life!Ids : i = call'[d].to /\ i = call[d].to
        BY <1>0, <2>2, <2>3, <4>1 DEF CallsApart
      <4>4. CASE d = c
        <5>1. Life!ValidPrefix(i)' = Life!ValidPrefix(dsh)
          BY <2>12, <4>2, <4>3, <4>4
        <5>2. kept \subseteq Life!ValidPrefix(i)'
          BY <1>0, <5>1 DEF Life!HistoryKeepsTurns
        <5>3. QED
          BY <2>2, <4>1, <4>2, <4>3, <5>2
      <4>5. CASE d # c
        <5>1. Life!ValidPrefix(i)' = Life!ValidPrefix(i)
          BY <2>6, <2>12, <4>1, <4>3, <4>5
        <5>2. QED
          BY <2>2, <4>1, <4>2, <4>3, <4>5, <5>1
      <4>6. QED
        BY <4>4, <4>5
    <3>2. QED
      BY <2>1, <3>1 DEF RecoversFlagged
  <2>8. Life!ValidPrefix(dsh)' = Life!ValidPrefix(dsh)
    BY <1>0, <2>1, <2>4, <2>12
  <2>13. QED
    BY <1>0, <2>1, <2>7, <2>8 DEF TurnsInv, RanIsInHistory, Life!HistoryKeepsTurns
<1>11. ASSUME NEW c \in Calls, Life!RecoveryFails(c)
       PROVE  TurnsInv'
  <2>1. UNCHANGED <<gen, dsh, Life!hists, run, at, ran, flag, kept>>
    BY <1>11 DEF Life!RecoveryFails, Life!hists, Life!turns
  <2>2. /\ Waiting' \subseteq Waiting /\ call'[c].pc = "ended"
        /\ \A d \in Calls : d # c => call'[d] = call[d]
    BY <1>0, <1>11, FailsNumbers
  <2>3. RecoversFlagged'
    BY <1>0, <2>1, <2>2 DEF RecoversFlagged, Waiting, Life!ValidPrefix, Life!Before, Life!hists
  <2>4. QED
    BY <1>0, <2>1, <2>3 DEF TurnsInv, RanIsInHistory, Life!HistoryKeepsTurns,
       Life!ValidPrefix, Life!Before, Life!hists
<1>12. ASSUME UNCHANGED <<gen, dsh, Life!hists, Life!turns, flag, call, kept>>
       PROVE  TurnsInv'
  BY <1>0, <1>12 DEF Life!hists, Life!turns, TurnsInv, RecoversFlagged, RanIsInHistory,
     Life!HistoryKeepsTurns, Life!ValidPrefix, Life!Before, Life!hists, Waiting
<1>13. CASE (\E k \in Keys : Life!ResetAgain(k)) \/ Life!ArchiveSession \/ Life!ArchiveSpace
  BY <1>12, <1>13 DEF Life!ResetAgain, Life!ArchiveSession, Life!ArchiveSpace, Life!calls
<1>14. CASE Life!RestoreSpace \/ Life!BeginRestore \/ Life!EndRestore \/ UNCHANGED Life!vars
  BY <1>12, <1>14 DEF Life!RestoreSpace, Life!BeginRestore, Life!EndRestore, Life!calls,
     Life!vars
<1>15. QED
  BY <1>1, <1>2, <1>3, <1>4, <1>5, <1>6, <1>7, <1>8, <1>9, <1>10, <1>11, <1>13, <1>14
     DEF Life!Next

-----------------------------------------------------------------------------
(* Whatever resets, fresh starts and recoveries (resetSession,             *)
(* recoverValidPrefix, startNewGeneration) wait for the runtime at the same*)
(* time, the route names the newest generation, generations have no gap    *)
(* and share no history, an archived session is idle, and, where recovery  *)
(* is asked for of blocked sessions only, the turns that were answered stay*)
(* in the history and a running turn works on the current one.             *)
THEOREM SessionKeepsItsHistory ==
  Life!SessionLifecycleAssumption => (Life!Spec => []Life!GenerationsHold)
<1> SUFFICES ASSUME Life!SessionLifecycleAssumption
             PROVE  Life!Spec => []Life!GenerationsHold
  OBVIOUS
<1> DEFINE IInv == LifeInv /\ (Anytime \/ TurnsInv)
<1>1. Life!Init => IInv
  BY LifeInvInit
<1>2. IInv /\ [Life!Next]_(Life!vars) => IInv'
  BY LifeInvStep, TurnsInvStep
<1>3. IInv => Life!GenerationsHold
  BY DEF LifeInv, NumbersInv, StateTyped, TurnsInv, Life!GenerationsHold
<1> QED BY <1>1, <1>2, <1>3, PTL DEF Life!Spec

-----------------------------------------------------------------------------
(* A set of numbers that is not empty has a least one.                     *)
LEMMA LeastOfNumbers ==
  ASSUME NEW T \in SUBSET Nat, T # {}
  PROVE  \E x \in T : \A y \in T : x <= y
<1>1. PICK x \in T : \A y \in T : ~(<<y, x>> \in OpToRel(<, Nat))
  BY WFMin, NatLessThanWellFounded
<1>2. \A y \in T : ~(y < x)
  BY <1>1 DEF OpToRel
<1> QED BY <1>2

-----------------------------------------------------------------------------
(* The inductive invariant.                                                *)

(* A request is at work.                                                   *)
AttachWorking == {"stat", "look", "copy", "preflight", "ingest"}

AttachTyped ==
  Attach!TypeOK /\ attachKey \in [Calls -> Keys \cup {None}] /\ mine \in [Calls -> 0..MaxRows]

(* No request is at work while the server recovers.                        *)
IdleWhenDown == boot # "up" => \A c \in Calls : attachPc[c] \notin AttachWorking

(* A request that was sent, or whose copy is on its way, has the etag of   *)
(* its key.                                                                *)
Keyed ==
  \A c \in Calls : /\ attachPc[c] # "idle" => attachKey[c] \in Keys /\ Attach!Name(c) \in Contents
                   /\ c \in copying => attachPc[c] # "idle"

(* The request has found or made its snapshot.                             *)
HasSnap(c) ==
  attachPc[c] \in {"preflight", "ingest"} \/ (attachPc[c] = "copy" /\ c \notin copying)

(* Its snapshot is there until its message is stored.                      *)
SnapHeld == \A c \in Calls : HasSnap(c) => snap[Attach!Name(c)] # None

AttachInv ==
  /\ AttachTyped /\ IdleWhenDown /\ Keyed /\ SnapHeld
  /\ Attach!IngestedOnce /\ Attach!AttachmentThere

LEMMA AttachInvInit == Attach!AttachmentsAssumption /\ Attach!Init => AttachInv
BY DEF Attach!AttachmentsAssumption, Attach!Init, AttachInv, AttachTyped, Attach!TypeOK,
   IdleWhenDown, Keyed,
   AttachWorking, HasSnap, SnapHeld, Attach!IngestedOnce, Attach!AttachmentThere

(* The row that recovery comes to is a pending one.                        *)
LEMMA OldestIsPending ==
  ASSUME Attach!AttachmentsAssumption, Attach!Pending \ bad # {}
  PROVE  (CHOOSE j \in Attach!Pending \ bad : \A i \in Attach!Pending \ bad : j <= i) \in Attach!Pending \ bad
<1>1. Attach!Pending \ bad \in SUBSET Nat
  BY DEF Attach!Pending, Attach!Rows, Attach!AttachmentsAssumption
<1>2. \E j \in Attach!Pending \ bad : \A i \in Attach!Pending \ bad : j <= i
  BY <1>1, LeastOfNumbers
<1> QED BY <1>2

(* What recovery does with a row.                                          *)
LEMMA RecoverFacts ==
  ASSUME Attach!AttachmentsAssumption, AttachTyped, Attach!Recover
  PROVE  /\ UNCHANGED <<file, rows, etag, attachMsgs, attachPc, attachKey, mine, copying,
            attachActive, attachSpace, changes, attachCrashes>>
         /\ boot = "scan" /\ boot' \in {"up", "scan", "refused"} /\ bad' \subseteq Attach!Rows
         /\ skipped \subseteq skipped' /\ skipped' \subseteq Contents
         /\ \/ UNCHANGED <<snap, row>>
            \/ \E j \in Attach!Pending :
                 /\ \E s \in {"linked", "cleaned", "aborted"} :
                      /\ row' = [row EXCEPT ![j].st = s]
                      /\ s = "linked" => Attach!Referenced(row[j].name)
                      /\ s = "aborted" /\ row[j].name \in Contents =>
                           snap[row[j].name] = None \/ row[j].name \in skipped'
                      /\ s = "cleaned" => \/ Attach!OtherActive(j)
                                             /\ ~Attach!Referenced(row[j].name)
                                          \/ snap'[row[j].name] = None
                 /\ \/ snap' = snap
                    \/ /\ ~Attach!Referenced(row[j].name) /\ row[j].name \in Contents
                       /\ snap' = [snap EXCEPT ![row[j].name] = None]
         /\ boot' = "up" => Attach!Pending = {} /\ UNCHANGED <<snap, row>>
<1> DEFINE rest == Attach!Pending \ bad
           oldest == CHOOSE j \in rest : \A i \in rest : j <= i
<1>0. /\ boot = "scan"
      /\ UNCHANGED <<file, rows, etag, attachMsgs, attachPc, attachKey, mine, copying,
          attachActive, attachSpace, changes, attachCrashes>>
      /\ \/ /\ rest # {} /\ boot' = boot
            /\ \/ Attach!RecoverRow(oldest) /\ skipped' = skipped
               \/ Attach!SkipRow(oldest)
         \/ /\ rest = {} /\ boot' = IF bad = {} THEN "up" ELSE "refused"
            /\ UNCHANGED <<snap, row, bad, skipped>>
  BY DEF Attach!Recover, Attach!call, Attach!limits
<1>1. CASE rest = {}
  BY <1>0, <1>1 DEF AttachTyped, Attach!TypeOK
<1>2. CASE rest # {}
  <2>1. oldest \in rest
    BY <1>2, OldestIsPending
  <2> HIDE DEF oldest
  <2>2. PICK j \in Attach!Pending :
          /\ j \notin bad
          /\ (Attach!RecoverRow(j) /\ skipped' = skipped) \/ Attach!SkipRow(j)
    BY <1>0, <1>2, <2>1
  <2>3. j \in Attach!Rows /\ bad \subseteq Attach!Rows
          /\ snap \in [Contents -> Contents \cup {None}]
        /\ row[j].name \in Contents \cup {None} /\ skipped \subseteq Contents
    BY <2>2 DEF Attach!Pending, AttachTyped, Attach!TypeOK
  <2>4. boot' = "scan"
    BY <1>0, <1>2
  <2>5. CASE Attach!RecoverStaging(j) /\ skipped' = skipped
    <3> DEFINE n == row[j].name
    <3>1. CASE snap[n] = None /\ Attach!SetRow(j, "aborted") /\ UNCHANGED <<snap, bad>>
      BY <1>0, <2>2, <2>3, <2>4, <2>5, <3>1 DEF Attach!SetRow
    <3>2. CASE bad' = bad \cup {j} /\ UNCHANGED <<snap, row>>
      BY <1>0, <2>2, <2>3, <2>4, <2>5, <3>2
    <3>3. CASE /\ Attach!Referenced(n) \/ Attach!OtherActive(j)
               /\ Attach!SetRow(j, IF Attach!Referenced(n) THEN "linked" ELSE "cleaned")
               /\ UNCHANGED <<snap, bad>>
      BY <1>0, <2>2, <2>3, <2>4, <2>5, <3>3 DEF Attach!SetRow
    <3>4. CASE /\ snap[n] = n /\ ~Attach!Referenced(n) /\ Attach!SetRow(j, "cleaned")
               /\ snap' = [snap EXCEPT ![n] = None] /\ UNCHANGED bad
      BY <1>0, <2>2, <2>3, <2>4, <2>5, <3>4 DEF Attach!SetRow
    <3> QED BY <2>5, <3>1, <3>2, <3>3, <3>4 DEF Attach!RecoverStaging
  <2>6. CASE Attach!RecoverCopied(j) /\ skipped' = skipped
    <3> DEFINE n == row[j].name
    <3>1. CASE bad' = bad \cup {j} /\ UNCHANGED <<snap, row>>
      BY <1>0, <2>2, <2>3, <2>4, <2>6, <3>1
    <3>2. CASE Attach!Referenced(n) /\ Attach!SetRow(j, "linked") /\ UNCHANGED <<snap, bad>>
      BY <1>0, <2>2, <2>3, <2>4, <2>6, <3>2 DEF Attach!SetRow
    <3>3. CASE /\ ~Attach!Referenced(n) /\ (snap[n] = None
                  \/ (snap[n] = n /\ Attach!OtherActive(j)))
               /\ Attach!SetRow(j, "cleaned") /\ UNCHANGED <<snap, bad>>
      BY <1>0, <2>2, <2>3, <2>4, <2>6, <3>3 DEF Attach!SetRow
    <3>4. CASE /\ snap[n] = n /\ ~Attach!Referenced(n) /\ Attach!SetRow(j, "cleaned")
               /\ snap' = [snap EXCEPT ![n] = None] /\ UNCHANGED bad
      BY <1>0, <2>2, <2>3, <2>4, <2>6, <3>4 DEF Attach!SetRow
    <3> QED BY <2>6, <3>1, <3>2, <3>3, <3>4 DEF Attach!RecoverCopied
  <2>7. CASE Attach!SkipRow(j)
    <3>1. /\ row' = [row EXCEPT ![j].st = "aborted"] /\ UNCHANGED <<snap, bad>>
          /\ skipped' = skipped \cup {m \in Contents : m = row[j].name /\ snap[m] # None}
      BY <2>7 DEF Attach!SkipRow, Attach!SetRow
    <3>3. /\ skipped \subseteq skipped' /\ skipped' \subseteq Contents
          /\ row[j].name \in Contents
               => snap[row[j].name] = None \/ row[j].name \in skipped'
      BY <2>3, <3>1
    <3> QED BY <1>0, <2>2, <2>3, <2>4, <3>1, <3>3
  <2> QED BY <2>2, <2>5, <2>6, <2>7 DEF Attach!RecoverRow
<1> QED BY <1>1, <1>2

(* The invariant does not depend on more than its variables.               *)
LEMMA AttachInvStep == Attach!AttachmentsAssumption /\ AttachInv /\ [Attach!Next]_(Attach!vars)
  => AttachInv'
<1> SUFFICES ASSUME Attach!AttachmentsAssumption, AttachInv, [Attach!Next]_(Attach!vars)
             PROVE  AttachInv'
  OBVIOUS
<1>0. /\ AttachTyped /\ IdleWhenDown /\ Keyed /\ SnapHeld /\ Attach!IngestedOnce
         /\ Attach!AttachmentThere
      /\ None \notin Contents /\ None \notin Keys /\ MaxRows \in Nat
  BY DEF AttachInv, Attach!AttachmentsAssumption
<1> USE DEF AttachWorking, HasSnap, Attach!Goto
(* A request goes on, and only it; the snapshots and messages stay.        *)
<1>1. ASSUME NEW c \in Calls, NEW p, Attach!Goto(c, p), attachPc[c] # "idle",
             UNCHANGED <<snap, etag, attachMsgs, attachKey, boot, file, bad, attachActive,
                 attachSpace,
          skipped>>,
             p \in {"look", "copy", "preflight", "ingest", "accepted", "duplicate", "refused"},
             attachPc[c] \in AttachWorking,
             copying' \subseteq copying \cup {c}, copying \subseteq copying' \cup {c},
             mine' \in [Calls -> 0..MaxRows], rows' \in 0..MaxRows,
             row' \in [Attach!Rows -> [name : Contents \cup {None},
                                       st : {"none", "staging", "copied", "linked", "cleaned",
                                           "aborted"}]],
             p \in {"preflight", "ingest"} \/ (p = "copy" /\ c \notin copying')
                 => snap[Attach!Name(c)] # None
      PROVE  AttachInv'
  <2>1. /\ attachPc' \in [Calls -> {"idle", "stat", "look", "copy", "preflight", "ingest",
           "accepted",
                                    "duplicate", "refused", "lost"}]
        /\ attachPc'[c] = p /\ \A d \in Calls \ {c} : attachPc'[d] = attachPc[d]
            /\ (d \in copying' <=> d \in copying)
        /\ copying' \subseteq Calls
    BY <1>0, <1>1 DEF AttachTyped, Attach!TypeOK
  <2>2. AttachTyped'
    BY <1>0, <1>1, <2>1 DEF AttachTyped, Attach!TypeOK
  <2>3. \A d \in Calls : Attach!Name(d)' = Attach!Name(d)
    BY <1>1 DEF Attach!Name
  <2>4. IdleWhenDown'
    BY <1>0, <1>1, <2>1 DEF IdleWhenDown
  <2>5. Keyed'
    BY <1>0, <1>1, <2>1, <2>3 DEF Keyed
  <2>6. SnapHeld'
    BY <1>0, <1>1, <2>1, <2>3 DEF SnapHeld
  <2>7. Attach!IngestedOnce' /\ Attach!AttachmentThere'
    BY <1>0, <1>1 DEF Attach!IngestedOnce, Attach!AttachmentThere
  <2> QED BY <2>2, <2>4, <2>5, <2>6, <2>7 DEF AttachInv
<1>2. ASSUME NEW c \in Calls, NEW k \in Keys, Attach!Send(c, k)
      PROVE  AttachInv'
  <2>1. /\ UNCHANGED <<file, snap, copying, row, rows, attachMsgs, mine, boot, bad, attachActive,
           attachSpace,
          skipped>>
        /\ boot = "up" /\ attachPc[c] = "idle" /\ (etag[k] = None => file # None)
        /\ etag' = [etag EXCEPT ![k] = IF etag[k] = None THEN file ELSE etag[k]]
        /\ attachKey' = [attachKey EXCEPT ![c] = k]
        /\ attachPc' = [attachPc EXCEPT ![c] = IF Attach!Takes THEN "stat" ELSE "refused"]
    BY <1>2 DEF Attach!Send, Attach!disk, Attach!tables, Attach!server
  <2>2. /\ etag' \in [Keys -> Contents \cup {None}] /\ etag'[k] \in Contents
        /\ \A j \in Keys : etag[j] \in Contents => etag'[j] = etag[j]
        /\ attachKey' \in [Calls -> Keys \cup {None}] /\ attachKey'[c] = k
        /\ \A d \in Calls \ {c} : attachKey'[d] = attachKey[d] /\ attachPc'[d] = attachPc[d]
        /\ attachPc'[c] \in {"stat", "refused"}
        /\ attachPc' \in [Calls -> {"idle", "stat", "look", "copy", "preflight", "ingest",
            "accepted",
                                    "duplicate", "refused", "lost"}]
    BY <1>0, <2>1 DEF AttachTyped, Attach!TypeOK
  <2>3. \A d \in Calls \ {c} : attachPc[d] # "idle" => Attach!Name(d)' = Attach!Name(d)
    BY <1>0, <2>2 DEF Keyed, Attach!Name
  <2>4. AttachTyped'
    BY <1>0, <2>1, <2>2 DEF AttachTyped, Attach!TypeOK
  <2>5. Attach!Name(c)' = etag'[k]
    BY <2>2 DEF Attach!Name
  <2>6. IdleWhenDown' /\ Attach!IngestedOnce' /\ Attach!AttachmentThere'
    BY <1>0, <2>1 DEF IdleWhenDown, Attach!IngestedOnce, Attach!AttachmentThere
  <2>7. Keyed'
    BY <1>0, <2>1, <2>2, <2>3, <2>5 DEF Keyed
  <2>8. SnapHeld'
    BY <1>0, <2>1, <2>2, <2>3 DEF SnapHeld
  <2> QED BY <2>4, <2>6, <2>7, <2>8 DEF AttachInv
<1>3. ASSUME NEW c \in Calls, Attach!Stat(c) \/ Attach!Preflight(c) \/ Attach!IngestNot(c)
      PROVE  AttachInv'
  <2>1. PICK p \in {"look", "refused", "ingest", "duplicate"} :
          /\ Attach!Goto(c, p) /\ attachPc[c] \in {"stat", "preflight", "ingest"}
          /\ p = "ingest" => attachPc[c] = "preflight"
    BY <1>3 DEF Attach!Stat, Attach!Preflight, Attach!IngestNot
  <2>2. UNCHANGED <<file, snap, copying, row, rows, attachMsgs, etag, attachKey, mine, boot, bad,
          attachActive, attachSpace,
          skipped>>
    BY <1>3 DEF Attach!Stat, Attach!Preflight, Attach!IngestNot, Attach!disk,
       Attach!tables, Attach!server
  <2>3. p = "ingest" => snap[Attach!Name(c)] # None
    BY <1>0, <2>1 DEF SnapHeld
  <2> QED BY <1>0, <1>1, <2>1, <2>2, <2>3 DEF AttachTyped, Attach!TypeOK
<1>4. ASSUME NEW c \in Calls, Attach!Look(c)
      PROVE  AttachInv'
  <2>1. attachPc[c] = "look" /\ UNCHANGED <<file, snap, etag, attachMsgs, attachKey, boot, bad,
          attachActive, attachSpace,
          skipped>>
    BY <1>4 DEF Attach!Look, Attach!server
  <2>2. Attach!Name(c) \in Contents
    BY <1>0, <2>1 DEF Keyed
  <2>3. CASE snap[Attach!Name(c)] # None /\ Attach!Goto(c, "preflight")
             /\ UNCHANGED <<row, rows, mine, copying>>
    BY <1>0, <1>1, <2>1, <2>3 DEF AttachTyped, Attach!TypeOK
  <2>4. CASE /\ rows < MaxRows /\ rows' = rows + 1 /\ mine' = [mine EXCEPT ![c] = rows + 1]
             /\ row' = [row EXCEPT ![rows + 1] = [name |-> Attach!Name(c), st |-> "staging"]]
             /\ copying' = copying \cup {c} /\ Attach!Goto(c, "copy")
    <3>1. /\ mine' \in [Calls -> 0..MaxRows] /\ rows' \in 0..MaxRows
          /\ row' \in [Attach!Rows -> [name : Contents \cup {None},
                                       st : {"none", "staging", "copied", "linked", "cleaned",
                                           "aborted"}]]
      <4>1. rows + 1 \in Attach!Rows /\ rows + 1 \in 0..MaxRows
        BY <1>0, <2>4 DEF AttachTyped, Attach!TypeOK, Attach!Rows
      <4>2. [name |-> Attach!Name(c), st |-> "staging"]
              \in [name : Contents \cup {None},
                   st : {"none", "staging", "copied", "linked", "cleaned", "aborted"}]
        BY <2>2
      <4>3. mine' \in [Calls -> 0..MaxRows] /\ rows' \in 0..MaxRows
        BY <1>0, <2>4, <4>1 DEF AttachTyped
      <4>4. row' \in [Attach!Rows -> [name : Contents \cup {None},
                                     st : {"none", "staging", "copied", "linked", "cleaned",
                                         "aborted"}]]
        BY <1>0, <2>4, <4>1, <4>2 DEF AttachTyped, Attach!TypeOK
      <4> QED BY <4>3, <4>4
    <3> QED BY <1>1, <2>1, <2>4, <3>1
  <2> QED BY <1>4, <2>3, <2>4 DEF Attach!Look
<1>5. ASSUME NEW c \in Calls, Attach!Copy(c)
      PROVE  AttachInv'
  <2>1. /\ c \in copying /\ file # None /\ copying' = copying \ {c}
        /\ snap' = [snap EXCEPT ![Attach!Name(c)] = file]
        /\ UNCHANGED <<file, row, rows, attachMsgs, etag, attachPc, attachKey, mine, boot, bad,
            attachActive, attachSpace,
          skipped>>
    BY <1>5 DEF Attach!Copy, Attach!tables, Attach!call, Attach!server
  <2>2. /\ Attach!Name(c) \in Contents /\ snap' \in [Contents -> Contents \cup {None}]
        /\ snap'[Attach!Name(c)] # None
        /\ \A n \in Contents : snap[n] # None => snap'[n] # None
    BY <1>0, <2>1 DEF Keyed, AttachTyped, Attach!TypeOK
  <2>3. AttachTyped'
    BY <1>0, <2>1, <2>2 DEF AttachTyped, Attach!TypeOK
  <2>4. \A d \in Calls : Attach!Name(d)' = Attach!Name(d) /\ (attachPc[d] # "idle"
          => Attach!Name(d) \in Contents)
    BY <1>0, <2>1 DEF Attach!Name, Keyed
  <2>5. IdleWhenDown' /\ Keyed' /\ Attach!IngestedOnce'
    BY <1>0, <2>1, <2>4 DEF IdleWhenDown, Keyed, Attach!IngestedOnce
  <2>6. SnapHeld'
    BY <1>0, <2>1, <2>2, <2>4 DEF SnapHeld
  <2>7. Attach!AttachmentThere'
    BY <1>0, <2>1, <2>2 DEF Attach!AttachmentThere, AttachTyped, Attach!TypeOK
  <2> QED BY <2>3, <2>5, <2>6, <2>7 DEF AttachInv
<1>6. ASSUME NEW c \in Calls, Attach!CopyReply(c) \/ Attach!CopyFails(c)
      PROVE  AttachInv'
  <2>1. /\ attachPc[c] = "copy" /\ UNCHANGED <<file, snap, rows, etag, attachMsgs, attachKey, mine,
           boot, bad, attachActive, attachSpace,
          skipped>>
        /\ copying' \subseteq copying /\ copying \subseteq copying' \cup {c}
    BY <1>6 DEF Attach!CopyReply, Attach!CopyFails, Attach!disk, Attach!server
  <2>2. \/ Attach!Goto(c, "preflight") /\ c \notin copying /\ Attach!SetRow(mine[c], "copied")
        \/ Attach!Goto(c, "refused") /\ Attach!SetRow(mine[c], "aborted")
    BY <1>6 DEF Attach!CopyReply, Attach!CopyFails
  <2>3. row' \in [Attach!Rows -> [name : Contents \cup {None},
                                  st : {"none", "staging", "copied", "linked", "cleaned",
                                      "aborted"}]]
    BY <1>0, <2>2 DEF Attach!SetRow, AttachTyped, Attach!TypeOK
  <2>4. c \notin copying => snap[Attach!Name(c)] # None
    BY <1>0, <2>1 DEF SnapHeld
  <2> QED BY <1>0, <1>1, <2>1, <2>2, <2>3, <2>4 DEF AttachTyped, Attach!TypeOK
<1>7. ASSUME NEW c \in Calls, Attach!Ingest(c)
      PROVE  AttachInv'
  <2>1. /\ attachPc[c] = "ingest" /\ Attach!Existing(attachKey[c]) = {}
           /\ attachPc' = [attachPc EXCEPT ![c] = "accepted"]
        /\ row' = Attach!Linked(Attach!Name(c))
        /\ attachMsgs' = attachMsgs \cup {[key |-> attachKey[c], by |-> c, etag |-> Attach!Name(c)]}
        /\ UNCHANGED <<file, snap, copying, rows, etag, attachKey, mine, boot, bad, attachActive,
            attachSpace,
          skipped>>
    BY <1>7 DEF Attach!Ingest, Attach!disk, Attach!server
  <2>2. attachKey[c] \in Keys /\ Attach!Name(c) \in Contents /\ snap[Attach!Name(c)] # None
    BY <1>0, <2>1 DEF Keyed, SnapHeld
  <2>3. /\ row' \in [Attach!Rows -> [name : Contents \cup {None},
                                     st : {"none", "staging", "copied", "linked", "cleaned",
                                         "aborted"}]]
    BY <1>0, <2>1 DEF Attach!Linked, AttachTyped, Attach!TypeOK
  <2>4. AttachTyped'
    BY <1>0, <2>1, <2>2, <2>3 DEF AttachTyped, Attach!TypeOK
  <2>5. \A d \in Calls : Attach!Name(d)' = Attach!Name(d) /\ (attachPc'[d] = attachPc[d]
          \/ (d = c /\ attachPc'[d] = "accepted"))
    BY <1>0, <2>1 DEF Attach!Name, AttachTyped, Attach!TypeOK
  <2>6. IdleWhenDown' /\ Keyed' /\ SnapHeld'
    BY <1>0, <2>1, <2>2, <2>5 DEF IdleWhenDown, Keyed, SnapHeld
  <2>7. Attach!IngestedOnce' /\ Attach!AttachmentThere'
    BY <1>0, <2>1, <2>2 DEF Attach!IngestedOnce, Attach!AttachmentThere, Attach!Existing
  <2> QED BY <2>4, <2>6, <2>7 DEF AttachInv
<1>8. CASE \/ Attach!Change \/ Attach!Archive \/ Attach!ArchiveSpace
           \/ Attach!RestoreSpace \/ Attach!Restore \/ UNCHANGED Attach!vars
  <2>1. /\ UNCHANGED <<snap, copying, row, rows, attachMsgs, etag, attachPc, attachKey, mine, boot,
           bad, skipped>>
        /\ file' \in Contents \cup {None} /\ attachActive' \in BOOLEAN
        /\ attachSpace' \in BOOLEAN
    BY <1>0, <1>8 DEF Attach!Change, Attach!Archive, Attach!ArchiveSpace, Attach!RestoreSpace,
       Attach!Restore, Attach!vars, Attach!disk,
       Attach!tables, Attach!call, Attach!server, AttachTyped, Attach!TypeOK
  <2>2. AttachTyped'
    BY <1>0, <2>1 DEF AttachTyped, Attach!TypeOK
  <2>3. IdleWhenDown' /\ Keyed' /\ SnapHeld' /\ Attach!IngestedOnce' /\ Attach!AttachmentThere'
    BY <1>0, <2>1 DEF IdleWhenDown, Keyed, SnapHeld, Attach!IngestedOnce,
       Attach!AttachmentThere, Attach!Name
  <2> QED BY <2>2, <2>3 DEF AttachInv
<1>9. CASE Attach!Crash
  <2>1. /\ boot' = "scan" /\ bad' = {} /\ copying' \subseteq copying
        /\ attachPc' = [c \in Calls |-> IF attachPc[c] \in AttachWorking THEN "lost" ELSE attachPc[c]]
        /\ UNCHANGED <<file, snap, row, rows, attachMsgs, etag, attachKey, mine, attachActive,
            attachSpace,
          skipped>>
    BY <1>9 DEF Attach!Crash, Attach!tables
  <2>2. AttachTyped'
    BY <1>0, <2>1 DEF AttachTyped, Attach!TypeOK
  <2>3. \A c \in Calls : /\ attachPc'[c] \notin AttachWorking /\ Attach!Name(c)' = Attach!Name(c)
                         /\ attachPc[c] = "idle" <=> attachPc'[c] = "idle"
    BY <1>0, <2>1 DEF Attach!Name, AttachTyped, Attach!TypeOK
  <2>4. IdleWhenDown' /\ SnapHeld' /\ Attach!IngestedOnce' /\ Attach!AttachmentThere'
    BY <1>0, <2>1, <2>3 DEF IdleWhenDown, SnapHeld, Attach!IngestedOnce,
       Attach!AttachmentThere
  <2>5. Keyed'
    BY <1>0, <2>1, <2>3 DEF Keyed
  <2> QED BY <2>2, <2>4, <2>5 DEF AttachInv
<1>10. CASE Attach!Recover
  <2>1. /\ UNCHANGED <<file, rows, etag, attachMsgs, attachPc, attachKey, mine, copying,
           attachActive, attachSpace>>
        /\ skipped' \subseteq Contents
        /\ boot = "scan" /\ boot' \in {"up", "scan", "refused"} /\ bad' \subseteq Attach!Rows
    BY <1>0, <1>10, RecoverFacts
  <2>2. /\ snap' \in [Contents -> Contents \cup {None}]
        /\ \A n \in Contents : Attach!Referenced(n) /\ snap[n] # None => snap'[n] # None
        /\ row' \in [Attach!Rows -> [name : Contents \cup {None},
                                     st : {"none", "staging", "copied", "linked", "cleaned",
                                         "aborted"}]]
    <3>1. CASE UNCHANGED <<snap, row>>
      BY <1>0, <3>1 DEF AttachTyped, Attach!TypeOK
    <3>2. CASE \E j \in Attach!Pending :
                 /\ \E s \in {"linked", "cleaned", "aborted"} : row' = [row EXCEPT ![j].st = s]
                 /\ \/ snap' = snap
                    \/ /\ ~Attach!Referenced(row[j].name) /\ row[j].name \in Contents
                       /\ snap' = [snap EXCEPT ![row[j].name] = None]
      <4>1. PICK j \in Attach!Pending :
                 /\ \E s \in {"linked", "cleaned", "aborted"} : row' = [row EXCEPT ![j].st = s]
                 /\ \/ snap' = snap
                    \/ /\ ~Attach!Referenced(row[j].name) /\ row[j].name \in Contents
                       /\ snap' = [snap EXCEPT ![row[j].name] = None]
        BY <3>2
      <4>2. row' \in [Attach!Rows -> [name : Contents \cup {None},
                                     st : {"none", "staging", "copied", "linked", "cleaned",
                                         "aborted"}]]
        <5>1. PICK s \in {"linked", "cleaned", "aborted"} : row' = [row EXCEPT ![j].st = s]
          BY <4>1
        <5>2. j \in Attach!Rows /\ row \in [Attach!Rows -> [name : Contents \cup {None},
                                     st : {"none", "staging", "copied", "linked", "cleaned",
                                         "aborted"}]]
          BY <1>0 DEF AttachTyped, Attach!TypeOK, Attach!Pending
        <5> QED BY <5>1, <5>2
      <4>3. /\ snap' \in [Contents -> Contents \cup {None}]
            /\ \A n \in Contents : Attach!Referenced(n) /\ snap[n] # None => snap'[n] # None
        <5>1. CASE snap' = snap
          BY <1>0, <5>1 DEF AttachTyped, Attach!TypeOK
        <5>2. CASE /\ ~Attach!Referenced(row[j].name) /\ row[j].name \in Contents
                   /\ snap' = [snap EXCEPT ![row[j].name] = None]
          <6>1. snap \in [Contents -> Contents \cup {None}]
            BY <1>0 DEF AttachTyped, Attach!TypeOK
          <6>2. snap' \in [Contents -> Contents \cup {None}]
            BY <5>2, <6>1
          <6>3. \A n \in Contents : n # row[j].name => snap'[n] = snap[n]
            BY <5>2, <6>1
          <6>4. ASSUME NEW n \in Contents, Attach!Referenced(n), snap[n] # None
                PROVE  snap'[n] # None
            BY <5>2, <6>3, <6>4
          <6> QED BY <6>2, <6>4
        <5> QED BY <4>1, <5>1, <5>2
      <4> QED BY <4>2, <4>3
    <3> QED BY <1>0, <1>10, <3>1, <3>2, RecoverFacts
  <2>3. AttachTyped'
    BY <1>0, <2>1, <2>2 DEF AttachTyped, Attach!TypeOK
  <2>4. \A c \in Calls : attachPc[c] \notin AttachWorking /\ Attach!Name(c)' = Attach!Name(c)
    BY <1>0, <2>1 DEF IdleWhenDown, Attach!Name
  <2>5. IdleWhenDown' /\ Keyed' /\ SnapHeld' /\ Attach!IngestedOnce'
    BY <1>0, <2>1, <2>4 DEF IdleWhenDown, Keyed, SnapHeld, Attach!IngestedOnce
  <2>6. Attach!AttachmentThere'
    BY <1>0, <2>1, <2>2 DEF Attach!AttachmentThere, Attach!Referenced, AttachTyped,
       Attach!TypeOK
  <2> QED BY <2>3, <2>5, <2>6 DEF AttachInv
<1> QED BY <1>2, <1>3, <1>4, <1>5, <1>6, <1>7, <1>8, <1>9, <1>10 DEF Attach!Next,
           Attach!Step
-----------------------------------------------------------------------------
(* Orphans: where the caller hears the truth about its copy, the journal    *)
(* knows of every snapshot that no message has.                             *)

(* A copy runs for a request that waits for it.                             *)
CopyAwaited ==
  /\ boot # "up" => copying = {}
  /\ \A c \in copying : attachPc[c] = "copy"

(* A request that waits for its copy has a row of its own.                  *)
OwnRow ==
  /\ \A c \in Calls : attachPc[c] = "copy" =>
       mine[c] \in 1..rows /\ row[mine[c]] = [name |-> Attach!Name(c), st |-> "staging"]
  /\ \A c, d \in Calls : attachPc[c] = "copy" /\ attachPc[d] = "copy" /\ mine[c] = mine[d] => c = d
  /\ \A j \in Attach!Rows : j > rows => row[j].st = "none"

(* Row j stands for the snapshot n, and no copy that runs is its.           *)
Holds(j, n) ==
  /\ row[j].name = n /\ row[j].st \in {"staging", "copied"}
  /\ \A c \in copying : mine[c] # j

(* A snapshot has a message or a pending row, or was skipped.               *)
Journalled ==
  /\ \A j \in Attach!Rows : row[j].st = "linked" => Attach!Referenced(row[j].name)
  /\ \A n \in Contents :
       snap[n] # None =>
         \/ Attach!Referenced(n) \/ n \in skipped
         \/ \E j \in Attach!Rows : Holds(j, n)

OrphanInv == CopyAwaited /\ OwnRow /\ Journalled

LEMMA OrphanInvInit == Attach!AttachmentsAssumption /\ Attach!Init => OrphanInv
BY DEF Attach!AttachmentsAssumption, Attach!Init, OrphanInv, CopyAwaited, OwnRow,
   Journalled, Holds, Attach!Rows

LEMMA OrphanInvStep ==
  Attach!AttachmentsAssumption /\ ~LostReplies /\ AttachInv /\ OrphanInv
      /\ [Attach!Next]_(Attach!vars) => OrphanInv'
<1> SUFFICES ASSUME Attach!AttachmentsAssumption, ~LostReplies, AttachInv, OrphanInv,
                    [Attach!Next]_(Attach!vars)
             PROVE  OrphanInv'
  OBVIOUS
<1>0. /\ AttachTyped /\ IdleWhenDown /\ Keyed /\ CopyAwaited /\ OwnRow /\ Journalled
      /\ None \notin Contents /\ None \notin Keys /\ MaxRows \in Nat
  BY DEF AttachInv, OrphanInv, Attach!AttachmentsAssumption
<1>a. /\ snap \in [Contents -> Contents \cup {None}] /\ rows \in 0..MaxRows
      /\ row \in [Attach!Rows -> [name : Contents \cup {None},
                                  st : {"none", "staging", "copied", "linked", "cleaned",
                                      "aborted"}]]
      /\ DOMAIN attachPc = Calls /\ DOMAIN mine = Calls /\ copying \subseteq Calls
      /\ mine \in [Calls -> 0..MaxRows] /\ 1..rows \subseteq Attach!Rows
  BY <1>0 DEF AttachTyped, Attach!TypeOK, Attach!Rows
<1> USE DEF Attach!Goto, AttachWorking
(* A step that leaves journal, snapshots and copies alone.                  *)
<1>1. ASSUME UNCHANGED <<snap, row, rows, attachMsgs, mine, copying>>, skipped \subseteq skipped',
             boot' = boot \/ boot' = "up" \/ copying = {},
             \A c \in Calls : attachPc'[c] = "copy" <=> attachPc[c] = "copy",
             \A c \in Calls : attachPc[c] = "copy" => Attach!Name(c)' = Attach!Name(c)
      PROVE  OrphanInv'
  <2>1. CopyAwaited'
    BY <1>0, <1>1, <1>a DEF CopyAwaited
  <2>2. OwnRow'
    BY <1>0, <1>1, <1>a DEF OwnRow
  <2>3. Journalled'
    BY <1>0, <1>1 DEF Journalled, Holds, Attach!Referenced
  <2> QED BY <2>1, <2>2, <2>3 DEF OrphanInv
<1>2. ASSUME NEW c \in Calls, NEW k \in Keys, Attach!Send(c, k)
      PROVE  OrphanInv'
  <2>1. /\ UNCHANGED <<snap, copying, row, rows, attachMsgs, mine, boot, skipped>>
        /\ boot = "up" /\ attachPc[c] = "idle"
        /\ etag' = [etag EXCEPT ![k] = IF etag[k] = None THEN file ELSE etag[k]]
        /\ attachKey' = [attachKey EXCEPT ![c] = k]
        /\ attachPc' = [attachPc EXCEPT ![c] = IF Attach!Takes THEN "stat" ELSE "refused"]
    BY <1>2 DEF Attach!Send, Attach!disk, Attach!tables, Attach!server
  <2>2. \A d \in Calls : attachPc'[d] = "copy" <=> attachPc[d] = "copy"
    BY <1>a, <2>1
  <2>3. \A j \in Keys : etag[j] \in Contents => etag'[j] = etag[j]
    BY <1>0, <2>1 DEF AttachTyped, Attach!TypeOK
  <2>4. \A d \in Calls : attachPc[d] = "copy" => attachKey'[d] = attachKey[d]
          /\ attachKey[d] \in Keys
    BY <1>0, <2>1 DEF AttachTyped, Attach!TypeOK, Keyed
  <2>5. \A d \in Calls : attachPc[d] = "copy" => Attach!Name(d)' = Attach!Name(d)
    BY <1>0, <2>3, <2>4 DEF Keyed, Attach!Name
  <2> QED BY <1>1, <2>1, <2>2, <2>5
<1>3. ASSUME NEW c \in Calls, Attach!Stat(c) \/ Attach!Preflight(c) \/ Attach!IngestNot(c)
      PROVE  OrphanInv'
  <2>1. PICK p \in {"look", "refused", "ingest", "duplicate"} :
          Attach!Goto(c, p) /\ attachPc[c] \in {"stat", "preflight", "ingest"}
    BY <1>3 DEF Attach!Stat, Attach!Preflight, Attach!IngestNot
  <2>2. UNCHANGED <<snap, copying, row, rows, attachMsgs, etag, attachKey, mine, boot, skipped>>
    BY <1>3 DEF Attach!Stat, Attach!Preflight, Attach!IngestNot, Attach!disk,
       Attach!tables, Attach!server
  <2>3. \A d \in Calls : (attachPc'[d] = "copy" <=> attachPc[d] = "copy")
          /\ Attach!Name(d)' = Attach!Name(d)
    BY <1>a, <2>1, <2>2 DEF Attach!Name
  <2> QED BY <1>1, <2>2, <2>3
<1>4. ASSUME NEW c \in Calls, Attach!Look(c)
      PROVE  OrphanInv'
  <2>1. attachPc[c] = "look" /\ UNCHANGED <<file, snap, etag, attachMsgs, attachKey, boot, skipped>>
    BY <1>4 DEF Attach!Look, Attach!server
  <2>2. Attach!Name(c) \in Contents /\ boot = "up" /\ c \notin copying
          /\ \A d \in Calls : Attach!Name(d)' = Attach!Name(d)
    BY <1>0, <2>1 DEF Keyed, IdleWhenDown, CopyAwaited, Attach!Name
  <2>3. CASE Attach!Goto(c, "preflight") /\ UNCHANGED <<row, rows, mine, copying>>
    <3>1. \A d \in Calls : attachPc'[d] = "copy" <=> attachPc[d] = "copy"
      BY <1>a, <2>1, <2>3
    <3> QED BY <1>1, <2>1, <2>2, <2>3, <3>1
  <2>4. CASE /\ rows < MaxRows /\ rows' = rows + 1 /\ mine' = [mine EXCEPT ![c] = rows + 1]
             /\ row' = [row EXCEPT ![rows + 1] = [name |-> Attach!Name(c), st |-> "staging"]]
             /\ copying' = copying \cup {c} /\ Attach!Goto(c, "copy")
    <3>1. /\ rows + 1 \in Attach!Rows /\ rows + 1 \in 1..rows' /\ rows + 1 \notin 1..rows
          /\ 1..rows \subseteq 1..rows' /\ \A j \in Attach!Rows : j > rows' => j > rows
      BY <1>0, <1>a, <2>4 DEF Attach!Rows
    <3>2. /\ attachPc'[c] = "copy" /\ \A d \in Calls \ {c} : attachPc'[d] = attachPc[d]
             /\ mine'[d] = mine[d]
          /\ mine'[c] = rows + 1
          /\ row'[rows + 1] = [name |-> Attach!Name(c), st |-> "staging"]
          /\ \A j \in Attach!Rows \ {rows + 1} : row'[j] = row[j]
      BY <1>a, <2>4, <3>1
    <3>3. row[rows + 1].st = "none"
      BY <1>0, <1>a, <3>1 DEF OwnRow
    <3>4. CopyAwaited'
      BY <1>0, <1>a, <2>1, <2>2, <2>4, <3>2 DEF CopyAwaited
    <3>5. OwnRow'
      <4>1. \A d \in Calls : attachPc'[d] = "copy" =>
              mine'[d] \in 1..rows' /\ row'[mine'[d]] = [name |-> Attach!Name(d)', st |-> "staging"]
        BY <1>0, <1>a, <2>2, <3>1, <3>2 DEF OwnRow
      <4>2. \A d, e \in Calls : attachPc'[d] = "copy" /\ attachPc'[e] = "copy"
              /\ mine'[d] = mine'[e] => d = e
        <5>1. ASSUME NEW d \in Calls \ {c}, attachPc'[d] = "copy"
              PROVE  attachPc[d] = "copy" /\ mine'[d] = mine[d] /\ mine'[d] # mine'[c]
          BY <1>0, <3>1, <3>2, <5>1, ZenonT(60) DEF OwnRow
        <5>2. ASSUME NEW d \in Calls, NEW e \in Calls, attachPc'[d] = "copy", attachPc'[e] = "copy",
                     mine'[d] = mine'[e]
              PROVE  d = e
          BY <1>0, <5>1, <5>2 DEF OwnRow
        <5> QED BY <5>2
      <4>3. \A j \in Attach!Rows : j > rows' => row'[j].st = "none"
        <5>1. ASSUME NEW j \in Attach!Rows, j > rows'
              PROVE  row'[j].st = "none"
          <6>1. j # rows + 1 /\ j > rows
            BY <1>a, <2>4, <5>1 DEF Attach!Rows
          <6> QED BY <1>0, <3>2, <6>1 DEF OwnRow
        <5> QED BY <5>1
      <4> QED BY <4>1, <4>2, <4>3 DEF OwnRow
    <3>6. Journalled'
      <4>1. ASSUME NEW j \in Attach!Rows, NEW n \in Contents, Holds(j, n)
            PROVE  Holds(j, n)'
        <5>1. j # rows + 1
          BY <3>3, <4>1 DEF Holds
        <5>2. \A d \in copying : d \in Calls /\ d # c
          BY <1>a, <2>2
        <5> QED BY <2>4, <3>2, <4>1, <5>1, <5>2 DEF Holds
      <4>2. \A j \in Attach!Rows : row'[j].st = "linked" => Attach!Referenced(row[j].name)'
        BY <1>0, <2>1, <3>2 DEF Journalled, Attach!Referenced
      <4>3. \A n \in Contents :
              snap'[n] # None => Attach!Referenced(n)' \/ n \in skipped'
                  \/ \E j \in Attach!Rows : Holds(j, n)'
        BY <1>0, <2>1, <4>1 DEF Journalled, Attach!Referenced
      <4> QED BY <4>2, <4>3 DEF Journalled
    <3> QED BY <3>4, <3>5, <3>6 DEF OrphanInv
  <2> QED BY <1>4, <2>3, <2>4 DEF Attach!Look
<1>5. ASSUME NEW c \in Calls, Attach!Copy(c)
      PROVE  OrphanInv'
  <2>1. /\ c \in copying /\ copying' = copying \ {c}
        /\ snap' = [snap EXCEPT ![Attach!Name(c)] = file]
        /\ UNCHANGED <<row, rows, attachMsgs, etag, attachPc, attachKey, mine, boot, skipped>>
    BY <1>5 DEF Attach!Copy, Attach!tables, Attach!call, Attach!server
  <2>2. attachPc[c] = "copy" /\ Attach!Name(c) \in Contents
    BY <1>0, <2>1 DEF Keyed, CopyAwaited
  <2>3. \A d \in Calls : Attach!Name(d)' = Attach!Name(d)
    BY <2>1 DEF Attach!Name
  <2>4. CopyAwaited'
    BY <1>0, <2>1 DEF CopyAwaited
  <2>5. OwnRow'
    BY <1>0, <2>1, <2>3 DEF OwnRow
  <2>6. Holds(mine[c], Attach!Name(c))'
    <3>1. row[mine[c]] = [name |-> Attach!Name(c), st |-> "staging"]
      BY <1>0, <2>2 DEF OwnRow
    <3>2. \A d \in copying \ {c} : mine[d] # mine[c]
      BY <1>0, <1>a, <2>2 DEF OwnRow, CopyAwaited
    <3> QED BY <2>1, <2>3, <3>1, <3>2 DEF Holds
  <2>7. mine[c] \in Attach!Rows /\ Attach!Name(c)' = Attach!Name(c)
    BY <1>0, <1>a, <2>2, <2>3 DEF OwnRow
  <2>8. \A j \in Attach!Rows, n \in Contents : Holds(j, n) => Holds(j, n)'
    BY <2>1 DEF Holds
  <2>9. \A n \in Contents : n # Attach!Name(c) => snap'[n] = snap[n]
    BY <1>a, <2>1
  <2>10. Journalled'
    <3>1. \A j \in Attach!Rows : row'[j].st = "linked" => Attach!Referenced(row[j].name)'
      BY <1>0, <2>1 DEF Journalled, Attach!Referenced
    <3>2. ASSUME NEW n \in Contents, snap'[n] # None
          PROVE  Attach!Referenced(n)' \/ n \in skipped' \/ \E j \in Attach!Rows : Holds(j, n)'
      <4>1. CASE n = Attach!Name(c)
        <5>1. Holds(mine[c], n)'
          BY <2>6, <2>7, <4>1 DEF Holds
        <5>2. mine' = mine
          BY <2>1
        <5> QED BY <2>7, <5>1, <5>2 DEF Holds
      <4>2. CASE n # Attach!Name(c)
        BY <1>0, <2>1, <2>8, <2>9, <3>2, <4>2 DEF Journalled, Attach!Referenced
      <4> QED BY <4>1, <4>2
    <3> QED BY <3>1, <3>2 DEF Journalled
  <2> QED BY <2>4, <2>5, <2>10 DEF OrphanInv
(* The request that waited goes on, and its row gets its status.            *)
<1>6. ASSUME NEW c \in Calls, Attach!CopyReply(c) \/ Attach!CopyFails(c)
      PROVE  OrphanInv'
  <2>1. /\ attachPc[c] = "copy" /\ UNCHANGED <<snap, rows, etag, attachMsgs, attachKey, mine, boot,
           skipped>>
        /\ copying' \subseteq copying
    BY <1>6 DEF Attach!CopyReply, Attach!CopyFails, Attach!disk, Attach!server
  <2>2. PICK s \in {"copied", "aborted"} :
          /\ row' = [row EXCEPT ![mine[c]].st = s]
          /\ attachPc' = [attachPc EXCEPT ![c] = IF s = "copied" THEN "preflight" ELSE "refused"]
          /\ s = "copied" => copying' = copying /\ c \notin copying
          /\ s = "aborted" => c \in copying /\ copying' = copying \ {c}
    BY <1>6 DEF Attach!CopyReply, Attach!CopyFails, Attach!SetRow, Attach!disk
  <2>3. /\ mine[c] \in 1..rows /\ mine[c] \in Attach!Rows
        /\ row[mine[c]] = [name |-> Attach!Name(c), st |-> "staging"]
    BY <1>0, <1>a, <2>1 DEF OwnRow
  <2>4. /\ attachPc'[c] \in {"preflight", "refused"}
           /\ \A d \in Calls \ {c} : attachPc'[d] = attachPc[d]
        /\ row'[mine[c]].name = Attach!Name(c) /\ row'[mine[c]].st = s
        /\ \A j \in Attach!Rows \ {mine[c]} : row'[j] = row[j]
        /\ \A d \in Calls : Attach!Name(d)' = Attach!Name(d)
    BY <1>a, <2>1, <2>2, <2>3 DEF Attach!Name
  <2>5. CopyAwaited'
    <3>1. c \notin copying'
      BY <2>2
    <3> QED BY <1>0, <1>a, <2>1, <2>4, <3>1 DEF CopyAwaited
  <2>6. OwnRow'
    <3>1. \A d \in Calls : attachPc'[d] = "copy" =>
            mine'[d] \in 1..rows' /\ row'[mine'[d]] = [name |-> Attach!Name(d)', st |-> "staging"]
      <4>1. ASSUME NEW d \in Calls, attachPc'[d] = "copy"
            PROVE  mine'[d] \in 1..rows' /\ row'[mine'[d]] = [name |-> Attach!Name(d)',
                   st |-> "staging"]
        <5>1. d # c /\ attachPc[d] = "copy" /\ mine[d] # mine[c] /\ mine[d] \in Attach!Rows
          BY <1>0, <1>a, <2>1, <2>4, <4>1 DEF OwnRow
        <5> QED BY <1>0, <2>1, <2>4, <5>1 DEF OwnRow
      <4> QED BY <4>1
    <3>2. \A d, e \in Calls : attachPc'[d] = "copy" /\ attachPc'[e] = "copy"
            /\ mine'[d] = mine'[e] => d = e
      BY <1>0, <2>1, <2>4 DEF OwnRow
    <3>3. \A j \in Attach!Rows : j > rows' => row'[j].st = "none"
      BY <1>0, <1>a, <2>1, <2>3, <2>4 DEF OwnRow
    <3> QED BY <3>1, <3>2, <3>3 DEF OwnRow
  <2>7. Journalled'
    <3>1. ASSUME NEW j \in Attach!Rows, NEW n \in Contents, Holds(j, n)
          PROVE  Holds(j, n)'
      <4>1. CASE j = mine[c]
        <5>1. s = "copied"
          BY <2>2, <3>1, <4>1 DEF Holds
        <5> QED BY <2>1, <2>2, <2>3, <2>4, <3>1, <4>1, <5>1 DEF Holds
      <4>2. CASE j # mine[c]
        BY <2>1, <2>4, <3>1, <4>2 DEF Holds
      <4> QED BY <4>1, <4>2
    <3>2. \A j \in Attach!Rows : row'[j].st = "linked" => Attach!Referenced(row[j].name)'
      BY <1>0, <2>1, <2>2, <2>4 DEF Journalled, Attach!Referenced
    <3>3. \A n \in Contents :
            snap'[n] # None => Attach!Referenced(n)' \/ n \in skipped'
                \/ \E j \in Attach!Rows : Holds(j, n)'
      BY <1>0, <2>1, <3>1 DEF Journalled, Attach!Referenced
    <3> QED BY <3>2, <3>3 DEF Journalled
  <2> QED BY <2>5, <2>6, <2>7 DEF OrphanInv
<1>7. ASSUME NEW c \in Calls, Attach!Ingest(c)
      PROVE  OrphanInv'
  <2>1. /\ attachPc[c] = "ingest" /\ attachPc' = [attachPc EXCEPT ![c] = "accepted"]
           /\ row' = Attach!Linked(Attach!Name(c))
        /\ attachMsgs' = attachMsgs \cup {[key |-> attachKey[c], by |-> c, etag |-> Attach!Name(c)]}
        /\ UNCHANGED <<snap, copying, rows, etag, attachKey, mine, boot, skipped>>
    BY <1>7 DEF Attach!Ingest, Attach!disk, Attach!server
  <2>2. \A d \in Calls : (attachPc'[d] = "copy" <=> attachPc[d] = "copy")
          /\ Attach!Name(d)' = Attach!Name(d)
    BY <1>a, <2>1 DEF Attach!Name
  <2>3. /\ \A n \in Contents : Attach!Referenced(n) => Attach!Referenced(n)'
        /\ \A n : n = Attach!Name(c) => Attach!Referenced(n)'
    <3> DEFINE m == [key |-> attachKey[c], by |-> c, etag |-> Attach!Name(c)]
    <3>1. m \in attachMsgs' /\ m.etag = Attach!Name(c) /\ attachMsgs \subseteq attachMsgs'
      BY <2>1
    <3> HIDE DEF m
    <3> QED BY <3>1 DEF Attach!Referenced
  <2>4. \A j \in Attach!Rows : /\ row'[j].name = row[j].name
                               /\ \/ row'[j] = row[j]
                                  \/ row[j].name = Attach!Name(c) /\ row[j].st = "copied"
                                      /\ row'[j].st = "linked"
    BY <1>a, <2>1 DEF Attach!Linked
  <2>5. CopyAwaited'
    BY <1>0, <1>a, <2>1, <2>2 DEF CopyAwaited
  <2>6. OwnRow'
    <3>1. ASSUME NEW d \in Calls, attachPc'[d] = "copy"
          PROVE  mine'[d] \in 1..rows' /\ row'[mine'[d]] = [name |-> Attach!Name(d)',
                 st |-> "staging"]
      BY <1>0, <1>a, <2>1, <2>2, <2>4, <3>1 DEF OwnRow
    <3>2. \A j \in Attach!Rows : j > rows' => row'[j].st = "none"
      BY <1>0, <2>1, <2>4 DEF OwnRow
    <3> QED BY <1>0, <2>1, <2>2, <3>1, <3>2 DEF OwnRow
  <2>7. Journalled'
    <3>1. \A j \in Attach!Rows : row'[j].st = "linked" => Attach!Referenced(row[j].name)'
      <4>1. ASSUME NEW j \in Attach!Rows, row'[j].st = "linked"
            PROVE  Attach!Referenced(row[j].name)'
        <5>1. row'[j].name = row[j].name
          BY <2>4
        <5>2. CASE row'[j] = row[j]
          <6>1. Attach!Referenced(row[j].name)
            BY <1>0, <4>1, <5>2 DEF Journalled
          <6> QED BY <2>1, <5>1, <6>1 DEF Attach!Referenced
        <5>3. CASE row[j].name = Attach!Name(c)
          BY <2>3, <5>1, <5>3 DEF Attach!Referenced
        <5> QED BY <2>4, <5>2, <5>3
      <4> QED BY <4>1
    <3>2. \A n \in Contents :
            snap'[n] # None => Attach!Referenced(n)' \/ n \in skipped'
                \/ \E j \in Attach!Rows : Holds(j, n)'
      <4>1. ASSUME NEW n \in Contents, n # Attach!Name(c), NEW j \in Attach!Rows, Holds(j, n)
            PROVE  Holds(j, n)'
        BY <2>1, <2>4, <4>1 DEF Holds
      <4> QED BY <1>0, <2>1, <2>3, <4>1 DEF Journalled
    <3> QED BY <3>1, <3>2 DEF Journalled
  <2> QED BY <2>5, <2>6, <2>7 DEF OrphanInv
<1>8. CASE \/ Attach!Change \/ Attach!Archive \/ Attach!ArchiveSpace
           \/ Attach!RestoreSpace \/ Attach!Restore \/ UNCHANGED Attach!vars
  <2>1. UNCHANGED <<snap, copying, row, rows, attachMsgs, etag, attachPc, attachKey, mine, boot,
          skipped>>
    BY <1>8 DEF Attach!Change, Attach!Archive, Attach!ArchiveSpace, Attach!RestoreSpace,
       Attach!Restore, Attach!vars, Attach!disk, Attach!tables,
       Attach!call, Attach!server
  <2>2. \A d \in Calls : Attach!Name(d)' = Attach!Name(d)
    BY <2>1 DEF Attach!Name
  <2> QED BY <1>1, <2>1, <2>2
<1>9. CASE Attach!Crash
  <2>1. /\ boot' = "scan" /\ copying' = {}
        /\ attachPc' = [c \in Calls |-> IF attachPc[c] \in AttachWorking THEN "lost" ELSE attachPc[c]]
        /\ UNCHANGED <<snap, row, rows, attachMsgs, etag, attachKey, mine, skipped>>
    BY <1>9 DEF Attach!Crash, Attach!tables
  <2>2. \A c \in Calls : attachPc'[c] # "copy"
    BY <2>1
  <2>3. CopyAwaited'
    BY <2>1 DEF CopyAwaited
  <2>4. OwnRow'
    BY <1>0, <2>1, <2>2 DEF OwnRow
  <2>5. Journalled'
    BY <1>0, <2>1 DEF Journalled, Holds, Attach!Referenced
  <2> QED BY <2>3, <2>4, <2>5 DEF OrphanInv
<1>10. CASE Attach!Recover
  <2>1. /\ UNCHANGED <<rows, etag, attachMsgs, attachPc, attachKey, mine, copying>>
        /\ boot = "scan" /\ copying = {} /\ \A c \in Calls : attachPc[c] # "copy"
        /\ skipped \subseteq skipped'
    BY <1>0, <1>10, RecoverFacts DEF CopyAwaited, IdleWhenDown
  <2>2. CASE UNCHANGED <<snap, row>>
    BY <1>1, <2>1, <2>2
  <2>3. CASE ~UNCHANGED <<snap, row>>
    <3>1. PICK j \in Attach!Pending, s \in {"linked", "cleaned", "aborted"} :
            /\ row' = [row EXCEPT ![j].st = s]
            /\ s = "linked" => Attach!Referenced(row[j].name)
            /\ s = "aborted" /\ row[j].name \in Contents =>
                           snap[row[j].name] = None \/ row[j].name \in skipped'
            /\ s = "cleaned" => \/ Attach!OtherActive(j) /\ ~Attach!Referenced(row[j].name)
                                \/ snap'[row[j].name] = None
            /\ \/ snap' = snap
               \/ /\ ~Attach!Referenced(row[j].name) /\ row[j].name \in Contents
                  /\ snap' = [snap EXCEPT ![row[j].name] = None]
      BY <1>0, <1>10, <2>3, RecoverFacts
    <3>2. /\ j \in Attach!Rows /\ row'[j].name = row[j].name /\ row'[j].st = s
          /\ row[j].st # "none" /\ \A i \in Attach!Rows \ {j} : row'[i] = row[i]
      BY <1>a, <3>1 DEF Attach!Pending
    <3>3. \A n \in Contents : snap'[n] # None => snap'[n] = snap[n]
      BY <1>a, <3>1
    <3>4. CopyAwaited'
      BY <2>1 DEF CopyAwaited
    <3>5. OwnRow'
      BY <1>0, <2>1, <3>2 DEF OwnRow
    <3>6. \A i \in Attach!Rows : row'[i].st = "linked" => Attach!Referenced(row[i].name)'
      BY <1>0, <2>1, <3>1, <3>2 DEF Journalled, Attach!Referenced
    <3>7. ASSUME NEW n \in Contents, snap'[n] # None, ~Attach!Referenced(n), n \notin skipped'
          PROVE  \E i \in Attach!Rows : Holds(i, n)'
      <4>1. PICK i \in Attach!Rows : Holds(i, n)
        BY <1>0, <2>1, <3>3, <3>7 DEF Journalled
      <4>2. CASE i # j
        BY <2>1, <3>2, <4>1, <4>2 DEF Holds
      <4>3. CASE i = j
        <5>1. row[j].name = n
          BY <4>1, <4>3 DEF Holds
        <5>2. Attach!OtherActive(j)
          BY <3>1, <3>3, <3>7, <5>1
        <5>3. PICK h \in Attach!Rows \ {j} : row[h].name = n
                /\ row[h].st \in {"staging", "copied", "linked"}
          BY <5>1, <5>2 DEF Attach!OtherActive
        <5>4. row[h].st # "linked"
          BY <1>0, <3>7, <5>3 DEF Journalled
        <5> QED BY <2>1, <3>2, <5>3, <5>4 DEF Holds
      <4> QED BY <4>2, <4>3
    <3>8. Journalled'
      BY <2>1, <3>6, <3>7 DEF Journalled, Attach!Referenced
    <3> QED BY <3>4, <3>5, <3>8 DEF OrphanInv
  <2> QED BY <2>2, <2>3
<1> QED BY <1>2, <1>3, <1>4, <1>5, <1>6, <1>7, <1>8, <1>9, <1>10 DEF Attach!Next,
           Attach!Step

(* A start that succeeds has no pending row left.                           *)
LEMMA OrphansCollectedStep ==
  Attach!AttachmentsAssumption /\ AttachInv /\ OrphanInv /\ [Attach!Next]_(Attach!vars)
      => [Attach!OrphansCollected]_(Attach!vars)
<1> SUFFICES ASSUME Attach!AttachmentsAssumption, AttachInv, OrphanInv, [Attach!Next]_(Attach!vars),
                    boot = "scan", boot' = "up"
             PROVE  \A n \in Contents : snap'[n] # None => Attach!Referenced(n) \/ n \in skipped
  BY DEF Attach!OrphansCollected
<1>1. AttachTyped /\ IdleWhenDown /\ Journalled
  BY DEF AttachInv, OrphanInv
<1>2. Attach!Recover
  <2>1. ASSUME NEW c \in Calls, Attach!Step(c)
        PROVE  FALSE
    BY <2>1 DEF Attach!Step, Attach!Send, Attach!Stat, Attach!Look, Attach!Copy,
       Attach!CopyReply, Attach!CopyFails, Attach!Preflight, Attach!IngestNot,
                Attach!Ingest, Attach!server
  <2> QED BY <2>1 DEF Attach!Next, Attach!vars, Attach!Change, Attach!Archive, Attach!ArchiveSpace,
             Attach!RestoreSpace, Attach!Restore, Attach!Crash, Attach!server
<1>3. Attach!Pending = {} /\ UNCHANGED snap
  BY <1>1, <1>2, RecoverFacts
<1> QED BY <1>1, <1>3 DEF Journalled, Holds, Attach!Pending

(* A key makes one message; the snapshot of a message is there; and where   *)
(* the caller hears the truth about its copy, no other one is left, except  *)
(* by a recovery that found the space archived.                             *)
THEOREM AttachmentsKept ==
  ASSUME Attach!AttachmentsAssumption
  PROVE  Attach!Spec => /\ []Attach!TypeOK /\ []Attach!IngestedOnce /\ []Attach!AttachmentThere
                        /\ ~LostReplies => [][Attach!OrphansCollected]_(Attach!vars)
<1>1. Attach!Init => AttachInv /\ OrphanInv
  BY AttachInvInit, OrphanInvInit
<1>2. AttachInv /\ [Attach!Next]_(Attach!vars) => AttachInv'
  BY AttachInvStep
<1>3. ~LostReplies /\ AttachInv /\ OrphanInv /\ [Attach!Next]_(Attach!vars) => OrphanInv'
  BY OrphanInvStep
<1>4. AttachInv /\ OrphanInv /\ [Attach!Next]_(Attach!vars)
        => [Attach!OrphansCollected]_(Attach!vars)
  BY OrphansCollectedStep
<1>5. AttachInv => Attach!TypeOK /\ Attach!IngestedOnce /\ Attach!AttachmentThere
  BY DEF AttachInv, AttachTyped
<1>6. Attach!Spec => []AttachInv
  BY <1>1, <1>2, PTL DEF Attach!Spec
<1>7. CASE ~LostReplies
  <2>1. AttachInv /\ OrphanInv /\ [Attach!Next]_(Attach!vars) => OrphanInv'
    BY <1>3, <1>7
  <2>2. Attach!Spec => [][Attach!OrphansCollected]_(Attach!vars)
    BY <1>1, <1>4, <1>6, <2>1, PTL DEF Attach!Spec
  <2> QED BY <1>5, <1>6, <2>2, PTL
<1>8. CASE LostReplies
  BY <1>5, <1>6, <1>8, PTL
<1> QED BY <1>7, <1>8

-----------------------------------------------------------------------------
(* Origins of turns.                                                       *)

Message == [p : 0..Platform, c : Children \cup {"none"}]
ContextSet == [id : Orig!Ids, origin : Orig!Ids, cause : Children \cup {"none"}]

AgentSet == [int : 0..MaxTurn, running : BOOLEAN, by : Seq(Message), inbox : Seq(Message),
             replied : Seq(Nat)]
KidSet == [state : {"none", "running", "settled"}, of : Nat]
TaskSet == [pc : {"none", "bound", "waiting"}, p : 0..Platform, int : Nat, observed : BOOLEAN,
            start : Nat]
PendSet == [origin : Orig!Ids, cause : Children]
FrameSet == [k : {"started", "ended"}, int : Nat, id : Orig!Ids, origin : Orig!Ids,
             cause : Children \cup {"none"}]
LeftSet == [turns : 0..Platform, restarts : Nat]

OriginsTyped ==
  /\ agent \in AgentSet /\ Len(agent.by) = agent.int
  /\ kids \in [Children -> KidSet] /\ task \in TaskSet
  /\ originActive \in 0..Platform /\ auto \in ContextSet /\ intMap \in [1..MaxTurn -> ContextSet]
  /\ pend \in Seq(PendSet) /\ jobs \in Seq(Jobs)
  /\ origins \in [Children -> Orig!Ids] /\ store \in [Children -> Orig!Ids]
  /\ frames \in Seq(FrameSet) /\ left \in LeftSet

(* The id of a turn of the agent.                                          *)
IdIn(a, n) == IF a.by[n].p # 0 THEN a.by[n].p ELSE -n

(* A turn of the agent answers a platform turn or the notice of a child    *)
(* that was started before; so does what waits.                            *)
Known(k, m) ==
  \/ m.p # 0 /\ m.c = "none"
  \/ m.p = 0 /\ m.c # "none" /\ k[m.c].state # "none"

Started ==
  \A n \in 1..agent.int : Known(kids, agent.by[n])

(* The turn that started a child is recorded for it.                       *)
ChildKnown(c) ==
  /\ kids[c].state = "none" => store[c] = 0 /\ origins[c] = 0
  /\ kids[c].state # "none" =>
       /\ kids[c].of \in 1..agent.int
       /\ store[c] = IdIn(agent, kids[c].of) /\ origins[c] \in {0, store[c]}

(* A job that runs is the one not matched yet.                             *)
JobKnown(c) ==
  /\ kids[c].state = "none" => jobs = <<>>
  /\ kids[c].state = "running" => Len(jobs) = 1

(* While sendFollowup is not at work, the notices that wait are those with *)
(* a pending origin, in the same order; else only its message waits.       *)
Unstarted == task.pc = "bound" \/ (task.pc = "waiting" /\ agent.inbox # <<>>)

Waits ==
  /\ task.pc = "none" =>
       /\ Len(pend) = Len(agent.inbox)
       /\ \A k \in 1..Len(agent.inbox) :
            LET m == agent.inbox[k]
            IN  /\ m.p = 0 /\ Known(kids, m)
                /\ pend[k].cause = m.c /\ pend[k].origin = IdIn(agent, kids[m.c].of)
  /\ task.pc # "none" => pend = <<>> /\ task.p # 0
  /\ Unstarted => ~agent.running /\ task.int = agent.int + 1 /\ agent.int < MaxTurn
  /\ task.pc = "bound" => agent.inbox = <<>>
  /\ task.pc = "waiting" /\ agent.inbox # <<>> =>
       Len(agent.inbox) = 1 /\ agent.inbox[1].p = task.p /\ agent.inbox[1].c = "none"

(* What the relay says of a turn of the agent.                             *)
Tells(a, k, x, n) ==
  /\ x.id = IdIn(a, n)
  /\ a.by[n].c = "none" => x.cause = "none"
  /\ a.by[n].c # "none" =>
       x.cause = a.by[n].c /\ x.origin = IdIn(a, k[a.by[n].c].of)

Contexts ==
  /\ originActive \in {0, task.p} /\ (task.pc = "none" => originActive = 0)
  /\ agent.running => agent.int > 0 /\ Tells(agent, kids, intMap[agent.int], agent.int)
  /\ \A n \in 1..MaxTurn : n > agent.int =>
       IF Unstarted /\ n = agent.int + 1 THEN intMap[n] = Orig!Context(task.p, 0, "none")
       ELSE intMap[n] = Orig!NoContext

Frames ==
  \A i \in 1..Len(frames) : frames[i].int \in 1..agent.int
      /\ Tells(agent, kids, frames[i], frames[i].int)

OriginsInv ==
  /\ OriginsTyped /\ Started /\ (\A c \in Children : ChildKnown(c))
  /\ (\A c \in Jobs : JobKnown(c)) /\ Waits /\ Contexts /\ Frames


(* Where the frames are true: no child reports while a platform turn is    *)
(* bound, and there is at most one job, since notices of jobs have no id.  *)
Apart == Orig!OriginsAssumption /\ ~Overlap /\ \A c, d \in Jobs : c = d

(* What was said of a turn or of a child that was started stays.           *)
Stays ==
  /\ agent.int <= agent'.int /\ \A n \in 1..agent.int : agent'.by[n] = agent.by[n]
  /\ \A c \in Children : kids[c].state # "none" =>
       kids'[c].of = kids[c].of /\ kids'[c].state # "none"

LEMMA AgentFields ==
  ASSUME Apart, OriginsInv
  PROVE  /\ agent.int \in Nat /\ agent.int \in 0..MaxTurn /\ agent.running \in BOOLEAN
         /\ agent.by \in Seq(Message) /\ agent.inbox \in Seq(Message) /\ agent.replied \in Seq(Nat)
         /\ Len(agent.by) = agent.int /\ MaxTurn \in Nat /\ Platform \in Nat /\ Restarts \in Nat
         /\ \A n \in 1..agent.int : agent.by[n] \in Message
         /\ \A n \in 1..Len(agent.inbox) : agent.inbox[n] \in Message
BY DEF Apart, Orig!OriginsAssumption, OriginsInv, OriginsTyped, AgentSet

(* What the steps do to the record of the agent.                           *)
LEMMA InboxUpdate ==
  ASSUME NEW a \in AgentSet, NEW m \in Seq(Message), NEW z, z = [a EXCEPT !.inbox = m]
  PROVE  /\ z \in AgentSet /\ z.inbox = m
         /\ z.int = a.int /\ z.running = a.running /\ z.by = a.by
<1>1. ASSUME NEW I, NEW S, NEW T, a \in [int : I, running : BOOLEAN, by : S, inbox : S,
             replied : T],
             m \in S
      PROVE  /\ z \in [int : I, running : BOOLEAN, by : S, inbox : S, replied : T] /\ z.inbox = m
             /\ z.int = a.int /\ z.running = a.running /\ z.by = a.by
  BY <1>1
<1> QED BY <1>1 DEF AgentSet

LEMMA ReplyUpdate ==
  ASSUME NEW a \in AgentSet, NEW r \in Seq(Nat), NEW z,
         z = [a EXCEPT !.running = FALSE, !.replied = r]
  PROVE  /\ z \in AgentSet /\ z.inbox = a.inbox
         /\ z.int = a.int /\ z.running = FALSE /\ z.by = a.by
<1>1. ASSUME NEW I, NEW S, NEW T, a \in [int : I, running : BOOLEAN, by : S, inbox : S,
             replied : T],
             r \in T
      PROVE  /\ z \in [int : I, running : BOOLEAN, by : S, inbox : S, replied : T]
             /\ z.inbox = a.inbox /\ z.int = a.int /\ z.running = FALSE /\ z.by = a.by
  BY <1>1
<1> QED BY <1>1 DEF AgentSet

LEMMA TaskFields ==
  ASSUME Apart, OriginsInv
  PROVE  /\ task.pc \in {"none", "bound", "waiting"} /\ task.p \in 0..Platform /\ task.int \in Nat
         /\ left.turns \in 0..Platform /\ left.restarts \in Nat
BY DEF OriginsInv, OriginsTyped, TaskSet, LeftSet

LEMMA StaysTold ==
  ASSUME Apart, OriginsInv, Stays
  PROVE  /\ \A n \in 1..agent.int : IdIn(agent', n) = IdIn(agent, n)
         /\ \A m \in Message : Known(kids, m) => Known(kids', m)
         /\ \A c \in Children : kids[c].state # "none" =>
              IdIn(agent', kids'[c].of) = IdIn(agent, kids[c].of)
         /\ \A x : \A n \in 1..agent.int : Tells(agent, kids, x, n) => Tells(agent', kids', x, n)
<1>1. ASSUME NEW n \in 1..agent.int PROVE IdIn(agent', n) = IdIn(agent, n)
  BY <1>1 DEF Stays, IdIn
<1>2. ASSUME NEW m \in Message, Known(kids, m) PROVE Known(kids', m)
  BY <1>2 DEF Stays, Known, Message
<1>3. ASSUME NEW c \in Children, kids[c].state # "none"
      PROVE  IdIn(agent', kids'[c].of) = IdIn(agent, kids[c].of)
  <2>1. kids'[c].of = kids[c].of /\ kids[c].of \in 1..agent.int
    BY <1>3 DEF Stays, OriginsInv, ChildKnown
  <2> QED BY <2>1, <1>1
<1>4. ASSUME NEW x, NEW n \in 1..agent.int, Tells(agent, kids, x, n) PROVE Tells(agent', kids', x,
             n)
  <2>1. agent'.by[n] = agent.by[n] /\ IdIn(agent', n) = IdIn(agent, n)
    BY <1>1 DEF Stays
  <2>2. CASE agent.by[n].c = "none"
    BY <1>4, <2>1, <2>2 DEF Tells
  <2>3. CASE agent.by[n].c # "none"
    <3> DEFINE c == agent.by[n].c
    <3>1. agent.by[n] \in Message /\ Known(kids, agent.by[n])
      BY AgentFields DEF OriginsInv, Started
    <3>2. c \in Children /\ kids[c].state # "none"
      BY <2>3, <3>1 DEF Known, Message
    <3>3. IdIn(agent', kids'[c].of) = IdIn(agent, kids[c].of)
      BY <1>3, <3>2
    <3> QED BY <1>4, <2>1, <2>3, <3>3 DEF Tells
  <2> QED BY <2>2, <2>3
<1> QED BY <1>1, <1>2, <1>3, <1>4

(* Frames that were sent, turns that began and children stay as told.      *)
LEMMA StaysFrames ==
  ASSUME Apart, OriginsInv, Stays, agent'.int \in Nat, frames' = frames
  PROVE  Frames'
<1>1. ASSUME NEW i \in 1..Len(frames)
      PROVE  frames[i].int \in 1..agent'.int /\ Tells(agent', kids', frames[i], frames[i].int)
  <2>1. frames[i].int \in 1..agent.int /\ Tells(agent, kids, frames[i], frames[i].int)
    BY DEF OriginsInv, Frames
  <2>2. 1..agent.int \subseteq 1..agent'.int
    BY AgentFields DEF Stays
  <2> QED BY <2>1, <2>2, StaysTold
<1> QED BY <1>1 DEF Frames

LEMMA StaysStarted ==
  ASSUME Apart, OriginsInv, Stays, agent'.int = agent.int
  PROVE  Started'
<1>1. ASSUME NEW n \in 1..agent.int PROVE Known(kids', agent'.by[n])
  <2>1. agent.by[n] \in Message /\ Known(kids, agent.by[n]) /\ agent'.by[n] = agent.by[n]
    BY AgentFields DEF OriginsInv, Started, Stays
  <2> QED BY <2>1, StaysTold
<1> QED BY <1>1 DEF Started

LEMMA StaysChild ==
  ASSUME Apart, OriginsInv, Stays, agent'.int \in Nat, NEW c \in Children,
         kids'[c].state = "none" <=> kids[c].state = "none", store'[c] = store[c],
         origins'[c] \in {0, origins[c], store[c]}
  PROVE  ChildKnown(c)'
<1>1. ChildKnown(c)
  BY DEF OriginsInv
<1>2. CASE kids[c].state = "none"
  BY <1>1, <1>2 DEF ChildKnown
<1>3. CASE kids[c].state # "none"
  <2>1. /\ kids[c].of \in 1..agent.int /\ kids'[c].of = kids[c].of
        /\ IdIn(agent', kids'[c].of) = IdIn(agent, kids[c].of)
    BY <1>1, <1>3, StaysTold DEF ChildKnown, Stays
  <2>2. kids'[c].of \in 1..agent'.int
    BY <2>1, AgentFields DEF Stays
  <2> QED BY <1>1, <1>3, <2>1, <2>2 DEF ChildKnown
<1> QED BY <1>2, <1>3

LEMMA IdTyped ==
  ASSUME Apart, OriginsInv, NEW n \in 1..agent.int
  PROVE  IdIn(agent, n) \in Orig!Ids /\ IdIn(agent, n) # 0
<1>1. agent.by[n] \in Message
  BY AgentFields
<1>2. agent.by[n].p \in 0..Platform
  BY <1>1 DEF Message
<1> QED BY <1>2, AgentFields DEF IdIn, Orig!Ids

LEMMA NoContextTyped ==
  ASSUME Orig!OriginsAssumption
  PROVE  Orig!NoContext \in ContextSet /\ \A p \in 0..Platform : Orig!Context(p, 0,
         "none") \in ContextSet
<1>1. 0 \in Orig!Ids /\ \A p \in 0..Platform : p \in Orig!Ids
  BY DEF Orig!OriginsAssumption, Orig!Ids
<1> QED BY <1>1 DEF Orig!NoContext, Orig!Context, ContextSet

LEMMA OriginsInvInit == Apart /\ Orig!Init => OriginsInv
<1> SUFFICES ASSUME Apart, Orig!Init PROVE OriginsInv
  OBVIOUS
<1> USE DEF Apart, Orig!OriginsAssumption
<1>1. OriginsTyped
  <2>1. agent \in AgentSet /\ Len(agent.by) = agent.int
    BY DEF Orig!Init, AgentSet
  <2>2. kids \in [Children -> KidSet] /\ task \in TaskSet /\ left \in LeftSet
    BY DEF Orig!Init, KidSet, Orig!NoTask, TaskSet, LeftSet
  <2>3. originActive \in 0..Platform /\ auto \in ContextSet /\ intMap \in [1..MaxTurn -> ContextSet]
    BY NoContextTyped DEF Orig!Init
  <2>4. origins \in [Children -> Orig!Ids] /\ store \in [Children -> Orig!Ids]
    BY DEF Orig!Init, Orig!Ids
  <2> QED BY <2>1, <2>2, <2>3, <2>4 DEF OriginsTyped, Orig!Init
<1>2. Started /\ (\A c \in Children : ChildKnown(c)) /\ (\A c \in Jobs : JobKnown(c)) /\ Frames
  BY DEF Orig!Init, Started, ChildKnown, JobKnown, Frames
<1>3. Waits
  BY DEF Orig!Init, Waits, Unstarted, Orig!NoTask
<1>4. Contexts
  BY DEF Orig!Init, Contexts, Unstarted, Orig!NoTask
<1> QED BY <1>1, <1>2, <1>3, <1>4 DEF OriginsInv

(* Each step keeps the invariant.                                          *)
LEMMA BindInv ==
  ASSUME Apart, OriginsInv, NEW p \in 1..Platform, Orig!Bind(p)
  PROVE  OriginsInv'
<1>1. /\ ~agent.running /\ agent.inbox = <<>> /\ Len(agent.inbox) = 0
      /\ agent.int + 1 \in 1..MaxTurn /\ agent.int < MaxTurn
  BY AgentFields DEF Orig!Bind, Apart
<1>2. /\ UNCHANGED <<agent, kids, store, frames, auto, origins, jobs>> /\ pend' = <<>>
         /\ originActive' = p
      /\ intMap' = [intMap EXCEPT ![agent.int + 1] = Orig!Context(p, 0, "none")]
      /\ task' = [pc |-> "bound", p |-> p, int |-> agent.int + 1, observed |-> FALSE,
                  start |-> Len(agent.replied)]
      /\ left' = [left EXCEPT !.turns = @ - 1] /\ left.turns > 0
  BY <1>1 DEF Orig!Bind, Orig!BindTurnContext, Orig!GuessedTurn
<1>3. Stays
  BY <1>2, AgentFields DEF Stays
<1>4. OriginsTyped'
  <2>1. task' \in TaskSet
    <3>1. Len(agent.replied) \in Nat
      BY AgentFields
    <3> QED BY <1>2, <3>1, AgentFields DEF TaskSet
  <2>2. left' \in LeftSet
    <3>1. left \in LeftSet
      BY DEF OriginsInv, OriginsTyped
    <3> QED BY <1>2, <3>1, AgentFields, SMTT(30) DEF LeftSet
  <2>3. intMap' \in [1..MaxTurn -> ContextSet] /\ originActive' \in 0..Platform
    BY <1>1, <1>2, NoContextTyped, AgentFields DEF OriginsInv, OriginsTyped, Apart
  <2> QED BY <1>2, <2>1, <2>2, <2>3 DEF OriginsInv, OriginsTyped
<1>5. Started' /\ Frames' /\ \A c \in Children : ChildKnown(c)'
  BY <1>2, <1>3, StaysFrames, StaysStarted, StaysChild, AgentFields
<1>6. \A c \in Jobs : JobKnown(c)'
  BY <1>2 DEF OriginsInv, JobKnown
<1>7. Waits'
  BY <1>1, <1>2, AgentFields DEF Waits, Unstarted
<1>8. Contexts'
  <2>1. Unstarted' /\ ~Unstarted
    BY <1>1, <1>2 DEF Unstarted, Orig!Bind
  <2>2. \A n \in 1..MaxTurn : intMap'[n] = IF n = agent.int + 1 THEN Orig!Context(p, 0,
          "none") ELSE intMap[n]
    BY <1>1, <1>2 DEF OriginsInv, OriginsTyped
  <2> QED BY <1>1, <1>2, <2>1, <2>2 DEF OriginsInv, Contexts
<1> QED BY <1>4, <1>5, <1>6, <1>7, <1>8 DEF OriginsInv

LEMMA SendInv ==
  ASSUME Apart, OriginsInv, Orig!Send
  PROVE  OriginsInv'
<1>1. /\ ~agent.running /\ agent.inbox = <<>> /\ agent.int < MaxTurn /\ task.pc = "bound"
      /\ task.p # 0 /\ task.int = agent.int + 1 /\ pend = <<>>
  BY DEF Orig!Send, OriginsInv, Waits, Unstarted
<1>2. Orig!User(task.p) \in Message
  BY TaskFields DEF Orig!User, Message
<1>3. /\ agent'.int = agent.int /\ agent'.by = agent.by /\ agent'.running = agent.running
      /\ agent'.inbox = <<Orig!User(task.p)>> /\ agent' \in AgentSet
  <2>1. agent \in AgentSet /\ agent' = [agent EXCEPT !.inbox = Append(@, Orig!User(task.p))]
    BY DEF Orig!Send, OriginsInv, OriginsTyped
  <2>2. Append(agent.inbox, Orig!User(task.p)) = <<Orig!User(task.p)>>
          /\ <<Orig!User(task.p)>> \in Seq(Message)
    BY <1>1, <1>2
  <2> DEFINE q == <<Orig!User(task.p)>>
  <2>3. agent' = [agent EXCEPT !.inbox = q] /\ q \in Seq(Message)
    BY <2>1, <2>2
  <2> HIDE DEF q
  <2>4. /\ agent' \in AgentSet /\ agent'.inbox = q
        /\ agent'.int = agent.int /\ agent'.running = agent.running /\ agent'.by = agent.by
    <3>1. agent \in AgentSet
      BY <2>1
    <3> QED BY <2>3, <3>1, InboxUpdate
  <2> QED BY <2>4 DEF q
<1>4. /\ task' \in TaskSet /\ task'.pc = "waiting" /\ task'.p = task.p /\ task'.int = task.int
  BY DEF Orig!Send, OriginsInv, OriginsTyped, TaskSet
<1>5. UNCHANGED <<kids, originActive, auto, intMap, pend, origins, jobs, store, frames, left>>
  BY DEF Orig!Send, Orig!relay
<1>6. Stays
  BY <1>3, <1>5, AgentFields DEF Stays
<1>7. OriginsTyped'
  BY <1>3, <1>4, <1>5 DEF OriginsInv, OriginsTyped
<1>8. Started' /\ Frames' /\ \A c \in Children : ChildKnown(c)'
  BY <1>3, <1>5, <1>6, StaysFrames, StaysStarted, StaysChild, AgentFields
<1>9. \A c \in Jobs : JobKnown(c)'
  BY <1>5 DEF OriginsInv, JobKnown
<1>10. Waits'
  <2>1. Len(agent'.inbox) = 1 /\ agent'.inbox[1] = Orig!User(task.p)
    BY <1>3
  <2> QED BY <1>1, <1>3, <1>4, <1>5, <2>1 DEF Waits, Unstarted, Orig!User
<1>11. Contexts'
  <2>1. Unstarted' /\ Unstarted
    BY <1>1, <1>3, <1>4 DEF Unstarted
  <2> QED BY <1>1, <1>3, <1>4, <1>5, <2>1 DEF OriginsInv, Contexts
<1> QED BY <1>7, <1>8, <1>9, <1>10, <1>11 DEF OriginsInv

LEMMA FinishInv ==
  ASSUME Apart, OriginsInv, Orig!Finish
  PROVE  OriginsInv'
<1>1. /\ ~agent.running /\ agent.inbox = <<>> /\ Len(agent.inbox) = 0 /\ ~Unstarted /\ ~Unstarted'
      /\ pend = <<>> /\ Len(pend) = 0 /\ originActive' = 0 /\ task' = Orig!NoTask
          /\ task'.pc = "none"
  BY DEF Orig!Finish, OriginsInv, Waits, Unstarted, Contexts, Orig!Unbind, Orig!NoTask
<1>2. UNCHANGED <<agent, kids, auto, intMap, pend, origins, jobs, store, frames, left>>
  BY DEF Orig!Finish
<1>3. Stays
  BY <1>2, AgentFields DEF Stays
<1>4. OriginsTyped'
  <2>1. Orig!NoTask \in TaskSet /\ 0 \in 0..Platform
    BY AgentFields DEF Orig!NoTask, TaskSet
  <2> QED BY <1>1, <1>2, <2>1 DEF OriginsInv, OriginsTyped
<1>5. Started' /\ Frames' /\ \A c \in Children : ChildKnown(c)'
  BY <1>2, <1>3, StaysFrames, StaysStarted, StaysChild, AgentFields
<1>6. \A c \in Jobs : JobKnown(c)'
  BY <1>2 DEF OriginsInv, JobKnown
<1>7. Waits'
  BY <1>1, <1>2 DEF Waits
<1>8. Contexts'
  BY <1>1, <1>2 DEF OriginsInv, Contexts
<1> QED BY <1>4, <1>5, <1>6, <1>7, <1>8 DEF OriginsInv

(* A turn starts: one for the message of sendFollowup, or one of the agent.*)
LEMMA TurnStartFacts ==
  ASSUME Apart, OriginsInv, Orig!TurnStart
  PROVE  /\ agent.int + 1 \in 1..MaxTurn /\ ~Orig!Rebinds(agent.int + 1)
         /\ agent'.int = agent.int + 1 /\ agent'.running = TRUE /\ agent' \in AgentSet
         /\ agent'.by[agent.int + 1] = agent.inbox[1] /\ Len(agent'.by) = agent.int + 1
         /\ agent'.inbox = Tail(agent.inbox) /\ agent.inbox # <<>> /\ Len(agent.inbox) > 0
         /\ agent.inbox[1] \in Message /\ Known(kids, agent.inbox[1]) /\ Stays
         /\ UNCHANGED <<kids, origins, jobs, store, left>>
<1>1. /\ ~agent.running /\ agent.inbox # <<>> /\ agent.int + 1 <= MaxTurn
      /\ agent' = [agent EXCEPT !.int = agent.int + 1, !.running = TRUE,
                     !.by = Append(@, Head(agent.inbox)), !.inbox = Tail(@)]
      /\ UNCHANGED <<kids, origins, jobs, store, left>>
  BY DEF Orig!TurnStart
<1>2. agent.int + 1 \in 1..MaxTurn
  BY <1>1, AgentFields
<1>3. /\ Len(agent.inbox) > 0 /\ Head(agent.inbox) = agent.inbox[1] /\ agent.inbox[1] \in Message
      /\ Tail(agent.inbox) \in Seq(Message)
  BY <1>1, AgentFields
<1>4. /\ Append(agent.by, agent.inbox[1]) \in Seq(Message)
      /\ Append(agent.by, agent.inbox[1])[agent.int + 1] = agent.inbox[1]
      /\ Len(Append(agent.by, agent.inbox[1])) = agent.int + 1
      /\ \A n \in 1..agent.int : Append(agent.by, agent.inbox[1])[n] = agent.by[n]
  BY <1>3, AgentFields
<1>5. /\ agent'.int = agent.int + 1 /\ agent'.running = TRUE
      /\ agent'.by = Append(agent.by, agent.inbox[1])
      /\ agent'.inbox = Tail(agent.inbox) /\ agent' \in AgentSet
  <2>1. agent \in AgentSet /\ agent.int + 1 \in 0..MaxTurn
    BY <1>2, AgentFields DEF OriginsInv, OriginsTyped
  <2>2. agent' = [agent EXCEPT !.int = agent.int + 1, !.running = TRUE,
                    !.by = Append(agent.by, agent.inbox[1]), !.inbox = Tail(agent.inbox)]
    BY <1>1, <1>3
  <2> DEFINE b == Append(agent.by, agent.inbox[1])
             q == Tail(agent.inbox)
             n == agent.int + 1
  <2>3. agent' = [agent EXCEPT !.int = n, !.running = TRUE, !.by = b, !.inbox = q]
    BY <2>2
  <2>4. n \in 0..MaxTurn /\ b \in Seq(Message) /\ q \in Seq(Message)
    BY <1>3, <1>4, <2>1
  <2> HIDE DEF b, q, n
  <2>5. /\ agent' \in AgentSet /\ agent'.inbox = q /\ agent'.int = n /\ agent'.running = TRUE
        /\ agent'.by = b
    <3>1. agent \in AgentSet
      BY <2>1
    <3>2. ASSUME NEW I, NEW S, NEW T, n \in I, b \in S, q \in S,
                 agent \in [int : I, running : BOOLEAN, by : S, inbox : S, replied : T]
          PROVE  /\ agent' \in [int : I, running : BOOLEAN, by : S, inbox : S, replied : T]
                 /\ agent'.inbox = q /\ agent'.int = n /\ agent'.running = TRUE /\ agent'.by = b
      BY <2>3, <3>2
    <3> QED BY <2>4, <3>1, <3>2 DEF AgentSet
  <2> QED BY <2>5 DEF b, q, n
<1>6. Stays
  BY <1>1, <1>4, <1>5, AgentFields DEF Stays
<1>7. ~Orig!Rebinds(agent.int + 1)
  BY <1>1, TaskFields DEF Orig!Rebinds, OriginsInv, Waits, Unstarted
<1>8. Known(kids, agent.inbox[1])
  <2>1. CASE task.pc = "none"
    BY <1>3, <2>1, AgentFields DEF OriginsInv, Waits
  <2>2. CASE task.pc # "none"
    <3>1. agent.inbox[1].p = task.p /\ agent.inbox[1].c = "none" /\ task.p # 0
      BY <1>1, <2>2, TaskFields DEF OriginsInv, Waits
    <3> QED BY <3>1 DEF Known
  <2> QED BY <2>1, <2>2
<1> QED BY <1>1, <1>2, <1>3, <1>4, <1>5, <1>6, <1>7, <1>8

(* The frame of a turn that starts tells the truth.                        *)
LEMMA TurnStartTells ==
  ASSUME Apart, OriginsInv, Orig!TurnStart
  PROVE  \E x \in ContextSet :
           /\ frames' = Orig!Stamp("started", agent.int + 1, x)
           /\ intMap' = [intMap EXCEPT ![agent.int + 1] = x]
           /\ auto' \in {auto, x}
           /\ Tells(agent', kids', x, agent.int + 1)
           /\ task.pc = "none" => task' = task /\ pend' = Tail(pend) /\ pend # <<>>
           /\ task.pc # "none" => /\ task' = [task EXCEPT !.observed = TRUE] /\ pend' = pend
                                  /\ task.pc = "waiting" /\ agent'.inbox = <<>>
           /\ originActive' = originActive
<1> DEFINE n == agent.int + 1
           m == agent.inbox[1]
           platform == intMap[n].id # 0 \/ originActive # 0
           y == IF platform THEN Orig!Scoped(n, intMap, originActive, auto) ELSE Orig!Autonomous(n)
<1>1. /\ n \in 1..MaxTurn /\ ~Orig!Rebinds(n) /\ agent.inbox # <<>> /\ Len(agent.inbox) > 0
      /\ agent'.by[n] = m /\ m \in Message /\ Known(kids, m) /\ Stays
      /\ agent'.inbox = Tail(agent.inbox) /\ agent.inbox \in Seq(Message) /\ kids' = kids
  BY TurnStartFacts, AgentFields
<1>2. /\ frames' = Orig!Stamp("started", n, y)
      /\ auto' = IF platform THEN auto ELSE y
      /\ originActive' = originActive
      /\ intMap' = [intMap EXCEPT ![n] = IF platform THEN @ ELSE y]
      /\ pend' = IF platform THEN pend ELSE IF pend = <<>> THEN pend ELSE Tail(pend)
      /\ task' = IF task.pc = "none" THEN task ELSE [task EXCEPT !.int = @, !.observed = TRUE]
  BY <1>1 DEF Orig!TurnStart
<1>3. CASE task.pc = "none"
  <2>1. /\ Len(pend) = Len(agent.inbox) /\ m.p = 0
        /\ pend[1].cause = m.c /\ pend[1].origin = IdIn(agent, kids[m.c].of)
    <3>1. 1 \in 1..Len(agent.inbox)
      BY <1>1
    <3> QED BY <1>3, <3>1 DEF OriginsInv, Waits
  <2>2. pend \in Seq(PendSet)
    BY DEF OriginsInv, OriginsTyped
  <2>3. pend # <<>> /\ Head(pend) = pend[1] /\ pend[1] \in PendSet
    BY <1>1, <2>1, <2>2
  <2>4. originActive = 0 /\ intMap[n] = Orig!NoContext
    BY <1>1, <1>3, AgentFields DEF OriginsInv, Contexts, Unstarted
  <2> DEFINE x == Orig!Context(-n, pend[1].origin, pend[1].cause)
  <2>5. ~platform /\ y = x
    BY <2>3, <2>4 DEF Orig!Autonomous, Orig!NoContext, Orig!Context
  <2>6. x \in ContextSet /\ x.id = -n /\ x.cause = m.c /\ x.origin = IdIn(agent, kids[m.c].of)
    <3>1. -n \in Orig!Ids
      BY <1>1, AgentFields DEF Orig!Ids
    <3> QED BY <2>1, <2>3, <3>1 DEF Orig!Context, ContextSet, PendSet
  <2>7. Tells(agent', kids', x, n)
    <3>1. m.c \in Children /\ kids[m.c].state # "none" /\ m.c # "none"
      BY <1>1, <2>1 DEF Known, Message
    <3>2. IdIn(agent', kids'[m.c].of) = IdIn(agent, kids[m.c].of)
      BY <1>1, <3>1, StaysTold
    <3>3. IdIn(agent', n) = -n
      BY <1>1, <2>1 DEF IdIn
    <3> HIDE DEF x, n, m
    <3> QED BY <1>1, <2>6, <3>1, <3>2, <3>3 DEF Tells
  <2> HIDE DEF x, n, m, y, platform
  <2>8. /\ frames' = Orig!Stamp("started", n, x) /\ intMap' = [intMap EXCEPT ![n] = x]
        /\ auto' \in {auto, x} /\ task' = task /\ pend' = Tail(pend)
    BY <1>2, <1>3, <2>3, <2>5
  <2> QED BY <1>2, <1>3, <2>3, <2>6, <2>7, <2>8 DEF n
<1>4. CASE task.pc # "none"
  <2>1. /\ task.pc = "waiting" /\ m.p = task.p /\ m.c = "none" /\ Len(agent.inbox) = 1
        /\ Unstarted /\ task.p # 0
    BY <1>1, <1>4, TaskFields DEF OriginsInv, Waits, Unstarted
  <2>2. intMap[n] = Orig!Context(task.p, 0, "none")
    <3>1. n > agent.int
      BY AgentFields
    <3> QED BY <1>1, <2>1, <3>1 DEF OriginsInv, Contexts
  <2> DEFINE x == intMap[n]
  <2>3. x \in ContextSet /\ x.id = task.p /\ x.cause = "none"
    BY <1>1, <2>2 DEF OriginsInv, OriginsTyped, Orig!Context
  <2>4. platform /\ y = x
    BY <2>1, <2>3 DEF Orig!Scoped
  <2>5. Tells(agent', kids', x, n)
    <3>1. IdIn(agent', n) = task.p
      BY <1>1, <2>1 DEF IdIn
    <3> HIDE DEF x, n, m
    <3> QED BY <1>1, <2>1, <2>3, <3>1 DEF Tells
  <2>6. agent'.inbox = <<>>
    <3>1. Len(Tail(agent.inbox)) = 0 /\ Tail(agent.inbox) \in Seq(Message)
      BY <1>1, <2>1, HeadTailProperties
    <3> QED BY <1>1, <3>1, EmptySeq
  <2>7. intMap' = [intMap EXCEPT ![n] = x] /\ task' = [task EXCEPT !.observed = TRUE]
    <3>1. task \in TaskSet
      BY DEF OriginsInv, OriginsTyped
    <3> HIDE DEF y, platform
    <3> QED BY <1>2, <1>4, <2>4, <3>1 DEF TaskSet
  <2> HIDE DEF x, n, m, y, platform
  <2> QED BY <1>2, <1>4, <2>1, <2>3, <2>4, <2>5, <2>6, <2>7 DEF n
<1> QED BY <1>3, <1>4

(* A frame is appended that tells the truth of a turn.                     *)
LEMMA StampTells ==
  ASSUME Apart, OriginsInv, Stays, agent'.int \in Nat, NEW n \in 1..agent'.int,
         NEW x \in ContextSet,
         NEW k \in {"started", "ended"}, frames' = Orig!Stamp(k, n, x), Tells(agent', kids', x, n)
  PROVE  Frames' /\ frames' \in Seq(FrameSet)
<1> DEFINE f == [k |-> k, int |-> n, id |-> x.id, origin |-> x.origin, cause |-> x.cause]
<1>1. f \in FrameSet /\ frames \in Seq(FrameSet) /\ frames' = Append(frames, f)
  BY DEF FrameSet, ContextSet, Orig!Stamp, OriginsInv, OriginsTyped
<1>2. f.int = n /\ Tells(agent', kids', f, n)
  BY DEF Tells
<1> HIDE DEF f
<1>3. /\ frames' \in Seq(FrameSet) /\ Len(frames') = Len(frames) + 1 /\ frames'[Len(frames) + 1] = f
      /\ \A i \in 1..Len(frames) : frames'[i] = frames[i]
  BY <1>1
<1>4. ASSUME NEW i \in 1..Len(frames')
      PROVE  frames'[i].int \in 1..agent'.int /\ Tells(agent', kids', frames'[i], frames'[i].int)
  <2>1. CASE i = Len(frames) + 1
    BY <1>2, <1>3, <2>1
  <2>2. CASE i # Len(frames) + 1
    <3>1. i \in 1..Len(frames) /\ frames'[i] = frames[i]
      BY <1>1, <1>3, <2>2
    <3>2. frames[i].int \in 1..agent.int /\ Tells(agent, kids, frames[i], frames[i].int)
      BY <3>1 DEF OriginsInv, Frames
    <3>3. 1..agent.int \subseteq 1..agent'.int
      BY AgentFields DEF Stays
    <3> QED BY <3>1, <3>2, <3>3, StaysTold
  <2> QED BY <2>1, <2>2
<1> QED BY <1>3, <1>4 DEF Frames

(* The notices that wait, where each has a pending origin.                 *)
Queued(a, k, q) ==
  /\ Len(q) = Len(a.inbox)
  /\ \A i \in 1..Len(a.inbox) :
       /\ a.inbox[i].p = 0 /\ Known(k, a.inbox[i])
       /\ q[i].cause = a.inbox[i].c /\ q[i].origin = IdIn(a, k[a.inbox[i].c].of)

LEMMA QueuedHere ==
  ASSUME OriginsInv, task.pc = "none"
  PROVE  Queued(agent, kids, pend)
BY DEF OriginsInv, Waits, Queued

LEMMA QueuedNext ==
  ASSUME task'.pc = "none", Queued(agent', kids', pend')
  PROVE  Waits'
<1>1. ~Unstarted'
  BY DEF Unstarted
<1> QED BY <1>1 DEF Waits, Queued

LEMMA QueuedStays ==
  ASSUME Apart, OriginsInv, Stays, task.pc = "none", NEW i \in 1..Len(agent.inbox)
  PROVE  /\ agent.inbox[i].p = 0 /\ Known(kids', agent.inbox[i]) /\ Len(pend) = Len(agent.inbox)
         /\ pend[i].cause = agent.inbox[i].c
         /\ pend[i].origin = IdIn(agent', kids'[agent.inbox[i].c].of)
<1> DEFINE m == agent.inbox[i]
<1>1. /\ m.p = 0 /\ Known(kids, m) /\ pend[i].cause = m.c
         /\ pend[i].origin = IdIn(agent, kids[m.c].of)
      /\ Len(pend) = Len(agent.inbox)
  BY QueuedHere DEF Queued
<1>2. m \in Message
  BY AgentFields
<1>3. m.c \in Children /\ kids[m.c].state # "none"
  BY <1>1, <1>2 DEF Known, Message
<1> HIDE DEF m
<1>4. Known(kids', m) /\ IdIn(agent', kids'[m.c].of) = IdIn(agent, kids[m.c].of)
  BY <1>1, <1>2, <1>3, StaysTold
<1> QED BY <1>1, <1>4 DEF m

LEMMA TurnStartInv ==
  ASSUME Apart, OriginsInv, Orig!TurnStart
  PROVE  OriginsInv'
<1> DEFINE n == agent.int + 1
<1>1. PICK x \in ContextSet :
        /\ frames' = Orig!Stamp("started", n, x) /\ intMap' = [intMap EXCEPT ![n] = x]
        /\ auto' \in {auto, x} /\ Tells(agent', kids', x, n)
        /\ task.pc = "none" => task' = task /\ pend' = Tail(pend) /\ pend # <<>>
        /\ task.pc # "none" => /\ task' = [task EXCEPT !.observed = TRUE] /\ pend' = pend
                               /\ task.pc = "waiting" /\ agent'.inbox = <<>>
        /\ originActive' = originActive
  BY TurnStartTells
<1>2. /\ n \in 1..MaxTurn /\ agent'.int = n /\ agent'.running = TRUE /\ agent' \in AgentSet
      /\ agent'.by[n] = agent.inbox[1] /\ Len(agent'.by) = n /\ Stays
      /\ agent'.inbox = Tail(agent.inbox) /\ agent.inbox # <<>> /\ Len(agent.inbox) > 0
      /\ agent.inbox[1] \in Message /\ Known(kids, agent.inbox[1])
      /\ UNCHANGED <<kids, origins, jobs, store, left>>
  BY TurnStartFacts
<1>3. /\ Frames' /\ frames' \in Seq(FrameSet)
  <2>1. agent'.int \in Nat /\ n \in 1..agent'.int
    BY <1>2
  <2> HIDE DEF n
  <2> QED BY <1>1, <1>2, <2>1, StampTells
<1>4. task' \in TaskSet /\ task'.pc = task.pc /\ task'.p = task.p
  <2>1. task \in TaskSet
    BY DEF OriginsInv, OriginsTyped
  <2> QED BY <1>1, <2>1 DEF TaskSet
<1>5. OriginsTyped'
  <2>1. pend' \in Seq(PendSet)
    <3>1. pend \in Seq(PendSet)
      BY DEF OriginsInv, OriginsTyped
    <3>2. CASE task.pc = "none"
      <4>1. pend' = Tail(pend) /\ pend # <<>>
        BY <1>1, <3>2
      <4> QED BY <3>1, <4>1
    <3> QED BY <1>1, <3>1, <3>2
  <2> HIDE DEF n
  <2>2. intMap' \in [1..MaxTurn -> ContextSet] /\ auto' \in ContextSet
          /\ originActive' \in 0..Platform
    BY <1>1, <1>2 DEF OriginsInv, OriginsTyped
  <2> QED BY <1>2, <1>3, <1>4, <2>1, <2>2 DEF OriginsInv, OriginsTyped
<1>6. Started'
  <2>1. ASSUME NEW k \in 1..n PROVE Known(kids', agent'.by[k])
    <3>1. CASE k = n
      BY <1>2, <3>1
    <3>2. CASE k # n
      <4>1. k \in 1..agent.int
        BY <1>2, <3>2, AgentFields
      <4>2. agent.by[k] \in Message /\ agent'.by[k] = agent.by[k] /\ Known(kids, agent.by[k])
        BY <1>2, <4>1, AgentFields DEF OriginsInv, Started, Stays
      <4> QED BY <1>2, <4>2
    <3> QED BY <3>1, <3>2
  <2> QED BY <1>2, <2>1 DEF Started
<1>7. \A c \in Children : ChildKnown(c)'
  BY <1>2, StaysChild
<1>8. \A c \in Jobs : JobKnown(c)'
  BY <1>2 DEF OriginsInv, JobKnown
<1>9. Waits'
  <2>1. CASE task.pc = "none"
    <3>1. pend' = Tail(pend) /\ pend \in Seq(PendSet) /\ pend # <<>>
      BY <1>1, <2>1 DEF OriginsInv, OriginsTyped
    <3>2. Len(pend) = Len(agent.inbox)
      BY <2>1, QueuedHere DEF Queued
    <3>3. /\ Len(pend') = Len(agent'.inbox) /\ Len(agent'.inbox) = Len(agent.inbox) - 1
          /\ \A i \in 1..Len(agent'.inbox) : i + 1 \in 1..Len(agent.inbox)
          /\ \A i \in 1..Len(agent'.inbox) : agent'.inbox[i] = agent.inbox[i + 1]
          /\ \A i \in 1..Len(agent'.inbox) : pend'[i] = pend[i + 1]
      BY <1>2, <3>1, <3>2, AgentFields
    <3>4. Queued(agent', kids', pend')
      BY <1>2, <2>1, <3>3, QueuedStays DEF Queued
    <3> QED BY <1>4, <2>1, <3>4, QueuedNext
  <2>2. CASE task.pc # "none"
    <3>1. task'.pc = "waiting" /\ agent'.inbox = <<>> /\ pend' = pend
      BY <1>1, <1>4, <2>2
    <3>2. pend = <<>> /\ task.p # 0
      BY <2>2 DEF OriginsInv, Waits
    <3> QED BY <1>4, <3>1, <3>2 DEF Waits, Unstarted
  <2> QED BY <2>1, <2>2
<1>10. Contexts'
  <2>1. intMap'[n] = x /\ \A k \in 1..MaxTurn : k # n => intMap'[k] = intMap[k]
    BY <1>1, <1>2 DEF OriginsInv, OriginsTyped
  <2>2. ~Unstarted'
    BY <1>1, <1>4 DEF Unstarted
  <2>3. originActive' \in {0, task'.p} /\ (task'.pc = "none" => originActive' = 0)
    BY <1>1, <1>4 DEF OriginsInv, Contexts
  <2>4. ASSUME NEW k \in 1..MaxTurn, k > n PROVE intMap'[k] = Orig!NoContext
    <3>1. k > agent.int /\ k # agent.int + 1 /\ k # n
      BY <1>2, <2>4, AgentFields
    <3> QED BY <2>1, <3>1 DEF OriginsInv, Contexts
  <2>5. agent'.int > 0
    BY <1>2
  <2> HIDE DEF n
  <2> QED BY <1>1, <1>2, <2>1, <2>2, <2>3, <2>4, <2>5 DEF Contexts
<1> QED BY <1>3, <1>5, <1>6, <1>7, <1>8, <1>9, <1>10 DEF OriginsInv

LEMMA TurnEndInv ==
  ASSUME Apart, OriginsInv, Orig!TurnEnd
  PROVE  OriginsInv'
<1>1. /\ agent.running /\ agent.int \in 1..MaxTurn /\ Tells(agent, kids, intMap[agent.int],
         agent.int)
  BY AgentFields DEF Orig!TurnEnd, OriginsInv, Contexts
<1>2. /\ agent'.running = FALSE /\ agent'.int = agent.int /\ agent'.by = agent.by
      /\ agent'.inbox = agent.inbox /\ agent' \in AgentSet
  <2>1. agent \in AgentSet /\ Append(agent.replied, agent.int) \in Seq(Nat)
    BY AgentFields DEF OriginsInv, OriginsTyped
  <2>2. agent' = [agent EXCEPT !.running = FALSE, !.replied = Append(agent.replied, agent.int)]
    BY DEF Orig!TurnEnd
  <2> QED BY <2>1, <2>2, ReplyUpdate, ZenonT(60)
<1>3. UNCHANGED <<kids, task, intMap, pend, origins, jobs, store, left>>
        /\ originActive' \in {0, originActive}
  BY DEF Orig!TurnEnd, Orig!Unbind
<1>4. Stays
  BY <1>2, <1>3, AgentFields DEF Stays
<1> DEFINE n == agent.int
           x == intMap[n]
<1>5. x \in ContextSet
  BY <1>1 DEF OriginsInv, OriginsTyped
<1>6. Orig!Here = x
  BY <1>1, IdTyped, AgentFields DEF Orig!Here, Orig!Scoped, Tells
<1>7. Frames' /\ frames' \in Seq(FrameSet)
  <2>1. frames' = Orig!Stamp("ended", n, x) /\ agent'.int \in Nat /\ n \in 1..agent'.int
    BY <1>1, <1>2, <1>6, AgentFields DEF Orig!TurnEnd
  <2>2. Tells(agent', kids', x, n)
    BY <1>1, <1>4, StaysTold, AgentFields
  <2> HIDE DEF n, x
  <2> QED BY <1>4, <1>5, <2>1, <2>2, StampTells
<1>8. OriginsTyped'
  <2>1. auto' \in ContextSet
    BY NoContextTyped DEF Orig!TurnEnd, Apart
  <2>2. originActive' \in 0..Platform
    BY <1>3, AgentFields DEF OriginsInv, OriginsTyped
  <2> QED BY <1>2, <1>3, <1>7, <2>1, <2>2 DEF OriginsInv, OriginsTyped
<1>9. Started' /\ \A c \in Children : ChildKnown(c)'
  BY <1>2, <1>3, <1>4, StaysStarted, StaysChild, AgentFields
<1>10. \A c \in Jobs : JobKnown(c)'
  BY <1>3 DEF OriginsInv, JobKnown
<1>11. Waits'
  <2>1. CASE task.pc = "none"
    <3>1. Len(pend) = Len(agent.inbox)
      BY <2>1, QueuedHere DEF Queued
    <3>2. Queued(agent', kids', pend')
      BY <1>2, <1>3, <1>4, <2>1, <3>1, QueuedStays DEF Queued
    <3> QED BY <1>3, <2>1, <3>2, QueuedNext
  <2>2. CASE task.pc # "none"
    BY <1>1, <1>2, <1>3, <2>2 DEF OriginsInv, Waits, Unstarted
  <2> QED BY <2>1, <2>2
<1>12. Contexts'
  BY <1>2, <1>3 DEF OriginsInv, Contexts, Unstarted
<1> QED BY <1>7, <1>8, <1>9, <1>10, <1>11, <1>12 DEF OriginsInv

LEMMA SpawnInv ==
  ASSUME Apart, OriginsInv, NEW c \in Children, Orig!Spawn(c)
  PROVE  OriginsInv'
<1>1. /\ agent.running /\ kids[c].state = "none" /\ agent.int \in 1..MaxTurn
      /\ Tells(agent, kids, intMap[agent.int], agent.int)
      /\ UNCHANGED <<agent, task, originActive, auto, intMap, pend, frames, left>>
      /\ kids' = [kids EXCEPT ![c] = [state |-> "running", of |-> agent.int]]
  BY AgentFields DEF Orig!Spawn, OriginsInv, Contexts
<1>2. /\ kids \in [Children -> KidSet] /\ store \in [Children -> Orig!Ids]
         /\ origins \in [Children -> Orig!Ids]
      /\ jobs \in Seq(Jobs)
  BY DEF OriginsInv, OriginsTyped
<1>3. /\ kids'[c].state = "running" /\ kids'[c].of = agent.int
      /\ \A d \in Children : d # c => kids'[d] = kids[d]
  BY <1>1, <1>2
<1>4. Stays
  BY <1>1, <1>3, AgentFields DEF Stays
<1>5. /\ Orig!Initiator = IdIn(agent, agent.int) /\ IdIn(agent, agent.int) \in Orig!Ids
      /\ IdIn(agent, agent.int) # 0
  BY <1>1, IdTyped, AgentFields DEF Orig!Initiator, Tells
<1>6. /\ origins' = [origins EXCEPT ![c] = IdIn(agent, agent.int)]
      /\ store' = [store EXCEPT ![c] = IdIn(agent, agent.int)] /\ jobs' = Orig!RecordJob(c)
  BY <1>5 DEF Orig!Spawn
<1>7. OriginsTyped'
  <2>1. jobs' \in Seq(Jobs)
    BY <1>2, <1>6 DEF Orig!RecordJob
  <2>2. kids' \in [Children -> KidSet]
    <3>1. [state |-> "running", of |-> agent.int] \in KidSet
      BY AgentFields DEF KidSet
    <3> QED BY <1>1, <1>2, <3>1
  <2>3. origins' \in [Children -> Orig!Ids] /\ store' \in [Children -> Orig!Ids]
    BY <1>2, <1>5, <1>6
  <2> QED BY <1>1, <2>1, <2>2, <2>3 DEF OriginsInv, OriginsTyped
<1>8. Started' /\ Frames'
  BY <1>1, <1>4, StaysStarted, StaysFrames, AgentFields
<1>9. ASSUME NEW d \in Children PROVE ChildKnown(d)'
  <2>1. CASE d = c
    <3>1. store'[d] = IdIn(agent, agent.int) /\ origins'[d] = IdIn(agent, agent.int)
      BY <1>2, <1>6, <2>1
    <3> QED BY <1>1, <1>3, <2>1, <3>1, AgentFields DEF ChildKnown
  <2>2. CASE d # c
    <3>1. kids'[d] = kids[d] /\ store'[d] = store[d] /\ origins'[d] = origins[d]
      BY <1>2, <1>3, <1>6, <2>2
    <3> QED BY <1>1, <1>4, <3>1, StaysChild, AgentFields
  <2> QED BY <2>1, <2>2
<1>10. ASSUME NEW d \in Jobs PROVE JobKnown(d)'
  <2>1. JobKnown(d) /\ d \in Children
    BY DEF OriginsInv, Apart, Orig!OriginsAssumption
  <2>2. CASE d = c
    <3>1. jobs = <<>> /\ jobs' = Append(jobs, c)
      BY <1>1, <1>6, <2>1, <2>2 DEF JobKnown, Orig!RecordJob
    <3>2. Len(jobs') = 1
      BY <3>1
    <3> QED BY <1>3, <2>2, <3>2 DEF JobKnown
  <2>3. CASE d # c
    <3>1. c \notin Jobs
      BY <2>3 DEF Apart
    <3>2. jobs' = jobs /\ kids'[d] = kids[d]
      BY <1>3, <1>6, <2>1, <2>3, <3>1 DEF Orig!RecordJob
    <3> QED BY <2>1, <3>2 DEF JobKnown
  <2> QED BY <2>2, <2>3
<1>11. Waits'
  <2>1. CASE task.pc = "none"
    <3>1. Len(pend) = Len(agent.inbox)
      BY <2>1, QueuedHere DEF Queued
    <3>2. Queued(agent', kids', pend')
      BY <1>1, <1>4, <2>1, <3>1, QueuedStays DEF Queued
    <3> QED BY <1>1, <2>1, <3>2, QueuedNext
  <2>2. CASE task.pc # "none"
    BY <1>1, <2>2 DEF OriginsInv, Waits, Unstarted
  <2> QED BY <2>1, <2>2
<1>12. Contexts'
  <2>1. agent.int \in 1..agent.int
    BY <1>1, AgentFields
  <2>2. Tells(agent', kids', intMap[agent.int], agent.int)
    BY <1>1, <1>4, <2>1, StaysTold
  <2> QED BY <1>1, <2>2 DEF OriginsInv, Contexts, Unstarted
<1> QED BY <1>7, <1>8, <1>9, <1>10, <1>11, <1>12 DEF OriginsInv

LEMMA SettleInv ==
  ASSUME Apart, OriginsInv, NEW c \in Children, Orig!Settle(c)
  PROVE  OriginsInv'
<1>1. /\ kids[c].state = "running" /\ task.pc = "none"
      /\ UNCHANGED <<task, originActive, auto, intMap, store, frames, left>>
      /\ kids' = [kids EXCEPT ![c].state = "settled"]
  BY DEF Orig!Settle, Apart
<1>2. /\ kids \in [Children -> KidSet] /\ store \in [Children -> Orig!Ids]
         /\ origins \in [Children -> Orig!Ids]
      /\ jobs \in Seq(Jobs) /\ pend \in Seq(PendSet) /\ agent \in AgentSet
  BY DEF OriginsInv, OriginsTyped
<1>3. /\ kids' \in [Children -> KidSet] /\ kids'[c].state = "settled" /\ kids'[c].of = kids[c].of
      /\ \A d \in Children : d # c => kids'[d] = kids[d]
  BY <1>1, <1>2 DEF KidSet
<1>4. /\ kids[c].of \in 1..agent.int /\ store[c] = IdIn(agent, kids[c].of)
         /\ origins[c] \in {0, store[c]}
      /\ store[c] # 0 /\ store[c] \in Orig!Ids
  <2>1. kids[c].of \in 1..agent.int /\ store[c] = IdIn(agent, kids[c].of)
          /\ origins[c] \in {0, store[c]}
    BY <1>1 DEF OriginsInv, ChildKnown
  <2> QED BY <2>1, IdTyped
<1>5. Orig!Reporter(c) = c /\ Orig!ResolveOriginTurnId(c) = store[c] /\ c # "none"
  <2>1. c # "none" /\ \A d \in Jobs : c \in Jobs => d = c
    BY DEF Apart, Orig!OriginsAssumption
  <2>2. CASE c \in Jobs
    <3>1. Len(jobs) = 1
      BY <1>1, <2>2 DEF OriginsInv, JobKnown
    <3>2. jobs[1] \in Jobs /\ jobs # <<>>
      <4>1. \A q \in Seq(Jobs) : Len(q) = 1 => q[1] \in Jobs /\ q # <<>>
        OBVIOUS
      <4> QED BY <1>2, <3>1, <4>1
    <3> QED BY <1>4, <2>1, <2>2, <3>1, <3>2 DEF Orig!Reporter, Orig!ResolveOriginTurnId,
               Orig!Last
  <2>3. CASE c \notin Jobs
    BY <1>4, <2>1, <2>3 DEF Orig!Reporter, Orig!ResolveOriginTurnId
  <2> QED BY <2>2, <2>3
<1>6. Orig!Notice(c) \in Message /\ Orig!Notice(c).p = 0 /\ Orig!Notice(c).c = c
  BY AgentFields DEF Orig!Notice, Message
<1>7. /\ agent'.int = agent.int /\ agent'.by = agent.by /\ agent'.running = agent.running
      /\ agent' \in AgentSet /\ jobs' \in Seq(Jobs) /\ (c \notin Jobs => jobs' = jobs)
      /\ pend' \in Seq(PendSet)
      /\ origins' \in [Children -> Orig!Ids] /\ \A d \in Children : origins'[d] \in {origins[d],
          store[d]}
      /\ \/ agent'.inbox = agent.inbox /\ pend' = pend
         \/ /\ agent'.inbox = Append(agent.inbox, Orig!Notice(c))
            /\ pend' = Append(pend, [origin |-> store[c], cause |-> c])
  <2>1. CASE agent.running
    BY <1>2, <2>1 DEF Orig!Settle
  <2>2. CASE ~agent.running
    <3>1. /\ agent' = [agent EXCEPT !.inbox = Append(@, Orig!Notice(c))]
          /\ jobs' = IF c \in Jobs /\ jobs # <<>> THEN Orig!Front(jobs) ELSE jobs
          /\ pend' = Append(pend, [origin |-> store[c], cause |-> c])
          /\ origins' = [origins EXCEPT ![c] = store[c]]
      BY <1>4, <1>5, <2>2 DEF Orig!Settle
    <3>2. jobs' \in Seq(Jobs) /\ (c \notin Jobs => jobs' = jobs)
      <4>1. jobs # <<>> => Orig!Front(jobs) \in Seq(Jobs)
        BY <1>2 DEF Orig!Front
      <4> QED BY <1>2, <3>1, <4>1
    <3>3. origins' \in [Children -> Orig!Ids] /\ \A d \in Children : origins'[d] \in {origins[d],
            store[d]}
      BY <1>2, <1>4, <3>1
    <3>4. pend' \in Seq(PendSet)
      <4>1. [origin |-> store[c], cause |-> c] \in PendSet
        BY <1>4 DEF PendSet
      <4> QED BY <1>2, <3>1, <4>1
    <3>5. /\ agent'.int = agent.int /\ agent'.by = agent.by /\ agent'.running = agent.running
          /\ agent' \in AgentSet /\ agent'.inbox = Append(agent.inbox, Orig!Notice(c))
      <4>1. Append(agent.inbox, Orig!Notice(c)) \in Seq(Message)
        BY <1>6, AgentFields
      <4> DEFINE q == Append(agent.inbox, Orig!Notice(c))
      <4>2. q \in Seq(Message) /\ agent' = [agent EXCEPT !.inbox = q]
        BY <3>1, <4>1
      <4> HIDE DEF q
      <4>3. ASSUME NEW I, NEW S, NEW T, q \in S,
                   agent \in [int : I, running : BOOLEAN, by : S, inbox : S, replied : T]
            PROVE  /\ agent' \in [int : I, running : BOOLEAN, by : S, inbox : S, replied : T]
                   /\ agent'.int = agent.int /\ agent'.by = agent.by
                   /\ agent'.running = agent.running /\ agent'.inbox = q
        BY <4>2, <4>3
      <4>4. /\ agent'.int = agent.int /\ agent'.by = agent.by /\ agent'.running = agent.running
            /\ agent' \in AgentSet /\ agent'.inbox = q
        BY <1>2, <4>2, <4>3 DEF AgentSet
      <4> QED BY <4>4 DEF q
    <3> QED BY <3>1, <3>2, <3>3, <3>4, <3>5
  <2> QED BY <2>1, <2>2
<1>8. Stays
  BY <1>1, <1>3, <1>7, AgentFields DEF Stays
<1>9. OriginsTyped'
  BY <1>1, <1>3, <1>7 DEF OriginsInv, OriginsTyped
<1>10. Started' /\ Frames'
  BY <1>1, <1>7, <1>8, StaysStarted, StaysFrames, AgentFields
<1>11. ASSUME NEW d \in Children PROVE ChildKnown(d)'
  <2>1. kids'[d].state = "none" <=> kids[d].state = "none"
    BY <1>1, <1>3
  <2>2. store'[d] = store[d] /\ origins'[d] \in {0, origins[d], store[d]}
    BY <1>1, <1>7
  <2> QED BY <1>7, <1>8, <2>1, <2>2, StaysChild, AgentFields
<1>12. ASSUME NEW d \in Jobs PROVE JobKnown(d)'
  <2>1. JobKnown(d) /\ d \in Children
    BY DEF OriginsInv, Apart, Orig!OriginsAssumption
  <2>2. CASE d = c
    BY <1>3, <2>2 DEF JobKnown
  <2>3. CASE d # c
    <3>1. c \notin Jobs
      BY <2>3 DEF Apart
    <3> QED BY <1>3, <1>7, <2>1, <2>3, <3>1 DEF JobKnown
  <2> QED BY <2>2, <2>3
<1>13. Waits'
  <2>1. Len(pend) = Len(agent.inbox)
    BY <1>1, QueuedHere DEF Queued
  <2>2. CASE agent'.inbox = agent.inbox /\ pend' = pend
    <3>1. Queued(agent', kids', pend')
      BY <1>1, <1>8, <2>1, <2>2, QueuedStays DEF Queued
    <3> QED BY <1>1, <3>1, QueuedNext
  <2>3. CASE /\ agent'.inbox = Append(agent.inbox, Orig!Notice(c))
             /\ pend' = Append(pend, [origin |-> store[c], cause |-> c])
    <3> DEFINE q == [origin |-> store[c], cause |-> c]
    <3>1. q.origin = store[c] /\ q.cause = c
      OBVIOUS
    <3> HIDE DEF q
    <3>2. /\ Len(agent'.inbox) = Len(agent.inbox) + 1 /\ Len(pend') = Len(agent.inbox) + 1
          /\ agent'.inbox[Len(agent.inbox) + 1] = Orig!Notice(c) /\ pend'[Len(agent.inbox) + 1] = q
          /\ \A i \in 1..Len(agent.inbox) : agent'.inbox[i] = agent.inbox[i] /\ pend'[i] = pend[i]
          /\ Len(agent.inbox) \in Nat
      BY <1>2, <2>1, <2>3, AgentFields DEF q
    <3>3. Known(kids', Orig!Notice(c))
      BY <1>3, <1>5, <1>6 DEF Known
    <3>4. IdIn(agent', kids'[c].of) = store[c]
      BY <1>1, <1>4, <1>8, StaysTold
    <3>5. ASSUME NEW i \in 1..Len(agent'.inbox)
          PROVE  /\ agent'.inbox[i].p = 0 /\ Known(kids', agent'.inbox[i])
                 /\ pend'[i].cause = agent'.inbox[i].c
                 /\ pend'[i].origin = IdIn(agent', kids'[agent'.inbox[i].c].of)
      <4>1. CASE i = Len(agent.inbox) + 1
        BY <1>6, <3>1, <3>2, <3>3, <3>4, <4>1
      <4>2. CASE i # Len(agent.inbox) + 1
        <5>1. i \in 1..Len(agent.inbox)
          BY <3>2, <4>2
        <5> QED BY <1>1, <1>8, <3>2, <5>1, QueuedStays
      <4> QED BY <4>1, <4>2
    <3>6. Queued(agent', kids', pend')
      BY <3>2, <3>5 DEF Queued
    <3> QED BY <1>1, <3>6, QueuedNext
  <2> QED BY <1>7, <2>2, <2>3
<1>14. Contexts'
  <2>1. agent.running => Tells(agent', kids', intMap[agent.int], agent.int)
    BY <1>8, StaysTold, AgentFields DEF OriginsInv, Contexts
  <2>2. ~Unstarted /\ ~Unstarted'
    BY <1>1 DEF Unstarted
  <2> QED BY <1>1, <1>7, <2>1, <2>2 DEF OriginsInv, Contexts
<1> QED BY <1>9, <1>10, <1>11, <1>12, <1>13, <1>14 DEF OriginsInv

LEMMA RestartInv ==
  ASSUME Apart, OriginsInv, Orig!Restart
  PROVE  OriginsInv'
<1>1. /\ task.pc = "none" /\ ~agent.running /\ agent.inbox = <<>>
      /\ UNCHANGED <<agent, task, store, frames>>
      /\ originActive' = 0 /\ auto' = Orig!NoContext
          /\ intMap' = [n \in 1..MaxTurn |-> Orig!NoContext]
      /\ pend' = <<>> /\ origins' = [c \in Children |-> 0] /\ jobs' = <<>>
      /\ left' = [left EXCEPT !.restarts = @ - 1] /\ left.restarts > 0
  BY DEF Orig!Restart
<1>2. /\ kids' \in [Children -> KidSet]
      /\ \A d \in Children : kids'[d].of = kids[d].of
          /\ (kids'[d].state = "none" <=> kids[d].state = "none")
      /\ \A d \in Jobs : kids'[d].state # "running"
  BY DEF Orig!Restart, OriginsInv, OriginsTyped, KidSet, Apart, Orig!OriginsAssumption
<1>3. Stays
  BY <1>1, <1>2, AgentFields DEF Stays
<1>4. OriginsTyped'
  <2>1. Orig!NoContext \in ContextSet /\ 0 \in Orig!Ids /\ 0 \in 0..Platform
    BY NoContextTyped, AgentFields DEF Apart, Orig!Ids
  <2>2. left' \in LeftSet
    <3>1. left \in LeftSet
      BY DEF OriginsInv, OriginsTyped
    <3> QED BY <1>1, <3>1 DEF LeftSet
  <2>3. intMap' \in [1..MaxTurn -> ContextSet] /\ origins' \in [Children -> Orig!Ids]
    BY <1>1, <2>1
  <2>4. pend' \in Seq(PendSet) /\ jobs' \in Seq(Jobs)
    BY <1>1
  <2> QED BY <1>1, <1>2, <2>1, <2>2, <2>3, <2>4 DEF OriginsInv, OriginsTyped
<1>5. Started' /\ Frames'
  BY <1>1, <1>3, StaysStarted, StaysFrames, AgentFields
<1>6. \A d \in Children : ChildKnown(d)'
  BY <1>1, <1>2, <1>3, StaysChild, AgentFields
<1>7. \A d \in Jobs : JobKnown(d)'
  BY <1>1, <1>2 DEF JobKnown
<1>8. Waits'
  BY <1>1 DEF Waits, Unstarted
<1>9. Contexts'
  BY <1>1 DEF Contexts, Unstarted
<1> QED BY <1>4, <1>5, <1>6, <1>7, <1>8, <1>9 DEF OriginsInv

LEMMA OriginsInvStep ==
  ASSUME Apart, OriginsInv, [Orig!Next]_(Orig!vars)
  PROVE  OriginsInv'
<1>1. ASSUME NEW p \in 1..Platform, Orig!Bind(p) PROVE OriginsInv'
  BY <1>1, BindInv
<1>2. ASSUME NEW c \in Children, Orig!Spawn(c) PROVE OriginsInv'
  BY <1>2, SpawnInv
<1>3. ASSUME NEW c \in Children, Orig!Settle(c) PROVE OriginsInv'
  BY <1>3, SettleInv
<1>4. CASE UNCHANGED Orig!vars
  BY <1>4 DEF Orig!vars, Orig!relay, OriginsInv, OriginsTyped, Started, ChildKnown,
     JobKnown, Waits,
    Unstarted, Contexts, Frames, Tells, Known, IdIn
<1> QED BY <1>1, <1>2, <1>3, <1>4, SendInv, FinishInv, TurnStartInv, TurnEndInv,
           RestartInv DEF Orig!Next

LEMMA OriginsInvHolds ==
  ASSUME Apart, OriginsInv
  PROVE  Orig!TypeOK /\ Orig!OneTurnOneId /\ Orig!CauseIsTrue /\ Orig!OriginKnown
<1> USE DEF OriginsInv
<1>1. Orig!TypeOK
  <2>1. agent.int \in 0..MaxTurn /\ agent.running \in BOOLEAN /\ DOMAIN agent.by = 1..agent.int
    BY AgentFields
  <2>2. Orig!Range(jobs) \subseteq Jobs
    BY DEF OriginsTyped, Orig!Range
  <2>3. originActive \in 0..Platform /\ auto.id \in Orig!Ids
          /\ \A n \in 1..MaxTurn : intMap[n].id \in Orig!Ids
    BY DEF OriginsTyped, ContextSet
  <2>4. \A c \in Children : origins[c] \in Orig!Ids /\ store[c] \in Orig!Ids
    BY DEF OriginsTyped
  <2> QED BY <2>1, <2>2, <2>3, <2>4, TaskFields DEF Orig!TypeOK
<1>2. Orig!OneTurnOneId
  BY DEF Orig!OneTurnOneId, Frames, Tells, IdIn, Orig!IdOf
<1>3. Orig!CauseIsTrue
  BY DEF Orig!CauseIsTrue, Frames, Tells
<1>4. Orig!OriginKnown
  BY DEF Orig!OriginKnown, Frames, Tells, IdIn, Orig!IdOf
<1> QED BY <1>1, <1>2, <1>3, <1>4

(* Each turn of the agent begins and ends under one id of its own; a turn  *)
(* a child's notice started names that child and the turn that started the *)
(* child, after a restart of the runtime too.                              *)
THEOREM OriginsAreTrue ==
  ASSUME Apart
  PROVE  Orig!Spec => []Orig!TypeOK /\ []Orig!OneTurnOneId /\ []Orig!CauseIsTrue
         /\ []Orig!OriginKnown
<1>1. Orig!Init => OriginsInv
  BY OriginsInvInit
<1>2. OriginsInv /\ [Orig!Next]_(Orig!vars) => OriginsInv'
  BY OriginsInvStep
<1>3. OriginsInv => Orig!TypeOK /\ Orig!OneTurnOneId /\ Orig!CauseIsTrue /\ Orig!OriginKnown
  BY OriginsInvHolds
<1> QED BY <1>1, <1>2, <1>3, PTL DEF Orig!Spec

-----------------------------------------------------------------------------
(* Uploads of files.                                                       *)

(* The types of the variables; an upload whose handler has begun has its   *)
(* request, and what is at the path was there.                             *)
FileTyped ==
  /\ Upload!TypeOK
  /\ \A u \in Uploads : /\ req[u] \in Upload!Requests
                           \/ (uploadPc[u] = "idle" /\ req[u] = Upload!NoRequest)
                        /\ journal[u] # "none" => uploadPc[u] # "idle"
  /\ req \in [Uploads -> Upload!Requests \cup {Upload!NoRequest}]
  /\ idem \in [Keys -> [content : Contents, etag : Upload!Files,
      key : {None}] \cup {Upload!NoRequest}]
  /\ todo \subseteq {u \in Uploads : journal[u] # "none"}
  /\ target # None => target \in held

(* What a client was told, and what is about to be told, is under its key. *)
FileKeys ==
  \A u \in Uploads : /\ told[u] = "ok" => uploadPc[u] = "done"
                     /\ told[u] = "ok" \/ uploadPc[u] = "cleaning"
                         => idem[req[u].key] = Upload!Hash(req[u])

(* A key is recorded for bytes that were at the path.                      *)
FileApplied ==
  /\ \A u \in Uploads : uploadPc[u] \in {"settling", "recording", "marked"} =>
                       req[u].content \in held
  /\ Upload!RecordedWasApplied

FileInv == FileTyped /\ FileKeys /\ FileApplied

(* One upload at a time.                                                   *)
OneOpen ==
  /\ uploadFaults = 0
  /\ \A u \in Uploads : uploadPc[u] \notin {"idle", "done"} =>
       server = "up" /\ \A v \in Uploads \ {u} : uploadPc[v] \in {"idle", "done"}

(* Where a handler is says what is on disk and in the row.                 *)
Phases(u) ==
  /\ uploadPc[u] \notin {"unsure", "undoing", "undone"}
  /\ uploadPc[u] \in {"idle", "staged"} => journal[u] = "none"
  /\ uploadPc[u] \in {"committing", "refused", "settling", "recording"} => journal[u] = "staged"
  /\ uploadPc[u] = "marked" => journal[u] = "committed"
  /\ uploadPc[u] \in {"staged", "committing"} => stage[u]
  /\ uploadPc[u] \in {"refused", "settling", "recording", "marked", "cleaning"} => ~stage[u]
  /\ uploadPc[u] \in {"committing", "refused"} => backup[u] = None
  /\ uploadPc[u] \in {"committing", "settling", "recording", "marked"} =>
             idem[req[u].key] = Upload!NoRequest /\ created[u] = clock
  /\ uploadPc[u] \in {"settling", "recording", "marked"} => target = req[u].content
  /\ uploadPc[u] = "cleaning" => journal[u] = "finalized"
  /\ journal[u] \in {"none", "staged", "committed", "finalized", "aborted"}
  /\ stage[u] => journal[u] \in {"none", "staged"}
  /\ journal[u] = "none" => created[u] = 0 /\ backup[u] = None

(* Rows are told apart by created_at.                                      *)
Ranked ==
  \A u, v \in Uploads : journal[u] # "none" =>
    created[u] > 0 /\ (created[u] = created[v] => u = v)

(* What the recovery is about to record is so.                             *)
Visits ==
  /\ doing \in {"none", "aborted", "cleanup"}
  /\ \A u \in Uploads : Upload!Visiting(u) =>
       /\ doing = "aborted" => journal[u] = "staged" /\ ~stage[u] /\ ~Upload!TargetMatches(u)
       /\ doing = "cleanup" => journal[u] = "finalized"

(* The path has what the last finalized upload put there.                  *)
Settled ==
  \/ target = origin /\ \A u \in Uploads : journal[u] # "finalized"
  \/ \E u \in Uploads :
       /\ journal[u] = "finalized" /\ target = req[u].content
       /\ \A v \in Uploads : journal[v] = "finalized" => created[v] <= created[u]

(* It has the bytes of the newest upload, which is not finalized: its      *)
(* handler or the recovery is still to do so, or the recovery has failed.  *)
Limbo(u) ==
  /\ journal[u] \in {"staged", "committed"} /\ ~stage[u] /\ Upload!TargetMatches(u)
  /\ created[u] = clock
  /\ server = "up" => uploadPc[u] \in {"settling", "recording", "marked"}
  /\ server = "recovering" => u \in todo \/ failed

PathSound ==
  /\ Settled \/ \E u \in Uploads : Limbo(u)
  /\ \A u \in Uploads :
       (journal[u] = "staged" /\ backup[u] # None) \/ journal[u] = "committed" => Limbo(u)

AtomicInv ==
  OneOpen /\ (\A u \in Uploads : Phases(u)) /\ Ranked /\ Visits /\ PathSound

LEMMA FileInvInit == Upload!FTAssumption /\ Upload!Init => FileInv
BY DEF Upload!FTAssumption, Upload!Init, FileInv, FileTyped, Upload!TypeOK, FileKeys,
   FileApplied, Upload!RecordedWasApplied,
   Upload!Files, Upload!NoRequest, Upload!Requests

(* A request that is hashed is not the absence of one.                     *)
LEMMA HashOf ==
  ASSUME Upload!FTAssumption, NEW r \in Upload!Requests
  PROVE  /\ Upload!Hash(r) \in [content : Contents, etag : Upload!Files, key : {None}]
         /\ Upload!Hash(r).content = r.content /\ Upload!Hash(r) # Upload!NoRequest
         /\ r.content \in Contents /\ r.content # None /\ r.key \in Keys
BY DEF Upload!FTAssumption, Upload!Hash, Upload!Requests, Upload!NoRequest

(* What a rollback leaves at the path and beside it.                       *)
LEMMA RollbackTyped ==
  ASSUME Upload!FTAssumption, FileTyped, NEW u \in Uploads,
         Upload!RollbackCommit(u) \/ UNCHANGED <<target, backup, held>>
  PROVE  /\ target' \in Upload!Files /\ backup' \in [Uploads -> Upload!Files]
         /\ held' \subseteq Contents /\ held \subseteq held'
         /\ target' # None => target' \in held'
BY DEF Upload!FTAssumption, FileTyped, Upload!TypeOK, Upload!RollbackCommit,
   Upload!Overwrites, Upload!SetTarget, Upload!Files

LEMMA FileInvStep == Upload!FTAssumption /\ FileInv /\ [Upload!Next]_(Upload!vars) => FileInv'
<1> SUFFICES ASSUME Upload!FTAssumption, FileInv, [Upload!Next]_(Upload!vars)
             PROVE  FileInv'
  OBVIOUS
<1>0. FileTyped /\ FileKeys /\ FileApplied
  BY DEF FileInv
<1>h. \A u \in Uploads : uploadPc[u] # "idle" =>
        /\ req[u] \in Upload!Requests
        /\ Upload!Hash(req[u]) \in [content : Contents, etag : Upload!Files, key : {None}]
        /\ Upload!Hash(req[u]).content = req[u].content /\ Upload!Hash(req[u]) # Upload!NoRequest
        /\ req[u].content \in Contents /\ req[u].content # None /\ req[u].key \in Keys
  BY <1>0, HashOf DEF FileTyped
<1> USE DEF Upload!At, Upload!Goto, Upload!Answer, Upload!Fault, Upload!Reliable,
Upload!disk, Upload!rows, Upload!boot
<1>1. ASSUME NEW u \in Uploads, Upload!StageStream(u)
      PROVE  FileInv'
  <2>1. FileTyped'
    BY <1>0, <1>h, <1>1 DEF Upload!StageStream, FileTyped, Upload!TypeOK, Upload!Files,
       Upload!Recovers, Upload!Visiting
  <2>2. FileKeys'
    BY <1>0, <1>h, <1>1 DEF Upload!StageStream, FileTyped, Upload!TypeOK, FileKeys
  <2>3. FileApplied'
    BY <1>0, <1>h, <1>1 DEF Upload!StageStream, FileTyped, Upload!TypeOK, FileApplied,
       Upload!RecordedWasApplied
  <2> QED BY <2>1, <2>2, <2>3 DEF FileInv
<1>2. ASSUME NEW u \in Uploads, Upload!Replay(u)
      PROVE  FileInv'
  <2>1. FileTyped'
    BY <1>0, <1>h, <1>2 DEF Upload!Replay, Upload!BestEffort, Upload!Unstage, FileTyped,
       Upload!TypeOK, Upload!Files, Upload!Recovers, Upload!Visiting
  <2>2. FileKeys'
    BY <1>0, <1>h, <1>2 DEF Upload!Replay, Upload!BestEffort, Upload!Unstage, FileTyped,
       Upload!TypeOK, FileKeys
  <2>3. FileApplied'
    BY <1>0, <1>h, <1>2 DEF Upload!Replay, Upload!BestEffort, Upload!Unstage, FileTyped,
       Upload!TypeOK, FileApplied, Upload!RecordedWasApplied
  <2> QED BY <2>1, <2>2, <2>3 DEF FileInv
<1>3. ASSUME NEW u \in Uploads, Upload!JournalStaged(u)
      PROVE  FileInv'
  <2>1. FileTyped'
    BY <1>0, <1>h, <1>3 DEF Upload!JournalStaged, FileTyped, Upload!TypeOK, Upload!Files,
       Upload!Recovers, Upload!Visiting
  <2>2. FileKeys'
    BY <1>0, <1>h, <1>3 DEF Upload!JournalStaged, FileTyped, Upload!TypeOK, FileKeys
  <2>3. FileApplied'
    BY <1>0, <1>h, <1>3 DEF Upload!JournalStaged, FileTyped, Upload!TypeOK, FileApplied,
       Upload!RecordedWasApplied
  <2> QED BY <2>1, <2>2, <2>3 DEF FileInv
<1>4. ASSUME NEW u \in Uploads, Upload!CommitRefused(u)
      PROVE  FileInv'
  <2>1. FileTyped'
    BY <1>0, <1>h, <1>4 DEF Upload!CommitRefused, Upload!PreconditionHolds,
       Upload!Unstage, FileTyped, Upload!TypeOK, Upload!Files, Upload!Recovers, Upload!Visiting
  <2>2. FileKeys'
    BY <1>0, <1>h, <1>4 DEF Upload!CommitRefused, Upload!PreconditionHolds,
       Upload!Unstage, FileTyped, Upload!TypeOK, FileKeys
  <2>3. FileApplied'
    BY <1>0, <1>h, <1>4 DEF Upload!CommitRefused, Upload!PreconditionHolds,
       Upload!Unstage, FileTyped, Upload!TypeOK, FileApplied, Upload!RecordedWasApplied
  <2> QED BY <2>1, <2>2, <2>3 DEF FileInv
<1>5. ASSUME NEW u \in Uploads, Upload!CommitStage(u)
      PROVE  FileInv'
  <2>1. FileTyped'
    BY <1>0, <1>h, <1>5 DEF Upload!CommitStage, Upload!PreconditionHolds, Upload!Publish,
       Upload!Unstage, Upload!SetTarget, FileTyped, Upload!TypeOK, Upload!Files, Upload!Recovers,
           Upload!Visiting
  <2>2. FileKeys'
    BY <1>0, <1>h, <1>5 DEF Upload!CommitStage, Upload!PreconditionHolds, Upload!Publish,
       Upload!Unstage, Upload!SetTarget, FileTyped, Upload!TypeOK, FileKeys
  <2>3. FileApplied'
    BY <1>0, <1>h, <1>5 DEF Upload!CommitStage, Upload!PreconditionHolds, Upload!Publish,
       Upload!Unstage, Upload!SetTarget, FileTyped, Upload!TypeOK, FileApplied,
           Upload!RecordedWasApplied
  <2> QED BY <2>1, <2>2, <2>3 DEF FileInv
<1>6. ASSUME NEW u \in Uploads, Upload!CommitTorn(u)
      PROVE  FileInv'
  <2>1. FileTyped'
    BY <1>0, <1>h, <1>6 DEF Upload!CommitTorn, Upload!SetTarget, Upload!Overwrites,
       FileTyped, Upload!TypeOK, Upload!Files, Upload!Recovers, Upload!Visiting
  <2>2. FileKeys'
    BY <1>0, <1>h, <1>6 DEF Upload!CommitTorn, Upload!SetTarget, Upload!Overwrites,
       FileTyped, Upload!TypeOK, FileKeys
  <2>3. FileApplied'
    BY <1>0, <1>h, <1>6 DEF Upload!CommitTorn, Upload!SetTarget, Upload!Overwrites,
       FileTyped, Upload!TypeOK, FileApplied, Upload!RecordedWasApplied
  <2> QED BY <2>1, <2>2, <2>3 DEF FileInv
<1>7. ASSUME NEW u \in Uploads, Upload!CommitUnreached(u)
      PROVE  FileInv'
  <2>1. FileTyped'
    BY <1>0, <1>h, <1>7 DEF Upload!CommitUnreached, FileTyped, Upload!TypeOK,
       Upload!Files, Upload!Recovers, Upload!Visiting
  <2>2. FileKeys'
    BY <1>0, <1>h, <1>7 DEF Upload!CommitUnreached, FileTyped, Upload!TypeOK, FileKeys
  <2>3. FileApplied'
    BY <1>0, <1>h, <1>7 DEF Upload!CommitUnreached, FileTyped, Upload!TypeOK,
       FileApplied, Upload!RecordedWasApplied
  <2> QED BY <2>1, <2>2, <2>3 DEF FileInv
<1>8. ASSUME NEW u \in Uploads, Upload!SettleQuota(u)
      PROVE  FileInv'
  <2>r. /\ target' \in Upload!Files /\ backup' \in [Uploads -> Upload!Files]
        /\ held' \subseteq Contents /\ held \subseteq held'
        /\ target' # None => target' \in held'
    BY <1>0, <1>8, RollbackTyped DEF Upload!SettleQuota, Upload!BestEffort
  <2>1. FileTyped'
    BY <1>0, <1>h, <1>8, <2>r DEF Upload!SettleQuota, FileTyped, Upload!TypeOK,
       Upload!Files, Upload!Recovers, Upload!Visiting
  <2>2. FileKeys'
    BY <1>0, <1>h, <1>8, <2>r DEF Upload!SettleQuota, FileTyped, Upload!TypeOK, FileKeys
  <2>3. FileApplied'
    BY <1>0, <1>h, <1>8, <2>r DEF Upload!SettleQuota, FileTyped, Upload!TypeOK,
       FileApplied, Upload!RecordedWasApplied
  <2> QED BY <2>1, <2>2, <2>3 DEF FileInv
<1>9. ASSUME NEW u \in Uploads, Upload!CommitFailed(u)
      PROVE  FileInv'
  <2>1. FileTyped'
    BY <1>0, <1>h, <1>9 DEF Upload!CommitFailed, Upload!BestEffort, Upload!Unstage,
       FileTyped, Upload!TypeOK, Upload!Files, Upload!Recovers, Upload!Visiting
  <2>2. FileKeys'
    BY <1>0, <1>h, <1>9 DEF Upload!CommitFailed, Upload!BestEffort, Upload!Unstage,
       FileTyped, Upload!TypeOK, FileKeys
  <2>3. FileApplied'
    BY <1>0, <1>h, <1>9 DEF Upload!CommitFailed, Upload!BestEffort, Upload!Unstage,
       FileTyped, Upload!TypeOK, FileApplied, Upload!RecordedWasApplied
  <2> QED BY <2>1, <2>2, <2>3 DEF FileInv
<1>25. ASSUME NEW u \in Uploads, Upload!MarkCommitted(u)
      PROVE  FileInv'
  <2>1. FileTyped'
    BY <1>0, <1>h, <1>25 DEF Upload!MarkCommitted, FileTyped,
       Upload!TypeOK, Upload!Files, Upload!Recovers, Upload!Visiting
  <2>2. FileKeys'
    BY <1>0, <1>h, <1>25 DEF Upload!MarkCommitted, FileTyped,
       Upload!TypeOK, FileKeys
  <2>3. FileApplied'
    BY <1>0, <1>h, <1>25 DEF Upload!MarkCommitted, FileTyped,
       Upload!TypeOK, FileApplied, Upload!RecordedWasApplied
  <2> QED BY <2>1, <2>2, <2>3 DEF FileInv
<1>10. ASSUME NEW u \in Uploads, Upload!FinalizeUpload(u)
      PROVE  FileInv'
  <2>1. FileTyped'
    BY <1>0, <1>h, <1>10 DEF Upload!FinalizeUpload, Upload!KeyFree, FileTyped,
       Upload!TypeOK, Upload!Files, Upload!Recovers, Upload!Visiting
  <2>2. FileKeys'
    BY <1>0, <1>h, <1>10 DEF Upload!FinalizeUpload, Upload!KeyFree, FileTyped,
       Upload!TypeOK, FileKeys
  <2>3. FileApplied'
    BY <1>0, <1>h, <1>10 DEF Upload!FinalizeUpload, Upload!KeyFree, FileTyped,
       Upload!TypeOK, FileApplied, Upload!RecordedWasApplied
  <2> QED BY <2>1, <2>2, <2>3 DEF FileInv
<1>11. ASSUME NEW u \in Uploads, Upload!FinalizeFails(u)
      PROVE  FileInv'
  <2>1. FileTyped'
    BY <1>0, <1>h, <1>11 DEF Upload!FinalizeFails, Upload!KeyFree, FileTyped,
       Upload!TypeOK, Upload!Files, Upload!Recovers, Upload!Visiting
  <2>2. FileKeys'
    BY <1>0, <1>h, <1>11 DEF Upload!FinalizeFails, Upload!KeyFree, FileTyped,
       Upload!TypeOK, FileKeys
  <2>3. FileApplied'
    BY <1>0, <1>h, <1>11 DEF Upload!FinalizeFails, Upload!KeyFree, FileTyped,
       Upload!TypeOK, FileApplied, Upload!RecordedWasApplied
  <2> QED BY <2>1, <2>2, <2>3 DEF FileInv
<1>12. ASSUME NEW u \in Uploads, Upload!FinalizeStage(u)
      PROVE  FileInv'
  <2>1. FileTyped'
    BY <1>0, <1>h, <1>12 DEF Upload!FinalizeStage, Upload!BestEffort, Upload!DropBackup,
       FileTyped, Upload!TypeOK, Upload!Files, Upload!Recovers, Upload!Visiting
  <2>2. FileKeys'
    BY <1>0, <1>h, <1>12 DEF Upload!FinalizeStage, Upload!BestEffort, Upload!DropBackup,
       FileTyped, Upload!TypeOK, FileKeys
  <2>3. FileApplied'
    BY <1>0, <1>h, <1>12 DEF Upload!FinalizeStage, Upload!BestEffort, Upload!DropBackup,
       FileTyped, Upload!TypeOK, FileApplied, Upload!RecordedWasApplied
  <2> QED BY <2>1, <2>2, <2>3 DEF FileInv
<1>13. ASSUME NEW u \in Uploads, Upload!Undo(u)
      PROVE  FileInv'
  <2>r. /\ target' \in Upload!Files /\ backup' \in [Uploads -> Upload!Files]
        /\ held' \subseteq Contents /\ held \subseteq held'
        /\ target' # None => target' \in held'
    BY <1>0, <1>13, RollbackTyped DEF Upload!Undo, Upload!BestEffort
  <2>1. FileTyped'
    BY <1>0, <1>h, <1>13, <2>r DEF Upload!Undo, Upload!BestEffort, FileTyped,
       Upload!TypeOK, Upload!Files, Upload!Recovers, Upload!Visiting
  <2>2. FileKeys'
    BY <1>0, <1>h, <1>13, <2>r DEF Upload!Undo, Upload!BestEffort, FileTyped,
       Upload!TypeOK, FileKeys
  <2>3. FileApplied'
    BY <1>0, <1>h, <1>13, <2>r DEF Upload!Undo, Upload!BestEffort, FileTyped,
       Upload!TypeOK, FileApplied, Upload!RecordedWasApplied
  <2> QED BY <2>1, <2>2, <2>3 DEF FileInv
<1>14. ASSUME NEW u \in Uploads, Upload!RecordUndone(u)
      PROVE  FileInv'
  <2>1. FileTyped'
    BY <1>0, <1>h, <1>14 DEF Upload!RecordUndone, Upload!BestEffort, FileTyped,
       Upload!TypeOK, Upload!Files, Upload!Recovers, Upload!Visiting
  <2>2. FileKeys'
    BY <1>0, <1>h, <1>14 DEF Upload!RecordUndone, Upload!BestEffort, FileTyped,
       Upload!TypeOK, FileKeys
  <2>3. FileApplied'
    BY <1>0, <1>h, <1>14 DEF Upload!RecordUndone, Upload!BestEffort, FileTyped,
       Upload!TypeOK, FileApplied, Upload!RecordedWasApplied
  <2> QED BY <2>1, <2>2, <2>3 DEF FileInv
<1>15. ASSUME NEW u \in Uploads, Upload!RecoverAbort(u)
      PROVE  FileInv'
  <2>1. FileTyped'
    BY <1>0, <1>h, <1>15 DEF Upload!RecoverAbort, Upload!BestEffort, Upload!Unstage,
       FileTyped, Upload!TypeOK, Upload!Files, Upload!Recovers, Upload!Visiting
  <2>2. FileKeys'
    BY <1>0, <1>h, <1>15 DEF Upload!RecoverAbort, Upload!BestEffort, Upload!Unstage,
       FileTyped, Upload!TypeOK, FileKeys
  <2>3. FileApplied'
    BY <1>0, <1>h, <1>15 DEF Upload!RecoverAbort, Upload!BestEffort, Upload!Unstage,
       FileTyped, Upload!TypeOK, FileApplied, Upload!RecordedWasApplied
  <2> QED BY <2>1, <2>2, <2>3 DEF FileInv
<1>16. ASSUME NEW u \in Uploads, Upload!RecoverFinalize(u)
      PROVE  FileInv'
  <2>1. FileTyped'
    BY <1>0, <1>h, <1>16 DEF Upload!RecoverFinalize, Upload!MayFinalize, Upload!Recovers,
       Upload!TargetMatches, Upload!KeyAgrees, FileTyped, Upload!TypeOK, Upload!Files,
           Upload!Recovers, Upload!Visiting
  <2>2. FileKeys'
    BY <1>0, <1>h, <1>16 DEF Upload!RecoverFinalize, Upload!MayFinalize, Upload!Recovers,
       Upload!TargetMatches, Upload!KeyAgrees, FileTyped, Upload!TypeOK, FileKeys
  <2>3. FileApplied'
    BY <1>0, <1>h, <1>16 DEF Upload!RecoverFinalize, Upload!MayFinalize, Upload!Recovers,
       Upload!TargetMatches, Upload!KeyAgrees, FileTyped, Upload!TypeOK, FileApplied,
           Upload!RecordedWasApplied
  <2> QED BY <2>1, <2>2, <2>3 DEF FileInv
<1>17. ASSUME NEW u \in Uploads, Upload!RecoverCleanup(u)
      PROVE  FileInv'
  <2>1. FileTyped'
    BY <1>0, <1>h, <1>17 DEF Upload!RecoverCleanup, Upload!BestEffort, Upload!DropBackup,
       FileTyped, Upload!TypeOK, Upload!Files, Upload!Recovers, Upload!Visiting
  <2>2. FileKeys'
    BY <1>0, <1>h, <1>17 DEF Upload!RecoverCleanup, Upload!BestEffort, Upload!DropBackup,
       FileTyped, Upload!TypeOK, FileKeys
  <2>3. FileApplied'
    BY <1>0, <1>h, <1>17 DEF Upload!RecoverCleanup, Upload!BestEffort, Upload!DropBackup,
       FileTyped, Upload!TypeOK, FileApplied, Upload!RecordedWasApplied
  <2> QED BY <2>1, <2>2, <2>3 DEF FileInv
<1>18. ASSUME NEW u \in Uploads, Upload!RecoverRollback(u)
      PROVE  FileInv'
  <2>r. /\ target' \in Upload!Files /\ backup' \in [Uploads -> Upload!Files]
        /\ held' \subseteq Contents /\ held \subseteq held'
        /\ target' # None => target' \in held'
    BY <1>0, <1>18, RollbackTyped DEF Upload!RecoverRollback, Upload!BestEffort
  <2>1. FileTyped'
    BY <1>0, <1>h, <1>18, <2>r DEF Upload!RecoverRollback, Upload!BestEffort, FileTyped,
       Upload!TypeOK, Upload!Files, Upload!Recovers, Upload!Visiting
  <2>2. FileKeys'
    BY <1>0, <1>h, <1>18, <2>r DEF Upload!RecoverRollback, Upload!BestEffort, FileTyped,
       Upload!TypeOK, FileKeys
  <2>3. FileApplied'
    BY <1>0, <1>h, <1>18, <2>r DEF Upload!RecoverRollback, Upload!BestEffort, FileTyped,
       Upload!TypeOK, FileApplied, Upload!RecordedWasApplied
  <2> QED BY <2>1, <2>2, <2>3 DEF FileInv
<1>19. ASSUME NEW u \in Uploads, Upload!RecoverGivesUp(u)
      PROVE  FileInv'
  <2>1. FileTyped'
    BY <1>0, <1>h, <1>19 DEF Upload!RecoverGivesUp, FileTyped, Upload!TypeOK,
       Upload!Files, Upload!Recovers, Upload!Visiting
  <2>2. FileKeys'
    BY <1>0, <1>h, <1>19 DEF Upload!RecoverGivesUp, FileTyped, Upload!TypeOK, FileKeys
  <2>3. FileApplied'
    BY <1>0, <1>h, <1>19 DEF Upload!RecoverGivesUp, FileTyped, Upload!TypeOK,
       FileApplied, Upload!RecordedWasApplied
  <2> QED BY <2>1, <2>2, <2>3 DEF FileInv
<1>20. ASSUME NEW u \in Uploads, Upload!InspectFails(u)
      PROVE  FileInv'
  <2>r. /\ target' \in Upload!Files /\ backup' \in [Uploads -> Upload!Files]
        /\ held' \subseteq Contents /\ held \subseteq held'
        /\ target' # None => target' \in held'
    BY <1>0, <1>20, RollbackTyped DEF Upload!InspectFails, Upload!BestEffort
  <2>1. FileTyped'
    BY <1>0, <1>h, <1>20, <2>r DEF Upload!InspectFails, Upload!Unstage, FileTyped,
       Upload!TypeOK, Upload!Files, Upload!Recovers, Upload!Visiting
  <2>2. FileKeys'
    BY <1>0, <1>h, <1>20, <2>r DEF Upload!InspectFails, Upload!Unstage, FileTyped,
       Upload!TypeOK, FileKeys
  <2>3. FileApplied'
    BY <1>0, <1>h, <1>20, <2>r DEF Upload!InspectFails, Upload!Unstage, FileTyped,
       Upload!TypeOK, FileApplied, Upload!RecordedWasApplied
  <2> QED BY <2>1, <2>2, <2>3 DEF FileInv
<1>21. ASSUME NEW u \in Uploads, Upload!RecoverRecord(u)
      PROVE  FileInv'
  <2>1. FileTyped'
    BY <1>0, <1>h, <1>21 DEF Upload!RecoverRecord, Upload!Visiting, FileTyped,
       Upload!TypeOK, Upload!Files, Upload!Recovers, Upload!Visiting
  <2>2. FileKeys'
    BY <1>0, <1>h, <1>21 DEF Upload!RecoverRecord, Upload!Visiting, FileTyped,
       Upload!TypeOK, FileKeys
  <2>3. FileApplied'
    BY <1>0, <1>h, <1>21 DEF Upload!RecoverRecord, Upload!Visiting, FileTyped,
       Upload!TypeOK, FileApplied, Upload!RecordedWasApplied
  <2> QED BY <2>1, <2>2, <2>3 DEF FileInv
<1>22. CASE Upload!Restart
  <2>1. FileTyped'
    BY <1>0, <1>h, <1>22 DEF Upload!Restart, FileTyped, Upload!TypeOK, Upload!Pending,
       Upload!Open
  <2>2. FileKeys'
    BY <1>0, <1>22 DEF Upload!Restart, FileTyped, Upload!TypeOK, FileKeys, Upload!Open
  <2>3. FileApplied'
    BY <1>0, <1>22 DEF Upload!Restart, FileTyped, Upload!TypeOK, FileApplied,
       Upload!RecordedWasApplied, Upload!Open
  <2> QED BY <2>1, <2>2, <2>3 DEF FileInv
<1>23. CASE Upload!Listen
  <2>1. FileTyped'
    BY <1>0, <1>h, <1>23 DEF Upload!Listen, FileTyped, Upload!TypeOK, Upload!Pending,
       Upload!Open
  <2>2. FileKeys'
    BY <1>0, <1>23 DEF Upload!Listen, FileTyped, Upload!TypeOK, FileKeys, Upload!Open
  <2>3. FileApplied'
    BY <1>0, <1>23 DEF Upload!Listen, FileTyped, Upload!TypeOK, FileApplied,
       Upload!RecordedWasApplied, Upload!Open
  <2> QED BY <2>1, <2>2, <2>3 DEF FileInv
<1>24. CASE UNCHANGED Upload!vars
  BY <1>0, <1>24 DEF Upload!vars, FileInv, FileTyped, Upload!TypeOK, FileKeys,
     FileApplied, Upload!RecordedWasApplied, Upload!Visiting
<1> QED BY <1>1, <1>2, <1>3, <1>4, <1>5, <1>6, <1>7, <1>8, <1>9, <1>10, <1>11, <1>12,
           <1>13, <1>14, <1>15, <1>16, <1>17, <1>18, <1>19, <1>20, <1>21, <1>22, <1>23,
           <1>24, <1>25 DEF Upload!Next

LEMMA AtomicInvInit == Upload!FTAssumption /\ Upload!Init => AtomicInv
BY DEF Upload!FTAssumption, Upload!Init, AtomicInv, OneOpen, Phases, Ranked, Visits,
   Upload!Visiting, PathSound, Settled, Upload!Files

(* Without faults some steps are not taken.                                *)
LEMMA NoFaultSteps ==
  ASSUME MaxFaults = 0, FileInv, AtomicInv, NEW u \in Uploads
  PROVE  /\ ~Upload!Fault
         /\ ~Upload!CommitTorn(u) /\ ~Upload!CommitUnreached(u) /\ ~Upload!FinalizeFails(u)
             /\ ~Upload!Undo(u)
         /\ ~Upload!RecordUndone(u) /\ ~Upload!RecoverRollback(u) /\ ~Upload!InspectFails(u)
<1>1. ~Upload!Fault
  BY DEF AtomicInv, OneOpen, Upload!Fault
<1>2. Phases(u) /\ PathSound
  BY DEF AtomicInv
<1>3. ~Upload!FinalizeFails(u)
  BY <1>1, <1>2 DEF Upload!FinalizeFails, Upload!At, Upload!KeyFree, Phases
<1>4. ~Upload!RecoverRollback(u)
  BY <1>2 DEF Upload!RecoverRollback, Upload!Recovers, Phases, PathSound, Limbo
<1> QED BY <1>1, <1>2, <1>3, <1>4 DEF Upload!CommitTorn, Upload!CommitUnreached,
           Upload!Undo, Upload!RecordUndone,
        Upload!InspectFails, Upload!At, Phases

(* The row that is visited is the only one.                                *)
LEMMA VisitedOnce ==
  ASSUME FileTyped, Ranked, NEW u \in Uploads, NEW v \in Uploads, Upload!Visiting(u),
         Upload!Visiting(v)
  PROVE  u = v
<1>1. created[u] \in Nat /\ created[v] \in Nat /\ journal[u] # "none"
  BY DEF FileTyped, Upload!TypeOK, Upload!Visiting
<1>2. created[u] = created[v]
  BY <1>1 DEF Upload!Visiting
<1> QED BY <1>1, <1>2 DEF Ranked

(* With one upload at a time, none is handled when another begins.         *)
LEMMA NoneOpen ==
  ASSUME MaxOpen = 1, OneOpen, Upload!Cardinality(Upload!Open) < MaxOpen, NEW u \in Uploads
  PROVE  uploadPc[u] \in {"idle", "done"}
<1> SUFFICES ASSUME uploadPc[u] \notin {"idle", "done"} PROVE FALSE
  OBVIOUS
<1>1. Upload!Open = {u}
  BY DEF OneOpen, Upload!Open
<1>2. Cardinality(Upload!Open) = 1
  BY <1>1, FS_Singleton
<1>3. Upload!Cardinality(Upload!Open) = Cardinality(Upload!Open)
  BY DEF Upload!Cardinality, Cardinality
<1> QED BY <1>2, <1>3

LEMMA AtomicInvStep ==
  ASSUME Upload!FTAssumption, MaxOpen = 1, MaxFaults = 0, FileInv, AtomicInv,
         [Upload!Next]_(Upload!vars)
  PROVE  AtomicInv'
<1>0. FileTyped /\ OneOpen /\ (\A u \in Uploads : Phases(u)) /\ Ranked /\ Visits /\ PathSound
  BY DEF AtomicInv, FileInv
<1>t. /\ clock \in Nat /\ created \in [Uploads -> Nat] /\ todo \subseteq Uploads
      /\ \A u \in Uploads : created[u] <= clock
      /\ stage \in [Uploads -> BOOLEAN] /\ backup \in [Uploads -> Upload!Files]
      /\ uploadPc \in [Uploads -> {"idle", "staged", "committing", "refused", "unsure",
                               "settling", "recording", "marked", "cleaning", "undoing",
                               "undone", "done"}]
      /\ journal \in [Uploads -> {"none", "staged", "committed", "finalized",
                              "aborted", "rolled_back"}]
      /\ req \in [Uploads -> Upload!Requests \cup {Upload!NoRequest}]
      /\ idem \in [Keys -> [content : Contents, etag : Upload!Files,
          key : {None}] \cup {Upload!NoRequest}]
      /\ \A u \in Uploads : uploadPc[u] # "idle" => req[u].key \in Keys /\ req[u].content # None
  BY <1>0, HashOf DEF FileTyped, Upload!TypeOK
<1>f. ~Upload!Fault
  BY <1>0 DEF OneOpen, Upload!Fault
<1>l. server = "up" => \A u \in Uploads : Limbo(u) =>
                          uploadPc[u] \in {"settling", "recording", "marked"}
  BY DEF Limbo
<1> USE DEF Upload!At, Upload!Goto, Upload!Answer, Upload!Reliable, Upload!disk,
Upload!rows, Upload!boot
<1>1. ASSUME NEW u \in Uploads, Upload!StageStream(u)
      PROVE  AtomicInv'
  <2>1. OneOpen'
    BY <1>0, <1>t, <1>f, <1>1, NoneOpen DEF Upload!StageStream, OneOpen, Upload!Visiting
  <2>2. ASSUME NEW v \in Uploads
        PROVE  Phases(v)'
    BY <1>0, <1>t, <1>f, <1>1, <2>2, NoneOpen DEF Upload!StageStream, OneOpen, Phases,
       Visits, Upload!Visiting, Upload!TargetMatches
  <2>3. Ranked'
    BY <1>0, <1>t, <1>f, <1>1 DEF Upload!StageStream, Ranked, Visits, Upload!Visiting,
       Phases
  <2>4. Visits'
    BY <1>0, <1>t, <1>f, <1>1, VisitedOnce DEF Upload!StageStream, Visits,
       Upload!Visiting, Upload!TargetMatches, Phases, Ranked
  <2>5. PathSound'
    BY <1>0, <1>t, <1>f, <1>1, NoneOpen DEF Upload!StageStream, PathSound, Settled,
       Limbo, Upload!TargetMatches, OneOpen, Phases, Ranked, Visits, Upload!Visiting
  <2> QED BY <2>1, <2>2, <2>3, <2>4, <2>5 DEF AtomicInv
<1>2. ASSUME NEW u \in Uploads, Upload!Replay(u)
      PROVE  AtomicInv'
  <2>1. OneOpen'
    BY <1>0, <1>t, <1>f, <1>2 DEF Upload!Replay, Upload!BestEffort, Upload!Unstage,
       OneOpen, Upload!Visiting
  <2>2. ASSUME NEW v \in Uploads
        PROVE  Phases(v)'
    BY <1>0, <1>t, <1>f, <1>2, <2>2 DEF Upload!Replay, Upload!BestEffort, Upload!Unstage,
       OneOpen, Phases, Visits, Upload!Visiting, Upload!TargetMatches
  <2>3. Ranked'
    BY <1>0, <1>t, <1>f, <1>2 DEF Upload!Replay, Upload!BestEffort, Upload!Unstage,
       Ranked, Visits, Upload!Visiting, Phases
  <2>4. Visits'
    BY <1>0, <1>t, <1>f, <1>2, VisitedOnce DEF Upload!Replay, Upload!BestEffort,
       Upload!Unstage, Visits, Upload!Visiting, Upload!TargetMatches, Phases, Ranked
  <2>5. PathSound'
    BY <1>0, <1>t, <1>f, <1>2 DEF Upload!Replay, Upload!BestEffort, Upload!Unstage,
       PathSound, Settled, Limbo, Upload!TargetMatches, OneOpen, Phases, Ranked, Visits,
           Upload!Visiting
  <2> QED BY <2>1, <2>2, <2>3, <2>4, <2>5 DEF AtomicInv
<1>3. ASSUME NEW u \in Uploads, Upload!JournalStaged(u)
      PROVE  AtomicInv'
  <2>1. OneOpen'
    BY <1>0, <1>t, <1>f, <1>3 DEF Upload!JournalStaged, OneOpen, Upload!Visiting
  <2>2. ASSUME NEW v \in Uploads
        PROVE  Phases(v)'
    BY <1>0, <1>t, <1>f, <1>3, <2>2 DEF Upload!JournalStaged, OneOpen, Phases, Visits,
       Upload!Visiting, Upload!TargetMatches
  <2>3. Ranked'
    BY <1>0, <1>t, <1>f, <1>3 DEF Upload!JournalStaged, Ranked, Visits, Upload!Visiting,
       Phases
  <2>4. Visits'
    BY <1>0, <1>t, <1>f, <1>3, VisitedOnce DEF Upload!JournalStaged, Visits,
       Upload!Visiting, Upload!TargetMatches, Phases, Ranked
  <2>5. PathSound'
    BY <1>0, <1>t, <1>f, <1>3 DEF Upload!JournalStaged, PathSound, Settled, Limbo,
       Upload!TargetMatches, OneOpen, Phases, Ranked, Visits, Upload!Visiting
  <2> QED BY <2>1, <2>2, <2>3, <2>4, <2>5 DEF AtomicInv
<1>4. ASSUME NEW u \in Uploads, Upload!CommitRefused(u)
      PROVE  AtomicInv'
  <2>1. OneOpen'
    BY <1>0, <1>t, <1>f, <1>4 DEF Upload!CommitRefused, Upload!PreconditionHolds,
       Upload!Unstage, OneOpen, Upload!Visiting
  <2>2. ASSUME NEW v \in Uploads
        PROVE  Phases(v)'
    BY <1>0, <1>t, <1>f, <1>4, <2>2 DEF Upload!CommitRefused, Upload!PreconditionHolds,
       Upload!Unstage, OneOpen, Phases, Visits, Upload!Visiting, Upload!TargetMatches
  <2>3. Ranked'
    BY <1>0, <1>t, <1>f, <1>4 DEF Upload!CommitRefused, Upload!PreconditionHolds,
       Upload!Unstage, Ranked, Visits, Upload!Visiting, Phases
  <2>4. Visits'
    BY <1>0, <1>t, <1>f, <1>4, VisitedOnce DEF Upload!CommitRefused,
       Upload!PreconditionHolds, Upload!Unstage, Visits, Upload!Visiting, Upload!TargetMatches,
           Phases, Ranked
  <2>5. PathSound'
    BY <1>0, <1>t, <1>f, <1>4 DEF Upload!CommitRefused, Upload!PreconditionHolds,
       Upload!Unstage, PathSound, Settled, Limbo, Upload!TargetMatches, OneOpen, Phases, Ranked,
           Visits, Upload!Visiting
  <2> QED BY <2>1, <2>2, <2>3, <2>4, <2>5 DEF AtomicInv
<1>5. ASSUME NEW u \in Uploads, Upload!CommitStage(u)
      PROVE  AtomicInv'
  <2>1. OneOpen'
    BY <1>0, <1>t, <1>f, <1>5 DEF Upload!CommitStage, Upload!PreconditionHolds,
       Upload!Publish, Upload!Unstage, Upload!SetTarget, OneOpen, Upload!Visiting
  <2>2. ASSUME NEW v \in Uploads
        PROVE  Phases(v)'
    BY <1>0, <1>t, <1>f, <1>5, <2>2 DEF Upload!CommitStage, Upload!PreconditionHolds,
       Upload!Publish, Upload!Unstage, Upload!SetTarget, OneOpen, Phases, Visits, Upload!Visiting,
           Upload!TargetMatches
  <2>3. Ranked'
    BY <1>0, <1>t, <1>f, <1>5 DEF Upload!CommitStage, Upload!PreconditionHolds,
       Upload!Publish, Upload!Unstage, Upload!SetTarget, Ranked, Visits, Upload!Visiting, Phases
  <2>4. Visits'
    BY <1>0, <1>t, <1>f, <1>5, VisitedOnce DEF Upload!CommitStage,
       Upload!PreconditionHolds, Upload!Publish, Upload!Unstage, Upload!SetTarget, Visits,
           Upload!Visiting, Upload!TargetMatches, Phases, Ranked
  <2>5. PathSound'
    BY <1>0, <1>t, <1>f, <1>5 DEF Upload!CommitStage, Upload!PreconditionHolds,
       Upload!Publish, Upload!Unstage, Upload!SetTarget, PathSound, Settled, Limbo,
           Upload!TargetMatches, OneOpen, Phases, Ranked, Visits, Upload!Visiting
  <2> QED BY <2>1, <2>2, <2>3, <2>4, <2>5 DEF AtomicInv
<1>6. ASSUME NEW u \in Uploads, Upload!SettleQuota(u)
      PROVE  AtomicInv'
  <2>1. OneOpen'
    BY <1>0, <1>t, <1>f, <1>6 DEF Upload!SettleQuota, OneOpen, Upload!Visiting
  <2>2. ASSUME NEW v \in Uploads
        PROVE  Phases(v)'
    BY <1>0, <1>t, <1>f, <1>6, <2>2 DEF Upload!SettleQuota, OneOpen, Phases, Visits,
       Upload!Visiting, Upload!TargetMatches
  <2>3. Ranked'
    BY <1>0, <1>t, <1>f, <1>6 DEF Upload!SettleQuota, Ranked, Visits, Upload!Visiting,
       Phases
  <2>4. Visits'
    BY <1>0, <1>t, <1>f, <1>6, VisitedOnce DEF Upload!SettleQuota, Visits,
       Upload!Visiting, Upload!TargetMatches, Phases, Ranked
  <2>5. PathSound'
    BY <1>0, <1>t, <1>f, <1>6 DEF Upload!SettleQuota, PathSound, Settled, Limbo,
       Upload!TargetMatches, OneOpen, Phases, Ranked, Visits, Upload!Visiting
  <2> QED BY <2>1, <2>2, <2>3, <2>4, <2>5 DEF AtomicInv
<1>7. ASSUME NEW u \in Uploads, Upload!CommitFailed(u)
      PROVE  AtomicInv'
  <2>1. OneOpen'
    BY <1>0, <1>t, <1>f, <1>7 DEF Upload!CommitFailed, Upload!BestEffort, Upload!Unstage,
       OneOpen, Upload!Visiting
  <2>2. ASSUME NEW v \in Uploads
        PROVE  Phases(v)'
    BY <1>0, <1>t, <1>f, <1>7, <2>2 DEF Upload!CommitFailed, Upload!BestEffort,
       Upload!Unstage, OneOpen, Phases, Visits, Upload!Visiting, Upload!TargetMatches
  <2>3. Ranked'
    BY <1>0, <1>t, <1>f, <1>7 DEF Upload!CommitFailed, Upload!BestEffort, Upload!Unstage,
       Ranked, Visits, Upload!Visiting, Phases
  <2>4. Visits'
    BY <1>0, <1>t, <1>f, <1>7, VisitedOnce DEF Upload!CommitFailed, Upload!BestEffort,
       Upload!Unstage, Visits, Upload!Visiting, Upload!TargetMatches, Phases, Ranked
  <2>5. PathSound'
    BY <1>0, <1>t, <1>f, <1>7 DEF Upload!CommitFailed, Upload!BestEffort, Upload!Unstage,
       PathSound, Settled, Limbo, Upload!TargetMatches, OneOpen, Phases, Ranked, Visits,
           Upload!Visiting
  <2> QED BY <2>1, <2>2, <2>3, <2>4, <2>5 DEF AtomicInv
<1>19. ASSUME NEW u \in Uploads, Upload!MarkCommitted(u)
      PROVE  AtomicInv'
  <2>1. OneOpen'
    BY <1>0, <1>t, <1>f, <1>19 DEF Upload!MarkCommitted, OneOpen,
       Upload!Visiting
  <2>2. ASSUME NEW v \in Uploads
        PROVE  Phases(v)'
    BY <1>0, <1>t, <1>f, <1>19, <2>2 DEF Upload!MarkCommitted, OneOpen,
       Phases, Visits, Upload!Visiting, Upload!TargetMatches
  <2>3. Ranked'
    BY <1>0, <1>t, <1>f, <1>19 DEF Upload!MarkCommitted, Ranked, Visits,
       Upload!Visiting, Phases
  <2>4. Visits'
    BY <1>0, <1>t, <1>f, <1>19, VisitedOnce DEF Upload!MarkCommitted,
       Visits, Upload!Visiting, Upload!TargetMatches, Phases, Ranked
  <2>5. PathSound'
    BY <1>0, <1>t, <1>f, <1>19 DEF Upload!MarkCommitted, PathSound,
       Settled, Limbo, Upload!TargetMatches, OneOpen, Phases, Ranked, Visits, Upload!Visiting
  <2> QED BY <2>1, <2>2, <2>3, <2>4, <2>5 DEF AtomicInv
<1>8. ASSUME NEW u \in Uploads, Upload!FinalizeUpload(u)
      PROVE  AtomicInv'
  <2>1. OneOpen'
    BY <1>0, <1>t, <1>f, <1>8 DEF Upload!FinalizeUpload, Upload!KeyFree, OneOpen,
       Upload!Visiting
  <2>2. ASSUME NEW v \in Uploads
        PROVE  Phases(v)'
    BY <1>0, <1>t, <1>f, <1>8, <2>2 DEF Upload!FinalizeUpload, Upload!KeyFree, OneOpen,
       Phases, Visits, Upload!Visiting, Upload!TargetMatches
  <2>3. Ranked'
    BY <1>0, <1>t, <1>f, <1>8 DEF Upload!FinalizeUpload, Upload!KeyFree, Ranked, Visits,
       Upload!Visiting, Phases
  <2>4. Visits'
    BY <1>0, <1>t, <1>f, <1>8, VisitedOnce DEF Upload!FinalizeUpload, Upload!KeyFree,
       Visits, Upload!Visiting, Upload!TargetMatches, Phases, Ranked
  <2>5. PathSound'
    BY <1>0, <1>t, <1>f, <1>8 DEF Upload!FinalizeUpload, Upload!KeyFree, PathSound,
       Settled, Limbo, Upload!TargetMatches, OneOpen, Phases, Ranked, Visits, Upload!Visiting
  <2> QED BY <2>1, <2>2, <2>3, <2>4, <2>5 DEF AtomicInv
<1>9. ASSUME NEW u \in Uploads, Upload!FinalizeStage(u)
      PROVE  AtomicInv'
  <2>1. OneOpen'
    BY <1>0, <1>t, <1>f, <1>9 DEF Upload!FinalizeStage, Upload!BestEffort,
       Upload!DropBackup, OneOpen, Upload!Visiting
  <2>2. ASSUME NEW v \in Uploads
        PROVE  Phases(v)'
    BY <1>0, <1>t, <1>f, <1>9, <2>2 DEF Upload!FinalizeStage, Upload!BestEffort,
       Upload!DropBackup, OneOpen, Phases, Visits, Upload!Visiting, Upload!TargetMatches
  <2>3. Ranked'
    BY <1>0, <1>t, <1>f, <1>9 DEF Upload!FinalizeStage, Upload!BestEffort,
       Upload!DropBackup, Ranked, Visits, Upload!Visiting, Phases
  <2>4. Visits'
    BY <1>0, <1>t, <1>f, <1>9, VisitedOnce DEF Upload!FinalizeStage, Upload!BestEffort,
       Upload!DropBackup, Visits, Upload!Visiting, Upload!TargetMatches, Phases, Ranked
  <2>5. PathSound'
    BY <1>0, <1>t, <1>f, <1>9 DEF Upload!FinalizeStage, Upload!BestEffort,
       Upload!DropBackup, PathSound, Settled, Limbo, Upload!TargetMatches, OneOpen, Phases, Ranked,
           Visits, Upload!Visiting
  <2> QED BY <2>1, <2>2, <2>3, <2>4, <2>5 DEF AtomicInv
<1>10. ASSUME NEW u \in Uploads, Upload!RecoverAbort(u)
      PROVE  AtomicInv'
  <2>1. OneOpen'
    BY <1>0, <1>t, <1>f, <1>10 DEF Upload!RecoverAbort, Upload!BestEffort,
       Upload!Unstage, Upload!Recovers, OneOpen, Upload!Visiting
  <2>2. ASSUME NEW v \in Uploads
        PROVE  Phases(v)'
    BY <1>0, <1>t, <1>f, <1>10, <2>2 DEF Upload!RecoverAbort, Upload!BestEffort,
       Upload!Unstage, Upload!Recovers, OneOpen, Phases, Visits, Upload!Visiting,
           Upload!TargetMatches
  <2>3. Ranked'
    BY <1>0, <1>t, <1>f, <1>10 DEF Upload!RecoverAbort, Upload!BestEffort,
       Upload!Unstage, Upload!Recovers, Ranked, Visits, Upload!Visiting, Phases
  <2>4. Visits'
    BY <1>0, <1>t, <1>f, <1>10, VisitedOnce DEF Upload!RecoverAbort, Upload!BestEffort,
       Upload!Unstage, Upload!Recovers, Visits, Upload!Visiting, Upload!TargetMatches, Phases,
           Ranked
  <2>5. PathSound'
    BY <1>0, <1>t, <1>f, <1>10 DEF Upload!RecoverAbort, Upload!BestEffort,
       Upload!Unstage, Upload!Recovers, PathSound, Settled, Limbo, Upload!TargetMatches, OneOpen,
           Phases, Ranked, Visits, Upload!Visiting
  <2> QED BY <2>1, <2>2, <2>3, <2>4, <2>5 DEF AtomicInv
<1>11. ASSUME NEW u \in Uploads, Upload!RecoverFinalize(u)
      PROVE  AtomicInv'
  <2>1. OneOpen'
    BY <1>0, <1>t, <1>f, <1>11 DEF Upload!RecoverFinalize, Upload!MayFinalize,
       Upload!Recovers, Upload!KeyAgrees, OneOpen, Upload!Visiting
  <2>2. ASSUME NEW v \in Uploads
        PROVE  Phases(v)'
    BY <1>0, <1>t, <1>f, <1>11, <2>2 DEF Upload!RecoverFinalize, Upload!MayFinalize,
       Upload!Recovers, Upload!KeyAgrees, OneOpen, Phases, Visits, Upload!Visiting,
           Upload!TargetMatches
  <2>3. Ranked'
    BY <1>0, <1>t, <1>f, <1>11 DEF Upload!RecoverFinalize, Upload!MayFinalize,
       Upload!Recovers, Upload!KeyAgrees, Ranked, Visits, Upload!Visiting, Phases
  <2>4. Visits'
    BY <1>0, <1>t, <1>f, <1>11, VisitedOnce DEF Upload!RecoverFinalize,
       Upload!MayFinalize, Upload!Recovers, Upload!KeyAgrees, Visits, Upload!Visiting,
           Upload!TargetMatches, Phases, Ranked
  <2>5. PathSound'
    BY <1>0, <1>t, <1>f, <1>11 DEF Upload!RecoverFinalize, Upload!MayFinalize,
       Upload!Recovers, Upload!KeyAgrees, PathSound, Settled, Limbo, Upload!TargetMatches, OneOpen,
           Phases, Ranked, Visits, Upload!Visiting
  <2> QED BY <2>1, <2>2, <2>3, <2>4, <2>5 DEF AtomicInv
<1>12. ASSUME NEW u \in Uploads, Upload!RecoverCleanup(u)
      PROVE  AtomicInv'
  <2>1. OneOpen'
    BY <1>0, <1>t, <1>f, <1>12 DEF Upload!RecoverCleanup, Upload!BestEffort,
       Upload!DropBackup, OneOpen, Upload!Visiting
  <2>2. ASSUME NEW v \in Uploads
        PROVE  Phases(v)'
    BY <1>0, <1>t, <1>f, <1>12, <2>2 DEF Upload!RecoverCleanup, Upload!BestEffort,
       Upload!DropBackup, OneOpen, Phases, Visits, Upload!Visiting, Upload!TargetMatches
  <2>3. Ranked'
    BY <1>0, <1>t, <1>f, <1>12 DEF Upload!RecoverCleanup, Upload!BestEffort,
       Upload!DropBackup, Ranked, Visits, Upload!Visiting, Phases
  <2>4. Visits'
    BY <1>0, <1>t, <1>f, <1>12, VisitedOnce DEF Upload!RecoverCleanup, Upload!BestEffort,
       Upload!DropBackup, Visits, Upload!Visiting, Upload!TargetMatches, Phases, Ranked
  <2>5. PathSound'
    BY <1>0, <1>t, <1>f, <1>12 DEF Upload!RecoverCleanup, Upload!BestEffort,
       Upload!DropBackup, PathSound, Settled, Limbo, Upload!TargetMatches, OneOpen, Phases, Ranked,
           Visits, Upload!Visiting
  <2> QED BY <2>1, <2>2, <2>3, <2>4, <2>5 DEF AtomicInv
<1>13. ASSUME NEW u \in Uploads, Upload!RecoverGivesUp(u)
      PROVE  AtomicInv'
  <2>1. OneOpen'
    BY <1>0, <1>t, <1>f, <1>13 DEF Upload!RecoverGivesUp, Upload!MayFinalize,
       Upload!Recovers, OneOpen, Upload!Visiting
  <2>2. ASSUME NEW v \in Uploads
        PROVE  Phases(v)'
    BY <1>0, <1>t, <1>f, <1>13, <2>2 DEF Upload!RecoverGivesUp, Upload!MayFinalize,
       Upload!Recovers, OneOpen, Phases, Visits, Upload!Visiting, Upload!TargetMatches
  <2>3. Ranked'
    BY <1>0, <1>t, <1>f, <1>13 DEF Upload!RecoverGivesUp, Upload!MayFinalize,
       Upload!Recovers, Ranked, Visits, Upload!Visiting, Phases
  <2>4. Visits'
    BY <1>0, <1>t, <1>f, <1>13, VisitedOnce DEF Upload!RecoverGivesUp,
       Upload!MayFinalize, Upload!Recovers, Visits, Upload!Visiting, Upload!TargetMatches, Phases,
           Ranked
  <2>5. PathSound'
    BY <1>0, <1>t, <1>f, <1>13 DEF Upload!RecoverGivesUp, Upload!MayFinalize,
       Upload!Recovers, PathSound, Settled, Limbo, Upload!TargetMatches, OneOpen, Phases, Ranked,
           Visits, Upload!Visiting
  <2> QED BY <2>1, <2>2, <2>3, <2>4, <2>5 DEF AtomicInv
<1>14. ASSUME NEW u \in Uploads, Upload!RecoverRecord(u)
      PROVE  AtomicInv'
  <2>1. OneOpen'
    BY <1>0, <1>t, <1>f, <1>14 DEF Upload!RecoverRecord, OneOpen, Upload!Visiting
  <2>2. ASSUME NEW v \in Uploads
        PROVE  Phases(v)'
    BY <1>0, <1>t, <1>f, <1>14, <2>2 DEF Upload!RecoverRecord, OneOpen, Phases, Visits,
       Upload!Visiting, Upload!TargetMatches
  <2>3. Ranked'
    BY <1>0, <1>t, <1>f, <1>14 DEF Upload!RecoverRecord, Ranked, Visits, Upload!Visiting,
       Phases
  <2>4. Visits'
    BY <1>0, <1>t, <1>f, <1>14, VisitedOnce DEF Upload!RecoverRecord, Visits,
       Upload!Visiting, Upload!TargetMatches, Phases, Ranked
  <2>5. PathSound'
    BY <1>0, <1>t, <1>f, <1>14 DEF Upload!RecoverRecord, PathSound, Settled, Limbo,
       Upload!TargetMatches, OneOpen, Phases, Ranked, Visits, Upload!Visiting
  <2> QED BY <2>1, <2>2, <2>3, <2>4, <2>5 DEF AtomicInv
<1>15. CASE Upload!Restart
  <2>1. OneOpen'
    BY <1>0, <1>t, <1>f, <1>15 DEF Upload!Restart, OneOpen, Upload!Open
  <2>2. ASSUME NEW v \in Uploads
        PROVE  Phases(v)'
    BY <1>0, <1>t, <1>f, <1>15, <2>2 DEF Upload!Restart, OneOpen, Phases, Upload!Open
  <2>3. Ranked'
    BY <1>0, <1>t, <1>f, <1>15 DEF Upload!Restart, Ranked
  <2>4. Visits'
    BY <1>0, <1>t, <1>f, <1>15 DEF Upload!Restart, Visits, Upload!Visiting,
       Upload!TargetMatches
  <2>5. PathSound'
    BY <1>0, <1>t, <1>f, <1>15 DEF Upload!Restart, PathSound, Settled, Limbo,
       Upload!TargetMatches, OneOpen, Phases, Upload!Open, Upload!Pending
  <2> QED BY <2>1, <2>2, <2>3, <2>4, <2>5 DEF AtomicInv
<1>16. CASE Upload!Listen
  <2>1. OneOpen'
    BY <1>0, <1>t, <1>f, <1>16 DEF Upload!Listen, OneOpen, Upload!Open
  <2>2. ASSUME NEW v \in Uploads
        PROVE  Phases(v)'
    BY <1>0, <1>t, <1>f, <1>16, <2>2 DEF Upload!Listen, OneOpen, Phases, Upload!Open
  <2>3. Ranked'
    BY <1>0, <1>t, <1>f, <1>16 DEF Upload!Listen, Ranked
  <2>4. Visits'
    BY <1>0, <1>t, <1>f, <1>16 DEF Upload!Listen, Visits, Upload!Visiting,
       Upload!TargetMatches
  <2>5. PathSound'
    BY <1>0, <1>t, <1>f, <1>16 DEF Upload!Listen, PathSound, Settled, Limbo,
       Upload!TargetMatches, OneOpen, Phases, Upload!Open, Upload!Pending
  <2> QED BY <2>1, <2>2, <2>3, <2>4, <2>5 DEF AtomicInv
<1>17. CASE UNCHANGED Upload!vars
  BY <1>0, <1>17 DEF Upload!vars, AtomicInv, OneOpen, Phases, Ranked, Visits, PathSound,
     Settled, Limbo, Upload!Visiting, Upload!TargetMatches
<1>18. \A u \in Uploads : /\ ~Upload!CommitTorn(u) /\ ~Upload!CommitUnreached(u)
                             /\ ~Upload!FinalizeFails(u) /\ ~Upload!Undo(u)
         /\ ~Upload!RecordUndone(u) /\ ~Upload!RecoverRollback(u) /\ ~Upload!InspectFails(u)
  BY NoFaultSteps
<1> QED BY <1>18, <1>1, <1>2, <1>3, <1>4, <1>5, <1>6, <1>7, <1>8, <1>9, <1>10, <1>11,
           <1>12, <1>13, <1>14, <1>15, <1>16, <1>17, <1>19 DEF Upload!Next

(* Where the newest finalized upload is known, it is the last one.         *)
LEMMA SettledPath ==
  ASSUME FileTyped, AtomicInv, Settled
  PROVE  target = Upload!LastFinalized
<1> DEFINE final == {u \in Uploads : journal[u] = "finalized"}
           last == CHOOSE u \in final : \A v \in final : created[v] <= created[u]
<1>1. CASE target = origin /\ final = {}
  BY <1>1 DEF Upload!LastFinalized
<1>2. ASSUME NEW u \in final, target = req[u].content,
             \A v \in final : created[v] <= created[u]
      PROVE  target = Upload!LastFinalized
  <2>1. last \in final /\ \A v \in final : created[v] <= created[last]
    BY <1>2
  <2>2. created[last] = created[u]
    BY <1>2, <2>1 DEF FileTyped, Upload!TypeOK
  <2>3. last = u
    BY <1>2, <2>1, <2>2 DEF AtomicInv, Ranked
  <2>4. final # {}
    BY <1>2
  <2>5. Upload!LastFinalized = req[last].content
    BY <2>4, Zenon DEF Upload!LastFinalized
  <2> HIDE DEF last
  <2> QED BY <1>2, <2>3, <2>5
<1> QED BY <1>1, <1>2 DEF Settled

(* No upload is half way when no handler is at work.                       *)
LEMMA AtomicHolds ==
  ASSUME FileInv, AtomicInv
  PROVE  Upload!CrashAtomic
<1> SUFFICES ASSUME Upload!AtRest
             PROVE  /\ target = Upload!LastFinalized
                    /\ \A u \in Uploads : stage[u] => journal[u] \in {"none", "staged"}
  BY DEF Upload!CrashAtomic
<1>1. \A u \in Uploads : ~Limbo(u)
  BY DEF Upload!AtRest, Upload!Open, Limbo
<1>2. Settled
  BY <1>1 DEF AtomicInv, PathSound
<1> QED BY <1>2, SettledPath DEF FileInv, AtomicInv, Phases

(* A client that got 201 can repeat its request and a stored response      *)
(* tells of bytes that reached the path, whatever is uploaded at the same  *)
(* time, crashes, is lost or fails; with uploads one at a time and calls   *)
(* that succeed, a server that is up again after crashes, in the recovery  *)
(* too, has every transfer applied and finalized or without effect         *)
(* (handler.ts, file-ops.ts, file-transfer-recovery.ts).                   *)
THEOREM UploadsAreAtomic ==
  Upload!FTAssumption =>
           (Upload!Spec => /\ []Upload!TypeOK /\ []Upload!AckedIsRepeatable
                              /\ []Upload!RecordedWasApplied
                           /\ [](MaxOpen = 1 /\ MaxFaults = 0 => Upload!CrashAtomic))
<1> SUFFICES ASSUME Upload!FTAssumption
             PROVE  Upload!Spec => /\ []Upload!TypeOK /\ []Upload!AckedIsRepeatable
                                      /\ []Upload!RecordedWasApplied
                                   /\ [](MaxOpen = 1 /\ MaxFaults = 0 => Upload!CrashAtomic)
  OBVIOUS
<1>1. Upload!Spec => []FileInv
  BY FileInvInit, FileInvStep, PTL DEF Upload!Spec
<1>2. FileInv => Upload!TypeOK /\ Upload!AckedIsRepeatable /\ Upload!RecordedWasApplied
  BY DEF FileInv, FileTyped, FileKeys, FileApplied, Upload!AckedIsRepeatable
<1> DEFINE Alone == MaxOpen = 1 /\ MaxFaults = 0
<1>3. Upload!Init => (Alone => AtomicInv)
  BY AtomicInvInit
<1>4. FileInv /\ (Alone => AtomicInv) /\ [Upload!Next]_(Upload!vars) => (Alone => AtomicInv)'
  BY AtomicInvStep
<1>5. FileInv /\ (Alone => AtomicInv) => (MaxOpen = 1 /\ MaxFaults = 0 => Upload!CrashAtomic)
  BY AtomicHolds
<1> HIDE DEF Alone
<1> QED BY <1>1, <1>2, <1>3, <1>4, <1>5, PTL DEF Upload!Spec
=============================================================================
