--------------------------- MODULE ServerTheorems ---------------------------
(***************************************************************************)
(* What is proved about the parts of the platform server beside the        *)
(* delivery gateway, for any values of their constants: the Lark outbox,   *)
(* steering, the task worker and its failure notices, the scheduler.  They *)
(* share no state.  The variables have the names they have in MCServer,    *)
(* which takes its instances from here, so that the theorems can be cited  *)
(* for them.                                                               *)
(***************************************************************************)
EXTENDS Naturals, FiniteSets, Sequences, WellFoundedInduction, SequenceTheorems,
        FiniteSetTheorems, TLAPS

CONSTANTS
  Items, Kinds, MaxAttempts, MaxFaults, MaxCardFaults, MaxCrashes, \* LarkOutbox
  Messages, MaxTurns, MaxCalls, MaxSends, MaxThrows, MayCorrupt,   \* Steering
  Tasks, Scripts, MaxRetries, CancelFails, MaxRuns, MaxOps, MaxRestarts, \* TaskRuns
  N, Missed, InApp, NoSession, ScanLimit, PendingLimit, MaxTries, AllEvents,
  MaxManual, MaxSwitches, MaxKills,                     \* TaskNotifications
  Users, PerUser, Limit, MaxArrivals, MaxUpgrades, MayBreak   \* Scheduler

VARIABLES
  kind, turn, aged, tracker, job, larkRow, larkAtt, sender, cardRow, card,
  text, file, plain, boot, deferred, larkFaults, cardFaults, crashes,
  run, content, agent, call, inboxKey, steerKey, seen, acked, dropped,
  blocked, way, steerSends, steerFaults,
  task, runs, worker, ops, restarts,
  occ, sub, noticeRow, noticeAtt, pass, noticeSends, shown, noticeLeft,
  queue, active, passing, wake, schedUp, arrived, upgrades

Lark == INSTANCE LarkOutbox WITH
  row <- larkRow, att <- larkAtt, faults <- larkFaults
Steer == INSTANCE Steering WITH
  MaxFaults <- MaxThrows, sends <- steerSends, faults <- steerFaults
Work == INSTANCE TaskRuns
Notice == INSTANCE TaskNotifications WITH
  MaxAttempts <- MaxTries, MaxCrashes <- MaxKills, row <- noticeRow,
  att <- noticeAtt, sends <- noticeSends, left <- noticeLeft
Sched == INSTANCE Scheduler WITH
  MaxTurns <- MaxArrivals, MayCorrupt <- MayBreak, up <- schedUp

-----------------------------------------------------------------------------
(* The Lark outbox.                                                        *)

(* What the handler of an item, its sender and its rows have to do with    *)
(* each other.                                                             *)
LarkTyped ==
  /\ kind \in [Items -> Kinds] /\ turn \in [Items -> {"none", "running", "completed", "failed"}]
  /\ tracker \in [Items -> {"none", "card", "nocard"}]
  /\ larkRow \in [Items -> {"none", "pending", "sending", "delivered", "failed"}]
  /\ larkAtt \in [Items -> Nat]
  /\ sender \in [Items -> {"none", "claimed", "ok", "threw"}]
  /\ job \in [Items -> {"none", "begin", "finalize", "record", "close", "create",
                        "card", "plain", "mark", "upload"}]
  /\ cardRow \in [Items -> {"none", "streaming", "lapsed", "completed", "failed", "aborted"}]
  /\ card \in [Items -> {"none", "streaming", "final", "degraded", "aborted"}]
  /\ text \in [Items -> BOOLEAN] /\ file \in [Items -> BOOLEAN]
  /\ plain \in [Items -> BOOLEAN]
  /\ boot \in {"scan", "cards", "up"} /\ crashes \in 0..MaxCrashes /\ cardFaults \in Nat

(* Which handler works on the item, and what it has done.                  *)
LarkJob(i) ==
  /\ job[i] \in {"finalize", "record", "close", "create"} => kind[i] = "reply"
  /\ job[i] \in {"card", "plain", "mark"} =>
       kind[i] = "task" /\ larkRow[i] = "sending" /\ sender[i] = "none"
  /\ job[i] = "upload" => kind[i] = "file"
  /\ kind[i] = "file" => job[i] \in {"none", "upload"} /\ turn[i] = "none"
  /\ job[i] \in {"begin", "finalize", "record", "close", "create"} =>
       turn[i] \in {"completed", "failed"}
  /\ job[i] \in {"finalize", "record"} => boot = "up" /\ larkRow[i] = "none"
  /\ job[i] = "close" => larkRow[i] # "none"
  /\ job[i] = "record" => card[i] \in {"final", "degraded"}
  /\ job[i] = "mark" => card[i] = "final" \/ plain[i]

(* What the rows of the item say of it.                                    *)
LarkRow(i) ==
  /\ kind[i] # "file" /\ turn[i] \in {"none", "running"} => larkRow[i] = "none"
  /\ larkRow[i] \in {"none", "pending"} /\ kind[i] # "file" => sender[i] = "none"
  /\ sender[i] # "none" /\ kind[i] # "file" => larkRow[i] = "sending"
  /\ cardRow[i] # "none" => kind[i] = "reply" /\ turn[i] # "none"
  /\ tracker[i] = "card" => boot = "up"
  /\ tracker[i] # "none" => kind[i] = "reply"
  /\ sender[i] = "ok" => text[i] \/ file[i]
  /\ larkRow[i] = "delivered" /\ turn[i] # "failed" =>
           text[i] \/ plain[i] \/ file[i] \/ card[i] \in {"final", "degraded"}

(* No attempt beyond the limit, where no upload counts one of its own.     *)
LarkAttempts(i) ==
  kind[i] # "file" => /\ larkAtt[i] <= MaxAttempts
                      /\ larkRow[i] = "none" => larkAtt[i] = 0
                      /\ larkRow[i] = "pending" => larkAtt[i] < MaxAttempts

(* While the server has not stopped: who has begun to answer goes on alone,*)
(* but for a task when a card request has failed.                          *)
LarkOnce(i) ==
  crashes = 0 =>
    /\ boot = "up" /\ (kind[i] = "file" => card[i] = "none")
    /\ plain[i] => kind[i] = "task" /\ cardFaults # 0
    /\ job[i] = "plain" => cardFaults # 0
    /\ job[i] \in {"begin", "finalize", "record", "create"} => larkRow[i] = "none"
    /\ kind[i] # "file" /\ larkRow[i] = "none" => ~text[i]
    /\ job[i] \in {"card", "plain", "mark"} => ~text[i]
    /\ card[i] \in {"final", "degraded"} =>
         \/ kind[i] = "task" /\ cardFaults # 0
         \/ /\ ~text[i] /\ sender[i] = "none" /\ turn[i] \in {"completed", "failed"}
            /\ job[i] = "record" \/ job[i] = "mark" \/ larkRow[i] = "delivered"

LarkItem(i) == LarkJob(i) /\ LarkRow(i) /\ LarkAttempts(i) /\ LarkOnce(i)

LarkInv == LarkTyped /\ \A i \in Items : LarkItem(i)

LEMMA LarkInvInit == Lark!LarkOutboxAssumption /\ Lark!Init => LarkInv
BY DEF Lark!LarkOutboxAssumption, Lark!Init, Lark!All, LarkInv, LarkTyped, LarkItem,
   LarkJob, LarkRow,
   LarkAttempts, LarkOnce

(* A step leaves item j as it was.                                         *)
SameItem(j) ==
  /\ kind'[j] = kind[j] /\ turn'[j] = turn[j] /\ tracker'[j] = tracker[j] /\ job'[j] = job[j]
  /\ larkRow'[j] = larkRow[j] /\ larkAtt'[j] = larkAtt[j] /\ sender'[j] = sender[j]
      /\ cardRow'[j] = cardRow[j]
  /\ card'[j] = card[j] /\ text'[j] = text[j] /\ file'[j] = file[j] /\ plain'[j] = plain[j]

(* A card request that has failed is not forgotten.                        *)
FaultsStay == cardFaults # 0 => cardFaults' # 0

LEMMA LarkSame ==
  ASSUME NEW j \in Items, LarkItem(j), SameItem(j), FaultsStay, boot' = boot \/ boot' = "up" \/
           (tracker[j] # "card" /\ job[j] \notin {"finalize", "record"} /\ crashes' # 0),
         crashes = 0 => boot = "up" \/ boot' = "up", crashes' = 0 => crashes = 0 /\ boot' = "up"
  PROVE  LarkItem(j)'
BY DEF SameItem, FaultsStay, LarkItem, LarkJob, LarkRow, LarkAttempts, LarkOnce

(* A step about item i.                                                    *)
LEMMA LarkPoint ==
  ASSUME LarkInv, NEW i \in Items, LarkTyped', boot' = boot, crashes' = crashes, FaultsStay,
         \A j \in Items \ {i} : SameItem(j), LarkItem(i)'
  PROVE  LarkInv'
<1>1. ASSUME NEW j \in Items, j # i
      PROVE  LarkItem(j)'
  <2>1. LarkItem(j) /\ SameItem(j)
    BY <1>1 DEF LarkInv
  <2>2. crashes = 0 => boot = "up"
    BY <2>1 DEF LarkItem, LarkOnce
  <2> QED BY <2>1, <2>2, LarkSame
<1> QED BY <1>1 DEF LarkInv

LEMMA LarkInvStep == Lark!LarkOutboxAssumption /\ LarkInv /\ [Lark!Next]_(Lark!vars) => LarkInv'
<1> SUFFICES ASSUME Lark!LarkOutboxAssumption, LarkInv, [Lark!Next]_(Lark!vars)
             PROVE  LarkInv'
  OBVIOUS
<1>0. LarkTyped /\ \A i \in Items : LarkItem(i)
  BY DEF LarkInv
<1>a. MaxAttempts \in Nat \ {0} /\ MaxFaults \in Nat /\ MaxCardFaults \in Nat /\ MaxCrashes \in Nat
  BY DEF Lark!LarkOutboxAssumption
<1> USE DEF Lark!Set, SameItem, FaultsStay
<1>1. ASSUME NEW i \in Items, Lark!Stream(i)
      PROVE  LarkInv'
  <2>1. /\ LarkTyped' /\ boot' = boot /\ crashes' = crashes /\ FaultsStay
        /\ \A j \in Items \ {i} : SameItem(j)
    BY <1>0, <1>1 DEF Lark!Stream, LarkTyped, Lark!Insert, Lark!Retry, Lark!Fault,
       Lark!CardFault, Lark!chat, Lark!bounds
  <2>2. LarkItem(i)'
    BY <1>0, <1>a, <1>1, <2>1 DEF Lark!Stream, LarkTyped, Lark!Insert, Lark!Retry,
       Lark!Fault, Lark!CardFault, Lark!chat, Lark!bounds,
       Lark!Unsent, Lark!Orphan, LarkItem, LarkJob, LarkRow, LarkAttempts, LarkOnce
  <2> QED BY <2>1, <2>2, LarkPoint
<1>2. ASSUME NEW i \in Items, NEW how \in {"completed", "failed"}, Lark!TurnEnds(i, how)
      PROVE  LarkInv'
  <2>1. /\ LarkTyped' /\ boot' = boot /\ crashes' = crashes /\ FaultsStay
        /\ \A j \in Items \ {i} : SameItem(j)
    BY <1>0, <1>2 DEF Lark!TurnEnds, LarkTyped, Lark!Insert, Lark!Retry, Lark!Fault,
       Lark!CardFault, Lark!chat, Lark!bounds
  <2>2. LarkItem(i)'
    BY <1>0, <1>a, <1>2, <2>1 DEF Lark!TurnEnds, LarkTyped, Lark!Insert, Lark!Retry,
       Lark!Fault, Lark!CardFault, Lark!chat, Lark!bounds,
       Lark!Unsent, Lark!Orphan, LarkItem, LarkJob, LarkRow, LarkAttempts, LarkOnce
  <2> QED BY <2>1, <2>2, LarkPoint
<1>3. ASSUME NEW i \in Items, Lark!Age(i)
      PROVE  LarkInv'
  <2>1. /\ LarkTyped' /\ boot' = boot /\ crashes' = crashes /\ FaultsStay
        /\ \A j \in Items \ {i} : SameItem(j)
    BY <1>0, <1>3 DEF Lark!Age, LarkTyped, Lark!Insert, Lark!Retry, Lark!Fault,
       Lark!CardFault, Lark!chat, Lark!bounds
  <2>2. LarkItem(i)'
    BY <1>0, <1>a, <1>3, <2>1 DEF Lark!Age, LarkTyped, Lark!Insert, Lark!Retry,
       Lark!Fault, Lark!CardFault, Lark!chat, Lark!bounds,
       Lark!Unsent, Lark!Orphan, LarkItem, LarkJob, LarkRow, LarkAttempts, LarkOnce
  <2> QED BY <2>1, <2>2, LarkPoint
<1>4. ASSUME NEW i \in Items, Lark!BeginReply(i)
      PROVE  LarkInv'
  <2>1. /\ LarkTyped' /\ boot' = boot /\ crashes' = crashes /\ FaultsStay
        /\ \A j \in Items \ {i} : SameItem(j)
    BY <1>0, <1>4 DEF Lark!BeginReply, LarkTyped, Lark!Insert, Lark!Retry, Lark!Fault,
       Lark!CardFault, Lark!chat, Lark!bounds
  <2>2. LarkItem(i)'
    BY <1>0, <1>a, <1>4, <2>1 DEF Lark!BeginReply, LarkTyped, Lark!Insert, Lark!Retry,
       Lark!Fault, Lark!CardFault, Lark!chat, Lark!bounds,
       Lark!Unsent, Lark!Orphan, LarkItem, LarkJob, LarkRow, LarkAttempts, LarkOnce
  <2> QED BY <2>1, <2>2, LarkPoint
<1>5. ASSUME NEW i \in Items, Lark!FinalizeCard(i)
      PROVE  LarkInv'
  <2>1. PICK f \in BOOLEAN, v \in {"final", "degraded"} :
          /\ job[i] = "finalize" /\ job' = [job EXCEPT ![i] = "record"]
          /\ card' = [card EXCEPT ![i] = v] /\ file' = [file EXCEPT ![i] = f]
          /\ UNCHANGED <<kind, turn, tracker, larkRow, larkAtt, sender, cardRow, text, plain,
              boot, crashes>>
          /\ FaultsStay /\ cardFaults' \in Nat /\ (v = "final" => f = file[i])
    <3>1. CASE Lark!Set(card, i, "final") /\ UNCHANGED <<file, Lark!bounds>>
      <4>1. /\ file[i] \in BOOLEAN /\ file' = [file EXCEPT ![i] = file[i]]
            /\ cardFaults \in Nat
        BY <1>0, <3>1 DEF LarkTyped
      <4> QED BY <1>5, <3>1, <4>1 DEF Lark!FinalizeCard, Lark!bounds
    <3>2. CASE Lark!CardFault /\ Lark!Set(card, i, "degraded")
               /\ \E sent \in BOOLEAN : Lark!Set(file, i, sent)
      <4>1. FaultsStay /\ cardFaults' \in Nat
        BY <1>0, <3>2 DEF LarkTyped, Lark!CardFault
      <4>2. PICK sent \in BOOLEAN : Lark!Set(file, i, sent)
        BY <3>2
      <4> QED BY <1>5, <3>2, <4>1, <4>2 DEF Lark!FinalizeCard, Lark!CardFault
    <3> QED BY <1>5, <3>1, <3>2 DEF Lark!FinalizeCard
  <2>2. /\ LarkTyped' /\ \A j \in Items \ {i} : SameItem(j)
        /\ job'[i] = "record" /\ card'[i] = v
    BY <1>0, <2>1 DEF LarkTyped
  <2>3. LarkJob(i)' /\ LarkAttempts(i)'
    BY <1>0, <2>1, <2>2 DEF LarkItem, LarkJob, LarkAttempts
  <2>4. LarkRow(i)'
    <3>1. sender[i] = "none" /\ larkRow[i] = "none"
      BY <1>0, <2>1 DEF LarkItem, LarkJob, LarkRow
    <3> QED BY <1>0, <2>1, <2>2, <3>1 DEF LarkItem, LarkRow
  <2>5. LarkOnce(i)'
    BY <1>0, <2>1, <2>2 DEF LarkItem, LarkJob, LarkRow, LarkOnce
  <2> QED BY <2>1, <2>2, <2>3, <2>4, <2>5, LarkPoint DEF LarkItem
<1>6. ASSUME NEW i \in Items, Lark!RecordCard(i)
      PROVE  LarkInv'
  <2>0. turn[i] \in {"completed", "failed"}
    BY <1>0, <1>6 DEF Lark!RecordCard, LarkItem, LarkJob
  <2>1. /\ LarkTyped' /\ boot' = boot /\ crashes' = crashes /\ FaultsStay
        /\ \A j \in Items \ {i} : SameItem(j)
    BY <1>0, <1>6, <2>0 DEF Lark!RecordCard, LarkTyped, Lark!Insert, Lark!chat,
       Lark!bounds
  <2>2. LarkItem(i)'
    BY <1>0, <1>a, <1>6, <2>0, <2>1 DEF Lark!RecordCard, LarkTyped, Lark!Insert,
       Lark!chat, Lark!bounds,
       LarkItem, LarkJob, LarkRow, LarkAttempts, LarkOnce
  <2> QED BY <2>1, <2>2, LarkPoint
<1>7. ASSUME NEW i \in Items, Lark!CreateRow(i)
      PROVE  LarkInv'
  <2>1. /\ LarkTyped' /\ boot' = boot /\ crashes' = crashes /\ FaultsStay
        /\ \A j \in Items \ {i} : SameItem(j)
    BY <1>0, <1>7 DEF Lark!CreateRow, LarkTyped, Lark!Insert, Lark!Retry, Lark!Fault,
       Lark!CardFault, Lark!chat, Lark!bounds
  <2>2. LarkItem(i)'
    BY <1>0, <1>a, <1>7, <2>1 DEF Lark!CreateRow, LarkTyped, Lark!Insert, Lark!Retry,
       Lark!Fault, Lark!CardFault, Lark!chat, Lark!bounds,
       Lark!Unsent, Lark!Orphan, LarkItem, LarkJob, LarkRow, LarkAttempts, LarkOnce
  <2> QED BY <2>1, <2>2, LarkPoint
<1>8. ASSUME NEW i \in Items, Lark!BeginTask(i)
      PROVE  LarkInv'
  <2>1. /\ LarkTyped' /\ boot' = boot /\ crashes' = crashes /\ FaultsStay
        /\ \A j \in Items \ {i} : SameItem(j)
    BY <1>0, <1>8 DEF Lark!BeginTask, LarkTyped, Lark!Insert, Lark!Retry, Lark!Fault,
       Lark!CardFault, Lark!chat, Lark!bounds
  <2>2. LarkItem(i)'
    BY <1>0, <1>a, <1>8, <2>1 DEF Lark!BeginTask, LarkTyped, Lark!Insert, Lark!Retry,
       Lark!Fault, Lark!CardFault, Lark!chat, Lark!bounds,
       Lark!Unsent, Lark!Orphan, LarkItem, LarkJob, LarkRow, LarkAttempts, LarkOnce
  <2> QED BY <2>1, <2>2, LarkPoint
<1>9. ASSUME NEW i \in Items, Lark!TaskCard(i)
      PROVE  LarkInv'
  <2>1. /\ LarkTyped' /\ boot' = boot /\ crashes' = crashes /\ FaultsStay
        /\ \A j \in Items \ {i} : SameItem(j)
    BY <1>0, <1>9 DEF Lark!TaskCard, LarkTyped, Lark!Insert, Lark!Retry, Lark!Fault,
       Lark!CardFault, Lark!chat, Lark!bounds
  <2>2. LarkItem(i)'
    BY <1>0, <1>a, <1>9, <2>1 DEF Lark!TaskCard, LarkTyped, Lark!Insert, Lark!Retry,
       Lark!Fault, Lark!CardFault, Lark!chat, Lark!bounds,
       Lark!Unsent, Lark!Orphan, LarkItem, LarkJob, LarkRow, LarkAttempts, LarkOnce
  <2> QED BY <2>1, <2>2, LarkPoint
<1>10. ASSUME NEW i \in Items, Lark!MarkTask(i)
      PROVE  LarkInv'
  <2>1. /\ LarkTyped' /\ boot' = boot /\ crashes' = crashes /\ FaultsStay
        /\ \A j \in Items \ {i} : SameItem(j)
    BY <1>0, <1>10 DEF Lark!MarkTask, LarkTyped, Lark!Insert, Lark!Retry, Lark!Fault,
       Lark!CardFault, Lark!chat, Lark!bounds
  <2>2. LarkItem(i)'
    BY <1>0, <1>a, <1>10, <2>1 DEF Lark!MarkTask, LarkTyped, Lark!Insert, Lark!Retry,
       Lark!Fault, Lark!CardFault, Lark!chat, Lark!bounds,
       Lark!Unsent, Lark!Orphan, LarkItem, LarkJob, LarkRow, LarkAttempts, LarkOnce
  <2> QED BY <2>1, <2>2, LarkPoint
<1>11. ASSUME NEW i \in Items, Lark!DeliverFile(i)
      PROVE  LarkInv'
  <2>1. /\ LarkTyped' /\ boot' = boot /\ crashes' = crashes /\ FaultsStay
        /\ \A j \in Items \ {i} : SameItem(j)
    BY <1>0, <1>11 DEF Lark!DeliverFile, LarkTyped, Lark!Insert, Lark!Retry, Lark!Fault,
       Lark!CardFault, Lark!chat, Lark!bounds
  <2>2. LarkItem(i)'
    BY <1>0, <1>a, <1>11, <2>1 DEF Lark!DeliverFile, LarkTyped, Lark!Insert, Lark!Retry,
       Lark!Fault, Lark!CardFault, Lark!chat, Lark!bounds,
       Lark!Unsent, Lark!Orphan, LarkItem, LarkJob, LarkRow, LarkAttempts, LarkOnce
  <2> QED BY <2>1, <2>2, LarkPoint
<1>12. ASSUME NEW i \in Items, Lark!Upload(i)
      PROVE  LarkInv'
  <2>1. /\ job[i] = "upload" /\ job' = [job EXCEPT ![i] = "none"]
        /\ UNCHANGED <<kind, turn, tracker, sender, cardRow, card, text, plain, boot, crashes,
             cardFaults>>
        /\ \/ /\ file' = [file EXCEPT ![i] = ~text[i]]
              /\ larkRow' = [larkRow EXCEPT ![i] = "delivered"] /\ UNCHANGED larkAtt
           \/ /\ UNCHANGED file /\ larkRow' = [larkRow EXCEPT ![i] = "failed"]
              /\ larkAtt' = [larkAtt EXCEPT ![i] = @ + 1]
    BY <1>12 DEF Lark!Upload, Lark!Fault, Lark!bounds
  <2>2. file' \in [Items -> BOOLEAN] /\ \A j \in Items \ {i} : file'[j] = file[j]
    <3>1. file \in [Items -> BOOLEAN] /\ (~text[i]) \in BOOLEAN
      BY <1>0 DEF LarkTyped
    <3> QED BY <2>1, <3>1
  <2>3. (sender[i] = "ok" \/ larkRow'[i] = "delivered") => text[i] \/ file'[i]
    <3>1. CASE file' = [file EXCEPT ![i] = ~text[i]]
      <4>1. file'[i] = ~text[i]
        BY <1>0, <3>1 DEF LarkTyped
      <4> QED BY <4>1
    <3>2. CASE UNCHANGED file /\ larkRow' = [larkRow EXCEPT ![i] = "failed"]
      <4>1. larkRow'[i] = "failed"
        BY <1>0, <3>2 DEF LarkTyped
      <4> QED BY <1>0, <3>2, <4>1 DEF LarkItem, LarkRow
    <3> QED BY <2>1, <3>1, <3>2
  <2>4. LarkTyped' /\ \A j \in Items \ {i} : SameItem(j)
    <3>1. /\ larkRow' \in [Items -> {"none", "pending", "sending", "delivered", "failed"}]
          /\ \A j \in Items \ {i} : larkRow'[j] = larkRow[j]
      BY <1>0, <2>1 DEF LarkTyped
    <3>2. larkAtt' \in [Items -> Nat] /\ \A j \in Items \ {i} : larkAtt'[j] = larkAtt[j]
      BY <1>0, <2>1 DEF LarkTyped
    <3>3. job' \in [Items -> {"none", "begin", "finalize", "record", "close", "create",
                              "card", "plain", "mark", "upload"}]
          /\ \A j \in Items \ {i} : job'[j] = job[j]
      BY <1>0, <2>1 DEF LarkTyped
    <3> QED BY <1>0, <2>1, <2>2, <3>1, <3>2, <3>3 DEF LarkTyped
  <2>5. kind[i] = "file" /\ larkRow'[i] \in {"delivered", "failed"} /\ job'[i] = "none"
    BY <1>0, <2>1 DEF LarkTyped, LarkItem, LarkJob
  <2>6. LarkItem(i)'
    BY <1>0, <2>1, <2>3, <2>5 DEF LarkItem, LarkJob, LarkRow, LarkAttempts, LarkOnce
  <2> QED BY <2>1, <2>4, <2>6, LarkPoint
<1>13. ASSUME NEW i \in Items, Lark!Claim(i)
      PROVE  LarkInv'
  <2>1. /\ LarkTyped' /\ boot' = boot /\ crashes' = crashes /\ FaultsStay
        /\ \A j \in Items \ {i} : SameItem(j)
    BY <1>0, <1>13 DEF Lark!Claim, LarkTyped, Lark!Insert, Lark!Retry, Lark!Fault,
       Lark!CardFault, Lark!chat, Lark!bounds
  <2>2. LarkItem(i)'
    BY <1>0, <1>a, <1>13, <2>1 DEF Lark!Claim, LarkTyped, Lark!Insert, Lark!Retry,
       Lark!Fault, Lark!CardFault, Lark!chat, Lark!bounds,
       Lark!Unsent, Lark!Orphan, LarkItem, LarkJob, LarkRow, LarkAttempts, LarkOnce
  <2> QED BY <2>1, <2>2, LarkPoint
<1>14. ASSUME NEW i \in Items, Lark!Transmit(i)
      PROVE  LarkInv'
  <2>1. PICK v \in BOOLEAN, s \in {"ok", "threw"} :
          /\ sender[i] = "claimed" /\ sender' = [sender EXCEPT ![i] = s]
          /\ text' = [text EXCEPT ![i] = v]
          /\ UNCHANGED <<kind, turn, tracker, job, larkRow, larkAtt, cardRow, card, file, plain,
              boot, crashes, cardFaults>>
          /\ (s = "ok" => (v \/ file[i])) /\ ((text[i] \/ file[i]) => (v \/ file[i]))
    <3>1. CASE Lark!Set(text, i, ~file[i]) /\ Lark!Set(sender, i, "ok") /\ UNCHANGED Lark!bounds
      <4>1. (~file[i]) \in BOOLEAN /\ ((~file[i]) \/ file[i])
        OBVIOUS
      <4> QED BY <1>14, <3>1, <4>1 DEF Lark!Transmit, Lark!bounds
    <3>2. CASE Lark!Fault /\ Lark!Set(sender, i, "threw")
               /\ \E reached \in BOOLEAN : Lark!Set(text, i, text[i] \/ (reached /\ ~file[i]))
      <4>1. PICK reached \in BOOLEAN : Lark!Set(text, i, text[i] \/ (reached /\ ~file[i]))
        BY <3>2
      <4> DEFINE v == text[i] \/ (reached /\ ~file[i])
      <4>2. v \in BOOLEAN /\ ((text[i] \/ file[i]) => (v \/ file[i]))
              /\ text' = [text EXCEPT ![i] = v]
        BY <4>1
      <4> HIDE DEF v
      <4> QED BY <1>14, <3>2, <4>2 DEF Lark!Transmit, Lark!Fault
    <3> QED BY <1>14, <3>1, <3>2 DEF Lark!Transmit
  <2>2. /\ LarkTyped' /\ \A j \in Items \ {i} : SameItem(j)
        /\ sender'[i] = s /\ text'[i] = v
    BY <1>0, <2>1 DEF LarkTyped
  <2>3. LarkJob(i)' /\ LarkAttempts(i)'
    BY <1>0, <2>1, <2>2 DEF LarkItem, LarkJob, LarkAttempts
  <2>4. LarkRow(i)'
    BY <1>0, <2>1, <2>2 DEF LarkItem, LarkRow
  <2>5. LarkOnce(i)'
    BY <1>0, <2>1, <2>2 DEF LarkItem, LarkJob, LarkRow, LarkOnce
  <2> QED BY <2>1, <2>2, <2>3, <2>4, <2>5, LarkPoint DEF LarkItem
<1>15. ASSUME NEW i \in Items, Lark!SettleSend(i)
      PROVE  LarkInv'
  <2>1. PICK r \in {"delivered", "failed", "pending"} :
          /\ sender[i] \in {"ok", "threw"} /\ sender' = [sender EXCEPT ![i] = "none"]
          /\ larkRow' = [larkRow EXCEPT ![i] = r]
          /\ UNCHANGED <<kind, turn, tracker, job, larkAtt, cardRow, card, text, file,
              plain, boot, crashes, cardFaults>>
          /\ (r = "delivered" => sender[i] = "ok")
              /\ (r = "pending" => ~(larkAtt[i] >= MaxAttempts))
    BY <1>15 DEF Lark!SettleSend, Lark!Retry, Lark!chat, Lark!bounds
  <2>2. /\ LarkTyped' /\ \A j \in Items \ {i} : SameItem(j)
        /\ sender'[i] = "none" /\ larkRow'[i] = r
    BY <1>0, <2>1 DEF LarkTyped
  <2>3. kind[i] # "file" => larkRow[i] = "sending" /\ job[i] \notin {"card", "plain", "mark"}
    BY <1>0, <2>1 DEF LarkItem, LarkRow, LarkJob
  <2>4. LarkJob(i)' /\ LarkRow(i)'
    BY <1>0, <2>1, <2>2, <2>3 DEF LarkItem, LarkJob, LarkRow
  <2>5. LarkAttempts(i)'
    BY <1>0, <1>a, <2>1, <2>2 DEF LarkItem, LarkAttempts, LarkTyped
  <2>6. LarkOnce(i)'
    BY <1>0, <2>1, <2>2, <2>3 DEF LarkItem, LarkJob, LarkRow, LarkOnce
  <2> QED BY <2>1, <2>2, <2>4, <2>5, <2>6, LarkPoint DEF LarkItem
<1>16. ASSUME NEW i \in Items, Lark!RecoverStale(i)
      PROVE  LarkInv'
  <2>1. /\ LarkTyped' /\ boot' = boot /\ crashes' = crashes /\ FaultsStay
        /\ \A j \in Items \ {i} : SameItem(j)
    BY <1>0, <1>16 DEF Lark!RecoverStale, LarkTyped, Lark!Insert, Lark!Retry, Lark!Fault,
       Lark!CardFault, Lark!chat, Lark!bounds
  <2>2. LarkItem(i)'
    BY <1>0, <1>a, <1>16, <2>1 DEF Lark!RecoverStale, LarkTyped, Lark!Insert, Lark!Retry,
       Lark!Fault, Lark!CardFault, Lark!chat, Lark!bounds,
       Lark!Unsent, Lark!Orphan, LarkItem, LarkJob, LarkRow, LarkAttempts, LarkOnce
  <2> QED BY <2>1, <2>2, LarkPoint
<1>17. ASSUME NEW i \in Items, Lark!Scan(i)
      PROVE  LarkInv'
  <2>1. /\ LarkTyped' /\ boot' = boot /\ crashes' = crashes /\ FaultsStay
        /\ \A j \in Items \ {i} : SameItem(j)
    BY <1>0, <1>17 DEF Lark!Scan, LarkTyped, Lark!Insert, Lark!Retry, Lark!Fault,
       Lark!CardFault, Lark!chat, Lark!bounds
  <2>2. LarkItem(i)'
    BY <1>0, <1>a, <1>17, <2>1 DEF Lark!Scan, LarkTyped, Lark!Insert, Lark!Retry,
       Lark!Fault, Lark!CardFault, Lark!chat, Lark!bounds,
       Lark!Unsent, Lark!Orphan, LarkItem, LarkJob, LarkRow, LarkAttempts, LarkOnce
  <2> QED BY <2>1, <2>2, LarkPoint
<1>18. ASSUME NEW i \in Items, Lark!ReconcileCard(i)
      PROVE  LarkInv'
  <2>1. /\ LarkTyped' /\ boot' = boot /\ crashes' = crashes /\ FaultsStay
        /\ \A j \in Items \ {i} : SameItem(j)
    BY <1>0, <1>18 DEF Lark!ReconcileCard, LarkTyped, Lark!Insert, Lark!Retry,
       Lark!Fault, Lark!CardFault, Lark!chat, Lark!bounds
  <2>2. LarkItem(i)'
    BY <1>0, <1>a, <1>18, <2>1 DEF Lark!ReconcileCard, LarkTyped, Lark!Insert,
       Lark!Retry, Lark!Fault, Lark!CardFault, Lark!chat, Lark!bounds,
       Lark!Unsent, Lark!Orphan, LarkItem, LarkJob, LarkRow, LarkAttempts, LarkOnce
  <2> QED BY <2>1, <2>2, LarkPoint
<1>19. CASE Lark!Crash
  <2>1. LarkTyped' /\ crashes' # 0
    BY <1>0, <1>a, <1>19 DEF Lark!Crash, Lark!All, LarkTyped, Lark!chat
  <2>2. ASSUME NEW i \in Items
        PROVE  LarkItem(i)'
    BY <1>0, <1>19, <2>1, <2>2 DEF Lark!Crash, Lark!All, Lark!chat, LarkItem, LarkJob,
       LarkRow, LarkAttempts, LarkOnce
  <2> QED BY <2>1, <2>2 DEF LarkInv
<1>20. CASE Lark!ScanDone \/ Lark!CardsDone \/ UNCHANGED Lark!vars
  <2>1. LarkTyped' /\ crashes' = crashes /\ FaultsStay /\ \A j \in Items : SameItem(j)
    BY <1>0, <1>20 DEF Lark!ScanDone, Lark!CardsDone, Lark!vars, LarkTyped, Lark!chat,
       Lark!bounds
  <2>2. boot' = boot \/ (boot = "scan" /\ boot' = "cards") \/ boot' = "up"
    BY <1>20 DEF Lark!ScanDone, Lark!CardsDone, Lark!vars
  <2>3. ASSUME NEW j \in Items
        PROVE  LarkItem(j)'
    BY <1>0, <2>1, <2>2, <2>3, LarkSame DEF LarkItem, LarkJob, LarkRow, LarkOnce
  <2> QED BY <2>1, <2>3 DEF LarkInv
<1>21. ASSUME NEW i \in Items, Lark!CloseCard(i)
      PROVE  LarkInv'
  <2>1. /\ LarkTyped' /\ boot' = boot /\ crashes' = crashes /\ FaultsStay
        /\ \A j \in Items \ {i} : SameItem(j)
    BY <1>0, <1>21 DEF Lark!CloseCard, LarkTyped, LarkItem, LarkJob, Lark!Insert, Lark!Retry, Lark!Fault,
       Lark!CardFault, Lark!chat, Lark!bounds
  <2>2. LarkItem(i)'
    BY <1>0, <1>a, <1>21, <2>1 DEF Lark!CloseCard, LarkTyped, Lark!Insert, Lark!Retry,
       Lark!Fault, Lark!CardFault, Lark!chat, Lark!bounds,
       LarkItem, LarkJob, LarkRow, LarkAttempts, LarkOnce
  <2> QED BY <2>1, <2>2, LarkPoint
<1>22. ASSUME NEW i \in Items, Lark!TaskText(i)
      PROVE  LarkInv'
  <2>1. PICK v \in BOOLEAN, r \in {"sending", "failed", "pending"}, k \in {"mark", "none"} :
          /\ job[i] = "plain" /\ job' = [job EXCEPT ![i] = k]
          /\ plain' = [plain EXCEPT ![i] = v] /\ larkRow' = [larkRow EXCEPT ![i] = r]
          /\ UNCHANGED <<kind, turn, tracker, sender, larkAtt, cardRow, card, text, file,
              boot, crashes, cardFaults>>
          /\ (k = "mark" => r = "sending" /\ v) /\ (k = "none" => r # "sending")
          /\ (r = "pending" => ~(larkAtt[i] >= MaxAttempts))
    <3>0. larkRow[i] = "sending" /\ larkRow = [larkRow EXCEPT ![i] = "sending"]
      BY <1>0, <1>22 DEF Lark!TaskText, LarkTyped, LarkItem, LarkJob
    <3>1. CASE Lark!Set(plain, i, TRUE) /\ Lark!Set(job, i, "mark")
               /\ UNCHANGED <<larkRow, Lark!bounds>>
      BY <1>22, <3>0, <3>1 DEF Lark!TaskText, Lark!bounds
    <3>2. CASE Lark!Fault /\ Lark!Retry(i) /\ Lark!Set(job, i, "none")
               /\ \E reached \in BOOLEAN : Lark!Set(plain, i, reached)
      <4>1. PICK reached \in BOOLEAN : Lark!Set(plain, i, reached)
        BY <3>2
      <4> QED BY <1>22, <3>2, <4>1 DEF Lark!TaskText, Lark!Fault, Lark!Retry
    <3> QED BY <1>22, <3>1, <3>2 DEF Lark!TaskText
  <2>2. /\ LarkTyped' /\ \A j \in Items \ {i} : SameItem(j)
        /\ job'[i] = k /\ plain'[i] = v /\ larkRow'[i] = r
    BY <1>0, <2>1 DEF LarkTyped
  <2>3. /\ kind[i] = "task" /\ larkRow[i] = "sending" /\ sender[i] = "none"
        /\ turn[i] \notin {"none", "running"}
    BY <1>0, <2>1 DEF LarkItem, LarkJob, LarkRow
  <2>4. LarkJob(i)' /\ LarkRow(i)'
    BY <1>0, <2>1, <2>2, <2>3 DEF LarkItem, LarkJob, LarkRow
  <2>5. LarkAttempts(i)'
    BY <1>0, <1>a, <2>1, <2>2 DEF LarkItem, LarkAttempts, LarkTyped
  <2>6. LarkOnce(i)'
    BY <1>0, <2>1, <2>2, <2>3 DEF LarkItem, LarkJob, LarkOnce
  <2> QED BY <2>1, <2>2, <2>4, <2>5, <2>6, LarkPoint DEF LarkItem
<1> QED BY <1>1, <1>2, <1>3, <1>4, <1>5, <1>6, <1>7, <1>8, <1>9, <1>10, <1>11, <1>12,
           <1>13, <1>14, <1>15, <1>16, <1>17, <1>18, <1>19, <1>20, <1>21, <1>22 DEF Lark!Next,
           Lark!Handler

(* A row that says 'delivered' is of an answer the chat has, whatever      *)
(* requests fail and whenever the server stops; where it does not stop, an *)
(* answer is not shown by the card and by the outbox; and no row of an     *)
(* answer is tried more often than allowed.                                *)
THEOREM LarkShowsAnswers ==
  ASSUME Lark!LarkOutboxAssumption
  PROVE  Lark!Spec => /\ []Lark!DeliveredMeansShown /\ [](MaxCrashes = 0 => Lark!ShownOnce)
                      /\ []("file" \notin Kinds => Lark!TypeOK)
<1>1. Lark!Init => LarkInv
  BY LarkInvInit
<1>2. LarkInv /\ [Lark!Next]_(Lark!vars) => LarkInv'
  BY LarkInvStep
<1>3. LarkInv => Lark!DeliveredMeansShown /\ (MaxCrashes = 0 => Lark!ShownOnce)
  BY DEF LarkInv, LarkTyped, LarkItem, LarkRow, LarkOnce, Lark!DeliveredMeansShown,
     Lark!ShownOnce
<1>4. LarkInv => ("file" \notin Kinds => Lark!TypeOK)
  <2> SUFFICES ASSUME LarkInv, "file" \notin Kinds
               PROVE  Lark!TypeOK
    OBVIOUS
  <2>1. \A i \in Items : larkAtt[i] \in 0..MaxAttempts
    BY DEF LarkInv, LarkTyped, LarkItem, LarkAttempts, Lark!LarkOutboxAssumption
  <2> QED BY <2>1 DEF LarkInv, LarkTyped, Lark!TypeOK
<1> QED BY <1>1, <1>2, <1>3, <1>4, PTL DEF Lark!Spec

-----------------------------------------------------------------------------
(* Steering.                                                               *)

(* A set of numbers that is not empty has a least one.                     *)
LEMMA LeastOfNumbers ==
  ASSUME NEW T \in SUBSET Nat, T # {}
  PROVE  \E x \in T : \A y \in T : x <= y
<1>1. PICK x \in T : \A y \in T : ~(<<y, x>> \in OpToRel(<, Nat))
  BY WFMin, NatLessThanWellFounded
<1>2. \A y \in T : ~(y < x)
  BY <1>1 DEF OpToRel
<1> QED BY <1>2

(* The first and the last of the turns or of the calls.                    *)
LEMMA FirstAndLast ==
  ASSUME NEW n \in Nat, NEW S \in SUBSET (1..n), S # {}
  PROVE  Steer!Min(S) \in S /\ Steer!Max(S) \in S
<1>1. \E x \in S : \A y \in S : x <= y
  BY LeastOfNumbers
<1>2. \E x \in S : \A y \in S : x >= y
  <2> DEFINE T == {n - x : x \in S}
  <2>1. T \in SUBSET Nat /\ T # {}
    <3>1. \A x \in S : n - x \in Nat
      OBVIOUS
    <3> QED BY <3>1
  <2>2. PICK z \in T : \A y \in T : z <= y
    BY <2>1, LeastOfNumbers
  <2>3. PICK x \in S : z = n - x
    OBVIOUS
  <2>4. \A y \in S : n - x <= n - y
    BY <2>2, <2>3
  <2>5. \A y \in S : x >= y
    BY <2>4
  <2> QED BY <2>5
<1> QED BY <1>1, <1>2 DEF Steer!Min, Steer!Max

-----------------------------------------------------------------------------
CallSet == [kind : {"none", "web", "channel", "promote", "done"}, msgs : SUBSET Messages,
            turn : Steer!Turns \cup {0}, st : {"none", "sent", "ok", "threw"}]

(* The types of all that the proof is about.                               *)
SteerTyped ==
  /\ run \in [Steer!Turns -> {"none", "queued", "running", "completed", "interrupted"}]
  /\ content \in [Steer!Turns -> SUBSET Messages] /\ agent \in Steer!Turns \cup {0}
  /\ call \in [Steer!Calls -> CallSet]
  /\ \A c \in Steer!Calls : call[c].kind \in {"none", "done"} => call[c].msgs = {}
      /\ call[c].st = "none"
  /\ steerKey \in [Messages -> Steer!Turns \cup {0}] /\ seen \in [Messages -> Nat]
  /\ inboxKey \subseteq Messages /\ acked \subseteq Messages /\ dropped \subseteq Messages
  /\ blocked \in BOOLEAN /\ way \in [Messages -> {"queue", "channel", "web"}]
  /\ steerSends \in [Messages -> Nat] /\ steerFaults \in Nat

(* Nothing is dropped.  Every message with a record is safe, where the     *)
(* session is never refused: what the runtime took was seen, and a web     *)
(* message is acknowledged only then.                                      *)
Safe(m) == seen[m] > 0 \/ m \in dropped \/ Steer!Waiting(m)

SteerSafe ==
  /\ ~blocked
  /\ \A m \in acked \cup inboxKey : Safe(m)
  /\ \A c \in Steer!Calls : call[c].st = "ok" => \A m \in call[c].msgs : seen[m] > 0
  /\ \A m \in Messages : steerKey[m] # 0 => seen[m] > 0
  /\ \A m \in Messages : way[m] = "web" => m \notin inboxKey /\ (m \in acked => seen[m] > 0)
  /\ \A c \in Steer!Calls : call[c].kind \in {"web", "channel"}
      => \A m \in call[c].msgs : way[m] = call[c].kind

(* A message that is presented once, to calls that answer, is in one place *)
(* at a time.                                                              *)
InTurn(m, t) == run[t] \in {"queued", "running"} /\ m \in content[t]
InCall(m, c) == m \in call[c].msgs
Unseen(m) == seen[m] = 0 /\ m \notin dropped

Once(m) ==
  /\ seen[m] + (IF m \in dropped THEN 1 ELSE 0) <= 1
  /\ steerSends[m] = 0 =>
            /\ Unseen(m) /\ steerKey[m] = 0
            /\ \A t \in Steer!Turns : ~InTurn(m, t)
            /\ \A c \in Steer!Calls : ~InCall(m, c)
  /\ \A t \in Steer!Turns : InTurn(m, t) => Unseen(m) /\ \A c \in Steer!Calls : ~InCall(m, c)
  /\ \A t, u \in Steer!Turns : InTurn(m, t) /\ InTurn(m, u) => t = u
  /\ \A c \in Steer!Calls : InCall(m, c) => IF call[c].st = "ok" THEN seen[m] > 0 ELSE Unseen(m)
  /\ \A c, d \in Steer!Calls : InCall(m, c) /\ InCall(m, d) => c = d
  /\ steerKey[m] # 0 => seen[m] > 0 /\ \A c \in Steer!Calls : ~InCall(m, c)

SteerOnce == \A m \in Messages : Once(m)

SteerInv ==
  /\ SteerTyped
  /\ ~MayCorrupt => SteerSafe
  /\ MaxSends = 1 /\ MaxThrows = 0 => SteerOnce

LEMMA SteerInvInit == Steer!SteeringAssumption /\ Steer!Init => SteerInv
<1> SUFFICES ASSUME Steer!SteeringAssumption, Steer!Init
             PROVE  SteerInv
  OBVIOUS
<1>1. Steer!NoCall \in CallSet
  BY DEF Steer!NoCall, CallSet
<1>2. SteerTyped
  BY <1>1 DEF Steer!Init, SteerTyped, Steer!NoCall
<1>3. SteerSafe /\ SteerOnce
  BY DEF Steer!Init, SteerSafe, SteerOnce, Once, InTurn, InCall, Unseen, Steer!NoCall
<1> QED BY <1>2, <1>3 DEF SteerInv

(* A new turn is queued with the messages ms.                              *)
NewTurn(t, ms) ==
  /\ run[t] = "none" /\ run' = [run EXCEPT ![t] = "queued"]
  /\ content' = [content EXCEPT ![t] = ms]

LEMMA IngestMakesTurn ==
  ASSUME Steer!SteeringAssumption, NEW ms, Steer!Ingest(ms)
  PROVE  \E t \in Steer!Turns : NewTurn(t, ms)
<1>1. Steer!Fresh \in SUBSET Steer!Turns /\ Steer!Fresh # {} /\ MaxTurns \in Nat
  BY DEF Steer!Fresh, Steer!Ingest, Steer!SteeringAssumption
<1>2. Steer!Min(Steer!Fresh) \in Steer!Fresh
  BY <1>1, FirstAndLast DEF Steer!Turns
<1> QED BY <1>2 DEF Steer!Ingest, Steer!Fresh, NewTurn

(* A call of the runtime is made.                                          *)
NewCall(c, how, ms, t) ==
  /\ call[c].kind = "none"
  /\ call' = [call EXCEPT ![c] = [kind |-> how, msgs |-> ms, turn |-> t, st |-> "sent"]]

LEMMA SendMakesCall ==
  ASSUME Steer!SteeringAssumption, NEW how, NEW ms, NEW t, Steer!Send(how, ms, t)
  PROVE  \E c \in Steer!Calls : NewCall(c, how, ms, t)
<1>1. Steer!FreeCalls \in SUBSET Steer!Calls /\ Steer!FreeCalls # {} /\ MaxCalls \in Nat
  BY DEF Steer!FreeCalls, Steer!Send, Steer!SteeringAssumption
<1>2. Steer!Min(Steer!FreeCalls) \in Steer!FreeCalls
  BY <1>1, FirstAndLast DEF Steer!Calls
<1> QED BY <1>2 DEF Steer!Send, Steer!FreeCalls, NewCall

(* The claimed turn is the last of those that are queued.                  *)
LEMMA ClaimTakesLast ==
  ASSUME Steer!SteeringAssumption, Steer!Claim
  PROVE  \E t \in Steer!Turns :
           /\ run[t] = "queued" /\ \A u \in Steer!Turns : run[u] # "running"
           /\ run' = [u \in Steer!Turns |-> IF u = t THEN "running"
                                           ELSE IF run[u] = "queued" THEN "completed" ELSE run[u]]
           /\ content' = [content EXCEPT ![t] = UNION {content[u] : u \in Steer!Queued}]
<1>1. Steer!Queued \in SUBSET Steer!Turns /\ Steer!Queued # {} /\ MaxTurns \in Nat
  BY DEF Steer!Queued, Steer!Claim, Steer!SteeringAssumption
<1>2. Steer!Max(Steer!Queued) \in Steer!Queued
  BY <1>1, FirstAndLast DEF Steer!Turns
<1>3. run' = [u \in Steer!Turns |-> IF u = Steer!Max(Steer!Queued) THEN "running"
                                   ELSE IF run[u] = "queued" THEN "completed" ELSE run[u]]
  BY DEF Steer!Claim, Steer!Queued
<1> QED BY <1>2, <1>3 DEF Steer!Claim, Steer!Queued, Steer!Running

(* The calls there are after a step about call c.                          *)
OtherCalls(c) == \A d \in Steer!Calls \ {c} : call'[d] = call[d]

LEMMA NewCallFacts ==
  ASSUME SteerTyped, NEW c \in Steer!Calls, NEW k \in {"web", "channel", "promote"},
         NEW ms \in SUBSET Messages, NEW t \in Steer!Turns, NewCall(c, k, ms, t)
  PROVE  /\ call' \in [Steer!Calls -> CallSet] /\ OtherCalls(c)
         /\ call'[c].kind = k /\ call'[c].msgs = ms /\ call'[c].st = "sent"
         /\ call[c].kind = "none" /\ call[c].msgs = {} /\ call[c].st = "none"
<1>1. [kind |-> k, msgs |-> ms, turn |-> t, st |-> "sent"] \in CallSet
  BY DEF CallSet
<1>2. call' \in [Steer!Calls -> CallSet] /\ OtherCalls(c)
      /\ call'[c] = [kind |-> k, msgs |-> ms, turn |-> t, st |-> "sent"]
  BY <1>1 DEF NewCall, SteerTyped, OtherCalls
<1> QED BY <1>2 DEF NewCall, SteerTyped

LEMMA FinishFacts ==
  ASSUME SteerTyped, NEW c \in Steer!Calls, Steer!Finish(c)
  PROVE  /\ call' \in [Steer!Calls -> CallSet] /\ OtherCalls(c)
         /\ call'[c].kind = "done" /\ call'[c].msgs = {} /\ call'[c].st = "none"
<1> DEFINE done == [Steer!NoCall EXCEPT !.kind = "done"]
<1>1. done \in CallSet /\ done.kind = "done" /\ done.msgs = {} /\ done.st = "none"
  BY DEF CallSet, Steer!NoCall
<1>2. call' = [call EXCEPT ![c] = done]
  BY DEF Steer!Finish
<1> HIDE DEF done
<1> QED BY <1>1, <1>2 DEF SteerTyped, OtherCalls

LEMMA CallStatus ==
  ASSUME SteerTyped, NEW c \in Steer!Calls, NEW s \in {"ok", "threw"},
         call' = [call EXCEPT ![c].st = s]
  PROVE  /\ call' \in [Steer!Calls -> CallSet] /\ OtherCalls(c)
         /\ call'[c].kind = call[c].kind /\ call'[c].msgs = call[c].msgs /\ call'[c].st = s
BY DEF SteerTyped, CallSet, OtherCalls

LEMMA NewTurnFacts ==
  ASSUME SteerTyped, NEW t \in Steer!Turns, NEW ms \in SUBSET Messages, NewTurn(t, ms)
  PROVE  /\ run' \in [Steer!Turns -> {"none", "queued", "running", "completed", "interrupted"}]
         /\ content' \in [Steer!Turns -> SUBSET Messages]
         /\ run[t] = "none" /\ run'[t] = "queued" /\ content'[t] = ms
         /\ \A u \in Steer!Turns \ {t} : run'[u] = run[u] /\ content'[u] = content[u]
BY DEF SteerTyped, NewTurn

(* The messages of a call.                                                 *)
LEMMA CallMessages ==
  ASSUME SteerTyped, NEW c \in Steer!Calls
  PROVE  /\ call[c].msgs \in SUBSET Messages /\ call[c].turn \in Steer!Turns \cup {0}
         /\ call[c].kind \in {"none", "web", "channel", "promote", "done"}
         /\ call[c].st \in {"none", "sent", "ok", "threw"}
BY DEF SteerTyped, CallSet

LEMMA SteerTypedStep ==
  ASSUME Steer!SteeringAssumption, SteerTyped, [Steer!Next]_(Steer!vars)
  PROVE  SteerTyped'
<1>1. ASSUME NEW m \in Messages, Steer!Dispatch(m)
      PROVE  SteerTyped'
  BY <1>1, IngestMakesTurn DEF Steer!Dispatch, Steer!Running, Steer!Queued,
     Steer!Present, NewTurn, Steer!SteeringAssumption, SteerTyped, CallSet
<1>2. ASSUME NEW m \in Messages, NEW t \in Steer!Turns, Steer!WebSteer(m, t)
      PROVE  SteerTyped'
  <2>1. /\ UNCHANGED <<way, run, content, agent, inboxKey, steerKey, seen, dropped, blocked,
           steerFaults>>
        /\ acked' \in {acked, acked \cup {m}} /\ steerSends' = [steerSends EXCEPT ![m] = steerSends[m] + 1]
    BY <1>2 DEF Steer!WebSteer, Steer!Present
  <2>2. /\ call' \in [Steer!Calls -> CallSet]
        /\ \A c \in Steer!Calls : call'[c].kind \in {"none", "done"} => call'[c].msgs = {}
            /\ call'[c].st = "none"
    <3>1. CASE UNCHANGED call
      BY <3>1 DEF SteerTyped
    <3>2. CASE Steer!Send("web", {m}, t)
      <4>1. PICK c \in Steer!Calls : NewCall(c, "web", {m}, t)
        BY <3>2, SendMakesCall
      <4>2. {m} \in SUBSET Messages
        OBVIOUS
      <4>3. /\ call' \in [Steer!Calls -> CallSet] /\ OtherCalls(c) /\ call'[c].kind = "web"
        BY <4>1, <4>2, NewCallFacts
      <4> QED BY <4>3 DEF SteerTyped, OtherCalls
    <3> QED BY <1>2, <3>1, <3>2 DEF Steer!WebSteer
  <2>3. acked' \subseteq Messages /\ steerSends' \in [Messages -> Nat]
    BY <2>1 DEF SteerTyped
  <2> QED BY <2>1, <2>2, <2>3 DEF SteerTyped
<1>3. ASSUME NEW m \in Messages, NEW t \in Steer!Turns, Steer!ChannelSteer(m, t)
      PROVE  SteerTyped'
  BY <1>3, IngestMakesTurn, SendMakesCall DEF Steer!ChannelSteer, Steer!Running,
     Steer!Queued, Steer!Present, NewTurn, NewCall, Steer!SteeringAssumption, SteerTyped, CallSet
<1>4. ASSUME NEW t \in Steer!Turns, Steer!Start(t)
      PROVE  SteerTyped'
  BY <1>4 DEF Steer!Start, Steer!Running, Steer!Queued, Steer!Give,
     Steer!SteeringAssumption, SteerTyped, CallSet
<1>5. ASSUME NEW t \in Steer!Turns, Steer!Complete(t)
      PROVE  SteerTyped'
  BY <1>5 DEF Steer!Complete, Steer!Running, Steer!Queued, Steer!SteeringAssumption,
     SteerTyped, CallSet
<1>6. ASSUME NEW t \in Steer!Turns, Steer!CancelQueuedTurn(t)
      PROVE  SteerTyped'
  BY <1>6 DEF Steer!CancelQueuedTurn, Steer!Running, Steer!Queued,
     Steer!SteeringAssumption, SteerTyped, CallSet
<1>7. ASSUME NEW t \in Steer!Turns, NEW S \in SUBSET Steer!Turns, Steer!Promote(S, t)
      PROVE  SteerTyped'
  BY <1>7, SendMakesCall DEF Steer!Promote, Steer!Running, Steer!Queued, NewCall,
     Steer!SteeringAssumption, SteerTyped, CallSet
<1>8. ASSUME NEW c \in Steer!Calls, Steer!HandleSteer(c)
      PROVE  SteerTyped'
  BY <1>8 DEF Steer!HandleSteer, Steer!Running, Steer!Queued, Steer!Give,
     Steer!SteeringAssumption, SteerTyped, CallSet
<1>9. ASSUME NEW c \in Steer!Calls, Steer!TransportFails(c)
      PROVE  SteerTyped'
  BY <1>9 DEF Steer!TransportFails, Steer!Running, Steer!Queued,
     Steer!SteeringAssumption, SteerTyped, CallSet
<1>10. ASSUME NEW c \in Steer!Calls, Steer!StoreSteer(c)
      PROVE  SteerTyped'
  <2>1. UNCHANGED <<way, run, content, agent, inboxKey, seen, dropped, blocked, steerSends,
          steerFaults>>
    BY <1>10 DEF Steer!StoreSteer
  <2>2. call[c].msgs \in SUBSET Messages /\ call[c].turn \in Steer!Turns \cup {0}
    BY CallMessages
  <2>3. acked' \subseteq Messages /\ steerKey' \in [Messages -> Steer!Turns \cup {0}]
    BY <1>10, <2>2 DEF Steer!StoreSteer, SteerTyped
  <2>4. CASE Steer!Finish(c)
    BY <2>1, <2>3, <2>4, FinishFacts DEF SteerTyped, OtherCalls
  <2>5. CASE call[c].kind # "promote" /\ call' = [call EXCEPT ![c].st = "threw"]
    <3>1. call[c].kind \notin {"none", "done"}
      BY <1>10 DEF Steer!StoreSteer, SteerTyped
    <3>2. call' \in [Steer!Calls -> CallSet] /\ OtherCalls(c)
      BY <2>5, <3>1, CallStatus
    <3> QED BY <2>1, <2>3, <2>5, <3>1, <3>2, CallStatus DEF SteerTyped, OtherCalls
  <2> QED BY <1>10, <2>4, <2>5 DEF Steer!StoreSteer
<1>11. ASSUME NEW c \in Steer!Calls, Steer!SteerThrew(c)
      PROVE  SteerTyped'
  <2>1. UNCHANGED <<way, agent, steerKey, seen, dropped, blocked, steerSends, steerFaults>>
          /\ Steer!Finish(c)
    BY <1>11 DEF Steer!SteerThrew
  <2>2. call[c].msgs \in SUBSET Messages
    BY CallMessages
  <2>3. acked' \subseteq Messages /\ inboxKey' \subseteq Messages
    BY <1>11, <2>2 DEF Steer!SteerThrew, SteerTyped
  <2>4. /\ run' \in [Steer!Turns -> {"none", "queued", "running", "completed", "interrupted"}]
        /\ content' \in [Steer!Turns -> SUBSET Messages]
    <3>1. CASE Steer!Ingest(call[c].msgs)
      BY <2>2, <3>1, IngestMakesTurn, NewTurnFacts
    <3>2. CASE UNCHANGED <<run, content>>
      BY <3>2 DEF SteerTyped
    <3> QED BY <1>11, <3>1, <3>2 DEF Steer!SteerThrew
  <2> QED BY <2>1, <2>3, <2>4, FinishFacts DEF SteerTyped, OtherCalls
<1>12. CASE Steer!Claim
  <2>1. UNCHANGED <<way, agent, call, inboxKey, steerKey, seen, acked, dropped, blocked,
          steerSends, steerFaults>>
    BY <1>12 DEF Steer!Claim
  <2>2. PICK t \in Steer!Turns :
          /\ run' = [u \in Steer!Turns |-> IF u = t THEN "running"
                                          ELSE IF run[u] = "queued" THEN "completed" ELSE run[u]]
          /\ content' = [content EXCEPT ![t] = UNION {content[u] : u \in Steer!Queued}]
    BY <1>12, ClaimTakesLast
  <2>3. UNION {content[u] : u \in Steer!Queued} \in SUBSET Messages
    BY DEF SteerTyped, Steer!Queued
  <2>4. content' \in [Steer!Turns -> SUBSET Messages]
    BY <2>2, <2>3 DEF SteerTyped
  <2>5. run' \in [Steer!Turns -> {"none", "queued", "running", "completed", "interrupted"}]
    BY <2>2 DEF SteerTyped
  <2> QED BY <2>1, <2>4, <2>5 DEF SteerTyped
<1>13. CASE Steer!End \/ UNCHANGED Steer!vars
  BY <1>13 DEF Steer!End, Steer!vars, SteerTyped
<1> QED BY <1>1, <1>2, <1>3, <1>4, <1>5, <1>6, <1>7, <1>8, <1>9, <1>10, <1>11, <1>12,
           <1>13 DEF Steer!Next

(* A step that keeps what is safe, and adds only safe messages.            *)
LEMMA SafeKept ==
  ASSUME SteerTyped, SteerSafe, SteerTyped', ~blocked', way' = way,
         \A m \in Messages : seen[m] > 0 => seen'[m] > 0,
         \A m \in acked \cup inboxKey : Safe(m)',
         \A m \in (acked' \cup inboxKey') \ (acked \cup inboxKey) : Safe(m)',
         \A c \in Steer!Calls : call'[c].st = "ok" => \A m \in call'[c].msgs : seen'[m] > 0,
         \A m \in Messages : steerKey'[m] # 0 => steerKey[m] # 0 \/ seen'[m] > 0,
         \A m \in Messages : way[m] = "web" =>
           m \notin inboxKey' /\ (m \in acked' => m \in acked \/ seen'[m] > 0),
         \A c \in Steer!Calls : call'[c].kind \in {"web", "channel"} =>
           \A m \in call'[c].msgs : way[m] = call'[c].kind
  PROVE  SteerSafe'
BY DEF SteerSafe, SteerTyped

LEMMA SteerSafeStep ==
  ASSUME Steer!SteeringAssumption, SteerTyped, SteerSafe, ~MayCorrupt, [Steer!Next]_(Steer!vars)
  PROVE  SteerSafe'
<1>0. SteerTyped'
  BY SteerTypedStep
<1>1. ASSUME NEW m \in Messages, Steer!Dispatch(m)
      PROVE  SteerSafe'
  BY <1>1, IngestMakesTurn DEF Steer!Dispatch, Steer!Running, Steer!Queued,
     Steer!Present, NewTurn, Steer!SteeringAssumption, SteerTyped, CallSet, SteerSafe, Safe,
         Steer!Waiting
<1>2. ASSUME NEW m \in Messages, NEW t \in Steer!Turns, Steer!WebSteer(m, t)
      PROVE  SteerSafe'
  <2>1. /\ way[m] = "web"
        /\ UNCHANGED <<way, run, content, agent, inboxKey, steerKey, seen, dropped, blocked,
            steerFaults>>
    BY <1>2 DEF Steer!WebSteer
  <2>2. CASE steerKey[m] = 0 /\ Steer!Send("web", {m}, t) /\ UNCHANGED acked
    <3>1. PICK c \in Steer!Calls : NewCall(c, "web", {m}, t)
      BY <2>2, SendMakesCall
    <3>2. /\ OtherCalls(c) /\ call'[c].kind = "web" /\ call'[c].msgs = {m} /\ call'[c].st = "sent"
          /\ call[c].msgs = {}
      BY <3>1, NewCallFacts
    <3>3. \A n \in Messages : Safe(n) => Safe(n)'
      BY <2>1, <3>2 DEF Safe, Steer!Waiting, Steer!Queued, Steer!Running, OtherCalls
    <3>4. /\ \A d \in Steer!Calls : call'[d].st = "ok" => \A n \in call'[d].msgs : seen'[n] > 0
          /\ \A d \in Steer!Calls : call'[d].kind \in {"web", "channel"} =>
                \A n \in call'[d].msgs : way[n] = call'[d].kind
      BY <2>1, <3>2 DEF SteerSafe, OtherCalls
    <3> QED BY <1>0, <2>1, <2>2, <3>3, <3>4, SafeKept DEF SteerSafe, SteerTyped
  <2>3. CASE steerKey[m] = t /\ acked' = acked \cup {m} /\ UNCHANGED call
    <3>1. seen[m] > 0
      BY <2>3 DEF SteerSafe, Steer!Turns
    <3> QED BY <2>1, <2>3, <3>1 DEF SteerSafe, Safe, Steer!Waiting, Steer!Queued,
               Steer!Running, SteerTyped
  <2> QED BY <1>2, <2>2, <2>3 DEF Steer!WebSteer
<1>3. ASSUME NEW m \in Messages, NEW t \in Steer!Turns, Steer!ChannelSteer(m, t)
      PROVE  SteerSafe'
  <2>1. /\ way[m] = "channel"
        /\ UNCHANGED <<way, agent, steerKey, seen, dropped, blocked, steerFaults>>
    BY <1>3 DEF Steer!ChannelSteer
  <2>2. CASE Steer!Send("channel", {m}, t) /\ UNCHANGED <<run, content, inboxKey, acked>>
    <3>1. PICK c \in Steer!Calls : NewCall(c, "channel", {m}, t)
      BY <2>2, SendMakesCall
    <3>2. /\ OtherCalls(c) /\ call'[c].kind = "channel" /\ call'[c].msgs = {m}
             /\ call'[c].st = "sent"
          /\ call[c].msgs = {}
      BY <3>1, NewCallFacts
    <3>3. \A n \in Messages : Safe(n) => Safe(n)'
      BY <2>1, <2>2, <3>2 DEF Safe, Steer!Waiting, Steer!Queued, Steer!Running, OtherCalls
    <3>4. /\ \A d \in Steer!Calls : call'[d].st = "ok" => \A n \in call'[d].msgs : seen'[n] > 0
          /\ \A d \in Steer!Calls : call'[d].kind \in {"web", "channel"} =>
                \A n \in call'[d].msgs : way[n] = call'[d].kind
      BY <2>1, <3>2 DEF SteerSafe, OtherCalls
    <3> QED BY <1>0, <2>1, <2>2, <3>3, <3>4, SafeKept DEF SteerSafe, SteerTyped
  <2>3. CASE steerKey[m] = t /\ acked' = acked \cup {m}
             /\ UNCHANGED <<run, content, inboxKey, call>>
    <3>1. seen[m] > 0
      BY <2>3 DEF SteerSafe, Steer!Turns
    <3> QED BY <2>1, <2>3, <3>1 DEF SteerSafe, Safe, Steer!Waiting, Steer!Queued,
               Steer!Running, SteerTyped
  <2>4. CASE /\ Steer!Ingest({m}) /\ inboxKey' = inboxKey \cup {m} /\ acked' = acked \cup {m}
             /\ UNCHANGED call
    <3>1. PICK u \in Steer!Turns : NewTurn(u, {m})
      BY <2>4, IngestMakesTurn
    <3>2. /\ run[u] = "none" /\ run'[u] = "queued" /\ content'[u] = {m}
          /\ \A v \in Steer!Turns \ {u} : run'[v] = run[v] /\ content'[v] = content[v]
      BY <3>1, NewTurnFacts
    <3>3. Safe(m)' /\ \A n \in Messages : Safe(n) => Safe(n)'
      BY <2>1, <2>4, <3>2 DEF Safe, Steer!Waiting, Steer!Queued, Steer!Running
    <3> QED BY <1>0, <2>1, <2>4, <3>3, SafeKept DEF SteerSafe, SteerTyped
  <2> QED BY <1>3, <2>2, <2>3, <2>4 DEF Steer!ChannelSteer
<1>4. ASSUME NEW t \in Steer!Turns, Steer!Start(t)
      PROVE  SteerSafe'
  BY <1>4 DEF Steer!Start, Steer!Running, Steer!Queued, Steer!Give,
     Steer!SteeringAssumption, SteerTyped, CallSet, SteerSafe, Safe, Steer!Waiting
<1>5. ASSUME NEW t \in Steer!Turns, Steer!Complete(t)
      PROVE  SteerSafe'
  BY <1>5 DEF Steer!Complete, Steer!Running, Steer!Queued, Steer!SteeringAssumption,
     SteerTyped, CallSet, SteerSafe, Safe, Steer!Waiting
<1>6. ASSUME NEW t \in Steer!Turns, Steer!CancelQueuedTurn(t)
      PROVE  SteerSafe'
  BY <1>6 DEF Steer!CancelQueuedTurn, Steer!Running, Steer!Queued,
     Steer!SteeringAssumption, SteerTyped, CallSet, SteerSafe, Safe, Steer!Waiting
<1>7. ASSUME NEW t \in Steer!Turns, NEW S \in SUBSET Steer!Turns, Steer!Promote(S, t)
      PROVE  SteerSafe'
  <2> DEFINE ms == UNION {content[q] : q \in S}
  <2>1. /\ S \subseteq Steer!Queued /\ Steer!Send("promote", ms, t)
        /\ run' = [q \in Steer!Turns |-> IF q \in S THEN "interrupted" ELSE run[q]]
        /\ content' = [q \in Steer!Turns |-> IF q \in S THEN {} ELSE content[q]]
        /\ UNCHANGED <<way, agent, inboxKey, steerKey, seen, acked, dropped, blocked, steerSends,
            steerFaults>>
    BY <1>7 DEF Steer!Promote
  <2>2. ms \in SUBSET Messages /\ \A q \in S : content[q] \subseteq ms
    BY DEF SteerTyped
  <2> HIDE DEF ms
  <2>3. PICK c \in Steer!Calls : NewCall(c, "promote", ms, t)
    BY <2>1, SendMakesCall
  <2>4. /\ OtherCalls(c) /\ call'[c].kind = "promote" /\ call'[c].msgs = ms /\ call'[c].st = "sent"
        /\ call[c].msgs = {}
    BY <2>2, <2>3, NewCallFacts
  <2>5. \A m \in Messages : Safe(m) => Safe(m)'
    <3>1. ASSUME NEW m \in Messages, NEW q \in Steer!Turns, run[q] \in {"queued", "running"},
                 m \in content[q]
          PROVE  Steer!Waiting(m)'
      <4>1. CASE q \in S
        BY <2>2, <2>4, <3>1, <4>1 DEF Steer!Waiting
      <4>2. CASE q \notin S
        BY <2>1, <3>1, <4>2 DEF Steer!Waiting, Steer!Queued, Steer!Running
      <4> QED BY <4>1, <4>2
    <3>2. ASSUME NEW m \in Messages, NEW d \in Steer!Calls, m \in call[d].msgs
          PROVE  Steer!Waiting(m)'
      BY <2>4, <3>2 DEF Steer!Waiting, OtherCalls
    <3> QED BY <2>1, <3>1, <3>2 DEF Safe, Steer!Waiting, Steer!Queued, Steer!Running
  <2>6. /\ \A d \in Steer!Calls : call'[d].st = "ok" => \A n \in call'[d].msgs : seen'[n] > 0
        /\ \A d \in Steer!Calls : call'[d].kind \in {"web", "channel"} =>
                \A n \in call'[d].msgs : way[n] = call'[d].kind
    BY <2>1, <2>4 DEF SteerSafe, OtherCalls
  <2> QED BY <1>0, <2>1, <2>5, <2>6, SafeKept DEF SteerSafe, SteerTyped
<1>8. ASSUME NEW c \in Steer!Calls, Steer!HandleSteer(c)
      PROVE  SteerSafe'
  <2>1. UNCHANGED <<way, run, content, agent, inboxKey, steerKey, acked, dropped, blocked>>
    BY <1>8 DEF Steer!HandleSteer
  <2>2. PICK s \in {"ok", "threw"} :
          /\ call' = [call EXCEPT ![c].st = s]
          /\ IF s = "ok" THEN seen' = [m \in Messages |-> seen[m] + IF m \in call[c].msgs THEN 1 ELSE 0]
                         ELSE seen' = seen
    BY <1>8 DEF Steer!HandleSteer, Steer!Give
  <2>3. /\ OtherCalls(c) /\ call'[c].kind = call[c].kind /\ call'[c].msgs = call[c].msgs
        /\ call'[c].st = s /\ call[c].msgs \subseteq Messages
    BY <2>2, CallStatus, CallMessages
  <2>4. /\ \A m \in Messages : seen[m] > 0 => seen'[m] > 0
        /\ s = "ok" => \A m \in call[c].msgs : seen'[m] > 0
    BY <2>2, <2>3 DEF SteerTyped
  <2>5. \A m \in Messages : Safe(m) => Safe(m)'
    BY <2>1, <2>3, <2>4 DEF Safe, Steer!Waiting, Steer!Queued, Steer!Running, OtherCalls
  <2>6. /\ \A d \in Steer!Calls : call'[d].st = "ok" => \A n \in call'[d].msgs : seen'[n] > 0
        /\ \A d \in Steer!Calls : call'[d].kind \in {"web", "channel"} =>
                \A n \in call'[d].msgs : way[n] = call'[d].kind
    <3>1. \A d \in Steer!Calls : call[d].msgs \subseteq Messages
      BY CallMessages
    <3> QED BY <2>1, <2>3, <2>4, <3>1 DEF SteerSafe, OtherCalls
  <2> QED BY <1>0, <2>1, <2>4, <2>5, <2>6, SafeKept DEF SteerSafe, SteerTyped
<1>9. ASSUME NEW c \in Steer!Calls, Steer!TransportFails(c)
      PROVE  SteerSafe'
  BY <1>9 DEF Steer!TransportFails, Steer!Running, Steer!Queued,
     Steer!SteeringAssumption, SteerTyped, CallSet, SteerSafe, Safe, Steer!Waiting
<1>10. ASSUME NEW c \in Steer!Calls, Steer!StoreSteer(c)
      PROVE  SteerSafe'
  <2>1. /\ UNCHANGED <<way, run, content, agent, inboxKey, seen, dropped, blocked>>
        /\ call[c].msgs \subseteq Messages /\ call[c].st = "ok" /\ acked \subseteq acked'
        /\ acked' \subseteq acked \cup call[c].msgs
        /\ \A m \in Messages : steerKey'[m] # 0 => steerKey[m] # 0 \/ m \in call[c].msgs
    BY <1>10, CallMessages DEF Steer!StoreSteer
  <2>2. \A m \in call[c].msgs : seen[m] > 0
    BY <2>1 DEF SteerSafe
  <2>3. /\ OtherCalls(c) /\ call'[c].msgs \subseteq call[c].msgs
        /\ call'[c].kind \in {"web", "channel"} => call'[c].kind = call[c].kind
    <3>1. CASE Steer!Finish(c)
      BY <3>1, FinishFacts
    <3>2. CASE call' = [call EXCEPT ![c].st = "threw"]
      BY <3>2, CallStatus
    <3> QED BY <1>10, <3>1, <3>2 DEF Steer!StoreSteer
  <2>4. \A m \in Messages : Safe(m) => Safe(m)'
    BY <2>1, <2>2, <2>3 DEF Safe, Steer!Waiting, Steer!Queued, Steer!Running, OtherCalls
  <2>5. /\ \A d \in Steer!Calls : call'[d].st = "ok" => \A n \in call'[d].msgs : seen'[n] > 0
        /\ \A d \in Steer!Calls : call'[d].kind \in {"web", "channel"} =>
                \A n \in call'[d].msgs : way[n] = call'[d].kind
    BY <2>1, <2>2, <2>3 DEF SteerSafe, OtherCalls
  <2>6. \A m \in (acked' \cup inboxKey') \ (acked \cup inboxKey) : Safe(m)'
    BY <2>1, <2>2 DEF Safe
  <2>7. \A m \in acked \cup inboxKey : Safe(m)'
    BY <2>4 DEF SteerSafe, SteerTyped
  <2>8. \A m \in Messages : steerKey'[m] # 0 => steerKey[m] # 0 \/ seen'[m] > 0
    BY <2>1, <2>2
  <2>9. \A m \in Messages : way[m] = "web" =>
          m \notin inboxKey' /\ (m \in acked' => m \in acked \/ seen'[m] > 0)
    BY <2>1, <2>2 DEF SteerSafe
  <2> QED BY <1>0, <2>1, <2>5, <2>6, <2>7, <2>8, <2>9, SafeKept DEF SteerSafe
<1>11. ASSUME NEW c \in Steer!Calls, Steer!SteerThrew(c)
      PROVE  SteerSafe'
  <2>1. UNCHANGED <<way, agent, steerKey, seen, dropped, blocked>> /\ Steer!Finish(c)
          /\ call[c].st = "threw"
    BY <1>11 DEF Steer!SteerThrew
  <2>2. call[c].msgs \in SUBSET Messages
    BY CallMessages
  <2>3. OtherCalls(c) /\ call'[c].msgs = {} /\ call'[c].kind = "done" /\ call'[c].st = "none"
    BY <2>1, FinishFacts
  <2>4. /\ \A d \in Steer!Calls : call'[d].st = "ok" => \A n \in call'[d].msgs : seen'[n] > 0
        /\ \A d \in Steer!Calls : call'[d].kind \in {"web", "channel"} =>
                \A n \in call'[d].msgs : way[n] = call'[d].kind
    BY <2>1, <2>3 DEF SteerSafe, OtherCalls
  <2>5. CASE call[c].kind = "web" /\ UNCHANGED <<run, content, inboxKey, acked>>
    <3>1. \A m \in acked \cup inboxKey : m \in call[c].msgs => seen[m] > 0
      BY <2>2, <2>5 DEF SteerSafe
    <3>2. \A m \in acked \cup inboxKey : Safe(m)'
      BY <2>1, <2>3, <2>5, <3>1 DEF SteerSafe, Safe, Steer!Waiting, Steer!Queued,
         Steer!Running, OtherCalls
    <3> QED BY <1>0, <2>1, <2>4, <2>5, <3>2, SafeKept DEF SteerSafe
  <2>6. CASE /\ Steer!Ingest(call[c].msgs) /\ call[c].kind # "web"
             /\ acked \subseteq acked' /\ acked' \subseteq acked \cup call[c].msgs
             /\ inboxKey \subseteq inboxKey' /\ inboxKey' \subseteq inboxKey \cup call[c].msgs
             /\ call[c].kind = "promote" => UNCHANGED <<acked, inboxKey>>
    <3>1. PICK t \in Steer!Turns : NewTurn(t, call[c].msgs)
      BY <2>6, IngestMakesTurn
    <3>2. /\ run[t] = "none" /\ run'[t] = "queued" /\ content'[t] = call[c].msgs
          /\ \A v \in Steer!Turns \ {t} : run'[v] = run[v] /\ content'[v] = content[v]
      BY <2>2, <3>1, NewTurnFacts
    <3>3. \A m \in call[c].msgs : Steer!Waiting(m)'
      BY <3>2 DEF Steer!Waiting, Steer!Queued
    <3>4. \A m \in Messages : Safe(m) => Safe(m)'
      BY <2>1, <2>3, <3>2, <3>3 DEF Safe, Steer!Waiting, Steer!Queued, Steer!Running,
         OtherCalls
    <3>5. /\ \A m \in (acked' \cup inboxKey') \ (acked \cup inboxKey) : Safe(m)'
          /\ \A m \in acked \cup inboxKey : Safe(m)'
      BY <2>6, <3>3, <3>4 DEF Safe, SteerSafe, SteerTyped
    <3>6. \A m \in Messages : way[m] = "web" =>
            m \notin inboxKey' /\ (m \in acked' => m \in acked \/ seen'[m] > 0)
      BY <2>2, <2>6, CallMessages DEF SteerSafe, SteerTyped
    <3> QED BY <1>0, <2>1, <2>4, <3>5, <3>6, SafeKept DEF SteerSafe
  <2>7. ~(call[c].kind = "promote" /\ blocked)
    BY DEF SteerSafe
  <2> QED BY <1>11, <2>5, <2>6, <2>7 DEF Steer!SteerThrew
<1>12. CASE Steer!Claim
  <2>1. UNCHANGED <<way, agent, call, inboxKey, steerKey, seen, acked, dropped, blocked,
          steerSends, steerFaults>>
    BY <1>12 DEF Steer!Claim
  <2>2. PICK t \in Steer!Turns :
          /\ \A u \in Steer!Turns : run[u] # "running"
          /\ run' = [u \in Steer!Turns |-> IF u = t THEN "running"
                                          ELSE IF run[u] = "queued" THEN "completed" ELSE run[u]]
          /\ content' = [content EXCEPT ![t] = UNION {content[u] : u \in Steer!Queued}]
    BY <1>12, ClaimTakesLast
  <2>3. run'[t] = "running" /\ content'[t] = UNION {content[u] : u \in Steer!Queued}
    BY <2>2 DEF SteerTyped
  <2>4. ASSUME NEW m \in Messages, NEW u \in Steer!Turns, run[u] \in {"queued", "running"},
               m \in content[u]
        PROVE  Steer!Waiting(m)'
    <3>1. u \in Steer!Queued
      BY <2>2, <2>4 DEF Steer!Queued
    <3> QED BY <2>3, <2>4, <3>1 DEF Steer!Waiting, Steer!Running
  <2>5. \A m \in Messages : Safe(m) => Safe(m)'
    BY <2>1, <2>4 DEF Safe, Steer!Waiting, Steer!Queued, Steer!Running
  <2> QED BY <1>0, <2>1, <2>5, SafeKept DEF SteerSafe, SteerTyped
<1>13. CASE Steer!End \/ UNCHANGED Steer!vars
  BY <1>13 DEF Steer!End, Steer!vars, SteerSafe, Safe, Steer!Waiting, Steer!Queued,
     Steer!Running
<1> QED BY <1>1, <1>2, <1>3, <1>4, <1>5, <1>6, <1>7, <1>8, <1>9, <1>10, <1>11, <1>12,
           <1>13 DEF Steer!Next

LEMMA SteerOnceStep ==
  ASSUME Steer!SteeringAssumption, SteerTyped, SteerOnce, MaxSends = 1, MaxThrows = 0,
         [Steer!Next]_(Steer!vars)
  PROVE  SteerOnce'
<1>0. SteerTyped'
  BY SteerTypedStep
<1>1. ASSUME NEW m \in Messages, Steer!Dispatch(m)
      PROVE  SteerOnce'
  <2>1. /\ UNCHANGED <<call, steerKey, seen, dropped>>
        /\ steerSends[m] < 1 /\ steerSends' = [steerSends EXCEPT ![m] = steerSends[m] + 1]
    BY <1>1 DEF Steer!Dispatch, Steer!Present
  <2>2. /\ steerSends[m] = 0 /\ steerSends'[m] = 1
        /\ \A n \in Messages \ {m} : steerSends'[n] = steerSends[n]
    BY <2>1 DEF SteerTyped
  <2>3. CASE UNCHANGED <<run, content>>
    BY <2>1, <2>2, <2>3 DEF SteerOnce, Once, InTurn, InCall, Unseen
  <2>4. CASE Steer!Ingest({m})
    <3>1. PICK t \in Steer!Turns : NewTurn(t, {m})
      BY <2>4, IngestMakesTurn
    <3>2. /\ run[t] = "none" /\ run'[t] = "queued" /\ content'[t] = {m}
          /\ \A u \in Steer!Turns \ {t} : run'[u] = run[u] /\ content'[u] = content[u]
      <4>1. {m} \in SUBSET Messages
        OBVIOUS
      <4> QED BY <3>1, <4>1, NewTurnFacts
    <3>3. \A n \in Messages, u \in Steer!Turns : InTurn(n, u)' => InTurn(n, u) \/ (n = m /\ u = t)
      BY <3>2 DEF InTurn
    <3>4. ASSUME NEW n \in Messages
          PROVE  Once(n)'
      <4>1. Once(n) /\ Once(m)
        BY DEF SteerOnce
      <4> QED BY <2>1, <2>2, <3>3, <4>1 DEF Once, InCall, Unseen
    <3> QED BY <3>4 DEF SteerOnce
  <2> QED BY <1>1, <2>3, <2>4 DEF Steer!Dispatch
<1>2. ASSUME NEW m \in Messages, NEW t \in Steer!Turns, Steer!WebSteer(m, t)
             \/ Steer!ChannelSteer(m, t)
      PROVE  SteerOnce'
  <2>1. /\ steerSends[m] = 0 /\ steerSends' = [steerSends EXCEPT ![m] = @ + 1]
        /\ UNCHANGED <<agent, steerKey, seen, dropped>>
    BY <1>2 DEF Steer!WebSteer, Steer!ChannelSteer, Steer!Present, SteerTyped
  <2>2. steerSends'[m] = 1 /\ \A n \in Messages \ {m} : steerSends'[n] = steerSends[n]
    BY <2>1 DEF SteerTyped
  <2>3. Once(m)
    BY DEF SteerOnce
  <2>4. CASE /\ \E k \in {"web", "channel"} : Steer!Send(k, {m}, t)
             /\ UNCHANGED <<run, content>>
    <3>1. PICK c \in Steer!Calls, k \in {"web", "channel"} : NewCall(c, k, {m}, t)
      BY <2>4, SendMakesCall
    <3>2. /\ OtherCalls(c) /\ call'[c].msgs = {m} /\ call'[c].st = "sent" /\ call[c].msgs = {}
      <4>1. /\ call[c].kind = "none"
            /\ call' = [call EXCEPT ![c] = [kind |-> k, msgs |-> {m}, turn |-> t, st |-> "sent"]]
        BY <3>1 DEF NewCall
      <4>2. OtherCalls(c) /\ call'[c].msgs = {m} /\ call'[c].st = "sent"
        BY <4>1 DEF OtherCalls, SteerTyped
      <4>3. call[c].msgs = {}
        BY <4>1 DEF SteerTyped
      <4> QED BY <4>2, <4>3
    <3>3. ASSUME NEW n \in Messages
          PROVE  Once(n)'
      <4>1. Once(n)
        BY DEF SteerOnce
      <4>2. CASE n = m
        BY <2>1, <2>2, <2>3, <2>4, <3>2, <4>2 DEF Once, InTurn, InCall, Unseen, OtherCalls
      <4>3. CASE n # m
        <5>1. \A d \in Steer!Calls : n \in call'[d].msgs => d # c /\ call'[d] = call[d]
          BY <3>2, <4>3 DEF OtherCalls
        <5> QED BY <2>1, <2>2, <2>4, <4>1, <4>3, <5>1 DEF Once, InTurn, InCall, Unseen
      <4> QED BY <4>2, <4>3
    <3> QED BY <3>3 DEF SteerOnce
  <2>5. CASE Steer!Ingest({m}) /\ UNCHANGED call
    <3>1. PICK u \in Steer!Turns : NewTurn(u, {m})
      BY <2>5, IngestMakesTurn
    <3>2. /\ run[u] = "none" /\ run'[u] = "queued" /\ content'[u] = {m}
          /\ \A v \in Steer!Turns \ {u} : run'[v] = run[v] /\ content'[v] = content[v]
      BY <3>1, NewTurnFacts
    <3>3. ASSUME NEW n \in Messages
          PROVE  Once(n)'
      <4>1. Once(n)
        BY DEF SteerOnce
      <4>2. CASE n = m
        BY <2>1, <2>2, <2>3, <2>5, <3>2, <4>2 DEF Once, InTurn, InCall, Unseen
      <4>3. CASE n # m
        BY <2>1, <2>2, <2>5, <3>2, <4>1, <4>3 DEF Once, InTurn, InCall, Unseen
      <4> QED BY <4>2, <4>3
    <3> QED BY <3>3 DEF SteerOnce
  <2>6. CASE UNCHANGED <<run, content, call>>
    <3>1. ASSUME NEW n \in Messages
          PROVE  Once(n)'
      <4>1. Once(n)
        BY DEF SteerOnce
      <4>2. steerSends'[n] = 0 => steerSends[n] = 0
        BY <2>2
      <4> QED BY <2>1, <2>6, <4>1, <4>2 DEF Once, InTurn, InCall, Unseen
    <3> QED BY <3>1 DEF SteerOnce
  <2> QED BY <1>2, <2>4, <2>5, <2>6 DEF Steer!WebSteer, Steer!ChannelSteer
<1>3. ASSUME NEW t \in Steer!Turns, Steer!Start(t)
      PROVE  SteerOnce'
  BY <1>3 DEF Steer!Start, Steer!Running, Steer!Queued, Steer!Give,
     Steer!SteeringAssumption, SteerTyped, CallSet, SteerOnce, Once, InTurn, InCall, Unseen
<1>4. ASSUME NEW t \in Steer!Turns, Steer!Complete(t)
      PROVE  SteerOnce'
  BY <1>4 DEF Steer!Complete, Steer!Running, Steer!Queued, Steer!SteeringAssumption,
     SteerTyped, CallSet, SteerOnce, Once, InTurn, InCall, Unseen
<1>5. ASSUME NEW t \in Steer!Turns, Steer!CancelQueuedTurn(t)
      PROVE  SteerOnce'
  BY <1>5 DEF Steer!CancelQueuedTurn, Steer!Running, Steer!Queued,
     Steer!SteeringAssumption, SteerTyped, CallSet, SteerOnce, Once, InTurn, InCall, Unseen
<1>6. ASSUME NEW t \in Steer!Turns, NEW S \in SUBSET Steer!Turns, Steer!Promote(S, t)
      PROVE  SteerOnce'
  <2> DEFINE ms == UNION {content[q] : q \in S}
  <2>1. /\ S \subseteq Steer!Queued /\ Steer!Send("promote", ms, t)
        /\ run' = [q \in Steer!Turns |-> IF q \in S THEN "interrupted" ELSE run[q]]
        /\ content' = [q \in Steer!Turns |-> IF q \in S THEN {} ELSE content[q]]
        /\ UNCHANGED <<steerKey, seen, dropped, steerSends>>
    BY <1>6 DEF Steer!Promote
  <2>2. ms \in SUBSET Messages /\ \A m \in ms : \E q \in S : m \in content[q]
    BY DEF SteerTyped
  <2> HIDE DEF ms
  <2>3. PICK c \in Steer!Calls : NewCall(c, "promote", ms, t)
    BY <2>1, SendMakesCall
  <2>4. OtherCalls(c) /\ call'[c].msgs = ms /\ call'[c].st = "sent" /\ call[c].msgs = {}
    BY <2>2, <2>3, NewCallFacts
  <2>5. /\ \A q \in S : run[q] = "queued" /\ run'[q] = "interrupted"
        /\ \A q \in Steer!Turns \ S : run'[q] = run[q] /\ content'[q] = content[q]
    BY <2>1 DEF Steer!Queued
  <2>6. ASSUME NEW m \in Messages
        PROVE  Once(m)'
    <3>1. Once(m)
      BY DEF SteerOnce
    <3>2. \A q \in Steer!Turns : InTurn(m, q)' => InTurn(m, q) /\ q \notin S
      BY <2>5 DEF InTurn
    <3>3. CASE m \in ms
      <4>1. PICK q \in S : InTurn(m, q)
        BY <2>2, <2>5, <3>3 DEF InTurn
      <4>2. /\ Unseen(m) /\ \A d \in Steer!Calls : ~InCall(m, d)
            /\ steerSends[m] # 0 /\ \A r \in Steer!Turns : ~InTurn(m, r)'
        BY <3>1, <3>2, <4>1 DEF Once
      <4>3. \A d \in Steer!Calls : InCall(m, d)' => d = c
        BY <2>4, <4>2 DEF InCall, OtherCalls
      <4>4. steerKey[m] = 0
        BY <3>1, <4>2 DEF Once, Unseen, SteerTyped
      <4> QED BY <2>1, <2>4, <3>1, <4>2, <4>3, <4>4 DEF Once, Unseen
    <3>4. CASE m \notin ms
      <4>1. \A d \in Steer!Calls : InCall(m, d)' => InCall(m, d) /\ call'[d] = call[d]
        BY <2>4, <3>4 DEF InCall, OtherCalls
      <4> QED BY <2>1, <3>1, <3>2, <4>1 DEF Once, Unseen
    <3> QED BY <3>3, <3>4
  <2> QED BY <2>6 DEF SteerOnce
<1>7. ASSUME NEW c \in Steer!Calls, Steer!HandleSteer(c)
      PROVE  SteerOnce'
  <2>1. UNCHANGED <<run, content, steerKey, dropped, steerSends>> /\ call[c].st = "sent"
    BY <1>7 DEF Steer!HandleSteer
  <2>2. PICK s \in {"ok", "threw"} :
          /\ call' = [call EXCEPT ![c].st = s]
          /\ IF s = "ok" THEN seen' = [m \in Messages |-> seen[m] + IF m \in call[c].msgs THEN 1 ELSE 0]
                         ELSE seen' = seen
    BY <1>7 DEF Steer!HandleSteer, Steer!Give
  <2>3. OtherCalls(c) /\ call'[c].msgs = call[c].msgs /\ call'[c].st = s
    BY <2>2, CallStatus
  <2>4. ASSUME NEW m \in Messages
        PROVE  Once(m)'
    <3>1. Once(m)
      BY DEF SteerOnce
    <3>2. /\ \A t \in Steer!Turns : InTurn(m, t)' <=> InTurn(m, t)
          /\ \A d \in Steer!Calls : InCall(m, d)' <=> InCall(m, d)
          /\ \A d \in Steer!Calls \ {c} : call'[d].st = call[d].st
      BY <2>1, <2>3 DEF InTurn, InCall, OtherCalls
    <3>3. CASE s = "ok" /\ InCall(m, c)
      <4>1. seen'[m] = seen[m] + 1 /\ Unseen(m) /\ steerSends[m] # 0
        BY <2>1, <2>2, <3>1, <3>3 DEF Once, InCall
      <4>2. seen'[m] = 1 /\ m \notin dropped' /\ \A t \in Steer!Turns : ~InTurn(m, t)'
        BY <2>1, <3>1, <3>2, <3>3, <4>1 DEF Once, Unseen
      <4>3. \A d \in Steer!Calls : InCall(m, d)' => d = c
        BY <3>1, <3>2, <3>3 DEF Once
      <4>4. steerKey'[m] = 0 /\ steerSends'[m] # 0
        BY <2>1, <3>1, <3>3, <4>1 DEF Once
      <4> QED BY <2>3, <3>3, <4>2, <4>3, <4>4 DEF Once
    <3>4. CASE ~(s = "ok" /\ InCall(m, c))
      <4>1. seen'[m] = seen[m]
        BY <2>2, <3>4 DEF InCall, SteerTyped
      <4> QED BY <2>1, <2>3, <3>1, <3>2, <3>4, <4>1 DEF Once, Unseen
    <3> QED BY <3>3, <3>4
  <2> QED BY <2>4 DEF SteerOnce
<1>8. ASSUME NEW c \in Steer!Calls, Steer!TransportFails(c)
      PROVE  SteerOnce'
  BY <1>8 DEF Steer!TransportFails, Steer!Running, Steer!Queued,
     Steer!SteeringAssumption, SteerTyped, CallSet, SteerOnce, Once, InTurn, InCall, Unseen
<1>9. ASSUME NEW c \in Steer!Calls, Steer!StoreSteer(c)
      PROVE  SteerOnce'
  <2>1. UNCHANGED <<run, content, seen, dropped, steerSends>> /\ call[c].st = "ok"
    BY <1>9 DEF Steer!StoreSteer
  <2>2. call[c].msgs \in SUBSET Messages /\ call[c].turn \in Steer!Turns \cup {0}
    BY CallMessages
  <2>3. \A m \in call[c].msgs : steerKey[m] = 0
    BY <2>2 DEF SteerOnce, Once, InCall
  <2>4. Steer!Finish(c)
    BY <1>9, <2>3 DEF Steer!StoreSteer
  <2>5. OtherCalls(c) /\ call'[c].msgs = {}
    BY <2>4, FinishFacts
  <2>6. ASSUME NEW m \in Messages
        PROVE  Once(m)'
    <3>1. Once(m)
      BY DEF SteerOnce
    <3>2. /\ \A t \in Steer!Turns : InTurn(m, t)' <=> InTurn(m, t)
          /\ \A d \in Steer!Calls : InCall(m, d)' <=> InCall(m, d) /\ d # c
          /\ \A d \in Steer!Calls \ {c} : call'[d].st = call[d].st
      BY <2>1, <2>5 DEF InTurn, InCall, OtherCalls
    <3>3. steerKey'[m] = steerKey[m] \/ InCall(m, c)
      BY <1>9 DEF Steer!StoreSteer, InCall
    <3>4. CASE steerKey'[m] = steerKey[m]
      BY <2>1, <3>1, <3>2, <3>4 DEF Once, Unseen
    <3>5. CASE InCall(m, c)
      <4>1. /\ \A d \in Steer!Calls : ~InCall(m, d)' /\ \A t \in Steer!Turns : ~InTurn(m, t)
            /\ steerSends[m] # 0
        BY <3>1, <3>2, <3>5 DEF Once
      <4>2. seen[m] > 0
        BY <2>1, <3>1, <3>5 DEF Once
      <4> QED BY <2>1, <3>1, <3>2, <4>1, <4>2 DEF Once, Unseen
    <3> QED BY <3>3, <3>4, <3>5
  <2> QED BY <2>6 DEF SteerOnce
<1>10. ASSUME NEW c \in Steer!Calls, Steer!SteerThrew(c)
      PROVE  SteerOnce'
  <2>1. UNCHANGED <<steerKey, seen, dropped, steerSends>> /\ Steer!Finish(c) /\ call[c].st = "threw"
    BY <1>10 DEF Steer!SteerThrew
  <2>2. call[c].msgs \in SUBSET Messages
    BY CallMessages
  <2>3. OtherCalls(c) /\ call'[c].msgs = {}
    BY <2>1, FinishFacts
  <2>4. \A m \in Messages : /\ \A d \in Steer!Calls : InCall(m, d)' <=> InCall(m, d) /\ d # c
                            /\ \A d \in Steer!Calls \ {c} : call'[d].st = call[d].st
    BY <2>3 DEF InCall, OtherCalls
  <2>5. CASE UNCHANGED <<run, content>>
    <3>1. ASSUME NEW m \in Messages
          PROVE  Once(m)'
      <4>1. Once(m)
        BY DEF SteerOnce
      <4> QED BY <2>1, <2>4, <2>5, <4>1 DEF Once, InTurn, Unseen
    <3> QED BY <3>1 DEF SteerOnce
  <2>6. CASE Steer!Ingest(call[c].msgs)
    <3>1. PICK t \in Steer!Turns : NewTurn(t, call[c].msgs)
      BY <2>6, IngestMakesTurn
    <3>2. /\ run[t] = "none" /\ run'[t] = "queued" /\ content'[t] = call[c].msgs
          /\ \A v \in Steer!Turns \ {t} : run'[v] = run[v] /\ content'[v] = content[v]
      BY <2>2, <3>1, NewTurnFacts
    <3>3. ASSUME NEW m \in Messages
          PROVE  Once(m)'
      <4>1. Once(m)
        BY DEF SteerOnce
      <4>2. \A v \in Steer!Turns : InTurn(m, v)' <=> InTurn(m, v) \/ (v = t /\ InCall(m, c))
        BY <3>2 DEF InTurn, InCall
      <4>3. CASE InCall(m, c)
        <5>1. /\ Unseen(m) /\ steerSends[m] # 0 /\ \A d \in Steer!Calls : ~InCall(m, d)'
              /\ \A v \in Steer!Turns : InTurn(m, v)' => v = t
          BY <2>1, <2>4, <4>1, <4>2, <4>3 DEF Once
        <5>2. steerKey[m] = 0
          BY <4>1, <4>3 DEF Once
        <5> QED BY <2>1, <4>1, <5>1, <5>2 DEF Once, Unseen
      <4>4. CASE ~InCall(m, c)
        BY <2>1, <2>4, <4>1, <4>2, <4>4 DEF Once, Unseen
      <4> QED BY <4>3, <4>4
    <3> QED BY <3>3 DEF SteerOnce
  <2> QED BY <1>10, <2>5, <2>6 DEF Steer!SteerThrew
<1>11. CASE Steer!Claim
  <2>1. UNCHANGED <<call, steerKey, seen, dropped, steerSends>>
    BY <1>11 DEF Steer!Claim
  <2>2. PICK t \in Steer!Turns :
          /\ \A u \in Steer!Turns : run[u] # "running"
          /\ run' = [u \in Steer!Turns |-> IF u = t THEN "running"
                                          ELSE IF run[u] = "queued" THEN "completed" ELSE run[u]]
          /\ content' = [content EXCEPT ![t] = UNION {content[u] : u \in Steer!Queued}]
    BY <1>11, ClaimTakesLast
  <2>3. ASSUME NEW m \in Messages
        PROVE  Once(m)'
    <3>1. Once(m)
      BY DEF SteerOnce
    <3>2. \A u \in Steer!Turns : InTurn(m, u)' => u = t /\ \E v \in Steer!Turns : InTurn(m, v)
      BY <2>2 DEF InTurn, Steer!Queued, SteerTyped
    <3> QED BY <2>1, <3>1, <3>2 DEF Once, InCall, Unseen
  <2> QED BY <2>3 DEF SteerOnce
<1>12. CASE Steer!End \/ UNCHANGED Steer!vars
  BY <1>12 DEF Steer!End, Steer!vars, SteerOnce, Once, InTurn, InCall, Unseen
<1> QED BY <1>1, <1>2, <1>3, <1>4, <1>5, <1>6, <1>7, <1>8, <1>9, <1>10, <1>11, <1>12
        DEF Steer!Next

(* No accepted message disappears between queueing, promotion, the claim   *)
(* and the end of a turn, where the session is never refused; and one that *)
(* is presented once, to calls that answer, reaches the agent at most once *)
(* and not after it was taken back.                                        *)
THEOREM SteeringKeepsMessages ==
  ASSUME Steer!SteeringAssumption
  PROVE  Steer!Spec => /\ []Steer!TypeOK /\ [](~MayCorrupt => Steer!NothingDropped)
                       /\ [](MaxSends = 1 /\ MaxThrows = 0 => Steer!SeenOnce)
<1>1. Steer!Init => SteerInv
  BY SteerInvInit
<1>2. SteerInv /\ [Steer!Next]_(Steer!vars) => SteerInv'
  BY SteerTypedStep, SteerSafeStep, SteerOnceStep DEF SteerInv
<1>3. SteerInv => Steer!TypeOK
  BY DEF SteerInv, SteerTyped, CallSet, Steer!TypeOK
<1>4. SteerInv => (~MayCorrupt => Steer!NothingDropped)
  BY DEF SteerInv, SteerSafe, Safe, Steer!NothingDropped
<1>5. SteerInv => (MaxSends = 1 /\ MaxThrows = 0 => Steer!SeenOnce)
  BY DEF SteerInv, SteerTyped, SteerOnce, Once, Steer!SeenOnce
<1>6. Steer!Spec => []SteerInv
  BY <1>1, <1>2, PTL DEF Steer!Spec
<1>7. []SteerInv => []Steer!TypeOK
  BY <1>3, PTL
<1>8. []SteerInv => [](~MayCorrupt => Steer!NothingDropped)
  BY <1>4, PTL
<1>9. []SteerInv => [](MaxSends = 1 /\ MaxThrows = 0 => Steer!SeenOnce)
  BY <1>5, PTL
<1> QED BY <1>6, <1>7, <1>8, <1>9, PTL

-----------------------------------------------------------------------------
(* The task worker.                                                        *)

WorkerSet == [state : {"down", "running", "stopping", "stopped"}, id : Nat,
              pc : {"idle", "start", "wait"}, task : Tasks, run : Nat, aborted : BOOLEAN]

RunsTyped ==
  /\ task \in [Tasks -> Work!TaskRow] /\ runs \in [Tasks -> Seq(Work!RunRow)]
      /\ worker \in WorkerSet
  /\ \A t \in Tasks : Len(runs[t]) <= MaxRuns
  /\ ops \in 0..MaxOps /\ restarts \in 0..MaxRestarts

(* The row of a task and the rows of its runs: only the latest run can be  *)
(* active, and a claimed task is claimed by it.                            *)
Together(row, rows) ==
  /\ row.status = "claimed" =>
       /\ Len(rows) > 0 /\ rows[Len(rows)].status = "claimed"
       /\ rows[Len(rows)].claimant = row.claimant /\ rows[Len(rows)].lease = row.lease
  /\ \A i \in 1..Len(rows) : Work!ActiveRun(rows[i]) => i = Len(rows)
  /\ \A i \in 1..Len(rows) : rows[i].status = "completed" => rows[i].turn = "completed"
  /\ row.status = "pending" => row.claims = 0 \/ row.claims < MaxRetries
  /\ row.recurring => row.status # "failed"
  /\ row.status = "none" => row.claims = 0

(* The run the worker is about has not begun when it is to be dispatched.  *)
AtWork ==
  /\ worker.pc # "idle" => worker.run \in 1..Len(runs[worker.task])
  /\ worker.pc = "start" => Work!Turn = "none"
  /\ worker.state \in {"down", "stopping", "stopped"} => restarts < MaxRestarts

RunsInv == RunsTyped /\ (\A t \in Tasks : Together(task[t], runs[t])) /\ AtWork

(* Without restarts, and where a cancelled turn ends, a turn that is live  *)
(* is the one the worker waits for.                                        *)
Watched ==
  /\ worker.state = "running"
  /\ \A t \in Tasks : \A i \in 1..Len(runs[t]) :
       runs[t][i].turn = "live" => worker.pc = "wait" /\ worker.task = t /\ worker.run = i

(* What a step does to the rows of the runs of a task: a run that ended    *)
(* stays, and no turn begins.                                              *)
RowsStep(rows, out) ==
  /\ Len(rows) <= Len(out)
  /\ \A i \in 1..Len(rows) :
       /\ rows[i].status # "claimed" => out[i].status = rows[i].status
       /\ rows[i].turn = "none" => out[i].turn = "none"
       /\ out[i].turn = "live" => rows[i].turn = "live"
  /\ \A i \in 1..Len(out) : i > Len(rows) => out[i].turn = "none"

(* What all steps but Dispatch do to the rows.                             *)
Kept ==
  /\ task' \in [Tasks -> Work!TaskRow] /\ runs' \in [Tasks -> Seq(Work!RunRow)]
  /\ \A t \in Tasks : /\ Len(runs'[t]) <= MaxRuns /\ Together(task'[t], runs'[t])
                      /\ RowsStep(runs[t], runs'[t])

LEMMA RunsTypes ==
  ASSUME Work!TaskAssumption, RunsInv
  PROVE  /\ task \in [Tasks -> Work!TaskRow] /\ runs \in [Tasks -> Seq(Work!RunRow)]
            /\ worker \in WorkerSet
         /\ \A t \in Tasks : /\ Len(runs[t]) \in Nat /\ Len(runs[t]) <= MaxRuns
                             /\ DOMAIN runs[t] = 1..Len(runs[t]) /\ Together(task[t], runs[t])
                             /\ runs[t] \in Seq(Work!RunRow) /\ task[t] \in Work!TaskRow
         /\ \A t \in Tasks : \A i \in 1..Len(runs[t]) : runs[t][i] \in Work!RunRow
         /\ MaxRuns \in Nat /\ MaxRetries \in Nat /\ MaxOps \in Nat /\ MaxRestarts \in Nat
         /\ ops \in 0..MaxOps /\ restarts \in 0..MaxRestarts
BY DEF Work!TaskAssumption, RunsInv, RunsTyped

LEMMA WorkerFields ==
  ASSUME Work!TaskAssumption, RunsInv
  PROVE  /\ worker.state \in {"down", "running", "stopping", "stopped"} /\ worker.id \in Nat
         /\ worker.pc \in {"idle", "start", "wait"} /\ worker.task \in Tasks /\ worker.run \in Nat
         /\ worker.aborted \in BOOLEAN
BY DEF RunsInv, RunsTyped, WorkerSet

LEMMA RowFields ==
  ASSUME NEW r \in Work!RunRow
  PROVE  /\ r.status \in {"claimed"} \cup Work!Terminal /\ r.claimant \in Nat
         /\ r.lease \in {"live", "expired"} /\ r.turn \in {"none", "live", "completed", "failed"}
         /\ r.inLease \in BOOLEAN
         /\ \A s \in Work!Terminal : /\ [r EXCEPT !.status = s] \in Work!RunRow
                                     /\ [r EXCEPT !.status = s].status = s
                                     /\ [r EXCEPT !.status = s].turn = r.turn
         /\ \A u \in {"none", "live", "completed", "failed"} :
              /\ [r EXCEPT !.turn = u] \in Work!RunRow /\ [r EXCEPT !.turn = u].turn = u
              /\ [r EXCEPT !.turn = u].status = r.status
              /\ [r EXCEPT !.turn = u].claimant = r.claimant
                  /\ [r EXCEPT !.turn = u].lease = r.lease
BY DEF Work!RunRow

LEMMA TaskFields ==
  ASSUME NEW row \in Work!TaskRow
  PROVE  /\ row.status \in {"none", "pending", "claimed", "deleted"} \cup Work!Terminal
         /\ row.recurring \in BOOLEAN /\ row.paused \in BOOLEAN
         /\ row.next \in {"null", "later", "due"} /\ row.claimant \in Nat
         /\ row.lease \in {"none", "live", "expired"} /\ row.claims \in Nat
BY DEF Work!TaskRow, Work!NoLease

(* Rows that are changed one by one.                                       *)
LEMMA Mapped ==
  ASSUME NEW rows \in Seq(Work!RunRow), NEW out \in [1..Len(rows) -> Work!RunRow]
  PROVE  out \in Seq(Work!RunRow) /\ Len(out) = Len(rows) /\ DOMAIN out = 1..Len(rows)
<1>1. Len(rows) \in Nat
  OBVIOUS
<1>2. out \in Seq(Work!RunRow)
  BY <1>1
<1> QED BY <1>1, <1>2, LenProperties

(* A task that is claimed no more.                                         *)
LEMMA Released ==
  ASSUME NEW row, NEW rows \in Seq(Work!RunRow), Together(row, rows), NEW new,
         NEW out \in Seq(Work!RunRow),
         Len(out) = Len(rows),
         \A i \in 1..Len(rows) : Work!ActiveRun(out[i]) => Work!ActiveRun(rows[i]),
         \A i \in 1..Len(rows) : out[i].status = "completed" => out[i].turn = "completed",
         new.status # "claimed", new.status = "pending" => new.claims = 0
             \/ new.claims < MaxRetries,
         new.recurring => new.status # "failed", new.status = "none" => new.claims = 0
  PROVE  Together(new, out)
BY DEF Together

(* The rows of a task that stays as it was claimed.                        *)
LEMMA StaysClaimed ==
  ASSUME NEW row, NEW rows \in Seq(Work!RunRow), Together(row, rows), NEW out \in Seq(Work!RunRow),
         Len(out) = Len(rows),
         \A i \in 1..Len(rows) : /\ out[i].status = rows[i].status
                                    /\ out[i].claimant = rows[i].claimant
                                 /\ out[i].lease = rows[i].lease,
         \A i \in 1..Len(rows) : out[i].status = "completed" => out[i].turn = "completed"
  PROVE  Together(row, out)
<1>1. Len(rows) \in Nat /\ (Len(rows) > 0 => Len(rows) \in 1..Len(rows))
  OBVIOUS
<1>2. \A i \in 1..Len(rows) : Work!ActiveRun(out[i]) <=> Work!ActiveRun(rows[i])
  BY DEF Work!ActiveRun
<1> QED BY <1>1, <1>2 DEF Together

(* One task changes.                                                       *)
LEMMA OneTask ==
  ASSUME Work!TaskAssumption, RunsInv, NEW t \in Tasks, NEW row \in Work!TaskRow,
         NEW rows \in Seq(Work!RunRow),
         Len(rows) <= MaxRuns, Together(row, rows), RowsStep(runs[t], rows),
         task' = [task EXCEPT ![t] = row], runs' = [runs EXCEPT ![t] = rows]
  PROVE  Kept
<1>1. task' \in [Tasks -> Work!TaskRow] /\ runs' \in [Tasks -> Seq(Work!RunRow)]
  BY RunsTypes
<1>2. ASSUME NEW s \in Tasks
      PROVE  /\ Len(runs'[s]) <= MaxRuns /\ Together(task'[s], runs'[s])
             /\ RowsStep(runs[s], runs'[s])
  <2>1. CASE s = t
    <3>1. task'[s] = row /\ runs'[s] = rows
      BY <2>1, RunsTypes
    <3> QED BY <2>1, <3>1
  <2>2. CASE s # t
    <3>1. task'[s] = task[s] /\ runs'[s] = runs[s]
      BY <2>2, RunsTypes
    <3>2. RowsStep(runs[s], runs[s])
      BY RunsTypes DEF RowsStep
    <3> QED BY <3>1, <3>2, RunsTypes
  <2> QED BY <2>1, <2>2
<1> QED BY <1>1, <1>2 DEF Kept

LEMMA OneRow ==
  ASSUME Work!TaskAssumption, RunsInv, NEW t \in Tasks, NEW row \in Work!TaskRow,
         Together(row, runs[t]), task' = [task EXCEPT ![t] = row], runs' = runs
  PROVE  Kept
<1>1. runs' = [runs EXCEPT ![t] = runs[t]]
  BY RunsTypes
<1>2. RowsStep(runs[t], runs[t])
  BY RunsTypes DEF RowsStep
<1> QED BY <1>1, <1>2, RunsTypes, OneTask

LEMMA Nothing ==
  ASSUME Work!TaskAssumption, RunsInv, task' = task, runs' = runs
  PROVE  Kept
<1>1. \A t \in Tasks : RowsStep(runs[t], runs[t])
  BY RunsTypes DEF RowsStep
<1> QED BY <1>1, RunsTypes DEF Kept

(* The recovery of expired leases.                                         *)
LEMMA RecoveredRow ==
  ASSUME Work!TaskAssumption, NEW row \in Work!TaskRow
  PROVE  /\ Work!RecoveredTask(row) \in Work!TaskRow
         /\ ~Work!Lapsed(row) => Work!RecoveredTask(row) = row
         /\ Work!Lapsed(row) => Work!RecoveredTask(row).status \in {"pending", "failed"}
         /\ Work!Lapsed(row) /\ Work!RecoveredTask(row).status = "pending" =>
                   Work!RecoveredTask(row).claims = 0 \/ Work!RecoveredTask(row).claims < MaxRetries
         /\ Work!Lapsed(row) /\ Work!RecoveredTask(row).recurring
             => Work!RecoveredTask(row).status # "failed"
<1> USE DEF Work!RecoveredTask
<1>1. CASE ~Work!Lapsed(row)
  BY <1>1
<1>2. CASE Work!Lapsed(row) /\ row.recurring
  <2>1. Work!NextAfter(row, "null") \in {"null", "later", "due"}
    BY DEF Work!NextAfter
  <2> QED BY <1>2, <2>1 DEF Work!TaskRow, Work!NoLease, Work!Terminal
<1>3. CASE Work!Lapsed(row) /\ ~row.recurring
  <2>1. CASE row.claims >= MaxRetries
    BY <1>3, <2>1 DEF Work!TaskRow, Work!NoLease, Work!Terminal
  <2>2. CASE ~(row.claims >= MaxRetries)
    <3>1. row.claims < MaxRetries
      BY <2>2, TaskFields DEF Work!TaskAssumption
    <3> QED BY <1>3, <2>2, <3>1 DEF Work!TaskRow, Work!NoLease, Work!Terminal
  <2> QED BY <2>1, <2>2
<1> QED BY <1>1, <1>2, <1>3

LEMMA RecoveredKept ==
  ASSUME Work!TaskAssumption, RunsInv, NEW t \in Tasks
  PROVE  /\ Work!RecoveredTasks[t] \in Work!TaskRow /\ Work!RecoveredRuns[t] \in Seq(Work!RunRow)
         /\ Len(Work!RecoveredRuns[t]) = Len(runs[t])
             /\ DOMAIN Work!RecoveredRuns[t] = 1..Len(runs[t])
         /\ Together(Work!RecoveredTasks[t], Work!RecoveredRuns[t])
             /\ RowsStep(runs[t], Work!RecoveredRuns[t])
<1> DEFINE row == task[t]
           rows == runs[t]
           out == [i \in DOMAIN rows |->
                     IF Work!Lapsed(rows[i]) THEN [rows[i] EXCEPT !.status = "failed"] ELSE rows[i]]
<1>1. Work!RecoveredTasks[t] = Work!RecoveredTask(row) /\ Work!RecoveredRuns[t] = out
  BY DEF Work!RecoveredTasks, Work!RecoveredRuns
<1>2. /\ row \in Work!TaskRow /\ rows \in Seq(Work!RunRow) /\ Together(row, rows)
         /\ DOMAIN rows = 1..Len(rows)
      /\ \A i \in 1..Len(rows) : rows[i] \in Work!RunRow
  BY RunsTypes
<1> HIDE DEF row, rows
<1>3. ASSUME NEW i \in 1..Len(rows)
      PROVE  /\ out[i] \in Work!RunRow /\ out[i].turn = rows[i].turn
             /\ ~Work!Lapsed(rows[i]) => out[i] = rows[i]
             /\ Work!Lapsed(rows[i]) => out[i].status = "failed"
  <2>4. i \in DOMAIN rows
    BY <1>2
  <2>1. out[i] = IF Work!Lapsed(rows[i]) THEN [rows[i] EXCEPT !.status = "failed"] ELSE rows[i]
    BY <2>4
  <2>2. rows[i] \in Work!RunRow /\ "failed" \in Work!Terminal
    BY <1>2 DEF Work!Terminal
  <2> HIDE DEF out
  <2>3. CASE Work!Lapsed(rows[i])
    <3>1. out[i] = [rows[i] EXCEPT !.status = "failed"]
      BY <2>1, <2>3
    <3>2. /\ [rows[i] EXCEPT !.status = "failed"] \in Work!RunRow
          /\ [rows[i] EXCEPT !.status = "failed"].status = "failed"
          /\ [rows[i] EXCEPT !.status = "failed"].turn = rows[i].turn
      BY <2>2 DEF Work!RunRow
    <3> QED BY <2>3, <3>1, <3>2
  <2> QED BY <2>1, <2>2, <2>3
<1>4. DOMAIN out = 1..Len(rows) /\ out \in [1..Len(rows) -> Work!RunRow]
  BY <1>2, <1>3
<1> HIDE DEF out
<1>5. out \in Seq(Work!RunRow) /\ Len(out) = Len(rows)
  BY <1>2, <1>4, Mapped
<1>6. \A i \in 1..Len(rows) : /\ Work!ActiveRun(out[i]) => Work!ActiveRun(rows[i])
                              /\ out[i].status = "completed" => out[i].turn = "completed"
                              /\ rows[i].status # "claimed" => out[i].status = rows[i].status
  BY <1>2, <1>3 DEF Work!ActiveRun, Work!Lapsed, Together
<1>7. RowsStep(rows, out)
  BY <1>2, <1>3, <1>5, <1>6 DEF RowsStep
<1>8. Together(Work!RecoveredTask(row), out)
  <2>1. CASE Work!Lapsed(row)
    <3>1. Work!RecoveredTask(row).status \in {"pending", "failed"}
      BY <1>2, <2>1, RecoveredRow
    <3> QED BY <1>2, <1>5, <1>6, <2>1, <3>1, RecoveredRow, Released
  <2>2. CASE ~Work!Lapsed(row) /\ row.status = "claimed"
    <3>1. Work!RecoveredTask(row) = row
      BY <1>2, <2>2, RecoveredRow
    <3>2. /\ Len(rows) > 0 /\ rows[Len(rows)].status = "claimed"
          /\ rows[Len(rows)].lease = row.lease /\ rows[Len(rows)].claimant = row.claimant
      BY <1>2, <2>2 DEF Together
    <3>5. Len(rows) \in 1..Len(rows)
      BY <1>2, <3>2
    <3>3. ~Work!Lapsed(rows[Len(rows)])
      BY <2>2, <3>2 DEF Work!Lapsed
    <3>4. out[Len(rows)] = rows[Len(rows)]
      BY <1>3, <3>5, <3>3
    <3> QED BY <1>2, <1>5, <1>6, <2>2, <3>1, <3>2, <3>4 DEF Together
  <2>3. CASE row.status # "claimed"
    <3>1. Work!RecoveredTask(row) = row
      BY <1>2, <2>3, RecoveredRow DEF Work!Lapsed
    <3> QED BY <1>2, <1>5, <1>6, <2>3, <3>1, Released DEF Together
  <2> QED BY <2>1, <2>2, <2>3
<1> QED BY <1>1, <1>2, <1>4, <1>5, <1>7, <1>8, RecoveredRow DEF row, rows

LEMMA RecoveryKeeps ==
  ASSUME Work!TaskAssumption, RunsInv, task' = Work!RecoveredTasks, runs' = Work!RecoveredRuns
  PROVE  Kept
<1>1. task' \in [Tasks -> Work!TaskRow]
  BY RecoveredKept DEF Work!RecoveredTasks
<1>2. runs' \in [Tasks -> Seq(Work!RunRow)]
  BY RecoveredKept DEF Work!RecoveredRuns
<1> QED BY <1>1, <1>2, RecoveredKept, RunsTypes DEF Kept

(* A claim appends a run where none is active.                             *)
LEMMA ClaimTogether ==
  ASSUME Work!TaskAssumption, RunsInv, NEW row \in Work!TaskRow, NEW rows \in Seq(Work!RunRow),
         Together(row, rows),
         \A i \in 1..Len(rows) : ~Work!ActiveRun(rows[i]), NEW next \in {"null", "later", "due"}
  PROVE  /\ Work!ClaimedRow(row, next) \in Work!TaskRow
            /\ Append(rows, Work!NewRun) \in Seq(Work!RunRow)
         /\ Together(Work!ClaimedRow(row, next), Append(rows, Work!NewRun))
         /\ RowsStep(rows, Append(rows, Work!NewRun))
             /\ Len(Append(rows, Work!NewRun)) = Len(rows) + 1
         /\ Append(rows, Work!NewRun)[Len(rows) + 1].turn = "none"
<1>1. /\ Work!NewRun \in Work!RunRow /\ Work!NewRun.turn = "none" /\ Work!NewRun.status = "claimed"
      /\ Work!NewRun.claimant = worker.id /\ Work!NewRun.lease = "live"
  BY WorkerFields DEF Work!NewRun, Work!RunRow
<1> DEFINE new == Work!ClaimedRow(row, next)
           out == Append(rows, Work!NewRun)
<1>2. /\ new \in Work!TaskRow /\ new.status = "claimed" /\ new.claimant = worker.id
         /\ new.lease = "live"
  <2>1. worker.id \in Nat
    BY WorkerFields
  <2>2. row.claims + 1 \in Nat /\ "claimed" \in {"none", "pending", "claimed",
          "deleted"} \cup Work!Terminal
    BY TaskFields
  <2> QED BY <2>1, <2>2 DEF Work!ClaimedRow, Work!TaskRow, Work!NoLease
<1>3. /\ out \in Seq(Work!RunRow) /\ Len(out) = Len(rows) + 1 /\ out[Len(rows) + 1] = Work!NewRun
      /\ \A i \in 1..Len(rows) : out[i] = rows[i]
      /\ Len(rows) \in Nat
  BY <1>1
<1> HIDE DEF new, out
<1>4. Together(new, out)
  BY <1>1, <1>2, <1>3 DEF Together
<1>5. RowsStep(rows, out)
  BY <1>1, <1>3 DEF RowsStep
<1> QED BY <1>1, <1>2, <1>3, <1>4, <1>5 DEF new, out


(* Claimed runs of a task end.                                             *)
Ended(rows, C, s) ==
  [i \in DOMAIN rows |-> IF i \in C THEN [rows[i] EXCEPT !.status = s] ELSE rows[i]]

LEMMA EndedRows ==
  ASSUME NEW row, NEW rows \in Seq(Work!RunRow), Together(row, rows), NEW C,
         NEW s \in Work!Terminal,
         \A i \in C \cap (1..Len(rows)) :
           rows[i].status = "claimed" /\ (s = "completed" => rows[i].turn = "completed"),
         NEW out, out = Ended(rows, C, s)
  PROVE  /\ out \in Seq(Work!RunRow) /\ Len(out) = Len(rows) /\ RowsStep(rows, out)
         /\ \A i \in 1..Len(rows) : /\ Work!ActiveRun(out[i]) => Work!ActiveRun(rows[i])
                                    /\ out[i].status = "completed" => out[i].turn = "completed"
                                    /\ out[i].turn = rows[i].turn
<1>1. /\ DOMAIN rows = 1..Len(rows) /\ Len(rows) \in Nat
      /\ \A i \in 1..Len(rows) : rows[i] \in Work!RunRow
  OBVIOUS
<1>2. ASSUME NEW i \in 1..Len(rows)
      PROVE  /\ out[i] \in Work!RunRow /\ out[i].turn = rows[i].turn
             /\ i \notin C => out[i] = rows[i]
             /\ i \in C => out[i].status = s /\ rows[i].status = "claimed"
  <2>1. i \in DOMAIN rows /\ rows[i] \in Work!RunRow
    BY <1>1
  <2>2. out[i] = IF i \in C THEN [rows[i] EXCEPT !.status = s] ELSE rows[i]
    BY <2>1 DEF Ended
  <2>3. CASE i \in C
    <3>1. out[i] = [rows[i] EXCEPT !.status = s]
      BY <2>2, <2>3
    <3>2. /\ [rows[i] EXCEPT !.status = s] \in Work!RunRow
          /\ [rows[i] EXCEPT !.status = s].status = s
          /\ [rows[i] EXCEPT !.status = s].turn = rows[i].turn
      BY <2>1 DEF Work!RunRow
    <3>3. rows[i].status = "claimed"
      BY <2>3
    <3> QED BY <2>3, <3>1, <3>2, <3>3
  <2> QED BY <2>1, <2>2, <2>3
<1>3. out \in [1..Len(rows) -> Work!RunRow]
  BY <1>1, <1>2 DEF Ended
<1>4. out \in Seq(Work!RunRow) /\ Len(out) = Len(rows)
  BY <1>3, Mapped
<1>5. s # "claimed"
  BY DEF Work!Terminal
<1>6. ASSUME NEW i \in 1..Len(rows)
      PROVE  /\ Work!ActiveRun(out[i]) => Work!ActiveRun(rows[i])
             /\ out[i].status = "completed" => out[i].turn = "completed"
             /\ rows[i].status # "claimed" => out[i].status = rows[i].status
  <2>1. CASE i \in C
    BY <1>2, <1>5, <2>1 DEF Work!ActiveRun
  <2>2. CASE i \notin C
    BY <1>2, <2>2 DEF Together
  <2> QED BY <2>1, <2>2
<1>7. RowsStep(rows, out)
  BY <1>1, <1>2, <1>4, <1>6 DEF RowsStep
<1> QED BY <1>2, <1>4, <1>6, <1>7

(* The turn of one run changes.                                            *)
LEMMA TurnRow ==
  ASSUME NEW row, NEW rows \in Seq(Work!RunRow), Together(row, rows), NEW i \in 1..Len(rows),
         NEW r \in Work!RunRow, r.status = rows[i].status, r.claimant = rows[i].claimant,
         r.lease = rows[i].lease, r.status = "completed" => r.turn = "completed"
  PROVE  /\ [rows EXCEPT ![i] = r] \in Seq(Work!RunRow) /\ Len([rows EXCEPT ![i] = r]) = Len(rows)
         /\ Together(row, [rows EXCEPT ![i] = r])
         /\ (rows[i].turn = "none" => r.turn = "none") /\ (r.turn = "live" => rows[i].turn = "live")
              => RowsStep(rows, [rows EXCEPT ![i] = r])
<1> DEFINE out == [rows EXCEPT ![i] = r]
<1>1. DOMAIN rows = 1..Len(rows) /\ Len(rows) \in Nat
  OBVIOUS
<1>2. out \in [1..Len(rows) -> Work!RunRow]
  BY <1>1
<1>3. out[i] = r /\ \A j \in 1..Len(rows) : j # i => out[j] = rows[j]
  BY <1>1
<1> HIDE DEF out
<1>4. out \in Seq(Work!RunRow) /\ Len(out) = Len(rows)
  BY <1>2, Mapped
<1>5. \A j \in 1..Len(rows) : /\ out[j].status = rows[j].status
                                 /\ out[j].claimant = rows[j].claimant
                              /\ out[j].lease = rows[j].lease
  BY <1>3
<1>6. \A j \in 1..Len(rows) : out[j].status = "completed" => out[j].turn = "completed"
  BY <1>3 DEF Together
<1>7. Together(row, out)
  BY <1>4, <1>5, <1>6, StaysClaimed
<1>8. (rows[i].turn = "none" => r.turn = "none") /\ (r.turn = "live" => rows[i].turn = "live")
        => RowsStep(rows, out)
  BY <1>1, <1>3, <1>4, <1>5 DEF RowsStep
<1> QED BY <1>4, <1>7, <1>8 DEF out

LEMMA StepsCompose ==
  ASSUME NEW rows \in Seq(Work!RunRow), NEW mid \in Seq(Work!RunRow), NEW out \in Seq(Work!RunRow),
         Len(mid) = Len(rows), RowsStep(rows, mid), RowsStep(mid, out)
  PROVE  RowsStep(rows, out)
BY DEF RowsStep

-----------------------------------------------------------------------------
(* Requests of the user *)

LEMMA CreateKeeps ==
  ASSUME Work!TaskAssumption, RunsInv, NEW t \in Tasks, NEW recurring \in BOOLEAN,
         NEW next \in {"null", "later"}, Work!Create(t, recurring, next)
  PROVE  Kept
<1> DEFINE new == [task[t] EXCEPT !.status = "pending", !.recurring = recurring, !.next = next]
<1>1. task' = [task EXCEPT ![t] = new] /\ runs' = runs /\ task[t].status = "none"
  BY DEF Work!Create
<1>2. task[t] \in Work!TaskRow /\ Together(task[t], runs[t]) /\ runs[t] \in Seq(Work!RunRow)
  BY RunsTypes
<1>3. new \in Work!TaskRow /\ new.status = "pending" /\ new.claims = task[t].claims
  BY <1>2 DEF Work!TaskRow
<1> HIDE DEF new
<1>4. Together(new, runs[t])
  BY <1>1, <1>2, <1>3 DEF Together
<1> QED BY <1>1, <1>3, <1>4, OneRow

LEMMA UpdateKeeps ==
  ASSUME Work!TaskAssumption, RunsInv, NEW t \in Tasks, NEW recurring \in BOOLEAN,
         NEW next \in {"null", "later"}, Work!Update(t, recurring, next)
  PROVE  Kept
<1> DEFINE n == IF task[t].paused THEN "null" ELSE next
           new == [task[t] EXCEPT !.recurring = recurring, !.next = n]
<1>2. task[t] \in Work!TaskRow /\ Together(task[t], runs[t]) /\ runs[t] \in Seq(Work!RunRow)
  BY RunsTypes
<1>3. n \in {"null", "later", "due"}
  OBVIOUS
<1>4. task' = [task EXCEPT ![t] = new]
  BY <1>2, RunsTypes DEF Work!Update
<1>5. runs' = runs /\ task[t].status # "claimed" /\ task[t].status # "failed"
  BY DEF Work!Update, Work!Terminal
<1> HIDE DEF n
<1>6. new \in Work!TaskRow /\ new.status = task[t].status /\ new.claims = task[t].claims
  BY <1>2, <1>3 DEF Work!TaskRow
<1> HIDE DEF new
<1>7. Together(new, runs[t])
  BY <1>2, <1>5, <1>6 DEF Together
<1> QED BY <1>4, <1>5, <1>6, <1>7, OneRow

LEMMA DeleteKeeps ==
  ASSUME Work!TaskAssumption, RunsInv, NEW t \in Tasks, Work!Delete(t)
  PROVE  Kept
<1> DEFINE new == [task[t] EXCEPT !.status = "deleted"]
<1>2. task[t] \in Work!TaskRow /\ Together(task[t], runs[t]) /\ runs[t] \in Seq(Work!RunRow)
  BY RunsTypes
<1>4. task' = [task EXCEPT ![t] = new] /\ runs' = runs
  BY <1>2, RunsTypes DEF Work!Delete
<1>6. new \in Work!TaskRow /\ new.status = "deleted"
  BY <1>2 DEF Work!TaskRow
<1> HIDE DEF new
<1>7. Together(new, runs[t])
  BY <1>2, <1>6 DEF Together
<1> QED BY <1>4, <1>6, <1>7, OneRow

LEMMA PauseKeeps ==
  ASSUME Work!TaskAssumption, RunsInv, NEW t \in Tasks, Work!Pause(t)
  PROVE  Kept
<1> DEFINE new == [task[t] EXCEPT !.paused = TRUE]
<1>2. task[t] \in Work!TaskRow /\ Together(task[t], runs[t]) /\ runs[t] \in Seq(Work!RunRow)
  BY RunsTypes
<1>4. task' = [task EXCEPT ![t] = new] /\ runs' = runs
  BY <1>2, RunsTypes DEF Work!Pause
<1>6. /\ new \in Work!TaskRow /\ new.status = task[t].status /\ new.claims = task[t].claims
      /\ new.claimant = task[t].claimant /\ new.lease = task[t].lease
      /\ new.recurring = task[t].recurring
  BY <1>2 DEF Work!TaskRow
<1> HIDE DEF new
<1>7. Together(new, runs[t])
  BY <1>2, <1>6 DEF Together
<1> QED BY <1>4, <1>6, <1>7, OneRow

LEMMA DueKeeps ==
  ASSUME Work!TaskAssumption, RunsInv, NEW t \in Tasks, Work!BecomesDue(t)
  PROVE  Kept
<1> DEFINE new == [task[t] EXCEPT !.next = "due"]
<1>2. task[t] \in Work!TaskRow /\ Together(task[t], runs[t]) /\ runs[t] \in Seq(Work!RunRow)
  BY RunsTypes
<1>4. task' = [task EXCEPT ![t] = new] /\ runs' = runs
  BY <1>2, RunsTypes DEF Work!BecomesDue
<1>6. /\ new \in Work!TaskRow /\ new.status = task[t].status /\ new.claims = task[t].claims
      /\ new.claimant = task[t].claimant /\ new.lease = task[t].lease
      /\ new.recurring = task[t].recurring
  BY <1>2 DEF Work!TaskRow
<1> HIDE DEF new
<1>7. Together(new, runs[t])
  BY <1>2, <1>6 DEF Together
<1> QED BY <1>4, <1>6, <1>7, OneRow

LEMMA ResumeKeeps ==
  ASSUME Work!TaskAssumption, RunsInv, NEW t \in Tasks, Work!Resume(t)
  PROVE  Kept
<1> DEFINE n == IF task[t].recurring THEN "later" ELSE task[t].next
           new == [task[t] EXCEPT !.status = "pending", !.paused = FALSE, !.claimant = 0,
                                  !.lease = Work!NoLease, !.claims = 0, !.next = n]
<1>2. task[t] \in Work!TaskRow /\ Together(task[t], runs[t]) /\ runs[t] \in Seq(Work!RunRow)
  BY RunsTypes
<1>3. n \in {"null", "later", "due"}
  BY <1>2, TaskFields
<1>4. task' = [task EXCEPT ![t] = new] /\ runs' = runs
  BY DEF Work!Resume
<1> HIDE DEF n
<1>6. new \in Work!TaskRow /\ new.status = "pending" /\ new.claims = 0
  BY <1>2, <1>3 DEF Work!TaskRow
<1> HIDE DEF new
<1>7. Together(new, runs[t])
  BY <1>2, <1>6 DEF Together
<1> QED BY <1>4, <1>6, <1>7, OneRow

LEMMA CancelKeeps ==
  ASSUME Work!TaskAssumption, RunsInv, NEW t \in Tasks, Work!Cancel(t)
  PROVE  Kept
<1> DEFINE new == [task[t] EXCEPT !.status = "cancelled", !.claimant = 0, !.lease = Work!NoLease,
                                  !.paused = TRUE]
           rows == runs[t]
           C == {i \in DOMAIN rows : rows[i].status = "claimed"}
           out == Ended(rows, C, "cancelled")
<1>2. task[t] \in Work!TaskRow /\ Together(task[t], rows) /\ rows \in Seq(Work!RunRow)
        /\ Len(rows) <= MaxRuns
  BY RunsTypes
<1>3. out = [i \in DOMAIN rows |-> Work!CancelledRun(rows[i])]
  BY DEF Work!CancelledRun, Ended
<1>4. task' = [task EXCEPT ![t] = new] /\ runs' = [runs EXCEPT ![t] = out]
  BY <1>3 DEF Work!Cancel
<1>6. new \in Work!TaskRow /\ new.status = "cancelled"
  BY <1>2 DEF Work!TaskRow, Work!Terminal
<1>7. "cancelled" \in Work!Terminal /\ \A i \in C \cap (1..Len(rows)) : rows[i].status = "claimed"
  BY DEF Work!Terminal
<1>8. /\ out \in Seq(Work!RunRow) /\ Len(out) = Len(rows) /\ RowsStep(rows, out)
      /\ \A i \in 1..Len(rows) : /\ Work!ActiveRun(out[i]) => Work!ActiveRun(rows[i])
                                 /\ out[i].status = "completed" => out[i].turn = "completed"
  <2>2. \A i \in C \cap (1..Len(rows)) :
          rows[i].status = "claimed" /\ ("cancelled" = "completed" => rows[i].turn = "completed")
    BY <1>7
  <2> HIDE DEF C, rows
  <2> QED BY <1>2, <1>7, <2>2, EndedRows
<1> HIDE DEF new, out
<1>9. Together(new, out)
  BY <1>2, <1>6, <1>8, Released
<1> QED BY <1>2, <1>4, <1>6, <1>8, <1>9, OneTask

-----------------------------------------------------------------------------
(* Runs that are settled *)

LEMMA FailedTask ==
  ASSUME Work!TaskAssumption, NEW row \in Work!TaskRow, NEW retryable \in BOOLEAN
  PROVE  /\ Work!FailedRow(row, retryable) \in Work!TaskRow
         /\ Work!FailedRow(row, retryable).status \in {"pending", "failed"}
         /\ Work!FailedRow(row, retryable).status = "pending" =>
                   Work!FailedRow(row, retryable).claims = 0
                       \/ Work!FailedRow(row, retryable).claims < MaxRetries
         /\ Work!FailedRow(row, retryable).recurring
             => Work!FailedRow(row, retryable).status # "failed"
<1> USE DEF Work!FailedRow
<1>1. CASE row.recurring
  <2>1. Work!NextAfter(row, row.next) \in {"null", "later", "due"}
    BY TaskFields DEF Work!NextAfter
  <2> QED BY <1>1, <2>1 DEF Work!TaskRow, Work!Terminal
<1>2. CASE ~row.recurring /\ retryable /\ row.claims < MaxRetries
  BY <1>2 DEF Work!TaskRow, Work!Terminal
<1>3. CASE ~row.recurring /\ ~(retryable /\ row.claims < MaxRetries)
  BY <1>3 DEF Work!TaskRow, Work!Terminal
<1> QED BY <1>1, <1>2, <1>3

LEMMA CompletedTask ==
  ASSUME NEW row \in Work!TaskRow
  PROVE  /\ Work!CompletedRow(row) \in Work!TaskRow
         /\ Work!CompletedRow(row).status \in {"pending", "completed"}
         /\ Work!CompletedRow(row).status = "pending" => Work!CompletedRow(row).claims = 0
<1> USE DEF Work!CompletedRow
<1>1. CASE row.recurring
  <2>1. Work!NextAfter(row, row.next) \in {"null", "later", "due"}
    BY TaskFields DEF Work!NextAfter
  <2> QED BY <1>1, <2>1 DEF Work!TaskRow, Work!Terminal
<1>2. CASE ~row.recurring
  BY <1>2 DEF Work!TaskRow, Work!Terminal
<1> QED BY <1>1, <1>2

LEMMA SettledTogether ==
  ASSUME Work!TaskAssumption, RunsInv, NEW t \in Tasks, NEW R, NEW s \in {"failed", "completed"},
         \A i \in R \cap (1..Len(runs[t])) : s = "completed" => runs[t][i].turn = "completed",
         NEW new \in Work!TaskRow, new.status \notin {"claimed", "none"},
         new.status = "pending" => new.claims = 0 \/ new.claims < MaxRetries,
         new.recurring => new.status # "failed"
  PROVE  \E out \in Seq(Work!RunRow) :
           /\ Work!SettledRuns(t, R, s) = [runs EXCEPT ![t] = out]
           /\ Len(out) = Len(runs[t]) /\ Together(new, out) /\ RowsStep(runs[t], out)
           /\ \A i \in 1..Len(runs[t]) : out[i].turn = runs[t][i].turn
<1> DEFINE rows == runs[t]
           C == {i \in R : i \in DOMAIN rows /\ Work!Mine(rows[i])}
           out == Ended(rows, C, s)
<1>1. task[t] \in Work!TaskRow /\ Together(task[t], rows) /\ rows \in Seq(Work!RunRow)
  BY RunsTypes
<1>2. Work!SettledRuns(t, R, s) = [runs EXCEPT ![t] = out]
  <2>1. out = [i \in DOMAIN rows |->
                 IF i \in R /\ Work!Mine(rows[i]) THEN [rows[i] EXCEPT !.status = s] ELSE rows[i]]
    BY DEF Ended
  <2> HIDE DEF out
  <2> QED BY <2>1 DEF Work!SettledRuns
<1>3. \A i \in C \cap (1..Len(rows)) :
        rows[i].status = "claimed" /\ (s = "completed" => rows[i].turn = "completed")
  BY DEF Work!Mine
<1>4. s \in Work!Terminal
  BY DEF Work!Terminal
<1>5. /\ out \in Seq(Work!RunRow) /\ Len(out) = Len(rows) /\ RowsStep(rows, out)
      /\ \A i \in 1..Len(rows) : /\ Work!ActiveRun(out[i]) => Work!ActiveRun(rows[i])
                                 /\ out[i].status = "completed" => out[i].turn = "completed"
                                 /\ out[i].turn = rows[i].turn
  <2> HIDE DEF C, rows
  <2> QED BY <1>1, <1>3, <1>4, EndedRows
<1> HIDE DEF out
<1>6. Together(new, out)
  BY <1>1, <1>5, Released
<1> QED BY <1>2, <1>5, <1>6

LEMMA FailedTogether ==
  ASSUME Work!TaskAssumption, RunsInv, NEW t \in Tasks, NEW R, NEW new \in Work!TaskRow,
         new.status \in {"pending", "failed"},
         new.status = "pending" => new.claims = 0 \/ new.claims < MaxRetries,
         new.recurring => new.status # "failed"
  PROVE  \E out \in Seq(Work!RunRow) :
           /\ Work!SettledRuns(t, R, "failed") = [runs EXCEPT ![t] = out]
           /\ Len(out) = Len(runs[t]) /\ Together(new, out) /\ RowsStep(runs[t], out)
           /\ \A i \in 1..Len(runs[t]) : out[i].turn = runs[t][i].turn
BY SettledTogether

LEMMA FailKeeps ==
  ASSUME Work!TaskAssumption, RunsInv, NEW t \in Tasks, NEW R, NEW retryable \in BOOLEAN,
         Work!Fail(t, R, retryable)
  PROVE  Kept
<1>1. CASE Work!Mine(task[t]) /\ task[t].lease = "live"
  <2> DEFINE new == Work!FailedRow(task[t], retryable)
  <2>1. task' = [task EXCEPT ![t] = new] /\ runs' = Work!SettledRuns(t, R, "failed")
    BY <1>1 DEF Work!Fail
  <2>2. task[t] \in Work!TaskRow /\ Len(runs[t]) <= MaxRuns
    BY RunsTypes
  <2>3. /\ new \in Work!TaskRow /\ new.status \in {"pending", "failed"}
        /\ new.status = "pending" => new.claims = 0 \/ new.claims < MaxRetries
        /\ new.recurring => new.status # "failed"
    BY <2>2, FailedTask
  <2> HIDE DEF new
  <2>4. PICK out \in Seq(Work!RunRow) :
          /\ Work!SettledRuns(t, R, "failed") = [runs EXCEPT ![t] = out]
          /\ Len(out) = Len(runs[t]) /\ Together(new, out) /\ RowsStep(runs[t], out)
    BY <2>3, FailedTogether
  <2> QED BY <2>1, <2>2, <2>3, <2>4, OneTask
<1>2. CASE ~(Work!Mine(task[t]) /\ task[t].lease = "live")
  <2>1. task' = task /\ runs' = runs
    BY <1>2 DEF Work!Fail
  <2> QED BY <2>1, Nothing
<1> QED BY <1>1, <1>2

LEMMA CompleteKeeps ==
  ASSUME Work!TaskAssumption, RunsInv, NEW t \in Tasks, NEW n \in 1..Len(runs[t]),
         runs[t][n].turn = "completed", Work!Complete(t, n)
  PROVE  Kept
<1>1. CASE Work!MayComplete(t, n)
  <2> DEFINE new == Work!CompletedRow(task[t])
  <2>1. task' = [task EXCEPT ![t] = new] /\ runs' = Work!SettledRuns(t, {n}, "completed")
    BY <1>1 DEF Work!Complete
  <2>2. task[t] \in Work!TaskRow /\ Len(runs[t]) <= MaxRuns
    BY RunsTypes
  <2>3. /\ new \in Work!TaskRow /\ new.status \in {"pending", "completed"}
        /\ new.status = "pending" => new.claims = 0
    BY <2>2, CompletedTask
  <2> HIDE DEF new
  <2>4. PICK out \in Seq(Work!RunRow) :
          /\ Work!SettledRuns(t, {n}, "completed") = [runs EXCEPT ![t] = out]
          /\ Len(out) = Len(runs[t]) /\ Together(new, out) /\ RowsStep(runs[t], out)
    <3>1. \A i \in {n} \cap (1..Len(runs[t])) : "completed" = "completed"
            => runs[t][i].turn = "completed"
      OBVIOUS
    <3>2. new.status \notin {"claimed", "none"} /\ new.status # "failed"
      BY <2>3
    <3> QED BY <2>3, <3>1, <3>2, SettledTogether
  <2> QED BY <2>1, <2>2, <2>3, <2>4, OneTask
<1>2. CASE ~Work!MayComplete(t, n)
  <2>1. task' = task /\ runs' = runs
    BY <1>2 DEF Work!Complete
  <2> QED BY <2>1, Nothing
<1> QED BY <1>1, <1>2

(* The turn of a run ends.                                                 *)
LEMMA TurnKeeps ==
  ASSUME Work!TaskAssumption, RunsInv, NEW t \in Tasks, NEW i \in 1..Len(runs[t]),
         NEW r \in Work!RunRow,
         runs[t][i].turn = "live", r.status = runs[t][i].status,
         r.claimant = runs[t][i].claimant, r.lease = runs[t][i].lease,
         runs' = [runs EXCEPT ![t] = [runs[t] EXCEPT ![i] = r]], task' = task
  PROVE  Kept
<1>1. task[t] \in Work!TaskRow /\ Together(task[t], runs[t]) /\ runs[t] \in Seq(Work!RunRow)
        /\ Len(runs[t]) <= MaxRuns
  BY RunsTypes
<1>2. r.status # "completed"
  BY <1>1 DEF Together
<1> DEFINE out == [runs[t] EXCEPT ![i] = r]
<1>3. out \in Seq(Work!RunRow) /\ Len(out) = Len(runs[t]) /\ Together(task[t], out)
        /\ RowsStep(runs[t], out)
  BY <1>1, <1>2, TurnRow
<1>4. task' = [task EXCEPT ![t] = task[t]]
  BY RunsTypes
<1> HIDE DEF out
<1>5. runs' = [runs EXCEPT ![t] = out]
  BY DEF out
<1> QED BY <1>1, <1>3, <1>4, <1>5, OneTask

LEMMA TurnEndsKeeps ==
  ASSUME Work!TaskAssumption, RunsInv, NEW t \in Tasks, NEW i \in DOMAIN runs[t],
         NEW outcome \in {"completed", "failed"}, Work!TurnEnds(t, i, outcome)
  PROVE  Kept
<1> DEFINE r == [runs[t][i] EXCEPT !.turn = outcome, !.inLease = (task[t].lease = "live")]
<1>1. i \in 1..Len(runs[t]) /\ runs[t][i] \in Work!RunRow /\ runs[t] \in Seq(Work!RunRow)
  BY RunsTypes
<1>2. /\ r \in Work!RunRow /\ r.status = runs[t][i].status /\ r.claimant = runs[t][i].claimant
      /\ r.lease = runs[t][i].lease
  BY <1>1 DEF Work!RunRow
<1>3. runs' = [runs EXCEPT ![t] = [runs[t] EXCEPT ![i] = r]]
  BY <1>1, RunsTypes DEF Work!TurnEnds
<1>4. task' = task /\ runs[t][i].turn = "live"
  BY DEF Work!TurnEnds
<1> HIDE DEF r
<1> QED BY <1>1, <1>2, <1>3, <1>4, TurnKeeps

LEMMA CancelledTurn ==
  ASSUME Work!TaskAssumption, RunsInv, worker.pc = "wait", Work!Turn = "live",
         runs' = Work!CancelledRuns(worker.task, worker.run), task' = task
  PROVE  Kept
<1> DEFINE t == worker.task
           i == worker.run
           r == [runs[t][i] EXCEPT !.turn = "failed"]
<1>1. t \in Tasks /\ i \in 1..Len(runs[t]) /\ runs[t][i].turn = "live"
  BY WorkerFields DEF RunsInv, AtWork, Work!Turn
<1>2. runs[t] \in Seq(Work!RunRow) /\ runs[t][i] \in Work!RunRow
  BY <1>1, RunsTypes
<1>3. /\ r \in Work!RunRow /\ r.status = runs[t][i].status /\ r.claimant = runs[t][i].claimant
      /\ r.lease = runs[t][i].lease
  BY <1>2 DEF Work!RunRow
<1>4. runs' = [runs EXCEPT ![t] = [runs[t] EXCEPT ![i] = r]]
  BY <1>1, <1>2, RunsTypes DEF Work!CancelledRuns
<1> HIDE DEF r, t, i
<1> QED BY <1>1, <1>2, <1>3, <1>4, TurnKeeps

LEMMA TurnFailed ==
  ASSUME Work!TaskAssumption, RunsInv, worker.pc = "wait", runs' = Work!CancelledRuns(worker.task,
         worker.run)
  PROVE  runs'[worker.task][worker.run].turn = "failed"
<1> DEFINE t == worker.task
           n == worker.run
<1>1. t \in Tasks /\ n \in 1..Len(runs[t])
  BY WorkerFields DEF RunsInv, AtWork
<1>2. runs[t] \in Seq(Work!RunRow) /\ runs[t][n] \in Work!RunRow
  BY <1>1, RunsTypes
<1>3. runs' = [runs EXCEPT ![t] = [runs[t] EXCEPT ![n] = [runs[t][n] EXCEPT !.turn = "failed"]]]
  BY <1>1, <1>2, RunsTypes DEF Work!CancelledRuns
<1> HIDE DEF t, n
<1>4. runs'[t][n] = [runs[t][n] EXCEPT !.turn = "failed"]
  BY <1>1, <1>2, <1>3, RunsTypes
<1>5. runs'[t][n].turn = "failed"
  BY <1>2, <1>4 DEF Work!RunRow
<1> QED BY <1>5 DEF t, n

LEMMA TimeoutKeeps ==
  ASSUME Work!TaskAssumption, RunsInv, NEW fails \in BOOLEAN, Work!Timeout(fails)
  PROVE  Kept /\ (~fails => runs'[worker.task][worker.run].turn = "failed")
<1> DEFINE t == worker.task
           n == worker.run
<1>1. t \in Tasks /\ n \in 1..Len(runs[t]) /\ runs[t][n].turn = "live" /\ worker.pc = "wait"
  BY WorkerFields DEF RunsInv, AtWork, Work!Turn, Work!Timeout
<1>2. runs[t] \in Seq(Work!RunRow) /\ Len(runs[t]) <= MaxRuns /\ task[t] \in Work!TaskRow
  BY <1>1, RunsTypes
<1>3. CASE Work!Mine(task[t]) /\ task[t].lease = "live"
  <2> DEFINE b == t \notin Scripts
             new == Work!FailedRow(task[t], b)
  <2>1. /\ task' = [task EXCEPT ![t] = new]
        /\ runs' = [Work!SettledRuns(t, {n}, "failed") EXCEPT
                           ![t][n].turn = IF fails THEN @ ELSE "failed"]
    BY <1>3 DEF Work!Timeout
  <2>2. b \in BOOLEAN
    OBVIOUS
  <2> HIDE DEF b
  <2>3. /\ new \in Work!TaskRow /\ new.status \in {"pending", "failed"}
        /\ new.status = "pending" => new.claims = 0 \/ new.claims < MaxRetries
        /\ new.recurring => new.status # "failed"
    BY <1>2, <2>2, FailedTask
  <2> HIDE DEF new, t, n
  <2>4. PICK mid \in Seq(Work!RunRow) :
          /\ Work!SettledRuns(t, {n}, "failed") = [runs EXCEPT ![t] = mid]
          /\ Len(mid) = Len(runs[t]) /\ Together(new, mid) /\ RowsStep(runs[t], mid)
          /\ \A i \in 1..Len(runs[t]) : mid[i].turn = runs[t][i].turn
    <3>1. \A R : \E out \in Seq(Work!RunRow) :
            /\ Work!SettledRuns(t, R, "failed") = [runs EXCEPT ![t] = out]
            /\ Len(out) = Len(runs[t]) /\ Together(new, out) /\ RowsStep(runs[t], out)
            /\ \A i \in 1..Len(runs[t]) : out[i].turn = runs[t][i].turn
      BY <1>1, <2>3, FailedTogether
    <3> QED BY <3>1
  <2> DEFINE u == IF fails THEN "live" ELSE "failed"
             r == [mid[n] EXCEPT !.turn = u]
             out == [mid EXCEPT ![n] = r]
  <2>5. mid[n] \in Work!RunRow /\ mid[n].turn = "live" /\ n \in 1..Len(mid)
          /\ mid[n].status # "completed"
    BY <1>1, <2>4 DEF Together
  <2>6. runs' = [runs EXCEPT ![t] = out]
    <3>1. runs' = [[runs EXCEPT ![t] = mid] EXCEPT ![t][n].turn = IF fails THEN @ ELSE "failed"]
      BY <2>1, <2>4
    <3> QED BY <1>1, <2>4, <2>5, <3>1, RunsTypes
  <2>7. u \in {"none", "live", "completed", "failed"}
    OBVIOUS
  <2> HIDE DEF u
  <2>8. /\ r \in Work!RunRow /\ r.status = mid[n].status /\ r.claimant = mid[n].claimant
        /\ r.lease = mid[n].lease /\ r.turn = u
    BY <2>5, <2>7 DEF Work!RunRow
  <2> HIDE DEF r
  <2>9. /\ out \in Seq(Work!RunRow) /\ Len(out) = Len(mid) /\ Together(new, out)
        /\ (mid[n].turn = "none" => r.turn = "none") /\ (r.turn = "live" => mid[n].turn = "live")
             => RowsStep(mid, out)
    BY <2>4, <2>5, <2>8, TurnRow
  <2>11. out[n] = r
    BY <2>5
  <2> HIDE DEF out
  <2>10. RowsStep(runs[t], out)
    BY <1>2, <2>4, <2>5, <2>9, StepsCompose
  <2>12. runs'[t] = out
    BY <1>1, <2>6, RunsTypes
  <2>13. Kept
    BY <1>1, <1>2, <2>1, <2>3, <2>4, <2>6, <2>9, <2>10, OneTask
  <2>14. ~fails => runs'[t][n].turn = "failed"
    BY <2>8, <2>11, <2>12 DEF u
  <2> QED BY <2>13, <2>14 DEF t, n
<1>4. CASE ~(Work!Mine(task[t]) /\ task[t].lease = "live")
  <2>1. task' = task /\ runs' = IF fails THEN runs ELSE Work!CancelledRuns(worker.task, worker.run)
    BY <1>4 DEF Work!Timeout
  <2>2. Work!Turn = "live"
    BY DEF Work!Timeout
  <2>3. CASE fails
    BY <2>1, <2>3, Nothing
  <2>4. CASE ~fails
    <3>1. runs' = Work!CancelledRuns(worker.task, worker.run)
      BY <2>1, <2>4
    <3> QED BY <1>1, <2>1, <2>2, <3>1, CancelledTurn, TurnFailed
  <2> QED BY <2>3, <2>4
<1> QED BY <1>3, <1>4

LEMMA LeaseExpiresKeeps ==
  ASSUME Work!TaskAssumption, RunsInv, NEW t \in Tasks, NEW i \in DOMAIN runs[t],
         Work!LeaseExpires(t, i)
  PROVE  Kept
<1> DEFINE rows == runs[t]
           r == [rows[i] EXCEPT !.lease = "expired"]
           out == [rows EXCEPT ![i] = r]
           l == IF task[t].lease = "live" THEN "expired" ELSE task[t].lease
           new == [task[t] EXCEPT !.lease = l]
<1>1. /\ task[t] \in Work!TaskRow /\ Together(task[t], rows) /\ rows \in Seq(Work!RunRow)
         /\ Len(rows) <= MaxRuns
      /\ DOMAIN rows = 1..Len(rows) /\ i \in 1..Len(rows) /\ rows[i] \in Work!RunRow
          /\ Len(rows) \in Nat
  BY RunsTypes
<1>2. Work!ActiveRun(rows[i])
  BY DEF Work!LeaseExpires
<1>3. runs' = [runs EXCEPT ![t] = out] /\ task' = [task EXCEPT ![t] = new]
  BY <1>1, RunsTypes DEF Work!LeaseExpires
<1>4. l \in {"none", "live", "expired"}
  BY <1>1, TaskFields
<1> HIDE DEF l
<1>5. /\ new \in Work!TaskRow /\ new.status = task[t].status /\ new.claims = task[t].claims
      /\ new.claimant = task[t].claimant /\ new.lease = l /\ new.recurring = task[t].recurring
  BY <1>1, <1>4 DEF Work!TaskRow, Work!NoLease
<1>6. /\ r \in Work!RunRow /\ r.status = rows[i].status /\ r.claimant = rows[i].claimant
      /\ r.lease = "expired" /\ r.turn = rows[i].turn
  BY <1>1 DEF Work!RunRow
<1> HIDE DEF rows, r, new
<1>7. out \in [1..Len(rows) -> Work!RunRow]
  BY <1>1, <1>6
<1>8. out[i] = r /\ \A j \in 1..Len(rows) : j # i => out[j] = rows[j]
  BY <1>1
<1> HIDE DEF out
<1>9. out \in Seq(Work!RunRow) /\ Len(out) = Len(rows)
  BY <1>1, <1>7, Mapped
<1>10. i = Len(rows)
  BY <1>1, <1>2 DEF Together
<1>11. Together(new, out)
  <2>1. \A j \in 1..Len(rows) : /\ ~Work!ActiveRun(out[j])
                                /\ out[j].status = "completed" => out[j].turn = "completed"
    <3>1. ~Work!ActiveRun(r) /\ (r.status = "completed" => r.turn = "completed")
      BY <1>1, <1>6 DEF Together, Work!ActiveRun
    <3>2. \A j \in 1..Len(rows) : j # i => ~Work!ActiveRun(rows[j])
      BY <1>1, <1>10 DEF Together
    <3>3. \A j \in 1..Len(rows) : rows[j].status = "completed" => rows[j].turn = "completed"
      BY <1>1 DEF Together
    <3> QED BY <1>8, <3>1, <3>2, <3>3
  <2>2. task[t].status = "claimed" =>
          /\ Len(out) > 0 /\ out[Len(out)].status = "claimed" /\ l = "expired"
          /\ out[Len(out)].claimant = task[t].claimant /\ out[Len(out)].lease = "expired"
    BY <1>1, <1>2, <1>6, <1>8, <1>9, <1>10 DEF Together, Work!ActiveRun, l
  <2> QED BY <1>1, <1>5, <1>9, <2>1, <2>2 DEF Together
<1>12. RowsStep(rows, out)
  BY <1>1, <1>6, <1>8, <1>9 DEF RowsStep
<1> QED BY <1>1, <1>3, <1>5, <1>9, <1>11, <1>12, OneTask DEF rows

-----------------------------------------------------------------------------
(* Claims *)

LEMMA TickKeeps ==
  ASSUME Work!TaskAssumption, RunsInv, NEW t \in Tasks, Work!Tick(t)
  PROVE  Kept /\ Len(runs'[t]) = Len(runs[t]) + 1 /\ runs'[t][Len(runs[t]) + 1].turn = "none"
<1> DEFINE row == Work!RecoveredTasks[t]
           rows == Work!RecoveredRuns[t]
           n == IF row.recurring THEN "later" ELSE row.next
           new == Work!ClaimedRow(row, n)
           out == Append(rows, Work!NewRun)
<1>1. /\ row \in Work!TaskRow /\ rows \in Seq(Work!RunRow) /\ Len(rows) = Len(runs[t])
      /\ DOMAIN rows = 1..Len(rows) /\ Together(row, rows) /\ RowsStep(runs[t], rows)
  BY RecoveredKept
<1>2. n \in {"null", "later", "due"}
  BY <1>1, TaskFields
<1>3. task' = [Work!RecoveredTasks EXCEPT ![t] = new]
        /\ runs' = [Work!RecoveredRuns EXCEPT ![t] = out]
  BY DEF Work!Tick
<1>4. \A i \in 1..Len(rows) : ~Work!ActiveRun(rows[i])
  BY <1>1 DEF Work!Tick, Work!Claimable
<1>5. Len(runs[t]) < MaxRuns /\ Len(runs[t]) \in Nat /\ runs[t] \in Seq(Work!RunRow)
        /\ MaxRuns \in Nat
  BY RunsTypes DEF Work!Tick
<1> HIDE DEF row, rows, n
<1>6. /\ new \in Work!TaskRow /\ out \in Seq(Work!RunRow) /\ Together(new, out)
         /\ RowsStep(rows, out)
      /\ Len(out) = Len(rows) + 1 /\ out[Len(rows) + 1].turn = "none"
  BY <1>1, <1>2, <1>4, ClaimTogether
<1> HIDE DEF new, out
<1>7. Work!RecoveredTasks \in [Tasks -> Work!TaskRow]
        /\ Work!RecoveredRuns \in [Tasks -> Seq(Work!RunRow)]
  <2>1. \A s \in Tasks : Work!RecoveredTasks[s] \in Work!TaskRow
          /\ Work!RecoveredRuns[s] \in Seq(Work!RunRow)
    BY RecoveredKept
  <2>2. Work!RecoveredTasks \in [Tasks -> Work!TaskRow]
    BY <2>1 DEF Work!RecoveredTasks
  <2> QED BY <2>1, <2>2 DEF Work!RecoveredRuns
<1>8. task' \in [Tasks -> Work!TaskRow] /\ runs' \in [Tasks -> Seq(Work!RunRow)]
  BY <1>3, <1>6, <1>7
<1>9. task'[t] = new /\ runs'[t] = out
  BY <1>3, <1>7
<1>10. ASSUME NEW s \in Tasks
       PROVE  /\ Len(runs'[s]) <= MaxRuns /\ Together(task'[s], runs'[s])
              /\ RowsStep(runs[s], runs'[s])
  <2>1. CASE s = t
    <3>1. RowsStep(runs[t], out)
      BY <1>1, <1>5, <1>6, StepsCompose
    <3>2. Len(out) <= MaxRuns
      BY <1>1, <1>5, <1>6
    <3> QED BY <1>6, <1>9, <2>1, <3>1, <3>2
  <2>2. CASE s # t
    <3>1. task'[s] = Work!RecoveredTasks[s] /\ runs'[s] = Work!RecoveredRuns[s]
      BY <1>3, <1>7, <2>2
    <3> QED BY <3>1, RecoveredKept, RunsTypes
  <2> QED BY <2>1, <2>2
<1>11. Kept
  BY <1>8, <1>10 DEF Kept
<1> QED BY <1>1, <1>6, <1>9, <1>11

LEMMA RunNowKeeps ==
  ASSUME Work!TaskAssumption, RunsInv, NEW t \in Tasks, Work!RunNow(t)
  PROVE  Kept /\ Len(runs'[t]) = Len(runs[t]) + 1 /\ runs'[t][Len(runs[t]) + 1].turn = "none"
<1> DEFINE row == task[t]
           rows == runs[t]
           n == row.next
           new == Work!ClaimedRow(row, n)
           out == Append(rows, Work!NewRun)
<1>1. /\ row \in Work!TaskRow /\ rows \in Seq(Work!RunRow) /\ Len(rows) \in Nat
      /\ DOMAIN rows = 1..Len(rows) /\ Together(row, rows)
  BY RunsTypes
<1>2. n \in {"null", "later", "due"}
  BY <1>1, TaskFields
<1>3. task' = [task EXCEPT ![t] = new] /\ runs' = [runs EXCEPT ![t] = out]
  BY DEF Work!RunNow
<1>4. \A i \in 1..Len(rows) : ~Work!ActiveRun(rows[i])
  BY <1>1 DEF Work!RunNow, Work!Active
<1>5. Len(rows) < MaxRuns /\ MaxRuns \in Nat
  BY RunsTypes DEF Work!RunNow
<1> HIDE DEF row, rows, n
<1>6. /\ new \in Work!TaskRow /\ out \in Seq(Work!RunRow) /\ Together(new, out)
         /\ RowsStep(rows, out)
      /\ Len(out) = Len(rows) + 1 /\ out[Len(rows) + 1].turn = "none"
  BY <1>1, <1>2, <1>4, ClaimTogether
<1> HIDE DEF new, out
<1>7. Len(out) <= MaxRuns
  BY <1>1, <1>5, <1>6
<1>8. Kept
  BY <1>3, <1>6, <1>7, OneTask DEF rows
<1>9. runs'[t] = out
  BY <1>3, RunsTypes
<1> QED BY <1>6, <1>8, <1>9 DEF rows

-----------------------------------------------------------------------------
(* The invariant *)

(* A step that keeps the rows and leaves the execution alone or ends it.   *)
LEMMA KeptAtWork ==
  ASSUME Work!TaskAssumption, RunsInv, Kept, worker' \in WorkerSet,
         ops' \in 0..MaxOps, restarts' \in 0..MaxRestarts,
         \/ worker'.pc = "idle"
         \/ worker'.pc = worker.pc /\ worker'.task = worker.task /\ worker'.run = worker.run,
         worker'.state \in {"down", "stopping", "stopped"} => restarts' < MaxRestarts
  PROVE  RunsInv'
<1>1. RunsTyped'
  BY DEF RunsTyped, Kept
<1>2. \A t \in Tasks : Together(task'[t], runs'[t])
  BY DEF Kept
<1>3. AtWork'
  <2>1. CASE worker'.pc = "idle"
    BY <2>1 DEF AtWork
  <2>2. CASE worker'.pc = worker.pc /\ worker'.task = worker.task /\ worker'.run = worker.run
    <3> DEFINE t == worker.task
               n == worker.run
    <3>1. t \in Tasks /\ n \in Nat
      BY WorkerFields
    <3>2. RowsStep(runs[t], runs'[t]) /\ Len(runs[t]) \in Nat /\ Len(runs'[t]) \in Nat
      BY <3>1, RunsTypes DEF Kept
    <3>3. worker.pc # "idle" => n \in 1..Len(runs[t]) /\ n \in 1..Len(runs'[t])
      BY <3>1, <3>2 DEF RowsStep, RunsInv, AtWork
    <3>4. worker.pc = "start" => runs'[t][n].turn = "none"
      BY <3>2, <3>3 DEF RowsStep, RunsInv, AtWork, Work!Turn
    <3> QED BY <2>2, <3>3, <3>4 DEF AtWork, Work!Turn
  <2> QED BY <2>1, <2>2
<1> QED BY <1>1, <1>2, <1>3 DEF RunsInv

(* A claim, and the execution that begins.                                 *)
LEMMA KeptClaim ==
  ASSUME Work!TaskAssumption, RunsInv, NEW t \in Tasks, Kept, Work!Execute(t, Len(runs[t]) + 1),
         Len(runs'[t]) = Len(runs[t]) + 1, runs'[t][Len(runs[t]) + 1].turn = "none",
         ops' \in 0..MaxOps, restarts' = restarts
  PROVE  RunsInv'
<1>1. Len(runs[t]) \in Nat
  BY RunsTypes
<1>2. /\ worker' \in WorkerSet /\ worker'.state = worker.state /\ worker'.task = t
      /\ worker'.run = Len(runs[t]) + 1 /\ worker'.pc = "start"
  <2> DEFINE n == Len(runs[t]) + 1
  <2>1. n \in Nat /\ worker \in WorkerSet
    BY <1>1, RunsTypes
  <2>2. worker' = [worker EXCEPT !.pc = "start", !.task = t, !.run = n, !.aborted = FALSE]
    BY DEF Work!Execute
  <2> HIDE DEF n
  <2>3. /\ worker' \in WorkerSet /\ worker'.state = worker.state /\ worker'.task = t
        /\ worker'.run = n /\ worker'.pc = "start"
    BY <2>1, <2>2 DEF WorkerSet
  <2> QED BY <2>3 DEF n
<1>3. RunsTyped'
  BY <1>2, RunsTypes DEF RunsTyped, Kept
<1>4. \A s \in Tasks : Together(task'[s], runs'[s])
  BY DEF Kept
<1>5. AtWork'
  BY <1>1, <1>2 DEF AtWork, Work!Turn, RunsInv
<1> QED BY <1>3, <1>4, <1>5 DEF RunsInv

(* What the execution that is to be ended does to the worker.              *)
LEMMA IdleWorker ==
  ASSUME Work!TaskAssumption, RunsInv
  PROVE  Work!Idle(worker) \in WorkerSet /\ Work!Idle(worker).pc = "idle"
         /\ Work!Idle(worker).state = worker.state
BY RunsTypes DEF Work!Idle, WorkerSet

LEMMA Ends ==
  ASSUME Work!TaskAssumption, RunsInv, Kept, worker' = Work!Idle(worker), ops' = ops,
         restarts' = restarts
  PROVE  RunsInv'
<1>1. worker.state \in {"down", "stopping", "stopped"} => restarts < MaxRestarts
  BY DEF RunsInv, AtWork
<1> QED BY <1>1, IdleWorker, RunsTypes, KeptAtWork

LEMMA Stays ==
  ASSUME Work!TaskAssumption, RunsInv, Kept, worker' = worker, ops' \in 0..MaxOps,
         restarts' = restarts
  PROVE  RunsInv'
<1>1. worker.state \in {"down", "stopping", "stopped"} => restarts < MaxRestarts
  BY DEF RunsInv, AtWork
<1> QED BY <1>1, RunsTypes, KeptAtWork

LEMMA Requested ==
  ASSUME Work!TaskAssumption, RunsInv, Work!Request
  PROVE  ops' \in 0..MaxOps
BY RunsTypes DEF Work!Request

LEMMA UserInv ==
  ASSUME Work!TaskAssumption, RunsInv, Work!UserStep
  PROVE  RunsInv' /\ Kept
<1>1. PICK t \in Tasks :
        \/ \E recurring \in BOOLEAN, next \in {"null", "later"} :
             Work!Create(t, recurring, next) \/ Work!Update(t, recurring, next)
        \/ Work!Cancel(t) \/ Work!Delete(t) \/ Work!Pause(t) \/ Work!Resume(t) \/ Work!RunNow(t)
  BY DEF Work!UserStep
<1>2. ASSUME NEW recurring \in BOOLEAN, NEW next \in {"null", "later"},
             Work!Create(t, recurring, next)
      PROVE  RunsInv' /\ Kept
  <2>1. worker' = worker /\ restarts' = restarts /\ Work!Request
    BY <1>2 DEF Work!Create
  <2> QED BY <1>2, <2>1, CreateKeeps, Requested, Stays
<1>3. ASSUME NEW recurring \in BOOLEAN, NEW next \in {"null", "later"},
             Work!Update(t, recurring, next)
      PROVE  RunsInv' /\ Kept
  <2>1. worker' = worker /\ restarts' = restarts /\ Work!Request
    BY <1>3 DEF Work!Update
  <2> QED BY <1>3, <2>1, UpdateKeeps, Requested, Stays
<1>4. CASE Work!Cancel(t)
  <2>1. worker' = worker /\ restarts' = restarts /\ Work!Request
    BY <1>4 DEF Work!Cancel
  <2> QED BY <1>4, <2>1, CancelKeeps, Requested, Stays
<1>5. CASE Work!Delete(t)
  <2>1. worker' = worker /\ restarts' = restarts /\ Work!Request
    BY <1>5 DEF Work!Delete
  <2> QED BY <1>5, <2>1, DeleteKeeps, Requested, Stays
<1>6. CASE Work!Pause(t)
  <2>1. worker' = worker /\ restarts' = restarts /\ Work!Request
    BY <1>6 DEF Work!Pause
  <2> QED BY <1>6, <2>1, PauseKeeps, Requested, Stays
<1>7. CASE Work!Resume(t)
  <2>1. worker' = worker /\ restarts' = restarts /\ Work!Request
    BY <1>7 DEF Work!Resume
  <2> QED BY <1>7, <2>1, ResumeKeeps, Requested, Stays
<1>8. CASE Work!RunNow(t)
  <2>1. restarts' = restarts /\ Work!Request /\ Work!Execute(t, Len(runs[t]) + 1)
    BY <1>8 DEF Work!RunNow
  <2>2. Kept /\ Len(runs'[t]) = Len(runs[t]) + 1 /\ runs'[t][Len(runs[t]) + 1].turn = "none"
    BY <1>8, RunNowKeeps
  <2> QED BY <2>1, <2>2, Requested, KeptClaim
<1> QED BY <1>1, <1>2, <1>3, <1>4, <1>5, <1>6, <1>7, <1>8

LEMMA PollKeeps ==
  ASSUME Work!TaskAssumption, RunsInv, Work!Poll
  PROVE  Kept
<1> DEFINE t == worker.task
           n == worker.run
           b == t \notin Scripts
<1>1. t \in Tasks /\ n \in 1..Len(runs[t]) /\ Work!Turn = runs[t][n].turn /\ b \in BOOLEAN
  BY WorkerFields DEF RunsInv, AtWork, Work!Turn, Work!Poll
<1>2. \/ task' = task /\ runs' = runs
      \/ Work!Turn = "completed" /\ Work!Complete(t, n)
      \/ Work!Fail(t, {n}, b)
  BY DEF Work!Poll
<1> HIDE DEF t, n, b
<1>3. CASE task' = task /\ runs' = runs
  BY <1>3, Nothing
<1>4. CASE Work!Turn = "completed" /\ Work!Complete(t, n)
  BY <1>1, <1>4, CompleteKeeps
<1>5. CASE Work!Fail(t, {n}, b)
  BY <1>1, <1>5, FailKeeps
<1> QED BY <1>2, <1>3, <1>4, <1>5

(* The dispatch: the turn of the run begins.                               *)
LEMMA DispatchInv ==
  ASSUME Work!TaskAssumption, RunsInv, Work!Dispatch
  PROVE  /\ RunsInv' /\ worker' = [worker EXCEPT !.pc = "wait"]
         /\ worker.task \in Tasks /\ worker.run \in 1..Len(runs[worker.task])
         /\ \A s \in Tasks :
              /\ Len(runs'[s]) = Len(runs[s])
              /\ \A i \in 1..Len(runs[s]) :
                   /\ runs'[s][i].status = runs[s][i].status
                   /\ runs'[s][i].turn = "live" =>
                        runs[s][i].turn = "live" \/ (s = worker.task /\ i = worker.run)
<1> DEFINE t == worker.task
           n == worker.run
           r == [runs[t][n] EXCEPT !.turn = "live"]
           out == [runs[t] EXCEPT ![n] = r]
<1>1. t \in Tasks /\ n \in 1..Len(runs[t]) /\ runs[t][n].turn = "none"
  BY WorkerFields DEF RunsInv, AtWork, Work!Turn, Work!Dispatch
<1>2. runs[t] \in Seq(Work!RunRow) /\ runs[t][n] \in Work!RunRow /\ Together(task[t], runs[t])
        /\ Len(runs[t]) <= MaxRuns
  BY <1>1, RunsTypes
<1>3. /\ r \in Work!RunRow /\ r.status = runs[t][n].status /\ r.claimant = runs[t][n].claimant
      /\ r.lease = runs[t][n].lease /\ r.turn = "live"
  BY <1>2 DEF Work!RunRow
<1>4. runs' = [runs EXCEPT ![t] = out]
  BY <1>1, <1>2, RunsTypes DEF Work!Dispatch
<1>5. worker' = [worker EXCEPT !.pc = "wait"] /\ task' = task /\ ops' = ops /\ restarts' = restarts
  BY DEF Work!Dispatch
<1>6. /\ worker' \in WorkerSet /\ worker'.state = worker.state /\ worker'.task = t
      /\ worker'.run = n /\ worker'.pc = "wait"
  BY <1>5, RunsTypes DEF WorkerSet
<1> HIDE DEF r, t, n
<1>7. r.status # "completed"
  BY <1>1, <1>2, <1>3 DEF Together
<1>8. out \in Seq(Work!RunRow) /\ Len(out) = Len(runs[t]) /\ Together(task[t], out)
  BY <1>1, <1>2, <1>3, <1>7, TurnRow
<1>9. out[n] = r /\ \A i \in 1..Len(runs[t]) : i # n => out[i] = runs[t][i]
  BY <1>1, <1>2
<1> HIDE DEF out
<1>10. runs' \in [Tasks -> Seq(Work!RunRow)] /\ runs'[t] = out /\ \A s \in Tasks : s # t
         => runs'[s] = runs[s]
  BY <1>1, <1>4, <1>8, RunsTypes
<1>11. \A s \in Tasks : Len(runs'[s]) <= MaxRuns /\ Len(runs'[s]) = Len(runs[s])
         /\ Together(task'[s], runs'[s])
  <2> TAKE s \in Tasks
  <2>1. CASE s = t
    BY <1>2, <1>5, <1>8, <1>10, <2>1
  <2>2. CASE s # t
    BY <1>5, <1>10, <2>2, RunsTypes
  <2> QED BY <2>1, <2>2
<1>12. RunsTyped'
  BY <1>5, <1>6, <1>10, <1>11, RunsTypes DEF RunsTyped
<1>13. AtWork'
  BY <1>1, <1>5, <1>6, <1>8, <1>10 DEF AtWork, RunsInv
<1>14. ASSUME NEW s \in Tasks, NEW i \in 1..Len(runs[s])
       PROVE  /\ runs'[s][i].status = runs[s][i].status
              /\ runs'[s][i].turn = "live" => runs[s][i].turn = "live" \/ (s = t /\ i = n)
  <2>1. CASE s = t
    BY <1>3, <1>9, <1>10, <2>1
  <2>2. CASE s # t
    BY <1>10, <2>2
  <2> QED BY <2>1, <2>2
<1>15. RunsInv'
  BY <1>11, <1>12, <1>13 DEF RunsInv
<1> QED BY <1>1, <1>5, <1>11, <1>14, <1>15 DEF t, n

LEMMA WorkerInv ==
  ASSUME Work!TaskAssumption, RunsInv, Work!WorkerStep, ~Work!Dispatch
  PROVE  RunsInv' /\ Kept
<1>1. ASSUME NEW t \in Tasks, Work!Tick(t)
      PROVE  RunsInv' /\ Kept
  <2>1. Work!Execute(t, Len(runs[t]) + 1) /\ ops' = ops /\ restarts' = restarts
    BY <1>1 DEF Work!Tick
  <2>2. Kept /\ Len(runs'[t]) = Len(runs[t]) + 1 /\ runs'[t][Len(runs[t]) + 1].turn = "none"
    BY <1>1, TickKeeps
  <2> QED BY <2>1, <2>2, RunsTypes, KeptClaim
<1>2. CASE Work!TickIdle
  <2>1. worker' = worker /\ ops' = ops /\ restarts' = restarts /\ task' = Work!RecoveredTasks
          /\ runs' = Work!RecoveredRuns
    BY <1>2 DEF Work!TickIdle
  <2> QED BY <2>1, RecoveryKeeps, RunsTypes, Stays
<1>3. ASSUME NEW R, Work!StartFails(R)
      PROVE  RunsInv' /\ Kept
  <2>1. worker' = Work!Idle(worker) /\ ops' = ops /\ restarts' = restarts
          /\ Work!Fail(worker.task, R, FALSE)
    BY <1>3 DEF Work!StartFails
  <2>2. Kept
    BY <2>1, WorkerFields, FailKeeps
  <2> QED BY <2>1, <2>2, Ends
<1>4. CASE Work!DispatchFails
  <2>1. worker' = Work!Idle(worker) /\ ops' = ops /\ restarts' = restarts
    BY <1>4 DEF Work!DispatchFails
  <2>2. (task' = task /\ runs' = runs) \/ Work!Fail(worker.task, {worker.run}, TRUE)
    BY <1>4 DEF Work!DispatchFails
  <2>3. Kept
    BY <2>2, WorkerFields, FailKeeps, Nothing
  <2> QED BY <2>1, <2>3, Ends
<1>5. CASE Work!Heartbeat
  <2>1. /\ worker' = [worker EXCEPT !.aborted = TRUE] /\ ops' = ops /\ restarts' = restarts
        /\ task' = task /\ runs' = runs
    BY <1>5 DEF Work!Heartbeat
  <2>2. /\ worker' \in WorkerSet /\ worker'.pc = worker.pc /\ worker'.task = worker.task
        /\ worker'.run = worker.run /\ worker'.state = worker.state
    BY <2>1, RunsTypes DEF WorkerSet
  <2>3. worker.state \in {"down", "stopping", "stopped"} => restarts < MaxRestarts
    BY DEF RunsInv, AtWork
  <2>4. Kept
    BY <2>1, Nothing
  <2> QED BY <2>1, <2>2, <2>3, <2>4, RunsTypes, KeptAtWork
<1>6. CASE Work!Poll
  <2>1. worker' = Work!Idle(worker) /\ ops' = ops /\ restarts' = restarts
    BY <1>6 DEF Work!Poll
  <2> QED BY <1>6, <2>1, PollKeeps, Ends
<1>7. ASSUME NEW fails \in BOOLEAN, Work!AbortTurn(fails)
      PROVE  RunsInv' /\ Kept
  <2>1. /\ worker' = Work!Idle(worker) /\ ops' = ops /\ restarts' = restarts /\ task' = task
        /\ worker.pc = "wait" /\ Work!Turn = "live"
        /\ runs' = runs \/ runs' = Work!CancelledRuns(worker.task, worker.run)
    BY <1>7 DEF Work!AbortTurn
  <2>2. Kept
    BY <2>1, Nothing, CancelledTurn
  <2> QED BY <2>1, <2>2, Ends
<1>8. ASSUME NEW fails \in BOOLEAN, Work!Timeout(fails)
      PROVE  RunsInv' /\ Kept
  <2>1. worker' = Work!Idle(worker) /\ ops' = ops /\ restarts' = restarts
    BY <1>8 DEF Work!Timeout
  <2> QED BY <1>8, <2>1, TimeoutKeeps, Ends
<1>9. CASE Work!StopDone
  <2>1. /\ worker' = [worker EXCEPT !.state = "stopped"] /\ ops' = ops /\ restarts' = restarts
        /\ task' = task /\ runs' = runs /\ worker.state = "stopping"
    BY <1>9 DEF Work!StopDone
  <2>2. /\ worker' \in WorkerSet /\ worker'.pc = worker.pc /\ worker'.task = worker.task
        /\ worker'.run = worker.run
    BY <2>1, RunsTypes DEF WorkerSet
  <2>3. restarts < MaxRestarts
    BY <2>1 DEF RunsInv, AtWork
  <2>4. Kept
    BY <2>1, Nothing
  <2> QED BY <2>1, <2>2, <2>3, <2>4, RunsTypes, KeptAtWork
<1> QED BY <1>1, <1>2, <1>3, <1>4, <1>5, <1>6, <1>7, <1>8, <1>9 DEF Work!WorkerStep

LEMMA OtherInv ==
  ASSUME Work!TaskAssumption, RunsInv,
         \/ \E t \in Tasks :
              \/ Work!BecomesDue(t)
              \/ \E i \in DOMAIN runs[t] :
                   \/ Work!LeaseExpires(t, i)
                   \/ \E outcome \in {"completed", "failed"} : Work!TurnEnds(t, i, outcome)
         \/ Work!Stop \/ Work!Crash \/ Work!Restart
  PROVE  RunsInv' /\ Kept
<1>1. ASSUME NEW t \in Tasks, Work!BecomesDue(t)
      PROVE  RunsInv' /\ Kept
  <2>1. worker' = worker /\ ops' = ops /\ restarts' = restarts
    BY <1>1 DEF Work!BecomesDue
  <2> QED BY <1>1, <2>1, DueKeeps, RunsTypes, Stays
<1>2. ASSUME NEW t \in Tasks, NEW i \in DOMAIN runs[t], Work!LeaseExpires(t, i)
      PROVE  RunsInv' /\ Kept
  <2>1. worker' = worker /\ ops' = ops /\ restarts' = restarts
    BY <1>2 DEF Work!LeaseExpires
  <2> QED BY <1>2, <2>1, LeaseExpiresKeeps, RunsTypes, Stays
<1>3. ASSUME NEW t \in Tasks, NEW i \in DOMAIN runs[t], NEW outcome \in {"completed", "failed"},
             Work!TurnEnds(t, i, outcome)
      PROVE  RunsInv' /\ Kept
  <2>1. worker' = worker /\ ops' = ops /\ restarts' = restarts
    BY <1>3 DEF Work!TurnEnds
  <2> QED BY <1>3, <2>1, TurnEndsKeeps, RunsTypes, Stays
<1>4. CASE Work!Stop
  <2>1. /\ ops' = ops /\ restarts' = restarts /\ task' = task /\ runs' = runs
           /\ restarts < MaxRestarts
        /\ \/ worker' = [worker EXCEPT !.state = "stopped"]
           \/ worker' = [worker EXCEPT !.state = "stopping", !.aborted = TRUE]
    BY <1>4 DEF Work!Stop
  <2>2. /\ worker' \in WorkerSet /\ worker'.pc = worker.pc /\ worker'.task = worker.task
        /\ worker'.run = worker.run
    BY <2>1, RunsTypes DEF WorkerSet
  <2>4. Kept
    BY <2>1, Nothing
  <2> QED BY <2>1, <2>2, <2>4, RunsTypes, KeptAtWork
<1>5. CASE Work!Crash
  <2>1. /\ ops' = ops /\ restarts' = restarts /\ task' = task /\ runs' = runs
        /\ worker.state = "stopped" \/ restarts < MaxRestarts
        /\ worker' = [Work!Idle(worker) EXCEPT !.state = "down"]
    BY <1>5 DEF Work!Crash
  <2>2. worker' \in WorkerSet /\ worker'.pc = "idle"
    BY <2>1, IdleWorker DEF WorkerSet
  <2>3. restarts < MaxRestarts
    BY <2>1 DEF RunsInv, AtWork
  <2>4. Kept
    BY <2>1, Nothing
  <2> QED BY <2>1, <2>2, <2>3, <2>4, RunsTypes, KeptAtWork
<1>6. CASE Work!Restart
  <2>1. /\ ops' = ops /\ restarts' = restarts + 1 /\ task' = Work!RecoveredTasks
           /\ runs' = Work!RecoveredRuns
        /\ worker.state = "down"
        /\ worker' = [worker EXCEPT !.state = "running", !.id = @ + 1, !.aborted = FALSE]
    BY <1>6 DEF Work!Restart
  <2>2. /\ worker' \in WorkerSet /\ worker'.pc = worker.pc /\ worker'.task = worker.task
        /\ worker'.run = worker.run /\ worker'.state = "running"
    <3>1. worker \in WorkerSet /\ worker.id + 1 \in Nat
      BY RunsTypes, WorkerFields
    <3> QED BY <2>1, <3>1 DEF WorkerSet
  <2>3. restarts' \in 0..MaxRestarts
    BY <2>1, RunsTypes DEF RunsInv, AtWork
  <2>4. Kept
    BY <2>1, RecoveryKeeps
  <2> QED BY <2>1, <2>2, <2>3, <2>4, RunsTypes, KeptAtWork
<1> QED BY <1>1, <1>2, <1>3, <1>4, <1>5, <1>6

LEMMA RunsStep ==
  ASSUME Work!TaskAssumption, RunsInv, Work!Next
  PROVE  RunsInv' /\ (Kept \/ Work!Dispatch)
<1>1. CASE Work!Dispatch
  BY <1>1, DispatchInv
<1>2. CASE ~Work!Dispatch
  BY <1>2, WorkerInv, UserInv, OtherInv DEF Work!Next
<1> QED BY <1>1, <1>2

LEMMA RunsStay ==
  ASSUME Work!TaskAssumption, RunsInv, Kept \/ Work!Dispatch
  PROVE  Work!EndedRunsStay
<1>1. ASSUME NEW t \in Tasks, NEW i \in DOMAIN runs[t], runs[t][i].status # "claimed"
      PROVE  runs'[t][i].status = runs[t][i].status
  <2>1. i \in 1..Len(runs[t])
    BY RunsTypes
  <2>2. CASE Kept
    BY <1>1, <2>1, <2>2 DEF Kept, RowsStep
  <2>3. CASE Work!Dispatch
    BY <2>1, <2>3, DispatchInv
  <2> QED BY <2>2, <2>3
<1> QED BY <1>1 DEF Work!EndedRunsStay

-----------------------------------------------------------------------------
(* Turns that do not overlap *)

LEMMA WatchedKept ==
  ASSUME Work!TaskAssumption, RunsInv, Watched, Kept, worker'.state = "running",
         \/ worker.pc # "wait"
         \/ worker'.pc = worker.pc /\ worker'.task = worker.task /\ worker'.run = worker.run
         \/ runs'[worker.task][worker.run].turn # "live"
  PROVE  Watched'
<1>1. ASSUME NEW t \in Tasks, NEW i \in 1..Len(runs'[t]), runs'[t][i].turn = "live"
      PROVE  worker'.pc = "wait" /\ worker'.task = t /\ worker'.run = i
  <2>1. RowsStep(runs[t], runs'[t]) /\ Len(runs[t]) \in Nat /\ Len(runs'[t]) \in Nat
    BY RunsTypes DEF Kept
  <2>2. i \in 1..Len(runs[t])
    BY <1>1, <2>1 DEF RowsStep
  <2>3. runs[t][i].turn = "live"
    BY <1>1, <2>1, <2>2 DEF RowsStep
  <2>4. worker.pc = "wait" /\ worker.task = t /\ worker.run = i
    BY <2>2, <2>3 DEF Watched
  <2> QED BY <1>1, <2>4
<1> QED BY <1>1 DEF Watched

LEMMA WatchedStep ==
  ASSUME Work!TaskAssumption, RunsInv, MaxRestarts = 0, ~CancelFails, Watched, Work!Next
  PROVE  Watched'
<1> DEFINE Same == /\ worker'.pc = worker.pc /\ worker'.task = worker.task
                   /\ worker'.run = worker.run
<1>0. /\ RunsInv' /\ worker.state = "running" /\ worker'.state = "running"
      /\ (Kept \/ Work!Dispatch) /\ ~(restarts < MaxRestarts)
  <2>1. RunsInv' /\ (Kept \/ Work!Dispatch)
    BY RunsStep
  <2>2. restarts = 0 /\ restarts' = 0
    BY <2>1 DEF RunsInv, RunsTyped
  <2>3. worker'.state \in {"down", "running", "stopping", "stopped"}
    BY <2>1 DEF RunsInv, RunsTyped, WorkerSet
  <2>4. worker'.state \in {"down", "stopping", "stopped"} => restarts' < MaxRestarts
    BY <2>1 DEF RunsInv, AtWork
  <2> QED BY <2>1, <2>2, <2>3, <2>4 DEF Watched
<1>1. CASE Work!Dispatch
  <2>1. worker' = [worker EXCEPT !.pc = "wait"] /\ worker.pc = "start"
    BY <1>1, DispatchInv DEF Work!Dispatch
  <2>2. worker'.pc = "wait" /\ worker'.task = worker.task /\ worker'.run = worker.run
    BY <2>1, RunsTypes DEF WorkerSet
  <2>3. ASSUME NEW t \in Tasks, NEW i \in 1..Len(runs'[t]), runs'[t][i].turn = "live"
        PROVE  worker.task = t /\ worker.run = i
    <3>1. i \in 1..Len(runs[t])
      BY <1>1, DispatchInv
    <3>2. runs[t][i].turn # "live"
      BY <2>1, <3>1 DEF Watched
    <3> QED BY <1>1, <2>3, <3>1, <3>2, DispatchInv
  <2> QED BY <1>0, <2>2, <2>3 DEF Watched
<1>2. CASE ~Work!Dispatch /\ (Same \/ worker.pc # "wait")
  BY <1>0, <1>2, WatchedKept
<1>3. CASE ~Work!Dispatch /\ Kept /\ runs'[worker.task][worker.run].turn # "live"
  BY <1>0, <1>3, WatchedKept
<1>4. \/ Work!Dispatch \/ Same \/ worker.pc # "wait" \/ Work!Poll
      \/ \E fails \in BOOLEAN : Work!AbortTurn(fails) \/ Work!Timeout(fails)
  <2>1. ASSUME NEW t \in Tasks, Work!Tick(t)
        PROVE  worker.pc # "wait"
    BY <2>1 DEF Work!Tick
  <2>2. ASSUME NEW R, Work!StartFails(R)
        PROVE  worker.pc # "wait"
    BY <2>2 DEF Work!StartFails
  <2>3. Work!DispatchFails => worker.pc # "wait"
    BY DEF Work!DispatchFails
  <2>4. Work!TickIdle => Same
    BY DEF Work!TickIdle
  <2>5. Work!Heartbeat => Same
    BY RunsTypes DEF Work!Heartbeat, WorkerSet
  <2>6. ~Work!StopDone /\ ~Work!Stop /\ ~Work!Crash /\ ~Work!Restart
    BY <1>0 DEF Work!StopDone, Work!Stop, Work!Crash, Work!Restart
  <2>7. Work!WorkerStep => \/ Work!Dispatch \/ Same \/ worker.pc # "wait" \/ Work!Poll
                           \/ \E fails \in BOOLEAN : Work!AbortTurn(fails) \/ Work!Timeout(fails)
    BY <2>1, <2>2, <2>3, <2>4, <2>5, <2>6 DEF Work!WorkerStep
  <2>8. Work!UserStep => Same \/ worker.pc # "wait"
    BY DEF Work!UserStep, Work!Create, Work!Update, Work!Cancel, Work!Delete, Work!Pause,
       Work!Resume, Work!RunNow
  <2>9. (\E t \in Tasks :
           \/ Work!BecomesDue(t)
           \/ \E i \in DOMAIN runs[t] :
                \/ Work!LeaseExpires(t, i)
                \/ \E outcome \in {"completed", "failed"} : Work!TurnEnds(t, i, outcome)) => Same
    BY DEF Work!BecomesDue, Work!LeaseExpires, Work!TurnEnds
  <2> QED BY <2>6, <2>7, <2>8, <2>9 DEF Work!Next
<1>5. CASE ~Work!Dispatch /\ Work!Poll
  <2>1. Work!Turn # "live" /\ worker.pc = "wait"
    BY <1>5 DEF Work!Poll
  <2>2. worker.task \in Tasks /\ worker.run \in 1..Len(runs[worker.task])
    BY <2>1, WorkerFields DEF RunsInv, AtWork
  <2>3. Kept
    BY <1>0, <1>5
  <2>4. runs'[worker.task][worker.run].turn # "live"
    BY <2>1, <2>2, <2>3 DEF Kept, RowsStep, Work!Turn
  <2> QED BY <1>3, <1>5, <2>3, <2>4
<1>6. ASSUME ~Work!Dispatch, NEW fails \in BOOLEAN, Work!AbortTurn(fails)
      PROVE  Watched'
  <2>1. worker.pc = "wait" /\ runs' = Work!CancelledRuns(worker.task, worker.run)
    BY <1>6 DEF Work!AbortTurn
  <2> QED BY <1>0, <1>3, <1>6, <2>1, TurnFailed
<1>7. ASSUME ~Work!Dispatch, NEW fails \in BOOLEAN, Work!Timeout(fails)
      PROVE  Watched'
  <2>1. ~fails /\ worker.pc = "wait"
    BY <1>7 DEF Work!Timeout
  <2>2. runs'[worker.task][worker.run].turn = "failed"
    BY <1>7, <2>1, TimeoutKeeps
  <2> QED BY <1>0, <1>3, <1>7, <2>2
<1> QED BY <1>1, <1>2, <1>4, <1>5, <1>6, <1>7

-----------------------------------------------------------------------------
LEMMA RunsInvInit ==
  ASSUME Work!TaskAssumption, Work!Init
  PROVE  RunsInv /\ Watched
<1>1. /\ task \in [Tasks -> Work!TaskRow] /\ runs \in [Tasks -> Seq(Work!RunRow)]
      /\ \A t \in Tasks : Len(runs[t]) = 0 /\ task[t].status = "none" /\ task[t].claims = 0
  BY DEF Work!Init, Work!TaskRow, Work!NoLease
<1>2. worker \in WorkerSet /\ worker.pc = "idle" /\ worker.state = "running"
  <2>1. (CHOOSE t \in Tasks : TRUE) \in Tasks
    BY DEF Work!TaskAssumption
  <2> QED BY <2>1 DEF Work!Init, WorkerSet, Work!NoRun
<1>3. \A t \in Tasks : Together(task[t], runs[t])
  BY <1>1 DEF Together
<1>4. RunsTyped
  <2>1. ops \in 0..MaxOps /\ restarts \in 0..MaxRestarts /\ MaxRuns \in Nat
    BY DEF Work!Init, Work!TaskAssumption
  <2>2. \A t \in Tasks : Len(runs[t]) <= MaxRuns
    BY <1>1, <2>1
  <2> QED BY <1>1, <1>2, <2>1, <2>2 DEF RunsTyped
<1>5. AtWork
  BY <1>2 DEF AtWork
<1>6. Watched
  BY <1>1, <1>2 DEF Watched
<1> QED BY <1>3, <1>4, <1>5, <1>6 DEF RunsInv

LEMMA RunsHold ==
  ASSUME Work!TaskAssumption, RunsInv
  PROVE  /\ Work!TypeOK /\ Work!OneActiveRun /\ Work!ClaimBackedByRun /\ Work!RecurringNeverFails
         /\ Work!PendingHasRetries /\ Work!CompletedRunDidIt
<1>1. Work!TypeOK
  BY DEF RunsInv, RunsTyped, Work!TypeOK, WorkerSet
<1>2. Work!OneActiveRun
  BY RunsTypes DEF Work!OneActiveRun, Together
<1>3. Work!ClaimBackedByRun
  <2>1. \A t \in Tasks : Len(runs[t]) > 0 => runs[t] # <<>>
    BY RunsTypes
  <2> QED BY <2>1, RunsTypes DEF Work!ClaimBackedByRun, Together
<1>4. Work!RecurringNeverFails /\ Work!PendingHasRetries
  BY RunsTypes DEF Work!RecurringNeverFails, Work!PendingHasRetries, Together
<1>5. Work!CompletedRunDidIt
  BY RunsTypes DEF Work!CompletedRunDidIt, Together
<1> QED BY <1>1, <1>2, <1>3, <1>4, <1>5

LEMMA WatchedHolds ==
  ASSUME Work!TaskAssumption, RunsInv, Watched
  PROVE  Work!TurnsDoNotOverlap
BY RunsTypes DEF Work!TurnsDoNotOverlap, Watched

(* However claims, manual runs, resumptions, cancellations, expired leases *)
(* and restarts interleave (task-repository.ts, task-worker.ts): a task    *)
(* has one active run, a claimed task is claimed by its latest run, a      *)
(* recurring task never fails for good, a task that waits has a retry      *)
(* left, a run is completed only if its own turn was, and one that ended   *)
(* is never rewritten.  Without restarts, and where cancelled turns end,   *)
(* the turns of a task do not overlap.                                     *)
THEOREM RunsAreExclusive ==
  ASSUME Work!TaskAssumption
  PROVE  Work!Spec => /\ []Work!TypeOK /\ []Work!OneActiveRun /\ []Work!ClaimBackedByRun
                         /\ []Work!RecurringNeverFails
                      /\ []Work!PendingHasRetries /\ []Work!CompletedRunDidIt
                      /\ [][Work!EndedRunsStay]_(Work!vars)
                      /\ [](MaxRestarts = 0 /\ ~CancelFails => Work!TurnsDoNotOverlap)
<1> DEFINE W == MaxRestarts = 0 /\ ~CancelFails => Watched
<1>1. Work!Init => RunsInv /\ W
  BY RunsInvInit
<1>2. RunsInv /\ W /\ [Work!Next]_(Work!vars) => RunsInv' /\ W'
  <2> SUFFICES ASSUME RunsInv, W, [Work!Next]_(Work!vars) PROVE RunsInv' /\ W'
    OBVIOUS
  <2>1. CASE Work!Next
    BY <2>1, RunsStep, WatchedStep
  <2>2. CASE UNCHANGED Work!vars
    <3>1. RunsInv'
      BY <2>2 DEF Work!vars, RunsInv, RunsTyped, AtWork, Work!Turn
    <3>2. Watched => Watched'
      BY <2>2 DEF Work!vars, Watched
    <3> QED BY <3>1, <3>2
  <2> QED BY <2>1, <2>2
<1>3. RunsInv /\ [Work!Next]_(Work!vars) => [Work!EndedRunsStay]_(Work!vars)
  BY RunsStep, RunsStay
<1>4. RunsInv => Work!TypeOK /\ Work!OneActiveRun /\ Work!ClaimBackedByRun
        /\ Work!RecurringNeverFails
                        /\ Work!PendingHasRetries /\ Work!CompletedRunDidIt
  BY RunsHold
<1>5. RunsInv /\ W => (MaxRestarts = 0 /\ ~CancelFails => Work!TurnsDoNotOverlap)
  BY WatchedHolds
<1> HIDE DEF W
<1> QED BY <1>1, <1>2, <1>3, <1>4, <1>5, PTL DEF Work!Spec

-----------------------------------------------------------------------------
(* Failure notices.                                                        *)

NoticeRow == [status : {"none", "pending", "failed", "delivered", "dead_letter"},
              attempts : Nat, due : BOOLEAN]
NoticeAttempt == [by : {"none", "fast", "maintenance", "retry"}, attempts : Nat,
                  step : {"none", "send", "fallback"}]
NoticeItem == [id : Notice!Occ, attempts : Nat]
NoticePass == [stage : {"idle", "runs", "missed", "retry"}, todo : SUBSET NoticeItem]
NoticeLeft == [manual : 0..MaxManual, switches : 0..MaxSwitches, crashes : 0..MaxKills]

NoticeTyped ==
  /\ occ \in [Notice!Occ -> {"none", "failed", "timeout", "started"}] /\ sub \in BOOLEAN
  /\ noticeRow \in [Notice!Occ -> NoticeRow] /\ noticeAtt \in [Notice!Occ -> NoticeAttempt]
  /\ pass \in [Notice!Passes -> NoticePass] /\ noticeSends \in [Notice!Occ -> Nat]
  /\ shown \in [Notice!Occ -> SUBSET {"im", "session"}] /\ noticeLeft \in NoticeLeft

(* After n attempts one more keeps within the attempts of the delivery and *)
(* the manual retries so far.                                              *)
OneMore(n) == n + noticeLeft.manual < MaxTries + MaxManual

(* The row of a delivery.                                                  *)
RowSound(o) ==
  /\ noticeRow[o].attempts + noticeLeft.manual <= MaxTries + MaxManual
  /\ noticeRow[o].status \in {"none", "pending"} => OneMore(noticeRow[o].attempts)
  /\ noticeRow[o].status = "failed" => noticeRow[o].attempts < MaxTries
  /\ noticeRow[o].status # "none" => occ[o] # "none"
  /\ noticeRow[o].status = "delivered" => shown[o] # {}

(* An attempt in flight is about a delivery that has a row.                *)
AttemptSound(o) ==
  /\ OneMore(noticeAtt[o].attempts)
  /\ noticeAtt[o].by = "none" <=> noticeAtt[o].step = "none"
  /\ noticeAtt[o].by # "none" => noticeRow[o].status # "none"

(* What a pass has read: the items of a scan happened, those of the retry  *)
(* worker have a row.                                                      *)
TodoSound(p) ==
  \A i \in pass[p].todo : /\ OneMore(i.attempts) /\ occ[i.id] # "none"
                          /\ pass[p].stage = "retry" => noticeRow[i.id].status # "none"

NoticeInv ==
  /\ NoticeTyped /\ (\A o \in Notice!Occ : RowSound(o) /\ AttemptSound(o))
  /\ \A p \in Notice!Passes : TodoSound(p)

(* A delivery that was given up is shown, or its fallback is under way.    *)
NotLost(o) ==
  noticeRow[o].status = "dead_letter" /\ o \notin NoSession => shown[o] # {}
      \/ noticeAtt[o].step = "fallback"

(* What a step is to do.                                                   *)
NoticeStep ==
  /\ NoticeInv' /\ Notice!DisabledIsQuiet
  /\ MaxKills = 0 /\ (\A o \in Notice!Occ : NotLost(o)) => \A o \in Notice!Occ : NotLost(o)'

LEMMA NoticeTypes ==
  ASSUME Notice!NotificationAssumption, NoticeInv
  PROVE  /\ \A o \in Notice!Occ : /\ noticeRow[o] \in NoticeRow /\ noticeAtt[o] \in NoticeAttempt
                                  /\ noticeRow[o].attempts \in Nat /\ noticeAtt[o].attempts \in Nat
                                  /\ RowSound(o) /\ AttemptSound(o)
         /\ \A p \in Notice!Passes : pass[p] \in NoticePass /\ TodoSound(p)
         /\ noticeLeft.manual \in 0..MaxManual /\ MaxManual \in Nat /\ MaxTries \in Nat
             /\ MaxTries > 0
         /\ OneMore(0)
<1>1. noticeLeft.manual \in 0..MaxManual /\ MaxManual \in Nat /\ MaxTries \in Nat /\ MaxTries > 0
  BY DEF NoticeInv, NoticeTyped, NoticeLeft, Notice!NotificationAssumption
<1>2. \A o \in Notice!Occ : /\ noticeRow[o] \in NoticeRow /\ noticeAtt[o] \in NoticeAttempt
                            /\ RowSound(o) /\ AttemptSound(o)
  BY DEF NoticeInv, NoticeTyped
<1>3. \A o \in Notice!Occ : noticeRow[o].attempts \in Nat /\ noticeAtt[o].attempts \in Nat
  BY <1>2 DEF NoticeRow, NoticeAttempt
<1>4. \A p \in Notice!Passes : pass[p] \in NoticePass /\ TodoSound(p)
  BY DEF NoticeInv, NoticeTyped
<1> QED BY <1>1, <1>2, <1>3, <1>4 DEF OneMore

(* A step that is about one occurrence, and leaves the passes with what    *)
(* they had at most.                                                       *)
LEMMA OneNotice ==
  ASSUME Notice!NotificationAssumption, NoticeInv, NoticeTyped', NEW o \in Notice!Occ,
         \A q \in Notice!Occ \ {o} : /\ noticeRow'[q] = noticeRow[q] /\ noticeAtt'[q] = noticeAtt[q]
                                     /\ shown'[q] = shown[q] /\ occ'[q] = occ[q],
         noticeLeft'.manual <= noticeLeft.manual, RowSound(o)', AttemptSound(o)',
         noticeRow[o].status # "none" => noticeRow'[o].status # "none",
         occ[o] # "none" => occ'[o] # "none",
         ~sub /\ noticeRow[o].status = "none" => noticeRow'[o].status = "none",
         NotLost(o) => NotLost(o)',
         \A p \in Notice!Passes : pass'[p].stage = pass[p].stage
             /\ pass'[p].todo \subseteq pass[p].todo
  PROVE  NoticeStep
<1>1. noticeLeft.manual \in Nat /\ noticeLeft'.manual \in Nat /\ MaxManual \in Nat
        /\ MaxTries \in Nat
  BY DEF NoticeInv, NoticeTyped, NoticeLeft, Notice!NotificationAssumption
<1>2. \A n \in Nat : OneMore(n) => OneMore(n)'
  BY <1>1 DEF OneMore
<1>3. ASSUME NEW q \in Notice!Occ \ {o}
      PROVE  RowSound(q)' /\ AttemptSound(q)' /\ (NotLost(q) => NotLost(q)')
  <2>1. noticeRow'[q] = noticeRow[q] /\ noticeAtt'[q] = noticeAtt[q] /\ shown'[q] = shown[q]
          /\ occ'[q] = occ[q]
    OBVIOUS
  <2>2. RowSound(q) /\ AttemptSound(q) /\ noticeRow[q].attempts \in Nat
          /\ noticeAtt[q].attempts \in Nat
    BY NoticeTypes
  <2>3. OneMore(noticeRow[q].attempts) => OneMore(noticeRow[q].attempts)'
    BY <1>2, <2>1, <2>2
  <2>4. OneMore(noticeAtt[q].attempts)'
    BY <1>2, <2>1, <2>2 DEF AttemptSound
  <2>5. noticeRow[q].attempts + noticeLeft'.manual <= MaxTries + MaxManual
    BY <1>1, <2>2 DEF RowSound
  <2>6. RowSound(q)'
    BY <2>1, <2>2, <2>3, <2>5 DEF RowSound
  <2>7. AttemptSound(q)'
    BY <2>1, <2>2, <2>4 DEF AttemptSound
  <2> QED BY <2>1, <2>6, <2>7 DEF NotLost
<1>4. ASSUME NEW p \in Notice!Passes
      PROVE  TodoSound(p)'
  <2>1. TodoSound(p) /\ pass'[p].stage = pass[p].stage /\ pass'[p].todo \subseteq pass[p].todo
        /\ pass[p].todo \subseteq NoticeItem
    BY DEF NoticeInv, NoticeTyped, NoticePass
  <2>2. \A i \in pass'[p].todo : i.id \in Notice!Occ /\ i.attempts \in Nat
    BY <2>1 DEF NoticeItem
  <2>3. ASSUME NEW i \in pass'[p].todo
        PROVE  /\ OneMore(i.attempts)' /\ occ'[i.id] # "none"
               /\ pass'[p].stage = "retry" => noticeRow'[i.id].status # "none"
    <3>1. /\ OneMore(i.attempts) /\ occ[i.id] # "none"
          /\ pass[p].stage = "retry" => noticeRow[i.id].status # "none"
      BY <2>1 DEF TodoSound
    <3>2. i.id \in Notice!Occ /\ i.attempts \in Nat
      BY <2>2
    <3>3. OneMore(i.attempts)'
      BY <1>2, <3>1, <3>2
    <3>4. occ'[i.id] # "none" /\ (noticeRow[i.id].status # "none"
            => noticeRow'[i.id].status # "none")
      BY <3>1, <3>2
    <3> QED BY <2>1, <3>1, <3>3, <3>4
  <2> QED BY <2>3 DEF TodoSound
<1>5. Notice!DisabledIsQuiet
  BY DEF Notice!DisabledIsQuiet
<1>6. \A q \in Notice!Occ : RowSound(q)' /\ AttemptSound(q)' /\ (NotLost(q) => NotLost(q)')
  BY <1>3
<1>7. NoticeInv'
  BY <1>4, <1>6 DEF NoticeInv
<1> QED BY <1>5, <1>6, <1>7 DEF NoticeStep

(* What reading a list gives, and its first item.                          *)
LEMMA StageSound ==
  ASSUME Notice!NotificationAssumption, NoticeInv, NEW s \in {"idle", "runs", "missed", "retry"}
  PROVE  /\ Notice!Stage(s) \in NoticePass
         /\ \A i \in Notice!Stage(s).todo : /\ OneMore(i.attempts) /\ occ[i.id] # "none"
                                            /\ Notice!Stage(s).stage = "retry"
                                                => noticeRow[i.id].status # "none"
<1>1. \A o \in Notice!Occ : Notice!Item(o) \in NoticeItem /\ Notice!Item(o).id = o
        /\ Notice!Item(o).attempts = noticeRow[o].attempts
  BY NoticeTypes DEF Notice!Item, NoticeItem
<1>2. ASSUME NEW S \in SUBSET Notice!Occ, NEW limit, NEW i \in Notice!Oldest(S, limit)
      PROVE  \E o \in S : i = Notice!Item(o)
  BY DEF Notice!Oldest
<1>3. Notice!Stage(s).stage = s
  BY DEF Notice!Stage
<1>4. \A o \in Notice!Occ : noticeRow[o].status \in {"none", "pending"}
        => OneMore(noticeRow[o].attempts)
  BY NoticeTypes DEF RowSound
<1>5. CASE s \in {"runs", "missed"}
  <2>1. PICK S \in SUBSET Notice!Occ : Notice!Stage(s).todo = Notice!Oldest(Notice!Unnotified(S),
          ScanLimit)
    BY <1>5 DEF Notice!Stage, Notice!NotificationAssumption
  <2>2. Notice!Unnotified(S) \in SUBSET Notice!Occ
          /\ \A o \in Notice!Unnotified(S) : occ[o] # "none" /\ noticeRow[o].status = "none"
    BY DEF Notice!Unnotified
  <2>3. \A i \in Notice!Stage(s).todo : \E o \in Notice!Unnotified(S) : i = Notice!Item(o)
    BY <1>2, <2>1, <2>2
  <2>4. Notice!Stage(s).todo \subseteq NoticeItem
    BY <1>1, <2>2, <2>3
  <2>5. Notice!Stage(s) \in NoticePass
    BY <1>5, <2>4 DEF Notice!Stage, NoticePass
  <2> QED BY <1>1, <1>3, <1>4, <1>5, <2>2, <2>3, <2>5
<1>6. CASE s = "retry"
  <2>1. Notice!Stage(s).todo = Notice!Oldest(Notice!PendingDeliveries, PendingLimit)
    BY <1>6 DEF Notice!Stage
  <2>2. /\ Notice!PendingDeliveries \in SUBSET Notice!Occ
        /\ \A o \in Notice!PendingDeliveries : /\ noticeRow[o].status # "none" /\ occ[o] # "none"
                                               /\ OneMore(noticeRow[o].attempts)
    <3>1. ASSUME NEW o \in Notice!PendingDeliveries
          PROVE  o \in Notice!Occ /\ noticeRow[o].status # "none" /\ occ[o] # "none"
                 /\ OneMore(noticeRow[o].attempts)
      <4>1. o \in Notice!Occ /\ (noticeRow[o].status = "pending"
              \/ noticeRow[o].attempts < MaxTries)
            /\ noticeRow[o].status # "none"
        BY DEF Notice!PendingDeliveries
      <4>2. occ[o] # "none"
        BY <4>1, NoticeTypes DEF RowSound
      <4>3. noticeRow[o].attempts < MaxTries => OneMore(noticeRow[o].attempts)
        BY <4>1, NoticeTypes DEF OneMore
      <4> QED BY <1>4, <4>1, <4>2, <4>3
    <3> QED BY <3>1
  <2>3. \A i \in Notice!Stage(s).todo : \E o \in Notice!PendingDeliveries : i = Notice!Item(o)
    BY <1>2, <2>1, <2>2
  <2>4. Notice!Stage(s).todo \subseteq NoticeItem
    BY <1>1, <2>2, <2>3
  <2>5. Notice!Stage(s) \in NoticePass
    BY <1>6, <2>4 DEF Notice!Stage, NoticePass
  <2> QED BY <1>1, <2>2, <2>3, <2>5
<1>7. CASE s = "idle"
  BY <1>7 DEF Notice!Stage, NoticePass
<1> QED BY <1>5, <1>6, <1>7

LEMMA FirstItem ==
  ASSUME Notice!NotificationAssumption, NEW T \in SUBSET NoticeItem, T # {}
  PROVE  Notice!First(T) \in T
<1>1. {i.id : i \in T} \in SUBSET Nat /\ {i.id : i \in T} # {}
  BY DEF NoticeItem, Notice!Occ, Notice!NotificationAssumption
<1>2. PICK x \in {i.id : i \in T} : \A y \in {i.id : i \in T} : x <= y
  BY <1>1, LeastOfNumbers
<1>3. \E i \in T : \A j \in T : i.id <= j.id
  BY <1>2
<1> QED BY <1>3 DEF Notice!First

(* An attempt is begun unless one is in flight.                            *)
LEMMA BegunSound ==
  ASSUME Notice!NotificationAssumption, NoticeInv, NEW by \in {"fast", "maintenance", "retry"},
         NEW i \in NoticeItem, OneMore(i.attempts)
  PROVE  /\ Notice!Begun(by, i) \in [Notice!Occ -> NoticeAttempt]
            /\ Notice!HandedOver(i) \in [Notice!Occ -> Nat]
         /\ \A q \in Notice!Occ \ {i.id} : Notice!Begun(by, i)[q] = noticeAtt[q]
         /\ noticeAtt[i.id].by # "none" => Notice!Begun(by, i)[i.id] = noticeAtt[i.id]
         /\ noticeAtt[i.id].by = "none" =>
                    Notice!Begun(by, i)[i.id] = [by |-> by, attempts |-> i.attempts,
                        step |-> "send"]
<1>1. i.id \in Notice!Occ /\ i.attempts \in Nat
        /\ [by |-> by, attempts |-> i.attempts, step |-> "send"] \in NoticeAttempt
  BY DEF NoticeItem, NoticeAttempt
<1>2. noticeAtt \in [Notice!Occ -> NoticeAttempt] /\ noticeSends \in [Notice!Occ -> Nat]
  BY DEF NoticeInv, NoticeTyped
<1>3. Notice!HandedOver(i) \in [Notice!Occ -> Nat]
  BY <1>1, <1>2 DEF Notice!HandedOver
<1> QED BY <1>1, <1>2, <1>3 DEF Notice!Begun

(* What a begun attempt is.                                                *)
LEMMA BegunAttempt ==
  ASSUME Notice!NotificationAssumption, NoticeInv, NEW by \in {"fast", "maintenance", "retry"},
         NEW i \in NoticeItem, OneMore(i.attempts), noticeAtt' = Notice!Begun(by, i)
  PROVE  LET o == i.id IN
         /\ noticeAtt'[o].by # "none" /\ noticeAtt'[o].step # "none"
             /\ noticeAtt'[o].attempts \in Nat
         /\ OneMore(noticeAtt'[o].attempts)
         /\ noticeAtt[o].step = "fallback" => noticeAtt'[o].step = "fallback"
<1>1. i.id \in Notice!Occ /\ i.attempts \in Nat
  BY DEF NoticeItem
<1>2. AttemptSound(i.id) /\ noticeAtt[i.id].attempts \in Nat
  BY <1>1, NoticeTypes
<1>3. CASE noticeAtt[i.id].by # "none"
  BY <1>1, <1>2, <1>3, BegunSound DEF AttemptSound
<1>4. CASE noticeAtt[i.id].by = "none"
  <2>1. noticeAtt'[i.id] = [by |-> by, attempts |-> i.attempts, step |-> "send"]
    BY <1>4, BegunSound
  <2>2. noticeAtt'[i.id].by = by /\ noticeAtt'[i.id].step = "send"
          /\ noticeAtt'[i.id].attempts = i.attempts
    BY <2>1
  <2>3. noticeAtt[i.id].step = "none"
    BY <1>2, <1>4 DEF AttemptSound
  <2> QED BY <1>1, <2>2, <2>3
<1> QED BY <1>3, <1>4

-----------------------------------------------------------------------------
(* The steps. *)

(* What happens to the tasks and to the setting.                           *)
LEMMA RunFailsStep ==
  ASSUME Notice!NotificationAssumption, NoticeInv, NEW o \in Notice!Occ,
         NEW event \in {"failed", "timeout"},
         NEW reported \in BOOLEAN, Notice!RunFails(o, event, reported)
  PROVE  NoticeStep
<1>1. /\ occ[o] = "none" /\ occ' = [occ EXCEPT ![o] = event]
         /\ UNCHANGED <<sub, pass, shown, noticeLeft>>
  BY DEF Notice!RunFails
<1>2. noticeRow[o].status = "none" /\ OneMore(noticeRow[o].attempts) /\ noticeAtt[o].by = "none"
        /\ noticeAtt[o].step = "none"
  BY <1>1, NoticeTypes DEF RowSound, AttemptSound
<1>3. occ'[o] # "none" /\ \A q \in Notice!Occ \ {o} : occ'[q] = occ[q]
  BY <1>1 DEF NoticeInv, NoticeTyped
<1>4. occ' \in [Notice!Occ -> {"none", "failed", "timeout", "started"}]
  BY <1>1 DEF NoticeInv, NoticeTyped
<1>5. CASE UNCHANGED <<noticeRow, noticeAtt, noticeSends>>
  <2>1. NoticeTyped'
    BY <1>1, <1>4, <1>5 DEF NoticeInv, NoticeTyped
  <2>2. RowSound(o)'
    BY <1>1, <1>2, <1>3, <1>5, NoticeTypes DEF RowSound, OneMore
  <2>3. AttemptSound(o)'
    BY <1>1, <1>5, NoticeTypes DEF AttemptSound, OneMore
  <2>4. NotLost(o) => NotLost(o)'
    BY <1>1, <1>5 DEF NotLost
  <2> QED BY <1>1, <1>2, <1>3, <1>5, <2>1, <2>2, <2>3, <2>4, NoticeTypes, OneNotice
<1>6. CASE /\ sub /\ noticeRow' = [noticeRow EXCEPT ![o] = Notice!NewRow]
              /\ noticeAtt' = Notice!Begun("fast", Notice!Item(o))
           /\ noticeSends' = Notice!HandedOver(Notice!Item(o))
  <2>1. Notice!Item(o) \in NoticeItem /\ Notice!Item(o).id = o /\ OneMore(Notice!Item(o).attempts)
    BY <1>2, NoticeTypes DEF Notice!Item, NoticeItem
  <2>2. /\ noticeAtt' \in [Notice!Occ -> NoticeAttempt] /\ noticeSends' \in [Notice!Occ -> Nat]
        /\ \A q \in Notice!Occ \ {o} : noticeAtt'[q] = noticeAtt[q]
    <3> DEFINE item == Notice!Item(o)
    <3>1. /\ item \in NoticeItem /\ item.id = o /\ OneMore(item.attempts)
          /\ noticeAtt' = Notice!Begun("fast", item) /\ noticeSends' = Notice!HandedOver(item)
      BY <1>6, <2>1
    <3> HIDE DEF item
    <3> QED BY <3>1, BegunSound
  <2>3. noticeAtt'[o].by # "none" /\ noticeAtt'[o].step # "none" /\ noticeAtt'[o].attempts \in Nat
          /\ OneMore(noticeAtt'[o].attempts)
    BY <1>6, <2>1, BegunAttempt
  <2>4. Notice!NewRow \in NoticeRow /\ Notice!NewRow.status = "pending"
          /\ Notice!NewRow.attempts = 0
    BY DEF Notice!NewRow, NoticeRow
  <2>5. /\ noticeRow' \in [Notice!Occ -> NoticeRow] /\ noticeRow'[o] = Notice!NewRow
           /\ \A q \in Notice!Occ \ {o} : noticeRow'[q] = noticeRow[q]
    BY <1>6, <2>4 DEF NoticeInv, NoticeTyped
  <2>6. NoticeTyped'
    BY <1>1, <1>4, <2>2, <2>5 DEF NoticeInv, NoticeTyped
  <2>7. RowSound(o)'
    BY <1>1, <1>3, <2>4, <2>5, NoticeTypes DEF RowSound, OneMore
  <2>8. AttemptSound(o)'
    BY <1>1, <2>3, <2>4, <2>5 DEF AttemptSound, OneMore
  <2>9. NotLost(o)'
    BY <2>4, <2>5 DEF NotLost
  <2> QED BY <1>1, <1>2, <1>3, <1>6, <2>2, <2>4, <2>5, <2>6, <2>7, <2>8, <2>9,
             NoticeTypes, OneNotice
<1> QED BY <1>5, <1>6 DEF Notice!RunFails

LEMMA OutsideStep ==
  ASSUME Notice!NotificationAssumption, NoticeInv, NEW o \in Notice!Occ, Notice!DueTimePasses(o)
         \/ Notice!Starts(o)
  PROVE  NoticeStep
<1>1. PICK e \in {"timeout", "started"} : occ' = [occ EXCEPT ![o] = e]
  BY DEF Notice!DueTimePasses, Notice!Starts
<1>2. UNCHANGED <<sub, noticeRow, noticeAtt, pass, noticeSends, shown, noticeLeft>>
  BY DEF Notice!DueTimePasses, Notice!Starts
<1>3. occ'[o] # "none" /\ (\A q \in Notice!Occ \ {o} : occ'[q] = occ[q])
      /\ occ' \in [Notice!Occ -> {"none", "failed", "timeout", "started"}]
  BY <1>1 DEF NoticeInv, NoticeTyped
<1>4. NoticeTyped'
  BY <1>2, <1>3 DEF NoticeInv, NoticeTyped
<1>5. RowSound(o)' /\ AttemptSound(o)' /\ (NotLost(o) => NotLost(o)')
  BY <1>2, <1>3, NoticeTypes DEF RowSound, AttemptSound, NotLost, OneMore
<1> QED BY <1>2, <1>3, <1>4, <1>5, NoticeTypes, OneNotice

-----------------------------------------------------------------------------
(* The attempts. *)

LEMMA AttemptStep ==
  ASSUME Notice!NotificationAssumption, NoticeInv, NEW o \in Notice!Occ, NEW r \in NoticeRow,
         NEW s \in SUBSET {"im", "session"},
         NEW a \in NoticeAttempt,
         noticeRow' = [noticeRow EXCEPT ![o] = r], shown' = [shown EXCEPT ![o] = s],
             noticeAtt' = [noticeAtt EXCEPT ![o] = a],
         UNCHANGED <<occ, sub, pass, noticeSends, noticeLeft>>,
         noticeRow[o].status # "none", r.status # "none",
         r.attempts + noticeLeft.manual <= MaxTries + MaxManual,
         r.status = "pending" => OneMore(r.attempts), r.status = "failed" => r.attempts < MaxTries,
         r.status = "delivered" => s # {},
         OneMore(a.attempts), a.by = "none" <=> a.step = "none",
         (NotLost(o) /\ r.status = "dead_letter" /\ o \notin NoSession) => s # {}
             \/ a.step = "fallback"
  PROVE  NoticeStep
<1>1. /\ noticeRow' \in [Notice!Occ -> NoticeRow] /\ noticeRow'[o] = r
         /\ (\A q \in Notice!Occ \ {o} : noticeRow'[q] = noticeRow[q])
      /\ noticeAtt' \in [Notice!Occ -> NoticeAttempt] /\ noticeAtt'[o] = a
          /\ (\A q \in Notice!Occ \ {o} : noticeAtt'[q] = noticeAtt[q])
      /\ shown' \in [Notice!Occ -> SUBSET {"im", "session"}] /\ shown'[o] = s
      /\ (\A q \in Notice!Occ \ {o} : shown'[q] = shown[q])
  BY DEF NoticeInv, NoticeTyped
<1>2. NoticeTyped'
  BY <1>1 DEF NoticeInv, NoticeTyped
<1>3. occ[o] # "none"
  BY NoticeTypes DEF RowSound
<1>4. RowSound(o)'
  BY <1>1, <1>3 DEF RowSound, OneMore
<1>5. AttemptSound(o)'
  BY <1>1 DEF AttemptSound, OneMore
<1>6. NotLost(o) => NotLost(o)'
  BY <1>1 DEF NotLost
<1> QED BY <1>1, <1>2, <1>4, <1>5, <1>6, NoticeTypes, OneNotice

LEMMA NoAttemptSound ==
  ASSUME Notice!NotificationAssumption, NoticeInv
  PROVE  /\ Notice!NoAttempt \in NoticeAttempt /\ Notice!NoAttempt.by = "none"
            /\ Notice!NoAttempt.step = "none"
         /\ Notice!NoAttempt.attempts = 0 /\ OneMore(Notice!NoAttempt.attempts)
<1>1. Notice!NoAttempt \in NoticeAttempt /\ Notice!NoAttempt.by = "none"
        /\ Notice!NoAttempt.step = "none" /\ Notice!NoAttempt.attempts = 0
  BY DEF Notice!NoAttempt, NoticeAttempt
<1> QED BY <1>1, NoticeTypes

(* The row of an attempt that has ended.                                   *)
LEMMA EndedAttempt ==
  ASSUME Notice!NotificationAssumption, NoticeInv, NEW o \in Notice!Occ, noticeAtt[o].step # "none",
         NEW st \in {"failed", "delivered", "dead_letter"}
  PROVE  LET r == [status |-> st, attempts |-> noticeAtt[o].attempts + 1, due |-> FALSE] IN
         /\ r \in NoticeRow /\ r.status = st /\ r.attempts = noticeAtt[o].attempts + 1
         /\ r.attempts + noticeLeft.manual <= MaxTries + MaxManual
         /\ noticeRow[o].status # "none" /\ OneMore(noticeAtt[o].attempts)
<1>1. noticeAtt[o].attempts \in Nat /\ AttemptSound(o) /\ noticeLeft.manual \in Nat
        /\ MaxManual \in Nat /\ MaxTries \in Nat
  BY NoticeTypes
<1>2. [status |-> st, attempts |-> noticeAtt[o].attempts + 1, due |-> FALSE] \in NoticeRow
  BY <1>1 DEF NoticeRow
<1>3. noticeAtt[o].attempts + 1 + noticeLeft.manual <= MaxTries + MaxManual
  BY <1>1 DEF AttemptSound, OneMore
<1> QED BY <1>1, <1>2, <1>3 DEF AttemptSound

LEMMA WriteInAppStep ==
  ASSUME Notice!NotificationAssumption, NoticeInv, NEW o \in Notice!Occ, Notice!WriteInApp(o)
  PROVE  NoticeStep
<1> DEFINE st == IF o \in NoSession THEN "dead_letter" ELSE "delivered"
           r == [status |-> st, attempts |-> noticeAtt[o].attempts + 1, due |-> FALSE]
           s == IF o \in NoSession THEN shown[o] ELSE shown[o] \cup {"session"}
<1>1. /\ noticeRow' = [noticeRow EXCEPT ![o] = r] /\ shown' = [shown EXCEPT ![o] = s]
      /\ noticeAtt' = [noticeAtt EXCEPT ![o] = Notice!NoAttempt]
          /\ UNCHANGED <<occ, sub, pass, noticeSends, noticeLeft>> /\ noticeAtt[o].step # "none"
  BY DEF Notice!WriteInApp, NoticeInv, NoticeTyped
<1>2. st \in {"failed", "delivered", "dead_letter"} /\ (st = "delivered" => s # {})
        /\ (st = "dead_letter" => o \in NoSession)
      /\ st # "failed"
  OBVIOUS
<1>3. s \in SUBSET {"im", "session"}
  BY DEF NoticeInv, NoticeTyped
<1> HIDE DEF st, s
<1>4. /\ r \in NoticeRow /\ r.status = st /\ r.attempts + noticeLeft.manual <= MaxTries + MaxManual
      /\ noticeRow[o].status # "none"
  BY <1>1, <1>2, EndedAttempt
<1> HIDE DEF r
<1> QED BY <1>1, <1>2, <1>3, <1>4, NoAttemptSound, AttemptStep

LEMMA SentStep ==
  ASSUME Notice!NotificationAssumption, NoticeInv, NEW o \in Notice!Occ, Notice!Sent(o)
  PROVE  NoticeStep
<1> DEFINE r == [status |-> "delivered", attempts |-> noticeAtt[o].attempts + 1, due |-> FALSE]
           s == shown[o] \cup {"im"}
<1>1. /\ noticeRow' = [noticeRow EXCEPT ![o] = r] /\ shown' = [shown EXCEPT ![o] = s]
      /\ noticeAtt' = [noticeAtt EXCEPT ![o] = Notice!NoAttempt]
          /\ UNCHANGED <<occ, sub, pass, noticeSends, noticeLeft>> /\ noticeAtt[o].step # "none"
  BY DEF Notice!Sent, NoticeInv, NoticeTyped
<1>2. s # {} /\ s \in SUBSET {"im", "session"}
  BY DEF NoticeInv, NoticeTyped
<1>3. /\ r \in NoticeRow /\ r.status = "delivered"
         /\ r.attempts + noticeLeft.manual <= MaxTries + MaxManual
      /\ noticeRow[o].status # "none"
  BY <1>1, EndedAttempt
<1> HIDE DEF r, s
<1> QED BY <1>1, <1>2, <1>3, NoAttemptSound, AttemptStep

LEMMA SendFailsStep ==
  ASSUME Notice!NotificationAssumption, NoticeInv, NEW o \in Notice!Occ, Notice!SendFails(o)
  PROVE  NoticeStep
<1> DEFINE n == noticeAtt[o].attempts + 1
           st == IF n >= MaxTries THEN "dead_letter" ELSE "failed"
           r == [status |-> st, attempts |-> noticeAtt[o].attempts + 1, due |-> FALSE]
           a == IF n >= MaxTries THEN [noticeAtt[o] EXCEPT !.step = "fallback"] ELSE Notice!NoAttempt
           s == shown[o]
<1>1. /\ noticeRow' = [noticeRow EXCEPT ![o] = r] /\ shown' = shown
      /\ noticeAtt' = [noticeAtt EXCEPT ![o] = a] /\ UNCHANGED <<occ, sub, pass, noticeSends,
          noticeLeft>> /\ noticeAtt[o].step = "send"
  BY DEF Notice!SendFails
<1>2. s \in SUBSET {"im", "session"} /\ shown' = [shown EXCEPT ![o] = s]
  BY <1>1 DEF NoticeInv, NoticeTyped
<1>3. noticeAtt[o] \in NoticeAttempt /\ noticeAtt[o].attempts \in Nat /\ AttemptSound(o)
        /\ MaxTries \in Nat
  BY NoticeTypes
<1>4. /\ st \in {"failed", "dead_letter"} /\ (st = "failed" => n < MaxTries)
      /\ (st = "dead_letter" => n >= MaxTries)
  BY <1>3
<1>5. /\ a \in NoticeAttempt /\ OneMore(a.attempts) /\ (a.by = "none" <=> a.step = "none")
      /\ st = "dead_letter" => a.step = "fallback"
  <2>1. CASE n >= MaxTries
    <3>1. a = [noticeAtt[o] EXCEPT !.step = "fallback"]
      BY <2>1
    <3>2. a \in NoticeAttempt /\ a.attempts = noticeAtt[o].attempts /\ a.by = noticeAtt[o].by
            /\ a.step = "fallback"
      BY <1>3, <3>1 DEF NoticeAttempt
    <3> QED BY <1>1, <1>3, <3>2 DEF AttemptSound
  <2>2. CASE ~(n >= MaxTries)
    BY <1>4, <2>2, NoAttemptSound
  <2> QED BY <2>1, <2>2
<1> HIDE DEF st, s, a
<1>6. /\ r \in NoticeRow /\ r.status = st /\ r.attempts = n
         /\ r.attempts + noticeLeft.manual <= MaxTries + MaxManual
      /\ noticeRow[o].status # "none"
  BY <1>1, <1>4, EndedAttempt
<1> HIDE DEF r, n
<1> QED BY <1>1, <1>2, <1>4, <1>5, <1>6, AttemptStep

LEMMA FallbackStep ==
  ASSUME Notice!NotificationAssumption, NoticeInv, NEW o \in Notice!Occ, Notice!Fallback(o)
  PROVE  NoticeStep
<1> DEFINE s == IF o \in NoSession THEN shown[o] ELSE shown[o] \cup {"session"}
<1>1. /\ noticeRow' = [noticeRow EXCEPT ![o] = noticeRow[o]] /\ shown' = [shown EXCEPT ![o] = s]
      /\ noticeAtt' = [noticeAtt EXCEPT ![o] = Notice!NoAttempt]
          /\ UNCHANGED <<occ, sub, pass, noticeSends, noticeLeft>> /\ noticeAtt[o].step # "none"
  BY DEF Notice!Fallback, NoticeInv, NoticeTyped
<1>2. /\ s \in SUBSET {"im", "session"} /\ (o \notin NoSession => s # {})
         /\ (shown[o] # {} => s # {})
  BY DEF NoticeInv, NoticeTyped
<1>3. noticeRow[o] \in NoticeRow /\ RowSound(o) /\ AttemptSound(o)
  BY NoticeTypes
<1>4. noticeRow[o].status # "none"
  BY <1>1, <1>3 DEF AttemptSound
<1> HIDE DEF s
<1> QED BY <1>1, <1>2, <1>3, <1>4, NoAttemptSound, AttemptStep DEF RowSound

LEMMA BackoffStep ==
  ASSUME Notice!NotificationAssumption, NoticeInv, NEW o \in Notice!Occ, Notice!BackoffEnds(o)
  PROVE  NoticeStep
<1> DEFINE r == [noticeRow[o] EXCEPT !.due = TRUE]
           s == shown[o]
           a == noticeAtt[o]
<1>1. /\ noticeRow' = [noticeRow EXCEPT ![o] = r] /\ UNCHANGED <<occ, sub, pass, noticeSends,
         noticeLeft>> /\ noticeRow[o].status = "failed"
      /\ shown' = [shown EXCEPT ![o] = s] /\ noticeAtt' = [noticeAtt EXCEPT ![o] = a]
  BY DEF Notice!BackoffEnds, NoticeInv, NoticeTyped
<1>2. noticeRow[o] \in NoticeRow /\ RowSound(o) /\ AttemptSound(o) /\ a \in NoticeAttempt
  BY NoticeTypes
<1>3. r \in NoticeRow /\ r.status = "failed" /\ r.attempts = noticeRow[o].attempts
  BY <1>1, <1>2 DEF NoticeRow
<1>4. s \in SUBSET {"im", "session"}
  BY DEF NoticeInv, NoticeTyped
<1>5. OneMore(a.attempts) /\ (a.by = "none" <=> a.step = "none")
  BY <1>2 DEF AttemptSound
<1> HIDE DEF r, s, a
<1> QED BY <1>1, <1>2, <1>3, <1>4, <1>5, AttemptStep DEF RowSound

LEMMA RetryDeliveryStep ==
  ASSUME Notice!NotificationAssumption, NoticeInv, NEW o \in Notice!Occ, Notice!RetryDelivery(o)
  PROVE  NoticeStep
<1> DEFINE r == [noticeRow[o] EXCEPT !.status = "pending", !.due = FALSE]
<1>1. /\ noticeLeft.manual > 0 /\ noticeRow[o].status # "none"
         /\ noticeRow' = [noticeRow EXCEPT ![o] = r]
      /\ noticeAtt' = Notice!Begun("fast", Notice!Item(o))
          /\ noticeSends' = Notice!HandedOver(Notice!Item(o))
      /\ noticeLeft' = [noticeLeft EXCEPT !.manual = noticeLeft.manual - 1]
          /\ UNCHANGED <<occ, sub, pass, shown>>
  BY DEF Notice!RetryDelivery, NoticeInv, NoticeTyped
<1>2. /\ noticeRow[o] \in NoticeRow /\ noticeRow[o].attempts \in Nat /\ RowSound(o)
         /\ AttemptSound(o)
      /\ noticeLeft.manual \in 0..MaxManual /\ MaxManual \in Nat /\ MaxTries \in Nat
  BY NoticeTypes
<1>3. r \in NoticeRow /\ r.status = "pending" /\ r.attempts = noticeRow[o].attempts
  BY <1>2 DEF NoticeRow
<1> HIDE DEF r
<1>4. /\ noticeRow' \in [Notice!Occ -> NoticeRow] /\ noticeRow'[o] = r
         /\ \A q \in Notice!Occ \ {o} : noticeRow'[q] = noticeRow[q]
  BY <1>1, <1>3 DEF NoticeInv, NoticeTyped
<1>5. noticeLeft' \in NoticeLeft /\ noticeLeft'.manual = noticeLeft.manual - 1
  BY <1>1, <1>2 DEF NoticeInv, NoticeTyped, NoticeLeft
<1>6. OneMore(noticeRow[o].attempts)'
  BY <1>2, <1>3, <1>4, <1>5 DEF OneMore, RowSound
<1>7. /\ Notice!Begun("fast", Notice!Item(o)) \in [Notice!Occ -> NoticeAttempt]
         /\ Notice!HandedOver(Notice!Item(o)) \in [Notice!Occ -> Nat]
      /\ (\A q \in Notice!Occ \ {o} : Notice!Begun("fast", Notice!Item(o))[q] = noticeAtt[q])
      /\ Notice!Begun("fast", Notice!Item(o))[o] \in {noticeAtt[o],
          [by |-> "fast", attempts |-> noticeRow[o].attempts, step |-> "send"]}
      /\ (noticeAtt[o].by # "none" => Notice!Begun("fast", Notice!Item(o))[o] = noticeAtt[o])
      /\ (noticeAtt[o].by = "none" => Notice!Begun("fast", Notice!Item(o))[o].step = "send")
  <2>1. Notice!Item(o).id = o /\ Notice!Item(o).attempts = noticeRow[o].attempts
    BY DEF Notice!Item
  <2>2. [by |-> "fast", attempts |-> noticeRow[o].attempts, step |-> "send"] \in NoticeAttempt
    BY <1>2 DEF NoticeAttempt
  <2>3. noticeAtt \in [Notice!Occ -> NoticeAttempt] /\ noticeSends \in [Notice!Occ -> Nat]
    BY DEF NoticeInv, NoticeTyped
  <2>4. Notice!HandedOver(Notice!Item(o)) \in [Notice!Occ -> Nat]
    BY <2>1, <2>3 DEF Notice!HandedOver
  <2> HIDE DEF Notice!Item
  <2> QED BY <2>1, <2>2, <2>3, <2>4 DEF Notice!Begun
<1>8. NoticeTyped'
  BY <1>1, <1>4, <1>5, <1>7 DEF NoticeInv, NoticeTyped
<1>9. occ[o] # "none"
  BY <1>1, <1>2 DEF RowSound
<1>10. RowSound(o)'
  BY <1>1, <1>2, <1>3, <1>4, <1>5, <1>6, <1>9 DEF RowSound, OneMore
<1>11. AttemptSound(o)'
  <2>1. CASE noticeAtt[o].by # "none"
    <3>1. noticeAtt'[o] = noticeAtt[o]
      BY <1>1, <1>7, <2>1
    <3> QED BY <1>2, <1>3, <1>4, <1>5, <2>1, <3>1, NoticeTypes DEF AttemptSound, OneMore
  <2>2. CASE noticeAtt[o].by = "none"
    <3>1. noticeAtt[o].step = "none"
      BY <1>2, <2>2 DEF AttemptSound
    <3>2. noticeAtt'[o] = [by |-> "fast", attempts |-> noticeRow[o].attempts, step |-> "send"]
      BY <1>1, <1>7, <2>2, <3>1
    <3>3. noticeAtt'[o].by = "fast" /\ noticeAtt'[o].attempts = noticeRow[o].attempts
            /\ noticeAtt'[o].step = "send"
      BY <3>2
    <3>4. OneMore(noticeAtt[o].attempts)'
      BY <1>2, <1>5, <3>3 DEF OneMore, RowSound
    <3> QED BY <1>3, <1>4, <3>3, <3>4 DEF AttemptSound
  <2> QED BY <2>1, <2>2
<1>12. NotLost(o)'
  BY <1>3, <1>4 DEF NotLost
<1>13. noticeLeft'.manual <= noticeLeft.manual
  BY <1>2, <1>5
<1> QED BY <1>1, <1>3, <1>4, <1>7, <1>8, <1>10, <1>11, <1>12, <1>13, OneNotice

LEMMA SettingStep ==
  ASSUME Notice!NotificationAssumption, NoticeInv, NEW enabled \in BOOLEAN,
         Notice!SetFailureNotificationEnabled(enabled)
  PROVE  NoticeStep
<1>1. /\ noticeLeft.switches > 0 /\ sub' = enabled
         /\ noticeLeft' = [noticeLeft EXCEPT !.switches = noticeLeft.switches - 1]
      /\ UNCHANGED <<occ, noticeRow, noticeAtt, pass, noticeSends, shown>>
  BY DEF Notice!SetFailureNotificationEnabled, NoticeInv, NoticeTyped
<1>2. noticeLeft' \in NoticeLeft /\ noticeLeft'.manual = noticeLeft.manual
  BY <1>1 DEF NoticeInv, NoticeTyped, NoticeLeft, Notice!NotificationAssumption
<1>3. NoticeTyped'
  BY <1>1, <1>2 DEF NoticeInv, NoticeTyped
<1>4. \A o \in Notice!Occ : RowSound(o)' /\ AttemptSound(o)' /\ (NotLost(o) => NotLost(o)')
  BY <1>1, <1>2, NoticeTypes DEF RowSound, AttemptSound, NotLost, OneMore
<1>5. \A p \in Notice!Passes : TodoSound(p)'
  BY <1>1, <1>2, NoticeTypes DEF TodoSound, OneMore
<1> QED BY <1>1, <1>3, <1>4, <1>5 DEF NoticeStep, NoticeInv, Notice!DisabledIsQuiet

-----------------------------------------------------------------------------
(* The passes. *)

(* A list that is read.                                                    *)
LEMMA ReadStep ==
  ASSUME Notice!NotificationAssumption, NoticeInv, NEW p \in Notice!Passes, Notice!StartPass(p)
         \/ Notice!NextStage(p)
  PROVE  NoticeStep
<1>1. PICK s \in {"idle", "runs", "missed", "retry"} : pass' = [pass EXCEPT ![p] = Notice!Stage(s)]
  BY DEF Notice!StartPass, Notice!NextStage, Notice!After, Notice!Ready, NoticeInv,
     NoticeTyped, NoticePass
<1>2. UNCHANGED <<occ, sub, noticeRow, noticeAtt, noticeSends, shown, noticeLeft>>
  BY DEF Notice!StartPass, Notice!NextStage
<1>3. /\ pass' \in [Notice!Passes -> NoticePass] /\ pass'[p] = Notice!Stage(s)
      /\ \A q \in Notice!Passes \ {p} : pass'[q] = pass[q]
  BY <1>1, StageSound DEF NoticeInv, NoticeTyped
<1>4. NoticeTyped'
  BY <1>2, <1>3 DEF NoticeInv, NoticeTyped
<1>5. \A o \in Notice!Occ : RowSound(o)' /\ AttemptSound(o)' /\ (NotLost(o) => NotLost(o)')
  BY <1>2, NoticeTypes DEF RowSound, AttemptSound, NotLost, OneMore
<1>6. TodoSound(p)'
  BY <1>2, <1>3, StageSound DEF TodoSound, OneMore
<1>7. \A q \in Notice!Passes \ {p} : TodoSound(q)'
  BY <1>2, <1>3, NoticeTypes DEF TodoSound, OneMore
<1> QED BY <1>2, <1>4, <1>5, <1>6, <1>7 DEF NoticeStep, NoticeInv, Notice!DisabledIsQuiet

LEMMA PassStepStep ==
  ASSUME Notice!NotificationAssumption, NoticeInv, NEW p \in Notice!Passes, Notice!PassStep(p)
  PROVE  NoticeStep
<1> DEFINE scan == pass[p].stage \in {"runs", "missed"}
<1>1. pass[p] \in NoticePass /\ TodoSound(p) /\ pass[p].todo # {} /\ pass[p].stage # "idle"
  BY NoticeTypes DEF Notice!PassStep, Notice!Ready
<1>2. pass[p].todo \in SUBSET NoticeItem
  BY <1>1 DEF NoticePass
<1>3. PICK item \in pass[p].todo : item = Notice!First(pass[p].todo)
  BY <1>1, <1>2, FirstItem
<1> DEFINE o == item.id
<1>4. /\ pass' = [pass EXCEPT ![p].todo = pass[p].todo \ {item}]
         /\ UNCHANGED <<occ, sub, shown, noticeLeft>>
      /\ \/ scan /\ Notice!Wanted(o) /\ noticeRow' = [noticeRow EXCEPT ![o] = Notice!NewRow]
            /\ noticeAtt' = Notice!Begun(p, item) /\ noticeSends' = Notice!HandedOver(item)
         \/ ~scan /\ noticeRow' = noticeRow /\ noticeAtt' = Notice!Begun(p, item)
             /\ noticeSends' = Notice!HandedOver(item)
         \/ UNCHANGED <<noticeRow, noticeAtt, noticeSends>>
  BY <1>3 DEF Notice!PassStep, NoticeInv, NoticeTyped
<1>5. /\ item \in NoticeItem /\ o \in Notice!Occ /\ OneMore(item.attempts) /\ occ[o] # "none"
      /\ ~scan => noticeRow[o].status # "none"
  <2>1. item \in NoticeItem /\ o \in Notice!Occ
    BY <1>2, <1>3 DEF NoticeItem
  <2>2. ~scan => pass[p].stage = "retry"
    BY <1>1 DEF NoticePass
  <2> QED BY <1>1, <1>3, <2>1, <2>2 DEF TodoSound
<1> HIDE DEF scan
<1>6. /\ pass' \in [Notice!Passes -> NoticePass]
      /\ \A q \in Notice!Passes : pass'[q].stage = pass[q].stage
          /\ pass'[q].todo \subseteq pass[q].todo
  BY <1>4 DEF NoticeInv, NoticeTyped, NoticePass
<1>7. p \in {"fast", "maintenance", "retry"}
  BY DEF Notice!Passes
<1>8. RowSound(o) /\ AttemptSound(o) /\ noticeLeft.manual \in Nat
  BY <1>5, NoticeTypes
<1>9. CASE /\ noticeAtt' = Notice!Begun(p, item) /\ noticeSends' = Notice!HandedOver(item)
           /\ \/ scan /\ Notice!Wanted(o) /\ noticeRow' = [noticeRow EXCEPT ![o] = Notice!NewRow]
              \/ ~scan /\ noticeRow' = noticeRow
  <2>1. /\ noticeAtt' \in [Notice!Occ -> NoticeAttempt] /\ noticeSends' \in [Notice!Occ -> Nat]
        /\ \A q \in Notice!Occ \ {o} : noticeAtt'[q] = noticeAtt[q]
    BY <1>5, <1>7, <1>9, BegunSound
  <2>2. /\ noticeAtt'[o].by # "none" /\ noticeAtt'[o].step # "none"
           /\ noticeAtt'[o].attempts \in Nat /\ OneMore(noticeAtt'[o].attempts)
        /\ noticeAtt[o].step = "fallback" => noticeAtt'[o].step = "fallback"
    BY <1>5, <1>7, <1>9, BegunAttempt
  <2>3. Notice!NewRow \in NoticeRow /\ Notice!NewRow.status = "pending"
          /\ Notice!NewRow.attempts = 0
    BY DEF Notice!NewRow, NoticeRow
  <2>4. /\ noticeRow' \in [Notice!Occ -> NoticeRow]
           /\ (\A q \in Notice!Occ \ {o} : noticeRow'[q] = noticeRow[q])
        /\ \/ sub /\ noticeRow[o].status = "none" /\ noticeRow'[o] = Notice!NewRow
           \/ noticeRow[o].status # "none" /\ noticeRow'[o] = noticeRow[o]
    BY <1>5, <1>9, <2>3 DEF NoticeInv, NoticeTyped, Notice!Wanted
  <2>5. NoticeTyped'
    BY <1>4, <1>6, <2>1, <2>4 DEF NoticeInv, NoticeTyped
  <2>6. RowSound(o)'
    BY <1>4, <1>5, <1>8, <2>3, <2>4, NoticeTypes DEF RowSound, OneMore
  <2>7. AttemptSound(o)'
    BY <1>4, <2>2, <2>3, <2>4 DEF AttemptSound, OneMore
  <2>8. NotLost(o) => NotLost(o)'
    BY <1>4, <2>2, <2>3, <2>4 DEF NotLost
  <2>9. /\ noticeRow[o].status # "none" => noticeRow'[o].status # "none"
        /\ ~sub /\ noticeRow[o].status = "none" => noticeRow'[o].status = "none"
    BY <2>3, <2>4
  <2> HIDE DEF o
  <2> QED BY <1>4, <1>5, <1>6, <1>8, <2>1, <2>4, <2>5, <2>6, <2>7, <2>8, <2>9, OneNotice
<1>10. CASE UNCHANGED <<noticeRow, noticeAtt, noticeSends>>
  <2>1. NoticeTyped'
    BY <1>4, <1>6, <1>10 DEF NoticeInv, NoticeTyped
  <2>2. RowSound(o)' /\ AttemptSound(o)' /\ (NotLost(o) => NotLost(o)')
    BY <1>4, <1>5, <1>8, <1>10 DEF RowSound, AttemptSound, NotLost, OneMore
  <2> HIDE DEF o
  <2> QED BY <1>4, <1>5, <1>6, <1>8, <1>10, <2>1, <2>2, OneNotice
<1> QED BY <1>4, <1>9, <1>10

LEMMA NoticeCrashStep ==
  ASSUME Notice!NotificationAssumption, NoticeInv, Notice!Crash
  PROVE  NoticeStep
<1>1. /\ noticeLeft.crashes > 0 /\ noticeLeft' = [noticeLeft EXCEPT !.crashes = noticeLeft.crashes - 1]
      /\ noticeAtt' = [o \in Notice!Occ |-> Notice!NoAttempt]
          /\ pass' = [p \in Notice!Passes |-> Notice!IdlePass]
      /\ UNCHANGED <<occ, sub, noticeRow, noticeSends, shown>>
  BY DEF Notice!Crash, NoticeInv, NoticeTyped
<1>2. noticeLeft' \in NoticeLeft /\ noticeLeft'.manual = noticeLeft.manual /\ MaxKills # 0
  BY <1>1 DEF NoticeInv, NoticeTyped, NoticeLeft, Notice!NotificationAssumption
<1>3. Notice!IdlePass \in NoticePass /\ Notice!IdlePass.todo = {}
  BY DEF Notice!IdlePass, NoticePass
<1>4. NoticeTyped'
  BY <1>1, <1>2, <1>3, NoAttemptSound DEF NoticeInv, NoticeTyped
<1>5. \A o \in Notice!Occ : RowSound(o)'
  BY <1>1, <1>2, NoticeTypes DEF RowSound, OneMore
<1>6. \A o \in Notice!Occ : AttemptSound(o)'
  BY <1>1, <1>2, NoAttemptSound DEF AttemptSound, OneMore
<1>7. \A p \in Notice!Passes : TodoSound(p)'
  BY <1>1, <1>3 DEF TodoSound
<1> QED BY <1>1, <1>2, <1>4, <1>5, <1>6, <1>7 DEF NoticeStep, NoticeInv,
           Notice!DisabledIsQuiet

-----------------------------------------------------------------------------
LEMMA NoticeNextStep ==
  ASSUME Notice!NotificationAssumption, NoticeInv, [Notice!Next]_(Notice!vars)
  PROVE  NoticeStep \/ UNCHANGED Notice!vars
<1>1. ASSUME NEW o \in Notice!Occ, Notice!Attempt(o)
      PROVE  NoticeStep
  BY <1>1, WriteInAppStep, SentStep, SendFailsStep, FallbackStep DEF Notice!Attempt
<1>2. ASSUME NEW p \in Notice!Passes, Notice!PassWork(p)
      PROVE  NoticeStep
  BY <1>2, ReadStep, PassStepStep DEF Notice!PassWork
<1> QED BY <1>1, <1>2, RunFailsStep, OutsideStep, BackoffStep, RetryDeliveryStep,
           SettingStep,
           NoticeCrashStep DEF Notice!Next

LEMMA NoticeInit ==
  ASSUME Notice!NotificationAssumption, Notice!Init
  PROVE  NoticeInv /\ \A o \in Notice!Occ : NotLost(o)
<1>1. Notice!NoRow \in NoticeRow /\ Notice!NoRow.status = "none" /\ Notice!NoRow.attempts = 0
  BY DEF Notice!NoRow, NoticeRow
<1>2. Notice!NoAttempt \in NoticeAttempt /\ Notice!NoAttempt.by = "none"
        /\ Notice!NoAttempt.step = "none" /\ Notice!NoAttempt.attempts = 0
  BY DEF Notice!NoAttempt, NoticeAttempt
<1>3. Notice!IdlePass \in NoticePass /\ Notice!IdlePass.todo = {}
  BY DEF Notice!IdlePass, NoticePass
<1>4. noticeLeft \in NoticeLeft /\ noticeLeft.manual = MaxManual
  BY DEF Notice!Init, NoticeLeft, Notice!NotificationAssumption
<1>5. NoticeTyped
  BY <1>1, <1>2, <1>3, <1>4 DEF Notice!Init, NoticeTyped
<1>6. OneMore(0)
  BY <1>4 DEF OneMore, Notice!NotificationAssumption
<1>7. \A o \in Notice!Occ : RowSound(o) /\ AttemptSound(o) /\ NotLost(o)
  BY <1>1, <1>2, <1>4, <1>6 DEF Notice!Init, RowSound, AttemptSound, NotLost, OneMore,
     Notice!NotificationAssumption
<1> QED BY <1>3, <1>5, <1>7 DEF NoticeInv, TodoSound, Notice!Init

(* What the invariant says of the properties.                              *)
LEMMA NoticeGives ==
  ASSUME Notice!NotificationAssumption, NoticeInv
  PROVE  Notice!TypeOK /\ Notice!DeliveredIsShown /\ ((\A o \in Notice!Occ : NotLost(o))
         => Notice!GivenUpIsShown)
<1>1. noticeRow \in [Notice!Occ -> [status : {"none", "pending", "failed"} \cup Notice!Settled,
                                    attempts : 0..(MaxTries + MaxManual), due : BOOLEAN]]
  <2>1. ASSUME NEW o \in Notice!Occ
        PROVE  noticeRow[o] \in [status : {"none", "pending", "failed"} \cup Notice!Settled,
                                 attempts : 0..(MaxTries + MaxManual), due : BOOLEAN]
    <3>1. noticeRow[o] \in NoticeRow /\ noticeRow[o].attempts \in 0..(MaxTries + MaxManual)
      BY NoticeTypes DEF RowSound
    <3> QED BY <3>1 DEF NoticeRow, Notice!Settled
  <2> QED BY <2>1 DEF NoticeInv, NoticeTyped
<1>2. noticeAtt \in [Notice!Occ -> [by : {"none", "fast"} \cup Notice!Passes,
        attempts : 0..(MaxTries + MaxManual),
                                    step : {"none", "send", "fallback"}]]
  <2>1. ASSUME NEW o \in Notice!Occ
        PROVE  noticeAtt[o] \in [by : {"none", "fast"} \cup Notice!Passes,
               attempts : 0..(MaxTries + MaxManual),
                                 step : {"none", "send", "fallback"}]
    <3>1. noticeAtt[o] \in NoticeAttempt /\ noticeAtt[o].attempts \in 0..(MaxTries + MaxManual)
      BY NoticeTypes DEF AttemptSound, OneMore
    <3> QED BY <3>1 DEF NoticeAttempt, Notice!Passes
  <2> QED BY <2>1 DEF NoticeInv, NoticeTyped
<1>3. Notice!TypeOK
  BY <1>1, <1>2 DEF Notice!TypeOK, NoticeInv, NoticeTyped, NoticePass, NoticeItem,
     NoticeLeft
<1>4. Notice!DeliveredIsShown
  BY NoticeTypes DEF Notice!DeliveredIsShown, RowSound
<1>5. (\A o \in Notice!Occ : NotLost(o)) => Notice!GivenUpIsShown
  <2>1. \A o \in Notice!Occ : noticeAtt[o].by = "none" => noticeAtt[o].step # "fallback"
    BY NoticeTypes DEF AttemptSound
  <2> QED BY <2>1 DEF Notice!GivenUpIsShown, NotLost
<1> QED BY <1>3, <1>4, <1>5

(* A failure notice is never lost: what is recorded as delivered was       *)
(* shown, what is given up is in the anchor session unless the process     *)
(* dies in between, nothing is announced while the setting is off, and no  *)
(* delivery is tried more often than its attempts and the manual retries   *)
(* allow: any occurrences, limits, attempts and retries                    *)
(* (task-notification-service.ts).                                         *)
THEOREM NoticesAreShown ==
  ASSUME Notice!NotificationAssumption
  PROVE  Notice!Spec => /\ []Notice!TypeOK /\ []Notice!DeliveredIsShown
                           /\ [](MaxKills = 0 => Notice!GivenUpIsShown)
                        /\ [][Notice!DisabledIsQuiet]_(Notice!vars)
<1> DEFINE Found == MaxKills = 0 => \A o \in Notice!Occ : NotLost(o)
           I == NoticeInv /\ Found
<1>1. Notice!Init => I
  BY NoticeInit
<1>2. I /\ [Notice!Next]_(Notice!vars) => I' /\ [Notice!DisabledIsQuiet]_(Notice!vars)
  <2> SUFFICES ASSUME I, [Notice!Next]_(Notice!vars)
               PROVE  I' /\ [Notice!DisabledIsQuiet]_(Notice!vars)
    OBVIOUS
  <2>1. CASE NoticeStep
    BY <2>1 DEF NoticeStep
  <2>2. CASE UNCHANGED Notice!vars
    <3>1. NoticeInv'
      BY <2>2 DEF NoticeInv, NoticeTyped, RowSound, AttemptSound, TodoSound, OneMore,
         Notice!vars
    <3>2. Found'
      BY <2>2 DEF NotLost, Notice!vars
    <3> QED BY <2>2, <3>1, <3>2
  <2> QED BY <2>1, <2>2, NoticeNextStep
<1>3. I => Notice!TypeOK /\ Notice!DeliveredIsShown /\ (MaxKills = 0 => Notice!GivenUpIsShown)
  BY NoticeGives
<1> HIDE DEF I
<1> QED BY <1>1, <1>2, <1>3, PTL DEF Notice!Spec

-----------------------------------------------------------------------------
(* The scheduler and the auto-upgrader.                                    *)

(* The types of the scheduler's variables.                                 *)
SchedTyped ==
  /\ arrived \in Nat /\ arrived <= MaxArrivals
  /\ queue \subseteq [id : 1..arrived, session : Sched!Sessions, bad : BOOLEAN]
  /\ \A r, q \in queue : r.id = q.id => r = q
  /\ active \subseteq Sched!Sessions
  /\ {passing, wake} \subseteq BOOLEAN
  /\ schedUp \in {Sched!Idle} \cup [pc : {"settling", "stopping"}, user : Users]

(* The queue has no more rows than messages arrived, the pool no more      *)
(* turns than the limit, and a row fails to parse only if rows may.        *)
SchedBounds ==
  /\ IsFiniteSet(queue) /\ Cardinality(queue) <= arrived
  /\ IsFiniteSet(active) /\ Cardinality(active) <= Limit
  /\ \A r \in queue : r.bad => MayBreak

(* No turn of a user runs while that user's runtime is stopped.            *)
SchedIdle == schedUp.pc = "stopping" => \A s \in active : s[1] # schedUp.user

SchedInv == SchedTyped /\ SchedBounds /\ SchedIdle

(* The Cardinality the scheduler's module has is the one of the library.   *)
LEMMA SameCardinality == \A S : Sched!Cardinality(S) = Cardinality(S)
BY DEF Sched!Cardinality, Cardinality

LEMMA SchedInvInit == Sched!SchedulerAssumption /\ Sched!Init => SchedInv
<1> SUFFICES ASSUME Sched!SchedulerAssumption, Sched!Init PROVE SchedInv
  OBVIOUS
<1>1. IsFiniteSet({}) /\ Cardinality({}) = 0
  BY FS_EmptySet
<1>2. Limit \in Nat /\ MaxArrivals \in Nat
  BY DEF Sched!SchedulerAssumption
<1>3. {passing, wake} \subseteq BOOLEAN
  BY Zenon DEF Sched!Init
<1>4. SchedTyped
  BY <1>2, <1>3 DEF Sched!Init, SchedTyped
<1>5. SchedBounds
  BY <1>1, <1>2 DEF Sched!Init, SchedBounds
<1>6. SchedIdle
  BY DEF Sched!Init, SchedIdle, Sched!Idle
<1> QED BY <1>4, <1>5, <1>6 DEF SchedInv

(* The oldest of some queued rows is one of them.                          *)
LEMMA OldestOfRows ==
  ASSUME SchedTyped, NEW S \in SUBSET queue, S # {}
  PROVE  Sched!Oldest(S) \in S
<1> DEFINE T == {r.id : r \in S}
<1>1. T \in SUBSET Nat /\ T # {}
  BY DEF SchedTyped
<1>2. PICK x \in T : \A y \in T : x <= y
  BY <1>1, LeastOfNumbers
<1>3. \E r \in S : \A q \in S : r.id <= q.id
  BY <1>2
<1> QED BY <1>3 DEF Sched!Oldest

(* What the process keeps of the candidates.                               *)
LEMMA SelectableRows ==
  /\ Sched!Selectable \subseteq queue
  /\ \A r \in Sched!Selectable : r.session \notin active /\ r.session[1] \notin Sched!Paused
BY DEF Sched!Selectable, Sched!Candidates, Sched!FirstRows

(* A user none of whose sessions is active.                                *)
LEMMA NobodyActive ==
  ASSUME IsFiniteSet(active), NEW u
  PROVE  Sched!UserActive(u) = 0 <=> \A s \in active : s[1] # u
<1> DEFINE A == {s \in active : s[1] = u}
<1>1. IsFiniteSet(A)
  BY FS_Subset
<1>2. Cardinality(A) = 0 <=> A = {}
  BY <1>1, FS_EmptySet
<1> QED BY <1>2, SameCardinality DEF Sched!UserActive

(* Rows that leave the queue.                                              *)
LEMMA SchedFewer ==
  ASSUME SchedTyped, SchedBounds, queue' \subseteq queue, arrived' = arrived
  PROVE  /\ IsFiniteSet(queue') /\ Cardinality(queue') <= arrived'
         /\ \A r \in queue' : r.bad => MayBreak
         /\ queue' \subseteq [id : 1..arrived', session : Sched!Sessions, bad : BOOLEAN]
         /\ \A r, q \in queue' : r.id = q.id => r = q
<1>1. IsFiniteSet(queue') /\ Cardinality(queue') <= Cardinality(queue)
  BY FS_Subset DEF SchedBounds
<1>2. Cardinality(queue') \in Nat /\ Cardinality(queue) \in Nat
  BY <1>1, FS_CardinalityType DEF SchedBounds
<1> QED BY <1>1, <1>2 DEF SchedTyped, SchedBounds

LEMMA SchedInvStep == Sched!SchedulerAssumption /\ SchedInv /\ [Sched!Next]_(Sched!vars)
  => SchedInv'
<1> SUFFICES ASSUME Sched!SchedulerAssumption, SchedInv, [Sched!Next]_(Sched!vars)
             PROVE  SchedInv'
  OBVIOUS
<1>0. SchedTyped /\ SchedBounds /\ SchedIdle
  BY DEF SchedInv
<1>a. /\ MaxArrivals \in Nat /\ Limit \in Nat /\ MayBreak \in BOOLEAN
      /\ Cardinality(queue) \in Nat /\ Cardinality(active) \in Nat
  BY <1>0, FS_CardinalityType DEF Sched!SchedulerAssumption, SchedBounds
<1>1. ASSUME NEW s \in Sched!Sessions, NEW bad \in BOOLEAN, Sched!Arrive(s, bad)
      PROVE  SchedInv'
  <2> DEFINE r0 == [id |-> arrived + 1, session |-> s, bad |-> bad]
  <2>1. queue' = queue \cup {r0} /\ arrived' = arrived + 1 /\ arrived' <= MaxArrivals
    BY <1>0, <1>a, <1>1 DEF Sched!Arrive, SchedTyped
  <2>2. r0 \notin queue /\ r0 \in [id : 1..(arrived + 1), session : Sched!Sessions, bad : BOOLEAN]
    BY <1>0 DEF SchedTyped
  <2>3. IsFiniteSet(queue') /\ Cardinality(queue') = Cardinality(queue) + 1
    BY <1>0, <2>1, <2>2, FS_AddElement DEF SchedBounds
  <2>4. SchedTyped'
    <3>1. queue' \subseteq [id : 1..arrived', session : Sched!Sessions, bad : BOOLEAN]
      BY <1>0, <2>1, <2>2 DEF SchedTyped
    <3>2. \A q \in queue : q.id \in 1..arrived
      BY <1>0 DEF SchedTyped
    <3>3. \A r, q \in queue' : r.id = q.id => r = q
      BY <1>0, <2>1, <3>2 DEF SchedTyped
    <3> QED BY <1>0, <1>1, <2>1, <3>1, <3>3 DEF Sched!Arrive, SchedTyped
  <2>5. SchedBounds'
    BY <1>0, <1>a, <1>1, <2>1, <2>3 DEF SchedBounds, SchedTyped, Sched!Arrive
  <2>6. SchedIdle'
    BY <1>0, <1>1 DEF Sched!Arrive, SchedIdle
  <2> QED BY <2>4, <2>5, <2>6 DEF SchedInv
<1>2. CASE Sched!StartPass
  BY <1>0, <1>2 DEF Sched!StartPass, SchedInv, SchedTyped, SchedBounds, SchedIdle
<1>3. CASE Sched!Claim
  <2> DEFINE row == Sched!Oldest(Sched!Selectable)
  <2>1. row \in Sched!Selectable
    BY <1>0, <1>3, OldestOfRows, SelectableRows DEF Sched!Claim
  <2>2. /\ row.session \in Sched!Sessions /\ row.session \notin active
        /\ row.session[1] \notin Sched!Paused
    BY <1>0, <2>1, SelectableRows DEF SchedTyped
  <2>3. active' = active \cup {row.session} /\ queue' \subseteq queue /\ arrived' = arrived
    BY <1>3 DEF Sched!Claim
  <2>4. IsFiniteSet(active') /\ Cardinality(active') = Cardinality(active) + 1
    BY <1>0, <2>2, <2>3, FS_AddElement DEF SchedBounds
  <2>5. SchedTyped' /\ SchedBounds'
    BY <1>0, <1>a, <1>3, <2>2, <2>3, <2>4, SchedFewer, SameCardinality DEF Sched!Claim,
       SchedTyped, SchedBounds
  <2>6. SchedIdle'
    BY <1>0, <1>3, <2>2, <2>3 DEF Sched!Claim, SchedIdle, Sched!Paused
  <2> QED BY <2>5, <2>6 DEF SchedInv
<1>4. CASE Sched!Quarantine
  <2>1. queue' \subseteq queue /\ arrived' = arrived
    BY <1>4 DEF Sched!Quarantine
  <2> QED BY <1>0, <1>4, <2>1, SchedFewer
          DEF Sched!Quarantine, SchedInv, SchedTyped, SchedBounds, SchedIdle
<1>5. CASE Sched!EndPass
  BY <1>0, <1>5 DEF Sched!EndPass, SchedInv, SchedTyped, SchedBounds, SchedIdle
<1>6. ASSUME NEW s \in Sched!Sessions, Sched!Settle(s)
      PROVE  SchedInv'
  <2>1. IsFiniteSet(active') /\ Cardinality(active') = Cardinality(active) - 1
    BY <1>0, <1>6, FS_RemoveElement DEF Sched!Settle, SchedBounds
  <2> QED BY <1>0, <1>a, <1>6, <2>1 DEF Sched!Settle, SchedInv, SchedTyped, SchedBounds,
             SchedIdle
<1>7. ASSUME NEW u \in Users, Sched!PauseForUpgrade(u)
      PROVE  SchedInv'
  BY <1>0, <1>7 DEF Sched!PauseForUpgrade, SchedInv, SchedTyped, SchedBounds, SchedIdle
<1>8. CASE Sched!Recheck
  <2>1. CASE Sched!RoundsIdle(schedUp.user) /\ schedUp' = [schedUp EXCEPT !.pc = "stopping"]
             /\ UNCHANGED wake
    <3>1. \A s \in active : s[1] # schedUp.user
      BY <1>0, <2>1, NobodyActive DEF SchedBounds, Sched!RoundsIdle
    <3>2. schedUp \in [pc : {"settling", "stopping"}, user : Users]
      BY <1>0, <1>8 DEF Sched!Recheck, SchedTyped, Sched!Idle
    <3> QED BY <1>0, <1>8, <2>1, <3>1, <3>2
            DEF Sched!Recheck, SchedInv, SchedTyped, SchedBounds, SchedIdle
  <2>2. CASE Sched!Resume
    BY <1>0, <1>8, <2>2 DEF Sched!Recheck, Sched!Resume, Sched!Idle, SchedInv,
       SchedTyped, SchedBounds, SchedIdle
  <2> QED BY <1>8, <2>1, <2>2 DEF Sched!Recheck
<1>9. CASE Sched!Upgraded
  BY <1>0, <1>9 DEF Sched!Upgraded, Sched!Resume, Sched!Idle, SchedInv, SchedTyped,
     SchedBounds, SchedIdle
<1>10. CASE UNCHANGED Sched!vars
  BY <1>0, <1>10 DEF Sched!vars, SchedInv, SchedTyped, SchedBounds, SchedIdle
<1> QED BY <1>1, <1>2, <1>3, <1>4, <1>5, <1>6, <1>7, <1>8, <1>9, <1>10 DEF Sched!Next

(* A set of no more rows than the limit is its own window.                 *)
LEMMA WindowIsAll ==
  ASSUME Sched!SchedulerAssumption, SchedTyped, NEW S, IsFiniteSet(S), S \subseteq queue,
         Cardinality(S) <= Limit
  PROVE  Sched!FirstRows(S) = S
<1>1. ASSUME NEW r \in S
      PROVE  Cardinality({q \in S : q.id < r.id}) < Limit
  <2> DEFINE B == {q \in S : q.id < r.id}
  <2>1. IsFiniteSet(B) /\ Cardinality(B) <= Cardinality(S) /\ (Cardinality(S) = Cardinality(B)
          => S = B)
    BY FS_Subset
  <2>2. ~(r.id < r.id)
    BY DEF SchedTyped
  <2>3. S # B
    BY <1>1, <2>2
  <2>4. Cardinality(B) \in Nat /\ Cardinality(S) \in Nat /\ Limit \in Nat
    BY <2>1, FS_CardinalityType DEF Sched!SchedulerAssumption
  <2> QED BY <2>1, <2>3, <2>4
<1> QED BY <1>1, SameCardinality DEF Sched!FirstRows

(* Where no more messages arrive than the window holds and every payload   *)
(* parses, a pass ends only when nothing can be started.                   *)
LEMMA PassEnds ==
  ASSUME Sched!SchedulerAssumption, MaxArrivals <= Limit, ~MayBreak, SchedInv,
         [Sched!Next]_(Sched!vars)
  PROVE  Sched!EndsExhausted
<1>0. SchedTyped /\ SchedBounds
  BY DEF SchedInv
<1>a. /\ MaxArrivals \in Nat /\ Limit \in Nat
      /\ Cardinality(queue) \in Nat /\ Cardinality(active) \in Nat
  BY <1>0, FS_CardinalityType DEF Sched!SchedulerAssumption, SchedBounds
<1> SUFFICES ASSUME passing, ~passing' PROVE Sched!Claimable' = {} \/ Cardinality(active') >= Limit
  BY SameCardinality DEF Sched!EndsExhausted
<1>1. CASE Sched!Quarantine
  <2>1. Sched!Oldest(Sched!Selectable) \in Sched!Selectable
    BY <1>0, <1>1, OldestOfRows, SelectableRows DEF Sched!Quarantine
  <2>2. Sched!Oldest(Sched!Selectable) \in queue
    BY <2>1, SelectableRows
  <2> QED BY <1>0, <1>1, <2>2 DEF Sched!Quarantine, SchedBounds
<1>2. CASE Sched!EndPass
  <2>1. queue' = queue /\ active' = active /\ schedUp' = schedUp
    BY <1>2 DEF Sched!EndPass
  <2>2. CASE Sched!Selectable = {} /\ Cardinality(active) < Limit
    <3> DEFINE S == {r \in queue : r.session \notin active}
    <3>1. IsFiniteSet(S) /\ Cardinality(S) <= Cardinality(queue)
      BY <1>0, FS_Subset DEF SchedBounds
    <3>2. Cardinality(S) <= Limit
      BY <1>0, <1>a, <3>1, FS_CardinalityType DEF SchedBounds, SchedTyped
    <3>3. Sched!Candidates = S
      BY <1>0, <3>1, <3>2, WindowIsAll DEF Sched!Candidates
    <3>4. ASSUME NEW u
          PROVE  Sched!UserActive(u) < Limit
      <4> DEFINE A == {s \in active : s[1] = u}
      <4>1. IsFiniteSet(A) /\ Cardinality(A) <= Cardinality(active)
        BY <1>0, FS_Subset DEF SchedBounds
      <4>2. Cardinality(A) \in Nat
        BY <4>1, FS_CardinalityType
      <4> QED BY <1>a, <2>2, <4>1, <4>2, SameCardinality DEF Sched!UserActive
    <3>5. Sched!Claimable = {}
      BY <2>2, <3>3, <3>4 DEF Sched!Claimable, Sched!Selectable
    <3> QED BY <2>1, <3>5 DEF Sched!Claimable, Sched!Paused
  <2> QED BY <1>a, <1>2, <2>1, <2>2, SameCardinality DEF Sched!EndPass
<1>3. Sched!Quarantine \/ Sched!EndPass
  BY DEF Sched!Next, Sched!vars, Sched!Arrive, Sched!StartPass, Sched!Claim,
     Sched!Settle, Sched!PauseForUpgrade, Sched!Recheck, Sched!Upgraded
<1> QED BY <1>1, <1>2, <1>3

(* The auto-upgrader stops a runtime only while its user is idle (nothing  *)
(* of a paused user is claimed), for any users, sessions, limits, upgrades *)
(* and payloads; and where no more messages arrive than the candidate      *)
(* window holds and every payload parses, scheduleNextClaims ends only     *)
(* when no slot is free or no turn can be started.                         *)
THEOREM SchedulerWorks ==
  Sched!SchedulerAssumption =>
          (Sched!Spec => /\ []Sched!TypeOK /\ []Sched!StopsOnlyIdle
                         /\ [][MaxArrivals <= Limit /\ ~MayBreak
                             => Sched!EndsExhausted]_(Sched!vars))
<1> SUFFICES ASSUME Sched!SchedulerAssumption
             PROVE  Sched!Spec => /\ []Sched!TypeOK /\ []Sched!StopsOnlyIdle
                                  /\ [][MaxArrivals <= Limit /\ ~MayBreak
                                      => Sched!EndsExhausted]_(Sched!vars)
  OBVIOUS
<1>1. Sched!Spec => []SchedInv
  BY SchedInvInit, SchedInvStep, PTL DEF Sched!Spec
<1>2. SchedInv => Sched!TypeOK /\ Sched!StopsOnlyIdle
  BY NobodyActive, SameCardinality DEF SchedInv, SchedTyped, SchedBounds, SchedIdle,
     Sched!TypeOK, Sched!StopsOnlyIdle
<1>3. SchedInv /\ [Sched!Next]_(Sched!vars) => [MaxArrivals <= Limit /\ ~MayBreak
        => Sched!EndsExhausted]_(Sched!vars)
  BY PassEnds
<1> QED BY <1>1, <1>2, <1>3, PTL DEF Sched!Spec
=============================================================================
