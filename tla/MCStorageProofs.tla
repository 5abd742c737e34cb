-------------------------- MODULE MCStorageProofs ---------------------------
(***************************************************************************)
(* Safety properties of the run of MCStorage, for all values of its        *)
(* constants: each follows from the theorem about its component, since the *)
(* instance that moves stays the one it was and takes only steps of its    *)
(* component.                                                              *)
(***************************************************************************)
EXTENDS MCStorage, TLAPS

(* The instances about the generations of a session.                       *)
LEMMA GenerationsBehaves ==
  /\ Init /\ part = "generations" => Third!Life!Init
  /\ [Next]_vars /\ part = "generations" =>
       (part = "generations")' /\ [Third!Life!Next]_(Third!Life!vars)
  /\ [Next]_vars /\ ~(part = "generations") => ~(part = "generations")'
BY SMTT(60) DEF Init, Next, vars, sessionVars, Third!Life!vars, Third!Life!route, Third!Life!hists,
    Third!Life!turns, Third!Life!calls, Third!Life!keys

LEMMA RecoveringBehaves ==
  /\ Init /\ part = "recovering" => Fourth!Life!Init
  /\ [Next]_vars /\ part = "recovering" =>
       (part = "recovering")' /\ [Fourth!Life!Next]_(Fourth!Life!vars)
  /\ [Next]_vars /\ ~(part = "recovering") => ~(part = "recovering")'
BY SMTT(60) DEF Init, Next, vars, sessionVars, Fourth!Life!vars, Fourth!Life!route,
    Fourth!Life!hists, Fourth!Life!turns, Fourth!Life!calls, Fourth!Life!keys

(* The generation of the session row, of the route and of the runtime      *)
(* agree, an archived session has no turn at work, and the history of a    *)
(* recovered session still has its completed turns, for any turns, calls,  *)
(* keys and generations (session lifecycle).                               *)
THEOREM GenerationsOfSession == Spec => []GenerationsHold
<1>1. Spec => [](part = "generations" => Third!Life!GenerationsHold)
  <2>1. Third!Life!SessionLifecycleAssumption
    BY StorageAssumption, SMTT(60)
  <2>2. Third!Life!Spec => []Third!Life!GenerationsHold
    BY <2>1, Third!SessionKeepsItsHistory, SMTT(60)
  <2> QED BY <2>2, GenerationsBehaves, PTL DEF Spec, Third!Life!Spec
<1>2. Spec => [](part = "recovering" => Fourth!Life!GenerationsHold)
  <2>1. Fourth!Life!SessionLifecycleAssumption
    BY StorageAssumption, SMTT(60)
  <2>2. Fourth!Life!Spec => []Fourth!Life!GenerationsHold
    BY <2>1, Fourth!SessionKeepsItsHistory, SMTT(60)
  <2> QED BY <2>2, RecoveringBehaves, PTL DEF Spec, Fourth!Life!Spec
<1> QED BY <1>1, <1>2, PTL DEF GenerationsHold

-----------------------------------------------------------------------------
(* The instances about forks.                                              *)
LEMMA ForkingBehaves ==
  /\ Init /\ part = "forking" => Second!Fork!Init
  /\ [Next]_vars /\ part = "forking" =>
       (part = "forking")' /\ [Second!Fork!Next]_(Second!Fork!vars)
  /\ [Next]_vars /\ ~(part = "forking") => ~(part = "forking")'
BY SMTT(60) DEF Init, Next, vars, forkVars, Second!Fork!vars, Second!Fork!source,
    Second!Fork!request

LEMMA CopyingBehaves ==
  /\ Init /\ part = "copying" => Third!Fork!Init
  /\ [Next]_vars /\ part = "copying" =>
       (part = "copying")' /\ [Third!Fork!Next]_(Third!Fork!vars)
  /\ [Next]_vars /\ ~(part = "copying") => ~(part = "copying")'
BY SMTT(60) DEF Init, Next, vars, forkVars, Third!Fork!vars, Third!Fork!source, Third!Fork!request

(* A fork is made once for its idempotency key, a forked session that can  *)
(* be opened has its history, and no journal row is stuck once the server  *)
(* has recovered, for any turns, requests and keys, faults and crashes     *)
(* (session forks).                                                        *)
THEOREM ForksOfSession == Spec => []ForksComplete
<1>1. Spec => [](part = "forking" => Second!Fork!ForksComplete)
  <2>1. Second!Fork!SessionForksAssumption
    BY StorageAssumption, SMTT(60)
  <2>2. Second!Fork!Spec => []Second!Fork!ForksComplete
    BY <2>1, Second!ForksAreComplete, SMTT(60)
  <2> QED BY <2>2, ForkingBehaves, PTL DEF Spec, Second!Fork!Spec
<1>2. Spec => [](part = "copying" => Third!Fork!ForksComplete)
  <2>1. Third!Fork!SessionForksAssumption
    BY StorageAssumption, SMTT(60)
  <2>2. Third!Fork!Spec => []Third!Fork!ForksComplete
    BY <2>1, Third!ForksAreComplete, SMTT(60)
  <2> QED BY <2>2, CopyingBehaves, PTL DEF Spec, Third!Fork!Spec
<1> QED BY <1>1, <1>2, PTL DEF ForksComplete

-----------------------------------------------------------------------------
(* The instances about attachments.                                        *)
LEMMA RepeatingBehaves ==
  /\ Init /\ part = "repeating" => First!Attach!Init
  /\ [Next]_vars /\ part = "repeating" =>
       (part = "repeating")' /\ [First!Attach!Next]_(First!Attach!vars)
  /\ [Next]_vars /\ ~(part = "repeating") => ~(part = "repeating")'
BY SMTT(60) DEF Init, Next, vars, attachVars, First!Attach!vars

LEMMA AttachingBehaves ==
  /\ Init /\ part = "attaching" => Second!Attach!Init
  /\ [Next]_vars /\ part = "attaching" =>
       (part = "attaching")' /\ [Second!Attach!Next]_(Second!Attach!vars)
  /\ [Next]_vars /\ ~(part = "attaching") => ~(part = "attaching")'
BY SMTT(60) DEF Init, Next, vars, attachVars, Second!Attach!vars

(* A message with an attachment is stored once for its idempotency key and *)
(* the snapshot it refers to is there, also after crashes and repeated     *)
(* requests, and a start of the server removes the snapshots crashed       *)
(* requests left: any requests, keys, contents and crashes                 *)
(* (delivery-gateway.ts, attachment-snapshot-recovery.ts).                 *)
THEOREM AttachmentsOfMessages == Spec => AttachedOnce
<1>1. First!Attach!AttachmentsAssumption /\ Second!Attach!AttachmentsAssumption
  BY StorageAssumption, SMTT(60)
<1>2. First!Attach!Spec =>
        []First!Attach!IngestedOnce /\ []First!Attach!AttachmentThere
  <2>1. First!Attach!Spec =>
          /\ []First!Attach!TypeOK
          /\ []First!Attach!IngestedOnce /\ []First!Attach!AttachmentThere
          /\ (~TRUE => [][First!Attach!OrphansCollected]_(First!Attach!vars))
    BY <1>1, First!AttachmentsKept, SMTT(60)
  <2> QED BY <2>1, PTL
<1>3. Second!Attach!Spec =>
        /\ []Second!Attach!TypeOK
        /\ []Second!Attach!IngestedOnce /\ []Second!Attach!AttachmentThere
        /\ [][Second!Attach!OrphansCollected]_(Second!Attach!vars)
  <2>1. Second!Attach!Spec =>
          /\ []Second!Attach!TypeOK
          /\ []Second!Attach!IngestedOnce /\ []Second!Attach!AttachmentThere
          /\ (~FALSE => [][Second!Attach!OrphansCollected]_(Second!Attach!vars))
    BY <1>1, Second!AttachmentsKept, SMTT(60)
  <2> QED BY <2>1, PTL
<1> DEFINE One == First!Attach!IngestedOnce /\ First!Attach!AttachmentThere
           Two == /\ Second!Attach!TypeOK /\ Second!Attach!IngestedOnce
                  /\ Second!Attach!AttachmentThere
           Final == part = "attaching" => Second!Attach!OrphansCollected
           Step == /\ part = "repeating" => One'
                   /\ part = "attaching" => Two' /\ Second!Attach!OrphansCollected
<1>4. Spec => [](part = "repeating" => One)
  BY <1>2, RepeatingBehaves, PTL DEF Spec, First!Attach!Spec
<1>5. Spec => [](part = "attaching" => Two) /\ [][Final]_(Second!Attach!vars)
  BY <1>3, AttachingBehaves, PTL DEF Spec, Second!Attach!Spec
<1>6. ASSUME [Next]_vars, (part = "repeating" => One)', (part = "attaching" => Two)',
             [Final]_(Second!Attach!vars)
      PROVE  [Step]_vars
  <2>1. UNCHANGED Second!Attach!vars => Second!Attach!OrphansCollected
    <3>1. UNCHANGED Second!Attach!vars => boot' = boot
      BY SMTT(60) DEF Second!Attach!vars
    <3> QED BY <3>1, SMTT(60) DEF Second!Attach!OrphansCollected
  <2>2. /\ [Next]_vars /\ part = "attaching" => (part = "attaching")'
        /\ [Next]_vars /\ part = "repeating" => (part = "repeating")'
    BY AttachingBehaves, RepeatingBehaves, SMTT(60)
  <2> HIDE DEF One, Two
  <2>3. part = "repeating" => One'
    BY <1>6, <2>2, SMTT(60)
  <2>4. part = "attaching" => Two'
    BY <1>6, <2>2, SMTT(60)
  <2>5. part = "attaching" => Second!Attach!OrphansCollected
    BY <1>6, <2>1, SMTT(60)
  <2> QED BY <2>3, <2>4, <2>5, SMTT(60)
<1> QED BY <1>4, <1>5, <1>6, PTL DEF Spec, AttachedOnce

-----------------------------------------------------------------------------
(* The instance about the origins of turns.                                *)
LEMMA OriginsBehaves ==
  /\ Init /\ part = "origins" => First!Orig!Init
  /\ [Next]_vars /\ part = "origins" =>
       (part = "origins")' /\ [First!Orig!Next]_(First!Orig!vars)
  /\ [Next]_vars /\ ~(part = "origins") => ~(part = "origins")'
BY SMTT(60) DEF Init, Next, vars, originVars, First!Orig!vars, First!Orig!relay

(* Where children report between the turns of users, each turn of the      *)
(* agent begins and ends under one id, and a turn started by a child's     *)
(* report names that child and the turn it came from, after restarts too:  *)
(* any turns, children and restarts, and one job, since the notices of     *)
(* jobs carry no id (turn correlation of the relay).                       *)
THEOREM OriginsOfTurns == Spec => []OriginsTrue
<1>1. First!Apart
  BY StorageAssumption, SMTT(60) DEF First!Apart
<1>2. First!Orig!Spec => []First!Orig!TypeOK /\ []First!Orig!OneTurnOneId
                           /\ []First!Orig!CauseIsTrue /\ []First!Orig!OriginKnown
  BY <1>1, First!OriginsAreTrue, SMTT(60)
<1> QED BY <1>2, OriginsBehaves, PTL DEF Spec, First!Orig!Spec, OriginsTrue

-----------------------------------------------------------------------------
(* The instances about uploads.                                            *)
LEMMA CrashingBehaves ==
  /\ Init /\ part = "crashing" => First!Upload!Init
  /\ [Next]_vars /\ part = "crashing" =>
       (part = "crashing")' /\ [First!Upload!Next]_(First!Upload!vars)
  /\ [Next]_vars /\ ~(part = "crashing") => ~(part = "crashing")'
BY SMTT(60) DEF Init, Next, vars, uploadVars, First!Upload!vars, First!Upload!disk,
   First!Upload!rows, First!Upload!boot

LEMMA FaultingBehaves ==
  /\ Init /\ part = "faulting" => Second!Upload!Init
  /\ [Next]_vars /\ part = "faulting" =>
       (part = "faulting")' /\ [Second!Upload!Next]_(Second!Upload!vars)
  /\ [Next]_vars /\ ~(part = "faulting") => ~(part = "faulting")'
BY SMTT(60) DEF Init, Next, vars, uploadVars, Second!Upload!vars, Second!Upload!disk,
   Second!Upload!rows, Second!Upload!boot

(* An upload is applied and finalized or has no effect, though the server  *)
(* crashes at any step, in its recovery too; an acknowledged one can be    *)
(* repeated and a recorded response tells of bytes that reached the path,  *)
(* also when calls and writes fail: any uploads, contents, keys, crashes   *)
(* and faults (handler.ts, file-ops.ts, file-transfer-recovery.ts).        *)
THEOREM UploadsOfFiles == Spec => []UploadsAtomic
<1>1. First!Upload!FTAssumption /\ Second!Upload!FTAssumption
  BY StorageAssumption, SMTT(60)
<1>2. First!Upload!Spec => []First!Upload!CrashAtomic
  <2>1. First!Upload!Spec =>
          /\ []First!Upload!TypeOK /\ []First!Upload!AckedIsRepeatable
          /\ []First!Upload!RecordedWasApplied /\ [](1 = 1 /\ 0 = 0 => First!Upload!CrashAtomic)
    BY <1>1, First!UploadsAreAtomic, SMTT(60)
  <2>2. 1 = 1 /\ 0 = 0
    BY SMTT(60)
  <2> QED BY <2>1, <2>2, PTL
<1>3. Second!Upload!Spec =>
        /\ []Second!Upload!TypeOK /\ []Second!Upload!AckedIsRepeatable
        /\ []Second!Upload!RecordedWasApplied
  <2>1. Second!Upload!Spec =>
          /\ []Second!Upload!TypeOK /\ []Second!Upload!AckedIsRepeatable
          /\ []Second!Upload!RecordedWasApplied
          /\ [](MaxOpen = 1 /\ MaxFaults = 0 => Second!Upload!CrashAtomic)
    BY <1>1, Second!UploadsAreAtomic, SMTT(60)
  <2> QED BY <2>1, PTL
<1>4. Spec => [](part = "crashing" => First!Upload!CrashAtomic)
  BY <1>2, CrashingBehaves, PTL DEF Spec, First!Upload!Spec
<1>5. Spec => [](part = "faulting" => /\ Second!Upload!TypeOK /\ Second!Upload!AckedIsRepeatable
                                      /\ Second!Upload!RecordedWasApplied)
  BY <1>3, FaultingBehaves, PTL DEF Spec, Second!Upload!Spec
<1> QED BY <1>4, <1>5, PTL DEF UploadsAtomic
=============================================================================
