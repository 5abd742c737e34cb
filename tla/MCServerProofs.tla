--------------------------- MODULE MCServerProofs ---------------------------
(***************************************************************************)
(* Safety properties of the run of MCServer, for all values of its         *)
(* constants: each follows from the theorem about its component, since the *)
(* instance that moves stays the one it was and takes only steps of its    *)
(* component.                                                              *)
(***************************************************************************)
EXTENDS MCServer, TLAPS

(* The instances about the Lark outbox.                                    *)
LEMMA PostingBehaves ==
  /\ Init /\ part = "posting" => First!Lark!Init
  /\ [Next]_vars /\ part = "posting" =>
       (part = "posting")' /\ [First!Lark!Next]_(First!Lark!vars)
  /\ [Next]_vars /\ ~(part = "posting") => ~(part = "posting")'
BY SMTT(60) DEF Init, Next, vars, larkVars, First!Lark!vars, First!Lark!chat, First!Lark!bounds

LEMMA ResendingBehaves ==
  /\ Init /\ part = "resending" => Second!Lark!Init
  /\ [Next]_vars /\ part = "resending" =>
       (part = "resending")' /\ [Second!Lark!Next]_(Second!Lark!vars)
  /\ [Next]_vars /\ ~(part = "resending") => ~(part = "resending")'
BY SMTT(60) DEF Init, Next, vars, larkVars, Second!Lark!vars, Second!Lark!chat, Second!Lark!bounds

(* An answer is shown in the Lark chat once, by the card or by the outbox, *)
(* while the server runs, and one that is recorded as delivered was shown, *)
(* through crashes too: any answers, attempts, faults and crashes          *)
(* (channel-lark gateway.ts, streaming-tracker.ts, channel-repo.ts).       *)
THEOREM AnswersOfTurns == Spec => []AnswerShown
<1>1. First!Lark!LarkOutboxAssumption /\ Second!Lark!LarkOutboxAssumption
  BY ServerAssumption, SMTT(60)
<1>2. First!Lark!Spec => []First!Lark!TypeOK /\ []First!Lark!ShownOnce
  <2>1. First!Lark!Spec =>
          /\ []First!Lark!DeliveredMeansShown /\ [](0 = 0 => First!Lark!ShownOnce)
          /\ []("file" \notin {"reply", "task"} => First!Lark!TypeOK)
    BY <1>1, First!LarkShowsAnswers, SMTT(60)
  <2>2. 0 = 0 /\ "file" \notin {"reply", "task"}
    BY SMTT(60)
  <2> QED BY <2>1, <2>2, PTL
<1>3. Second!Lark!Spec => []Second!Lark!DeliveredMeansShown
  BY <1>1, Second!LarkShowsAnswers, SMTT(60)
<1>4. Spec => [](part = "posting" => First!Lark!TypeOK /\ First!Lark!ShownOnce)
  BY <1>2, PostingBehaves, PTL DEF Spec, First!Lark!Spec
<1>5. Spec => [](part = "resending" => Second!Lark!DeliveredMeansShown)
  BY <1>3, ResendingBehaves, PTL DEF Spec, Second!Lark!Spec
<1> QED BY <1>4, <1>5, PTL DEF AnswerShown

-----------------------------------------------------------------------------
(* The instances about steering.                                           *)
LEMMA RacingBehaves ==
  /\ Init /\ part = "racing" => First!Steer!Init
  /\ [Next]_vars /\ part = "racing" =>
       (part = "racing")' /\ [First!Steer!Next]_(First!Steer!vars)
  /\ [Next]_vars /\ ~(part = "racing") => ~(part = "racing")'
BY SMTT(60) DEF Init, Next, vars, steerVars, First!Steer!vars

LEMMA ThrowingBehaves ==
  /\ Init /\ part = "throwing" => Second!Steer!Init
  /\ [Next]_vars /\ part = "throwing" =>
       (part = "throwing")' /\ [Second!Steer!Next]_(Second!Steer!vars)
  /\ [Next]_vars /\ ~(part = "throwing") => ~(part = "throwing")'
BY SMTT(60) DEF Init, Next, vars, steerVars, Second!Steer!vars

(* A message sent while a turn runs is seen by the agent once, whatever    *)
(* ends the turn meanwhile, and it is not dropped when calls to the        *)
(* runtime throw: any messages, turns and calls (steerTurn,                *)
(* promoteQueuedToSteer).                                                  *)
THEOREM MessagesOfTurns == Spec => []MessageSeenOnce
<1>1. First!Steer!SteeringAssumption /\ Second!Steer!SteeringAssumption
  BY ServerAssumption, SMTT(60)
<1>2. First!Steer!Spec => []First!Steer!TypeOK /\ []First!Steer!SeenOnce
  <2>1. First!Steer!Spec =>
          /\ []First!Steer!TypeOK /\ [](~TRUE => First!Steer!NothingDropped)
          /\ [](1 = 1 /\ 0 = 0 => First!Steer!SeenOnce)
    BY <1>1, First!SteeringKeepsMessages, SMTT(60)
  <2>2. 1 = 1 /\ 0 = 0
    BY SMTT(60)
  <2> QED BY <2>1, <2>2, PTL
<1>3. Second!Steer!Spec => []Second!Steer!NothingDropped
  <2>1. Second!Steer!Spec =>
          /\ []Second!Steer!TypeOK /\ [](~FALSE => Second!Steer!NothingDropped)
          /\ [](MaxSends = 1 /\ MaxThrows = 0 => Second!Steer!SeenOnce)
    BY <1>1, Second!SteeringKeepsMessages, SMTT(60)
  <2> QED BY <2>1, PTL
<1>4. Spec => [](part = "racing" => First!Steer!TypeOK /\ First!Steer!SeenOnce)
  BY <1>2, RacingBehaves, PTL DEF Spec, First!Steer!Spec
<1>5. Spec => [](part = "throwing" => Second!Steer!NothingDropped)
  BY <1>3, ThrowingBehaves, PTL DEF Spec, Second!Steer!Spec
<1> QED BY <1>4, <1>5, PTL DEF MessageSeenOnce

-----------------------------------------------------------------------------
(* The instances about the task worker.                                    *)
LEMMA LeasesBehaves ==
  /\ Init /\ part = "leases" => Second!Work!Init
  /\ [Next]_vars /\ part = "leases" =>
       (part = "leases")' /\ [Second!Work!Next]_(Second!Work!vars)
  /\ [Next]_vars /\ ~(part = "leases") => ~(part = "leases")'
BY SMTT(60) DEF Init, Next, vars, taskVars, Second!Work!vars

LEMMA OverlapBehaves ==
  /\ Init /\ part = "overlap" => First!Work!Init
  /\ [Next]_vars /\ part = "overlap" =>
       (part = "overlap")' /\ [First!Work!Next]_(First!Work!vars)
  /\ [Next]_vars /\ ~(part = "overlap") => ~(part = "overlap")'
BY SMTT(60) DEF Init, Next, vars, taskVars, First!Work!vars

(* However claims, manual runs, resumptions, cancellations, expired leases *)
(* and restarts interleave, the runs of a task exclude each other, settle  *)
(* with the task and stay as they ended, and the runs of a script never    *)
(* overlap: any tasks, retries, runs, requests and restarts                *)
(* (task-repository.ts, task-worker.ts).                                   *)
THEOREM RunsOfTasks == Spec => RunsExclusive
<1>1. Second!Work!TaskAssumption /\ First!Work!TaskAssumption
  BY ServerAssumption, SMTT(60)
<1>2. Second!Work!Spec =>
        /\ []Second!Work!TypeOK /\ []Second!Work!OneActiveRun /\ []Second!Work!ClaimBackedByRun
        /\ []Second!Work!RecurringNeverFails /\ []Second!Work!PendingHasRetries
        /\ []Second!Work!CompletedRunDidIt
        /\ [][Second!Work!EndedRunsStay]_(Second!Work!vars)
  <2>1. Second!Work!Spec =>
          /\ []Second!Work!TypeOK /\ []Second!Work!OneActiveRun /\ []Second!Work!ClaimBackedByRun
          /\ []Second!Work!RecurringNeverFails /\ []Second!Work!PendingHasRetries
          /\ []Second!Work!CompletedRunDidIt
          /\ [][Second!Work!EndedRunsStay]_(Second!Work!vars)
          /\ [](MaxRestarts = 0 /\ ~TRUE => Second!Work!TurnsDoNotOverlap)
    BY <1>1, Second!RunsAreExclusive, SMTT(60)
  <2> QED BY <2>1, PTL
<1>3. First!Work!Spec => []First!Work!TurnsDoNotOverlap
  <2>1. First!Work!Spec =>
          /\ []First!Work!TypeOK /\ []First!Work!OneActiveRun /\ []First!Work!ClaimBackedByRun
          /\ []First!Work!RecurringNeverFails /\ []First!Work!PendingHasRetries
          /\ []First!Work!CompletedRunDidIt
          /\ [][First!Work!EndedRunsStay]_(First!Work!vars)
          /\ [](0 = 0 /\ ~FALSE => First!Work!TurnsDoNotOverlap)
    BY <1>1, First!RunsAreExclusive, SMTT(60)
  <2>2. 0 = 0 /\ ~FALSE
    BY SMTT(60)
  <2> QED BY <2>1, <2>2, PTL
<1> DEFINE One == /\ Second!Work!TypeOK /\ Second!Work!OneActiveRun /\ Second!Work!ClaimBackedByRun
                  /\ Second!Work!RecurringNeverFails /\ Second!Work!PendingHasRetries
                  /\ Second!Work!CompletedRunDidIt
           Final == part = "leases" => Second!Work!EndedRunsStay
           Step == /\ part = "leases" => One' /\ Second!Work!EndedRunsStay
                   /\ part = "overlap" => First!Work!TurnsDoNotOverlap'
<1>4. Spec => [](part = "leases" => One) /\ [][Final]_(Second!Work!vars)
  BY <1>2, LeasesBehaves, PTL DEF Spec, Second!Work!Spec
<1>5. Spec => [](part = "overlap" => First!Work!TurnsDoNotOverlap)
  BY <1>3, OverlapBehaves, PTL DEF Spec, First!Work!Spec
<1>6. ASSUME [Next]_vars, (part = "leases" => One)',
             (part = "overlap" => First!Work!TurnsDoNotOverlap)', [Final]_(Second!Work!vars)
      PROVE  [Step]_vars
  <2>1. UNCHANGED Second!Work!vars => Second!Work!EndedRunsStay
    <3>1. UNCHANGED Second!Work!vars => runs' = runs
      BY SMTT(60) DEF Second!Work!vars
    <3> QED BY <3>1, SMTT(60) DEF Second!Work!EndedRunsStay
  <2>2. /\ [Next]_vars /\ part = "leases" => (part = "leases")'
        /\ [Next]_vars /\ part = "overlap" => (part = "overlap")'
    BY LeasesBehaves, OverlapBehaves, SMTT(60)
  <2> HIDE DEF One
  <2>3. part = "leases" => One'
    BY <1>6, <2>2, SMTT(60)
  <2>4. part = "overlap" => First!Work!TurnsDoNotOverlap'
    BY <1>6, <2>2, SMTT(60)
  <2>5. part = "leases" => Second!Work!EndedRunsStay
    BY <1>6, <2>1, SMTT(60)
  <2> QED BY <2>3, <2>4, <2>5, SMTT(60)
<1> QED BY <1>4, <1>5, <1>6, PTL DEF Spec, RunsExclusive

-----------------------------------------------------------------------------
(* The instances about failure notices.                                    *)
LEMMA NoticesBehaves ==
  /\ Init /\ part = "notices" => First!Notice!Init
  /\ [Next]_vars /\ part = "notices" =>
       (part = "notices")' /\ [First!Notice!Next]_(First!Notice!vars)
  /\ [Next]_vars /\ ~(part = "notices") => ~(part = "notices")'
BY SMTT(60) DEF Init, Next, vars, noticeVars, First!Notice!vars

LEMMA InSessionBehaves ==
  /\ Init /\ part = "insession" => Second!Notice!Init
  /\ [Next]_vars /\ part = "insession" =>
       (part = "insession")' /\ [Second!Notice!Next]_(Second!Notice!vars)
  /\ [Next]_vars /\ ~(part = "insession") => ~(part = "insession")'
BY SMTT(60) DEF Init, Next, vars, noticeVars, Second!Notice!vars

(* A failure notice is never lost: what is given up on the channel is in   *)
(* the anchor session, what is recorded as delivered was shown, through    *)
(* scans, retries and crashes, and nothing is announced while the setting  *)
(* is off: any occurrences, limits, attempts and retries                   *)
(* (task-notification-service.ts).                                         *)
THEOREM NoticesOfTasks == Spec => NoticesReachUser
<1>1. First!Notice!NotificationAssumption /\ Second!Notice!NotificationAssumption
  BY ServerAssumption, SMTT(60)
<1>2. First!Notice!Spec => []First!Notice!TypeOK /\ []First!Notice!GivenUpIsShown
  <2>1. First!Notice!Spec =>
          /\ []First!Notice!TypeOK /\ []First!Notice!DeliveredIsShown
          /\ [](0 = 0 => First!Notice!GivenUpIsShown)
          /\ [][First!Notice!DisabledIsQuiet]_(First!Notice!vars)
    BY <1>1, First!NoticesAreShown, SMTT(60)
  <2>2. 0 = 0
    BY SMTT(60)
  <2> QED BY <2>1, <2>2, PTL
<1>3. Second!Notice!Spec =>
        []Second!Notice!DeliveredIsShown /\ [][Second!Notice!DisabledIsQuiet]_(Second!Notice!vars)
  <2>1. Second!Notice!Spec =>
          /\ []Second!Notice!TypeOK /\ []Second!Notice!DeliveredIsShown
          /\ [](MaxKills = 0 => Second!Notice!GivenUpIsShown)
          /\ [][Second!Notice!DisabledIsQuiet]_(Second!Notice!vars)
    BY <1>1, Second!NoticesAreShown, SMTT(60)
  <2> QED BY <2>1, PTL
<1> DEFINE Given == First!Notice!TypeOK /\ First!Notice!GivenUpIsShown
           Quiet == part = "insession" => Second!Notice!DisabledIsQuiet
           Step == /\ part = "notices" => Given'
                   /\ part = "insession" => Second!Notice!DeliveredIsShown'
                       /\ Second!Notice!DisabledIsQuiet
<1>4. Spec => [](part = "notices" => Given)
  BY <1>2, NoticesBehaves, PTL DEF Spec, First!Notice!Spec
<1>5. Spec => [](part = "insession" => Second!Notice!DeliveredIsShown)
        /\ [][Quiet]_(Second!Notice!vars)
  BY <1>3, InSessionBehaves, PTL DEF Spec, Second!Notice!Spec
<1>6. ASSUME [Next]_vars, (part = "notices" => Given)',
             (part = "insession" => Second!Notice!DeliveredIsShown)', [Quiet]_(Second!Notice!vars)
      PROVE  [Step]_vars
  <2>1. UNCHANGED Second!Notice!vars => Second!Notice!DisabledIsQuiet
    <3>1. UNCHANGED Second!Notice!vars => noticeRow' = noticeRow
      BY SMTT(60) DEF Second!Notice!vars
    <3> QED BY <3>1, SMTT(60) DEF Second!Notice!DisabledIsQuiet
  <2>2. /\ [Next]_vars /\ part = "notices" => (part = "notices")'
        /\ [Next]_vars /\ part = "insession" => (part = "insession")'
    BY NoticesBehaves, InSessionBehaves, SMTT(60)
  <2> HIDE DEF Given
  <2>3. part = "notices" => Given'
    BY <1>6, <2>2, SMTT(60)
  <2>4. part = "insession" => Second!Notice!DeliveredIsShown'
    BY <1>6, <2>2, SMTT(60)
  <2>5. part = "insession" => Second!Notice!DisabledIsQuiet
    BY <1>6, <2>1, SMTT(60)
  <2> QED BY <2>3, <2>4, <2>5, SMTT(60)
<1> QED BY <1>4, <1>5, <1>6, PTL DEF Spec, NoticesReachUser

-----------------------------------------------------------------------------
(* The instance about the scheduler.                                       *)
LEMMA PassingBehaves ==
  /\ Init /\ part = "passing" => First!Sched!Init
  /\ [Next]_vars /\ part = "passing" =>
       (part = "passing")' /\ [First!Sched!Next]_(First!Sched!vars)
  /\ [Next]_vars /\ ~(part = "passing") => ~(part = "passing")'
BY SMTT(60) DEF Init, Next, vars, schedVars, First!Sched!vars

(* A pass of the scheduler ends only when no slot or no startable turn is  *)
(* left, while no more messages arrive than its candidate window holds,    *)
(* and the auto-upgrader stops the runtime of an idle user only: any       *)
(* users, sessions, limits and upgrades (scheduleNextClaims,               *)
(* checkAndUpgrade).                                                       *)
THEOREM PassesOfScheduler == Spec => PassesAndUpgrades
<1>1. First!Sched!SchedulerAssumption /\ MaxArrivals <= Limit
  BY ServerAssumption, SMTT(60)
<1>2. First!Sched!Spec =>
        /\ []First!Sched!TypeOK /\ []First!Sched!StopsOnlyIdle
        /\ [][First!Sched!EndsExhausted]_(First!Sched!vars)
  <2>1. First!Sched!Spec =>
          /\ []First!Sched!TypeOK /\ []First!Sched!StopsOnlyIdle
          /\ [][MaxArrivals <= Limit /\ ~FALSE => First!Sched!EndsExhausted]_(First!Sched!vars)
    BY <1>1, First!SchedulerWorks, SMTT(60)
  <2> QED BY <1>1, <2>1, PTL
<1> DEFINE Sound == First!Sched!TypeOK /\ First!Sched!StopsOnlyIdle
           Ends == part = "passing" => First!Sched!EndsExhausted
           Step == part = "passing" => /\ First!Sched!EndsExhausted
                                       /\ First!Sched!StopsOnlyIdle' /\ First!Sched!TypeOK'
<1>3. Spec => [](part = "passing" => Sound) /\ [][Ends]_(First!Sched!vars)
  BY <1>2, PassingBehaves, PTL DEF Spec, First!Sched!Spec
<1>4. ASSUME [Next]_vars, (part = "passing" => Sound)', [Ends]_(First!Sched!vars)
      PROVE  [Step]_vars
  <2>1. UNCHANGED First!Sched!vars => First!Sched!EndsExhausted
    <3>1. UNCHANGED First!Sched!vars => passing' = passing
      BY SMTT(60) DEF First!Sched!vars
    <3> QED BY <3>1, SMTT(60) DEF First!Sched!EndsExhausted
  <2>2. [Next]_vars /\ part = "passing" => (part = "passing")'
    BY PassingBehaves, SMTT(60)
  <2>3. part = "passing" => First!Sched!TypeOK' /\ First!Sched!StopsOnlyIdle'
    BY <1>4, <2>2, SMTT(60)
  <2>4. part = "passing" => First!Sched!EndsExhausted
    BY <1>4, <2>1, SMTT(60)
  <2> QED BY <2>3, <2>4, SMTT(60)
<1> QED BY <1>3, <1>4, PTL DEF Spec, PassesAndUpgrades
=============================================================================
