--------------------------- MODULE MCRunnerProofs ---------------------------
(***************************************************************************)
(* The safety properties of the runs of MCRunner, for all values of its    *)
(* constants: each follows from the theorem about its component, since the *)
(* instance that moves stays the one it was and takes only steps of its    *)
(* component.                                                              *)
(***************************************************************************)
EXTENDS MCRunner, TLAPS

(* The instances about the lock of a session.                              *)
LEMMA ContendingBehaves ==
  /\ Init /\ part = "contending" => First!Lock!Init
  /\ [Next]_vars /\ part = "contending" =>
       (part = "contending")' /\ [First!Lock!Next]_(First!Lock!vars)
  /\ [Next]_vars /\ ~(part = "contending") => ~(part = "contending")'
BY SMTT(60) DEF Init, Next, vars, lockVars, First!Lock!vars

LEMMA DyingBehaves ==
  /\ Init /\ part = "dying" => Second!Lock!Init
  /\ [Next]_vars /\ part = "dying" => (part = "dying")' /\ [Second!Lock!Next]_(Second!Lock!vars)
  /\ [Next]_vars /\ ~(part = "dying") => ~(part = "dying")'
BY SMTT(60) DEF Init, Next, vars, lockVars, Second!Lock!vars

(* One process at a time works on a session's history, and nobody takes    *)
(* the holder's lock file for a stale one: any number of processes that    *)
(* live, and two that may die (session-lock.ts).                           *)
THEOREM LockOfSession == Spec => []OneHolder
<1>1. First!Lock!Spec => []First!Lock!OneHolder
  <2>1. First!Lock!SessionLockAssumption /\ 0 = 0
    BY RunnerAssumption, SMTT(60)
  <2> QED BY <2>1, First!LockHasOneHolder, PTL
<1>2. Second!Lock!Spec => []Second!Lock!OneHolder
  <2>1. Second!Lock!SessionLockAssumption /\ Second!TwoProcs
    BY RunnerAssumption, SMTT(60) DEF Second!TwoProcs
  <2> QED BY <2>1, Second!LockHasOneHolder, PTL
<1>3. Spec => [](part = "contending" => First!Lock!OneHolder)
  BY <1>1, ContendingBehaves, PTL DEF Spec, First!Lock!Spec
<1>4. Spec => [](part = "dying" => Second!Lock!OneHolder)
  BY <1>2, DyingBehaves, PTL DEF Spec, Second!Lock!Spec
<1> QED BY <1>3, <1>4, PTL DEF OneHolder

-----------------------------------------------------------------------------
(* The instances about the agents of the daemon.                           *)
LEMMA PoolBehaves ==
  /\ Init /\ part = "pool" => First!Daemon!Init
  /\ [Next]_vars /\ part = "pool" =>
       (part = "pool")' /\ [First!Daemon!Next]_(First!Daemon!vars)
  /\ [Next]_vars /\ ~(part = "pool") => ~(part = "pool")'
BY SMTT(60) DEF Init, Next, vars, daemonVars, First!Daemon!vars, First!Daemon!pool,
    First!Daemon!runtime

LEMMA SweepingBehaves ==
  /\ Init /\ part = "sweeping" => Second!Daemon!Init
  /\ [Next]_vars /\ part = "sweeping" =>
       (part = "sweeping")' /\ [Second!Daemon!Next]_(Second!Daemon!vars)
  /\ [Next]_vars /\ ~(part = "sweeping") => ~(part = "sweeping")'
BY SMTT(60) DEF Init, Next, vars, daemonVars, Second!Daemon!vars, Second!Daemon!pool,
   Second!Daemon!runtime

LEMMA TurnsBehaves ==
  /\ Init /\ part = "turns" => Third!Daemon!Init
  /\ [Next]_vars /\ part = "turns" =>
       (part = "turns")' /\ [Third!Daemon!Next]_(Third!Daemon!vars)
  /\ [Next]_vars /\ ~(part = "turns") => ~(part = "turns")'
BY SMTT(60) DEF Init, Next, vars, daemonVars, Third!Daemon!vars, Third!Daemon!pool,
    Third!Daemon!runtime

(* The agent of an entry that is in memory has the lock of its session, so *)
(* that a session never has two of them, and where only its own processor  *)
(* evicts it a turn runs on the session's own entry: any sessions,         *)
(* maintenance, plan updates, sweeps and limits (daemon.ts, dsh-boot.ts).  *)
THEOREM AgentsOfDaemon == Spec => []OneAgent
<1>1. Spec => [](part = "pool" => First!Daemon!OneAgent)
  <2>1. First!Daemon!DaemonAgentsAssumption
    BY RunnerAssumption, SMTT(60)
  <2>2. First!Daemon!Spec => []First!Daemon!OneAgent
    BY <2>1, First!DaemonHasOneAgent, SMTT(60)
  <2> QED BY <2>2, PoolBehaves, PTL DEF Spec, First!Daemon!Spec
<1>2. Spec => [](part = "sweeping" => Second!Daemon!OneAgent)
  <2>1. Second!Daemon!DaemonAgentsAssumption
    BY RunnerAssumption, SMTT(60)
  <2>2. Second!Daemon!Spec => []Second!Daemon!OneAgent
    BY <2>1, Second!DaemonHasOneAgent, SMTT(60)
  <2> QED BY <2>2, SweepingBehaves, PTL DEF Spec, Second!Daemon!Spec
<1>3. Spec => [](part = "turns" => Third!Daemon!OneAgent)
  <2>1. Third!Daemon!DaemonAgentsAssumption
    BY RunnerAssumption, SMTT(60)
  <2>2. Third!Daemon!Spec => []Third!Daemon!OneAgent
    BY <2>1, Third!DaemonHasOneAgent, SMTT(60)
  <2> QED BY <2>2, TurnsBehaves, PTL DEF Spec, Third!Daemon!Spec
<1> QED BY <1>1, <1>2, <1>3, PTL DEF OneAgent

-----------------------------------------------------------------------------
(* The instance about the receipts of deliveries.                          *)
LEMMA ReceiptsBehaves ==
  /\ Init /\ part = "inbound" => First!Inbound!Init
  /\ [Next]_vars /\ part = "inbound" =>
       (part = "inbound")' /\ [First!Inbound!Next]_(First!Inbound!vars)
  /\ [Next]_vars /\ ~(part = "inbound") => ~(part = "inbound")'
BY SMTT(60) DEF Init, Next, vars, inboundVars, First!Inbound!vars

(* A delivery is accepted once, though it is sent again, at the same time  *)
(* or after a crash, what the caller is answered is true, and a receipt    *)
(* once settled stays: any deliveries and any number of requests and of    *)
(* crashes (the receipt store and the inbound plugin).                     *)
THEOREM ReceiptsOfDeliveries == Spec => AcceptedOnce
<1>1. First!Inbound!ReceiptAssumption
  BY RunnerAssumption, SMTT(60)
<1>2. First!Inbound!Spec =>
        /\ []First!Inbound!TypeOK /\ []First!Inbound!AcceptedOnce
        /\ []First!Inbound!AnswerIsTrue
        /\ [][First!Inbound!ReceiptFinal]_(First!Inbound!vars)
  BY <1>1, First!DeliveredOnce, SMTT(60)
<1> DEFINE Good == /\ First!Inbound!TypeOK /\ First!Inbound!AcceptedOnce
                   /\ First!Inbound!AnswerIsTrue
           Final == part = "inbound" => First!Inbound!ReceiptFinal
           Step == part = "inbound" => Good' /\ First!Inbound!ReceiptFinal
<1>3. Spec => [](part = "inbound" => Good) /\ [][Final]_(First!Inbound!vars)
  BY <1>2, ReceiptsBehaves, PTL DEF Spec, First!Inbound!Spec
<1>4. [Next]_vars /\ (part = "inbound" => Good)' /\ [Final]_(First!Inbound!vars)
        => [Step]_vars
  <2>1. UNCHANGED First!Inbound!vars => First!Inbound!ReceiptFinal
    BY SMTT(60) DEF First!Inbound!vars, First!Inbound!ReceiptFinal
  <2>2. [Next]_vars /\ part = "inbound" => (part = "inbound")'
    BY ReceiptsBehaves, SMTT(60)
  <2> QED BY <2>1, <2>2, SMTT(60)
<1> QED BY <1>3, <1>4, PTL DEF Spec, AcceptedOnce

-----------------------------------------------------------------------------
(* The instances about the tunnel process.                                 *)
LEMMA ManualBehaves ==
  /\ Init /\ part = "manual" => First!Tunnel!Init
  /\ [Next]_vars /\ part = "manual" =>
       (part = "manual")' /\ [First!Tunnel!Next]_(First!Tunnel!vars)
  /\ [Next]_vars /\ ~(part = "manual") => ~(part = "manual")'
BY SMTT(60) DEF Init, Next, vars, tunnelVars, First!Tunnel!vars

LEMMA ReconnectingBehaves ==
  /\ Init /\ part = "reconnecting" => Second!Tunnel!Init
  /\ [Next]_vars /\ part = "reconnecting" =>
       (part = "reconnecting")' /\ [Second!Tunnel!Next]_(Second!Tunnel!vars)
  /\ [Next]_vars /\ ~(part = "reconnecting") => ~(part = "reconnecting")'
BY SMTT(60) DEF Init, Next, vars, tunnelVars, Second!Tunnel!vars

(* No tunnel process runs on in the container without a host that knows of *)
(* it, and a connected host talks to a process nobody killed, with and     *)
(* without reconnection, for any number of processes, retries and faults   *)
(* (host.ts).                                                              *)
THEOREM OwnerOfTunnel == Spec => []NoOrphan
<1>1. Spec => [](part = "manual" => /\ First!Tunnel!TypeOK /\ First!Tunnel!NoOrphan
                                    /\ First!Tunnel!ConnectedMeansExec)
  <2>1. First!Tunnel!TunnelHostAssumption
    BY RunnerAssumption, SMTT(60)
  <2>2. First!Tunnel!Spec => /\ []First!Tunnel!TypeOK
                           /\ [](TRUE => First!Tunnel!NoOrphan /\ First!Tunnel!ConnectedMeansExec)
    BY <2>1, First!TunnelHasOwner, SMTT(60)
  <2> QED BY <2>2, ManualBehaves, PTL DEF Spec, First!Tunnel!Spec
<1>2. Spec => [](part = "reconnecting" => /\ Second!Tunnel!TypeOK /\ Second!Tunnel!NoOrphan
                                    /\ Second!Tunnel!ConnectedMeansExec)
  <2>1. Second!Tunnel!TunnelHostAssumption
    BY RunnerAssumption, SMTT(60)
  <2>2. Second!Tunnel!Spec => /\ []Second!Tunnel!TypeOK
                           /\ [](TRUE => Second!Tunnel!NoOrphan /\ Second!Tunnel!ConnectedMeansExec)
    BY <2>1, Second!TunnelHasOwner, SMTT(60)
  <2> QED BY <2>2, ReconnectingBehaves, PTL DEF Spec, Second!Tunnel!Spec
<1> QED BY <1>1, <1>2, PTL DEF NoOrphan

-----------------------------------------------------------------------------
(* The instances about the streams of the tunnel.                          *)
LEMMA SharingBehaves ==
  /\ Init /\ part = "sharing" => First!Stream!Init
  /\ [Next]_vars /\ part = "sharing" =>
       (part = "sharing")' /\ [First!Stream!Next]_(First!Stream!vars)
  /\ [Next]_vars /\ ~(part = "sharing") => ~(part = "sharing")'
BY SMTT(60) DEF Init, Next, vars, streamVars, First!Stream!vars

LEMMA ReusingBehaves ==
  /\ Init /\ part = "reusing" => Second!Stream!Init
  /\ [Next]_vars /\ part = "reusing" =>
       (part = "reusing")' /\ [Second!Stream!Next]_(Second!Stream!vars)
  /\ [Next]_vars /\ ~(part = "reusing") => ~(part = "reusing")'
BY SMTT(60) DEF Init, Next, vars, streamVars, Second!Stream!vars

LEMMA FailingBehaves ==
  /\ Init /\ part = "failing" => Third!Stream!Init
  /\ [Next]_vars /\ part = "failing" =>
       (part = "failing")' /\ [Third!Stream!Next]_(Third!Stream!vars)
  /\ [Next]_vars /\ ~(part = "failing") => ~(part = "failing")'
BY SMTT(60) DEF Init, Next, vars, streamVars, Third!Stream!vars

LEMMA QuietBehaves ==
  /\ Init /\ part = "quiet" => Fourth!Stream!Init
  /\ [Next]_vars /\ part = "quiet" =>
       (part = "quiet")' /\ [Fourth!Stream!Next]_(Fourth!Stream!vars)
  /\ [Next]_vars /\ ~(part = "quiet") => ~(part = "quiet")'
BY SMTT(60) DEF Init, Next, vars, streamVars, Fourth!Stream!vars

(* Stream numbers that are used again never mix two connections up: any    *)
(* connections and numbers while nothing fails, where an accepted          *)
(* connection is refused by no frame either, and any failures where there  *)
(* are numbers for all (agent.ts, host.ts of the tunnel).                  *)
THEOREM StreamsOfTunnel == Spec => []StreamsApart
<1>1. Spec => [](part = "sharing" => /\ First!Stream!TypeOK /\ First!Stream!OwnFramesOnly
                                        /\ First!Stream!StreamKeepsNumber
                                            /\ First!Stream!AcceptedNotRefused)
  <2>1. First!Stream!TunnelStreamsAssumption /\ First!Orderly
    BY RunnerAssumption, SMTT(60) DEF First!Orderly
  <2>2. First!Stream!Spec =>
          /\ []First!Stream!TypeOK
          /\ [](First!Orderly => First!Stream!OwnFramesOnly /\ First!Stream!StreamKeepsNumber
                                /\ First!Stream!AcceptedNotRefused)
          /\ [](First!Enough => First!Stream!OwnFramesOnly /\ First!Stream!StreamKeepsNumber)
    BY <2>1, First!StreamsStayApart, SMTT(60)
  <2> QED BY <2>1, <2>2, SharingBehaves, PTL DEF Spec, First!Stream!Spec
<1>2. Spec => [](part = "reusing" => /\ Second!Stream!TypeOK /\ Second!Stream!OwnFramesOnly
                                        /\ Second!Stream!StreamKeepsNumber
                                            /\ Second!Stream!AcceptedNotRefused)
  <2>1. Second!Stream!TunnelStreamsAssumption /\ Second!Orderly
    BY RunnerAssumption, SMTT(60) DEF Second!Orderly
  <2>2. Second!Stream!Spec =>
          /\ []Second!Stream!TypeOK
          /\ [](Second!Orderly => Second!Stream!OwnFramesOnly /\ Second!Stream!StreamKeepsNumber
                                /\ Second!Stream!AcceptedNotRefused)
          /\ [](Second!Enough => Second!Stream!OwnFramesOnly /\ Second!Stream!StreamKeepsNumber)
    BY <2>1, Second!StreamsStayApart, SMTT(60)
  <2> QED BY <2>1, <2>2, ReusingBehaves, PTL DEF Spec, Second!Stream!Spec
<1>3. Spec => [](part = "failing" => /\ Third!Stream!TypeOK /\ Third!Stream!OwnFramesOnly
                                        /\ Third!Stream!StreamKeepsNumber)
  <2>1. Third!Stream!TunnelStreamsAssumption /\ Third!Enough
    BY RunnerAssumption
  <2>2. Third!Stream!Spec =>
          /\ []Third!Stream!TypeOK
          /\ [](Third!Orderly => Third!Stream!OwnFramesOnly /\ Third!Stream!StreamKeepsNumber
                                /\ Third!Stream!AcceptedNotRefused)
          /\ [](Third!Enough => Third!Stream!OwnFramesOnly /\ Third!Stream!StreamKeepsNumber)
    BY <2>1, Third!StreamsStayApart, SMTT(60)
  <2> QED BY <2>1, <2>2, FailingBehaves, PTL DEF Spec, Third!Stream!Spec
<1>4. Spec => [](part = "quiet" => /\ Fourth!Stream!TypeOK /\ Fourth!Stream!OwnFramesOnly
                                      /\ Fourth!Stream!StreamKeepsNumber)
  <2>1. Fourth!Stream!TunnelStreamsAssumption /\ Fourth!Enough
    BY RunnerAssumption
  <2>2. Fourth!Stream!Spec =>
          /\ []Fourth!Stream!TypeOK
          /\ [](Fourth!Orderly => Fourth!Stream!OwnFramesOnly /\ Fourth!Stream!StreamKeepsNumber
                                /\ Fourth!Stream!AcceptedNotRefused)
          /\ [](Fourth!Enough => Fourth!Stream!OwnFramesOnly /\ Fourth!Stream!StreamKeepsNumber)
    BY <2>1, Fourth!StreamsStayApart, SMTT(60)
  <2> QED BY <2>1, <2>2, QuietBehaves, PTL DEF Spec, Fourth!Stream!Spec
<1> QED BY <1>1, <1>2, <1>3, <1>4, PTL DEF StreamsApart
=============================================================================
