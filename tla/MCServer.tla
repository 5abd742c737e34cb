------------------------------ MODULE MCServer ------------------------------
(***************************************************************************)
(* Model-checking module for the parts of the platform server beside the   *)
(* delivery gateway: task worker, failure notices, approvals and questions,*)
(* Lark outbox, steering, scheduler.  They share no state, so a run checks *)
(* them side by side: the variable part says which instance a behaviour is *)
(* about, Init chooses it from Parts, and the variables of the others are 0*)
(* throughout.  A run is thus the union of the runs of its parts.          *)
(***************************************************************************)
EXTENDS Naturals, Sequences

CONSTANTS
  Parts,                                       \* the instances of the run
  a1, q1,                                      \* an approval, a question
  Items, Lone,                                 \* answers, one of them
  MaxAttempts, MaxFaults, MaxCardFaults, MaxCrashes,     \* Lark outbox
  Messages, Pair,                              \* messages, two of them
  MaxTurns, MaxCalls, MaxSends, MaxThrows,               \* steering
  Tasks, MaxRetries, MaxRuns, MaxOps, MaxRestarts,       \* task worker
  N, Missed, ScanLimit, PendingLimit, MaxTries,          \* failure notices
  AllEvents, MaxManual, MaxSwitches, MaxKills,
  Users, PerUser, Limit, MaxArrivals, MaxUpgrades        \* scheduler

VARIABLES
  part,  \* the instance that moves
  task, runs, worker, ops, restarts,
  occ, sub, noticeRow, noticeAtt, pass, noticeSends, shown, noticeLeft,
  rt, mem, age, bridgeUp, dead, attached, reqs, wire, pend, armed, ans, wait, out, asked,
  told, rec, late, lost, bridgeLeft,
  kind, turn, aged, tracker, job, larkRow, larkAtt, sender, cardRow, card,
  text, file, plain, boot, deferred, larkFaults, cardFaults, crashes,
  run, content, agent, call, inboxKey, steerKey, seen, acked, dropped,
  blocked, way, steerSends, steerFaults,
  queue, active, passing, wake, schedUp, arrived, upgrades

taskVars == <<task, runs, worker, ops, restarts>>
noticeVars == <<occ, sub, noticeRow, noticeAtt, pass, noticeSends, shown,
                noticeLeft>>
bridgeVars == <<rt, mem, age, bridgeUp, dead, attached, reqs, wire, pend, armed, ans,
                wait, out, asked, told, rec, late, lost, bridgeLeft>>
larkVars == <<kind, turn, aged, tracker, job, larkRow, larkAtt, sender,
              cardRow, card, text, file, plain, boot, deferred, larkFaults,
              cardFaults, crashes>>
steerVars == <<run, content, agent, call, inboxKey, steerKey, seen, acked,
               dropped, blocked, way, steerSends, steerFaults>>
schedVars == <<queue, active, passing, wake, schedUp, arrived, upgrades>>
vars == <<part, taskVars, noticeVars, bridgeVars, larkVars, steerVars,
          schedVars>>

-----------------------------------------------------------------------------
(* The components about which ServerTheorems proves, twice.  First: the    *)
(* Lark outbox while the server runs (part "posting"), steering with       *)
(* messages in a race ("racing"), tasks with a script ("overlap"), failure *)
(* notices by the channel with a limit on every scan ("notices"), the      *)
(* scheduler with users that are paused for an upgrade ("passing").  Second:*)
(* the outbox with crashes ("resending"), steering with fewer messages     *)
(* that are sent again and calls that throw ("throwing"), leases with a    *)
(* restart and cancellations that fail ("leases"), notices in the anchor   *)
(* session with manual retries, a change of the setting and a crash        *)
(* ("insession").                                                          *)
First == INSTANCE ServerTheorems WITH
  Kinds <- {"reply", "task"}, MaxCrashes <- 0,
  MaxSends <- 1, MaxThrows <- 0, MayCorrupt <- TRUE,
  Scripts <- Tasks, CancelFails <- FALSE, MaxRestarts <- 0,
  InApp <- {}, NoSession <- {}, MaxManual <- 0, MaxSwitches <- 0, MaxKills <- 0,
  MayBreak <- FALSE
Second == INSTANCE ServerTheorems WITH
  Items <- Lone, Kinds <- {"reply", "task", "file"},
  Messages <- Pair, MaxCalls <- MaxCalls + 1, MayCorrupt <- FALSE,
  Scripts <- {}, CancelFails <- TRUE,
  N <- N - 1, Missed <- {}, InApp <- 1..(N - 1), NoSession <- {1},
  MayBreak <- TRUE

(* Smaller instances of the three for liveness.                            *)
Worker == INSTANCE TaskRuns WITH
  Scripts <- {}, CancelFails <- TRUE, MaxOps <- MaxOps - 1
Answering == INSTANCE LarkOutbox WITH
  Items <- Lone, Kinds <- {"reply", "task"}, row <- larkRow, att <- larkAtt,
  faults <- larkFaults
Steered == INSTANCE Steering WITH
  Messages <- Pair, MaxTurns <- MaxTurns - 1, MaxSends <- 1,
  MaxFaults <- MaxThrows, MayCorrupt <- FALSE, sends <- steerSends,
  faults <- steerFaults

(* Approvals and questions: answers with lost calls and connections, a     *)
(* runtime that restarts or is detached, and an instance for liveness.     *)
Approving == INSTANCE Interactions WITH
  Approvals <- {a1}, Questions <- {}, MaxAnswers <- 2, MaxTimeouts <- 1,
  MaxCuts <- 1, MaxRestarts <- 0, MaxDetaches <- 0, MaxReplaces <- 0,
  up <- bridgeUp, left <- bridgeLeft
Questioning == INSTANCE Interactions WITH
  Approvals <- {}, Questions <- {q1}, MaxAnswers <- 2, MaxTimeouts <- 1,
  MaxCuts <- 0, MaxRestarts <- 1, MaxDetaches <- 0, MaxReplaces <- 1,
  up <- bridgeUp, left <- bridgeLeft
Asked == INSTANCE Interactions WITH
  Approvals <- {}, Questions <- {q1}, MaxAnswers <- 0, MaxTimeouts <- 0,
  MaxCuts <- 1, MaxRestarts <- 1, MaxDetaches <- 1, MaxReplaces <- 1,
  up <- bridgeUp, left <- bridgeLeft
Pending == INSTANCE Interactions WITH
  Approvals <- {a1}, Questions <- {}, MaxAnswers <- 1, MaxTimeouts <- 0,
  MaxCuts <- 1, MaxRestarts <- 0, MaxDetaches <- 0, MaxReplaces <- 0,
  up <- bridgeUp, left <- bridgeLeft

(* The scheduler with a smaller window and payloads that do not parse.     *)
Claiming == INSTANCE Scheduler WITH
  Limit <- Limit - 2, MaxTurns <- MaxArrivals - 1,
  MaxUpgrades <- MaxUpgrades - 1, MayCorrupt <- TRUE, up <- schedUp

ASSUME ServerAssumption ==
  /\ Second!Work!TaskAssumption /\ First!Work!TaskAssumption /\ Worker!TaskAssumption
  /\ First!Notice!NotificationAssumption /\ Second!Notice!NotificationAssumption
  /\ Approving!InteractionsAssumption /\ Questioning!InteractionsAssumption
  /\ Asked!InteractionsAssumption /\ Pending!InteractionsAssumption
  /\ First!Lark!LarkOutboxAssumption /\ Second!Lark!LarkOutboxAssumption
  /\ Answering!LarkOutboxAssumption
  /\ First!Steer!SteeringAssumption /\ Second!Steer!SteeringAssumption
  /\ Steered!SteeringAssumption
  /\ First!Sched!SchedulerAssumption /\ Claiming!SchedulerAssumption
  /\ MaxArrivals <= Limit

-----------------------------------------------------------------------------
taskOff ==
  /\ task = 0 /\ runs = 0 /\ worker = 0 /\ ops = 0 /\ restarts = 0
noticeOff ==
  /\ occ = 0 /\ sub = 0 /\ noticeRow = 0 /\ noticeAtt = 0 /\ pass = 0
  /\ noticeSends = 0 /\ shown = 0 /\ noticeLeft = 0
bridgeOff ==
  /\ rt = 0 /\ mem = 0 /\ age = 0 /\ bridgeUp = 0 /\ dead = 0 /\ attached = 0 /\ armed = 0
  /\ reqs = 0 /\ wire = 0 /\ pend = 0 /\ ans = 0 /\ wait = 0 /\ out = 0
  /\ asked = 0 /\ told = 0 /\ rec = 0 /\ late = 0 /\ lost = 0
  /\ bridgeLeft = 0
larkOff ==
  /\ kind = 0 /\ turn = 0 /\ aged = 0 /\ tracker = 0 /\ job = 0
  /\ larkRow = 0 /\ larkAtt = 0 /\ sender = 0 /\ cardRow = 0 /\ card = 0
  /\ text = 0 /\ file = 0 /\ plain = 0 /\ boot = 0 /\ deferred = 0 /\ larkFaults = 0
  /\ cardFaults = 0 /\ crashes = 0
steerOff ==
  /\ run = 0 /\ content = 0 /\ agent = 0 /\ call = 0 /\ inboxKey = 0
  /\ steerKey = 0 /\ seen = 0 /\ acked = 0 /\ dropped = 0 /\ blocked = 0
  /\ way = 0 /\ steerSends = 0 /\ steerFaults = 0
schedOff ==
  /\ queue = 0 /\ active = 0 /\ passing = 0 /\ wake = 0 /\ schedUp = 0
  /\ arrived = 0 /\ upgrades = 0

(* The others are left out of the state.                                   *)
Init ==
  /\ part \in Parts
  /\ \/ part = "leases" /\ Second!Work!Init
     \/ part = "overlap" /\ First!Work!Init
     \/ part = "worker" /\ Worker!Init
     \/ part \notin {"leases", "overlap", "worker"} /\ taskOff
  /\ \/ part = "notices" /\ First!Notice!Init
     \/ part = "insession" /\ Second!Notice!Init
     \/ part \notin {"notices", "insession"} /\ noticeOff
  /\ \/ part = "approving" /\ Approving!Init
     \/ part = "questioning" /\ Questioning!Init
     \/ part = "asked" /\ Asked!Init
     \/ part = "pending" /\ Pending!Init
     \/ part \notin {"approving", "questioning", "asked", "pending"} /\ bridgeOff
  /\ \/ part = "posting" /\ First!Lark!Init
     \/ part = "resending" /\ Second!Lark!Init
     \/ part = "answering" /\ Answering!Init
     \/ part \notin {"posting", "resending", "answering"} /\ larkOff
  /\ \/ part = "racing" /\ First!Steer!Init
     \/ part = "throwing" /\ Second!Steer!Init
     \/ part = "steered" /\ Steered!Init
     \/ part \notin {"racing", "throwing", "steered"} /\ steerOff
  /\ \/ part = "passing" /\ First!Sched!Init
     \/ part = "claiming" /\ Claiming!Init
     \/ part \notin {"passing", "claiming"} /\ schedOff

Next ==
  \/ /\ \/ part = "leases" /\ Second!Work!Next
        \/ part = "overlap" /\ First!Work!Next
        \/ part = "worker" /\ Worker!Next
     /\ UNCHANGED <<part, noticeVars, bridgeVars, larkVars, steerVars,
                    schedVars>>
  \/ /\ \/ part = "notices" /\ First!Notice!Next
        \/ part = "insession" /\ Second!Notice!Next
     /\ UNCHANGED <<part, taskVars, bridgeVars, larkVars, steerVars,
                    schedVars>>
  \/ /\ \/ part = "approving" /\ Approving!Next
        \/ part = "questioning" /\ Questioning!Next
        \/ part = "asked" /\ Asked!Next
        \/ part = "pending" /\ Pending!Next
     /\ UNCHANGED <<part, taskVars, noticeVars, larkVars, steerVars,
                    schedVars>>
  \/ /\ \/ part = "posting" /\ First!Lark!Next
        \/ part = "resending" /\ Second!Lark!Next
        \/ part = "answering" /\ Answering!Next
     /\ UNCHANGED <<part, taskVars, noticeVars, bridgeVars, steerVars,
                    schedVars>>
  \/ /\ \/ part = "racing" /\ First!Steer!Next
        \/ part = "throwing" /\ Second!Steer!Next
        \/ part = "steered" /\ Steered!Next
     /\ UNCHANGED <<part, taskVars, noticeVars, bridgeVars, larkVars,
                    schedVars>>
  \/ /\ \/ part = "passing" /\ First!Sched!Next
        \/ part = "claiming" /\ Claiming!Next
     /\ UNCHANGED <<part, taskVars, noticeVars, bridgeVars, larkVars,
                    steerVars>>

Spec == Init /\ [][Next]_vars

(* The fairness of each component, for the instance that moves: timers     *)
(* fire, calls return or fail, a stopped process is started again.         *)
WorkerFairness ==
  LET On == part = "worker" IN
  /\ WF_taskVars(On /\ Worker!WorkerStep)
  /\ WF_taskVars(On /\ Worker!Restart)
  /\ WF_taskVars(On /\ Worker!Crash /\ worker.state = "stopped")
  /\ \A t \in Tasks :
       /\ WF_taskVars(On /\ Worker!BecomesDue(t))
       /\ \A i \in 1..MaxRuns :
            /\ WF_taskVars(On /\ i \in DOMAIN runs[t] /\ Worker!LeaseExpires(t, i))
            /\ WF_taskVars(On /\ i \in DOMAIN runs[t]
                 /\ \E o \in {"completed", "failed"} : Worker!TurnEnds(t, i, o))

PendingFairness ==
  LET On == part = "pending" IN
  /\ WF_bridgeVars(On /\ Pending!Tick(a1)) /\ WF_bridgeVars(On /\ Pending!Announce(a1))
  /\ WF_bridgeVars(On /\ Pending!AnswerFails(a1))
  /\ WF_bridgeVars(On /\ Pending!RuntimeSettles(a1, "expired"))
  /\ WF_bridgeVars(On /\ Pending!TimerFires(a1))
  /\ WF_bridgeVars(On /\ Pending!Receive) /\ WF_bridgeVars(On /\ Pending!Serve)
  /\ WF_bridgeVars(On /\ (Pending!Reconnect \/ Pending!GiveUp))
  /\ \A k \in {"approval", "question"} : /\ WF_bridgeVars(On /\ Pending!ServeList(k))
                                         /\ WF_bridgeVars(On /\ Pending!Reconcile(k))

AnsweringFairness ==
  LET On == part = "answering" IN
  /\ \A i \in Lone :
       /\ WF_larkVars(On /\ Answering!Handler(i)) /\ WF_larkVars(On /\ Answering!Age(i))
       /\ WF_larkVars(On /\ Answering!Claim(i)) /\ WF_larkVars(On /\ Answering!Transmit(i))
       /\ WF_larkVars(On /\ Answering!SettleSend(i))
       /\ WF_larkVars(On /\ Answering!RecoverStale(i))
       /\ WF_larkVars(On /\ Answering!Scan(i))
       /\ WF_larkVars(On /\ Answering!ReconcileCard(i))
  /\ WF_larkVars(On /\ Answering!ScanDone) /\ WF_larkVars(On /\ Answering!CardsDone)

SteeredFairness ==
  LET On == part = "steered" IN
  /\ WF_steerVars(On /\ Steered!Claim) /\ WF_steerVars(On /\ Steered!End)
  /\ \A t \in 1..(MaxTurns - 1) : /\ WF_steerVars(On /\ Steered!Start(t))
                                  /\ WF_steerVars(On /\ Steered!Complete(t))
  /\ \A c \in 1..MaxCalls : /\ WF_steerVars(On /\ Steered!HandleSteer(c))
                            /\ WF_steerVars(On /\ Steered!StoreSteer(c))
                            /\ WF_steerVars(On /\ Steered!SteerThrew(c))

ClaimingFairness ==
  LET On == part = "claiming" IN
  /\ WF_schedVars(On /\ Claiming!StartPass) /\ WF_schedVars(On /\ Claiming!Claim)
  /\ WF_schedVars(On /\ Claiming!Quarantine) /\ WF_schedVars(On /\ Claiming!EndPass)
  /\ WF_schedVars(On /\ Claiming!Recheck) /\ WF_schedVars(On /\ Claiming!Upgraded)
  /\ \A s \in Claiming!Sessions : WF_schedVars(On /\ Claiming!Settle(s))

FairSpec ==
  Spec /\ WorkerFairness /\ PendingFairness /\ AnsweringFairness /\ SteeredFairness
       /\ ClaimingFairness

-----------------------------------------------------------------------------
(* Leases of the task worker (task-repository.ts, task-worker.ts): however *)
(* claims, manual runs, resumptions, cancellations, expired leases and     *)
(* restarts interleave, a task has one active run, a claimed task is       *)
(* claimed by its latest run, a recurring task never fails for good, a     *)
(* task that waits has a retry left, a run is recorded as completed only   *)
(* if its own turn was, a run that has ended is never rewritten, and two   *)
(* runs of a script never overlap.                                         *)
RunsExclusive ==
  [][/\ part = "leases" => /\ Second!Work!TypeOK' /\ Second!Work!OneActiveRun'
                           /\ Second!Work!ClaimBackedByRun' /\ Second!Work!RecurringNeverFails'
                           /\ Second!Work!PendingHasRetries' /\ Second!Work!CompletedRunDidIt'
                           /\ Second!Work!EndedRunsStay
     /\ part = "overlap" => First!Work!TurnsDoNotOverlap']_vars

(* A failure notice is never lost (task-notification-service.ts): what is  *)
(* given up on the channel is in the anchor session, and what is recorded  *)
(* as delivered was shown, through scans, retries and a crash.  Nothing is *)
(* announced while the setting is off.                                     *)
NoticesReachUser ==
  [][/\ part = "notices" => First!Notice!TypeOK' /\ First!Notice!GivenUpIsShown'
     /\ part = "insession" => Second!Notice!DeliveredIsShown' /\ Second!Notice!DisabledIsQuiet]_vars

(* An approval or a question has one outcome (approval and question        *)
(* bridges): what the channels are told is what the runtime did, no clock  *)
(* or list overrules an answer on its way, the outcome is told once, and   *)
(* what waits in a connected runtime is shown or about to be.              *)
OneOutcome ==
  /\ part = "approving" => /\ Approving!TypeOK /\ Approving!AnswersAgree
                           /\ Approving!NothingOverruled /\ Approving!ToldOnce
  /\ part = "questioning" => Questioning!AnswersAgree /\ Questioning!NothingOverruled
  /\ part = "asked" => Asked!NoneMissed

(* An answer is shown in the Lark chat once, by the card or by the outbox, *)
(* while the server runs, and one that is recorded as delivered was shown, *)
(* through crashes too (the channel outbox and the streaming cards).       *)
AnswerShown ==
  /\ part = "posting" => First!Lark!TypeOK /\ First!Lark!ShownOnce
  /\ part = "resending" => Second!Lark!DeliveredMeansShown

(* A message sent while a turn runs (steerTurn, promoteQueuedToSteer) is   *)
(* seen by the agent once, whatever ends the turn meanwhile, and it is not *)
(* dropped when calls to the runtime throw.                                *)
MessageSeenOnce ==
  /\ part = "racing" => First!Steer!TypeOK /\ First!Steer!SeenOnce
  /\ part = "throwing" => Second!Steer!NothingDropped

(* A pass of the scheduler ends only when no slot or no startable turn is  *)
(* left (scheduleQueuedTurns), and the auto-upgrader stops the runtime of  *)
(* an idle user only.                                                      *)
PassesAndUpgrades ==
  [][part = "passing" => /\ First!Sched!EndsExhausted
                         /\ First!Sched!StopsOnlyIdle' /\ First!Sched!TypeOK']_vars

(* Every task that is not recurring ends, unless it is paused, although    *)
(* workers crash, leases expire and turns fail.                            *)
EveryTaskEnds ==
  \A t \in Tasks :
    (part = "worker" /\ task[t].status \in {"pending", "claimed"})
      ~> (part = "worker" /\ \/ task[t].status \in Worker!Terminal \cup {"deleted"}
                             \/ task[t].paused \/ task[t].recurring)

(* Whatever is shown as pending is settled in the end, by the runtime's    *)
(* word, by the list that follows a new connection or by its own timer,    *)
(* which fires once; only an approval whose timer went off under an answer *)
(* that then failed waits on, when the transport has given up besides.     *)
PendingSettles ==
  (part = "pending" /\ a1 \in pend)
    ~> (part = "pending" /\ (a1 \notin pend \/ Pending!Stranded(a1)))

(* The answer of a completed turn gets to the chat or uses up its attempts,*)
(* whatever the server was doing when it stopped, unless it is started     *)
(* again more than a day later.                                            *)
EventuallyAnswered ==
  \A i \in Lone :
    (part = "answering" /\ turn[i] = "completed")
      ~> (part = "answering" /\ (larkRow[i] \in {"delivered", "failed"} \/ aged[i] = "old"))

(* An accepted message is seen by the agent, unless it is taken back.      *)
EventuallySeen ==
  \A m \in Pair :
    (part = "steered" /\ m \in acked)
      ~> (part = "steered" /\ (seen[m] > 0 \/ m \in dropped))

(* Every queued turn leaves the queue, whoever is paused meanwhile and     *)
(* however many turns are ahead of it.                                     *)
EventuallyClaimed ==
  \A i \in 1..(MaxArrivals - 1) :
    (part = "claiming" /\ \E r \in queue : r.id = i)
      ~> (part = "claiming" /\ \A r \in queue : r.id # i)
=============================================================================
