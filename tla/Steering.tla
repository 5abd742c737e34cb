------------------------------ MODULE Steering ------------------------------
(***************************************************************************)
(* Messages that reach a session while a turn is running: they are queued  *)
(* as turns of their own, injected into the running turn (steerTurn: the   *)
(* web API, a channel whose busy_mode is 'steer', the command /steer), or  *)
(* taken back out of the queue and injected (promoteQueuedToSteer).  The   *)
(* server's turn row and the runtime's turn end at different times, and    *)
(* the call to the runtime is awaited between reading the one and storing  *)
(* the result.                                                             *)
(*   runtime/delivery-gateway.ts   dispatchInbound, steerTurn,             *)
(*                                 promoteQueuedToSteer, cancelQueuedTurn  *)
(*   chat/chat-command-service.ts  executeSteerCommand                     *)
(*   runtime-runner runtime/daemon.ts   handleSteer                        *)
(* One user, one session, one idempotency key per message.                 *)
(***************************************************************************)
EXTENDS Naturals, FiniteSets, FiniteSetsExt

CONSTANTS
  Messages,
  MaxTurns,     \* bound: turns of the session
  MaxCalls,     \* bound: calls of steerTurn
  MaxSends,     \* bound: how often one message is presented
  MaxFaults,    \* bound: calls that throw, done or not
  MayCorrupt    \* whether a turn may leave the session in recovery_required

(* What a run assumes of the constants.                                    *)
SteeringAssumption ==
  /\ {MaxTurns, MaxCalls, MaxSends, MaxFaults} \subseteq Nat
  /\ MayCorrupt \in BOOLEAN

Turns == 1..MaxTurns
Calls == 1..MaxCalls

VARIABLES
  run,        \* turn -> turn_runs.status
  content,    \* turn -> the messages it carries
  agent,      \* the turn the runtime is running, 0 when it is idle
  call,       \* call of steerTurn -> its state
  inboxKey,   \* messages with an idempotency record of their own turn
  steerKey,   \* message -> the turn of its 'steer:' record, 0 without one
  seen,       \* message -> how often it was given to the agent
  acked,      \* messages the sender was told are accepted
  dropped,    \* messages the user took back from the queue
  blocked,    \* the session is in recovery_required
  way,        \* message -> how its sender presents it
  sends, faults

vars == <<run, content, agent, call, inboxKey, steerKey, seen, acked, dropped,
          blocked, way, sends, faults>>

NoCall == [kind |-> "none", msgs |-> {}, turn |-> 0, st |-> "none"]

Init ==
  /\ run = [t \in Turns |-> "none"]
  /\ content = [t \in Turns |-> {}]
  /\ agent = 0
  /\ call = [c \in Calls |-> NoCall]
  /\ inboxKey = {} /\ acked = {} /\ dropped = {}
  /\ steerKey = [m \in Messages |-> 0]
  /\ seen = [m \in Messages |-> 0]
  /\ blocked = FALSE
  /\ way \in [Messages -> {"queue", "channel", "web"}]
  /\ sends = [m \in Messages |-> 0] /\ faults = 0

Running == {t \in Turns : run[t] = "running"}
Queued == {t \in Turns : run[t] = "queued"}
Fresh == {t \in Turns : run[t] = "none"}
FreeCalls == {c \in Calls : call[c].kind = "none"}

Give(ms) == seen' = [m \in Messages |-> seen[m] + IF m \in ms THEN 1 ELSE 0]
Present(m) == /\ sends[m] < MaxSends
              /\ sends' = [sends EXCEPT ![m] = @ + 1]

-----------------------------------------------------------------------------
(* Ordinary messages and turns.                                            *)

(* ingestWebDelivery: a queued turn with the idempotency record.           *)
Ingest(ms) ==
  /\ Fresh # {}
  /\ LET t == Min(Fresh)
     IN  /\ run' = [run EXCEPT ![t] = "queued"]
         /\ content' = [content EXCEPT ![t] = ms]

(* dispatchInbound, ordinary mode: nothing is running that the message     *)
(* could be steered into, or the channel queues.  A repeated key is        *)
(* answered from its record; recovery_required refuses.                    *)
Dispatch(m) ==
  /\ Present(m)
  /\ \/ way[m] = "queue"
     \/ way[m] = "channel" /\ (Running = {} \/ m \in inboxKey)
  /\ ~blocked
  /\ IF m \in inboxKey
       THEN UNCHANGED <<run, content, inboxKey>>
       ELSE Ingest({m}) /\ inboxKey' = inboxKey \cup {m}
  /\ acked' = acked \cup {m}
  /\ UNCHANGED <<way, agent, call, steerKey, seen, dropped, blocked, faults>>

(* The scheduler claims: the queued turns of the session are merged into   *)
(* the last one.                                                           *)
Claim ==
  /\ Running = {} /\ Queued # {} /\ ~blocked
  /\ run' = [t \in Turns |-> IF t = Max(Queued) THEN "running"
                             ELSE IF t \in Queued THEN "completed" ELSE run[t]]
  /\ content' = [content EXCEPT ![Max(Queued)] =
                                  UNION {content[t] : t \in Queued}]
  /\ UNCHANGED <<way, agent, call, inboxKey, steerKey, seen, acked, dropped,
                 blocked, sends, faults>>

(* The runtime starts the claimed turn.                                    *)
Start(t) ==
  /\ t \in Running /\ agent = 0
  /\ content[t] # {}
  /\ agent' = t
  /\ Give(content[t])
  /\ content' = [content EXCEPT ![t] = {}]
  /\ UNCHANGED <<way, run, call, inboxKey, steerKey, acked, dropped, blocked,
                 sends, faults>>

(* The runtime's turn ends; the server hears of it later.                  *)
End ==
  /\ agent # 0
  /\ agent' = 0
  /\ UNCHANGED <<way, run, content, call, inboxKey, steerKey, seen, acked,
                 dropped, blocked, sends, faults>>

(* Mutant: the status of the runtime is stored instead of the platform's.  *)
CompleteWithRuntimeStatus(t) ==
  /\ t \in Running /\ agent = 0 /\ content[t] = {}
  /\ run' = [run EXCEPT ![t] = "ended"]
  /\ UNCHANGED <<way, content, agent, call, inboxKey, steerKey, seen, acked,
                 dropped, blocked, sends, faults>>

Complete(t) ==
  /\ t \in Running /\ agent = 0 /\ content[t] = {}
  /\ run' = [run EXCEPT ![t] = "completed"]
  /\ \/ UNCHANGED blocked
     \/ MayCorrupt /\ blocked' = TRUE
  /\ UNCHANGED <<way, content, agent, call, inboxKey, steerKey, seen, acked,
                 dropped, sends, faults>>

(* cancelQueuedTurn: a compare and set on 'queued'.                        *)
CancelQueuedTurn(t) ==
  /\ t \in Queued
  /\ run' = [run EXCEPT ![t] = "interrupted"]
  /\ dropped' = dropped \cup content[t]
  /\ content' = [content EXCEPT ![t] = {}]
  /\ UNCHANGED <<way, agent, call, inboxKey, steerKey, seen, acked, blocked,
                 sends, faults>>

-----------------------------------------------------------------------------
(* steerTurn up to its call of the runtime.                                *)

Send(kind, ms, t) ==
  /\ FreeCalls # {}
  /\ call' = [call EXCEPT ![Min(FreeCalls)] =
                [kind |-> kind, msgs |-> ms, turn |-> t, st |-> "sent"]]

(* POST /steer: replayed when the key has a record for this turn, refused  *)
(* when it has one for another turn or when nothing is running.            *)
WebSteer(m, t) ==
  /\ Present(m) /\ way[m] = "web"
  /\ t \in Running
  /\ \/ steerKey[m] = 0 /\ Send("web", {m}, t) /\ UNCHANGED acked
     \/ steerKey[m] = t /\ acked' = acked \cup {m} /\ UNCHANGED call
  /\ UNCHANGED <<way, run, content, agent, inboxKey, steerKey, seen, dropped,
                 blocked, faults>>

(* dispatchInbound for a channel with busy_mode 'steer', or /steer <text>: *)
(* the same call, and an ordinary message when it throws.  The record of   *)
(* an earlier steer into another turn makes it throw at once.              *)
ChannelSteer(m, t) ==
  /\ Present(m) /\ way[m] = "channel"
  /\ t \in Running /\ ~blocked
  /\ m \notin inboxKey
  /\ \/ /\ steerKey[m] = 0 /\ Send("channel", {m}, t)
        /\ UNCHANGED <<run, content, inboxKey, acked>>
     \/ /\ steerKey[m] = t /\ acked' = acked \cup {m}
        /\ UNCHANGED <<run, content, inboxKey, call>>
     \/ /\ steerKey[m] \notin {0, t} /\ Ingest({m})
        /\ inboxKey' = inboxKey \cup {m} /\ acked' = acked \cup {m}
        /\ UNCHANGED call
  /\ UNCHANGED <<way, agent, steerKey, seen, dropped, blocked, faults>>

(* Mutant: the selected turns stay queued while they are steered.          *)
PromoteKeepingQueued(S, t) ==
  /\ t \in Running
  /\ S # {} /\ S \subseteq Queued
  /\ Send("promote", UNION {content[q] : q \in S}, t)
  /\ UNCHANGED <<way, run, content, agent, inboxKey, steerKey, seen, acked,
                 dropped, blocked, sends, faults>>

(* promoteQueuedToSteer: the selected turns that are still queued become   *)
(* 'interrupted' in one transaction, then their messages are steered.      *)
Promote(S, t) ==
  /\ t \in Running
  /\ S # {} /\ S \subseteq Queued
  /\ run' = [q \in Turns |-> IF q \in S THEN "interrupted" ELSE run[q]]
  /\ content' = [q \in Turns |-> IF q \in S THEN {} ELSE content[q]]
  /\ Send("promote", UNION {content[q] : q \in S}, t)
  /\ UNCHANGED <<way, agent, inboxKey, steerKey, seen, acked, dropped,
                 blocked, sends, faults>>

-----------------------------------------------------------------------------
(* handleSteer in the runtime, and the answer.                             *)

HandleSteer(c) ==
  /\ call[c].st = "sent"
  /\ IF agent = call[c].turn
       THEN /\ Give(call[c].msgs)
            /\ call' = [call EXCEPT ![c].st = "ok"]
       ELSE /\ call' = [call EXCEPT ![c].st = "threw"]
            /\ UNCHANGED seen
  /\ UNCHANGED <<way, run, content, agent, inboxKey, steerKey, acked,
                 dropped, blocked, sends, faults>>

(* The transport fails before or after the runtime acted.                  *)
TransportFails(c) ==
  /\ call[c].st \in {"sent", "ok"}
  /\ faults < MaxFaults /\ faults' = faults + 1
  /\ call' = [call EXCEPT ![c].st = "threw"]
  /\ UNCHANGED <<way, run, content, agent, inboxKey, steerKey, seen, acked,
                 dropped, blocked, sends>>

Finish(c) == call' = [call EXCEPT ![c] = [NoCall EXCEPT !.kind = "done"]]

(* The transaction after an accepted steer: the message is stored as       *)
(* delivered with the record of its key, which must be new (a promotion    *)
(* has a key of its own).                                                  *)
StoreSteer(c) ==
  /\ call[c].st = "ok"
  /\ \/ call[c].kind = "promote"
        /\ UNCHANGED <<steerKey, acked>> /\ Finish(c)
     \/ /\ call[c].kind # "promote"
        /\ \A m \in call[c].msgs : steerKey[m] = 0
        /\ steerKey' = [m \in Messages |-> IF m \in call[c].msgs
                                             THEN call[c].turn ELSE steerKey[m]]
        /\ acked' = acked \cup call[c].msgs
        /\ Finish(c)
     \/ /\ call[c].kind # "promote"
        /\ \E m \in call[c].msgs : steerKey[m] # 0
        /\ call' = [call EXCEPT ![c].st = "threw"]
        /\ UNCHANGED <<steerKey, acked>>
  /\ UNCHANGED <<way, run, content, agent, inboxKey, seen, dropped, blocked,
                 sends, faults>>

(* Mutants: a rejected promotion is not requeued; a channel's message is   *)
(* acknowledged without being ingested.                                    *)
SteerThrewNoRequeue(c) ==
  /\ call[c].st = "threw"
  /\ IF call[c].kind = "channel"
       THEN /\ Ingest(call[c].msgs)
            /\ inboxKey' = inboxKey \cup call[c].msgs
            /\ acked' = acked \cup call[c].msgs
       ELSE UNCHANGED <<run, content, inboxKey, acked>>
  /\ Finish(c)
  /\ UNCHANGED <<way, agent, steerKey, seen, dropped, blocked, sends, faults>>

SteerThrewNoFallThrough(c) ==
  /\ call[c].st = "threw"
  /\ IF call[c].kind = "promote"
       THEN Ingest(call[c].msgs)
       ELSE UNCHANGED <<run, content>>
  /\ acked' = acked \cup (IF call[c].kind = "channel" THEN call[c].msgs ELSE {})
  /\ Finish(c)
  /\ UNCHANGED <<way, agent, inboxKey, steerKey, seen, dropped, blocked, sends,
                 faults>>

(* steerTurn threw.  The web API answers 409; the channel ingests the      *)
(* message; a promotion puts its messages back as one new turn.            *)
SteerThrew(c) ==
  /\ call[c].st = "threw"
  /\ \/ /\ call[c].kind = "web"
        /\ UNCHANGED <<run, content, inboxKey, acked>>
     \/ /\ call[c].kind = "channel"
        /\ Ingest(call[c].msgs)
        /\ inboxKey' = inboxKey \cup call[c].msgs
        /\ acked' = acked \cup call[c].msgs
     \/ /\ call[c].kind = "promote" /\ ~blocked
        /\ Ingest(call[c].msgs)
        /\ UNCHANGED <<inboxKey, acked>>
     \/ /\ call[c].kind = "promote" /\ blocked  \* dispatchInbound refuses
        /\ UNCHANGED <<run, content, inboxKey, acked>>
  /\ Finish(c)
  /\ UNCHANGED <<way, agent, steerKey, seen, dropped, blocked, sends, faults>>

Next ==
  \/ \E m \in Messages : Dispatch(m)
  \/ \E m \in Messages, t \in Turns : WebSteer(m, t) \/ ChannelSteer(m, t)
  \/ \E t \in Turns : Start(t) \/ Complete(t) \/ CancelQueuedTurn(t)
  \/ \E t \in Turns, S \in SUBSET Turns : Promote(S, t)
  \/ \E c \in Calls : HandleSteer(c) \/ TransportFails(c) \/ StoreSteer(c)
                        \/ SteerThrew(c)
  \/ Claim \/ End

Spec == Init /\ [][Next]_vars

(* The scheduler's timer, the runtime and the awaited calls go on.         *)
FairSpec ==
  /\ Spec
  /\ WF_vars(Claim) /\ WF_vars(End)
  /\ \A t \in Turns : WF_vars(Start(t)) /\ WF_vars(Complete(t))
  /\ \A c \in Calls : /\ WF_vars(HandleSteer(c)) /\ WF_vars(StoreSteer(c))
                      /\ WF_vars(SteerThrew(c))

-----------------------------------------------------------------------------
(* The values the variables take.                                          *)
TypeOK ==
  /\ run \in [Turns -> {"none", "queued", "running", "completed",
                        "interrupted"}]
  /\ content \in [Turns -> SUBSET Messages]
  /\ agent \in Turns \cup {0}
  /\ \A c \in Calls :
       /\ call[c].kind \in {"none", "web", "channel", "promote", "done"}
       /\ call[c].st \in {"none", "sent", "ok", "threw"}
       /\ call[c].msgs \subseteq Messages
  /\ steerKey \in [Messages -> Turns \cup {0}]
  /\ seen \in [Messages -> Nat]

(* Where an accepted message is until the agent has it.                    *)
Waiting(m) ==
  \/ \E t \in Queued \cup Running : m \in content[t]
  \/ \E c \in Calls : m \in call[c].msgs

(* Queueing, promotion, the claim and the end of the turn race freely and  *)
(* no accepted message disappears between them: it was seen, was taken     *)
(* back by the user, or is still on its way (promoteQueuedToSteer's        *)
(* requeue, dispatchInbound's fall-through).                               *)
NothingDropped == \A m \in acked : seen[m] > 0 \/ m \in dropped \/ Waiting(m)

(* A message presented once, with calls that answer, reaches the agent at  *)
(* most once whichever way it takes, and not after the user took it back   *)
(* (cancelQueuedTurn and promoteQueuedToSteer both claim a queued turn by  *)
(* its status, and so does the scheduler).                                 *)
SeenOnce == \A m \in Messages : seen[m] + (IF m \in dropped THEN 1 ELSE 0) <= 1

(* An accepted message is eventually seen, unless it is taken back.        *)
EventuallySeen ==
  \A m \in Messages : m \in acked ~> (seen[m] > 0 \/ m \in dropped)

(* "replays idempotently": a steer that is repeated, or whose answer is    *)
(* lost and which is sent again, reaches the agent once.                   *)
SteeredOnce == \A m \in Messages : seen[m] <= 1

(* "requeue via dispatchInbound" whatever the reason the steer was         *)
(* rejected: the promoted messages are not lost.                           *)
PromotedNotLost == NothingDropped
=============================================================================
