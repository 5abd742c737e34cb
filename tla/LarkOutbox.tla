----------------------------- MODULE LarkOutbox -----------------------------
(***************************************************************************)
(* How an answer reaches a Lark chat: as the final state of a streaming    *)
(* card, as a text reply from the outbox, as the card of a scheduled task  *)
(* or as a file, and what a stop of the server leaves to be found by the   *)
(* scan for unsent turns, the reconciliation of orphan cards and the       *)
(* outbox redrive.                                                         *)
(*   channel-lark gateway.ts   handleTurnCompleted, handleTurnFailed,      *)
(*        sendProactiveMessage, deliverFile, deliverOutboxItem             *)
(*   channel-lark streaming-tracker.ts   finalize                          *)
(*   platform-server channels/channel-runtime-manager.ts                   *)
(*   platform-storage-sqlite repos/channel-repo.ts                         *)
(* One active account.  Lark shows one message per uuid, and the uuid is   *)
(* the id of the outbox row.  A request to Lark ends within its timeout of *)
(* 15 s, so a row is 'sending' for 60 s only when its sender is gone.      *)
(***************************************************************************)
EXTENDS Naturals, FiniteSets

CONSTANTS
  Items,          \* answers, each with an outbox row of its own
  Kinds,          \* subset of {"reply", "task", "file"}
  MaxAttempts,    \* the code's 3
  MaxFaults,      \* bound: text or file requests that fail, done or not
  MaxCardFaults,  \* bound: card requests that fail
  MaxCrashes      \* bound: stops of the server

(* What a run assumes of the constants.                                    *)
LarkOutboxAssumption ==
  /\ Kinds \subseteq {"reply", "task", "file"}
  /\ MaxAttempts \in Nat \ {0}
  /\ {MaxFaults, MaxCardFaults, MaxCrashes} \subseteq Nat

VARIABLES
  kind,     \* item -> its kind
  turn,     \* item -> "none", "running", "completed", "failed"
  aged,     \* item -> the age of its answer: "fresh", "settled" after 15 s,
            \*   "old" after a day
  tracker,  \* item -> the StreamingReplyTracker: "none", "card", "nocard"
  job,      \* item -> where its handler is
  row,      \* item -> channel_outbox.status
  att,      \* item -> channel_outbox.attempts
  sender,   \* item -> the deliverOutboxItem in flight
  cardRow,  \* item -> channel_streaming_cards.status; "lapsed" is a row that
            \*   is still 'streaming' and over a day old
  card, text, file,  \* item -> what the chat shows of it
  plain,    \* item -> whether the chat shows it as a text without uuid
  boot,     \* start(): "scan", "cards", then "up"
  deferred, \* cards this start has given up on
  faults, cardFaults, crashes

chat == <<card, text, file, plain>>
bounds == <<faults, cardFaults, crashes>>
vars == <<kind, turn, aged, tracker, job, row, att, sender, cardRow, chat, boot,
          deferred, bounds>>

All(v) == [i \in Items |-> v]

Init ==
  /\ kind \in [Items -> Kinds]
  /\ turn = All("none") /\ aged = All("fresh") /\ tracker = All("none")
  /\ job = All("none") /\ row = All("none") /\ att = All(0)
  /\ sender = All("none") /\ cardRow = All("none")
  /\ card = All("none") /\ text = All(FALSE) /\ file = All(FALSE)
  /\ plain = All(FALSE)
  /\ boot = "up" /\ deferred = {}
  /\ faults = 0 /\ cardFaults = 0 /\ crashes = 0

Set(f, i, v) == f' = [f EXCEPT ![i] = v]
Fault == faults < MaxFaults /\ faults' = faults + 1 /\ UNCHANGED <<cardFaults, crashes>>
CardFault == /\ cardFaults < MaxCardFaults /\ cardFaults' = cardFaults + 1
             /\ UNCHANGED <<faults, crashes>>

(* INSERT OR IGNORE.                                                       *)
Insert(i, status) == Set(row, i, IF row[i] = "none" THEN status ELSE row[i])

(* 'pending' for another attempt, or 'failed' after the last.              *)
Retry(i) == Set(row, i, IF att[i] >= MaxAttempts THEN "failed" ELSE "pending")

-----------------------------------------------------------------------------
(* Turns.                                                                  *)

(* dispatchInboundEnvelope starts a tracker; its card may not come about.  *)
Stream(i) ==
  /\ boot = "up" /\ kind[i] = "reply" /\ turn[i] = "none"
  /\ Set(turn, i, "running")
  /\ \/ /\ Set(tracker, i, "card")
        /\ Set(card, i, "streaming") /\ Set(cardRow, i, "streaming")
     \/ Set(tracker, i, "nocard") /\ UNCHANGED <<card, cardRow>>
  /\ UNCHANGED <<kind, aged, job, row, att, sender, text, file, plain, boot,
                 deferred, bounds>>

(* The turn is committed and the listeners of the gateway are called; a    *)
(* task's turn has no tracker.                                             *)
TurnEnds(i, how) ==
  /\ \/ kind[i] = "reply" /\ turn[i] = "running"
     \/ kind[i] = "task" /\ turn[i] = "none" /\ how = "completed"
  /\ Set(turn, i, how)
  /\ Set(job, i, "begin")
  /\ UNCHANGED <<kind, aged, tracker, row, att, sender, cardRow, chat, boot,
                 deferred, bounds>>

(* 15 seconds after the end of the turn.  The day after which the scans    *)
(* give up passes only while the server is down: see Crash.                *)
Age(i) ==
  /\ turn[i] \in {"completed", "failed"} /\ aged[i] = "fresh"
  /\ Set(aged, i, "settled")
  /\ UNCHANGED <<kind, turn, tracker, job, row, att, sender, cardRow, chat,
                 boot, deferred, bounds>>

-----------------------------------------------------------------------------
(* handleTurnCompleted and handleTurnFailed.                               *)

BeginReply(i) ==
  /\ kind[i] = "reply" /\ job[i] = "begin"
  /\ Set(job, i, IF row[i] # "none" THEN "none"
                 ELSE IF tracker[i] = "card" THEN "finalize" ELSE "create")
  /\ Set(tracker, i, IF row[i] # "none" THEN tracker[i] ELSE "none")
  /\ UNCHANGED <<kind, turn, aged, row, att, sender, cardRow, chat, boot,
                 deferred, bounds>>

(* tracker.finalize: once there is a card the answer is 'handled', with a  *)
(* preview and perhaps a file when the card cannot be closed.              *)
FinalizeCard(i) ==
  /\ job[i] = "finalize"
  /\ \/ Set(card, i, "final") /\ UNCHANGED <<file, bounds>>
     \/ CardFault /\ Set(card, i, "degraded")
        /\ \E sent \in BOOLEAN : Set(file, i, sent)
  /\ Set(job, i, "record")
  /\ UNCHANGED <<kind, turn, aged, tracker, row, att, sender, cardRow, text,
                 plain, boot, deferred>>

(* Mutant: the answer is queued as a text whether or not a card has it.    *)
RecordCardPending(i) ==
  /\ job[i] = "record"
  /\ Insert(i, "pending") /\ Set(job, i, "close")
  /\ UNCHANGED <<kind, turn, aged, tracker, att, sender, cardRow, chat, boot,
                 deferred, bounds>>

(* The row of a card is 'delivered' from the start, and so is not sent.    *)
RecordCard(i) ==
  /\ job[i] = "record"
  /\ Insert(i, "delivered") /\ Set(job, i, "close")
  /\ UNCHANGED <<kind, turn, aged, tracker, att, sender, cardRow, chat, boot,
                 deferred, bounds>>

(* finalizeStreamingCard, in a commit of its own after that of the row.    *)
CloseCard(i) ==
  /\ job[i] = "close"
  /\ Set(cardRow, i, turn[i]) /\ Set(job, i, "none")
  /\ UNCHANGED <<kind, turn, aged, tracker, row, att, sender, chat, boot,
                 deferred, bounds>>

(* Without a card the answer becomes a pending row; the handler's own      *)
(* delivery of it is the same as a redrive that comes at once.             *)
CreateRow(i) ==
  /\ job[i] = "create"
  /\ Insert(i, "pending") /\ Set(job, i, "none")
  /\ UNCHANGED <<kind, turn, aged, tracker, att, sender, cardRow, chat, boot,
                 deferred, bounds>>

-----------------------------------------------------------------------------
(* sendProactiveMessage.                                                   *)

(* The row is inserted and claimed before anything else can happen.        *)
BeginTask(i) ==
  /\ kind[i] = "task" /\ job[i] = "begin"
  /\ IF row[i] \in {"none", "pending"}
       THEN /\ Set(row, i, "sending") /\ att' = [att EXCEPT ![i] = @ + 1]
            /\ Set(job, i, "card")
       ELSE Set(job, i, "none") /\ UNCHANGED <<row, att>>
  /\ UNCHANGED <<kind, turn, aged, tracker, sender, cardRow, chat, boot,
                 deferred, bounds>>

(* The card has no uuid.  createStreamingCard answers null when a request  *)
(* fails, though the empty card may be there; finalize throws, though the  *)
(* answer may be in the card.                                              *)
TaskCard(i) ==
  /\ job[i] = "card"
  /\ \/ Set(card, i, "final") /\ Set(job, i, "mark") /\ UNCHANGED <<row, bounds>>
     \/ CardFault /\ Set(job, i, "plain") /\ UNCHANGED row
        /\ \E c \in {"none", "streaming"} : Set(card, i, c)
     \/ CardFault /\ Retry(i) /\ Set(job, i, "none")
        /\ \E c \in {"streaming", "final"} : Set(card, i, c)
  /\ UNCHANGED <<kind, turn, aged, tracker, att, sender, cardRow, text, file,
                 plain, boot, deferred>>

(* Without a card: sendReply, without the uuid of the row.                 *)
TaskText(i) ==
  /\ job[i] = "plain"
  /\ \/ Set(plain, i, TRUE) /\ Set(job, i, "mark") /\ UNCHANGED <<row, bounds>>
     \/ Fault /\ Retry(i) /\ Set(job, i, "none")
        /\ \E reached \in BOOLEAN : Set(plain, i, reached)
  /\ UNCHANGED <<kind, turn, aged, tracker, att, sender, cardRow, card, text,
                 file, boot, deferred>>

MarkTask(i) ==
  /\ job[i] = "mark"
  /\ Set(row, i, "delivered") /\ Set(job, i, "none")
  /\ UNCHANGED <<kind, turn, aged, tracker, att, sender, cardRow, chat, boot,
                 deferred, bounds>>

-----------------------------------------------------------------------------
(* deliverFile: the row is pending, and unclaimed, during the upload.      *)

DeliverFile(i) ==
  /\ boot = "up" /\ kind[i] = "file" /\ row[i] = "none"
  /\ Set(row, i, "pending") /\ Set(job, i, "upload")
  /\ UNCHANGED <<kind, turn, aged, tracker, att, sender, cardRow, chat, boot,
                 deferred, bounds>>

Upload(i) ==
  /\ job[i] = "upload"
  /\ \/ /\ Set(file, i, ~text[i])   \* the uuid may have been used
        /\ Set(row, i, "delivered") /\ UNCHANGED <<att, bounds>>
     \/ /\ Fault /\ UNCHANGED file
        /\ Set(row, i, "failed") /\ att' = [att EXCEPT ![i] = @ + 1]
  /\ Set(job, i, "none")
  /\ UNCHANGED <<kind, turn, aged, tracker, sender, cardRow, card, text,
                 plain, boot, deferred>>

-----------------------------------------------------------------------------
(* deliverOutboxItem, from a handler or from redrivePendingOutbox.  The    *)
(* payload of a file row holds no bytes: it is sent as an empty text.      *)

Claim(i) ==
  /\ sender[i] = "none"
  /\ row[i] = "pending" /\ Set(row, i, "sending")
  /\ att' = [att EXCEPT ![i] = @ + 1]
  /\ Set(sender, i, "claimed")
  /\ UNCHANGED <<kind, turn, aged, tracker, job, cardRow, chat, boot, deferred,
                 bounds>>

Transmit(i) ==
  /\ sender[i] = "claimed"
  /\ \/ Set(text, i, ~file[i]) /\ Set(sender, i, "ok") /\ UNCHANGED bounds
     \/ Fault /\ Set(sender, i, "threw")
        /\ \E reached \in BOOLEAN : Set(text, i, text[i] \/ (reached /\ ~file[i]))
  /\ UNCHANGED <<kind, turn, aged, tracker, job, row, att, cardRow, card, file,
                 plain, boot, deferred>>

(* Mutants: a failed request counts as delivered; a failed request is      *)
(* tried without end.                                                      *)
SettleAlwaysDelivered(i) ==
  /\ sender[i] \in {"ok", "threw"} /\ Set(sender, i, "none")
  /\ Set(row, i, "delivered")
  /\ UNCHANGED <<kind, turn, aged, tracker, job, att, cardRow, chat, boot,
                 deferred, bounds>>

SettleNoLimit(i) ==
  /\ sender[i] \in {"ok", "threw"} /\ Set(sender, i, "none")
  /\ Set(row, i, IF sender[i] = "ok" THEN "delivered" ELSE "pending")
  /\ UNCHANGED <<kind, turn, aged, tracker, job, att, cardRow, chat, boot,
                 deferred, bounds>>

SettleSend(i) ==
  /\ sender[i] \in {"ok", "threw"} /\ Set(sender, i, "none")
  /\ IF sender[i] = "ok" THEN Set(row, i, "delivered") ELSE Retry(i)
  /\ UNCHANGED <<kind, turn, aged, tracker, job, att, cardRow, chat, boot,
                 deferred, bounds>>

(* recoverStaleSendingOutbox: 60 seconds after the sender was lost.        *)
RecoverStale(i) ==
  /\ row[i] = "sending"
  /\ sender[i] = "none" /\ job[i] \notin {"card", "plain", "mark"}
  /\ Retry(i)
  /\ UNCHANGED <<kind, turn, aged, tracker, job, att, sender, cardRow, chat,
                 boot, deferred, bounds>>

-----------------------------------------------------------------------------
(* Stop and start.                                                         *)

(* What is in memory is gone.  When the next start comes, the answers and  *)
(* cards of old are over a day old; a turn takes less than that.           *)
Crash ==
  /\ crashes < MaxCrashes /\ crashes' = crashes + 1
  /\ tracker' = All("none") /\ job' = All("none") /\ sender' = All("none")
  /\ \E old \in SUBSET {i \in Items : turn[i] # "none"} :
       /\ aged' = [i \in Items |-> IF i \in old /\ turn[i] # "running"
                                    THEN "old" ELSE aged[i]]
       /\ cardRow' = [i \in Items |-> IF i \in old /\ cardRow[i] = "streaming"
                                       THEN "lapsed" ELSE cardRow[i]]
  /\ boot' = "scan" /\ deferred' = {}
  /\ UNCHANGED <<kind, turn, row, att, chat, faults, cardFaults>>

(* Mutant: the scan looks at the replies of channels only.                 *)
UnsentReply(i) ==
  turn[i] = "completed" /\ aged[i] = "settled" /\ row[i] = "none" /\ kind[i] = "reply"

(* scanAndReconcileCommittedTurns, at the start and in every tick: answers *)
(* of completed turns, 15 seconds to a day old, that have no row.          *)
Unsent(i) == turn[i] = "completed" /\ aged[i] = "settled" /\ row[i] = "none"

Scan(i) ==
  /\ boot \in {"scan", "up"}
  /\ Unsent(i) /\ job[i] = "none"
  /\ Set(job, i, "begin")
  /\ UNCHANGED <<kind, turn, aged, tracker, row, att, sender, cardRow, chat,
                 boot, deferred, bounds>>

ScanDone ==
  /\ boot = "scan"
  /\ \A i \in Items : job[i] = "none" /\ ~Unsent(i)
  /\ boot' = "cards"
  /\ UNCHANGED <<kind, turn, aged, tracker, job, row, att, sender, cardRow,
                 chat, deferred, bounds>>

Orphan(i) == cardRow[i] = "streaming" /\ i \notin deferred

(* reconcileOrphanStreamingCardsOnStartup, one card.  A request that fails  *)
(* may have rewritten the card.                                            *)
ReconcileCard(i) ==
  /\ boot = "cards" /\ Orphan(i)
  /\ \/ /\ turn[i] = "completed"
        /\ Set(card, i, "final") /\ Set(cardRow, i, "completed")
        /\ Insert(i, "delivered") /\ UNCHANGED <<deferred, bounds>>
     \/ /\ turn[i] # "completed"
        /\ Set(card, i, "aborted") /\ Set(cardRow, i, "aborted")
        /\ UNCHANGED <<row, deferred, bounds>>
     \/ /\ CardFault /\ deferred' = deferred \cup {i}
        /\ \E c \in {card[i], IF turn[i] = "completed" THEN "final" ELSE "aborted"} :
             Set(card, i, c)
        /\ UNCHANGED <<cardRow, row>>
  /\ UNCHANGED <<kind, turn, aged, tracker, job, att, sender, text, file, plain,
                 boot>>

CardsDone ==
  /\ boot = "cards" /\ \A i \in Items : ~Orphan(i)
  /\ boot' = "up"
  /\ UNCHANGED <<kind, turn, aged, tracker, job, row, att, sender, cardRow,
                 chat, deferred, bounds>>

Handler(i) ==
  \/ BeginReply(i) \/ FinalizeCard(i) \/ RecordCard(i) \/ CloseCard(i)
  \/ CreateRow(i) \/ BeginTask(i) \/ TaskCard(i) \/ TaskText(i) \/ MarkTask(i) \/ Upload(i)

Next ==
  \/ \E i \in Items, how \in {"completed", "failed"} : TurnEnds(i, how)
  \/ \E i \in Items : \/ Stream(i) \/ Age(i) \/ Handler(i) \/ DeliverFile(i)
                      \/ Claim(i) \/ Transmit(i) \/ SettleSend(i)
                      \/ RecoverStale(i) \/ Scan(i) \/ ReconcileCard(i)
  \/ Crash \/ ScanDone \/ CardsDone

Spec == Init /\ [][Next]_vars

(* Awaited calls return, the worker ticks, a started server gets through   *)
(* its start, time passes.                                                 *)
FairSpec ==
  /\ Spec
  /\ \A i \in Items :
       /\ WF_vars(Handler(i)) /\ WF_vars(Age(i))
       /\ WF_vars(Claim(i)) /\ WF_vars(Transmit(i)) /\ WF_vars(SettleSend(i))
       /\ WF_vars(RecoverStale(i)) /\ WF_vars(Scan(i))
       /\ WF_vars(ReconcileCard(i))
  /\ WF_vars(ScanDone) /\ WF_vars(CardsDone)

-----------------------------------------------------------------------------
(* The values the variables take; no row is tried more often than allowed. *)
TypeOK ==
  /\ row \in [Items -> {"none", "pending", "sending", "delivered", "failed"}]
  /\ att \in [Items -> 0..MaxAttempts]
  /\ sender \in [Items -> {"none", "claimed", "ok", "threw"}]
  /\ job \in [Items -> {"none", "begin", "finalize", "record", "close",
                        "create", "card", "plain", "mark", "upload"}]
  /\ cardRow \in [Items -> {"none", "streaming", "lapsed", "completed",
                            "failed", "aborted"}]
  /\ boot \in {"scan", "cards", "up"}

(* An answer is shown once, by the card, by the outbox or as the text that *)
(* stands in for a task's card, whatever text requests fail or lose their  *)
(* answers, as long as the server runs; of a task only while Lark takes its*)
(* cards, since they and that text have no uuid.                           *)
ShownOnce ==
  \A i \in Items :
    text[i] /\ (plain[i] \/ card[i] \in {"final", "degraded"}) =>
      kind[i] = "task" /\ cardFaults > 0

(* A row that says 'delivered' is of an answer the chat has: a text, a     *)
(* file or a card that was at least given the answer.  For a failed turn   *)
(* see FailureShown.                                                       *)
DeliveredMeansShown ==
  \A i \in Items :
    row[i] = "delivered" /\ turn[i] # "failed" =>
      text[i] \/ plain[i] \/ file[i] \/ card[i] \in {"final", "degraded"}

(* The answer of a completed turn gets to the chat or uses up its          *)
(* attempts, whatever the server was doing when it stopped, unless it is   *)
(* started again more than a day later.                                    *)
EventuallyAnswered ==
  \A i \in Items :
    turn[i] = "completed" ~> row[i] \in {"delivered", "failed"} \/ aged[i] = "old"

(* "enqueueing a sanitized user-facing error reply": the user is told that *)
(* the turn failed.                                                        *)
FailureShown ==
  \A i \in Items : row[i] = "delivered" /\ turn[i] = "failed" =>
                     text[i] \/ card[i] \in {"final", "degraded"}

(* "ensure channel_outbox has delivered record to prevent re-delivery": an *)
(* answer whose card was finished before a stop is not sent again.         *)
NoRedelivery ==
  \A i \in Items : kind[i] = "reply" => ~(text[i] /\ card[i] = "final")

(* "the IM gateway does not send a notice twice when it was already        *)
(* delivered": the same of the card of a scheduled task or a notice.       *)
NoticeOnce ==
  \A i \in Items : kind[i] = "task" => ~(text[i] /\ (plain[i] \/ card[i] = "final"))

(* "deliverFile dispatches image to transport and creates delivered        *)
(* channel_outbox row": a file row is 'delivered' when the chat has the    *)
(* file.                                                                   *)
FileDelivered ==
  \A i \in Items : kind[i] = "file" /\ row[i] = "delivered" => file[i]
=============================================================================
