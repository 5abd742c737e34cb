-------------------------- MODULE InboundReceipts --------------------------
(***************************************************************************)
(* The inbound service of the runtime and its receipt store: a follow-up   *)
(* or a cancellation with a delivery id is handled in steps with an await  *)
(* between them, the same delivery may be requested again at any time,     *)
(* every step but the dispatch may fail, and the process may be killed.    *)
(* The receipts survive; the unique delivery id is all that orders two     *)
(* requests.                                                               *)
(***************************************************************************)
EXTENDS Naturals, FiniteSets

CONSTANTS
  Followups,   \* delivery ids of messages
  Cancels,     \* delivery ids of cancellations
  Reqs,        \* requests that may be in work at the same time
  MaxReqs,     \* bound: requests
  MaxCrashes   \* bound: restarts

Deliveries == Followups \cup Cancels

(* What a run assumes of the constants.                                    *)
ReceiptAssumption ==
  /\ Followups \cap Cancels = {}
  /\ {MaxReqs, MaxCrashes} \subseteq Nat

VARIABLES
  receipt,   \* dsh_delivery_receipts: status by delivery id
  req,       \* the step and the delivery of each request
  sent,      \* how often the agent was given a delivery
  told,      \* the last answer to each delivery
  left       \* what the bounds still allow

vars == <<receipt, req, sent, told, left>>

Idle == [pc |-> "idle", d |-> "none"]
FollowupSteps == {"check", "record", "recheck", "source", "dispatch", "fail", "deliver"}
CancelSteps == {"cancelCheck", "cancel", "cancelRecord", "cancelRecheck"}
Answers == {"none", "delivered", "duplicate", "error"}

TypeOK ==
  /\ receipt \in [Deliveries -> {"none", "pending", "delivered", "failed"}]
  /\ \A r \in Reqs : \/ req[r] = Idle
                     \/ req[r].d \in Followups /\ req[r].pc \in FollowupSteps
                     \/ req[r].d \in Cancels /\ req[r].pc \in CancelSteps
  /\ sent \in [Deliveries -> Nat]
  /\ told \in [Deliveries -> Answers]
  /\ left.reqs \in 0..MaxReqs /\ left.crashes \in 0..MaxCrashes

Init ==
  /\ receipt = [d \in Deliveries |-> "none"]
  /\ req = [r \in Reqs |-> Idle]
  /\ sent = [d \in Deliveries |-> 0]
  /\ told = [d \in Deliveries |-> "none"]
  /\ left = [reqs |-> MaxReqs, crashes |-> MaxCrashes]

Goto(r, pc) == req' = [req EXCEPT ![r].pc = pc]
Answer(r, a) == told' = [told EXCEPT ![req[r].d] = a] /\ req' = [req EXCEPT ![r] = Idle]
At(r, pc) == req[r].pc = pc
Receipt(r) == receipt[req[r].d]
SetReceipt(r, s) == receipt' = [receipt EXCEPT ![req[r].d] = s]

Request(r, d) ==
  /\ At(r, "idle") /\ left.reqs > 0
  /\ left' = [left EXCEPT !.reqs = @ - 1]
  /\ req' = [req EXCEPT ![r] = [pc |-> IF d \in Followups THEN "check" ELSE "cancelCheck", d |-> d]]
  /\ UNCHANGED <<receipt, sent, told>>

-----------------------------------------------------------------------------
(* handleFollowup *)

\* 1. The receipt, and with its result 2. the agent and 3. the message
Check(r) ==
  /\ At(r, "check")
  /\ \/ Receipt(r) = "delivered" /\ Answer(r, "duplicate")
     \/ Receipt(r) = "failed" /\ Answer(r, "error")
     \/ Receipt(r) \notin {"delivered", "failed"} /\ (Goto(r, "record") /\ told' = told)
     \/ Receipt(r) \notin {"delivered", "failed"} /\ Answer(r, "error")   \* no agent or no message
  /\ UNCHANGED <<receipt, sent, left>>

RecordOver(r) ==
  /\ At(r, "record")
  /\ SetReceipt(r, "pending") /\ Goto(r, "source")
  /\ UNCHANGED <<sent, told, left>>

\* 4. The insert of the pending receipt fails for a delivery id that is there.
Record(r) ==
  /\ At(r, "record")
  /\ IF Receipt(r) = "none"
     THEN SetReceipt(r, "pending") /\ Goto(r, "source")
     ELSE Goto(r, "recheck") /\ receipt' = receipt
  /\ UNCHANGED <<sent, told, left>>

RecheckAny(r) ==
  /\ At(r, "recheck")
  /\ Answer(r, "duplicate")
  /\ UNCHANGED <<receipt, sent, left>>

Recheck(r) ==
  /\ At(r, "recheck")
  /\ Answer(r, IF Receipt(r) = "delivered" THEN "duplicate" ELSE "error")
  /\ UNCHANGED <<receipt, sent, left>>

\* 5. The source of the session
Source(r) ==
  /\ At(r, "source")
  /\ Goto(r, "dispatch") \/ Goto(r, "fail")
  /\ UNCHANGED <<receipt, sent, told, left>>

\* 6. The agent takes the message or throws.
Dispatch(r) ==
  /\ At(r, "dispatch")
  /\ \/ sent' = [sent EXCEPT ![req[r].d] = @ + 1] /\ Goto(r, "deliver")
     \/ sent' = sent /\ Goto(r, "fail")
  /\ UNCHANGED <<receipt, told, left>>

Fail(r) ==
  /\ At(r, "fail")
  /\ SetReceipt(r, "failed") \/ receipt' = receipt
  /\ Answer(r, "error")
  /\ UNCHANGED <<sent, left>>

\* 7. The receipt is updated; when that fails the message is with the agent and the receipt pending.
Deliver(r) ==
  /\ At(r, "deliver")
  /\ \/ SetReceipt(r, "delivered") /\ Answer(r, "delivered")
     \/ receipt' = receipt /\ Answer(r, "error")
  /\ UNCHANGED <<sent, left>>

-----------------------------------------------------------------------------
(* handleCancel *)

CancelCheckRecords(r) ==
  /\ At(r, "cancelCheck")
  /\ Goto(r, "record")
  /\ UNCHANGED <<receipt, sent, told, left>>

CancelCheck(r) ==
  /\ At(r, "cancelCheck")
  /\ \/ Receipt(r) = "delivered" /\ Answer(r, "duplicate")
     \/ Receipt(r) # "delivered" /\ Goto(r, "cancel") /\ told' = told
  /\ UNCHANGED <<receipt, sent, left>>

Cancel(r) ==
  /\ At(r, "cancel")
  /\ sent' = [sent EXCEPT ![req[r].d] = @ + 1]
  /\ Goto(r, "cancelRecord")
  /\ UNCHANGED <<receipt, told, left>>

CancelRecord(r) ==
  /\ At(r, "cancelRecord")
  /\ IF Receipt(r) = "none"
     THEN SetReceipt(r, "delivered") /\ Answer(r, "delivered")
     ELSE Goto(r, "cancelRecheck") /\ UNCHANGED <<receipt, told>>
  /\ UNCHANGED <<sent, left>>

CancelRecheck(r) ==
  /\ At(r, "cancelRecheck")
  /\ Answer(r, IF Receipt(r) = "delivered" THEN "duplicate" ELSE "error")
  /\ UNCHANGED <<receipt, sent, left>>

-----------------------------------------------------------------------------
\* The process is killed and starts again; recoverAfterRestart only counts the pending receipts.
Restart ==
  /\ left.crashes > 0
  /\ left' = [left EXCEPT !.crashes = @ - 1]
  /\ req' = [r \in Reqs |-> Idle]
  /\ UNCHANGED <<receipt, sent, told>>

Step(r) ==
  \/ Check(r) \/ Record(r) \/ Recheck(r) \/ Source(r) \/ Dispatch(r) \/ Fail(r) \/ Deliver(r)
  \/ CancelCheck(r) \/ Cancel(r) \/ CancelRecord(r) \/ CancelRecheck(r)

Next ==
  \/ \E r \in Reqs : Step(r)
  \/ \E r \in Reqs, d \in Deliveries : Request(r, d)
  \/ Restart

Spec == Init /\ [][Next]_vars

\* Every step of a request is taken in the end, unless the process is killed.
FairSpec == Spec /\ \A r \in Reqs : WF_vars(Step(r))

-----------------------------------------------------------------------------
(* Properties *)

\* However often a delivery is requested, repeated at the same time or after a restart, the agent
\* gets its message at most once.
AcceptedOnce == \A d \in Followups : sent[d] <= 1

\* Who is told that the message is delivered, by this request or by an earlier one, finds it with the
\* agent; and a receipt that says failed is never one of a message the agent has.
AnswerIsTrue ==
  /\ \A d \in Deliveries : told[d] \in {"delivered", "duplicate"} => sent[d] >= 1
  /\ \A d \in Followups : receipt[d] = "failed" => sent[d] = 0

\* A receipt once delivered or failed stays so.
ReceiptFinal ==
  \A d \in Deliveries : receipt[d] \in {"delivered", "failed"} => receipt'[d] = receipt[d]

\* A cancellation with a delivery id reaches the agent once.
CancelledOnce == \A d \in Cancels : sent[d] <= 1

\* A pending receipt becomes delivered or failed.
PendingRecovered == \A d \in Followups : receipt[d] = "pending" ~> receipt[d] # "pending"

=============================================================================
