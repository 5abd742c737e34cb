---------------------------- MODULE Interactions ----------------------------
(***************************************************************************)
(* Approvals and questions: a tool call suspended in the runtime until     *)
(* somebody answers, the stream and the calls of one transport, and the    *)
(* two bridges of the platform that show the request to the channels, pass *)
(* the first answer on and tell every channel how it ended.  The bridge    *)
(* learns of the runtime by events that a lost connection drops, by lists  *)
(* it asks for on every connection, by the answer of its own call and by   *)
(* its clock.  One user with one slot.                                     *)
(***************************************************************************)
EXTENDS Naturals, Sequences, FiniteSets

CONSTANTS
  Approvals,      \* requests of the approval bridge
  Questions,      \* requests of the question bridge
  MaxAnswers,     \* bound: calls made by the channels
  MaxTimeouts,    \* bound: calls that time out on a live connection
  MaxCuts,        \* bound: connections lost
  MaxRestarts,    \* bound: restarts of the runtime
  MaxDetaches,    \* bound: transports detached
  MaxReplaces     \* bound: transports replaced in their slot

Ids == Approvals \cup Questions
Kinds == {"approval", "question"}
Of(k) == IF k = "approval" THEN Approvals ELSE Questions

(* What a run assumes of the constants.                                    *)
InteractionsAssumption ==
  /\ Approvals \cap Questions = {} /\ Ids # {}
  /\ {MaxAnswers, MaxTimeouts, MaxCuts, MaxRestarts, MaxDetaches, MaxReplaces} \subseteq Nat

VARIABLES
  rt,        \* the state of each request in the runtime
  mem,       \* the requests the runtime process still has a record of
  age,       \* 0: well before the timeout, 1: about the timeout, 2: past the grace of the bridge
  up,        \* is the transport connected?
  dead,      \* has the transport given up reconnecting?
  attached,  \* does the bridge listen to a transport?
  reqs,      \* calls on their way to the runtime
  wire,      \* events and responses on their way to the platform
  pend,      \* requests pending in the bridge
  armed,     \* pending requests whose expiry timer has yet to fire
  ans,       \* answer in flight of each pending request
  wait,      \* the numbers of the calls that wait for a response
  out,       \* outcome of each request the bridge has settled
  asked,     \* number of asked events given to the channels
  told,      \* number of settled events given to the channels
  rec,       \* reconciliation of each bridge with the runtime's list
  late,      \* questions whose answer was handed back as an ordinary message
  lost,      \* requests with a call that failed or was abandoned
  left       \* what the bounds still allow

runtime == <<rt, mem>>
net == <<up, dead, reqs, wire, wait>>
bridge == <<pend, armed, ans, out, asked, told>>
vars == <<rt, mem, age, up, dead, attached, reqs, wire, wait, pend, armed, ans, out, asked, told,
  rec,
          late, lost, left>>

Decisions == {"allowed-once", "rejected"}
Granted == {"allowed-once", "answered"}
NoCall == [n |-> 0, d |-> "none", as |-> "none"]
Idle == [st |-> "idle", known |-> {}, items |-> {}, rerun |-> FALSE]
Outcomes == Decisions \cup {"answered", "cancelled", "expired", "unavailable"}

TypeOK ==
  /\ rt \in [Ids -> {"none", "pending", "gone"} \cup (Outcomes \ {"unavailable"})]
  /\ mem \subseteq Ids /\ pend \subseteq Ids /\ armed \subseteq pend /\ late \subseteq Questions
      /\ lost \subseteq Ids
  /\ age \in [Ids -> 0..2]
  /\ up \in BOOLEAN /\ dead \in BOOLEAN /\ (up => ~dead) /\ attached \in BOOLEAN
      /\ wait \subseteq 1..MaxAnswers
  /\ \A j \in 1..Len(reqs) : reqs[j].i \in Ids
  /\ \A i \in Ids : ans[i] = NoCall \/ (i \in pend /\ ans[i].n \in 1..MaxAnswers)
  /\ out \in [Ids -> Outcomes \cup {"none"}]
  /\ asked \in [Ids -> Nat] /\ told \in [Ids -> Nat]
  /\ \A k \in Kinds : rec[k].st \in {"idle", "sent", "served", "ready"}
      /\ rec[k].known \subseteq Of(k)
  /\ left \in [answers : 0..MaxAnswers, timeouts : 0..MaxTimeouts, cuts : 0..MaxCuts,
               restarts : 0..MaxRestarts, detaches : 0..MaxDetaches, replaces : 0..MaxReplaces]

Init ==
  /\ rt = [i \in Ids |-> "none"]
  /\ mem = {} /\ pend = {} /\ armed = {} /\ late = {} /\ lost = {}
  /\ age = [i \in Ids |-> 0]
  /\ up = TRUE /\ dead = FALSE /\ attached = TRUE
  /\ reqs = <<>> /\ wire = <<>> /\ wait = {}
  /\ ans = [i \in Ids |-> NoCall]
  /\ out = [i \in Ids |-> "none"]
  /\ asked = [i \in Ids |-> 0] /\ told = [i \in Ids |-> 0]
  /\ rec = [k \in Kinds |-> Idle]
  /\ left = [answers |-> MaxAnswers, timeouts |-> MaxTimeouts, cuts |-> MaxCuts,
             restarts |-> MaxRestarts, detaches |-> MaxDetaches, replaces |-> MaxReplaces]

-----------------------------------------------------------------------------
(* The runtime *)

\* An event of an approval is pushed twice, as a turn/event and by its own name.
Push(i, m) == IF i \in Approvals THEN <<m, m>> ELSE <<m>>
Pushed(i, m) == IF up THEN Push(i, m) ELSE <<>>
AskedEvent(i) == [t |-> "asked", i |-> i, res |-> "none", n |-> 0]
SettledEvent(i, o) == [t |-> "settled", i |-> i, res |-> o, n |-> 0]
Response(r, res) == [t |-> "answer", i |-> r.i, res |-> res, n |-> r.n]

\* suspendApproval, suspendQuestion
Suspend(i) ==
  /\ rt[i] = "none"
  /\ rt' = [rt EXCEPT ![i] = "pending"]
  /\ mem' = mem \cup {i}
  /\ wire' = wire \o Pushed(i, AskedEvent(i))
  /\ UNCHANGED <<age, up, dead, attached, reqs, wait, bridge, rec, late, lost, left>>

\* The abort signal of the tool call, or the timer of the request
RuntimeSettles(i, o) ==
  /\ rt[i] = "pending"
  /\ o = "expired" => age[i] >= 1
  /\ rt' = [rt EXCEPT ![i] = o]
  /\ wire' = wire \o Pushed(i, SettledEvent(i, o))
  /\ UNCHANGED <<mem, age, up, dead, attached, reqs, wait, bridge, rec, late, lost, left>>

\* What answerApproval and tryAnswerQuestion return
Verdict(r) ==
  IF rt[r.i] = "pending" THEN "ok"
  ELSE IF r.i \in Approvals THEN IF r.i \in mem /\ rt[r.i] = r.d THEN "ok" ELSE "no"
  ELSE IF r.i \in mem THEN rt[r.i] ELSE "not-found"

Serve ==
  /\ up /\ reqs # <<>>
  /\ LET r == Head(reqs)
         resp == <<Response(r, Verdict(r))>>
         event == IF rt[r.i] = "pending" THEN Push(r.i, SettledEvent(r.i, r.d)) ELSE <<>>
     IN /\ rt' = IF rt[r.i] = "pending" THEN [rt EXCEPT ![r.i] = r.d] ELSE rt
        /\ \/ wire' = wire \o event \o resp
           \/ r.i \in Approvals /\ event # <<>> /\ wire' = wire \o resp \o event
  /\ reqs' = Tail(reqs)
  /\ UNCHANGED <<mem, age, up, dead, attached, wait, bridge, rec, late, lost, left>>

\* The list is read from the runtime's pending records.
ServeList(k) ==
  /\ up /\ rec[k].st = "sent"
  /\ rec' = [rec EXCEPT ![k].st = "served"]
  /\ wire' = Append(wire, [t |-> "list", i |-> k, n |-> 0,
                           res |-> {i \in mem \cap Of(k) : rt[i] = "pending"}])
  /\ UNCHANGED <<runtime, age, up, dead, attached, reqs, wait, bridge, late, lost, left>>

\* The clock, for one request: the runtime's timer and the grace of the bridge
Tick(i) ==
  /\ rt[i] # "none" /\ age[i] < 2
  /\ age' = [age EXCEPT ![i] = @ + 1]
  /\ UNCHANGED <<runtime, net, attached, bridge, rec, late, lost, left>>

-----------------------------------------------------------------------------
(* Entries of a bridge *)

UnavailableOutcome(i) == IF age[i] >= 1 THEN "expired" ELSE "unavailable"
OverdueEvenAnswered == {i \in pend : age[i] = 2}
Overdue == {i \in pend : age[i] = 2 /\ ans[i] = NoCall}

SettleKeepsAnswer(f) ==
  /\ pend' = pend \ DOMAIN f /\ armed' = armed \ DOMAIN f
  /\ ans' = ans
  /\ out' = [i \in Ids |-> IF i \in DOMAIN f THEN f[i] ELSE out[i]]
  /\ told' = [i \in Ids |-> IF i \in DOMAIN f /\ asked[i] > 0 THEN told[i] + 1 ELSE told[i]]

\* Every request of f is settled with the outcome f gives; only what was announced is told.
Settle(f) ==
  /\ pend' = pend \ DOMAIN f /\ armed' = armed \ DOMAIN f
  /\ ans' = [i \in Ids |-> IF i \in DOMAIN f THEN NoCall ELSE ans[i]]
  /\ out' = [i \in Ids |-> IF i \in DOMAIN f THEN f[i] ELSE out[i]]
  /\ told' = [i \in Ids |-> IF i \in DOMAIN f /\ asked[i] > 0 THEN told[i] + 1 ELSE told[i]]

FreshAgain(i) == i \notin pend
Fresh(i) == i \notin pend /\ out[i] = "none"

\* A reconciliation asked for while one runs is chained after it.
Reconciling(k) ==
  IF rec[k].st = "idle" THEN [rec EXCEPT ![k] = [Idle EXCEPT !.st = "sent",
      !.known = pend' \cap Of(k)]]
                        ELSE [rec EXCEPT ![k].rerun = TRUE]

\* A repeated event of a question sets its timer again, one of an approval does not.
OnAsked(i) ==
  IF Fresh(i)
  THEN /\ pend' = pend \cup {i} /\ armed' = armed \cup {i}
       /\ IF i \in Approvals THEN asked' = asked /\ rec' = Reconciling("approval")
                             ELSE asked' = [asked EXCEPT ![i] = @ + 1] /\ rec' = rec
       /\ UNCHANGED <<ans, out, told>>
  ELSE /\ armed' = armed \cup ({i} \cap pend \cap Questions)
       /\ UNCHANGED <<pend, ans, out, asked, told, rec>>

OnSettled(i, o) ==
  /\ IF i \in pend
     THEN LET own == ans[i] # NoCall /\ ans[i].d = o
              seen == IF o = "expired" /\ i \in Approvals THEN UnavailableOutcome(i) ELSE o
          IN Settle([j \in {i} |-> IF own THEN ans[i].as ELSE seen])
     ELSE UNCHANGED <<pend, armed, ans, out, told>>
  /\ UNCHANGED <<asked, rec>>

OnResponseTrusting(m) ==
  /\ wait' = wait \ {m.n}
  /\ IF m.n \in wait /\ m.i \in pend /\ ans[m.i].n = m.n
     THEN Settle([j \in {m.i} |-> CASE m.res \in {"ok", "no", "not-found"} -> ans[j].as
                                    [] OTHER -> m.res])
     ELSE UNCHANGED <<pend, armed, ans, out, told>>
  /\ late' = IF m.res = "expired" /\ m.n \in wait THEN late \cup ({m.i} \cap Questions) ELSE late
  /\ UNCHANGED <<asked, rec>>

\* A response whose call has failed meanwhile finds nothing waiting for it.  A question that
\* expired hands its answer back, for the channel to send it as a message.
OnResponse(m) ==
  /\ wait' = wait \ {m.n}
  /\ IF m.n \in wait /\ m.i \in pend /\ ans[m.i].n = m.n
     THEN Settle([j \in {m.i} |-> CASE m.res = "ok" -> ans[j].as
                                    [] m.res \in {"no", "not-found"} -> UnavailableOutcome(j)
                                    [] OTHER -> m.res])
     ELSE UNCHANGED <<pend, armed, ans, out, told>>
  /\ late' = IF m.res = "expired" /\ m.n \in wait THEN late \cup ({m.i} \cap Questions) ELSE late
  /\ UNCHANGED <<asked, rec>>

Receive ==
  /\ wire # <<>> /\ attached
  /\ wire' = Tail(wire)
  /\ LET m == Head(wire)
     IN \/ m.t = "asked" /\ OnAsked(m.i) /\ UNCHANGED <<late, wait>>
        \/ m.t = "settled" /\ OnSettled(m.i, m.res) /\ UNCHANGED <<late, wait>>
        \/ m.t = "answer" /\ OnResponse(m)
        \/ /\ m.t = "list" /\ rec[m.i].st = "served"
           /\ rec' = [rec EXCEPT ![m.i].st = "ready", ![m.i].items = m.res]
           /\ UNCHANGED <<bridge, late, wait>>
  /\ UNCHANGED <<runtime, age, up, dead, attached, reqs, lost, left>>

Finished(k) == IF rec[k].rerun THEN [rec EXCEPT ![k] = [Idle EXCEPT !.st = "sent",
  !.known = pend' \cap Of(k)]]
                               ELSE [rec EXCEPT ![k] = Idle]
MissingEvenAnswered(k) == {i \in rec[k].known \cap pend : i \notin rec[k].items}
Missing(k) == {i \in rec[k].known \cap pend : i \notin rec[k].items /\ ans[i] = NoCall}

\* The list is worked in: what it names is shown, what it lacks is settled.  Events of the same
\* chunk have been handled before.
Reconcile(k) ==
  /\ rec[k].st = "ready" /\ attached
  /\ LET listed == rec[k].items
         new == {i \in listed : Fresh(i)}
         gone == Missing(k)
         shown == {i \in listed : (i \in pend \/ i \in new) /\ asked[i] = 0}
     IN /\ pend' = (pend \cup new) \ gone
        /\ armed' = (armed \cup (listed \cap (pend \cup new))) \ gone
        /\ out' = [i \in Ids |-> IF i \notin gone THEN out[i]
                                 ELSE IF k = "approval" THEN "unavailable" ELSE UnavailableOutcome(i)]
        /\ told' = [i \in Ids |-> IF i \in gone /\ asked[i] > 0 THEN told[i] + 1 ELSE told[i]]
        /\ asked' = [i \in Ids |-> IF i \in shown THEN asked[i] + 1 ELSE asked[i]]
  /\ rec' = Finished(k)
  /\ UNCHANGED <<runtime, age, net, attached, ans, late, lost, left>>

\* announceWaitMs, or the end of the reconciliation that enriches the approval
Announce(i) ==
  /\ i \in pend \cap Approvals /\ asked[i] = 0
  /\ asked' = [asked EXCEPT ![i] = 1]
  /\ UNCHANGED <<runtime, age, net, attached, pend, armed, ans, out, told, rec, late, lost, left>>

\* The timer of an entry fires once; while an answer is in flight it does nothing, and the catch of
\* the answer does not set it again.
TimerFires(i) ==
  /\ i \in armed /\ age[i] = 2
  /\ IF ans[i] = NoCall THEN Settle([j \in {i} |-> "expired"])
                        ELSE armed' = armed \ {i} /\ UNCHANGED <<pend, ans, out, told>>
  /\ UNCHANGED <<runtime, age, net, attached, asked, rec, late, lost, left>>

\* sweepExpired, with any read of the bridge.
ExpireStale ==
  /\ Overdue # {}
  /\ Settle([i \in Overdue |-> "expired"])
  /\ UNCHANGED <<runtime, age, net, attached, asked, rec, late, lost, left>>

-----------------------------------------------------------------------------
(* Answers *)

\* decide, cancel and answer: overdue entries are swept, then the first answer goes out.
BeginAnswer(i, d, as) ==
  /\ left.answers > 0
  /\ LET n == MaxAnswers - left.answers + 1
         swept == [j \in Overdue |-> "expired"]
         ended == i \notin pend \/ i \in Overdue
         expired == i \in Overdue \/ out[i] = "expired"
         starts == ~ended /\ ans[i] = NoCall /\ attached /\ ~dead
     IN /\ starts \/ (ended /\ expired /\ i \in Questions)
        /\ pend' = pend \ Overdue /\ armed' = armed \ Overdue
        /\ ans' = IF starts THEN [ans EXCEPT ![i] = [n |-> n, d |-> d, as |-> as]] ELSE ans
        /\ out' = [j \in Ids |-> IF j \in Overdue THEN "expired" ELSE out[j]]
        /\ told' = [j \in Ids |-> IF j \in Overdue /\ asked[j] > 0 THEN told[j] + 1 ELSE told[j]]
        /\ reqs' = IF starts THEN Append(reqs, [i |-> i, d |-> d, n |-> n]) ELSE reqs
        /\ wait' = IF starts THEN wait \cup {n} ELSE wait
        /\ late' = IF starts THEN late ELSE late \cup {i}
  /\ left' = [left EXCEPT !.answers = @ - 1]
  /\ UNCHANGED <<runtime, age, up, dead, wire, attached, asked, rec, lost>>

Decide(i) == i \in Approvals /\ asked[i] > 0 /\ \E d \in Decisions : BeginAnswer(i, d, d)
Cancel(i) == i \in Approvals /\ asked[i] > 0 /\ BeginAnswer(i, "rejected", "cancelled")
Answer(i) == i \in Questions /\ asked[i] > 0 /\ BeginAnswer(i, "answered", "answered")

\* The catch of an answer: the entry may be answered again.
FailedStuck(S) == UNCHANGED ans
Failed(S) == ans' = [i \in Ids |-> IF i \in S THEN NoCall ELSE ans[i]]

Unserved(i) == \A j \in 1..Len(reqs) : reqs[j].n # ans[i].n
Unanswered(i) == \A j \in 1..Len(wire) : wire[j].t # "answer" \/ wire[j].n # ans[i].n

\* A call of the transport times out; the runtime may still serve it.  A call made without a
\* connection fails with the attempt to connect.  A call that nothing will answer any more, of a
\* transport that was replaced, fails in the end.
AnswerFails(i) ==
  /\ ans[i] # NoCall
  /\ \/ left.timeouts > 0 /\ left' = [left EXCEPT !.timeouts = @ - 1] /\ reqs' = reqs
     \/ ~up /\ left' = left /\ reqs' = SelectSeq(reqs, LAMBDA r : r.n # ans[i].n)
     \/ Unserved(i) /\ Unanswered(i) /\ UNCHANGED <<left, reqs>>
  /\ Failed({i})
  /\ wait' = wait \ {ans[i].n}
  /\ lost' = lost \cup {i}
  /\ UNCHANGED <<runtime, age, up, dead, wire, attached, pend, armed, out, asked, told, rec, late>>

ListTimesOut(k) ==
  /\ left.timeouts > 0 /\ rec[k].st \in {"sent", "served"}
  /\ UNCHANGED bridge
  /\ rec' = Finished(k)
  /\ wire' = SelectSeq(wire, LAMBDA m : m.t # "list" \/ m.i # k)
  /\ left' = [left EXCEPT !.timeouts = @ - 1]
  /\ UNCHANGED <<runtime, age, up, dead, reqs, wait, attached, late, lost>>

InFlight == {i \in Ids : ans[i] # NoCall}

\* What was written to the connection: a call made without one waits for it.
Written == IF up THEN reqs ELSE SelectSeq(reqs, LAMBDA r : r.n \notin wait)

-----------------------------------------------------------------------------
(* The connection *)

\* Calls in flight are rejected, what was on the wire is lost; the runtime may have received a call.
\* A chained reconciliation asks again and waits for the connection.
Cut(kept) ==
  /\ up' = FALSE /\ wire' = <<>> /\ wait' = {}
  /\ reqs' = SubSeq(reqs, 1, kept)
  /\ Failed(InFlight)
  /\ lost' = lost \cup InFlight
  /\ rec' = [k \in Kinds |-> IF rec[k].st # "idle" /\ rec[k].rerun /\ attached
                             THEN [Idle EXCEPT !.st = "sent", !.known = pend \cap Of(k)] ELSE Idle]

Disconnect ==
  /\ up /\ left.cuts > 0
  /\ \E kept \in 0..Len(reqs) : Cut(kept)
  /\ left' = [left EXCEPT !.cuts = @ - 1]
  /\ UNCHANGED <<runtime, age, dead, attached, pend, armed, out, asked, told, late>>

\* The calls a hung-up connection left behind are served without anybody hearing of it.
ServeUnheard ==
  /\ ~up /\ reqs # <<>> /\ Head(reqs).n \notin wait
  /\ rt' = IF rt[Head(reqs).i] = "pending" THEN [rt EXCEPT ![Head(reqs).i] = Head(reqs).d] ELSE rt
  /\ reqs' = Tail(reqs)
  /\ UNCHANGED <<mem, age, up, dead, wire, wait, attached, bridge, rec, late, lost, left>>

\* Every connection is followed by a reconciliation of both bridges.
ConnectedQuietly == rec
Connected == [k \in Kinds |-> IF rec[k].st = "idle" THEN [Idle EXCEPT !.st = "sent",
  !.known = pend \cap Of(k)]
                                                    ELSE [rec[k] EXCEPT !.rerun = TRUE]]

Reconnect ==
  /\ ~up /\ ~dead /\ attached
  /\ up' = TRUE
  /\ rec' = Connected
  /\ UNCHANGED <<runtime, age, dead, reqs, wire, wait, attached, bridge, late, lost, left>>

\* After maxRetries attempts the transport is 'stopped' and every call it still has is rejected.
GiveUp ==
  /\ ~up /\ ~dead /\ attached
  /\ dead' = TRUE /\ wait' = {} /\ reqs' = Written
  /\ Failed(InFlight)
  /\ lost' = lost \cup InFlight
  /\ rec' = [k \in Kinds |-> Idle]
  /\ UNCHANGED <<runtime, age, up, wire, attached, pend, armed, out, asked, told, late, left>>

\* The runtime stops: what was pending in it ends without running the tool.
Restart ==
  /\ left.restarts > 0
  /\ rt' = [i \in Ids |-> IF rt[i] = "pending" THEN "gone" ELSE rt[i]]
  /\ mem' = {}
  /\ Cut(0)
  /\ left' = [left EXCEPT !.restarts = @ - 1]
  /\ UNCHANGED <<age, dead, attached, pend, armed, out, asked, told, late>>

\* detachTransport; the transport is closed with its runtime.
Detach ==
  /\ attached /\ left.detaches > 0
  /\ attached' = FALSE
  /\ Settle([i \in pend |-> "unavailable"])
  /\ lost' = lost \cup InFlight
  /\ up' = FALSE /\ dead' = FALSE /\ wire' = <<>> /\ wait' = {} /\ reqs' = Written
  /\ rec' = [k \in Kinds |-> Idle]
  /\ left' = [left EXCEPT !.detaches = @ - 1]
  /\ UNCHANGED <<runtime, age, asked, late>>

\* attachTransport after a detach: the new transport connects and both bridges reconcile.
Attach ==
  /\ ~attached
  /\ attached' = TRUE /\ up' = TRUE /\ dead' = FALSE
  /\ rec' = [k \in Kinds |-> [Idle EXCEPT !.st = "sent", !.known = pend \cap Of(k)]]
  /\ UNCHANGED <<runtime, age, reqs, wire, wait, bridge, late, lost, left>>

\* attachTransport in an occupied slot: entries and answers in flight stay, the old events and
\* lists are no longer heard.
Replace ==
  /\ attached /\ left.replaces > 0
  /\ up' = TRUE /\ dead' = FALSE /\ wire' = <<>>
  /\ \E kept \in 0..Len(reqs) : reqs' = SubSeq(reqs, 1, kept)
  /\ rec' = [k \in Kinds |-> [Idle EXCEPT !.st = "sent", !.known = pend \cap Of(k)]]
  /\ lost' = lost \cup InFlight
  /\ left' = [left EXCEPT !.replaces = @ - 1]
  /\ UNCHANGED <<runtime, age, wait, attached, bridge, late>>

-----------------------------------------------------------------------------
Runtime ==
  \/ \E i \in Ids : Suspend(i) \/ RuntimeSettles(i, "cancelled") \/ RuntimeSettles(i, "expired")
  \/ Serve \/ ServeUnheard
  \/ \E k \in Kinds : ServeList(k)

Bridge ==
  \/ Receive \/ ExpireStale
  \/ \E k \in Kinds : Reconcile(k) \/ ListTimesOut(k)
  \/ \E i \in Ids : TimerFires(i) \/ Announce(i) \/ Decide(i) \/ Cancel(i) \/ Answer(i)
      \/ AnswerFails(i)

Next ==
  \/ Runtime \/ Bridge
  \/ \E i \in Ids : Tick(i)
  \/ Disconnect \/ Reconnect \/ GiveUp \/ Restart \/ Detach \/ Attach \/ Replace

Spec == Init /\ [][Next]_vars

\* Requests end in the runtime by its timer, the clock runs, the transport connects again or gives
\* up and ends every call, and the event loop handles what has arrived and its timers.  Nobody has to
\* read the bridge or attach another transport.
Fairness ==
  /\ \A i \in Ids : /\ WF_vars(Tick(i)) /\ WF_vars(Announce(i)) /\ WF_vars(AnswerFails(i))
                    /\ WF_vars(RuntimeSettles(i, "expired")) /\ WF_vars(TimerFires(i))
  /\ WF_vars(Receive) /\ WF_vars(Serve) /\ WF_vars(Reconnect \/ GiveUp)
  /\ \A k \in Kinds : WF_vars(ServeList(k)) /\ WF_vars(Reconcile(k))

FairSpec == Spec /\ Fairness

-----------------------------------------------------------------------------
(* Properties *)

\* What a channel is told of an answer is what the runtime did: an approval recorded as allowed was
\* allowed there and a question recorded as answered took an answer; one recorded as rejected or
\* withdrawn never runs the tool, whatever calls were repeated, delayed or answered late.
AnswersAgree ==
  \A i \in Ids : /\ out[i] \in Granted => rt[i] = out[i]
                 /\ out[i] \in {"rejected", "cancelled"} => rt[i] \notin Granted

\* As long as no call was lost, the clock and the lists never overrule an answer on its way: a
\* request recorded as expired or unavailable was granted nothing, and no accepted answer is also
\* sent as a message.
NothingOverruled ==
  \A i \in Ids \ lost : /\ out[i] \in {"expired", "unavailable"} => rt[i] \notin Granted
                        /\ i \in late => rt[i] # "answered"

\* Every request is asked at most once and told as settled exactly once if it was asked, although
\* events, lists, responses and timers all report it and may repeat each other.
ToldOnce ==
  \A i \in Ids : /\ asked[i] <= 1
                 /\ told[i] = IF out[i] # "none" /\ asked[i] = 1 THEN 1 ELSE 0
                 /\ out[i] # "none" => i \notin pend

AtRest ==
  /\ up /\ attached /\ wire = <<>> /\ reqs = <<>> /\ InFlight = {}
  /\ \A k \in Kinds : rec[k].st = "idle"

\* After lost connections, restarts and new transports the channels can see every request that
\* waits in the runtime: a bridge at rest has missed none.
NoneMissed == AtRest => \A i \in Ids : rt[i] = "pending" /\ out[i] = "none" => i \in pend

\* A bridge at rest shows nothing that the runtime no longer has.
NoGhosts == AtRest => \A i \in pend \ lost : rt[i] = "pending"

\* The timer of i went off under an answer that then failed, and nothing has made the bridge look at
\* i again: the transport has given up, was replaced under the answer, or a call timed out.
Stranded(i) == /\ i \in lost \ armed
               /\ dead \/ left.timeouts < MaxTimeouts \/ left.replaces < MaxReplaces

\* Whatever is shown as pending is settled in the end, by the runtime's word, by the list that follows
\* a new connection or by its own timer, which fires once; the one way out is to be stranded.
PendingSettles == \A i \in Ids : i \in pend ~> (i \notin pend \/ Stranded(i))

\* "Grace after expiresAt before a still-pending approval is expired locally": past the grace an
\* approval is not pending for ever.
ExpiredLocally == \A i \in Approvals : (i \in pend /\ age[i] = 2) ~> i \notin pend

\* An approval that expired was not answered before the timeout of the runtime.
ExpiredMeansUnanswered == \A i \in Approvals : out[i] \in {"expired", "unavailable"}
  => rt[i] # "allowed-once"

\* The answer of a question that is sent as the user's next message was refused by the runtime.
LateAnswerWasRefused == \A i \in late : rt[i] # "answered"

=============================================================================
