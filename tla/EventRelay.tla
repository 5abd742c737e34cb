----------------------------- MODULE EventRelay -----------------------------
(***************************************************************************)
(* The event relay of the runtime for one session: session events go into  *)
(* a bounded buffer and are mapped to frames, the chunks of the model to   *)
(* deltas; frames wait in an outbound queue with a limit and are posted in *)
(* batches, with a timeout, one retry and a backoff.  A flush posts one    *)
(* batch after the other; a second one starts beside it only when it takes *)
(* longer than a request may and five seconds.  The platform stores a      *)
(* frame by its id.  A frame counts one unit, so the byte limits are       *)
(* numbers of frames.                                                      *)
(***************************************************************************)
EXTENDS Naturals, Sequences, FiniteSets, SequencesExt

CONSTANTS
  Capacity,      \* maxBufferSize: unacknowledged events of a session
  MaxPending,    \* maxPendingBytes
  MaxBatch,      \* maxBatchSizeBytes
  Acks,          \* does a consumer acknowledge events?
  PromptFlush,   \* is every flush over before the watchdog takes it for dead?
  MaxFlushes,    \* bound: flushes at the same time
  Calls,         \* tool calls the model may make
  MaxTurns,      \* bound: turns
  MaxStreams,    \* bound: streams of the model
  MaxChunks,     \* bound: chunks of text
  MaxRepeats,    \* bound: events ingested a second time
  MaxFails       \* bound: requests that fail or time out

(* What a run assumes of the constants.                                    *)
RelayAssumption ==
  /\ {Capacity, MaxPending, MaxBatch, MaxFlushes} \subseteq Nat \ {0}
  /\ {Acks, PromptFlush} \subseteq BOOLEAN
  /\ {MaxTurns, MaxStreams, MaxChunks, MaxRepeats, MaxFails} \subseteq Nat

VARIABLES
  dsh,      \* the session: turn running, state of the model's stream, tool calls running and made
  seq,      \* sequence number of the last session event, and what it was
  buf,      \* sequence numbers in the bounded buffer
  mapped,   \* sessionLastMappedSeq
  acked,    \* acknowledgedSeqs
  str,      \* sessionStreams: the current stream, and how many there were
  calls,    \* sessionPendingToolCalls
  made,     \* every frame mapped so far, in order
  missed,   \* events that were ingested without being mapped
  queue,    \* pendingOutboundFrames
  bytes,    \* pendingOutboundBytes
  flush,    \* flush -> the batch of its request in flight
  newest,   \* isFlushing: the flush it was set by, 0 if it is not set, and whether that one is
            \* past its first batch, so that flushStartedAt may be long ago
  late,     \* requests given up that may still reach the platform
  backoff,  \* before nextFlushAllowedAt
  stored,   \* frames the platform has stored, in order
  left      \* what the bounds still allow

session == <<dsh, seq>>
post == <<flush, newest>>
vars == <<dsh, seq, buf, acked, mapped, str, calls, made, missed, queue, bytes, post, late, backoff, stored,
          left>>

\* A frame: its id, its kind, its turn and stream, and whether it was in a failed request.
Frame(n, k, t, s) == [id |-> n, k |-> k, t |-> t, s |-> s, retried |-> FALSE]
IsDelta(f) == f.k = "delta"
NoStream == [id |-> 0, ended |-> FALSE, n |-> str.n]
NewStream == [id |-> str.n + 1, ended |-> FALSE, n |-> str.n + 1]
relay == <<mapped, str, calls, made, queue, bytes>>
NoBatch == <<>>
Flushes == 1..MaxFlushes
NotFlushing == [f |-> 0, past |-> FALSE]
IdsOf(s) == {s[i].id : i \in 1..Len(s)}
InFlight == UNION {IdsOf(flush[f]) : f \in Flushes}
Limits == [turns |-> MaxTurns, streams |-> MaxStreams, chunks |-> MaxChunks, repeats |-> MaxRepeats,
           fails |-> MaxFails]

TypeOK ==
  /\ dsh.turn \in 0..MaxTurns /\ dsh.running \in BOOLEAN /\ dsh.model \in {"none", "live", "closing", "closed"}
  /\ dsh.calls \subseteq Calls /\ calls \in Seq(Calls)
  /\ buf \subseteq 1..seq.n /\ {acked, mapped} \subseteq 0..seq.n
  /\ missed \subseteq 1..seq.n
  /\ IdsOf(queue) \cup InFlight \cup IdsOf(stored) \subseteq 1..Len(made)
  /\ bytes \in Nat /\ backoff \in BOOLEAN
  /\ \A k \in DOMAIN left : left[k] \in 0..Limits[k]

Init ==
  /\ dsh = [turn |-> 0, running |-> FALSE, model |-> "none", calls |-> {}, called |-> {}]
  /\ seq = [n |-> 0, k |-> "none", c |-> 0]
  /\ buf = {} /\ acked = 0 /\ mapped = 0 /\ missed = {}
  /\ str = [id |-> 0, ended |-> FALSE, n |-> 0] /\ calls = <<>> /\ made = <<>>
  /\ queue = <<>> /\ bytes = 0 /\ late = {} /\ backoff = FALSE
  /\ flush = [f \in Flushes |-> NoBatch] /\ newest = NotFlushing
  /\ stored = <<>>
  /\ left = Limits

-----------------------------------------------------------------------------
(* The outbound queue *)

DropFirstDelta(q) == LET d == SelectInSeq(q, IsDelta) IN IF d = 0 THEN q ELSE RemoveAt(q, d)

EnqueueAlways(q, f) == Append(q, f)

\* Over the limit a delta is not queued, and any other frame pushes out the oldest delta.
Enqueue(q, f) ==
  IF Len(q) + 1 <= MaxPending THEN Append(q, f)
  ELSE IF IsDelta(f) THEN q
  ELSE Append(DropFirstDelta(q), f)

EnqueueAll(fs) ==
  /\ queue' = FoldLeft(Enqueue, queue, fs)
  /\ bytes' = bytes + Len(FoldLeft(Enqueue, queue, fs)) - Len(queue)
  /\ made' = made \o fs

-----------------------------------------------------------------------------
(* Session events *)

StillOpen == <<>>
EndFrame == IF str.id # 0 /\ ~str.ended THEN <<Frame(Len(made) + 1, "stream_end", dsh.turn, str.id)>> ELSE <<>>
OpenStream == IF str.id = 0 THEN NewStream ELSE str

\* mapAndQueueStreamingFrames; a tool frame carries the number of its call.
MapEvent(k, c) ==
  CASE k = "start" -> /\ str' = NewStream /\ calls' = calls
                      /\ EnqueueAll(<<Frame(Len(made) + 1, "turn_started", dsh'.turn, 0)>>)
    [] k = "call" -> /\ str' = OpenStream /\ calls' = Append(calls, c)
                     /\ EnqueueAll(<<Frame(Len(made) + 1, "tool_started", dsh.turn, c)>>)
    [] k = "result" -> /\ str' = OpenStream
                       /\ calls' = IF c \in Range(calls) THEN Remove(calls, c)
                                   ELSE IF calls = <<>> THEN calls ELSE Tail(calls)
                       /\ EnqueueAll(<<Frame(Len(made) + 1, "tool_completed", dsh.turn, c)>>)
    [] k = "message" -> /\ str' = [OpenStream EXCEPT !.ended = TRUE] /\ calls' = calls
                        /\ EnqueueAll(IF OpenStream.ended THEN <<>>
                                      ELSE <<Frame(Len(made) + 1, "stream_end", dsh.turn, OpenStream.id)>>)
    [] k = "end" -> /\ str' = NoStream /\ calls' = <<>>
                    /\ EnqueueAll(EndFrame \o <<Frame(Len(made) + Len(EndFrame) + 1, "turn_ended", dsh.turn, 0)>>)

AnySight(n) == TRUE
FirstSight(n) == n > mapped

\* push: acknowledged events leave before the capacity is compared.  An event that came again after
\* its acknowledgement is such an event; when it was the only one the buffer of the session is gone.
Unacked == {m \in buf : m > acked}
Fits(n) == n \in buf \/ IF buf = {} THEN TRUE ELSE Unacked # {} /\ Cardinality(Unacked) < Capacity

\* ingest: an event that push refuses is not mapped.
Ingest(n, k, c) ==
  IF Fits(n)
  THEN /\ buf' = IF n \in buf THEN buf ELSE Unacked \cup {n}
       /\ IF FirstSight(n) THEN mapped' = n /\ MapEvent(k, c) ELSE UNCHANGED relay
       /\ missed' = missed
  ELSE buf' = Unacked /\ missed' = missed \cup {n} /\ UNCHANGED relay

Event(k, c) == seq' = [n |-> seq.n + 1, k |-> k, c |-> c] /\ Ingest(seq.n + 1, k, c)

TurnStart ==
  /\ ~dsh.running /\ left.turns > 0
  /\ dsh' = [dsh EXCEPT !.turn = @ + 1, !.running = TRUE]
  /\ left' = [left EXCEPT !.turns = @ - 1]
  /\ Event("start", 0)
  /\ UNCHANGED <<acked, post, late, backoff, stored>>

TurnEnd ==
  /\ dsh.running
  /\ dsh' = [dsh EXCEPT !.running = FALSE, !.model = "none", !.calls = {}]
  /\ Event("end", 0)
  /\ UNCHANGED <<acked, post, late, backoff, stored, left>>

AssistantMessage ==
  /\ dsh.running /\ dsh.model \in {"live", "closed"}
  /\ dsh' = [dsh EXCEPT !.model = IF @ = "live" THEN "closing" ELSE "none"]
  /\ Event("message", 0)
  /\ UNCHANGED <<acked, post, late, backoff, stored, left>>

ToolCall(c) ==
  /\ dsh.running /\ dsh.model = "none" /\ c \notin dsh.called
  /\ dsh' = [dsh EXCEPT !.calls = @ \cup {c}, !.called = @ \cup {c}]
  /\ Event("call", c)
  /\ UNCHANGED <<acked, post, late, backoff, stored, left>>

ToolResult(c) ==
  /\ c \in dsh.calls
  /\ dsh' = [dsh EXCEPT !.calls = @ \ {c}]
  /\ Event("result", c)
  /\ UNCHANGED <<acked, post, late, backoff, stored, left>>

\* The same event through a second scope the agent is attached to, or later from the history; an
\* event that was refused ended the notification.
Repeated ==
  /\ seq.n > 0 /\ seq.n \notin missed /\ left.repeats > 0
  /\ left' = [left EXCEPT !.repeats = @ - 1]
  /\ UNCHANGED <<session, acked, post, late, backoff, stored>>
  /\ Ingest(seq.n, seq.k, seq.c)

AckPast(n) ==
  /\ Acks /\ n > acked
  /\ acked' = n + 1
  /\ buf' = {m \in buf : m > n + 1}
  /\ UNCHANGED <<session, relay, missed, post, late, backoff, stored, left>>

\* ack, after the cursor was stored; poll applies the stored cursor in the same way.
Ack(n) ==
  /\ Acks /\ n > acked
  /\ acked' = n
  /\ buf' = {m \in buf : m > n}
  /\ UNCHANGED <<session, relay, missed, post, late, backoff, stored, left>>

-----------------------------------------------------------------------------
(* The stream of the model *)

StreamStart ==
  /\ dsh.running /\ dsh.model = "none" /\ left.streams > 0
  /\ left' = [left EXCEPT !.streams = @ - 1]
  /\ dsh' = [dsh EXCEPT !.model = "live"]
  /\ str' = NewStream
  /\ UNCHANGED <<seq, buf, acked, mapped, calls, made, missed, queue, bytes, post, late, backoff, stored>>

Chunk ==
  /\ dsh.model = "live" /\ left.chunks > 0
  /\ left' = [left EXCEPT !.chunks = @ - 1]
  /\ str' = OpenStream
  /\ EnqueueAll(<<Frame(Len(made) + 1, "delta", dsh.turn, OpenStream.id)>>)
  /\ UNCHANGED <<session, buf, acked, mapped, calls, missed, post, late, backoff, stored>>

StreamEnds ==
  /\ dsh.model \in {"live", "closing"}
  /\ dsh' = [dsh EXCEPT !.model = IF @ = "live" THEN "closed" ELSE "none"]
  /\ str' = [str EXCEPT !.ended = TRUE]
  /\ EnqueueAll(EndFrame)
  /\ UNCHANGED <<seq, buf, acked, mapped, calls, missed, post, late, backoff, stored, left>>

-----------------------------------------------------------------------------
(* The requests *)

Batch == SubSeq(queue, 1, IF Len(queue) < MaxBatch THEN Len(queue) ELSE MaxBatch)

TakeBatch(f) ==
  /\ flush' = [flush EXCEPT ![f] = Batch]
  /\ queue' = SubSeq(queue, Len(Batch) + 1, Len(queue))
  /\ bytes' = bytes - Len(Batch)

\* The watchdog: isFlushing was set more than flushTimeoutMs + 5000 ago.  A request ends within
\* flushTimeoutMs, so the flush has gone on to another batch since.
TakenForDead == ~PromptFlush /\ newest.past

\* The timer and the size of the queue wait for nextFlushAllowedAt, session/flush does not.
FlushOutbound(force) ==
  /\ newest.f = 0 \/ TakenForDead
  /\ queue # <<>> /\ (force \/ ~backoff)
  /\ \E f \in Flushes : /\ flush[f] = NoBatch /\ \A g \in 1..(f - 1) : flush[g] # NoBatch
                        /\ TakeBatch(f) /\ newest' = [f |-> f, past |-> FALSE]
  /\ UNCHANGED <<session, buf, acked, mapped, str, calls, made, missed, late, backoff, stored, left>>

BackoffEnds ==
  /\ backoff /\ backoff' = FALSE
  /\ UNCHANGED <<session, buf, acked, relay, missed, post, late, stored, left>>

Insert(batch) == stored \o SelectSeq(batch, LAMBDA f : f.id \notin IdsOf(stored))

\* The request is answered; the loop goes on with the next batch.  The flush that ends clears
\* isFlushing, whichever has set it.
Posted(f) ==
  /\ flush[f] # NoBatch
  /\ stored' = Insert(flush[f])
  /\ \/ /\ queue = <<>> /\ flush' = [flush EXCEPT ![f] = NoBatch] /\ newest' = NotFlushing
        /\ UNCHANGED <<queue, bytes>>
     \/ /\ queue # <<>> /\ TakeBatch(f)
        /\ newest' = [newest EXCEPT !.past = @ \/ newest.f = f]
  /\ UNCHANGED <<session, buf, acked, mapped, str, calls, made, missed, late, backoff, left>>

\* A failed batch goes back to the front once; over the limit deltas leave first, then the newest.
NeverAgain(batch) == <<>>
Requeued(batch) == SelectSeq(batch, LAMBDA f : ~f.retried)
Flagged(s) == [i \in 1..Len(s) |-> [s[i] EXCEPT !.retried = TRUE]]
NewestFirst(q) == SubSeq(q, 1, IF Len(q) < MaxPending THEN Len(q) ELSE MaxPending)
Trim(q) ==
  LET shrink[j \in 0..Len(q)] ==
        IF j = 0 THEN q
        ELSE LET p == shrink[j - 1]
             IN IF Len(p) <= MaxPending THEN p
                ELSE IF SelectInSeq(p, IsDelta) > 0 THEN DropFirstDelta(p) ELSE Front(p)
  IN shrink[Len(q)]
AtTheBack(batch) == queue \o Flagged(Requeued(batch))
AtTheFront(batch) == Flagged(Requeued(batch)) \o queue

PostFails(f) ==
  /\ flush[f] # NoBatch /\ left.fails > 0
  /\ queue' = IF Requeued(flush[f]) = <<>> THEN queue ELSE Trim(AtTheFront(flush[f]))
  /\ bytes' = bytes + Len(queue') - Len(queue)
  /\ flush' = [flush EXCEPT ![f] = NoBatch] /\ newest' = NotFlushing
  /\ backoff' = TRUE
  /\ \/ late' = late \cup {flush[f]}  \* it timed out and may still arrive
     \/ late' = late                  \* it was refused or never left
  /\ left' = [left EXCEPT !.fails = @ - 1]
  /\ UNCHANGED <<session, buf, acked, mapped, str, calls, made, missed, stored>>

LateArrival(batch) ==
  /\ batch \in late
  /\ late' = late \ {batch}
  /\ stored' = Insert(batch)
  /\ UNCHANGED <<session, buf, acked, relay, missed, post, backoff, left>>

-----------------------------------------------------------------------------
Next ==
  \/ TurnStart \/ TurnEnd \/ AssistantMessage \/ Repeated
  \/ \E c \in Calls : ToolCall(c) \/ ToolResult(c)
  \/ \E n \in 1..seq.n : Ack(n)
  \/ StreamStart \/ Chunk \/ StreamEnds
  \/ \E force \in BOOLEAN : FlushOutbound(force)
  \/ BackoffEnds \/ \E f \in Flushes : Posted(f) \/ PostFails(f)
  \/ \E b \in late : LateArrival(b)

Spec == Init /\ [][Next]_vars

\* The timer of the relay fires as long as frames wait, and every request ends.
FairSpec ==
  /\ Spec /\ WF_vars(FlushOutbound(FALSE)) /\ WF_vars(BackoffEnds)
  /\ \A f \in Flushes : WF_vars(Posted(f))

-----------------------------------------------------------------------------
(* Properties *)

Controls(s) == SelectSeq(s, LAMBDA f : ~IsDelta(f))

\* The platform never has a frame while an older one still waits to be sent or is on its way.
InOrder ==
  \A i \in 1..Len(stored), n \in IdsOf(queue) \cup InFlight :
    n < stored[i].id => n \in IdsOf(stored)

\* The platform stores a frame once, although a batch that timed out is sent again and may arrive
\* twice; and in order, unless a flush is taken for dead and overtaken by another.
StoredInOrder ==
  /\ \A i, j \in 1..Len(stored) : stored[i].id = stored[j].id => i = j
  /\ PromptFlush => InOrder

\* No frame but a delta is lost between the mapping and the platform, whatever the queue has to drop.
ControlKept ==
  \A i \in 1..Len(made) :
    IsDelta(made[i]) \/ i \in IdsOf(queue) \cup InFlight \cup IdsOf(stored)

\* A failed request costs a turn or stream frame its place only when no delta is left to give up,
\* as long as it is the first failure of that frame.
DeltasGoFirst ==
  LET kept == (IdsOf(queue) \cup InFlight \cup IdsOf(stored))'
      Sent(f) == IF f = 0 THEN queue ELSE flush[f]
  IN (\E f \in {0} \cup Flushes : \E i \in 1..Len(Sent(f)) :
        LET r == Sent(f)[i] IN ~IsDelta(r) /\ ~r.retried /\ r.id \notin kept)
     => Controls(queue') = queue'

\* Whatever is ingested twice, a turn, a tool call and a stream start and end once, and a stream that
\* has ended says nothing more.
EndsOnce ==
  \A i, j \in 1..Len(made) :
    i < j => /\ made[i].k = "stream_end" => ~(made[j].k \in {"delta", "stream_end"} /\ made[j].s = made[i].s)
             /\ made[i].k = made[j].k /\ ~IsDelta(made[i]) => <<made[i].t, made[i].s>> # <<made[j].t, made[j].s>>

\* When a turn is reported as ended, every stream that carried text in it has been closed before,
\* by the stream itself, by the message or by the end of the turn.
StreamsClosed ==
  \A i, j \in 1..Len(made) :
    (i < j /\ IsDelta(made[i]) /\ made[j].k = "turn_ended" /\ made[i].t = made[j].t)
    => \E e \in i..j : made[e].k = "stream_end" /\ made[e].s = made[i].s

\* The size the relay keeps of its queue is the size of the queue, and deltas never fill it past
\* the limit: what exceeds it is control frames only.
QueueBounded ==
  /\ bytes = Len(queue)
  /\ Len(queue) > MaxPending => Len(Controls(queue)) = Len(queue)

\* The end of a turn reaches the platform.
TurnEndArrives ==
  \A t \in 1..MaxTurns :
    (dsh.turn = t /\ ~dsh.running) ~> \E i \in 1..Len(stored) : stored[i].k = "turn_ended" /\ stored[i].t = t

=============================================================================
