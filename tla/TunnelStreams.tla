--------------------------- MODULE TunnelStreams ---------------------------
(***************************************************************************)
(* The streams inside one connected tunnel.  A TCP connection in the       *)
(* container gets one of a few stream numbers, which are used again; its   *)
(* frames go through two pipes, and the platform's end makes a Duplex      *)
(* stream of it.                                                           *)
(*   runtime-runner tunnel/agent.ts    allocateStreamId,                   *)
(*        handleIncomingConnection, handleIncomingFrame                    *)
(*   runtime-runner tunnel/host.ts     handleIncomingFrame,                *)
(*        handleRemoteOpen, onStreamClosed                                 *)
(*   runtime-runner tunnel/stream.ts   _write, _final, _destroy, receive*  *)
(*   runtime-runner tunnel/protocol.ts FrameDecoder: the frames of a chunk *)
(*        are handled in one turn of the event loop                        *)
(* A frame's "from" names the connection it is about; the code has only    *)
(* the number.                                                             *)
(***************************************************************************)
EXTENDS Naturals, Sequences, TLC

CONSTANTS
  Conns,       \* TCP connections of clients in the container
  None,        \* nobody
  MaxStreams,  \* MAX_CONCURRENT_STREAMS
  MaxErrors,   \* bound: sockets that break, handlers that fail
  MaxQuiet,    \* bound: handlers that destroy their stream without an error
  PromptReader \* a handler has read the end of its stream before the next
               \* frame is handled

(* What a run assumes of the constants.                                    *)
TunnelStreamsAssumption ==
  /\ None \notin Conns /\ MaxStreams \in Nat \ {0} /\ MaxErrors \in Nat
  /\ MaxQuiet \in Nat /\ PromptReader \in BOOLEAN

Ids == 1..MaxStreams

VARIABLES
  sock,      \* connection -> its socket in the container
  id,        \* connection -> its stream number, 0 before it has one
  agentMap,  \* the agent's activeStreams: number -> connection
  next,      \* nextStreamId
  up, down,  \* the two pipes
  str,       \* connection -> the platform's TunnelStream
  hostMap,   \* the host's activeStreams: number -> connection
  closing,   \* destroyed streams whose "close" event is still to come
  applied,   \* history: <<connection a frame was about, the one it reached>>
  errors, quiet

agent == <<sock, id, agentMap, next>>
platform == <<str, hostMap, closing>>
vars == <<sock, id, agentMap, next, up, down, str, hostMap, closing, applied,
          errors, quiet>>

(* A socket: open or closed, and which sides have ended and carried data.  *)
NewSock == [st |-> "none", fin |-> FALSE, ended |-> FALSE, sent |-> FALSE]

(* A stream: EOF pushed and read, end() called, an ERROR frame sent.       *)
NewStr == [st |-> "none", eof |-> FALSE, read |-> FALSE, fin |-> FALSE,
           told |-> FALSE, sent |-> FALSE]

Init ==
  /\ sock = [c \in Conns |-> NewSock] /\ id = [c \in Conns |-> 0]
  /\ agentMap = [i \in Ids |-> None] /\ next = 1
  /\ up = <<>> /\ down = <<>>
  /\ str = [c \in Conns |-> NewStr] /\ hostMap = [i \in Ids |-> None]
  /\ closing = {} /\ applied = {} /\ errors = 0 /\ quiet = 0

Frame(t, c) == [type |-> t, id |-> id[c], from |-> c]

Error == errors < MaxErrors /\ errors' = errors + 1

-----------------------------------------------------------------------------
(* The agent: what clients do.                                             *)

Free == {i \in Ids : agentMap[i] = None}

(* The number k places after nextStreamId, with wrap-around.               *)
Candidate(k) == ((next - 1 + k) % MaxStreams) + 1

(* Mutant: the lowest free number.                                         *)
AllocateLowest == CHOOSE i \in Free : \A j \in Free : i <= j

(* allocateStreamId: the first free number, from the next one on.          *)
AllocateStreamId ==
  LET k == CHOOSE k \in 0..(MaxStreams - 1) :
             /\ Candidate(k) \in Free
             /\ \A j \in 0..(k - 1) : Candidate(j) \notin Free
  IN  Candidate(k)

(* Mutant: nextStreamId is not wrapped.                                    *)
ConnectStuck(c) ==
  /\ sock[c].st = "none" /\ Free # {}
  /\ LET i == AllocateStreamId
     IN  /\ id' = [id EXCEPT ![c] = i] /\ next' = i + 1
         /\ agentMap' = [agentMap EXCEPT ![i] = c]
         /\ up' = Append(up, [type |-> "OPEN", id |-> i, from |-> c])
  /\ sock' = [sock EXCEPT ![c].st = "open"]
  /\ UNCHANGED <<down, platform, applied, errors, quiet>>

(* handleIncomingConnection.  One too many is destroyed at once.           *)
Connect(c) ==
  /\ sock[c].st = "none"
  /\ \/ /\ Free = {} /\ sock' = [sock EXCEPT ![c].st = "refused"]
        /\ UNCHANGED <<id, agentMap, next, up>>
     \/ /\ Free # {}
        /\ LET i == AllocateStreamId
           IN  /\ id' = [id EXCEPT ![c] = i] /\ next' = (i % MaxStreams) + 1
               /\ agentMap' = [agentMap EXCEPT ![i] = c]
               /\ up' = Append(up, [type |-> "OPEN", id |-> i, from |-> c])
        /\ sock' = [sock EXCEPT ![c].st = "open"]
  /\ UNCHANGED <<down, platform, applied, errors, quiet>>

ClientData(c) ==
  /\ sock[c].st = "open" /\ ~sock[c].fin /\ ~sock[c].sent
  /\ sock' = [sock EXCEPT ![c].sent = TRUE]
  /\ up' = Append(up, Frame("DATA", c))
  /\ UNCHANGED <<id, agentMap, next, down, platform, applied, errors, quiet>>

(* The client's FIN; the other direction stays open (allowHalfOpen).       *)
ClientEnd(c) ==
  /\ sock[c].st = "open" /\ ~sock[c].fin
  /\ sock' = [sock EXCEPT ![c].fin = TRUE]
  /\ up' = Append(up, Frame("END", c))
  /\ UNCHANGED <<id, agentMap, next, down, platform, applied, errors, quiet>>

(* The socket breaks: "error", then "close".                               *)
ClientError(c) ==
  /\ sock[c].st = "open" /\ Error
  /\ sock' = [sock EXCEPT ![c].st = "closed"]
  /\ up' = Append(up, Frame("ERROR", c))
  /\ agentMap' = [agentMap EXCEPT ![id[c]] = None]
  /\ UNCHANGED <<id, next, down, platform, applied, quiet>>

(* Mutant: the number is free as soon as the client has ended.             *)
SocketClosesEarly(c) ==
  /\ sock[c].st = "open" /\ sock[c].fin
  /\ sock' = [sock EXCEPT ![c].st = "closed"]
  /\ agentMap' = [agentMap EXCEPT ![id[c]] = None]
  /\ UNCHANGED <<id, next, up, down, platform, applied, errors, quiet>>

(* Both sides have ended: "close".                                         *)
SocketCloses(c) ==
  /\ sock[c].st = "open" /\ sock[c].fin /\ sock[c].ended
  /\ sock' = [sock EXCEPT ![c].st = "closed"]
  /\ agentMap' = [agentMap EXCEPT ![id[c]] = None]
  /\ UNCHANGED <<id, next, up, down, platform, applied, errors, quiet>>

(* Mutant: the end of the platform's side is not passed on.                *)
AgentReceivesNoEnd ==
  /\ down # <<>> /\ down' = Tail(down)
  /\ UNCHANGED <<agent, up, platform, applied, errors, quiet>>

(* handleIncomingFrame of the agent.  A number nobody has is ignored.  An  *)
(* ERROR destroys the socket, whose own error event sends ERROR back.      *)
AgentReceives ==
  /\ down # <<>>
  /\ LET f == Head(down)
         c == agentMap[f.id]
     IN  /\ down' = Tail(down)
         /\ IF c = None
            THEN UNCHANGED <<sock, agentMap, up, applied>>
            ELSE /\ applied' = applied \cup {<<f.from, c>>}
                 /\ \/ /\ f.type = "DATA" /\ UNCHANGED <<sock, agentMap, up>>
                    \/ /\ f.type = "END"
                       /\ sock' = [sock EXCEPT ![c].ended = TRUE]
                       /\ UNCHANGED <<agentMap, up>>
                    \/ /\ f.type = "ERROR"
                       /\ sock' = [sock EXCEPT ![c].st = "closed"]
                       /\ agentMap' = [agentMap EXCEPT ![f.id] = None]
                       /\ up' = Append(up, Frame("ERROR", c))
  /\ UNCHANGED <<id, next, platform, errors, quiet>>

-----------------------------------------------------------------------------
(* The host.  "close" events come before anything but the next frame of    *)
(* the same chunk.                                                         *)

Idle == closing = {}

(* onStreamClosed deletes whatever has the number.                         *)
OnStreamClosed(c) == hostMap' = [hostMap EXCEPT ![id[c]] = None]

(* A handler that has not been told of the end of its stream yet.          *)
Behind == {c \in Conns : str[c].st = "live" /\ str[c].eof /\ ~str[c].read}

(* handleRemoteOpen: a number in use is refused with an ERROR frame.       *)
HandleOpen(f) ==
  /\ f.type = "OPEN"
  /\ \/ /\ hostMap[f.id] # None
        /\ down' = Append(down, [type |-> "ERROR", id |-> f.id,
                                 from |-> f.from])
        /\ UNCHANGED <<str, hostMap>>
     \/ /\ hostMap[f.id] = None
        /\ hostMap' = [hostMap EXCEPT ![f.id] = f.from]
        /\ str' = [str EXCEPT ![f.from].st = "live"]
        /\ UNCHANGED down
  /\ UNCHANGED <<closing, applied>>

(* DATA, END and ERROR.  ERROR destroys the stream, and _destroy sends     *)
(* ERROR back.                                                             *)
HandleFrame(f) ==
  LET c == hostMap[f.id]
  IN  /\ f.type # "OPEN"
      /\ IF c = None
         THEN UNCHANGED <<down, platform, applied>>
         ELSE /\ applied' = applied \cup {<<f.from, c>>}
              /\ \/ f.type = "DATA" /\ UNCHANGED <<down, platform>>
                 \/ /\ f.type = "END" /\ str' = [str EXCEPT ![c].eof = TRUE]
                    /\ UNCHANGED <<down, hostMap, closing>>
                 \/ /\ f.type = "ERROR"
                    /\ str' = [str EXCEPT ![c].st = "destroyed",
                                          ![c].told = TRUE]
                    /\ hostMap' = [hostMap EXCEPT ![f.id] = None]
                    /\ closing' = closing \cup {c}
                    /\ down' = Append(down, [type |-> "ERROR", id |-> f.id,
                                             from |-> c])

HostReceives ==
  /\ up # <<>> /\ up' = Tail(up) /\ (PromptReader => Behind = {})
  /\ HandleOpen(Head(up)) \/ HandleFrame(Head(up))
  /\ UNCHANGED <<agent, errors, quiet>>

CloseEvent(c) ==
  /\ c \in closing /\ closing' = closing \ {c} /\ OnStreamClosed(c)
  /\ UNCHANGED <<agent, up, down, str, applied, errors, quiet>>

(* Mutant: half-open streams are given up.                                 *)
HostReadsClose(c) ==
  /\ Idle /\ c \in Behind /\ str' = [str EXCEPT ![c].read = TRUE]
  /\ OnStreamClosed(c)
  /\ UNCHANGED <<agent, up, down, closing, applied, errors, quiet>>

(* The handler reads to the end.                                           *)
HostReads(c) ==
  /\ Idle /\ c \in Behind /\ str' = [str EXCEPT ![c].read = TRUE]
  /\ IF str[c].fin THEN OnStreamClosed(c) ELSE UNCHANGED hostMap
  /\ UNCHANGED <<agent, up, down, closing, applied, errors, quiet>>

HostData(c) ==
  /\ Idle /\ str[c].st = "live" /\ ~str[c].fin /\ ~str[c].sent
  /\ str' = [str EXCEPT ![c].sent = TRUE]
  /\ down' = Append(down, Frame("DATA", c))
  /\ UNCHANGED <<agent, up, hostMap, closing, applied, errors, quiet>>

(* stream.end(): _final.                                                   *)
HostEnd(c) ==
  /\ Idle /\ str[c].st = "live" /\ ~str[c].fin
  /\ str' = [str EXCEPT ![c].fin = TRUE]
  /\ down' = Append(down, Frame("END", c))
  /\ IF str[c].read THEN OnStreamClosed(c) ELSE UNCHANGED hostMap
  /\ UNCHANGED <<agent, up, closing, applied, errors, quiet>>

(* The handler is not done with the stream.                                *)
Busy(c) == str[c].st = "live" /\ ~(str[c].read /\ str[c].fin)

(* The handler fails: stream.destroy(err).                                 *)
HostFails(c) ==
  /\ Idle /\ Busy(c) /\ Error
  /\ str' = [str EXCEPT ![c].st = "destroyed", ![c].told = TRUE]
  /\ down' = Append(down, Frame("ERROR", c))
  /\ OnStreamClosed(c) /\ closing' = closing \cup {c}
  /\ UNCHANGED <<agent, up, applied, quiet>>

(* stream.destroy() without an error: no frame.                            *)
HostDestroys(c) ==
  /\ Idle /\ Busy(c) /\ quiet < MaxQuiet /\ quiet' = quiet + 1
  /\ str' = [str EXCEPT ![c].st = "destroyed"]
  /\ OnStreamClosed(c) /\ closing' = closing \cup {c}
  /\ UNCHANGED <<agent, up, down, applied, errors>>

-----------------------------------------------------------------------------
Step(c) ==
  \/ Connect(c) \/ ClientData(c) \/ ClientEnd(c) \/ ClientError(c)
  \/ SocketCloses(c) \/ CloseEvent(c) \/ HostReads(c) \/ HostData(c)
  \/ HostEnd(c) \/ HostFails(c) \/ HostDestroys(c)

Next == AgentReceives \/ HostReceives \/ \E c \in Conns : Step(c)

Spec == Init /\ [][Next]_vars

(* The pipes run; clients and handlers that were given their end go on to  *)
(* theirs.                                                                 *)
Fairness ==
  /\ WF_vars(AgentReceives) /\ WF_vars(HostReceives)
  /\ \A c \in Conns : /\ WF_vars(ClientEnd(c)) /\ WF_vars(SocketCloses(c))
                      /\ WF_vars(CloseEvent(c)) /\ WF_vars(HostReads(c))
                      /\ WF_vars(HostEnd(c))

FairSpec == Spec /\ Fairness

(* Connections are alike.                                                  *)
Symm == Permutations(Conns)

-----------------------------------------------------------------------------
TypeOK ==
  /\ \A c \in Conns :
       /\ sock[c].st \in {"none", "open", "closed", "refused"}
       /\ str[c].st \in {"none", "live", "destroyed"}
  /\ id \in [Conns -> 0..MaxStreams] /\ next \in Ids
  /\ agentMap \in [Ids -> Conns \cup {None}]
  /\ hostMap \in [Ids -> Conns \cup {None}]
  /\ closing \subseteq Conns /\ applied \subseteq Conns \X Conns

(* A frame reaches the connection, and the stream, it was sent about: the  *)
(* numbers that are used again never mix two connections up                *)
(* (activeStreams at both ends).                                           *)
OwnFramesOnly == \A p \in applied : p[1] = p[2]

(* A stream the handler is at work on is the one that has its number, so   *)
(* what the client sends still reaches it.                                 *)
StreamKeepsNumber == \A c \in Conns : Busy(c) => hostMap[id[c]] = c

(* An accepted connection is refused by no frame: nothing destroys its     *)
(* socket while no socket breaks and no handler fails (handleRemoteOpen,   *)
(* "already exists").                                                      *)
AcceptedNotRefused ==
  \A c \in Conns :
    sock[c].st = "closed" /\ errors = 0 /\ quiet = 0 => sock[c].ended

(* A connection that is given a number is closed and the number is free    *)
(* again: no stream stays half open for ever.                              *)
NumbersReturn == \A i \in Ids : (agentMap[i] # None) ~> (agentMap[i] = None)

(* "Transparent payload transfer" (agent.ts:13), "Transparent payload      *)
(* delivery" (host.ts:18): an ERROR frame about one connection ends no     *)
(* other one, also when numbers are used again.                            *)
FramesStayApart == OwnFramesOnly

(* "Demuxes logical streams (streamId 1..32) and creates TunnelStream      *)
(* instances" (host.ts:13): the stream of a new connection is there for    *)
(* the frames that follow its OPEN.                                        *)
NewStreamKept == StreamKeepsNumber

(* "Caps concurrent streams to MAX_CONCURRENT_STREAMS (32); rejects extra  *)
(* connections" (agent.ts:10): and no others.                              *)
RejectsOnlyExtra == AcceptedNotRefused

(* "When stream is destroyed or encounters an error, an ERROR frame is     *)
(* sent." (stream.ts:12)                                                   *)
DestroyTold == \A c \in Conns : str[c].st = "destroyed" => str[c].told
=============================================================================
