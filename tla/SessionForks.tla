---------------------------- MODULE SessionForks ----------------------------
(***************************************************************************)
(* Forking a session: a journal row, the export of the history from the    *)
(* runtime, its import under a new id, the attachments, and the            *)
(* transaction that makes the new session, with a stop of the server       *)
(* between any two of them and the reconciliation at the next start.       *)
(*   platform-server sessions/fork-service.ts   forkSession,               *)
(*        copyCrossSpaceAttachments, finalizeForkInDb,                     *)
(*        reconcilePendingOperations                                       *)
(*   platform-server server/server.ts           start                      *)
(* A fork goes to another space and takes the history up to a turn, or all *)
(* of it.  A turn of the source writes its message when it is sent and its *)
(* history when it runs.  A reset, or a fresh start of a blocked session,  *)
(* gives it a new generation with an empty history, and leaves the         *)
(* messages.                                                               *)
(***************************************************************************)
EXTENDS Naturals, Sequences, Functions

CONSTANTS
  Turns,        \* turns of the source session
  Forks,        \* requests, each with a journal row and a route id of its own
  Keys,         \* idempotency keys
  None,         \* no key, no boundary
  MaxResets,    \* bound: generations after the first
  MaxCancels,   \* bound: turns cancelled before they run
  MaxFaults,    \* bound: calls to the runtime or the files that fail
  MaxCrashes    \* bound: stops of the server

(* What a run assumes of the constants.                                    *)
SessionForksAssumption ==
  /\ None \notin Keys \cup Turns \cup Forks
  /\ {MaxResets, MaxCancels, MaxFaults, MaxCrashes} \subseteq Nat

Gens == 0..MaxResets

VARIABLES
  turn,      \* turn -> "none", "queued", "running", "completed", "cancelled"
  msgs,      \* the turns with messages, in the order they were sent
  gen,       \* the source's generation, with a history of its own
  hist,      \* generation -> the turns in its history in the runtime
  when,      \* turn -> the generation it ran in
  space,     \* the target space's status
  op,        \* fork -> fork_operations.status
  key, from, \* fork -> its key, the turn it ends with
  plan,      \* fork -> the turns whose messages it copies
  src,       \* fork -> the generation of the source it was planned of
  pc,        \* fork -> where the request is
  seed, dst, \* fork -> what was exported, the imported history
  route,     \* fork -> the status of the new session
  keyRow,    \* operation_idempotency: key -> the fork it belongs to
  up,        \* the server serves requests
  faults, crashes

source == <<turn, msgs, gen, hist, when>>
request == <<key, from, plan, src>>
vars == <<source, space, op, request, pc, seed, dst, route, keyRow, up, faults,
          crashes>>

NoSeed == <<None>>     \* not a history

Init ==
  /\ turn = [t \in Turns |-> "none"] /\ msgs = <<>> /\ space = "active"
  /\ gen = 0 /\ hist = [g \in Gens |-> <<>>] /\ when = [t \in Turns |-> 0]
  /\ op = [f \in Forks |-> "none"] /\ key = [f \in Forks |-> None]
  /\ from = [f \in Forks |-> None] /\ plan = [f \in Forks |-> <<>>]
  /\ src = [f \in Forks |-> 0] /\ pc = [f \in Forks |-> "none"]
  /\ seed = [f \in Forks |-> <<>>] /\ dst = [f \in Forks |-> NoSeed]
  /\ route = [f \in Forks |-> "none"] /\ keyRow = [k \in Keys |-> None]
  /\ up = TRUE /\ faults = 0 /\ crashes = 0

Fault == faults < MaxFaults /\ faults' = faults + 1
To(v, f, x) == v' = [v EXCEPT ![f] = x]

(* The place of a turn among the messages, and the messages up to it.      *)
Place(t) == CHOOSE i \in 1..Len(msgs) : msgs[i] = t
Upto(t) == IF t = None THEN msgs ELSE SubSeq(msgs, 1, Place(t))

-----------------------------------------------------------------------------
(* The source session and the target space.                                *)

Dispatch(t) ==
  /\ up /\ turn[t] = "none" /\ To(turn, t, "queued") /\ msgs' = Append(msgs, t)
  /\ UNCHANGED <<gen, hist, when, space, op, request, pc, seed, dst, route, keyRow,
                 up, faults, crashes>>

Execute(t) ==
  /\ up /\ turn[t] = "queued"
  /\ \A i \in 1..Place(t) - 1 : turn[msgs[i]] \notin {"queued", "running"}
  /\ To(turn, t, "running") /\ To(when, t, gen)
  /\ hist' = [hist EXCEPT ![gen] = Append(@, t)]
  /\ UNCHANGED <<msgs, gen, space, op, request, pc, seed, dst, route, keyRow, up, faults,
                 crashes>>

Complete(t) ==
  /\ up /\ turn[t] = "running" /\ To(turn, t, "completed")
  /\ UNCHANGED <<msgs, gen, hist, when, space, op, request, pc, seed, dst, route,
                 keyRow, up, faults, crashes>>

(* A turn cancelled while it is queued keeps its message and has no        *)
(* history.                                                                *)
CancelQueued(t) ==
  /\ up /\ turn[t] = "queued" /\ To(turn, t, "cancelled")
  /\ Len(SelectSeq(msgs, LAMBDA u : turn[u] = "cancelled")) < MaxCancels
  /\ UNCHANGED <<msgs, gen, hist, when, space, op, request, pc, seed, dst, route,
                 keyRow, up, faults, crashes>>

(* resetSession, while no turn is active, or startNewGeneration of a       *)
(* blocked session, which interrupts what is queued.                       *)
StartGeneration ==
  /\ up /\ gen < MaxResets /\ gen' = gen + 1
  /\ \A t \in Turns : turn[t] # "running"
  /\ turn' = [t \in Turns |-> IF turn[t] = "queued" THEN "cancelled" ELSE turn[t]]
  /\ UNCHANGED <<msgs, hist, when, space, op, request, pc, seed, dst, route, keyRow,
                 up, faults, crashes>>

ArchiveSpace ==
  /\ up /\ space' = "archived"
  /\ route' = [f \in Forks |-> IF route[f] = "active" THEN "archived" ELSE route[f]]
  /\ UNCHANGED <<source, op, request, pc, seed, dst, keyRow, up, faults, crashes>>

-----------------------------------------------------------------------------
(* forkSession.                                                            *)

(* exportForkSeed: the history of the generation that was planned of, up   *)
(* to the turn of the same number; a boundary that is not there, or an     *)
(* empty history, is refused.                                              *)
Seed(f) == IF from[f] = None THEN hist[src[f]] ELSE SubSeq(hist[src[f]], 1, Len(plan[f]))
Unavailable(f) ==
  \/ hist[src[f]] = <<>>
  \/ from[f] # None /\ Len(hist[src[f]]) < Len(plan[f])

(* A known key is answered from its row; otherwise no turn may be active,  *)
(* and the plan and the journal row are made.                              *)
BeginFork(f, k, t) ==
  /\ up /\ op[f] = "none"
  /\ IF k # None THEN keyRow[k] = None ELSE TRUE
  /\ \A u \in Turns : turn[u] \in {"none", "completed", "cancelled"}
  /\ space = "active" /\ t \in Range(msgs) \cup {None}
  /\ To(op, f, "prepared") /\ To(key, f, k) /\ To(from, f, t)
  /\ To(plan, f, Upto(t)) /\ To(src, f, gen)
  /\ To(pc, f, "export")
  /\ UNCHANGED <<source, space, seed, dst, route, keyRow, up, faults, crashes>>

Export(f) ==
  /\ pc[f] = "export"
  /\ \/ ~Unavailable(f) /\ To(seed, f, Seed(f)) /\ To(pc, f, "import")
        /\ UNCHANGED <<op, faults>>
     \/ /\ IF Unavailable(f) THEN UNCHANGED faults ELSE Fault
        /\ To(op, f, "failed") /\ To(pc, f, "ended") /\ UNCHANGED seed
  /\ UNCHANGED <<source, space, request, dst, route, keyRow, up, crashes>>

(* The import is done in the runtime before the answer is recorded.        *)
Import(f) ==
  /\ pc[f] = "import"
  /\ \/ To(dst, f, seed[f]) /\ To(pc, f, "imported") /\ UNCHANGED <<op, faults>>
     \/ /\ Fault /\ To(op, f, "failed") /\ To(pc, f, "ended")
        /\ \E reached \in BOOLEAN : To(dst, f, IF reached THEN seed[f] ELSE dst[f])
  /\ UNCHANGED <<source, space, request, seed, route, keyRow, up, crashes>>

(* Mutant: a status the table does not know.                               *)
MarkImported(f) ==
  /\ pc[f] = "imported" /\ To(op, f, "imported") /\ To(pc, f, "copy")
  /\ UNCHANGED <<source, space, request, seed, dst, route, keyRow, up, faults,
                 crashes>>

MarkSeeded(f) ==
  /\ pc[f] = "imported" /\ To(op, f, "seeded") /\ To(pc, f, "copy")
  /\ UNCHANGED <<source, space, request, seed, dst, route, keyRow, up, faults,
                 crashes>>

(* copyCrossSpaceAttachments, in a request.                                *)
Copy(f) ==
  /\ pc[f] = "copy"
  /\ \/ To(op, f, "attachments_copied") /\ To(pc, f, "finalize") /\ UNCHANGED faults
     \/ Fault /\ To(op, f, "failed") /\ To(pc, f, "ended")
  /\ UNCHANGED <<source, space, request, seed, dst, route, keyRow, up, crashes>>

(* operation_idempotency is UNIQUE: the second fork of a key is rolled     *)
(* back.                                                                   *)
KeyTaken(f) == IF key[f] = None THEN FALSE ELSE keyRow[key[f]] # None

(* finalizeForkInDb: route, generation, messages, key and journal.         *)
Commit(f) ==
  /\ ~KeyTaken(f)
  /\ To(route, f, "active") /\ To(op, f, "finalized")
  /\ IF key[f] = None THEN UNCHANGED keyRow ELSE To(keyRow, key[f], f)

(* Mutant: a key that is taken is overwritten.                             *)
FinalizeReplacing(f) ==
  /\ pc[f] = "finalize" /\ To(pc, f, "ended")
  /\ To(route, f, "active") /\ To(op, f, "finalized")
  /\ IF key[f] = None THEN UNCHANGED keyRow ELSE To(keyRow, key[f], f)
  /\ UNCHANGED <<source, space, request, seed, dst, up, faults, crashes>>

Finalize(f) ==
  /\ pc[f] = "finalize" /\ To(pc, f, "ended")
  /\ \/ Commit(f)
     \/ KeyTaken(f) /\ UNCHANGED <<op, route, keyRow>>
  /\ UNCHANGED <<source, space, request, seed, dst, up, faults, crashes>>

-----------------------------------------------------------------------------
(* Stop, start, reconcilePendingOperations.                                *)

Crash ==
  /\ crashes < MaxCrashes /\ crashes' = crashes + 1
  /\ pc' = [f \in Forks |-> IF pc[f] = "none" THEN "none" ELSE "ended"]
  /\ up' = FALSE
  /\ UNCHANGED <<source, space, op, request, seed, dst, route, keyRow, faults>>

(* Mutants: every unfinished row is taken up; only copied rows are.        *)
PendingPrepared(f) == op[f] \in {"prepared", "seeded", "attachments_copied"}
PendingCopied(f) == op[f] = "attachments_copied"

Pending(f) == op[f] \in {"seeded", "attachments_copied"}

Reconcile(f) ==
  /\ ~up /\ Pending(f)
  /\ \/ Commit(f) /\ UNCHANGED faults
     \/ KeyTaken(f) /\ To(op, f, "failed") /\ UNCHANGED <<route, keyRow, faults>>
     \/ op[f] = "seeded" /\ Fault /\ To(op, f, "failed") /\ UNCHANGED <<route, keyRow>>
  /\ UNCHANGED <<source, space, request, pc, seed, dst, up, crashes>>

Listen ==
  /\ ~up /\ \A f \in Forks : ~Pending(f)
  /\ up' = TRUE
  /\ UNCHANGED <<source, space, op, request, pc, seed, dst, route, keyRow,
                 faults, crashes>>

Step(f) == Export(f) \/ Import(f) \/ MarkSeeded(f) \/ Copy(f) \/ Finalize(f)

Next ==
  \/ \E t \in Turns : Dispatch(t) \/ Execute(t) \/ Complete(t) \/ CancelQueued(t)
  \/ \E f \in Forks : \/ \E k \in Keys \cup {None}, t \in Turns \cup {None} :
                            BeginFork(f, k, t)
                      \/ Step(f) \/ Reconcile(f)
  \/ StartGeneration \/ ArchiveSpace \/ Crash \/ Listen

Spec == Init /\ [][Next]_vars

-----------------------------------------------------------------------------
(* The values the variables take.                                          *)
TypeOK ==
  /\ op \in [Forks -> {"none", "prepared", "seeded", "attachments_copied",
                       "finalized", "failed"}]
  /\ pc \in [Forks -> {"none", "export", "import", "imported", "copy",
                       "finalize", "ended"}]
  /\ route \in [Forks -> {"none", "active", "archived"}]
  /\ keyRow \in [Keys -> Forks \cup {None}]

(* Requests with one key, at once, one after the other or around a stop of *)
(* the server, make one session.                                           *)
ForkedOnce ==
  \A f, g \in Forks : f # g /\ key[f] = key[g] /\ key[f] # None
                        => route[f] = "none" \/ route[g] = "none"

(* A forked session has a history in the runtime, and it holds every turn  *)
(* that ran in the generation the fork was planned of, among those whose   *)
(* messages the session shows, whoever finished the fork and whatever was  *)
(* reset since.                                                            *)
RouteHasHistory ==
  \A f \in Forks : route[f] # "none" =>
    /\ dst[f] # NoSeed
    /\ \A t \in Range(plan[f]) : turn[t] = "completed" /\ when[t] = src[f]
                                 => t \in Range(dst[f])

(* A fork whose history was imported is not left halfway: it is in a       *)
(* request that is running, or lost its key to another, or waits for the   *)
(* start that is under way.                                                *)
NothingStuck ==
  \A f \in Forks :
    up /\ op[f] \in {"seeded", "attachments_copied"}
      => pc[f] \in {"copy", "finalize"} \/ KeyTaken(f)

ForksComplete == TypeOK /\ ForkedOnce /\ RouteHasHistory /\ NothingStuck

(* "forks full session history": the agent of a session that was forked    *)
(* whole knows no turn that its messages do not show.                      *)
ForkShowsHistory ==
  \A f \in Forks : route[f] # "none" /\ from[f] = None
                     => Range(dst[f]) \subseteq Range(plan[f])

(* "forks prefix history at exact message boundary": the agent knows no    *)
(* turn after the one the fork was asked to end with.  The boundary may    *)
(* also lie in a generation before the one whose history is exported.      *)
ForkEndsAtBoundary ==
  \A f \in Forks : route[f] # "none" /\ from[f] # None
                     => Range(dst[f]) \subseteq Range(plan[f])

(* "to prevent archive/create race": no session comes to be in a space     *)
(* that is archived.                                                       *)
ForkInActiveSpace == \A f \in Forks : route[f] = "active" => space = "active"
=============================================================================
