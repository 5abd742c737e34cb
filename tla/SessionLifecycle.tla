-------------------------- MODULE SessionLifecycle --------------------------
(***************************************************************************)
(* The life of one session: its space and itself archived and restored,    *)
(* and the generations it goes through, each with a history of its own in  *)
(* the runtime: a reset by the user, a copy of the valid prefix of a       *)
(* corrupted history, or a fresh start, while turns are queued, run on the *)
(* history they found when they were claimed, and end, perhaps because the *)
(* history is corrupted.                                                   *)
(*   platform-server sessions/session-lifecycle-service.ts                 *)
(*   platform-server storage/sqlite-platform-api.ts   resetSession,        *)
(*        archiveSpace, restoreSpace                                       *)
(*   platform-server runtime/delivery-gateway.ts   dispatchInbound,        *)
(*        claimOneQueuedTurn, finalizeCompletedTurn, finalizeFailedTurn    *)
(* A transaction is one step.  The calls to the runtime are awaited, and   *)
(* other requests are served in between.                                   *)
(***************************************************************************)
EXTENDS Naturals, FiniteSets

CONSTANTS
  Turns,
  Keys,          \* idempotency keys of reset requests
  Calls,         \* calls of recoverValidPrefix
  MaxGen,        \* bound: generations
  MaxCorrupt,    \* bound: histories that become corrupted
  MaxRestores,   \* bound: calls of restoreSession
  Anytime        \* recovery is asked for of a session that is not blocked

(* What a run assumes of the constants.                                    *)
SessionLifecycleAssumption ==
  /\ MaxGen \in Nat \ {0} /\ {MaxCorrupt, MaxRestores} \subseteq Nat
  /\ Anytime \in BOOLEAN /\ IsFiniteSet(Calls) /\ IsFiniteSet(Turns)

Gens == 1..MaxGen
Ids == 1..(MaxGen + Cardinality(Calls))   \* histories; 1 is the first

VARIABLES
  space, status,     \* spaces.status, session_routes.status
  gen, dsh,          \* session_routes.current_generation, .dsh_session_id
  genRow,            \* session_generations: generation -> history, 0 without
  used,              \* ids given out so far
  files, hist,       \* histories that exist, history -> turns written to it
  damage,            \* history -> the place of its first bad line, 0 without
  place,             \* turn -> its place in the histories that have it
  run, at, ran,      \* turn -> turn_runs.status, its history, its outcome
  lease,             \* turn -> session_execution_leases.status
  flag,              \* session_recovery_state: generations to be recovered
  call,              \* call -> state of recoverValidPrefix
  restoring,         \* calls of restoreSession waiting for the runtime
  restores,
  kept,              \* history: turns completed since the session was last
                     \*   reset that no damage has taken
  done, answer       \* operation_idempotency, key -> the last answer

route == <<space, status>>
hists == <<files, hist, damage, place>>
turns == <<run, at, ran, lease>>
calls == <<call, restoring, restores>>
keys == <<done, answer>>
vars == <<route, gen, dsh, genRow, used, hists, turns, flag, calls, kept, keys>>

Idle == [pc |-> "none", gen |-> 0, from |-> 0, to |-> 0, replay |-> FALSE]

Init ==
  /\ space = "active" /\ status = "active"
  /\ gen = 1 /\ dsh = 1 /\ used = 1
  /\ genRow = [g \in Gens |-> IF g = 1 THEN 1 ELSE 0]
  /\ files = {} /\ hist = [i \in Ids |-> {}]
  /\ damage = [i \in Ids |-> 0] /\ place = [t \in Turns |-> 0]
  /\ run = [t \in Turns |-> "none"] /\ at = [t \in Turns |-> 0]
  /\ ran = [t \in Turns |-> "no"] /\ lease = [t \in Turns |-> "none"]
  /\ flag = {} /\ call = [c \in Calls |-> Idle]
  /\ restoring = 0 /\ restores = 0 /\ kept = {}
  /\ done = {} /\ answer = [k \in Keys |-> "none"]

Active == {t \in Turns : run[t] \in {"queued", "running"}}
Blocked == \E t \in Turns : lease[t] = "blocked"
Leased == \E t \in Turns : lease[t] \in {"active", "blocked"}

Corrupt == {i \in Ids : damage[i] # 0}
Before(t, n) == n = 0 \/ place[t] < n

(* What can be read of a history: the turns before its first bad line.     *)
ValidPrefix(i) == {t \in hist[i] : Before(t, damage[i])}

-----------------------------------------------------------------------------
(* Turns.                                                                  *)

(* dispatchInbound; the ingestion looks at everything again.               *)
Dispatch(t) ==
  /\ run[t] = "none"
  /\ status = "active" /\ space = "active" /\ gen \notin flag /\ ~Blocked
  /\ run' = [run EXCEPT ![t] = "queued"]
  /\ UNCHANGED <<route, gen, dsh, genRow, used, hists, at, ran, lease, flag,
                 calls, kept, keys>>

Claim(t) ==
  /\ run[t] = "queued" /\ \A u \in Turns : run[u] # "running"
  /\ status = "active" /\ space = "active" /\ gen \notin flag /\ ~Leased
  /\ run' = [run EXCEPT ![t] = "running"]
  /\ lease' = [lease EXCEPT ![t] = "active"]
  /\ at' = [at EXCEPT ![t] = dsh]
  /\ UNCHANGED <<route, gen, dsh, genRow, used, hists, ran, flag, calls, kept,
                 keys>>

(* The runtime runs the turn on its history, or finds a line of it that    *)
(* cannot be read or a gap; the turns behind the damage are lost to it.    *)
Execute(t) ==
  /\ run[t] = "running" /\ ran[t] = "no"
  /\ files' = files \cup {at[t]}
  /\ \/ /\ at[t] \notin Corrupt
        /\ hist' = [hist EXCEPT ![at[t]] = @ \cup {t}]
        /\ place' = [place EXCEPT ![t] =
                       Cardinality({u \in Turns : ran[u] = "ok"}) + 1]
        /\ ran' = [ran EXCEPT ![t] = "ok"] /\ UNCHANGED <<damage, kept>>
     \/ /\ ran' = [ran EXCEPT ![t] = "corrupt"] /\ UNCHANGED <<hist, place>>
        /\ \/ at[t] \in Corrupt /\ UNCHANGED <<damage, kept>>
           \/ /\ at[t] \notin Corrupt /\ Cardinality(Corrupt) < MaxCorrupt
              /\ \E n \in 1..(Cardinality(Turns) + 1) :
                   /\ damage' = [damage EXCEPT ![at[t]] = n]
                   /\ kept' = kept \ {u \in hist[at[t]] : ~Before(u, n)}
  /\ UNCHANGED <<route, gen, dsh, genRow, used, run, at, lease, flag, calls, keys>>

Complete(t) ==
  /\ run[t] = "running" /\ ran[t] = "ok"
  /\ run' = [run EXCEPT ![t] = "completed"]
  /\ lease' = [lease EXCEPT ![t] = "released"]
  /\ kept' = kept \cup {t}
  /\ UNCHANGED <<route, gen, dsh, genRow, used, hists, at, ran, flag, calls,
                 keys>>

(* Mutant: the code of the block is written where its status belongs.      *)
FailSwapped(t) ==
  /\ run[t] = "running" /\ ran[t] = "corrupt"
  /\ run' = [run EXCEPT ![t] = "failed"]
  /\ lease' = [lease EXCEPT ![t] = "RECOVERY_REQUIRED"]
  /\ flag' = flag \cup {gen}
  /\ UNCHANGED <<route, gen, dsh, genRow, used, hists, at, ran, calls, kept,
                 keys>>

(* finalizeFailedTurn: the generation that is flagged is the current one,  *)
(* and the lease is blocked whatever its status was.                       *)
Fail(t) ==
  /\ run[t] = "running" /\ ran[t] = "corrupt"
  /\ run' = [run EXCEPT ![t] = "failed"]
  /\ lease' = [lease EXCEPT ![t] = "blocked"]
  /\ flag' = flag \cup {gen}
  /\ UNCHANGED <<route, gen, dsh, genRow, used, hists, at, ran, calls, kept,
                 keys>>

-----------------------------------------------------------------------------
(* Generations.                                                            *)

Release == lease' = [t \in Turns |-> IF lease[t] \in {"active", "blocked"}
                                     THEN "released" ELSE lease[t]]
InterruptQueued ==
  run' = [t \in Turns |-> IF run[t] = "queued" THEN "interrupted" ELSE run[t]]

(* The new row, the route and the recovery state; the row is UNIQUE.       *)
NewGeneration(g, id) ==
  /\ genRow[g] = 0
  /\ genRow' = [genRow EXCEPT ![g] = id]
  /\ gen' = g /\ dsh' = id

(* What resetSession checks before it looks for the key.                   *)
Resettable == status = "active" /\ space = "active" /\ Active = {}

(* Mutant: the generation is replaced without looking at active turns.     *)
ResetFreshRunning(k) ==
  /\ status = "active" /\ space = "active"
  /\ k \notin done /\ gen < MaxGen
  /\ NewGeneration(gen + 1, used + 1) /\ used' = used + 1
  /\ done' = done \cup {k} /\ answer' = [answer EXCEPT ![k] = "done"]
  /\ kept' = {}
  /\ UNCHANGED <<route, hists, turns, flag, calls>>

ResetFresh(k) ==
  /\ Resettable
  /\ k \notin done /\ gen < MaxGen
  /\ NewGeneration(gen + 1, used + 1) /\ used' = used + 1
  /\ done' = done \cup {k} /\ answer' = [answer EXCEPT ![k] = "done"]
  /\ kept' = {}
  /\ UNCHANGED <<route, hists, turns, flag, calls>>

(* A key that was used is answered with its receipt, provided that the     *)
(* checks before it pass.                                                  *)
ResetAgain(k) ==
  /\ k \in done
  /\ answer' = [answer EXCEPT ![k] = IF Resettable THEN "done" ELSE "refused"]
  /\ UNCHANGED <<route, gen, dsh, genRow, used, hists, turns, flag, calls, kept,
                 done>>

StartNewGeneration ==
  /\ gen < MaxGen /\ (Anytime \/ gen \in flag)
  /\ NewGeneration(gen + 1, used + 1) /\ used' = used + 1
  /\ flag' = {} /\ Release /\ InterruptQueued
  /\ kept' = {}
  /\ UNCHANGED <<route, hists, at, ran, calls, keys>>

(* recoverValidPrefix reads the route, then waits for the runtime.         *)
BeginRecovery(c, replay) ==
  /\ call[c].pc = "none" /\ gen < MaxGen /\ (Anytime \/ gen \in flag)
  /\ call' = [call EXCEPT ![c] = [pc |-> "begun", gen |-> gen + 1, from |-> dsh,
                                  to |-> used + 1, replay |-> replay]]
  /\ used' = used + 1
  /\ UNCHANGED <<route, gen, dsh, genRow, hists, turns, flag, restoring,
                 restores, kept, keys>>

(* Mutant: the copy stops one turn before the first bad line.              *)
CopyPrefixShort(c) ==
  /\ call[c].pc = "begun" /\ call[c].from \in files
  /\ \A t \in Turns : ~(run[t] = "running" /\ ran[t] = "no" /\ at[t] = call[c].from)
  /\ files' = files \cup {call[c].to}
  /\ hist' = [hist EXCEPT ![call[c].to] =
                {t \in hist[call[c].from] : place[t] + 1 < damage[call[c].from]}]
  /\ damage' = [damage EXCEPT ![call[c].to] = 0]
  /\ call' = [call EXCEPT ![c].pc = "copied"]
  /\ UNCHANGED <<route, gen, dsh, genRow, used, place, turns, flag, restoring,
                 restores, kept, keys>>

(* The runtime waits for a turn it is running, keeps a backup and copies   *)
(* the history up to its first bad line or gap.                            *)
CopyPrefix(c) ==
  /\ call[c].pc = "begun" /\ call[c].from \in files
  /\ \A t \in Turns : ~(run[t] = "running" /\ ran[t] = "no" /\ at[t] = call[c].from)
  /\ files' = files \cup {call[c].to}
  /\ hist' = [hist EXCEPT ![call[c].to] = ValidPrefix(call[c].from)]
  /\ damage' = [damage EXCEPT ![call[c].to] = 0]
  /\ call' = [call EXCEPT ![c].pc = "copied"]
  /\ UNCHANGED <<route, gen, dsh, genRow, used, place, turns, flag, restoring,
                 restores, kept, keys>>

(* Mutant: a generation that is there already is overwritten.              *)
CommitOverwriting(c) ==
  /\ call[c].pc = "copied"
  /\ genRow' = [genRow EXCEPT ![call[c].gen] = call[c].to]
  /\ gen' = call[c].gen /\ dsh' = call[c].to
  /\ flag' = {} /\ Release
  /\ IF call[c].replay THEN UNCHANGED run ELSE InterruptQueued
  /\ call' = [call EXCEPT ![c].pc = "ended"]
  /\ UNCHANGED <<route, used, hists, at, ran, restoring, restores, kept, keys>>

CommitRecovery(c) ==
  /\ call[c].pc = "copied"
  /\ NewGeneration(call[c].gen, call[c].to)
  /\ flag' = {} /\ Release
  /\ IF call[c].replay THEN UNCHANGED run ELSE InterruptQueued
  /\ call' = [call EXCEPT ![c].pc = "ended"]
  /\ UNCHANGED <<route, used, hists, at, ran, restoring, restores, kept, keys>>

(* The runtime fails, the row exists, or the server stops.                 *)
RecoveryFails(c) ==
  /\ call[c].pc \in {"begun", "copied"}
  /\ call' = [call EXCEPT ![c].pc = "ended"]
  /\ UNCHANGED <<route, gen, dsh, genRow, used, hists, turns, flag, restoring,
                 restores, kept, keys>>

-----------------------------------------------------------------------------
(* Archive and restore.                                                    *)

(* Mutant: only running turns keep a session from being archived.          *)
ArchiveWithQueued ==
  /\ \A t \in Turns : run[t] # "running"
  /\ status' = "archived"
  /\ UNCHANGED <<space, gen, dsh, genRow, used, hists, turns, flag, calls, kept,
                 keys>>

ArchiveSession ==
  /\ Active = {}
  /\ status' = "archived"
  /\ UNCHANGED <<space, gen, dsh, genRow, used, hists, turns, flag, calls, kept,
                 keys>>

ArchiveSpace ==
  /\ Active = {}
  /\ space' = "archived" /\ status' = "archived"
  /\ UNCHANGED <<gen, dsh, genRow, used, hists, turns, flag, calls, kept, keys>>

RestoreSpace ==
  /\ space = "archived" /\ space' = "active"
  /\ UNCHANGED <<status, gen, dsh, genRow, used, hists, turns, flag, calls, kept,
                 keys>>

(* restoreSession looks at the space, waits for the runtime's word on the  *)
(* history, and makes the session active.                                  *)
BeginRestore ==
  /\ space = "active" /\ status = "archived"
  /\ restores < MaxRestores /\ restores' = restores + 1
  /\ dsh \in files \ Corrupt
  /\ restoring' = restoring + 1
  /\ UNCHANGED <<route, gen, dsh, genRow, used, hists, turns, flag, call, kept,
                 keys>>

EndRestore ==
  /\ restoring > 0 /\ restoring' = restoring - 1
  /\ status' = "active"
  /\ UNCHANGED <<space, gen, dsh, genRow, used, hists, turns, flag, call,
                 restores, kept, keys>>

Next ==
  \/ \E t \in Turns : Dispatch(t) \/ Claim(t) \/ Execute(t) \/ Complete(t) \/ Fail(t)
  \/ \E k \in Keys : ResetFresh(k) \/ ResetAgain(k)
  \/ \E c \in Calls : \/ \E replay \in BOOLEAN : BeginRecovery(c, replay)
                      \/ CopyPrefix(c) \/ CommitRecovery(c) \/ RecoveryFails(c)
  \/ StartNewGeneration
  \/ ArchiveSession \/ ArchiveSpace \/ RestoreSpace \/ BeginRestore \/ EndRestore

Spec == Init /\ [][Next]_vars

-----------------------------------------------------------------------------
(* The values the variables take; no two generations share a history.      *)
TypeOK ==
  /\ {space, status} \subseteq {"active", "archived"}
  /\ gen \in Gens /\ dsh \in Ids /\ used \in Ids
  /\ genRow \in [Gens -> {0} \cup Ids]
  /\ run \in [Turns -> {"none", "queued", "running", "completed", "failed",
                        "interrupted"}]
  /\ lease \in [Turns -> {"none", "active", "blocked", "released"}]
  /\ flag \subseteq Gens /\ files \subseteq Ids
  /\ damage \in [Ids -> Nat] /\ Corrupt \subseteq files

(* The route names the newest generation and its history, and generations  *)
(* have no gaps and share no history, whatever resets, fresh starts and    *)
(* recoveries awaited the runtime at the same time.                        *)
GenerationsAgree ==
  /\ genRow[gen] = dsh
  /\ \A g \in Gens : genRow[g] # 0 <=> g <= gen
  /\ \A g, h \in 1..gen : genRow[g] = genRow[h] => g = h

(* An archived session has no queued or running turn: the scheduler would  *)
(* never claim it, and a running one would answer into an archived chat.   *)
ArchivedIsIdle ==
  (status = "archived" \/ space = "archived") => Active = {}

(* A reset never takes the history from under a turn, and a recovery loses *)
(* no more than what lies behind the damage: a turn that runs works on the *)
(* current history, and one that was answered since the last reset can be  *)
(* read there unless the damage took it, when the session is recovered     *)
(* only once it is blocked.                                                *)
HistoryKeepsTurns ==
  /\ kept \subseteq ValidPrefix(dsh)
  /\ \A t \in Turns : run[t] = "running" /\ ran[t] # "corrupt" => at[t] = dsh

(* What holds of a session: its rows agree, it is idle when it is archived,*)
(* and its history has its turns when only a blocked session is recovered. *)
GenerationsHold ==
  /\ TypeOK /\ GenerationsAgree /\ ArchivedIsIdle
  /\ Anytime \/ HistoryKeepsTurns

(* "prefix recovery creates Gen N+1 + backup and unblocks": a generation   *)
(* that is to be recovered is one whose history is corrupted.              *)
FlagMeansCorrupt == \A g \in flag : genRow[g] \in Corrupt

(* "fails restore with SPACE_ARCHIVED if parent space is archived": an     *)
(* active session is in an active space.                                   *)
ActiveInActiveSpace == status = "active" => space = "active"

(* "returning exact initial response on replay": a request that was done   *)
(* is not refused when it is repeated.                                     *)
ReplayAnswered == \A k \in Keys : answer[k] # "refused"
=============================================================================
