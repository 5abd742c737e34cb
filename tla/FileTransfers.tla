---------------------------- MODULE FileTransfers ----------------------------
(***************************************************************************)
(* Uploading one file of a space in three phases: the runtime streams the  *)
(* bytes to a stage file, the server journals the transfer, the runtime    *)
(* renames the stage over the target (keeping the overwritten file as a    *)
(* backup), and one database transaction records the idempotency key and   *)
(* finalizes the journal row.  A start-up recovery reads the unsettled     *)
(* rows, inspects the files and finalizes, aborts or rolls back.           *)
(*   server/handler.ts            the upload handler                       *)
(*   files/runtime-file-api.ts    the calls to the runtime, errors eaten   *)
(*   runtime/file-ops.ts          the file operations, under a path lock   *)
(*   storage/file-transfer-recovery.ts   the recovery                      *)
(* A content stands for the bytes, their SHA-256 and their ETag.           *)
(***************************************************************************)
EXTENDS Naturals, FiniteSets, TLC

CONSTANTS
  Uploads,      \* the upload requests of the run
  Contents,     \* file contents
  Keys,         \* idempotency keys
  Absent,       \* no file
  MaxOpen,      \* bound: uploads handled at the same time
  MaxCrashes,   \* bound: stops of the server, during recovery included
  MaxFaults     \* bound: failed runtime calls and database writes

(* What a run assumes of the constants.                                    *)
FTAssumption == /\ Absent \notin Contents
                /\ {MaxOpen, MaxCrashes, MaxFaults} \subseteq Nat

Files == Contents \cup {Absent}

(* A request: the bytes, the ETag of If-Match (Absent: the file must not   *)
(* exist yet) and the Idempotency-Key.                                     *)
Requests == [content : Contents, etag : Files, key : Keys]

NoRequest == [content |-> Absent, etag |-> Absent, key |-> Absent]

VARIABLES
  target,    \* the file at the path
  stage,     \* upload -> its stage file is on disk
  backup,    \* upload -> the file kept under its rollback token
  journal,   \* upload -> status of its file_transfer_journal row
  created,   \* upload -> created_at of its row, 0 if it has none
  clock,     \* the created_at of the newest row
  idem,      \* key -> [content, etag] hashed in operation_idempotency
  server,    \* "up" (listening), "recovering" or "refused" (start-up failed)
  pc,        \* upload -> where its handler is
  req,       \* upload -> its request
  told,      \* upload -> the answer its client got
  todo,      \* rows the running recovery still has to visit
  doing,     \* the recovery's pending write: "none" or what to record
  failed,    \* the recovery has reported an error
  crashes, faults,
  origin,    \* history: the file at the path before the first upload
  held       \* history: every content that was ever at the path

disk == <<target, stage, backup>>
rows == <<journal, created, clock, idem>>
boot == <<todo, doing, failed>>
vars == <<disk, rows, server, pc, req, told, boot, crashes, faults,
          origin, held>>

Init ==
  /\ origin \in Files /\ target = origin
  /\ held = {origin} \ {Absent}
  /\ stage = [u \in Uploads |-> FALSE]
  /\ backup = [u \in Uploads |-> Absent]
  /\ journal = [u \in Uploads |-> "none"]
  /\ created = [u \in Uploads |-> 0] /\ clock = 0
  /\ idem = [k \in Keys |-> NoRequest]
  /\ server = "up"
  /\ pc = [u \in Uploads |-> "idle"]
  /\ req = [u \in Uploads |-> NoRequest]
  /\ told = [u \in Uploads |-> "none"]
  /\ todo = {} /\ doing = "none" /\ failed = FALSE
  /\ crashes = 0 /\ faults = 0

Open == {u \in Uploads : pc[u] \notin {"idle", "done"}}
Overwrites(u) == req[u].etag # Absent
Hash(r) == [r EXCEPT !.key = Absent]

Fault == faults < MaxFaults /\ faults' = faults + 1
Reliable == UNCHANGED faults

At(u, l) == server = "up" /\ pc[u] = l
Goto(u, l) == pc' = [pc EXCEPT ![u] = l]
Answer(u, a) == told' = [told EXCEPT ![u] = a] /\ Goto(u, "done")
SetTarget(f) == target' = f /\ held' = held \cup ({f} \ {Absent})

-----------------------------------------------------------------------------
(* The runtime's file operations, as functions of what they find.          *)

(* executeFileCommitStage: the precondition.                               *)
PreconditionHolds(u) == target = req[u].etag

(* executeFileRollbackCommit: with a token the backup, if it is there, is  *)
(* renamed over whatever is at the path; without one whatever is at the    *)
(* path is unlinked.  expectedEtag is not looked at.                       *)
RollbackCommit(u) ==
  IF Overwrites(u)
    THEN IF backup[u] # Absent
           THEN SetTarget(backup[u]) /\ backup' = [backup EXCEPT ![u] = Absent]
           ELSE UNCHANGED <<target, backup, held>>
    ELSE SetTarget(Absent) /\ UNCHANGED backup

Unstage(u) == stage' = [stage EXCEPT ![u] = FALSE]
DropBackup(u) == backup' = [backup EXCEPT ![u] = Absent]

(* An operation whose errors runtime-file-api.ts eats: it happens, or it   *)
(* fails and the caller goes on just the same.                             *)
BestEffort(Op, Skip) == (Op /\ Reliable) \/ (Skip /\ Fault)

-----------------------------------------------------------------------------
(* The upload handler.                                                     *)

(* Phase 1: the body is streamed to a stage file.                          *)
StageStream(u) ==
  /\ At(u, "idle")
  /\ Cardinality(Open) < MaxOpen
  /\ \E r \in Requests : req' = [req EXCEPT ![u] = r]
  /\ stage' = [stage EXCEPT ![u] = TRUE]
  /\ Goto(u, "staged")
  /\ UNCHANGED <<target, backup, rows, server, told, boot, crashes, faults,
                 origin, held>>

(* The idempotency key was recorded before: the stage is dropped and the   *)
(* stored response repeated, or the request refused as a conflict.         *)
Replay(u) ==
  /\ At(u, "staged")
  /\ idem[req[u].key] # NoRequest
  /\ BestEffort(Unstage(u), UNCHANGED stage)
  /\ Answer(u, IF idem[req[u].key] = Hash(req[u]) THEN "ok" ELSE "conflict")
  /\ UNCHANGED <<target, backup, rows, server, req, boot, crashes, origin,
                 held>>

(* Otherwise the transfer is journaled before the commit is asked for.     *)
JournalStaged(u) ==
  /\ At(u, "staged")
  /\ idem[req[u].key] = NoRequest
  /\ journal' = [journal EXCEPT ![u] = "staged"]
  /\ clock' = clock + 1 /\ created' = [created EXCEPT ![u] = clock']
  /\ Goto(u, "committing")
  /\ UNCHANGED <<disk, idem, server, req, told, boot, crashes, faults,
                 origin, held>>

(* Phase 2, in the runtime: the precondition fails and the stage is        *)
(* removed.                                                                *)
CommitRefused(u) ==
  /\ At(u, "committing")
  /\ ~PreconditionHolds(u)
  /\ Unstage(u)
  /\ Goto(u, "refused")
  /\ UNCHANGED <<target, backup, rows, server, req, told, boot, crashes,
                 faults, origin, held>>

(* It holds: the stage is linked to the free path, or renamed over the     *)
(* target after the target was renamed to the backup.                      *)
Publish(u) ==
  /\ backup' = [backup EXCEPT ![u] = target]
  /\ SetTarget(req[u].content)
  /\ Unstage(u)

(* The answer arrives, or is lost after the fact.                          *)
CommitStage(u) ==
  /\ At(u, "committing")
  /\ PreconditionHolds(u)
  /\ Publish(u)
  /\ \/ Goto(u, "settling") /\ Reliable
     \/ Goto(u, "unsure") /\ Fault
  /\ UNCHANGED <<rows, server, req, told, boot, crashes, origin>>

(* The runtime is killed between the two file system calls: the new link   *)
(* exists beside the stage, or the target is gone and not yet replaced.    *)
CommitTorn(u) ==
  /\ At(u, "committing")
  /\ PreconditionHolds(u)
  /\ Fault
  /\ backup' = [backup EXCEPT ![u] = target]
  /\ SetTarget(IF Overwrites(u) THEN Absent ELSE req[u].content)
  /\ Goto(u, "unsure")
  /\ UNCHANGED <<stage, rows, server, req, told, boot, crashes, origin>>

(* The commit is never executed.                                           *)
CommitUnreached(u) ==
  /\ At(u, "committing")
  /\ Fault
  /\ Goto(u, "unsure")
  /\ UNCHANGED <<disk, rows, server, req, told, boot, crashes, origin, held>>

(* commitStage settles storage_bytes after the commit: over the limit the  *)
(* commit is undone, by the backup or by a delete that checks the ETag.    *)
SettleQuota(u) ==
  /\ At(u, "settling")
  /\ \/ Goto(u, "recording") /\ Reliable /\ UNCHANGED <<target, backup, held>>
     \/ /\ Fault
        /\ Goto(u, "unsure")
        /\ IF Overwrites(u) \/ target = req[u].content
             THEN RollbackCommit(u)
             ELSE UNCHANGED <<target, backup, held>>
  /\ UNCHANGED <<stage, rows, server, req, told, boot, crashes, origin>>

(* commitStage threw: the stage is aborted and the error passed on.  The   *)
(* journal row is left as it is.                                           *)
CommitFailed(u) ==
  /\ pc[u] \in {"refused", "unsure"} /\ server = "up"
  /\ BestEffort(Unstage(u), UNCHANGED stage)
  /\ Answer(u, IF pc[u] = "refused" THEN "conflict" ELSE "error")
  /\ UNCHANGED <<target, backup, rows, server, req, boot, crashes, origin,
                 held>>

(* The key is free for the INSERT (UNIQUE(user_id, scope, key)).           *)
KeyFree(u) == idem[req[u].key] = NoRequest

(* Phase 3: the row goes to 'committed' in an UPDATE of its own ...        *)
MarkCommitted(u) ==
  /\ At(u, "recording")
  /\ journal' = [journal EXCEPT ![u] = "committed"]
  /\ Goto(u, "marked")
  /\ UNCHANGED <<disk, created, clock, idem, server, req, told, boot, crashes,
                 faults, origin, held>>

(* Mutant: the response is sent before the key is recorded.                *)
FinalizeUploadUnrecorded(u) ==
  /\ At(u, "marked")
  /\ KeyFree(u)
  /\ journal' = [journal EXCEPT ![u] = "finalized"]
  /\ Goto(u, "cleaning")
  /\ UNCHANGED <<disk, created, clock, idem, server, req, told, boot, crashes,
                 faults, origin, held>>

(* ... and to 'finalized' in the transaction that records the key.  There  *)
(* is no await between the two, but the server may stop there; a step of   *)
(* another upload there commutes with the first.                           *)
FinalizeUpload(u) ==
  /\ At(u, "marked")
  /\ KeyFree(u)
  /\ journal' = [journal EXCEPT ![u] = "finalized"]
  /\ idem' = [idem EXCEPT ![req[u].key] = Hash(req[u])]
  /\ Goto(u, "cleaning")
  /\ UNCHANGED <<disk, created, clock, server, req, told, boot, crashes, faults,
                 origin, held>>

(* The write of 'committed' fails, or the transaction does (always when    *)
(* the key was taken meanwhile).                                           *)
FinalizeFails(u) ==
  /\ \/ At(u, "recording") /\ Fault
     \/ At(u, "marked") /\ IF KeyFree(u) THEN Fault ELSE Reliable
  /\ Goto(u, "undoing")
  /\ UNCHANGED <<disk, rows, server, req, told, boot, crashes, origin, held>>

(* The backup is deleted; a failure is eaten and 201 is sent either way.   *)
FinalizeStage(u) ==
  /\ At(u, "cleaning")
  /\ BestEffort(DropBackup(u), UNCHANGED backup)
  /\ Answer(u, "ok")
  /\ UNCHANGED <<target, stage, rows, server, req, boot, crashes, origin,
                 held>>

(* Compensation: the physical commit is rolled back ...                    *)
Undo(u) ==
  /\ At(u, "undoing")
  /\ BestEffort(RollbackCommit(u), UNCHANGED <<target, backup, held>>)
  /\ Goto(u, "undone")
  /\ UNCHANGED <<stage, rows, server, req, told, boot, crashes, origin>>

(* ... and recorded, which may fail as well; the client gets a 503.        *)
RecordUndone(u) ==
  /\ At(u, "undone")
  /\ BestEffort(journal' = [journal EXCEPT ![u] = "rolled_back"],
                UNCHANGED journal)
  /\ Answer(u, "error")
  /\ UNCHANGED <<disk, created, clock, idem, server, req, boot, crashes, origin,
                 held>>

-----------------------------------------------------------------------------
(* Start-up recovery.                                                      *)

Pending(u) == journal[u] \in {"staged", "committed"}

(* The server stops, in the middle of handlers or of a recovery, or is     *)
(* started again after a refused start; recoverAll selects the rows.       *)
Restart ==
  /\ crashes < MaxCrashes
  /\ crashes' = crashes + 1
  /\ server' = "recovering"
  /\ pc' = [u \in Uploads |-> IF u \in Open THEN "done" ELSE pc[u]]
  /\ told' = [u \in Uploads |-> IF u \in Open THEN "lost" ELSE told[u]]
  /\ todo' = {u \in Uploads : Pending(u)}
  /\ doing' = "none" /\ failed' = FALSE
  /\ UNCHANGED <<disk, rows, req, faults, origin, held>>

(* The rows are visited in the order of created_at.                        *)
Visiting(u) ==
  /\ server = "recovering" /\ u \in todo
  /\ \A v \in todo : created[u] <= created[v]

Recovers(u, s) == Visiting(u) /\ doing = "none" /\ journal[u] = s
TargetMatches(u) == target = req[u].content

(* Mutant: the abort is recorded and the stage is not removed.             *)
RecoverAbortOnlyRow(u) ==
  /\ Recovers(u, "staged")
  /\ stage[u] /\ ~TargetMatches(u)
  /\ doing' = "aborted"
  /\ UNCHANGED <<disk, rows, server, pc, req, told, todo, failed, crashes,
                 faults, origin, held>>

(* Branch a: the stage is there and the target is not the new file.        *)
RecoverAbort(u) ==
  /\ Recovers(u, "staged")
  /\ stage[u] /\ ~TargetMatches(u)
  /\ BestEffort(Unstage(u), UNCHANGED stage)
  /\ doing' = "aborted"
  /\ UNCHANGED <<target, backup, rows, server, pc, req, told, todo, failed,
                 crashes, origin, held>>

(* Mutant: any row without a stage is taken for committed.                 *)
MayFinalizeUnseen(u) ==
  \/ Recovers(u, "staged") /\ ~stage[u]
  \/ Recovers(u, "committed") /\ TargetMatches(u)

(* Branch b, or a committed row: the target is the new file.               *)
MayFinalize(u) ==
  \/ Recovers(u, "staged") /\ ~stage[u] /\ TargetMatches(u)
  \/ Recovers(u, "committed") /\ TargetMatches(u)

KeyAgrees(u) == idem[req[u].key] \in {NoRequest, Hash(req[u])}

(* finalizeCommittedEntry: one transaction, then the backup is deleted.    *)
RecoverFinalize(u) ==
  /\ MayFinalize(u)
  /\ KeyAgrees(u)
  /\ journal' = [journal EXCEPT ![u] = "finalized"]
  /\ idem' = [idem EXCEPT ![req[u].key] = Hash(req[u])]
  /\ doing' = "cleanup"
  /\ UNCHANGED <<disk, created, clock, server, pc, req, told, todo, failed,
                 crashes, faults, origin, held>>

RecoverCleanup(u) ==
  /\ Visiting(u)
  /\ doing = "cleanup"
  /\ BestEffort(DropBackup(u), UNCHANGED backup)
  /\ doing' = "none" /\ todo' = todo \ {u}
  /\ UNCHANGED <<target, stage, rows, server, pc, req, told, failed, crashes,
                 origin, held>>

(* Branch c: the backup is there and the target is not the new file; a     *)
(* committed row whose target is not the new file.  rolled_back follows    *)
(* whether or not the rollback worked.                                     *)
RecoverRollback(u) ==
  /\ \/ Recovers(u, "staged") /\ ~stage[u] /\ backup[u] # Absent
     \/ Recovers(u, "committed")
  /\ ~TargetMatches(u)
  /\ IF Overwrites(u)
       THEN BestEffort(RollbackCommit(u), UNCHANGED <<target, backup, held>>)
       ELSE UNCHANGED <<target, backup, held, faults>>
  /\ doing' = "rolled_back"
  /\ UNCHANGED <<stage, rows, server, pc, req, told, todo, failed, crashes,
                 origin>>

(* Branch d, and a key that belongs to another request: an error, the row  *)
(* is kept.                                                                *)
RecoverGivesUp(u) ==
  /\ \/ Recovers(u, "staged") /\ stage[u] /\ TargetMatches(u)
     \/ /\ Recovers(u, "staged") /\ ~stage[u] /\ ~TargetMatches(u)
        /\ backup[u] = Absent
     \/ MayFinalize(u) /\ ~KeyAgrees(u)
  /\ failed' = TRUE
  /\ todo' = todo \ {u}
  /\ UNCHANGED <<disk, rows, server, pc, req, told, doing, crashes, faults,
                 origin, held>>

(* The inspection itself fails: best-effort abort or rollback, and a       *)
(* terminal status.                                                        *)
InspectFails(u) ==
  /\ Visiting(u) /\ doing = "none"
  /\ Fault
  /\ \/ /\ journal[u] = "staged"
        /\ \/ Unstage(u)
           \/ UNCHANGED stage
        /\ doing' = "aborted"
        /\ UNCHANGED <<target, backup, held>>
     \/ /\ journal[u] = "committed"
        /\ IF Overwrites(u) THEN RollbackCommit(u)
                            ELSE UNCHANGED <<target, backup, held>>
        /\ doing' = IF Overwrites(u) THEN "rolled_back" ELSE "aborted"
        /\ UNCHANGED stage
  /\ UNCHANGED <<rows, server, pc, req, told, todo, failed, crashes, origin>>

(* Mutant: whatever is pending is written as the status.                   *)
RecoverRecordUnchecked(u) ==
  /\ Visiting(u)
  /\ doing # "none"
  /\ journal' = [journal EXCEPT ![u] = doing]
  /\ doing' = "none" /\ todo' = todo \ {u}
  /\ UNCHANGED <<disk, created, clock, idem, server, pc, req, told, failed,
                 crashes, faults, origin, held>>

(* The status the visit came to is written.                                *)
RecoverRecord(u) ==
  /\ Visiting(u)
  /\ doing \in {"aborted", "rolled_back"}
  /\ journal' = [journal EXCEPT ![u] = doing]
  /\ doing' = "none" /\ todo' = todo \ {u}
  /\ UNCHANGED <<disk, created, clock, idem, server, pc, req, told, failed,
                 crashes, faults, origin, held>>

(* The listener is bound, unless the report has errors.                    *)
Listen ==
  /\ server = "recovering" /\ todo = {}
  /\ server' = IF failed THEN "refused" ELSE "up"
  /\ UNCHANGED <<disk, rows, pc, req, told, boot, crashes, faults, origin,
                 held>>

Next ==
  \/ \E u \in Uploads :
       \/ StageStream(u) \/ Replay(u) \/ JournalStaged(u)
       \/ CommitRefused(u) \/ CommitStage(u) \/ CommitTorn(u)
       \/ CommitUnreached(u) \/ SettleQuota(u) \/ CommitFailed(u)
       \/ MarkCommitted(u) \/ FinalizeUpload(u) \/ FinalizeFails(u) \/ FinalizeStage(u)
       \/ Undo(u) \/ RecordUndone(u)
       \/ RecoverAbort(u) \/ RecoverFinalize(u) \/ RecoverCleanup(u)
       \/ RecoverRollback(u) \/ RecoverGivesUp(u) \/ InspectFails(u)
       \/ RecoverRecord(u)
  \/ Restart \/ Listen

Spec == Init /\ [][Next]_vars

(* Uploads, contents and keys are interchangeable.                         *)
Symm == Permutations(Uploads) \cup Permutations(Contents)
          \cup Permutations(Keys)

-----------------------------------------------------------------------------
(* The values the variables take.                                          *)
TypeOK ==
  /\ target \in Files /\ origin \in Files /\ held \subseteq Contents
  /\ stage \in [Uploads -> BOOLEAN]
  /\ backup \in [Uploads -> Files]
  /\ journal \in [Uploads -> {"none", "staged", "committed", "finalized",
                              "aborted", "rolled_back"}]
  /\ clock \in Nat /\ created \in [Uploads -> 0..clock] /\ todo \subseteq Uploads
  /\ \A k \in Keys : idem[k] = NoRequest \/ idem[k].content \in Contents
  /\ server \in {"up", "recovering", "refused"}
  /\ pc \in [Uploads -> {"idle", "staged", "committing", "refused", "unsure",
                         "settling", "recording", "marked", "cleaning", "undoing",
                         "undone", "done"}]
  /\ told \in [Uploads -> {"none", "ok", "conflict", "error", "lost"}]
  /\ doing \in {"none", "aborted", "rolled_back", "cleanup"}

(* A client that got 201 can repeat its request: the key is bound to what  *)
(* it sent, through crashes and recoveries (handler.ts, phase 3, before    *)
(* sendJsonResponse).                                                      *)
AckedIsRepeatable ==
  \A u \in Uploads : told[u] = "ok" => idem[req[u].key] = Hash(req[u])

(* The stored response never describes a transfer whose bytes did not      *)
(* reach the path: recovery records a key only for a file it saw there.    *)
RecordedWasApplied ==
  \A k \in Keys : idem[k] # NoRequest => idem[k].content \in held

AtRest == server = "up" /\ Open = {}

(* What the settled transfers left at the path: the bytes of the last one  *)
(* that was finalized.                                                     *)
LastFinalized ==
  LET done == {u \in Uploads : journal[u] = "finalized"}
      last == CHOOSE u \in done : \A v \in done : created[v] <= created[u]
  IN  IF done = {} THEN origin ELSE req[last].content

(* With uploads one at a time and a runtime that answers, a server that is *)
(* up again after a crash at any point has every transfer either applied   *)
(* and finalized or without any effect, and no settled transfer keeps a    *)
(* stage file.                                                             *)
CrashAtomic ==
  AtRest => /\ target = LastFinalized
            /\ \A u \in Uploads :
                 stage[u] => journal[u] \in {"none", "staged"}

-----------------------------------------------------------------------------
(* What comments and tests of the repository say and the code does not do. *)

(* "overwrite crash restores or finalizes according to target hash": once  *)
(* no transfer is unsettled, an overwrite has not emptied the path.        *)
OverwriteNeverEmpties ==
  origin # Absent /\ AtRest /\ (\A u \in Uploads : ~Pending(u))
    => target # Absent

(* "eliminates orphaned temporary files after process crashes": a recovery *)
(* that succeeded leaves neither a stage nor a backup behind.              *)
NoOrphans ==
  server = "up" /\ Open = {} =>
    \A u \in Uploads : ~stage[u] /\ backup[u] = Absent

(* "Deterministic, idempotent crash recovery": a recovery that is itself   *)
(* interrupted can be run again.  Only a transfer that ended in a conflict *)
(* is given up.                                                            *)
RecoveryIsIdempotent ==
  server = "refused" =>
    \E u \in Uploads : Pending(u) /\ told[u] = "conflict"

(* "resolves unfinalized physical files": a transfer refused with a        *)
(* conflict, whose stage was removed, does not refuse the next start.      *)
ConflictIsResolved ==
  server = "refused" =>
    \E u \in Uploads : Pending(u) /\ told[u] # "conflict"

(* "rollbackCommit then rolled_back only on success": the recovery is      *)
(* about to record rolled_back and the backup has been put back.           *)
RolledBackMeansRestored ==
  \A u \in Uploads :
    Visiting(u) /\ doing = "rolled_back" => backup[u] = Absent

(* "Rolls back a physical commit": its own, never the bytes of a later     *)
(* upload that was acknowledged.                                           *)
LaterUploadSurvives ==
  \A u \in Uploads :
    AtRest /\ created[u] = clock /\ told[u] = "ok" => target = req[u].content
=============================================================================
