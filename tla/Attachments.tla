---------------------------- MODULE Attachments ----------------------------
(***************************************************************************)
(* A message with an attachment: the file is copied to a snapshot named    *)
(* after its contents, the message is taken in once for its key, and a     *)
(* journal lets the next start tidy up after a crash.                      *)
(*   platform-server runtime/delivery-gateway.ts  dispatchInbound,         *)
(*        processInboundAttachments                                        *)
(*   platform-server storage/web-messages.ts      ingestWebDelivery,       *)
(*        computeCanonicalRequestHash                                      *)
(*   platform-server storage/attachment-snapshot-recovery.ts   recover     *)
(*   platform-server server/server.ts             start: recovery first    *)
(*   runtime-runner  runtime/file-ops.ts          copy                     *)
(* One space, one session, one attachment for each message, always of the  *)
(* same path.  A step runs from one wait to the next.                      *)
(***************************************************************************)
EXTENDS Naturals, FiniteSets

CONSTANTS
  Keys,         \* idempotency keys
  Calls,        \* requests, some of which repeat a key
  Contents,     \* what the file may contain (and its etag)
  None,         \* nothing
  Quoted,       \* the messages quote another one (replyToMessageId)
  LostReplies,  \* a copy may be made though the caller hears of a failure
  MaxChanges,   \* bound: times the file is changed or removed
  MaxRows,      \* bound: journal rows
  MaxCrashes    \* bound: crashes of the server

(* What a run assumes of the constants.                                    *)
AttachmentsAssumption ==
  /\ None \notin Contents \cup Keys /\ Contents # {}
  /\ Quoted \in BOOLEAN /\ LostReplies \in BOOLEAN
  /\ MaxChanges \in Nat /\ MaxRows \in Nat /\ MaxCrashes \in Nat

Rows == 1..MaxRows

VARIABLES
  file,     \* what the attached path contains now, or None
  snap,     \* snapshot name -> what is in it, or None
  row,      \* journal row -> snapshot name and status
  rows,     \* rows made so far
  etag,     \* key -> the etag its client attached
  msgs,     \* messages: key, the call that made it, the attachment's etag
  pc,       \* call -> where it is
  key,      \* call -> its key
  mine,     \* call -> the journal row it made, 0 if none
  copying,  \* calls whose copy runs in the container
  boot,     \* "up", or the row recovery has come to; "refused": not started
  bad,      \* the rows recovery cannot resolve
  active,   \* the session is active, not archived
  space,    \* so is its space
  skipped,  \* history: snapshots recovery left, their space being archived
  changes, crashes

disk == <<file, snap, copying>>
tables == <<row, rows, msgs>>
call == <<pc, key, mine>>
server == <<boot, bad, active, space, skipped>>
limits == <<changes, crashes>>
vars == <<file, snap, row, rows, etag, msgs, pc, key, mine, copying, boot, bad,
          active, space, skipped, changes, crashes>>

Init ==
  /\ file \in Contents /\ snap = [n \in Contents |-> None]
  /\ row = [j \in Rows |-> [name |-> None, st |-> "none"]] /\ rows = 0
  /\ etag = [k \in Keys |-> None] /\ msgs = {}
  /\ pc = [c \in Calls |-> "idle"] /\ key = [c \in Calls |-> None]
  /\ mine = [c \in Calls |-> 0] /\ copying = {}
  /\ boot = "up" /\ bad = {} /\ active = TRUE /\ space = TRUE /\ skipped = {}
  /\ changes = 0 /\ crashes = 0

Name(c) == etag[key[c]]

Goto(c, p) == pc' = [pc EXCEPT ![c] = p]

SetRow(j, s) == row' = [row EXCEPT ![j].st = s]

-----------------------------------------------------------------------------
(* Clients, and whoever edits the file.                                    *)

(* A session takes messages when it and its space are active.              *)
Takes == active /\ space

(* A key is made for the file as it is; a repetition sends the same.  An   *)
(* archived session takes nothing (dispatchInbound).                       *)
Send(c, k) ==
  /\ boot = "up" /\ pc[c] = "idle" /\ (etag[k] = None => file # None)
  /\ etag' = [etag EXCEPT ![k] = IF etag[k] = None THEN file ELSE etag[k]]
  /\ key' = [key EXCEPT ![c] = k]
  /\ Goto(c, IF Takes THEN "stat" ELSE "refused")
  /\ UNCHANGED <<disk, tables, mine, server, limits>>

Change ==
  /\ changes < MaxChanges /\ changes' = changes + 1
  /\ file' \in (Contents \cup {None}) \ {file}
  /\ UNCHANGED <<snap, tables, etag, call, copying, server, crashes>>

(* The session is archived: refused from now on.                           *)
Archive ==
  /\ boot = "up" /\ active /\ active' = FALSE
  /\ UNCHANGED <<disk, tables, etag, call, boot, bad, space, skipped, limits>>

(* The space is archived, and its sessions with it; it is restored alone.  *)
ArchiveSpace ==
  /\ boot = "up" /\ space /\ space' = FALSE /\ active' = FALSE
  /\ UNCHANGED <<disk, tables, etag, call, boot, bad, skipped, limits>>

RestoreSpace ==
  /\ boot = "up" /\ ~space /\ space' = TRUE
  /\ UNCHANGED <<disk, tables, etag, call, boot, bad, active, skipped, limits>>

(* The space was active when it was looked at, and a wait for the runtime  *)
(* lies between: it may have been archived since.                          *)
Restore ==
  /\ boot = "up" /\ ~active /\ active' = TRUE
  /\ UNCHANGED <<disk, tables, etag, call, boot, bad, space, skipped, limits>>

-----------------------------------------------------------------------------
(* processInboundAttachments.                                              *)

(* The file is there and has the etag the client named.                    *)
Stat(c) ==
  /\ pc[c] = "stat" /\ Goto(c, IF file = Name(c) THEN "look" ELSE "refused")
  /\ UNCHANGED <<disk, tables, etag, key, mine, server, limits>>

(* A snapshot of that name is used as it is; else a row and a copy.        *)
Look(c) ==
  /\ pc[c] = "look"
  /\ \/ /\ snap[Name(c)] # None /\ Goto(c, "preflight")
        /\ UNCHANGED <<row, rows, mine, copying>>
     \/ /\ snap[Name(c)] = None /\ rows < MaxRows
        /\ rows' = rows + 1 /\ mine' = [mine EXCEPT ![c] = rows + 1]
        /\ row' = [row EXCEPT ![rows + 1] = [name |-> Name(c),
                                             st |-> "staging"]]
        /\ copying' = copying \cup {c} /\ Goto(c, "copy")
  /\ UNCHANGED <<file, snap, etag, msgs, key, server, limits>>

(* The container copies what is there now; the rename is atomic.  The call *)
(* names no expected etag.                                                 *)
Copy(c) ==
  /\ c \in copying /\ file # None /\ copying' = copying \ {c}
  /\ snap' = [snap EXCEPT ![Name(c)] = file]
  /\ UNCHANGED <<file, tables, etag, call, server, limits>>

CopyReply(c) ==
  /\ pc[c] = "copy" /\ c \notin copying
  /\ SetRow(mine[c], "copied") /\ Goto(c, "preflight")
  /\ UNCHANGED <<disk, rows, etag, msgs, key, mine, server, limits>>

(* The copy fails, or is said to have failed.                              *)
CopyFails(c) ==
  /\ pc[c] = "copy" /\ SetRow(mine[c], "aborted") /\ Goto(c, "refused")
  /\ \/ c \in copying /\ file = None /\ copying' = copying \ {c}
     \/ LostReplies /\ UNCHANGED copying
  /\ UNCHANGED <<file, snap, rows, etag, msgs, key, mine, server, limits>>

-----------------------------------------------------------------------------
(* dispatchInbound and ingestWebDelivery.                                  *)

Existing(k) == {m \in msgs : m.key = k}

(* computeCanonicalRequestHash: of what was stored, and of what is asked.  *)
StoredHash(k) == [etag |-> etag[k], quote |-> FALSE]
IncomingHash(k) == [etag |-> etag[k], quote |-> Quoted]

(* The check before anything is stored.  Between it and the transaction a  *)
(* channel message may wait for the steering of a running turn.            *)
Preflight(c) ==
  /\ pc[c] = "preflight"
  /\ Goto(c, IF Existing(key[c]) = {} THEN "ingest"
             ELSE IF StoredHash(key[c]) = IncomingHash(key[c])
             THEN "duplicate" ELSE "refused")
  /\ UNCHANGED <<disk, tables, etag, key, mine, server, limits>>

(* Rows of a snapshot whose copy is known to be complete.                  *)
Linked(n) ==
  [j \in Rows |-> IF row[j].name = n /\ row[j].st = "copied"
                  THEN [row[j] EXCEPT !.st = "linked"] ELSE row[j]]

(* Mutant: the key is not looked up again under the lock.                  *)
IngestUnlocked(c) ==
  /\ pc[c] = "ingest" /\ Goto(c, "accepted") /\ row' = Linked(Name(c))
  /\ msgs' = msgs \cup {[key |-> key[c], by |-> c, etag |-> Name(c)]}
  /\ UNCHANGED <<disk, rows, etag, key, mine, server, limits>>

(* The session has been archived since, or another request was first.      *)
IngestNot(c) ==
  /\ pc[c] = "ingest" /\ (Takes => Existing(key[c]) # {})
  /\ Goto(c, IF Takes THEN "duplicate" ELSE "refused")
  /\ UNCHANGED <<disk, tables, etag, key, mine, server, limits>>

(* One transaction: the key, the message, its attachment, the turn, and    *)
(* the journal rows.                                                       *)
Ingest(c) ==
  /\ pc[c] = "ingest" /\ Takes /\ Existing(key[c]) = {}
  /\ Goto(c, "accepted") /\ row' = Linked(Name(c))
  /\ msgs' = msgs \cup {[key |-> key[c], by |-> c, etag |-> Name(c)]}
  /\ UNCHANGED <<disk, rows, etag, key, mine, server, limits>>

-----------------------------------------------------------------------------
(* A crash, and the recovery before the server listens again.              *)

Crash ==
  /\ boot # "refused" /\ crashes < MaxCrashes /\ crashes' = crashes + 1
  /\ boot' = "scan" /\ bad' = {}
  /\ pc' = [c \in Calls |-> IF pc[c] \in {"stat", "look", "copy", "preflight",
                                          "ingest"} THEN "lost" ELSE pc[c]]
  /\ copying' = IF LostReplies THEN copying ELSE {}
  /\ UNCHANGED <<file, snap, tables, etag, key, mine, active, space, skipped,
                 changes>>

Referenced(n) == \E m \in msgs : m.etag = n

(* hasOtherActiveJournalOrMessageRef.                                      *)
OtherActive(j) ==
  \E i \in Rows \ {j} : /\ row[i].name = row[j].name
                        /\ row[i].st \in {"staging", "copied", "linked"}

Pending == {j \in Rows : row[j].st \in {"staging", "copied"}}

(* Mutant: messages are not looked at.                                     *)
RecoverRowBlind(j) ==
  LET n == row[j].name
  IN  /\ IF snap[n] = None THEN SetRow(j, "aborted") /\ UNCHANGED snap
         ELSE SetRow(j, "cleaned") /\ snap' = [snap EXCEPT ![n] = None]
      /\ UNCHANGED bad

(* Mutant: an orphan is marked as one and left where it is.                *)
RecoverRowKeep(j) ==
  /\ SetRow(j, IF Referenced(row[j].name) THEN "linked" ELSE "orphaned")
  /\ UNCHANGED <<snap, bad>>

(* A row whose copy may or may not have been made.                         *)
RecoverStaging(j) ==
  LET n == row[j].name
  IN  /\ row[j].st = "staging"
      /\ \/ /\ snap[n] = None /\ SetRow(j, "aborted")
            /\ UNCHANGED <<snap, bad>>
         \/ /\ snap[n] \notin {None, n} /\ bad' = bad \cup {j}
            /\ UNCHANGED <<snap, row>>
         \/ /\ snap[n] = n /\ (Referenced(n) \/ OtherActive(j))
            /\ SetRow(j, IF Referenced(n) THEN "linked" ELSE "cleaned")
            /\ UNCHANGED <<snap, bad>>
         \/ /\ snap[n] = n /\ ~Referenced(n) /\ ~OtherActive(j)
            /\ SetRow(j, "cleaned") /\ snap' = [snap EXCEPT ![n] = None]
            /\ UNCHANGED bad

(* A row whose copy was made.  Nothing is done about the snapshot of a     *)
(* message that is missing or has other contents.                          *)
RecoverCopied(j) ==
  LET n == row[j].name
  IN  /\ row[j].st = "copied"
      /\ \/ /\ snap[n] \notin {None, n} \/ (snap[n] = None /\ Referenced(n))
            /\ bad' = bad \cup {j} /\ UNCHANGED <<snap, row>>
         \/ /\ snap[n] = n /\ Referenced(n)
            /\ SetRow(j, "linked") /\ UNCHANGED <<snap, bad>>
         \/ /\ ~Referenced(n)
            /\ snap[n] = None \/ (snap[n] = n /\ OtherActive(j))
            /\ SetRow(j, "cleaned") /\ UNCHANGED <<snap, bad>>
         \/ /\ snap[n] = n /\ ~Referenced(n) /\ ~OtherActive(j)
            /\ SetRow(j, "cleaned") /\ snap' = [snap EXCEPT ![n] = None]
            /\ UNCHANGED bad

RecoverRow(j) == RecoverStaging(j) \/ RecoverCopied(j)

(* The rows of an archived space are given up, and no snapshot of it is    *)
(* looked at: one that was copied stays for good.                          *)
SkipRow(j) ==
  /\ SetRow(j, "aborted")
  /\ skipped' = skipped \cup {n \in Contents : n = row[j].name /\ snap[n] # None}
  /\ UNCHANGED <<snap, bad>>

(* The pending rows, oldest first.  A row that cannot be resolved stays,   *)
(* the others are still resolved, and the start fails.                     *)
Recover ==
  /\ boot = "scan"
  /\ LET todo == Pending \ bad
     IN  \/ /\ todo # {} /\ UNCHANGED boot
            /\ LET oldest == CHOOSE j \in todo : \A i \in todo : j <= i
               IN  \/ space /\ RecoverRow(oldest) /\ UNCHANGED skipped
                   \/ ~space /\ SkipRow(oldest)
         \/ /\ todo = {} /\ boot' = IF bad = {} THEN "up" ELSE "refused"
            /\ UNCHANGED <<snap, row, bad, skipped>>
  /\ UNCHANGED <<file, rows, etag, msgs, call, copying, active, space, limits>>

-----------------------------------------------------------------------------
Step(c) ==
  \/ \E k \in Keys : Send(c, k)
  \/ Stat(c) \/ Look(c) \/ Copy(c) \/ CopyReply(c) \/ CopyFails(c)
  \/ Preflight(c) \/ IngestNot(c) \/ Ingest(c)

Next ==
  \/ Change \/ Archive \/ ArchiveSpace \/ RestoreSpace \/ Restore
  \/ Crash \/ Recover \/ \E c \in Calls : Step(c)

Spec == Init /\ [][Next]_vars

-----------------------------------------------------------------------------
TypeOK ==
  /\ file \in Contents \cup {None}
  /\ snap \in [Contents -> Contents \cup {None}]
  /\ row \in [Rows -> [name : Contents \cup {None},
                       st : {"none", "staging", "copied", "linked", "cleaned",
                             "aborted"}]]
  /\ rows \in 0..MaxRows /\ etag \in [Keys -> Contents \cup {None}]
  /\ msgs \subseteq [key : Keys, by : Calls, etag : Contents]
  /\ pc \in [Calls -> {"idle", "stat", "look", "copy", "preflight", "ingest",
                       "accepted", "duplicate", "refused", "lost"}]
  /\ copying \subseteq Calls /\ boot \in {"up", "scan", "refused"}
  /\ bad \subseteq Rows /\ active \in BOOLEAN /\ space \in BOOLEAN
  /\ skipped \subseteq Contents

(* One message, and one turn, for each key, however often and however      *)
(* concurrently it is sent (idempotency_records).                          *)
IngestedOnce == \A m, n \in msgs : m.key = n.key => m = n

(* No recovery deletes the snapshot of a message's attachment, also one    *)
(* that another request made ("Never deletes a content-addressed snapshot  *)
(* if ANY message ref or active journal exists").                          *)
AttachmentThere == \A m \in msgs : snap[m.etag] # None

(* When the server has started, the snapshots left are those of messages:  *)
(* what crashed requests copied is gone, except where a recovery found the *)
(* space archived and gave up the rows without looking ("skippedArchived", *)
(* attachment-snapshot-recovery.ts 413-438).                               *)
OrphansCollected ==
  boot = "scan" /\ boot' = "up" =>
    \A n \in Contents : snap'[n] # None => Referenced(n) \/ n \in skipped

(* "Refcount-aware & Dedup-aware: Never deletes a content-addressed        *)
(* snapshot" (attachment-snapshot-recovery.ts:28): a snapshot has the      *)
(* contents its name says, and the attachment of a message those its       *)
(* client saw.                                                             *)
ContentAddressed == \A n \in Contents : snap[n] \in {None, n}

(* "When an idempotent message is submitted again, the processed response  *)
(* payload is returned directly" (docs/management-console.md:428): the     *)
(* repetition of a request that was accepted is not refused.               *)
RepetitionAnswered ==
  [][\A c \in Calls :
        Takes /\ pc[c] \notin {"idle", "refused"} /\ Existing(key[c]) # {}
        => pc'[c] # "refused"]_vars
=============================================================================
