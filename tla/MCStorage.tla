----------------------------- MODULE MCStorage ------------------------------
(***************************************************************************)
(* Model-checking module for what the server keeps in its database and its *)
(* files: quota ledger, attachments of messages, uploads, generations of a *)
(* session, forks, origins of turns.  They share no state, so a run checks *)
(* them side by side, as in MCServer: part says which instance a behaviour *)
(* is about, and the variables of the others are 0 throughout.             *)
(***************************************************************************)
EXTENDS Integers, Sequences

CONSTANTS
  Parts, None,                     \* the instances of the run; nothing
  Turns, Turn, Keys, Key,          \* turns, one of them; keys, one of them
  Calls, Callers, Contents,        \* calls of requests, more of them; contents of files
  MaxGen, MaxCorrupt, MaxRestores,                       \* generations
  Forks, Lone, MaxResets, MaxCancels, MaxFaults, MaxCrashes,  \* forks, one of them
  MaxChanges, MaxRows, MaxStops,                         \* attachments
  Uploads, MaxOpen,                                      \* uploads
  Platform, Children, Jobs, Restarts, MaxTurn            \* turns of users, children

VARIABLES
  part,  \* the instance that moves
  now, limit, resetAt, window, quotaUsed, bundle, item, single, sets,
  charges, given, debt,
  file, snap, row, rows, etag, attachMsgs, attachPc, attachKey, mine,
  copying, boot, bad, attachActive, attachSpace, skipped, changes,
  attachCrashes,
  target, stage, backup, journal, created, clock, idem, server, uploadPc, req,
  told, todo, doing, failed, uploadCrashes, uploadFaults, origin, held,
  sessionSpace, status, gen, dsh, genRow, sessionUsed, files, sessionHist,
  damage, place, run, at, ran, lease, flag, call, restoring, restores, kept, done,
  answer,
  turn, forkMsgs, forkGen, forkHist, when, forkSpace, op, forkKey, from, plan,
  src, forkPc, seed, dst, route, keyRow, up, forkFaults, forkCrashes,
  agent, kids, task, originActive, auto, intMap, pend, origins, store, jobs,
  frames, replies, left

quotaVars == <<now, limit, resetAt, window, quotaUsed, bundle, item, single,
               sets, charges, given, debt>>
attachVars == <<file, snap, row, rows, etag, attachMsgs, attachPc, attachKey,
                mine, copying, boot, bad, attachActive, attachSpace, skipped,
                changes, attachCrashes>>
uploadVars == <<target, stage, backup, journal, created, clock, idem,
                server, uploadPc, req, told, todo, doing, failed, uploadCrashes,
                uploadFaults, origin, held>>
sessionVars == <<sessionSpace, status, gen, dsh, genRow, sessionUsed, files,
                 sessionHist, damage, place, run, at, ran, lease, flag, call,
                 restoring, restores, kept, done, answer>>
forkVars == <<turn, forkMsgs, forkGen, forkHist, when, forkSpace, op, forkKey,
              from, plan, src, forkPc, seed, dst, route, keyRow, up, forkFaults, forkCrashes>>
originVars == <<agent, kids, task, originActive, auto, intMap, pend, origins,
                store, jobs, frames, replies, left>>
vars == <<part, quotaVars, attachVars, uploadVars, sessionVars, forkVars,
          originVars>>

-----------------------------------------------------------------------------
(* The quota ledger: two bundles over a window that begins anew, and a     *)
(* reservation of one metric beside a bundle, with sweeps of server starts.*)
Bundles == INSTANCE QuotaLedger WITH
  Deliveries <- {"d1", "d2"}, Singles <- {}, Hard <- {"turns"},
  Tokens <- "tokens", Other <- {}, Amounts <- {1, 2}, Estimates <- {TRUE},
  Limits <- {1}, Windows <- {2}, BundleTtl <- 2, SingleTtl <- 1,
  RenewTtl <- 1, MaxTime <- 3, MaxUsed <- 3, MaxSets <- 2, Restarts <- FALSE,
  used <- quotaUsed
Ledger == INSTANCE QuotaLedger WITH
  Deliveries <- {"d1"}, Singles <- {"r1"}, Hard <- {"turns"},
  Tokens <- "tokens", Other <- {"api_calls"}, Amounts <- {1},
  Estimates <- {TRUE}, Limits <- {1}, Windows <- {2}, BundleTtl <- 2,
  SingleTtl <- 1, RenewTtl <- 1, MaxTime <- 2, MaxUsed <- 2, MaxSets <- 3,
  Restarts <- TRUE, used <- quotaUsed

(* The components about which StorageTheorems proves.  First: repeated     *)
(* requests with attachments while the file changes and replies are lost   *)
(* (part "repeating"), uploads to one path one at a time, with crashes, of *)
(* the recovery too ("crashing"), and origins of turns, where children     *)
(* report between the turns of users ("origins").  Second: more requests   *)
(* with attachments and crashes ("attaching"), uploads at the same time,   *)
(* with calls and writes that fail ("faulting"), and requests to fork a    *)
(* session with one turn ("forking").  Third: recovery of a session asked  *)
(* for at any time ("generations"), and one request to fork a session with *)
(* more turns ("copying"), with faults of the runtime and of the files,    *)
(* and crashes.                                                            *)
(* Fourth: recovery of a blocked session, with resets and restores         *)
(* ("recovering").                                                         *)
First == INSTANCE StorageTheorems WITH
  Quoted <- TRUE, LostReplies <- TRUE, MaxOpen <- 1, MaxFaults <- 0,
  Anytime <- FALSE, Overlap <- FALSE
Second == INSTANCE StorageTheorems WITH
  Keys <- Key, Calls <- Callers, Quoted <- FALSE, LostReplies <- FALSE,
  MaxChanges <- 0, Turns <- Turn, Anytime <- FALSE, Overlap <- FALSE
Third == INSTANCE StorageTheorems WITH
  Keys <- Key, Anytime <- TRUE, Forks <- Lone, Quoted <- FALSE,
  LostReplies <- FALSE, Overlap <- FALSE
Fourth == INSTANCE StorageTheorems WITH
  Keys <- Key, Anytime <- FALSE, MaxGen <- MaxGen + 1, MaxCorrupt <- MaxCorrupt + 1,
  Quoted <- FALSE, LostReplies <- FALSE, Overlap <- FALSE

ASSUME StorageAssumption ==
  /\ Bundles!LedgerAssumption /\ Ledger!LedgerAssumption
  /\ First!Attach!AttachmentsAssumption /\ Second!Attach!AttachmentsAssumption
  /\ First!Upload!FTAssumption /\ Second!Upload!FTAssumption
  /\ Third!Life!SessionLifecycleAssumption /\ Fourth!Life!SessionLifecycleAssumption
  /\ Second!Fork!SessionForksAssumption /\ Third!Fork!SessionForksAssumption
  /\ First!Orig!OriginsAssumption /\ \A c, d \in Jobs : c = d

-----------------------------------------------------------------------------
quotaOff ==
  /\ now = 0 /\ limit = 0 /\ resetAt = 0 /\ window = 0 /\ quotaUsed = 0
  /\ bundle = 0 /\ item = 0 /\ single = 0 /\ sets = 0 /\ charges = 0
  /\ given = 0 /\ debt = 0
attachOff ==
  /\ file = 0 /\ snap = 0 /\ row = 0 /\ rows = 0 /\ etag = 0
  /\ attachMsgs = 0 /\ attachPc = 0 /\ attachKey = 0 /\ mine = 0
  /\ copying = 0 /\ boot = 0 /\ bad = 0 /\ attachActive = 0 /\ attachSpace = 0
  /\ skipped = 0 /\ changes = 0
  /\ attachCrashes = 0
uploadOff ==
  /\ target = 0 /\ stage = 0 /\ backup = 0 /\ journal = 0 /\ created = 0
  /\ clock = 0
  /\ idem = 0 /\ server = 0 /\ uploadPc = 0 /\ req = 0 /\ told = 0
  /\ todo = 0 /\ doing = 0 /\ failed = 0 /\ uploadCrashes = 0
  /\ uploadFaults = 0 /\ origin = 0 /\ held = 0
sessionOff ==
  /\ sessionSpace = 0 /\ status = 0 /\ gen = 0 /\ dsh = 0 /\ genRow = 0
  /\ sessionUsed = 0 /\ files = 0 /\ sessionHist = 0 /\ damage = 0 /\ place = 0
  /\ run = 0 /\ at = 0 /\ ran = 0 /\ lease = 0 /\ flag = 0 /\ call = 0
  /\ restoring = 0 /\ restores = 0 /\ kept = 0 /\ done = 0 /\ answer = 0
forkOff ==
  /\ turn = 0 /\ forkMsgs = 0 /\ forkGen = 0 /\ forkHist = 0 /\ when = 0
  /\ forkSpace = 0 /\ op = 0 /\ src = 0
  /\ forkKey = 0 /\ from = 0 /\ plan = 0 /\ forkPc = 0 /\ seed = 0
  /\ dst = 0 /\ route = 0 /\ keyRow = 0 /\ up = 0 /\ forkFaults = 0
  /\ forkCrashes = 0
originOff ==
  /\ agent = 0 /\ kids = 0 /\ task = 0 /\ originActive = 0 /\ auto = 0
  /\ intMap = 0 /\ pend = 0 /\ origins = 0 /\ store = 0 /\ jobs = 0
  /\ frames = 0 /\ replies = 0 /\ left = 0

(* The others are left out of the state.                                   *)
Init ==
  /\ part \in Parts
  /\ \/ part = "bundles" /\ Bundles!Init
     \/ part = "ledger" /\ Ledger!Init
     \/ part \notin {"bundles", "ledger"} /\ quotaOff
  /\ \/ part = "repeating" /\ First!Attach!Init
     \/ part = "attaching" /\ Second!Attach!Init
     \/ part \notin {"repeating", "attaching"} /\ attachOff
  /\ \/ part = "crashing" /\ First!Upload!Init
     \/ part = "faulting" /\ Second!Upload!Init
     \/ part \notin {"crashing", "faulting"} /\ uploadOff
  /\ \/ part = "generations" /\ Third!Life!Init
     \/ part = "recovering" /\ Fourth!Life!Init
     \/ part \notin {"generations", "recovering"} /\ sessionOff
  /\ \/ part = "forking" /\ Second!Fork!Init
     \/ part = "copying" /\ Third!Fork!Init
     \/ part \notin {"forking", "copying"} /\ forkOff
  /\ \/ part = "origins" /\ First!Orig!Init
     \/ part \notin {"origins"} /\ originOff

Next ==
  \/ /\ \/ part = "bundles" /\ Bundles!Next
        \/ part = "ledger" /\ Ledger!Next
     /\ UNCHANGED <<part, attachVars, uploadVars, sessionVars, forkVars,
                    originVars>>
  \/ /\ \/ part = "repeating" /\ First!Attach!Next
        \/ part = "attaching" /\ Second!Attach!Next
     /\ UNCHANGED <<part, quotaVars, uploadVars, sessionVars, forkVars,
                    originVars>>
  \/ /\ \/ part = "crashing" /\ First!Upload!Next
        \/ part = "faulting" /\ Second!Upload!Next
     /\ UNCHANGED <<part, quotaVars, attachVars, sessionVars, forkVars,
                    originVars>>
  \/ /\ \/ part = "generations" /\ Third!Life!Next
        \/ part = "recovering" /\ Fourth!Life!Next
     /\ UNCHANGED <<part, quotaVars, attachVars, uploadVars, forkVars,
                    originVars>>
  \/ /\ \/ part = "forking" /\ Second!Fork!Next
        \/ part = "copying" /\ Third!Fork!Next
     /\ UNCHANGED <<part, quotaVars, attachVars, uploadVars, sessionVars,
                    originVars>>
  \/ /\ part = "origins" /\ First!Orig!Next
     /\ UNCHANGED <<part, quotaVars, attachVars, uploadVars, sessionVars,
                    forkVars>>

Spec == Init /\ [][Next]_vars

-----------------------------------------------------------------------------
(* Reservations of quota (quota-ledger-repo.ts): a reserved bundle has all *)
(* its reservations, a delivery is charged once and what was released is   *)
(* not charged, hard metrics stay within the limit, and settled rows stay  *)
(* settled, though commits, releases, renewals, sweeps and window resets   *)
(* come in any order.                                                      *)
LedgerSettles ==
  [][/\ part = "bundles" =>
          /\ Bundles!ReservedBundleIsWhole' /\ Bundles!ChargedOnce'
          /\ Bundles!ChargeWithinLimit /\ Bundles!SettledForGood
     /\ part = "ledger" => Ledger!SettledForGood /\ Ledger!TypeOK']_vars

(* A message with an attachment is stored once for its idempotency key,    *)
(* and the snapshot it refers to is there, also when the request crashed   *)
(* and was repeated; a start of the server removes the snapshots crashed   *)
(* requests left (delivery-gateway.ts, attachment-snapshot-recovery.ts).   *)
AttachedOnce ==
  [][/\ part = "repeating" => First!Attach!IngestedOnce' /\ First!Attach!AttachmentThere'
     /\ part = "attaching" => /\ Second!Attach!TypeOK' /\ Second!Attach!IngestedOnce'
                              /\ Second!Attach!AttachmentThere'
                              /\ Second!Attach!OrphansCollected]_vars

(* An upload is applied and finalized or has no effect, though the server  *)
(* crashes at any step, in its recovery too; an acknowledged one can be    *)
(* repeated; and a recorded response tells of bytes that reached the path. *)
UploadsAtomic ==
  /\ part = "crashing" => First!Upload!CrashAtomic
  /\ part = "faulting" => /\ Second!Upload!TypeOK /\ Second!Upload!AckedIsRepeatable
                          /\ Second!Upload!RecordedWasApplied

(* The generation of the session row, of the route and of the runtime      *)
(* agree, an archived session has no turn at work, and the history of a    *)
(* recovered session still has its completed turns (session lifecycle).    *)
GenerationsHold ==
  /\ part = "generations" => Third!Life!GenerationsHold
  /\ part = "recovering" => Fourth!Life!GenerationsHold

(* A fork is made once for its idempotency key, a forked session that can  *)
(* be opened has its history, and no journal row is stuck once the server  *)
(* has recovered (session forks).                                          *)
ForksComplete ==
  /\ part = "forking" => Second!Fork!ForksComplete
  /\ part = "copying" => Third!Fork!ForksComplete

(* Frames of the agent's own turns: each turn begins and ends under one    *)
(* id, and a turn started by a child's report names that child and the     *)
(* turn it came from, after a restart too (turn correlation of the relay). *)
OriginsTrue ==
  part = "origins" => /\ First!Orig!TypeOK /\ First!Orig!OneTurnOneId
                       /\ First!Orig!CauseIsTrue /\ First!Orig!OriginKnown
=============================================================================
