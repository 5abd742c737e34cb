---------------------------- MODULE SessionLock ----------------------------
(***************************************************************************)
(* The lock file of a session, taken by the runtime daemon and by one-shot *)
(* runtime processes.                                                      *)
(*   runtime-runner runtime/session-lock.ts   acquireSessionLock, release, *)
(*        inspectExistingLock, cleanupStaleLock                            *)
(* Each system call is a step.  Inode numbers are not used again; where a  *)
(* file system does that, comparing them tells less.                       *)
(***************************************************************************)
EXTENDS Naturals

CONSTANTS
  Procs,      \* processes that want the lock of one session
  None,       \* no file
  MaxOpens,   \* bound: lock files ever made
  MaxDeaths   \* bound: processes that are killed

LockFiles == [ino : Nat, by : Procs, full : BOOLEAN, old : BOOLEAN]

(* What a run assumes of the constants.                                    *)
SessionLockAssumption == MaxOpens \in Nat /\ MaxDeaths \in Nat /\ None \notin LockFiles

VARIABLES
  file,    \* the lock file: its inode, its maker, whether the payload is in
           \* it, whether it has been empty for 3 seconds
  pc,      \* process -> where it is
  mine,    \* process -> the inode of the file it made
  seen,    \* process -> the inode it found to be stale
  opens, deaths

vars == <<file, pc, mine, seen, opens, deaths>>

To(v, p, x) == v' = [v EXCEPT ![p] = x]

Init ==
  /\ file = None /\ pc = [p \in Procs |-> "idle"]
  /\ mine = [p \in Procs |-> 0] /\ seen = [p \in Procs |-> 0]
  /\ opens = 0 /\ deaths = 0

-----------------------------------------------------------------------------
(* acquireSessionLock.                                                     *)

Acquire(p) ==
  /\ pc[p] = "idle" /\ To(pc, p, "open")
  /\ UNCHANGED <<file, mine, seen, opens, deaths>>

NewFile(p) == [ino |-> opens + 1, by |-> p, full |-> FALSE, old |-> FALSE]

(* Mutant: O_EXCL left out.                                                *)
OpenShared(p) ==
  /\ pc[p] = "open" /\ opens < MaxOpens
  /\ To(pc, p, "write") /\ To(mine, p, opens + 1) /\ opens' = opens + 1
  /\ file' = NewFile(p)
  /\ UNCHANGED <<seen, deaths>>

(* O_CREAT | O_EXCL, or EEXIST.                                            *)
Open(p) ==
  /\ pc[p] = "open"
  /\ \/ /\ file = None /\ opens < MaxOpens
        /\ file' = NewFile(p) /\ opens' = opens + 1
        /\ To(mine, p, opens + 1) /\ To(pc, p, "write")
     \/ /\ file # None /\ To(pc, p, "inspect")
        /\ UNCHANGED <<file, opens, mine>>
  /\ UNCHANGED <<seen, deaths>>

(* The payload goes to the file that was opened, wherever its name is now. *)
Write(p) ==
  /\ pc[p] = "write" /\ To(pc, p, "held")
  /\ file' = IF file = None THEN None
             ELSE [file EXCEPT !.full = file.full \/ file.ino = mine[p]]
  /\ UNCHANGED <<mine, seen, opens, deaths>>

(* Mutant: a file without a payload is stale at once.                      *)
StaleEmpty(f) == IF f.full THEN pc[f.by] = "dead" ELSE TRUE

(* The process that made the file is gone, or never wrote to it.           *)
Stale(f) == IF f.full THEN pc[f.by] = "dead" ELSE f.old

Inspect(p) ==
  /\ pc[p] = "inspect"
  /\ IF (IF file = None THEN TRUE ELSE ~Stale(file))
     THEN To(pc, p, "wait") /\ UNCHANGED seen
     ELSE To(pc, p, "lstat") /\ To(seen, p, file.ino)
  /\ UNCHANGED <<file, mine, opens, deaths>>

(* 50 ms later, or past the deadline.                                      *)
Retry(p) ==
  /\ pc[p] = "wait" /\ To(pc, p, "open")
  /\ UNCHANGED <<file, mine, seen, opens, deaths>>

Timeout(p) ==
  /\ pc[p] = "wait" /\ To(pc, p, "busy")
  /\ UNCHANGED <<file, mine, seen, opens, deaths>>

(* cleanupStaleLock: the inode is compared, then the name is removed.      *)
Lstat(p) ==
  /\ pc[p] = "lstat"
  /\ To(pc, p, IF file = None THEN "open"
               ELSE IF file.ino = seen[p] THEN "unlink" ELSE "open")
  /\ UNCHANGED <<file, mine, seen, opens, deaths>>

Unlink(p) ==
  /\ pc[p] = "unlink" /\ file' = None /\ To(pc, p, "open")
  /\ UNCHANGED <<mine, seen, opens, deaths>>

-----------------------------------------------------------------------------
(* release, and the end of a process.                                      *)

Release(p) ==
  /\ pc[p] = "held"
  /\ To(pc, p, IF file = None THEN "idle"
               ELSE IF file.ino = mine[p] THEN "release" ELSE "idle")
  /\ UNCHANGED <<file, mine, seen, opens, deaths>>

ReleaseUnlink(p) ==
  /\ pc[p] = "release" /\ file' = None /\ To(pc, p, "idle")
  /\ UNCHANGED <<mine, seen, opens, deaths>>

Die(p) ==
  /\ deaths < MaxDeaths /\ deaths' = deaths + 1
  /\ pc[p] # "dead" /\ To(pc, p, "dead")
  /\ UNCHANGED <<file, mine, seen, opens>>

(* Three seconds pass: a living process has written its payload by then.   *)
EmptyAges ==
  /\ IF file = None THEN FALSE ELSE ~file.full /\ ~file.old /\ pc[file.by] # "write"
  /\ file' = [file EXCEPT !.old = TRUE]
  /\ UNCHANGED <<pc, mine, seen, opens, deaths>>

Step(p) ==
  \/ Open(p) \/ Write(p) \/ Inspect(p) \/ Retry(p) \/ Lstat(p) \/ Unlink(p)
  \/ Release(p) \/ ReleaseUnlink(p)

Next ==
  \/ \E p \in Procs : Acquire(p) \/ Step(p) \/ Timeout(p) \/ Die(p)
  \/ EmptyAges

Spec == Init /\ [][Next]_vars

(* A living process goes on, and its five seconds end if it has to wait    *)
(* again and again.                                                        *)
FairSpec ==
  Spec /\ WF_vars(EmptyAges)
       /\ \A p \in Procs : WF_vars(Step(p)) /\ SF_vars(Timeout(p))

-----------------------------------------------------------------------------
Holding(p) == pc[p] \in {"held", "release"}

(* One process at a time works on the session's history.                   *)
MutualExclusion == \A p, q \in Procs : Holding(p) /\ Holding(q) => p = q

(* The file of the process that has the lock is in its place until that    *)
(* process removes it: nobody takes it for a stale one.                    *)
HolderKeepsFile ==
  \A p \in Procs : Holding(p) => IF file = None THEN FALSE ELSE file.ino = mine[p]

OneHolder == MutualExclusion /\ HolderKeepsFile

(* A process that asks for the lock gets it or is told that the session is *)
(* busy: a stale file never keeps it in the loop, which takes no break     *)
(* and looks at no deadline as long as it finds one.                       *)
AcquireEnds ==
  \A p \in Procs :
    pc[p] = "open" ~> pc[p] \in {"held", "busy", "dead"} \/ opens = MaxOpens

(* "Safely unlinks a stale lockfile while verifying dev and ino to avoid   *)
(* TOCTOU races": the lock stays exclusive when the file of a dead process *)
(* is found by two others.                                                 *)
ExclusiveAfterCleanup == MutualExclusion
=============================================================================
