------------------------------ MODULE EnvLock ------------------------------
(***************************************************************************)
(* The devnet environment lock of src/src/fiber/env-lock.ts.               *)
(*                                                                         *)
(* Every command that mutates the devnet environment (node --fiber, fiber  *)
(* start, fiber stop, fiber clean, clean) takes one lock file with         *)
(* open(..., 'wx'), writes its pid into it, works, and removes it.  A lock *)
(* left by a process that died is broken by the next acquirer.             *)
(*                                                                         *)
(* Each file-system call is one step, because another process may run      *)
(* between any two of them.  A command opens at most one lock file with    *)
(* success, so the creator names the inode: lockFile is the process whose  *)
(* inode is at the path, and recorded is the set of processes whose inode  *)
(* holds a readable record.  A write through a descriptor reaches its own  *)
(* inode even when that inode is no longer at the path.                    *)
(***************************************************************************)
EXTENDS Naturals, FiniteSets

CONSTANTS Procs,  \* the commands; each runs once and has a pid of its own
          None    \* no file at the path, or no pid read

ASSUME NoneAssumption == None \notin Procs

VARIABLES
  pc,        \* pc[p]: where command p is
  attempt,   \* attempt[p]: the iteration of the loop in acquireEnvLock, 1 or 2
  seen,      \* seen[p]: the pid p read from the lock file
  lockFile,  \* the inode at the path, named by its creator, or None
  recorded,  \* the inodes that hold a pid
  pidLive,   \* the pids for which kill(pid, 0) finds (or may hide) a process
  stolen,    \* history: an acquirer removed the file of a live owner
  overlapped,\* history: two commands were acquiring at the same time
  touched    \* touched[p]: history: while p acquired, another command created
             \* or removed the file

own     == <<attempt, seen>>               \* the local variables of a command
shared  == <<lockFile, recorded, pidLive>> \* what all commands see
history == <<stolen, overlapped, touched>>

vars == <<pc, own, shared, history>>

Acquiring == {"open", "read", "probe", "unlink", "write"}
Owning    == {"write", "held", "relread", "relunlink"}
Ended     == {"done", "refused", "lost", "ioError", "warned", "crashed"}

Max_Attempts_Mutant == 1

Max_Attempts == 2

-----------------------------------------------------------------------------
Holders == {p \in Procs : pc[p] = "held"}

Acquirers == {p \in Procs : pc[p] \in Acquiring}

(* Another command sees the path change while it acquires. *)
TouchedBy(p) ==
  [q \in Procs |-> touched[q] \/ (q # p /\ q \in Acquirers)]

Goto(p, label) == pc' = [pc EXCEPT ![p] = label]

LockRecord_Mutant == None

(* readLockRecord: the pid in the file at the path; a missing, empty or     *)
(* unreadable file identifies no holder.                                    *)
LockRecord == IF lockFile \in recorded THEN lockFile ELSE None

-----------------------------------------------------------------------------
Init ==
  /\ pc = [p \in Procs |-> "idle"]
  /\ attempt = [p \in Procs |-> 1]
  /\ seen = [p \in Procs |-> None]
  /\ lockFile = None
  /\ recorded = {}
  /\ pidLive = {}
  /\ stolen = FALSE
  /\ overlapped = FALSE
  /\ touched = [p \in Procs |-> FALSE]

(* A command starts and reaches acquireEnvLock. *)
Start(p) ==
  /\ pc[p] = "idle"
  /\ Goto(p, "open")
  /\ pidLive' = pidLive \cup {p}
  /\ overlapped' = (overlapped \/ Acquirers # {})
  /\ UNCHANGED <<own, lockFile, recorded, stolen, touched>>

(* Mutant: flag 'w' instead of 'wx'. *)
OpenCreates_Mutant(p) ==
  /\ pc[p] = "open"
  /\ lockFile' = p
  /\ Goto(p, "write")
  /\ touched' = TouchedBy(p)
  /\ UNCHANGED <<own, recorded, pidLive, stolen, overlapped>>

(* openSync(lockFile, 'wx') creates the file: p owns it from here on. *)
OpenCreates(p) ==
  /\ pc[p] = "open"
  /\ lockFile = None
  /\ lockFile' = p
  /\ Goto(p, "write")
  /\ touched' = TouchedBy(p)
  /\ UNCHANGED <<own, recorded, pidLive, stolen, overlapped>>

(* EEXIST: look at who holds it. *)
OpenExists(p) ==
  /\ pc[p] = "open"
  /\ lockFile # None
  /\ Goto(p, "read")
  /\ UNCHANGED <<own, shared, history>>

(* Any other error of openSync ends the command. *)
OpenFails(p) ==
  /\ pc[p] = "open"
  /\ Goto(p, "ioError")
  /\ UNCHANGED <<own, shared, history>>

(* An unreadable record is removed without a liveness check. *)
ReadRecord(p) ==
  /\ pc[p] = "read"
  /\ seen' = [seen EXCEPT ![p] = LockRecord]
  /\ Goto(p, IF LockRecord = None THEN "unlink" ELSE "probe")
  /\ UNCHANGED <<attempt, shared, history>>

(* Mutants: the holder is not looked at; the acquirer waits for the holder. *)
ProbeHolder_MutantBlind(p) ==
  /\ pc[p] = "probe"
  /\ Goto(p, "unlink")
  /\ UNCHANGED <<own, shared, history>>

ProbeHolder_MutantWaits(p) ==
  /\ pc[p] = "probe"
  /\ Goto(p, IF seen[p] \in pidLive THEN "open" ELSE "unlink")
  /\ UNCHANGED <<own, shared, history>>

(* isProcessAlive(record.pid); a pid that cannot be checked counts as live. *)
ProbeHolder(p) ==
  /\ pc[p] = "probe"
  /\ Goto(p, IF seen[p] \in pidLive THEN "refused" ELSE "unlink")
  /\ UNCHANGED <<own, shared, history>>

(* Mutant: the loop has no bound. *)
BreakLock_Mutant(p) ==
  /\ pc[p] = "unlink"
  /\ lockFile # None
  /\ lockFile' = None
  /\ stolen' = (stolen \/ pc[lockFile] \in Owning)
  /\ touched' = TouchedBy(p)
  /\ attempt' = [attempt EXCEPT ![p] = @ + 1]
  /\ Goto(p, "open")
  /\ UNCHANGED <<seen, recorded, pidLive, overlapped>>

(* unlinkSync(lockFile), then the next iteration of the loop, if any; the   *)
(* file that goes is whatever is at the path now.                           *)
BreakLock(p) ==
  /\ pc[p] = "unlink"
  /\ lockFile # None
  /\ lockFile' = None
  /\ stolen' = (stolen \/ pc[lockFile] \in Owning)
  /\ touched' = TouchedBy(p)
  /\ IF attempt[p] < Max_Attempts
       THEN /\ attempt' = [attempt EXCEPT ![p] = @ + 1]
            /\ Goto(p, "open")
       ELSE /\ UNCHANGED attempt
            /\ Goto(p, "lost")
  /\ UNCHANGED <<seen, recorded, pidLive, overlapped>>

(* ENOENT: "Failed to remove stale environment lock". *)
BreakFindsNothing(p) ==
  /\ pc[p] = "unlink"
  /\ lockFile = None
  /\ Goto(p, "lost")
  /\ UNCHANGED <<own, shared, history>>

(* Any other error of unlinkSync. *)
BreakFails(p) ==
  /\ pc[p] = "unlink"
  /\ lockFile # None
  /\ Goto(p, "ioError")
  /\ UNCHANGED <<own, shared, history>>

(* writeFileSync(fd, record): into p's own inode. *)
WriteRecord(p) ==
  /\ pc[p] = "write"
  /\ recorded' = recorded \cup {p}
  /\ Goto(p, "held")
  /\ UNCHANGED <<own, lockFile, pidLive, history>>

(* The write fails (disk full): the exception leaves the empty file behind. *)
WriteFails(p) ==
  /\ pc[p] = "write"
  /\ Goto(p, "ioError")
  /\ UNCHANGED <<own, shared, history>>

(* The command has finished its work and calls release(). *)
Release(p) ==
  /\ pc[p] = "held"
  /\ Goto(p, "relread")
  /\ UNCHANGED <<own, shared, history>>

(* Mutant: the pid in the file is not compared with this process's. *)
ReleaseRead_Mutant(p) ==
  /\ pc[p] = "relread"
  /\ Goto(p, IF LockRecord = None THEN "relunlink" ELSE "done")
  /\ UNCHANGED <<own, shared, history>>

(* The lock is deleted only if it records this process, or nobody. *)
ReleaseRead(p) ==
  /\ pc[p] = "relread"
  /\ Goto(p, IF LockRecord \in {None, p} THEN "relunlink" ELSE "done")
  /\ UNCHANGED <<own, shared, history>>

(* unlinkSync at release removes whatever is at the path now. *)
ReleaseUnlink(p) ==
  /\ pc[p] = "relunlink"
  /\ lockFile' = None
  /\ touched' = IF lockFile = None THEN touched ELSE TouchedBy(p)
  /\ Goto(p, "done")
  /\ UNCHANGED <<own, recorded, pidLive, stolen, overlapped>>

(* An unlink that fails at release is only logged: the lock stays behind.  *)
ReleaseFails(p) ==
  /\ pc[p] = "relunlink"
  /\ lockFile # None
  /\ Goto(p, "warned")
  /\ UNCHANGED <<own, shared, history>>

-----------------------------------------------------------------------------
(* The environment: a command is killed at any point before it has ended,   *)
(* an ended command exits, and the pid of a process that is gone may come   *)
(* to name an unrelated process for a while.                                *)
Crash(p) ==
  /\ pc[p] \in Acquiring \cup Owning
  /\ Goto(p, "crashed")
  /\ pidLive' = pidLive \ {p}
  /\ UNCHANGED <<own, lockFile, recorded, history>>

Exit(p) ==
  /\ pc[p] \in Ended
  /\ p \in pidLive
  /\ pidLive' = pidLive \ {p}
  /\ UNCHANGED <<pc, own, lockFile, recorded, history>>

RecyclePid(p) ==
  /\ pc[p] \in Ended
  /\ p \notin pidLive
  /\ pidLive' = pidLive \cup {p}
  /\ UNCHANGED <<pc, own, lockFile, recorded, history>>

-----------------------------------------------------------------------------
AcquireEnvLock(p) ==
  \/ OpenCreates(p) \/ OpenExists(p) \/ OpenFails(p)
  \/ ReadRecord(p) \/ ProbeHolder(p)
  \/ BreakLock(p) \/ BreakFindsNothing(p) \/ BreakFails(p)
  \/ WriteRecord(p) \/ WriteFails(p)

ReleaseEnvLock(p) ==
  \/ Release(p) \/ ReleaseRead(p) \/ ReleaseUnlink(p) \/ ReleaseFails(p)

Environment(p) == Start(p) \/ Crash(p) \/ Exit(p) \/ RecyclePid(p)

Next ==
  \E p \in Procs : AcquireEnvLock(p) \/ ReleaseEnvLock(p) \/ Environment(p)

Spec == Init /\ [][Next]_vars

(* A command inside acquireEnvLock runs: it makes synchronous calls only.   *)
FairSpec == Spec /\ \A p \in Procs : WF_vars(AcquireEnvLock(p))

(* The commands come one at a time: none enters acquireEnvLock while        *)
(* another is inside it.                                                    *)
SerialSpec == Init /\ [][Next /\ ~overlapped']_vars

-----------------------------------------------------------------------------
(* The variables keep their types. *)
TypeOK ==
  /\ pc \in [Procs -> {"idle"} \cup Acquiring \cup Owning \cup Ended]
  /\ attempt \in [Procs -> 1..Max_Attempts]
  /\ seen \in [Procs -> Procs \cup {None}]
  /\ lockFile \in Procs \cup {None}
  /\ recorded \subseteq Procs
  /\ pidLive \subseteq Procs
  /\ stolen \in BOOLEAN
  /\ overlapped \in BOOLEAN
  /\ touched \in [Procs -> BOOLEAN]

(* What the comment on acquireEnvLock promises (env-lock.ts:34): no command *)
(* gets the lock while another live command holds it.  The code does not    *)
(* keep it: see ExclusiveUnlessStolen and SerialUseIsExclusive for what     *)
(* does hold.                                                               *)
MutualExclusion == \A p, q \in Holders : p = q

(* Exclusion is lost in one way only: an acquirer that took the file for a  *)
(* stale or unreadable lock removed the file of a command that was alive    *)
(* and owned it.  In particular breaking truly stale locks, by any number   *)
(* of commands at once, and the removal at release are harmless.            *)
ExclusiveUnlessStolen == ~stolen => MutualExclusion

(* Two commands that are never inside acquireEnvLock at the same moment     *)
(* never hold the lock together, whatever crashes, failed writes and        *)
(* recycled pids came before.                                               *)
SerialUseIsExclusive == ~overlapped => MutualExclusion

(* A lock file stays behind its creator only if the creator was killed, its *)
(* record could not be written, or the unlink at release failed: a command  *)
(* that ends by itself, even one whose lock was broken and re-created by    *)
(* others, leaves no lock of its own at the path.                           *)
LeftoverNeedsCrash ==
  lockFile # None =>
    pc[lockFile] \in Owning \cup {"crashed", "ioError", "warned"}

(* The two attempts of the loop are enough: a command that gives up without *)
(* an I/O error and without having met a live holder was raced, that is,    *)
(* another command created or removed the file while it was acquiring.      *)
LostNeedsRace == \A p \in Procs : pc[p] = "lost" => touched[p]

(* acquireEnvLock always comes to an end, with the lock or without it, even  *)
(* while the holder never lets go: it refuses, it does not wait.            *)
AcquireEnds ==
  \A p \in Procs : pc[p] \in Acquiring ~> pc[p] \notin Acquiring

-----------------------------------------------------------------------------
(* A command as the abstract lock sees it. *)
Phase(p) ==
  CASE pc[p] = "idle"    -> "out"
    [] pc[p] \in Owning -> "holding"
    [] pc[p] \in Ended  -> "gone"
    [] OTHER            -> "asking"

phases == [p \in Procs |-> Phase(p)]

Lock == INSTANCE TryLock WITH phase <- phases

(* The lock file is a lock for commands that come one at a time, through    *)
(* crashes, failed writes, leftover files and recycled pids: SerialSpec     *)
(* implements TryLock.                                                      *)
TryLockPromise == Lock!Spec
=============================================================================
