------------------------------ MODULE FiberEnv ------------------------------
(***************************************************************************)
(* The commands that start, stop and clean the Fiber side of the devnet,   *)
(* as processes that share files: offckb fiber start, with and without     *)
(* --daemon, node --fiber, fiber stop, clean and fiber clean               *)
(* (src/src/cmd/fiber.ts, src/src/cmd/clean.ts, src/src/fiber).            *)
(*                                                                         *)
(* A manager holds the environment lock until its FNNs are ready, and is   *)
(* known afterwards by runtime.json; a daemon's manager also by its PID    *)
(* file.  fiber stop and the clean commands hold the lock while they work; *)
(* the launcher of a daemon does not take it.  The lock is TryLock: that   *)
(* env-lock.ts is less than that is the subject of EnvLock.                *)
(***************************************************************************)
EXTENDS PidFile, Naturals, FiniteSets

CONSTANTS
  Foregrounds, \* managers without a launcher of fiber start --daemon
  Stoppers,    \* fiber stop
  Cleaners,    \* clean and fiber clean
  MaxCommands  \* bound: so many commands are begun in one behaviour

(* A process runs one command, and is none of the markers.                  *)
ASSUME CommandAssumption ==
  /\ Launchers \cap Foregrounds = {}
  /\ (Launchers \cup Foregrounds) \cap (Stoppers \cup Cleaners) = {}
  /\ Stoppers \cap Cleaners = {}
  /\ {OldPid, NoPid} \cap (Launchers \cup Foregrounds) = {}

Managers == Launchers \cup Foregrounds
Commands == Managers \cup Stoppers \cup Cleaners

VARIABLES
  phase,      \* the environment lock
  nodeDaemon, \* the foreground managers that daemon.pid of the CKB node names
  mpc,        \* mpc[m]: where the manager m is
  fnn,        \* fnn[m]: its FNNs, as one
  pending,    \* managers with a signal their event loop has not seen
  runtime,    \* runtime.json
  lpc,        \* lpc[l]: where the launcher l is in startFiberDaemon
  lrec,       \* lrec[l]: the PID record it read
  spc,        \* spc[s]: where s is in stopFiber
  srec,       \* srec[s]: the PID record s read
  target,     \* target[s]: the manager s stops
  cpc,        \* cpc[c]: where the cleaner c is
  oldLive,    \* an unrelated process has the pid of an earlier session
  lost,       \* history: managers whose record another one's stop removed
  killed,     \* history: managers that died without their own cleanup
  unrecorded  \* history: managers that could not write runtime.json

Lock == INSTANCE TryLock WITH Procs <- Commands

manager  == <<mpc, fnn, pending>>
launcher == <<lpc, lrec>>
stopper  == <<spc, srec, target>>
external == <<nodeDaemon, oldLive>>
deaths   == <<killed, unrecorded>>
history  == <<lost, deaths>>
vars     == <<phase, external, manager, runtime, pidFile, launcher, stopper, cpc,
              history>>

(* Before the handlers; with the handlers of the startup; of supervision.   *)
Preparing    == {"lock", "prep", "check", "ports"}
Starting     == {"spawn", "record", "starting"}
Supervising  == {"supervise"}
Leaving      == {"abandon", "stopping", "drop", "cleanpid"}
Unhandled    == Preparing \cup {"ready", "stray"}
ManagerLive  == Unhandled \cup Starting \cup Supervising \cup Leaving
LWorking     == {"read", "probe", "cleanup", "reserve", "write", "spawn", "record",
                 "wait", "confirm", "abort", "abortWait", "abortClean"}
LEnded       == {"refused", "failed", "preserved", "success", "broken", "killed"}
SWorking     == {"read", "probe", "cleanStale", "runtime", "dropStale", "term",
                 "wait", "kill", "confirm", "cleanpid", "dropRuntime"}
SEnded       == {"refused", "none", "foreground", "unconfirmed", "stopped"}
Removing     == {"removeStores", "removeTree"}
CWorking     == {"runtime1", "pid1", "stores1", "prompt", "runtime2", "pid2",
                 "stores2", "dropStale"} \cup Removing
CEnded       == {"refused", "cleaned"}

FnnLive == {"spawned", "open"}

(* runtime.json: the manager it names, or NoPid.  OldPid stands for the     *)
(* manager of an earlier session.                                           *)
Runtime(who, status) == [manager |-> who, status |-> status]
NoRuntime == Runtime(NoPid, "none")

-----------------------------------------------------------------------------
(* isProcessAlive, of the manager in runtime.json and of a PID record.      *)
ManagerAlive(m) == IF m = OldPid THEN oldLive ELSE mpc[m] \in ManagerLive

RuntimeLive == runtime # NoRuntime /\ ManagerAlive(runtime.manager)

PidAlive(pid) ==
  \/ pid = OldPid /\ oldLive
  \/ \E l \in Launchers :
       \/ pid = DaemonPid(l) /\ mpc[l] \in ManagerLive
       \/ pid = LauncherPid(l) /\ lpc[l] \in LWorking

(* isStoreLockHeld: an FNN has its store open. *)
StoreHeld == \E m \in Managers : fnn[m] = "open"

MGoto(m, label) == mpc' = [mpc EXCEPT ![m] = label]
LGoto(l, label) == lpc' = [lpc EXCEPT ![l] = label]
SGoto(s, label) == spc' = [spc EXCEPT ![s] = label]
CGoto(c, label) == cpc' = [cpc EXCEPT ![c] = label]
Fnn(m, state)   == fnn' = [fnn EXCEPT ![m] = state]

(* A process that ends leaves the lock: released, or broken by the next.    *)
LeavesLock(p) ==
  phase' = IF phase[p] = "out" THEN phase ELSE [phase EXCEPT ![p] = "gone"]

Init ==
  /\ phase = [p \in Commands |-> "out"]
  /\ nodeDaemon \in SUBSET Foregrounds
  /\ mpc = [m \in Managers |-> "idle"]
  /\ fnn = [m \in Managers |-> "none"]
  /\ pending = {}
  /\ runtime \in {NoRuntime, Runtime(OldPid, "starting"), Runtime(OldPid, "running")}
  /\ pidFile \in LeftoverFiles
  /\ lpc = [l \in Launchers |-> "idle"]
  /\ lrec = [l \in Launchers |-> NoRecord]
  /\ spc = [s \in Stoppers |-> "idle"]
  /\ srec = [s \in Stoppers |-> NoRecord]
  /\ target = [s \in Stoppers |-> NoPid]
  /\ cpc = [c \in Cleaners |-> "idle"]
  /\ oldLive \in BOOLEAN
  /\ lost = {}
  /\ killed = {}
  /\ unrecorded = {}

(* The commands that were begun; the child of a launcher is not one.        *)
Begun ==
  {f \in Foregrounds : mpc[f] # "idle"} \cup {l \in Launchers : lpc[l] # "idle"}
    \cup {p \in Stoppers \cup Cleaners : phase[p] # "out"}

MayBegin == Cardinality(Begun) < MaxCommands

-----------------------------------------------------------------------------
(* The manager: fiberStart, startFiberEnvironment, superviseFiberNodes *)

MUnchanged == UNCHANGED <<external, pidFile, launcher, stopper, cpc, history>>

(* The child of a launcher starts with its spawn, the others by themselves. *)
ManagerBegins(f) ==
  /\ MayBegin
  /\ mpc[f] = "idle"
  /\ Lock!Ask(f)
  /\ MGoto(f, "lock")
  /\ UNCHANGED <<fnn, pending, runtime>> /\ MUnchanged

ManagerLocks(m) ==
  /\ mpc[m] = "lock"
  /\ Lock!Grant(m)
  /\ MGoto(m, "prep")
  /\ UNCHANGED <<fnn, pending, runtime>> /\ MUnchanged

(* The CKB environment is checked and the FNN binary found or downloaded.   *)
ManagerPrepares(m) ==
  /\ mpc[m] = "prep"
  /\ MGoto(m, "check")
  /\ UNCHANGED <<phase, fnn, pending, runtime>> /\ MUnchanged

(* Mutant: any record is discarded. *)
ManagerChecks_Mutant(m) ==
  /\ mpc[m] = "check"
  /\ runtime' = NoRuntime
  /\ MGoto(m, "ports")
  /\ UNCHANGED <<phase, fnn, pending>> /\ MUnchanged

(* assertNoLiveFiberManager: a stale record is discarded.                   *)
ManagerChecks(m) ==
  /\ mpc[m] = "check"
  /\ ~RuntimeLive
  /\ runtime' = NoRuntime
  /\ MGoto(m, "ports")
  /\ UNCHANGED <<phase, fnn, pending>> /\ MUnchanged

(* assertFiberPortsFree: the RPC of an FNN with an open store listens.      *)
PortsFree(m) ==
  /\ mpc[m] = "ports"
  /\ ~StoreHeld
  /\ MGoto(m, "spawn")
  /\ UNCHANGED <<phase, fnn, pending, runtime>> /\ MUnchanged

(* Denied the lock, or a preparation or a check fails: nothing to undo.     *)
ManagerGivesUp(m) ==
  /\ mpc[m] \in Preparing
  /\ mpc[m] # "lock" => mpc[m] = "prep" \/ RuntimeLive \/ mpc[m] = "ports"
  /\ LeavesLock(m)
  /\ MGoto(m, "dead")
  /\ UNCHANGED <<fnn, pending, runtime>> /\ MUnchanged

(* Mutant: the lock is left before the FNNs are spawned. *)
SpawnFnns_Mutant(m) ==
  /\ mpc[m] = "spawn"
  /\ LeavesLock(m)
  /\ Fnn(m, "spawned")
  /\ MGoto(m, "record")
  /\ UNCHANGED <<pending, runtime>> /\ MUnchanged

SpawnFnns(m) ==
  /\ mpc[m] = "spawn"
  /\ Fnn(m, "spawned")
  /\ \/ MGoto(m, "record")
     \/ MGoto(m, "abandon")  \* a later spawn failed
  /\ UNCHANGED <<phase, pending, runtime>> /\ MUnchanged

(* Mutant: the record lacks the pid of the manager. *)
RecordStarting_Mutant(m) ==
  /\ mpc[m] = "record"
  /\ runtime' = Runtime(NoPid, "starting")
  /\ MGoto(m, "starting")
  /\ UNCHANGED <<phase, fnn, pending>> /\ MUnchanged

RecordStarting(m) ==
  /\ mpc[m] = "record"
  /\ runtime' = Runtime(m, "starting")
  /\ MGoto(m, "starting")
  /\ UNCHANGED <<phase, fnn, pending>> /\ MUnchanged

(* The write fails outside the try that stops the FNNs.  The command fails  *)
(* and leaves the lock, but only its exit code is set: it lives on for as   *)
(* long as the FNNs do, without handlers.                                   *)
RecordFails(m) ==
  /\ mpc[m] = "record"
  /\ MGoto(m, "stray")
  /\ LeavesLock(m)
  /\ pending' = pending \ {m}
  /\ unrecorded' = unrecorded \cup {m}
  /\ UNCHANGED <<fnn, runtime, external, pidFile, launcher, stopper, cpc, lost, killed>>

(* Nothing keeps the event loop alive any more. *)
StrayEnds(m) ==
  /\ mpc[m] = "stray" /\ fnn[m] = "dead"
  /\ MGoto(m, "dead")
  /\ UNCHANGED <<phase, fnn, pending, runtime>> /\ MUnchanged

(* All checks pass.  The startup handlers are removed; a signal that is     *)
(* pending in this turn is lost.                                            *)
StartupPasses(m) ==
  /\ mpc[m] = "starting"
  /\ fnn[m] = "open"
  /\ runtime' = Runtime(m, "running")
  /\ pending' = pending \ {m}
  /\ MGoto(m, "ready")
  /\ UNCHANGED <<phase, fnn>> /\ MUnchanged

(* lock.release, then superviseFiberNodes.                                  *)
Supervises(m) ==
  /\ mpc[m] = "ready"
  /\ LeavesLock(m)
  /\ MGoto(m, "supervise")
  /\ UNCHANGED <<fnn, pending, runtime>> /\ MUnchanged

(* An FNN exits or does not answer, a check fails, or a signal is handled.  *)
StartupFails(m) ==
  /\ mpc[m] = "starting"
  /\ pending' = pending \ {m}
  /\ MGoto(m, "abandon")
  /\ UNCHANGED <<phase, fnn, runtime>> /\ MUnchanged

(* The exit of an FNN, or a signal. *)
SupervisionEnds(m) ==
  /\ mpc[m] = "supervise"
  /\ m \in pending \/ fnn[m] = "dead"
  /\ pending' = pending \ {m}
  /\ MGoto(m, "stopping")
  /\ UNCHANGED <<phase, fnn, runtime>> /\ MUnchanged

(* stopFiberNodes: SIGTERM, ten seconds, SIGKILL; then the record of this   *)
(* manager is removed.                                                      *)
FnnsStopped(m) ==
  /\ mpc[m] = "stopping" \/ mpc[m] = "abandon"
  /\ Fnn(m, "dead")
  /\ runtime' = IF runtime.manager = m THEN NoRuntime ELSE runtime
  /\ MGoto(m, IF mpc[m] = "stopping" /\ m \in Launchers THEN "cleanpid" ELSE "drop")
  /\ UNCHANGED <<phase, pending>> /\ MUnchanged

(* A daemon's manager unlinks its PID file by path.  That of the CKB daemon *)
(* is not modelled here.                                                    *)
CleansOwnPid(m) ==
  /\ mpc[m] = "cleanpid"
  /\ CleanupPidFile
  /\ MGoto(m, "drop")
  /\ UNCHANGED <<phase, fnn, pending, runtime, external, launcher, stopper, cpc,
                 history>>

ManagerExits(m) ==
  /\ mpc[m] = "drop"
  /\ LeavesLock(m)
  /\ MGoto(m, "dead")
  /\ UNCHANGED <<fnn, pending, runtime>> /\ MUnchanged

(* What a SIGTERM to the manager does, apart from what it does to the FNNs: *)
(* without a handler it ends the process; with one it waits for the event   *)
(* loop; in the teardown the first is ignored, a second one ends it.        *)
Signalled(m) ==
  \/ /\ mpc[m] \in Unhandled \cup Leaving
     /\ LeavesLock(m)
     /\ MGoto(m, "dead")
     /\ killed' = killed \cup {m}
     /\ UNCHANGED <<pending, unrecorded>>
  \/ /\ mpc[m] \in Starting \cup Supervising
     /\ pending' = pending \cup {m}
     /\ UNCHANGED <<phase, mpc, deaths>>
  \/ /\ mpc[m] \in Leaving
     /\ UNCHANGED <<phase, mpc, pending, deaths>>

(* SIGKILL to the process group. *)
GroupKilled(m) ==
  /\ mpc[m] \in ManagerLive \/ fnn[m] \in FnnLive
  /\ LeavesLock(m)
  /\ MGoto(m, "dead")
  /\ fnn' = [fnn EXCEPT ![m] = IF @ \in FnnLive THEN "dead" ELSE @]
  /\ killed' = IF mpc[m] \in ManagerLive THEN killed \cup {m} ELSE killed
  /\ UNCHANGED <<pending, unrecorded>>

ManagerSteps(m) ==
  \/ ManagerLocks(m) \/ ManagerPrepares(m) \/ ManagerChecks(m)
  \/ PortsFree(m) \/ ManagerGivesUp(m) \/ SpawnFnns(m) \/ RecordStarting(m)
  \/ RecordFails(m) \/ StrayEnds(m) \/ StartupPasses(m) \/ Supervises(m)
  \/ StartupFails(m) \/ SupervisionEnds(m) \/ FnnsStopped(m) \/ CleansOwnPid(m) \/ ManagerExits(m)

-----------------------------------------------------------------------------
(* The launcher: startFiberDaemon, failFiberDaemonStartup *)

LUnchanged == UNCHANGED <<external, stopper, cpc, lost, runtime>>
LOnly      == UNCHANGED <<phase, manager, pidFile, deaths>> /\ LUnchanged

LaunchReads(l) ==
  /\ MayBegin
  /\ lpc[l] = "idle"
  /\ lrec' = [lrec EXCEPT ![l] = ReadPidFile]
  /\ LGoto(l, IF ReadPidFile = NoRecord THEN "reserve" ELSE "probe")
  /\ LOnly

(* A live process is left alone, whether or not it is recognised.  The      *)
(* record is not used after this.                                           *)
LaunchProbes(l) ==
  /\ lpc[l] = "probe"
  /\ LGoto(l, IF PidAlive(lrec[l].pid) THEN "refused" ELSE "cleanup")
  /\ lrec' = [lrec EXCEPT ![l] = NoRecord]
  /\ LOnly

LaunchCleans(l) ==
  /\ lpc[l] = "cleanup"
  /\ CleanupPidFile
  /\ LGoto(l, "reserve")
  /\ UNCHANGED <<lrec, phase, manager, deaths>> /\ LUnchanged

LaunchReserves(l) ==
  /\ lpc[l] = "reserve"
  /\ IF pidFile = NoFile
       THEN OpenReservation(l) /\ LGoto(l, "write")
       ELSE UNCHANGED pidFile /\ LGoto(l, "refused")
  /\ UNCHANGED <<lrec, phase, manager, deaths>> /\ LUnchanged

LaunchWrites(l) ==
  /\ lpc[l] = "write"
  /\ WriteReservation(l)
  /\ LGoto(l, "spawn")
  /\ UNCHANGED <<lrec, phase, manager, deaths>> /\ LUnchanged

LaunchPrepareFails(l) ==
  /\ lpc[l] \in {"write", "spawn"}
  /\ CleanupPidFile
  /\ LGoto(l, "refused")
  /\ UNCHANGED <<lrec, phase, manager, deaths>> /\ LUnchanged

LaunchSpawns(l) ==
  /\ lpc[l] = "spawn"
  /\ Lock!Ask(l)
  /\ MGoto(l, "lock")
  /\ LGoto(l, "record")
  /\ UNCHANGED <<lrec, fnn, pending, pidFile, deaths>> /\ LUnchanged

LaunchRecords(l) ==
  /\ lpc[l] = "record"
  /\ \/ WritePidFile(l, "starting") /\ LGoto(l, "wait")
     \/ UNCHANGED pidFile /\ LGoto(l, "abort")
  /\ UNCHANGED <<lrec, phase, manager, deaths>> /\ LUnchanged

(* The child has recorded that its environment runs. *)
LaunchSeesReady(l) ==
  /\ lpc[l] = "wait"
  /\ mpc[l] \in ManagerLive
  /\ runtime = Runtime(l, "running")
  /\ LGoto(l, "confirm")
  /\ UNCHANGED lrec /\ LOnly

(* The child has died, or ten minutes are over. *)
LaunchWaitFails(l) ==
  /\ lpc[l] = "wait"
  /\ LGoto(l, "abort")
  /\ UNCHANGED lrec /\ LOnly

(* The second write of the record is not guarded: when it throws, the start *)
(* has failed, the manager lives on, and its record stays at "starting".    *)
LaunchConfirms(l) ==
  /\ lpc[l] = "confirm"
  /\ \/ WritePidFile(l, "running") /\ LGoto(l, "success")
     \/ UNCHANGED pidFile /\ LGoto(l, "broken")
  /\ UNCHANGED <<lrec, phase, manager, deaths>> /\ LUnchanged

LaunchAborts(l) ==
  /\ lpc[l] = "abort"
  /\ IF mpc[l] \in ManagerLive
       THEN Signalled(l) /\ LGoto(l, "abortWait")
       ELSE LGoto(l, "abortClean") /\ UNCHANGED <<phase, mpc, pending, deaths>>
  /\ UNCHANGED <<lrec, fnn, pidFile>> /\ LUnchanged

(* Mutant: no SIGKILL when the time is up. *)
LaunchAbortWaits_Mutant(l) ==
  /\ lpc[l] = "abortWait"
  /\ LGoto(l, "abortClean")
  /\ UNCHANGED lrec /\ LOnly

(* Five seconds, SIGKILL, five more. *)
LaunchAbortWaits(l) ==
  /\ lpc[l] = "abortWait"
  /\ \/ /\ mpc[l] = "dead"
        /\ LGoto(l, "abortClean")
        /\ UNCHANGED <<phase, manager, deaths>>
     \/ GroupKilled(l) /\ LGoto(l, "abortClean")
     \/ /\ mpc[l] \in ManagerLive
        /\ LGoto(l, "preserved")
        /\ UNCHANGED <<phase, manager, deaths>>
  /\ UNCHANGED <<lrec, pidFile>> /\ LUnchanged

LaunchAbortCleans(l) ==
  /\ lpc[l] = "abortClean"
  /\ CleanupPidFile
  /\ LGoto(l, "failed")
  /\ UNCHANGED <<lrec, phase, manager, deaths>> /\ LUnchanged

LauncherSteps(l) ==
  \/ LaunchProbes(l) \/ LaunchCleans(l) \/ LaunchReserves(l)
  \/ LaunchWrites(l) \/ LaunchPrepareFails(l) \/ LaunchSpawns(l)
  \/ LaunchRecords(l) \/ LaunchSeesReady(l) \/ LaunchWaitFails(l)
  \/ LaunchConfirms(l) \/ LaunchAborts(l) \/ LaunchAbortWaits(l)
  \/ LaunchAbortCleans(l)

-----------------------------------------------------------------------------
(* fiber stop: stopFiber, stopManagerAndCleanup *)

SUnchanged == UNCHANGED <<external, launcher, cpc>>
SOnly      == UNCHANGED <<phase, manager, runtime, pidFile, history>> /\ SUnchanged

(* Every end of the command releases the lock. *)
SEnds(s, outcome) == SGoto(s, outcome) /\ LeavesLock(s)

StopBegins(s) ==
  /\ MayBegin
  /\ spc[s] = "idle" /\ phase[s] = "out"
  /\ Lock!Ask(s)
  /\ UNCHANGED <<stopper, manager, runtime, pidFile, history>> /\ SUnchanged

StopLocks(s) ==
  /\ spc[s] = "idle"
  /\ \/ Lock!Grant(s) /\ SGoto(s, "read")
     \/ Lock!Deny(s) /\ SGoto(s, "refused")
  /\ UNCHANGED <<srec, target, manager, runtime, pidFile, history>> /\ SUnchanged

StopReads(s) ==
  /\ spc[s] = "read"
  /\ srec' = [srec EXCEPT ![s] = ReadPidFile]
  /\ SGoto(s, IF ReadPidFile = NoRecord THEN "runtime"
              ELSE IF ReadPidFile = Invalid THEN "cleanStale" ELSE "probe")
  /\ UNCHANGED target /\ SOnly

(* A process that is not recognised is left alone, and so is a startup in   *)
(* progress; one that has been starting for                                 *)
(* longer than its launcher can wait is stopped like a running daemon.  The *)
(* record is not used after this.                                           *)
StopProbes(s) ==
  /\ spc[s] = "probe"
  /\ IF ~PidAlive(srec[s].pid)
       THEN SGoto(s, "cleanStale") /\ UNCHANGED <<target, phase>>
       ELSE \/ SEnds(s, "refused") /\ UNCHANGED target
            \/ \E l \in Launchers :
                 /\ srec[s].pid = DaemonPid(l)
                 /\ srec[s].status = "starting" => lpc[l] \notin LWorking
                 /\ target' = [target EXCEPT ![s] = l]
                 /\ SGoto(s, "term")
                 /\ UNCHANGED phase
  /\ srec' = [srec EXCEPT ![s] = NoRecord]
  /\ UNCHANGED <<manager, runtime, pidFile, history>> /\ SUnchanged

StopCleansStale(s) ==
  /\ spc[s] = "cleanStale"
  /\ CleanupPidFile
  /\ SGoto(s, "runtime")
  /\ UNCHANGED <<srec, target, phase, manager, runtime, history>> /\ SUnchanged

(* Without a fiber daemon the record names a manager that is gone, the CKB  *)
(* daemon of node --fiber --daemon, or a foreground manager.  Nothing else  *)
(* is signalled.                                                            *)
StopReadsRuntime(s) ==
  /\ spc[s] = "runtime"
  /\ \/ runtime = NoRuntime /\ SEnds(s, "none") /\ UNCHANGED target
     \/ /\ runtime # NoRuntime /\ ~RuntimeLive
        /\ SGoto(s, "dropStale")
        /\ UNCHANGED <<target, phase>>
     \/ /\ RuntimeLive /\ runtime.manager \in nodeDaemon
        /\ target' = [target EXCEPT ![s] = runtime.manager]
        /\ SGoto(s, "term")
        /\ UNCHANGED phase
     \/ RuntimeLive /\ SEnds(s, "foreground") /\ UNCHANGED target
  /\ UNCHANGED <<srec, manager, runtime, pidFile, history>> /\ SUnchanged

StopDropsStale(s) ==
  /\ spc[s] = "dropStale"
  /\ runtime' = NoRuntime
  /\ SEnds(s, "none")
  /\ UNCHANGED <<srec, target, manager, pidFile, history>> /\ SUnchanged

(* SIGTERM to the process group; a group that is gone is an error.          *)
StopSignals(s) ==
  /\ spc[s] = "term"
  /\ \/ /\ Signalled(target[s])
        /\ SGoto(s, "wait")
     \/ /\ mpc[target[s]] = "dead"
        /\ SEnds(s, "refused")
        /\ UNCHANGED <<mpc, pending, deaths>>
     \/ /\ mpc[target[s]] = "dead" /\ fnn[target[s]] \in FnnLive
        /\ SGoto(s, "wait")
        /\ UNCHANGED <<phase, mpc, pending, deaths>>
  /\ UNCHANGED <<srec, target, fnn, runtime, pidFile, lost>> /\ SUnchanged

(* Fifteen seconds for the manager, fifteen for the store locks.            *)
StopWaits(s) ==
  /\ spc[s] = "wait"
  /\ SGoto(s, IF mpc[target[s]] = "dead" /\ ~StoreHeld THEN "confirm" ELSE "kill")
  /\ UNCHANGED <<srec, target>> /\ SOnly

StopKills(s) ==
  /\ spc[s] = "kill"
  /\ SGoto(s, "confirm")
  /\ \/ GroupKilled(target[s])
     \/ UNCHANGED <<phase, manager, deaths>>
  /\ UNCHANGED <<srec, target, runtime, pidFile, lost>> /\ SUnchanged

(* Mutant: the manager is not asked for. *)
StopConfirms_Mutant(s) ==
  /\ spc[s] = "confirm"
  /\ SGoto(s, "cleanpid")
  /\ UNCHANGED <<srec, target>> /\ SOnly

(* Only a manager that is gone loses its records. *)
StopConfirms(s) ==
  /\ spc[s] = "confirm"
  /\ IF mpc[target[s]] = "dead"
       THEN SGoto(s, "cleanpid") /\ UNCHANGED phase
       ELSE SEnds(s, "unconfirmed")
  /\ UNCHANGED <<srec, target, manager, runtime, pidFile, history>> /\ SUnchanged

StopCleansPid(s) ==
  /\ spc[s] = "cleanpid"
  /\ IF target[s] \in Launchers THEN CleanupPidFile ELSE UNCHANGED pidFile
  /\ SGoto(s, "dropRuntime")
  /\ UNCHANGED <<srec, target, phase, manager, runtime, history>> /\ SUnchanged

(* removeRuntimeFile: whatever is at the path. *)
StopDropsRuntime(s) ==
  /\ spc[s] = "dropRuntime"
  /\ runtime' = NoRuntime
  /\ lost' = lost \cup ({runtime.manager} \ {target[s]})
  /\ SEnds(s, "stopped")
  /\ UNCHANGED <<srec, target, manager, pidFile, deaths>> /\ SUnchanged

StopSteps(s) ==
  \/ StopLocks(s) \/ StopReads(s) \/ StopProbes(s) \/ StopCleansStale(s)
  \/ StopReadsRuntime(s) \/ StopDropsStale(s) \/ StopSignals(s) \/ StopWaits(s)
  \/ StopKills(s) \/ StopConfirms(s) \/ StopCleansPid(s) \/ StopDropsRuntime(s)

-----------------------------------------------------------------------------
(* clean and fiber clean *)

CUnchanged == UNCHANGED <<external, manager, launcher, stopper, history>>

CEnds(c, outcome) == CGoto(c, outcome) /\ LeavesLock(c)

CleanBegins(c) ==
  /\ MayBegin
  /\ cpc[c] = "idle" /\ phase[c] = "out"
  /\ Lock!Ask(c)
  /\ UNCHANGED <<cpc, runtime, pidFile>> /\ CUnchanged

CleanLocks(c) ==
  /\ cpc[c] = "idle"
  /\ \/ Lock!Grant(c) /\ CGoto(c, "runtime1")
     \/ Lock!Deny(c) /\ CGoto(c, "refused")
  /\ UNCHANGED <<runtime, pidFile>> /\ CUnchanged

(* assertCkbDaemonStopped: offckb clean refuses beside a live node daemon.  *)
ChecksNodeDaemon(c) ==
  /\ cpc[c] = "runtime1"
  /\ \E f \in nodeDaemon : mpc[f] \in ManagerLive
  /\ CEnds(c, "refused")
  /\ UNCHANGED <<runtime, pidFile>> /\ CUnchanged

(* assertFiberFullyStopped, its three checks in order.  The store check     *)
(* also refuses when it cannot tell.                                        *)
CleanChecks(c, here, next, refuses) ==
  /\ cpc[c] = here
  /\ IF refuses THEN CEnds(c, "refused") ELSE CGoto(c, next) /\ UNCHANGED phase
  /\ UNCHANGED <<runtime, pidFile>> /\ CUnchanged

CleanChecksRuntime(c, here, next) == CleanChecks(c, here, next, RuntimeLive)

CleanChecksPid(c, here, next) ==
  CleanChecks(c, here, next, PidAlive(pidFile.record.pid))

CleanChecksStores(c, here, next) ==
  \E unknown \in BOOLEAN : CleanChecks(c, here, next, unknown \/ StoreHeld)

(* fiber clean asks, and verifies again; the user may say no.               *)
CleanPrompts(c) ==
  /\ cpc[c] = "prompt"
  /\ \/ CGoto(c, "runtime2") /\ UNCHANGED phase
     \/ CEnds(c, "refused")
  /\ UNCHANGED <<runtime, pidFile>> /\ CUnchanged

(* removeRuntimeFileIfStale, with --data only. *)
CleanDropsStale(c) ==
  /\ cpc[c] = "dropStale"
  /\ runtime' = IF RuntimeLive THEN runtime ELSE NoRuntime
  /\ CGoto(c, "removeStores")
  /\ UNCHANGED <<phase, pidFile>> /\ CUnchanged

(* The stores go one by one while the command is at "removeStores".         *)
CleanRemovesStores(c) ==
  /\ cpc[c] = "removeStores"
  /\ CEnds(c, "cleaned")
  /\ UNCHANGED <<runtime, pidFile>> /\ CUnchanged

(* Without --data the PID file and runtime.json go with the directory.      *)
CleanRemovesTree(c) ==
  /\ cpc[c] = "removeTree"
  /\ runtime' = NoRuntime
  /\ CleanupPidFile
  /\ CEnds(c, "cleaned")
  /\ CUnchanged

CleanSteps(c) ==
  \/ CleanLocks(c)
  \/ ChecksNodeDaemon(c)
  \/ CleanChecksRuntime(c, "runtime1", "pid1") \/ CleanChecksPid(c, "pid1", "stores1")
  \/ \E next \in {"prompt", "dropStale", "removeTree"} : CleanChecksStores(c, "stores1", next)
  \/ CleanPrompts(c)
  \/ CleanChecksRuntime(c, "runtime2", "pid2") \/ CleanChecksPid(c, "pid2", "stores2")
  \/ \E next \in {"dropStale", "removeTree"} : CleanChecksStores(c, "stores2", next)
  \/ CleanDropsStale(c) \/ CleanRemovesStores(c) \/ CleanRemovesTree(c)

-----------------------------------------------------------------------------
(* FNNs, users and faults *)

EUnchanged == UNCHANGED <<external, runtime, pidFile, lrec, stopper, cpc, lost>>

(* One process at a time has the store open. *)
FnnOpens(m) ==
  /\ fnn[m] = "spawned" /\ ~StoreHeld
  /\ Fnn(m, "open")
  /\ UNCHANGED <<phase, mpc, pending, lpc, deaths>> /\ EUnchanged

FnnDies(m) ==
  /\ fnn[m] \in FnnLive
  /\ Fnn(m, "dead")
  /\ UNCHANGED <<phase, mpc, pending, lpc, deaths>> /\ EUnchanged

UserSignals(m) ==
  /\ Signalled(m)
  /\ UNCHANGED <<fnn, lpc>> /\ EUnchanged

(* The manager alone is killed; its FNNs live on. *)
ManagerKilled(m) ==
  /\ mpc[m] \in ManagerLive
  /\ MGoto(m, "dead")
  /\ LeavesLock(m)
  /\ killed' = killed \cup {m}
  /\ UNCHANGED <<fnn, pending, unrecorded, lpc>> /\ EUnchanged

LauncherKilled(l) ==
  /\ lpc[l] \in LWorking
  /\ LGoto(l, "killed")
  /\ UNCHANGED <<phase, manager, deaths>> /\ EUnchanged

Environment ==
  \/ \E f \in Foregrounds : ManagerBegins(f)
  \/ \E l \in Launchers : LaunchReads(l) \/ LauncherKilled(l)
  \/ \E s \in Stoppers : StopBegins(s)
  \/ \E c \in Cleaners : CleanBegins(c)
  \/ \E m \in Managers :
       FnnOpens(m) \/ FnnDies(m) \/ UserSignals(m) \/ ManagerKilled(m)

Next ==
  \/ \E m \in Managers : ManagerSteps(m)
  \/ \E l \in Launchers : LauncherSteps(l)
  \/ \E s \in Stoppers : StopSteps(s)
  \/ \E c \in Cleaners : CleanSteps(c)
  \/ Environment

Spec == Init /\ [][Next]_vars

-----------------------------------------------------------------------------
(* Properties *)

(* Every variable has its type. *)
TypeOK ==
  /\ Lock!TypeOK
  /\ nodeDaemon \subseteq Foregrounds
  /\ mpc \in [Managers -> {"idle", "dead"} \cup ManagerLive]
  /\ fnn \in [Managers -> {"none", "dead"} \cup FnnLive]
  /\ pending \subseteq Managers
  /\ runtime \in [manager : Managers \cup {OldPid}, status : {"starting", "running"}]
                   \cup {NoRuntime}
  /\ pidFile \in Files
  /\ lpc \in [Launchers -> {"idle"} \cup LWorking \cup LEnded]
  /\ lrec \in [Launchers -> Records]
  /\ spc \in [Stoppers -> {"idle"} \cup SWorking \cup SEnded]
  /\ srec \in [Stoppers -> Records]
  /\ target \in [Stoppers -> Managers \cup {NoPid}]
  /\ cpc \in [Cleaners -> {"idle"} \cup CWorking \cup CEnded]
  /\ oldLive \in BOOLEAN
  /\ lost \subseteq Managers \cup {OldPid, NoPid}
  /\ killed \subseteq Managers
  /\ unrecorded \subseteq Managers

(* "A running FNN must never watch its store disappear" (fiber/clean.ts):   *)
(* while a clean command removes the stores, no FNN has its store open,     *)
(* unless its manager was killed, or could not record it, before the FNN    *)
(* opened the store: nothing leads to such an FNN.                          *)
ManagedStoreKept ==
  \A c \in Cleaners, m \in Managers :
    cpc[c] \in Removing /\ fnn[m] = "open" => m \in killed \cup unrecorded

(* Two managers have live FNNs at a time only when one was killed, could    *)
(* not record itself or lost its record.                                    *)
OneEnvironment ==
  \A m, n \in Managers :
    fnn[m] \in FnnLive /\ fnn[n] \in FnnLive /\ m # n
      => {m, n} \cap (killed \cup unrecorded \cup lost) # {}

(* "On any failure the FNNs started here are stopped again"                 *)
(* (fiber/manager.ts): a manager that was not killed and is done leaves no  *)
(* FNN behind.                                                              *)
FailureStopsFnns ==
  \A m \in Managers :
    mpc[m] \in {"stray", "dead"} /\ m \notin killed => fnn[m] \notin FnnLive

(* "Only a confirmed-gone manager loses its ownership records"              *)
(* (fiber/daemon.ts): runtime.json names the manager that supervises, as    *)
(* running, unless a stop of another manager came late.                     *)
SupervisorRecorded ==
  \A m \in Managers :
    mpc[m] \in {"ready"} \cup Supervising
      => runtime = Runtime(m, "running") \/ m \in lost

(* A stop that reports success leaves the manager dead.                     *)
StoppedIsDead ==
  \A s \in Stoppers : spc[s] = "stopped" => mpc[target[s]] = "dead"

(* A daemon start that fails leaves nothing that is not known.  It undoes   *)
(* itself (failFiberDaemonStartup); or it says that the manager is still    *)
(* running ("preserved"); or the last writePidFile threw ("broken",         *)
(* daemon.ts:151), which nothing undoes: manager and FNNs live on though    *)
(* the command has failed.  A manager that is left and supervises is named  *)
(* by runtime.json, where fiber stop and the clean commands look, unless a  *)
(* late stop removed that, and no FNN outlives its manager, unless the      *)
(* manager was killed or signalled.                                         *)
FailedStartIsKnown ==
  \A l \in Launchers :
    lpc[l] \in {"failed", "preserved", "broken"} =>
      /\ mpc[l] \in ManagerLive => lpc[l] # "failed"
      /\ mpc[l] \in {"ready"} \cup Supervising
           => runtime = Runtime(l, "running") \/ l \in lost
      /\ mpc[l] = "dead" /\ fnn[l] \in FnnLive => l \in killed
=============================================================================
