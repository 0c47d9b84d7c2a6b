----------------------------- MODULE NodeDaemon -----------------------------
(***************************************************************************)
(* offckb node --daemon and offckb node stop (src/src/cmd/node.ts).        *)
(*                                                                         *)
(* Launchers start a detached manager each and record it in the PID file;  *)
(* stoppers read that file and signal the process it names.  Neither takes *)
(* a lock: the file, the pids and the RPC port are all they share.  Each   *)
(* file operation, liveness probe and signal is a step of its own.         *)
(***************************************************************************)
EXTENDS PidFile, FiniteSets

CONSTANT Stoppers

VARIABLES
  lpc,       \* lpc[l]: where launcher l is in startDaemon
  lrec,      \* lrec[l]: the record l read, until it has judged it
  daemon,    \* daemon[l]: the manager l spawned
  spc,       \* spc[s]: where stopper s is in stopNode
  srec,      \* srec[s]: the record s read
  otherNode, \* a node that no daemon manages answers at the RPC and proxy URLs
  reused,    \* dead pids that name an unrelated process now
  overlapped,\* history: a command began while another one was at work
  mishap     \* history: a launcher was killed half way, or did not recognise
             \* a manager of ours

fileVars   == <<pidFile, reused>>
lVars      == <<lpc, lrec>>
sVars      == <<spc, srec>>
history    == <<overlapped, mishap>>
vars       == <<fileVars, lVars, daemon, sVars, otherNode, history>>

LStarting == {"read", "probe", "identify", "cleanup", "reserve", "write",
              "spawn", "record", "wait", "confirm", "abort", "abortWait",
              "abortKill", "abortClean"}
LEnded    == {"refused", "failed", "preserved", "success", "crashed"}
SWorking  == {"read", "probe", "identify", "term", "wait", "kill", "cleanup",
              "cleanupStale"}
SEnded    == {"none", "refused", "stale", "error", "stopped"}

(* booting: before the exit handlers of runNodeDevnet are installed;       *)
(* serving: after; stopping: in runShutdownOnce, before its cleanup of the *)
(* PID file; ending: on its way out without any further cleanup; killed:   *)
(* SIGKILL was sent, it runs no code any more, but the pid is still there. *)
DaemonLive == {"booting", "serving", "stopping", "ending", "killed"}

-----------------------------------------------------------------------------
(* isProcessAlive *)
Alive(pid) ==
  \/ pid \in reused
  \/ \E l \in Launchers :
       \/ pid = LauncherPid(l) /\ lpc[l] \in {"check"} \cup LStarting
       \/ pid = DaemonPid(l) /\ daemon[l] \in DaemonLive

(* verifyDaemonIdentity: the process runs this CLI and started when the     *)
(* record says.                                                             *)
Genuine(pid) == Alive(pid) /\ pid \notin reused

(* A node answers at the RPC and proxy URLs. *)
Answering == otherNode \/ \E l \in Launchers : daemon[l] = "serving"

Working ==
  {l \in Launchers : lpc[l] \in {"check"} \cup LStarting}
    \cup {s \in Stoppers : spc[s] \in SWorking}

LGoto(l, label) == lpc' = [lpc EXCEPT ![l] = label]
SGoto(s, label) == spc' = [spc EXCEPT ![s] = label]
Becomes(l, state) == daemon' = [daemon EXCEPT ![l] = state]

-----------------------------------------------------------------------------
Init ==
  /\ pidFile \in LeftoverFiles
  /\ lpc = [l \in Launchers |-> "idle"]
  /\ lrec = [l \in Launchers |-> NoRecord]
  /\ daemon = [l \in Launchers |-> "none"]
  /\ spc = [s \in Stoppers |-> "idle"]
  /\ srec = [s \in Stoppers |-> NoRecord]
  /\ otherNode \in BOOLEAN
  /\ reused = {}
  /\ overlapped = FALSE
  /\ mishap = FALSE

-----------------------------------------------------------------------------
(* startDaemon *)

LaunchBegins(l) ==
  /\ lpc[l] = "idle"
  /\ LGoto(l, "check")
  /\ overlapped' = (overlapped \/ Working # {})
  /\ UNCHANGED <<fileVars, lrec, daemon, sVars, otherNode, mishap>>

(* checkNodeReadiness: a node that answers already is an error. *)
CheckReadiness(l) ==
  /\ lpc[l] = "check"
  /\ LGoto(l, IF Answering THEN "refused" ELSE "read")
  /\ UNCHANGED <<fileVars, lrec, daemon, sVars, otherNode, history>>

ReadExisting(l) ==
  /\ lpc[l] = "read"
  /\ lrec' = [lrec EXCEPT ![l] = ReadPidFile]
  /\ LGoto(l, IF ReadPidFile = NoRecord THEN "reserve" ELSE "probe")
  /\ UNCHANGED <<fileVars, daemon, sVars, otherNode, history>>

(* Mutant: the recorded process is not probed. *)
ProbeExisting_Mutant(l) ==
  /\ lpc[l] = "probe"
  /\ LGoto(l, "cleanup")
  /\ UNCHANGED <<fileVars, lrec, daemon, sVars, otherNode, history>>

ProbeExisting(l) ==
  /\ lpc[l] = "probe"
  /\ LGoto(l, IF Alive(lrec[l].pid) THEN "identify" ELSE "cleanup")
  /\ UNCHANGED <<fileVars, lrec, daemon, sVars, otherNode, history>>

(* A daemon of ours is left alone; an unrelated process loses its record,   *)
(* and is not signalled.  The check fails closed, so it may fail for ours.  *)
IdentifyExisting(l) ==
  /\ lpc[l] = "identify"
  /\ \/ /\ Genuine(lrec[l].pid)
        /\ LGoto(l, "refused")
        /\ UNCHANGED mishap
     \/ /\ LGoto(l, "cleanup")
        /\ mishap' = (mishap \/ Genuine(lrec[l].pid))
  /\ lrec' = [lrec EXCEPT ![l] = NoRecord]
  /\ UNCHANGED <<fileVars, daemon, sVars, otherNode, overlapped>>

CleanupStale(l) ==
  /\ lpc[l] = "cleanup"
  /\ CleanupPidFile
  /\ LGoto(l, "reserve")
  /\ lrec' = [lrec EXCEPT ![l] = NoRecord]
  /\ UNCHANGED <<reused, daemon, sVars, otherNode, history>>

Reserve(l) ==
  /\ lpc[l] = "reserve"
  /\ OpenReservation(l)
  /\ LGoto(l, "write")
  /\ UNCHANGED <<reused, lrec, daemon, sVars, otherNode, history>>

(* EEXIST, or any other error of the open. *)
ReserveFails(l) ==
  /\ lpc[l] = "reserve"
  /\ LGoto(l, "refused")
  /\ UNCHANGED <<fileVars, lrec, daemon, sVars, otherNode, history>>

FillReservation(l) ==
  /\ lpc[l] = "write"
  /\ WriteReservation(l)
  /\ LGoto(l, "spawn")
  /\ UNCHANGED <<reused, lrec, daemon, sVars, otherNode, history>>

(* The log files are opened and the manager is spawned, detached. *)
Spawn(l) ==
  /\ lpc[l] = "spawn"
  /\ Becomes(l, "booting")
  /\ LGoto(l, "record")
  /\ UNCHANGED <<fileVars, lrec, sVars, otherNode, history>>

(* The reservation cannot be written, a log file not opened, or the process *)
(* not spawned: the reservation is dropped.                                 *)
PrepareFails(l) ==
  /\ lpc[l] \in {"write", "spawn"}
  /\ CleanupPidFile
  /\ LGoto(l, "failed")
  /\ UNCHANGED <<reused, lrec, daemon, sVars, otherNode, history>>

RecordStarting(l) ==
  /\ lpc[l] = "record"
  /\ WritePidFile(l, "starting")
  /\ LGoto(l, "wait")
  /\ UNCHANGED <<reused, lrec, daemon, sVars, otherNode, history>>

(* waitForNodeReady(proxyUrl): whoever answers. *)
SeeReady(l) ==
  /\ lpc[l] = "wait"
  /\ Answering
  /\ LGoto(l, "confirm")
  /\ UNCHANGED <<fileVars, lrec, daemon, sVars, otherNode, history>>

(* Nobody answers: the manager has died, or the time is up. *)
WaitFails(l) ==
  /\ lpc[l] = "wait"
  /\ ~Answering
  /\ LGoto(l, "abort")
  /\ UNCHANGED <<fileVars, lrec, daemon, sVars, otherNode, history>>

(* Mutants: a status of its own; no second write. *)
RecordRunning_MutantStatus(l) ==
  /\ lpc[l] = "confirm"
  /\ WritePidFile(l, "ready")
  /\ LGoto(l, "success")
  /\ UNCHANGED <<reused, lrec, daemon, sVars, otherNode, history>>

RecordRunning_MutantSkips(l) ==
  /\ lpc[l] = "confirm"
  /\ LGoto(l, "success")
  /\ UNCHANGED <<fileVars, lrec, daemon, sVars, otherNode, history>>

RecordRunning(l) ==
  /\ lpc[l] = "confirm"
  /\ WritePidFile(l, "running")
  /\ LGoto(l, "success")
  /\ UNCHANGED <<reused, lrec, daemon, sVars, otherNode, history>>

(* writePidFile fails, at either place; or, with --fiber, the environment   *)
(* is not recorded as running in time (waitForFiberRuntimeRunning).         *)
RecordFails(l) ==
  /\ lpc[l] \in {"record", "confirm"}
  /\ LGoto(l, "abort")
  /\ UNCHANGED <<fileVars, lrec, daemon, sVars, otherNode, history>>

(* terminateProcess: a SIGTERM ends a manager at once or starts its         *)
(* shutdown; a SIGKILL stops it, and the kernel removes it when it can.  A  *)
(* process group that is gone cannot be signalled.                          *)
Terminated(l, signal) ==
  /\ daemon[l] \in DaemonLive
  /\ IF signal = "SIGKILL" \/ daemon[l] = "killed"
       THEN Becomes(l, "killed")
       ELSE \E d \in {"dead", "ending"} \cup
                     (IF daemon[l] \in {"serving", "stopping"}
                        THEN {"stopping"} ELSE {}) : Becomes(l, d)

(* Mutant: the exit is not waited for. *)
AbortSignals_Mutant(l) ==
  /\ lpc[l] = "abort"
  /\ IF daemon[l] \in DaemonLive
       THEN Terminated(l, "SIGTERM")
       ELSE UNCHANGED daemon
  /\ LGoto(l, "abortClean")
  /\ UNCHANGED <<fileVars, lrec, sVars, otherNode, history>>

(* A pid that names another process now looks like a manager that lives on; *)
(* the signal reaches it, or fails and leaves the PID file as it is.        *)
AbortSignals(l) ==
  /\ lpc[l] = "abort"
  /\ \/ /\ Terminated(l, "SIGTERM")
        /\ LGoto(l, "abortWait")
     \/ /\ daemon[l] \notin DaemonLive
        /\ UNCHANGED daemon
        /\ \E label \in IF Alive(DaemonPid(l)) THEN {"abortWait", "preserved"}
                                             ELSE {"abortClean"} :
             LGoto(l, label)
  /\ UNCHANGED <<fileVars, lrec, sVars, otherNode, history>>

(* Five seconds, then SIGKILL. *)
AbortWaits(l) ==
  /\ lpc[l] = "abortWait"
  /\ \/ /\ ~Alive(DaemonPid(l))
        /\ UNCHANGED daemon
        /\ LGoto(l, "abortClean")
     \/ /\ Terminated(l, "SIGKILL")
        /\ LGoto(l, "abortKill")
     \/ /\ DaemonPid(l) \in reused
        /\ UNCHANGED daemon
        /\ LGoto(l, "abortKill")
  /\ UNCHANGED <<fileVars, lrec, sVars, otherNode, history>>

(* Another five seconds: what is still there then keeps its PID file. *)
AbortConfirms(l) ==
  /\ lpc[l] = "abortKill"
  /\ LGoto(l, IF Alive(DaemonPid(l)) THEN "preserved" ELSE "abortClean")
  /\ UNCHANGED <<fileVars, lrec, daemon, sVars, otherNode, history>>

AbortCleans(l) ==
  /\ lpc[l] = "abortClean"
  /\ CleanupPidFile
  /\ LGoto(l, "failed")
  /\ UNCHANGED <<reused, lrec, daemon, sVars, otherNode, history>>

StartDaemon(l) ==
  \/ CheckReadiness(l) \/ ReadExisting(l) \/ ProbeExisting(l)
  \/ IdentifyExisting(l) \/ CleanupStale(l) \/ Reserve(l) \/ ReserveFails(l)
  \/ FillReservation(l) \/ Spawn(l) \/ PrepareFails(l) \/ RecordStarting(l)
  \/ SeeReady(l) \/ WaitFails(l) \/ RecordRunning(l) \/ RecordFails(l)
  \/ AbortSignals(l) \/ AbortWaits(l) \/ AbortConfirms(l) \/ AbortCleans(l)

-----------------------------------------------------------------------------
(* stopNode *)

StopBegins(s) ==
  /\ spc[s] = "idle"
  /\ SGoto(s, "read")
  /\ overlapped' = (overlapped \/ Working # {})
  /\ UNCHANGED <<fileVars, lVars, daemon, srec, otherNode, mishap>>

StopReads(s) ==
  /\ spc[s] = "read"
  /\ srec' = [srec EXCEPT ![s] = ReadPidFile]
  /\ SGoto(s, IF ReadPidFile = NoRecord THEN "none" ELSE "probe")
  /\ UNCHANGED <<fileVars, lVars, daemon, otherNode, history>>

(* FNNs of another manager live on this chain; without --force the command  *)
(* refuses, before or after it has judged the record.                       *)
StopWouldOrphanFiber(s) ==
  /\ spc[s] \in {"probe", "term"}
  /\ SGoto(s, "refused")
  /\ UNCHANGED <<fileVars, lVars, daemon, srec, otherNode, history>>

(* Mutant: every record counts as stale. *)
StopProbes_Mutant(s) ==
  /\ spc[s] = "probe"
  /\ SGoto(s, IF srec[s].status = "starting" THEN "refused" ELSE "cleanupStale")
  /\ UNCHANGED <<fileVars, lVars, daemon, srec, otherNode, history>>

(* A file that names no pid is removed, and reported as an error; a startup *)
(* in progress is not to be stopped.                                        *)
StopProbes(s) ==
  /\ spc[s] = "probe"
  /\ SGoto(s, CASE srec[s] = Invalid \/ ~Alive(srec[s].pid) -> "cleanupStale"
                [] srec[s].status = "starting"  -> "refused"
                [] OTHER                        -> "identify")
  /\ UNCHANGED <<fileVars, lVars, daemon, srec, otherNode, history>>

StopIdentifies(s) ==
  /\ spc[s] = "identify"
  /\ \/ Genuine(srec[s].pid) /\ SGoto(s, "term")
     \/ SGoto(s, "refused")
  /\ UNCHANGED <<fileVars, lVars, daemon, srec, otherNode, history>>

(* The process group gets SIGTERM; ESRCH means it has gone meanwhile.      *)
StopSignals(s) ==
  /\ spc[s] = "term"
  /\ \/ \E l \in Launchers :
          /\ srec[s].pid = DaemonPid(l)
          /\ Terminated(l, "SIGTERM")
          /\ SGoto(s, "wait")
     \/ /\ ~Genuine(srec[s].pid)
        /\ UNCHANGED daemon
        /\ \E label \in {"cleanupStale"} \cup
                        (IF Alive(srec[s].pid) THEN {"wait", "error"} ELSE {}) :
             SGoto(s, label)
  /\ UNCHANGED <<fileVars, lVars, srec, otherNode, history>>

(* Mutants: the outcome of the wait is ignored; the wait has no limit. *)
StopWaits_MutantBlind(s) ==
  /\ spc[s] = "wait"
  /\ SGoto(s, "cleanup")
  /\ UNCHANGED <<fileVars, lVars, daemon, srec, otherNode, history>>

StopWaits_MutantForever(s) ==
  /\ spc[s] = "wait"
  /\ SGoto(s, IF Alive(srec[s].pid) THEN "wait" ELSE "cleanup")
  /\ UNCHANGED <<fileVars, lVars, daemon, srec, otherNode, history>>

(* waitForProcessExit for five seconds. *)
StopWaits(s) ==
  /\ spc[s] = "wait"
  /\ SGoto(s, IF Alive(srec[s].pid) THEN "kill" ELSE "cleanup")
  /\ UNCHANGED <<fileVars, lVars, daemon, srec, otherNode, history>>

(* SIGKILL is sent, and its effect not waited for: the file is removed and  *)
(* success reported next.  A group that has gone meanwhile makes the        *)
(* command fail.                                                            *)
StopKills(s) ==
  /\ spc[s] = "kill"
  /\ \/ \E l \in Launchers :
          /\ srec[s].pid = DaemonPid(l)
          /\ Terminated(l, "SIGKILL")
          /\ SGoto(s, "cleanup")
     \/ /\ ~Genuine(srec[s].pid)
        /\ UNCHANGED daemon
        /\ \E label \in {"error"} \cup (IF Alive(srec[s].pid) THEN {"cleanup"}
                                                            ELSE {}) :
             SGoto(s, label)
  /\ UNCHANGED <<fileVars, lVars, srec, otherNode, history>>

StopCleans(s) ==
  /\ spc[s] = "cleanup"
  /\ CleanupPidFile
  /\ SGoto(s, "stopped")
  /\ UNCHANGED <<reused, lVars, daemon, srec, otherNode, history>>

StopCleansStale(s) ==
  /\ spc[s] = "cleanupStale"
  /\ CleanupPidFile
  /\ SGoto(s, IF srec[s] = Invalid THEN "error" ELSE "stale")
  /\ UNCHANGED <<reused, lVars, daemon, srec, otherNode, history>>

StopNode(s) ==
  \/ StopReads(s) \/ StopWouldOrphanFiber(s) \/ StopProbes(s) \/ StopIdentifies(s)
  \/ StopSignals(s) \/ StopWaits(s) \/ StopKills(s) \/ StopCleans(s) \/ StopCleansStale(s)

-----------------------------------------------------------------------------
(* The managers: nodeDevnet with OFFCKB_DAEMON_CHILD=1 *)

(* CKB takes the RPC port and the data directory; one node has them at most.*)
Boot(l) ==
  /\ daemon[l] = "booting"
  /\ ~Answering
  /\ Becomes(l, "serving")
  /\ UNCHANGED <<fileVars, lVars, sVars, otherNode, history>>

(* A startup failure ends the manager with no shutdown. *)
BootFails(l) ==
  /\ daemon[l] = "booting"
  /\ Becomes(l, "ending")
  /\ UNCHANGED <<fileVars, lVars, sVars, otherNode, history>>

(* The readiness checks meet another node's answers, the exit of this       *)
(* manager's own CKB is seen only when the service is up.                   *)
BootOnAnotherNode(l) ==
  /\ daemon[l] = "booting"
  /\ Answering
  /\ Becomes(l, "stopping")
  /\ UNCHANGED <<fileVars, lVars, sVars, otherNode, history>>

(* CKB, the miner or an FNN exits: runShutdownOnce. *)
ComponentExits(l) ==
  /\ daemon[l] = "serving"
  /\ Becomes(l, "stopping")
  /\ UNCHANGED <<fileVars, lVars, sVars, otherNode, history>>

ShutdownCleans(l) ==
  /\ daemon[l] = "stopping"
  /\ CleanupPidFile
  /\ Becomes(l, "ending")
  /\ UNCHANGED <<reused, lVars, sVars, otherNode, history>>

DaemonExits(l) ==
  /\ daemon[l] \in {"ending", "killed"}
  /\ Becomes(l, "dead")
  /\ UNCHANGED <<fileVars, lVars, sVars, otherNode, history>>

ManagerSteps(l) ==
  \/ Boot(l) \/ BootFails(l) \/ BootOnAnotherNode(l)
  \/ ShutdownCleans(l) \/ DaemonExits(l)

-----------------------------------------------------------------------------
(* The environment: processes are killed, pids are used again, and nodes    *)
(* are started and stopped without these commands.                          *)

(* The CKB of a manager that is killed may live on. *)
DaemonCrashes(l) ==
  /\ daemon[l] \in DaemonLive
  /\ Becomes(l, "dead")
  /\ otherNode' \in {otherNode, otherNode \/ daemon[l] = "serving"}
  /\ UNCHANGED <<fileVars, lVars, sVars, history>>

LauncherCrashes(l) ==
  /\ lpc[l] \in LStarting
  /\ LGoto(l, "crashed")
  /\ mishap' = TRUE
  /\ UNCHANGED <<fileVars, lrec, daemon, sVars, otherNode, overlapped>>

StopperCrashes(s) ==
  /\ spc[s] \in SWorking
  /\ SGoto(s, "error")
  /\ UNCHANGED <<fileVars, lVars, daemon, srec, otherNode, history>>

OtherNode ==
  /\ otherNode \/ ~Answering
  /\ otherNode' = ~otherNode
  /\ UNCHANGED <<fileVars, lVars, daemon, sVars, history>>

(* Bound: one pid is used again at a time. *)
ReusePid ==
  /\ \/ reused # {} /\ reused' = {}
     \/ /\ reused = {}
        /\ \E pid \in {OldPid} \cup
                     {DaemonPid(l) : l \in {k \in Launchers : daemon[k] = "dead"}} :
             reused' = {pid}
  /\ UNCHANGED <<pidFile, lVars, daemon, sVars, otherNode, history>>

Environment ==
  \/ \E l \in Launchers :
       \/ LaunchBegins(l) \/ LauncherCrashes(l)
       \/ ComponentExits(l) \/ DaemonCrashes(l)
  \/ \E s \in Stoppers : StopBegins(s) \/ StopperCrashes(s)
  \/ OtherNode
  \/ ReusePid

Next ==
  \/ \E l \in Launchers : StartDaemon(l) \/ ManagerSteps(l)
  \/ \E s \in Stoppers : StopNode(s)
  \/ Environment

Spec == Init /\ [][Next]_vars

(* A command that runs goes on, every wait in it has a time limit, and a    *)
(* manager comes up or gives up.                                            *)
FairSpec ==
  /\ Spec
  /\ \A l \in Launchers : WF_vars(StartDaemon(l)) /\ WF_vars(ManagerSteps(l))
  /\ \A s \in Stoppers : WF_vars(StopNode(s))

-----------------------------------------------------------------------------
(* The variables keep their types. *)
TypeOK ==
  /\ pidFile \in Files
  /\ lpc \in [Launchers -> {"idle", "check"} \cup LStarting \cup LEnded]
  /\ lrec \in [Launchers -> Records]
  /\ daemon \in [Launchers -> {"none", "dead"} \cup DaemonLive]
  /\ spc \in [Stoppers -> {"idle"} \cup SWorking \cup SEnded]
  /\ srec \in [Stoppers -> Records]
  /\ otherNode \in BOOLEAN
  /\ reused \subseteq Pids
  /\ overlapped \in BOOLEAN
  /\ mishap \in BOOLEAN

(* One command at a time, no launcher killed half way, and no manager of    *)
(* ours taken for an unrelated process.                                     *)
Quiet == ~overlapped /\ ~mishap

(* What the comments on the reservation promise (node.ts:596, 614): the PID *)
(* file of a running daemon is never overwritten or lost, so that node stop *)
(* finds it.  Two launchers at once, or a launcher and a stopper, break it. *)
RunningDaemonRecorded ==
  \A l \in Launchers :
    lpc[l] = "success" /\ daemon[l] = "serving"
      => pidFile.record = Record(DaemonPid(l), "running")

(* For one command at a time it is kept, through crashes of the managers,   *)
(* pids used again, leftover files and nodes of others.                     *)
QuietDaemonRecorded == Quiet => RunningDaemonRecorded

(* Duplicate starts are prevented (node.ts:596): for one command at a time, *)
(* two managers are never on their way up or serving together.              *)
QuietOneDaemon ==
  Quiet => \A k, l \in Launchers :
             {daemon[k], daemon[l]} \subseteq {"booting", "serving"} => k = l

(* A stop that reports success has ended the manager it was about, as far   *)
(* as stopNode goes (node.ts:819-831): the manager has exited, or SIGKILL   *)
(* was sent to it and it runs no code any more, though the kernel may yet   *)
(* have to remove it, which the command does not wait for; and no PID file  *)
(* names that manager from then on, whoever starts and stops meanwhile.     *)
StopEndsManager ==
  \A s \in Stoppers, l \in Launchers :
    spc[s] = "stopped" /\ srec[s].pid = DaemonPid(l)
      => daemon[l] \in {"killed", "dead"} /\ pidFile.record.pid # DaemonPid(l)

(* A start that fails leaves no manager behind, unless it says that the     *)
(* manager is still running.                                                *)
FailedStartLeavesNothing ==
  \A l \in Launchers : lpc[l] = "failed" => daemon[l] \in {"none", "dead"}

(* The answer a launcher takes for its manager's does come from its manager *)
(* (node.ts:687), for one command at a time and while no other node runs.   *)
QuietReadyIsOwn ==
  [][\A l \in Launchers :
       SeeReady(l) /\ Quiet /\ ~otherNode => daemon[l] = "serving"]_vars

(* What the message of node stop promises (node.ts:787): a startup that is  *)
(* in progress does not stay so.                                            *)
StuckStarting(l) ==
  /\ daemon[l] = "serving"
  /\ pidFile.record = Record(DaemonPid(l), "starting")

StartingIsTemporary == \A l \in Launchers : StuckStarting(l) ~> ~StuckStarting(l)

(* It is temporary unless the launcher was killed. *)
StartingEndsUnlessKilled ==
  \A l \in Launchers :
    StuckStarting(l) ~> ~StuckStarting(l) \/ lpc[l] = "crashed"

(* Every start and every stop comes to an end. *)
CommandsEnd ==
  /\ \A l \in Launchers : lpc[l] = "check" ~> lpc[l] \in LEnded
  /\ \A s \in Stoppers : spc[s] = "read" ~> spc[s] \in SEnded
=============================================================================
