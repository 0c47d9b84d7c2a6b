-------------------------- MODULE NodeDaemonProofs --------------------------
(***************************************************************************)
(* Proofs about NodeDaemon for any number of launchers and stoppers, and   *)
(* whatever crashes, other nodes and pids used again there are.            *)
(*                                                                         *)
(* A pid that a file or a stopper knows was spawned, a spawned manager     *)
(* that has died does not come back, and a pid is given to another process *)
(* only when its manager is dead (Lifecycle).  So a stopper that finds the *)
(* pid free, or used by another process, knows that its manager is dead,   *)
(* and a launcher that has seen its manager die may say so for ever.       *)
(***************************************************************************)
EXTENDS NodeDaemon, TLAPS

(* Where a launcher is before it spawns its manager. *)
BeforeSpawn ==
  {"idle", "check", "read", "probe", "identify", "cleanup", "reserve",
   "write", "spawn"}

Lifecycle ==
  /\ \A l \in Launchers : lpc[l] \in BeforeSpawn => daemon[l] = "none"
  /\ \A l \in Launchers :
       lpc[l] \in {"record", "wait", "confirm"} => daemon[l] # "none"
  /\ \A l \in Launchers :
       pidFile.record.pid = DaemonPid(l) => daemon[l] # "none"
  /\ \A s \in Stoppers, l \in Launchers :
       srec[s].pid = DaemonPid(l) => daemon[l] # "none"
  /\ \A l \in Launchers : DaemonPid(l) \in reused => daemon[l] = "dead"

(* What a command has established when it cleans up: a manager that is      *)
(* killed or dead stays so.                                                 *)
Established ==
  /\ \A s \in Stoppers, l \in Launchers :
       spc[s] \in {"cleanup", "stopped"} /\ srec[s].pid = DaemonPid(l)
         => daemon[l] \in {"killed", "dead"}
  /\ \A l \in Launchers :
       lpc[l] \in {"abortClean", "failed"} => daemon[l] \in {"none", "dead"}

(* A record names its manager as running only when its launcher has written *)
(* the file for the last time, and a stopper acts on no other record.       *)
Written(rec) ==
  \A l \in Launchers :
    rec.pid = DaemonPid(l) =>
      /\ rec.status \in {"starting", "running"}
      /\ rec.status = "running" => lpc[l] = "success"

Recorded ==
  /\ Written(pidFile.record)
  /\ \A s \in Stoppers : Written(srec[s])
  /\ \A s \in Stoppers :
       spc[s] \in {"identify", "term", "wait", "kill", "cleanup", "stopped"}
         => srec[s].status # "starting"
  /\ \A s \in Stoppers, l \in Launchers :
       spc[s] = "stopped" /\ srec[s].pid = DaemonPid(l)
         => pidFile.record.pid # DaemonPid(l)

(* What one command at a time may rely on.  An active manager is one that   *)
(* serves, will serve, or will yet unlink the PID file.                     *)
Active == {"booting", "serving", "stopping"}

NoneActive == \A k \in Launchers : daemon[k] \notin Active

LWorking == {"check"} \cup LStarting

ActiveLaunched ==
  /\ \A k \in Launchers :
       daemon[k] \in Active =>
         lpc[k] \in {"record", "wait", "confirm", "abort", "abortWait",
                    "success", "crashed"}
  /\ \A k \in Launchers : lpc[k] = "crashed" => mishap

SingleWorker ==
  /\ \A k, l \in Launchers : {lpc[k], lpc[l]} \subseteq LWorking => k = l
  /\ \A s, t \in Stoppers : {spc[s], spc[t]} \subseteq SWorking => s = t
  /\ \A l \in Launchers, s \in Stoppers :
       ~(lpc[l] \in LWorking /\ spc[s] \in SWorking)

ManagersRecorded ==
  \A k \in Launchers :
    daemon[k] \in Active =>
      /\ lpc[k] \in {"wait", "confirm"} => pidFile.record.pid = DaemonPid(k)
      /\ lpc[k] = "success" =>
           pidFile.record = Record(DaemonPid(k), "running")

(* A launcher has judged the record of the manager that is active, if any;  *)
(* it does not reserve the file while one is.                               *)
LaunchersKnow ==
  \A l \in Launchers :
    /\ lpc[l] \in {"probe", "identify"} =>
         \A k \in Launchers :
           daemon[k] \in Active => lrec[l].pid = DaemonPid(k)
    /\ lpc[l] \in {"cleanup", "reserve", "write", "spawn"} => NoneActive
    /\ lpc[l] \in {"record", "wait", "confirm", "abort", "abortWait",
                   "abortKill", "abortClean"} =>
         \A k \in Launchers : daemon[k] \in Active => k = l

(* A stopper has read that record, and removes no other. *)
StoppersKnow ==
  \A s \in Stoppers :
    /\ spc[s] \in SWorking \ {"read"} =>
         \A k \in Launchers :
           daemon[k] \in Active => srec[s].pid = DaemonPid(k)
    /\ spc[s] \in {"cleanup", "cleanupStale"} => NoneActive

QuietInv ==
  Quiet => SingleWorker /\ ManagersRecorded /\ LaunchersKnow /\ StoppersKnow

-----------------------------------------------------------------------------
(* Pids are told apart. *)
LEMMA DistinctPids ==
  /\ OldPid # NoPid
  /\ \A l \in Launchers : DaemonPid(l) # OldPid /\ DaemonPid(l) # NoPid
  /\ \A k, l \in Launchers :
       /\ DaemonPid(k) = DaemonPid(l) => k = l
       /\ DaemonPid(k) # LauncherPid(l)
  <1>1. \A l \in Launchers :
          DaemonPid(l) \in {"launcher", "daemon"} \X Launchers
    BY DEF DaemonPid, LauncherPid
  <1>2. \A k, l \in Launchers :
          /\ DaemonPid(k) = DaemonPid(l) => k = l
          /\ DaemonPid(k) # LauncherPid(l)
    BY DEF DaemonPid, LauncherPid
  <1> QED
    BY <1>1, <1>2, PidAssumption

(* A leftover file knows no manager of this session. *)
LEMMA InitInv ==
  Init => TypeOK /\ Lifecycle /\ Established /\ Recorded /\ ActiveLaunched
            /\ QuietInv
  <1> SUFFICES ASSUME Init
               PROVE  /\ TypeOK /\ Lifecycle /\ Established /\ Recorded
                      /\ ActiveLaunched /\ QuietInv
    OBVIOUS
  <1>1. pidFile \in Files /\ pidFile.record.pid \in {OldPid, NoPid}
    BY DEF Init, LeftoverFiles, Files, File, Records, Record, NoFile, NoRecord,
           Invalid, Statuses, Pids
  <1>2. TypeOK
    BY <1>1 DEF Init, TypeOK, Records
  <1>3. Lifecycle /\ Established /\ Recorded
    BY <1>1, DistinctPids
    DEF Init, Lifecycle, Established, Recorded, Written, BeforeSpawn, NoRecord,
        Record
  <1>4. ActiveLaunched /\ QuietInv
    BY DEF Init, ActiveLaunched, QuietInv, SingleWorker, ManagersRecorded,
           LaunchersKnow, StoppersKnow, Active, LWorking, LStarting, SWorking
  <1> QED
    BY <1>2, <1>3, <1>4

(* Every step keeps the types. *)
LEMMA NextTyped == TypeOK /\ [Next]_vars => TypeOK'
  <1> SUFFICES ASSUME TypeOK, [Next]_vars
               PROVE  TypeOK'
    OBVIOUS
  <1> USE DistinctPids DEF TypeOK, Files, File, Records, Record, NoFile,
          NoRecord, Invalid, Statuses, Pids, DaemonPid, LauncherPid,
          LStarting, LEnded,
          SWorking, SEnded, DaemonLive, LGoto, SGoto, Becomes, fileVars, lVars,
          sVars, history
  <1>1. ASSUME NEW l \in Launchers, StartDaemon(l)
       PROVE  TypeOK'
    <2>1. CASE CheckReadiness(l)
      BY <2>1 DEF CheckReadiness
    <2>2. CASE ReadExisting(l)
      BY <2>2 DEF ReadExisting, ReadPidFile
    <2>3. CASE ProbeExisting(l)
      BY <2>3 DEF ProbeExisting
    <2>4. CASE IdentifyExisting(l)
      BY <2>4 DEF IdentifyExisting
    <2>5. CASE CleanupStale(l)
      BY <2>5 DEF CleanupStale, CleanupPidFile
    <2>6. CASE Reserve(l)
      BY <2>6 DEF Reserve, OpenReservation
    <2>7. CASE ReserveFails(l)
      BY <2>7 DEF ReserveFails
    <2>8. CASE FillReservation(l)
      BY <2>8 DEF FillReservation, WriteReservation
    <2>9. CASE Spawn(l)
      BY <2>9 DEF Spawn
    <2>10. CASE PrepareFails(l)
      BY <2>10 DEF PrepareFails, CleanupPidFile
    <2>11. CASE RecordStarting(l)
      BY <2>11 DEF RecordStarting, WritePidFile
    <2>12. CASE SeeReady(l)
      BY <2>12 DEF SeeReady
    <2>13. CASE WaitFails(l)
      BY <2>13 DEF WaitFails
    <2>14. CASE RecordRunning(l)
      BY <2>14 DEF RecordRunning, WritePidFile
    <2>15. CASE RecordFails(l)
      BY <2>15 DEF RecordFails
    <2>16. CASE AbortSignals(l)
      BY <2>16 DEF AbortSignals, Terminated
    <2>17. CASE AbortWaits(l)
      BY <2>17 DEF AbortWaits, Terminated
    <2>18. CASE AbortConfirms(l)
      BY <2>18 DEF AbortConfirms
    <2>19. CASE AbortCleans(l)
      BY <2>19 DEF AbortCleans, CleanupPidFile
    <2> QED
      BY <1>1, <2>1, <2>2, <2>3, <2>4, <2>5, <2>6, <2>7, <2>8, <2>9, <2>10,
         <2>11, <2>12, <2>13, <2>14, <2>15, <2>16, <2>17, <2>18, <2>19
         DEF StartDaemon
  <1>2. ASSUME NEW l \in Launchers, ManagerSteps(l)
       PROVE  TypeOK'
    <2>1. CASE Boot(l)
      BY <2>1 DEF Boot
    <2>2. CASE BootFails(l)
      BY <2>2 DEF BootFails
    <2>3. CASE BootOnAnotherNode(l)
      BY <2>3 DEF BootOnAnotherNode
    <2>4. CASE ShutdownCleans(l)
      BY <2>4 DEF ShutdownCleans, CleanupPidFile
    <2>5. CASE DaemonExits(l)
      BY <2>5 DEF DaemonExits
    <2> QED
      BY <1>2, <2>1, <2>2, <2>3, <2>4, <2>5
         DEF ManagerSteps
  <1>3. ASSUME NEW s \in Stoppers, StopNode(s)
       PROVE  TypeOK'
    <2>1. CASE StopReads(s)
      BY <2>1 DEF StopReads, ReadPidFile
    <2>2. CASE StopWouldOrphanFiber(s)
      BY <2>2 DEF StopWouldOrphanFiber
    <2>3. CASE StopProbes(s)
      BY <2>3 DEF StopProbes
    <2>4. CASE StopIdentifies(s)
      BY <2>4 DEF StopIdentifies
    <2>5. CASE StopSignals(s)
      BY <2>5 DEF StopSignals, Terminated
    <2>6. CASE StopWaits(s)
      BY <2>6 DEF StopWaits
    <2>7. CASE StopKills(s)
      BY <2>7 DEF StopKills, Terminated
    <2>8. CASE StopCleans(s)
      BY <2>8 DEF StopCleans, CleanupPidFile
    <2>9. CASE StopCleansStale(s)
      BY <2>9 DEF StopCleansStale, CleanupPidFile
    <2> QED
      BY <1>3, <2>1, <2>2, <2>3, <2>4, <2>5, <2>6, <2>7, <2>8, <2>9
         DEF StopNode
  <1>4. CASE Environment
    <2>1. ASSUME NEW l \in Launchers, LaunchBegins(l)
         PROVE  TypeOK'
      BY <2>1 DEF LaunchBegins
    <2>2. ASSUME NEW l \in Launchers, LauncherCrashes(l)
         PROVE  TypeOK'
      BY <2>2 DEF LauncherCrashes
    <2>3. ASSUME NEW l \in Launchers, ComponentExits(l)
         PROVE  TypeOK'
      BY <2>3 DEF ComponentExits
    <2>4. ASSUME NEW l \in Launchers, DaemonCrashes(l)
         PROVE  TypeOK'
      BY <2>4 DEF DaemonCrashes
    <2>5. ASSUME NEW s \in Stoppers, StopBegins(s)
         PROVE  TypeOK'
      BY <2>5 DEF StopBegins
    <2>6. ASSUME NEW s \in Stoppers, StopperCrashes(s)
         PROVE  TypeOK'
      BY <2>6 DEF StopperCrashes
    <2>7. CASE OtherNode
      BY <2>7 DEF OtherNode
    <2>8. CASE ReusePid
      BY <2>8 DEF ReusePid
    <2> QED
      BY <1>4, <2>1, <2>2, <2>3, <2>4, <2>5, <2>6, <2>7, <2>8
         DEF Environment
  <1>5. CASE UNCHANGED vars
    BY <1>5 DEF vars
  <1> QED
    BY <1>1, <1>2, <1>3, <1>4, <1>5 DEF Next

(* A pid is recorded and read only after the spawn, and used again only     *)
(* after the death.                                                         *)
LEMMA NextLifecycle == TypeOK /\ Lifecycle /\ [Next]_vars => Lifecycle'
  <1> SUFFICES ASSUME TypeOK, Lifecycle, [Next]_vars
               PROVE  Lifecycle'
    OBVIOUS
  <1> USE DistinctPids DEF TypeOK, Lifecycle, BeforeSpawn, Files, File,
          Records, Record, NoFile, NoRecord,
          Invalid, Statuses, Pids, LStarting, LEnded,
          SWorking, SEnded, DaemonLive, LGoto, SGoto, Becomes, fileVars, lVars,
          sVars, history
  <1>1. ASSUME NEW l \in Launchers, StartDaemon(l)
       PROVE  Lifecycle'
    <2>1. CASE CheckReadiness(l)
      BY <2>1 DEF CheckReadiness
    <2>2. CASE ReadExisting(l)
      BY <2>2 DEF ReadExisting, ReadPidFile
    <2>3. CASE ProbeExisting(l)
      BY <2>3 DEF ProbeExisting
    <2>4. CASE IdentifyExisting(l)
      BY <2>4 DEF IdentifyExisting
    <2>5. CASE CleanupStale(l)
      BY <2>5 DEF CleanupStale, CleanupPidFile
    <2>6. CASE Reserve(l)
      BY <2>6 DEF Reserve, OpenReservation
    <2>7. CASE ReserveFails(l)
      BY <2>7 DEF ReserveFails
    <2>8. CASE FillReservation(l)
      BY <2>8 DEF FillReservation, WriteReservation
    <2>9. CASE Spawn(l)
      BY <2>9 DEF Spawn
    <2>10. CASE PrepareFails(l)
      BY <2>10 DEF PrepareFails, CleanupPidFile
    <2>11. CASE RecordStarting(l)
      BY <2>11 DEF RecordStarting, WritePidFile
    <2>12. CASE SeeReady(l)
      BY <2>12 DEF SeeReady
    <2>13. CASE WaitFails(l)
      BY <2>13 DEF WaitFails
    <2>14. CASE RecordRunning(l)
      BY <2>14 DEF RecordRunning, WritePidFile
    <2>15. CASE RecordFails(l)
      BY <2>15 DEF RecordFails
    <2>16. CASE AbortSignals(l)
      BY <2>16 DEF AbortSignals, Terminated
    <2>17. CASE AbortWaits(l)
      BY <2>17 DEF AbortWaits, Terminated
    <2>18. CASE AbortConfirms(l)
      BY <2>18 DEF AbortConfirms
    <2>19. CASE AbortCleans(l)
      BY <2>19 DEF AbortCleans, CleanupPidFile
    <2> QED
      BY <1>1, <2>1, <2>2, <2>3, <2>4, <2>5, <2>6, <2>7, <2>8, <2>9, <2>10,
         <2>11, <2>12, <2>13, <2>14, <2>15, <2>16, <2>17, <2>18, <2>19
         DEF StartDaemon
  <1>2. ASSUME NEW l \in Launchers, ManagerSteps(l)
       PROVE  Lifecycle'
    <2>1. CASE Boot(l)
      BY <2>1 DEF Boot
    <2>2. CASE BootFails(l)
      BY <2>2 DEF BootFails
    <2>3. CASE BootOnAnotherNode(l)
      BY <2>3 DEF BootOnAnotherNode
    <2>4. CASE ShutdownCleans(l)
      BY <2>4 DEF ShutdownCleans, CleanupPidFile
    <2>5. CASE DaemonExits(l)
      BY <2>5 DEF DaemonExits
    <2> QED
      BY <1>2, <2>1, <2>2, <2>3, <2>4, <2>5
         DEF ManagerSteps
  <1>3. ASSUME NEW s \in Stoppers, StopNode(s)
       PROVE  Lifecycle'
    <2>1. CASE StopReads(s)
      BY <2>1 DEF StopReads, ReadPidFile
    <2>2. CASE StopWouldOrphanFiber(s)
      BY <2>2 DEF StopWouldOrphanFiber
    <2>3. CASE StopProbes(s)
      BY <2>3 DEF StopProbes
    <2>4. CASE StopIdentifies(s)
      BY <2>4 DEF StopIdentifies
    <2>5. CASE StopSignals(s)
      BY <2>5 DEF StopSignals, Terminated
    <2>6. CASE StopWaits(s)
      BY <2>6 DEF StopWaits
    <2>7. CASE StopKills(s)
      BY <2>7 DEF StopKills, Terminated
    <2>8. CASE StopCleans(s)
      BY <2>8 DEF StopCleans, CleanupPidFile
    <2>9. CASE StopCleansStale(s)
      BY <2>9 DEF StopCleansStale, CleanupPidFile
    <2> QED
      BY <1>3, <2>1, <2>2, <2>3, <2>4, <2>5, <2>6, <2>7, <2>8, <2>9
         DEF StopNode
  <1>4. CASE Environment
    <2>1. ASSUME NEW l \in Launchers, LaunchBegins(l)
         PROVE  Lifecycle'
      BY <2>1 DEF LaunchBegins
    <2>2. ASSUME NEW l \in Launchers, LauncherCrashes(l)
         PROVE  Lifecycle'
      BY <2>2 DEF LauncherCrashes
    <2>3. ASSUME NEW l \in Launchers, ComponentExits(l)
         PROVE  Lifecycle'
      BY <2>3 DEF ComponentExits
    <2>4. ASSUME NEW l \in Launchers, DaemonCrashes(l)
         PROVE  Lifecycle'
      BY <2>4 DEF DaemonCrashes
    <2>5. ASSUME NEW s \in Stoppers, StopBegins(s)
         PROVE  Lifecycle'
      BY <2>5 DEF StopBegins
    <2>6. ASSUME NEW s \in Stoppers, StopperCrashes(s)
         PROVE  Lifecycle'
      BY <2>6 DEF StopperCrashes
    <2>7. CASE OtherNode
      BY <2>7 DEF OtherNode
    <2>8. CASE ReusePid
      BY <2>8 DEF ReusePid
    <2> QED
      BY <1>4, <2>1, <2>2, <2>3, <2>4, <2>5, <2>6, <2>7, <2>8
         DEF Environment
  <1>5. CASE UNCHANGED vars
    BY <1>5 DEF vars
  <1> QED
    BY <1>1, <1>2, <1>3, <1>4, <1>5 DEF Next

(* What a command has seen of a dead manager stays true. *)
LEMMA NextEstablished ==
  TypeOK /\ Lifecycle /\ Established /\ [Next]_vars => Established'
  <1> SUFFICES ASSUME TypeOK, Lifecycle, Established, [Next]_vars
               PROVE  Established'
    OBVIOUS
  <1> USE DistinctPids DEF TypeOK, Lifecycle, Established, BeforeSpawn,
          Alive, Genuine, Files, File, Records, Record, NoFile, NoRecord,
          Invalid, Statuses, Pids, LStarting, LEnded,
          SWorking, SEnded, DaemonLive, LGoto, SGoto, Becomes, fileVars, lVars,
          sVars, history
  <1>1. ASSUME NEW l \in Launchers, StartDaemon(l)
       PROVE  Established'
    <2>1. CASE CheckReadiness(l)
      BY <2>1 DEF CheckReadiness
    <2>2. CASE ReadExisting(l)
      BY <2>2 DEF ReadExisting, ReadPidFile
    <2>3. CASE ProbeExisting(l)
      BY <2>3 DEF ProbeExisting
    <2>4. CASE IdentifyExisting(l)
      BY <2>4 DEF IdentifyExisting
    <2>5. CASE CleanupStale(l)
      BY <2>5 DEF CleanupStale, CleanupPidFile
    <2>6. CASE Reserve(l)
      BY <2>6 DEF Reserve, OpenReservation
    <2>7. CASE ReserveFails(l)
      BY <2>7 DEF ReserveFails
    <2>8. CASE FillReservation(l)
      BY <2>8 DEF FillReservation, WriteReservation
    <2>9. CASE Spawn(l)
      BY <2>9 DEF Spawn
    <2>10. CASE PrepareFails(l)
      BY <2>10 DEF PrepareFails, CleanupPidFile
    <2>11. CASE RecordStarting(l)
      BY <2>11 DEF RecordStarting, WritePidFile
    <2>12. CASE SeeReady(l)
      BY <2>12 DEF SeeReady
    <2>13. CASE WaitFails(l)
      BY <2>13 DEF WaitFails
    <2>14. CASE RecordRunning(l)
      BY <2>14 DEF RecordRunning, WritePidFile
    <2>15. CASE RecordFails(l)
      BY <2>15 DEF RecordFails
    <2>16. CASE AbortSignals(l)
      BY <2>16 DEF AbortSignals, Terminated
    <2>17. CASE AbortWaits(l)
      BY <2>17 DEF AbortWaits, Terminated
    <2>18. CASE AbortConfirms(l)
      BY <2>18 DEF AbortConfirms
    <2>19. CASE AbortCleans(l)
      BY <2>19 DEF AbortCleans, CleanupPidFile
    <2> QED
      BY <1>1, <2>1, <2>2, <2>3, <2>4, <2>5, <2>6, <2>7, <2>8, <2>9, <2>10,
         <2>11, <2>12, <2>13, <2>14, <2>15, <2>16, <2>17, <2>18, <2>19
         DEF StartDaemon
  <1>2. ASSUME NEW l \in Launchers, ManagerSteps(l)
       PROVE  Established'
    <2>1. CASE Boot(l)
      BY <2>1 DEF Boot
    <2>2. CASE BootFails(l)
      BY <2>2 DEF BootFails
    <2>3. CASE BootOnAnotherNode(l)
      BY <2>3 DEF BootOnAnotherNode
    <2>4. CASE ShutdownCleans(l)
      BY <2>4 DEF ShutdownCleans, CleanupPidFile
    <2>5. CASE DaemonExits(l)
      BY <2>5 DEF DaemonExits
    <2> QED
      BY <1>2, <2>1, <2>2, <2>3, <2>4, <2>5
         DEF ManagerSteps
  <1>3. ASSUME NEW s \in Stoppers, StopNode(s)
       PROVE  Established'
    <2>1. CASE StopReads(s)
      BY <2>1 DEF StopReads, ReadPidFile
    <2>2. CASE StopWouldOrphanFiber(s)
      BY <2>2 DEF StopWouldOrphanFiber
    <2>3. CASE StopProbes(s)
      BY <2>3 DEF StopProbes
    <2>4. CASE StopIdentifies(s)
      BY <2>4 DEF StopIdentifies
    <2>5. CASE StopSignals(s)
      BY <2>5 DEF StopSignals, Terminated
    <2>6. CASE StopWaits(s)
      BY <2>6 DEF StopWaits
    <2>7. CASE StopKills(s)
      <3>1. CASE \E l \in Launchers :
                    /\ srec[s].pid = DaemonPid(l)
                    /\ Terminated(l, "SIGKILL")
                    /\ SGoto(s, "cleanup")
        <4>1. PICK l \in Launchers :
                /\ srec[s].pid = DaemonPid(l)
                /\ Terminated(l, "SIGKILL")
                /\ SGoto(s, "cleanup")
          BY <3>1
        <4>2. daemon' = [daemon EXCEPT ![l] = "killed"]
          BY <4>1 DEF Terminated
        <4>3. daemon[l] \in DaemonLive
          BY <4>1 DEF Terminated
        <4>4. \A k \in Launchers :
                /\ daemon[k] \in {"killed", "dead"}
                     => daemon'[k] \in {"killed", "dead"}
                /\ daemon[k] \in {"none", "dead"} => daemon'[k] = daemon[k]
          BY <4>2, <4>3
        <4>5. \A k \in Launchers :
                srec[s].pid = DaemonPid(k) => daemon'[k] \in {"killed", "dead"}
          <5>1. \A k \in Launchers : srec[s].pid = DaemonPid(k) => k = l
            BY <4>1, DistinctPids
          <5>2. daemon'[l] = "killed"
            BY <4>2
          <5> QED
            BY <5>1, <5>2
        <4>6. /\ spc' = [spc EXCEPT ![s] = "cleanup"]
              /\ UNCHANGED <<lpc, srec>>
          BY <2>7, <4>1 DEF StopKills
        <4> QED
          BY <4>4, <4>5, <4>6
      <3>2. CASE ~Genuine(srec[s].pid) /\ UNCHANGED daemon
        BY <2>7, <3>2 DEF StopKills
      <3> QED
        BY <2>7, <3>1, <3>2 DEF StopKills
    <2>8. CASE StopCleans(s)
      BY <2>8 DEF StopCleans, CleanupPidFile
    <2>9. CASE StopCleansStale(s)
      BY <2>9 DEF StopCleansStale, CleanupPidFile
    <2> QED
      BY <1>3, <2>1, <2>2, <2>3, <2>4, <2>5, <2>6, <2>7, <2>8, <2>9
         DEF StopNode
  <1>4. CASE Environment
    <2>1. ASSUME NEW l \in Launchers, LaunchBegins(l)
         PROVE  Established'
      BY <2>1 DEF LaunchBegins
    <2>2. ASSUME NEW l \in Launchers, LauncherCrashes(l)
         PROVE  Established'
      BY <2>2 DEF LauncherCrashes
    <2>3. ASSUME NEW l \in Launchers, ComponentExits(l)
         PROVE  Established'
      BY <2>3 DEF ComponentExits
    <2>4. ASSUME NEW l \in Launchers, DaemonCrashes(l)
         PROVE  Established'
      BY <2>4 DEF DaemonCrashes
    <2>5. ASSUME NEW s \in Stoppers, StopBegins(s)
         PROVE  Established'
      BY <2>5 DEF StopBegins
    <2>6. ASSUME NEW s \in Stoppers, StopperCrashes(s)
         PROVE  Established'
      BY <2>6 DEF StopperCrashes
    <2>7. CASE OtherNode
      BY <2>7 DEF OtherNode
    <2>8. CASE ReusePid
      BY <2>8 DEF ReusePid
    <2> QED
      BY <1>4, <2>1, <2>2, <2>3, <2>4, <2>5, <2>6, <2>7, <2>8
         DEF Environment
  <1>5. CASE UNCHANGED vars
    BY <1>5 DEF vars
  <1> QED
    BY <1>1, <1>2, <1>3, <1>4, <1>5 DEF Next

(* Only its launcher writes a manager's record, and no launcher that has    *)
(* succeeded writes again.                                                  *)
LEMMA NextRecorded ==
  TypeOK /\ Lifecycle /\ Recorded /\ [Next]_vars => Recorded'
  <1> SUFFICES ASSUME TypeOK, Lifecycle, Recorded, [Next]_vars
               PROVE  Recorded'
    OBVIOUS
  <1> USE DistinctPids DEF TypeOK, Lifecycle, Recorded, Written,
          BeforeSpawn, Files, File, Records, Record, NoFile, NoRecord,
          Invalid, Statuses, Pids, LStarting, LEnded,
          SWorking, SEnded, DaemonLive, LGoto, SGoto, Becomes, fileVars, lVars,
          sVars, history
  <1>1. ASSUME NEW l \in Launchers, StartDaemon(l)
       PROVE  Recorded'
    <2>1. CASE CheckReadiness(l)
      BY <2>1 DEF CheckReadiness
    <2>2. CASE ReadExisting(l)
      BY <2>2 DEF ReadExisting, ReadPidFile
    <2>3. CASE ProbeExisting(l)
      BY <2>3 DEF ProbeExisting
    <2>4. CASE IdentifyExisting(l)
      BY <2>4 DEF IdentifyExisting
    <2>5. CASE CleanupStale(l)
      BY <2>5 DEF CleanupStale, CleanupPidFile
    <2>6. CASE Reserve(l)
      BY <2>6 DEF Reserve, OpenReservation
    <2>7. CASE ReserveFails(l)
      BY <2>7 DEF ReserveFails
    <2>8. CASE FillReservation(l)
      BY <2>8 DEF FillReservation, WriteReservation
    <2>9. CASE Spawn(l)
      BY <2>9 DEF Spawn
    <2>10. CASE PrepareFails(l)
      BY <2>10 DEF PrepareFails, CleanupPidFile
    <2>11. CASE RecordStarting(l)
      BY <2>11 DEF RecordStarting, WritePidFile
    <2>12. CASE SeeReady(l)
      BY <2>12 DEF SeeReady
    <2>13. CASE WaitFails(l)
      BY <2>13 DEF WaitFails
    <2>14. CASE RecordRunning(l)
      BY <2>14 DEF RecordRunning, WritePidFile
    <2>15. CASE RecordFails(l)
      BY <2>15 DEF RecordFails
    <2>16. CASE AbortSignals(l)
      BY <2>16 DEF AbortSignals, Terminated
    <2>17. CASE AbortWaits(l)
      BY <2>17 DEF AbortWaits, Terminated
    <2>18. CASE AbortConfirms(l)
      BY <2>18 DEF AbortConfirms
    <2>19. CASE AbortCleans(l)
      BY <2>19 DEF AbortCleans, CleanupPidFile
    <2> QED
      BY <1>1, <2>1, <2>2, <2>3, <2>4, <2>5, <2>6, <2>7, <2>8, <2>9, <2>10,
         <2>11, <2>12, <2>13, <2>14, <2>15, <2>16, <2>17, <2>18, <2>19
         DEF StartDaemon
  <1>2. ASSUME NEW l \in Launchers, ManagerSteps(l)
       PROVE  Recorded'
    <2>1. CASE Boot(l)
      BY <2>1 DEF Boot
    <2>2. CASE BootFails(l)
      BY <2>2 DEF BootFails
    <2>3. CASE BootOnAnotherNode(l)
      BY <2>3 DEF BootOnAnotherNode
    <2>4. CASE ShutdownCleans(l)
      BY <2>4 DEF ShutdownCleans, CleanupPidFile
    <2>5. CASE DaemonExits(l)
      BY <2>5 DEF DaemonExits
    <2> QED
      BY <1>2, <2>1, <2>2, <2>3, <2>4, <2>5
         DEF ManagerSteps
  <1>3. ASSUME NEW s \in Stoppers, StopNode(s)
       PROVE  Recorded'
    <2>1. CASE StopReads(s)
      BY <2>1 DEF StopReads, ReadPidFile
    <2>2. CASE StopWouldOrphanFiber(s)
      BY <2>2 DEF StopWouldOrphanFiber
    <2>3. CASE StopProbes(s)
      BY <2>3 DEF StopProbes
    <2>4. CASE StopIdentifies(s)
      BY <2>4 DEF StopIdentifies
    <2>5. CASE StopSignals(s)
      BY <2>5 DEF StopSignals, Terminated
    <2>6. CASE StopWaits(s)
      BY <2>6 DEF StopWaits
    <2>7. CASE StopKills(s)
      BY <2>7 DEF StopKills, Terminated
    <2>8. CASE StopCleans(s)
      BY <2>8 DEF StopCleans, CleanupPidFile
    <2>9. CASE StopCleansStale(s)
      BY <2>9 DEF StopCleansStale, CleanupPidFile
    <2> QED
      BY <1>3, <2>1, <2>2, <2>3, <2>4, <2>5, <2>6, <2>7, <2>8, <2>9
         DEF StopNode
  <1>4. CASE Environment
    <2>1. ASSUME NEW l \in Launchers, LaunchBegins(l)
         PROVE  Recorded'
      BY <2>1 DEF LaunchBegins
    <2>2. ASSUME NEW l \in Launchers, LauncherCrashes(l)
         PROVE  Recorded'
      BY <2>2 DEF LauncherCrashes
    <2>3. ASSUME NEW l \in Launchers, ComponentExits(l)
         PROVE  Recorded'
      BY <2>3 DEF ComponentExits
    <2>4. ASSUME NEW l \in Launchers, DaemonCrashes(l)
         PROVE  Recorded'
      BY <2>4 DEF DaemonCrashes
    <2>5. ASSUME NEW s \in Stoppers, StopBegins(s)
         PROVE  Recorded'
      BY <2>5 DEF StopBegins
    <2>6. ASSUME NEW s \in Stoppers, StopperCrashes(s)
         PROVE  Recorded'
      BY <2>6 DEF StopperCrashes
    <2>7. CASE OtherNode
      BY <2>7 DEF OtherNode
    <2>8. CASE ReusePid
      BY <2>8 DEF ReusePid
    <2> QED
      BY <1>4, <2>1, <2>2, <2>3, <2>4, <2>5, <2>6, <2>7, <2>8
         DEF Environment
  <1>5. CASE UNCHANGED vars
    BY <1>5 DEF vars
  <1> QED
    BY <1>1, <1>2, <1>3, <1>4, <1>5 DEF Next

(* A launcher that has ended another way than by success leaves no active   *)
(* manager, unless it was killed.                                           *)
LEMMA NextActive ==
  TypeOK /\ Lifecycle /\ Established /\ ActiveLaunched /\ [Next]_vars
    => ActiveLaunched'
  <1> SUFFICES ASSUME TypeOK, Lifecycle, Established, ActiveLaunched,
                      [Next]_vars
               PROVE  ActiveLaunched'
    OBVIOUS
  <1> USE DistinctPids DEF TypeOK, Established, ActiveLaunched,
          Active, Files, File, Records, Record, NoFile, NoRecord,
          Invalid, Statuses, Pids, LStarting, LEnded,
          SWorking, SEnded, DaemonLive, LGoto, SGoto, Becomes, fileVars, lVars,
          sVars, history
  <1>1. ASSUME NEW l \in Launchers, StartDaemon(l)
       PROVE  ActiveLaunched'
    <2>1. CASE CheckReadiness(l)
      BY <2>1 DEF CheckReadiness
    <2>2. CASE ReadExisting(l)
      BY <2>2 DEF ReadExisting, ReadPidFile
    <2>3. CASE ProbeExisting(l)
      BY <2>3 DEF ProbeExisting
    <2>4. CASE IdentifyExisting(l)
      BY <2>4 DEF IdentifyExisting
    <2>5. CASE CleanupStale(l)
      BY <2>5 DEF CleanupStale, CleanupPidFile
    <2>6. CASE Reserve(l)
      BY <2>6 DEF Reserve, OpenReservation
    <2>7. CASE ReserveFails(l)
      BY <2>7 DEF ReserveFails
    <2>8. CASE FillReservation(l)
      BY <2>8 DEF FillReservation, WriteReservation
    <2>9. CASE Spawn(l)
      BY <2>9 DEF Spawn
    <2>10. CASE PrepareFails(l)
      BY <2>10 DEF PrepareFails, CleanupPidFile
    <2>11. CASE RecordStarting(l)
      BY <2>11 DEF RecordStarting, WritePidFile
    <2>12. CASE SeeReady(l)
      BY <2>12 DEF SeeReady
    <2>13. CASE WaitFails(l)
      BY <2>13 DEF WaitFails
    <2>14. CASE RecordRunning(l)
      BY <2>14 DEF RecordRunning, WritePidFile
    <2>15. CASE RecordFails(l)
      BY <2>15 DEF RecordFails
    <2>16. CASE AbortSignals(l)
      BY <2>16 DEF AbortSignals, Terminated
    <2>17. CASE AbortWaits(l)
      <3>1. CASE UNCHANGED daemon
        <4>1. \/ ~Alive(DaemonPid(l)) \/ DaemonPid(l) \in reused
              \/ daemon' = [daemon EXCEPT ![l] = "killed"]
          BY <2>17, <3>1 DEF AbortWaits, Terminated
        <4>2. daemon[l] \notin Active
          BY <3>1, <4>1 DEF Alive, Lifecycle
        <4> QED
          BY <2>17, <3>1, <4>2 DEF AbortWaits
      <3>2. CASE Terminated(l, "SIGKILL") /\ LGoto(l, "abortKill")
        <4>1. daemon' = [daemon EXCEPT ![l] = "killed"]
          BY <3>2 DEF Terminated
        <4> QED
          BY <2>17, <3>2, <4>1 DEF AbortWaits
      <3> QED
        BY <2>17, <3>1, <3>2 DEF AbortWaits
    <2>18. CASE AbortConfirms(l)
      BY <2>18 DEF AbortConfirms
    <2>19. CASE AbortCleans(l)
      BY <2>19 DEF AbortCleans, CleanupPidFile
    <2> QED
      BY <1>1, <2>1, <2>2, <2>3, <2>4, <2>5, <2>6, <2>7, <2>8, <2>9, <2>10,
         <2>11, <2>12, <2>13, <2>14, <2>15, <2>16, <2>17, <2>18, <2>19
         DEF StartDaemon
  <1>2. ASSUME NEW l \in Launchers, ManagerSteps(l)
       PROVE  ActiveLaunched'
    <2>1. CASE Boot(l)
      BY <2>1 DEF Boot
    <2>2. CASE BootFails(l)
      BY <2>2 DEF BootFails
    <2>3. CASE BootOnAnotherNode(l)
      BY <2>3 DEF BootOnAnotherNode
    <2>4. CASE ShutdownCleans(l)
      BY <2>4 DEF ShutdownCleans, CleanupPidFile
    <2>5. CASE DaemonExits(l)
      BY <2>5 DEF DaemonExits
    <2> QED
      BY <1>2, <2>1, <2>2, <2>3, <2>4, <2>5
         DEF ManagerSteps
  <1>3. ASSUME NEW s \in Stoppers, StopNode(s)
       PROVE  ActiveLaunched'
    <2>1. CASE StopReads(s)
      BY <2>1 DEF StopReads, ReadPidFile
    <2>2. CASE StopWouldOrphanFiber(s)
      BY <2>2 DEF StopWouldOrphanFiber
    <2>3. CASE StopProbes(s)
      BY <2>3 DEF StopProbes
    <2>4. CASE StopIdentifies(s)
      BY <2>4 DEF StopIdentifies
    <2>5. CASE StopSignals(s)
      BY <2>5 DEF StopSignals, Terminated
    <2>6. CASE StopWaits(s)
      BY <2>6 DEF StopWaits
    <2>7. CASE StopKills(s)
      BY <2>7 DEF StopKills, Terminated
    <2>8. CASE StopCleans(s)
      BY <2>8 DEF StopCleans, CleanupPidFile
    <2>9. CASE StopCleansStale(s)
      BY <2>9 DEF StopCleansStale, CleanupPidFile
    <2> QED
      BY <1>3, <2>1, <2>2, <2>3, <2>4, <2>5, <2>6, <2>7, <2>8, <2>9
         DEF StopNode
  <1>4. CASE Environment
    <2>1. ASSUME NEW l \in Launchers, LaunchBegins(l)
         PROVE  ActiveLaunched'
      BY <2>1 DEF LaunchBegins
    <2>2. ASSUME NEW l \in Launchers, LauncherCrashes(l)
         PROVE  ActiveLaunched'
      BY <2>2 DEF LauncherCrashes
    <2>3. ASSUME NEW l \in Launchers, ComponentExits(l)
         PROVE  ActiveLaunched'
      BY <2>3 DEF ComponentExits
    <2>4. ASSUME NEW l \in Launchers, DaemonCrashes(l)
         PROVE  ActiveLaunched'
      BY <2>4 DEF DaemonCrashes
    <2>5. ASSUME NEW s \in Stoppers, StopBegins(s)
         PROVE  ActiveLaunched'
      BY <2>5 DEF StopBegins
    <2>6. ASSUME NEW s \in Stoppers, StopperCrashes(s)
         PROVE  ActiveLaunched'
      BY <2>6 DEF StopperCrashes
    <2>7. CASE OtherNode
      BY <2>7 DEF OtherNode
    <2>8. CASE ReusePid
      BY <2>8 DEF ReusePid
    <2> QED
      BY <1>4, <2>1, <2>2, <2>3, <2>4, <2>5, <2>6, <2>7, <2>8
         DEF Environment
  <1>5. CASE UNCHANGED vars
    BY <1>5 DEF vars
  <1> QED
    BY <1>1, <1>2, <1>3, <1>4, <1>5 DEF Next

-----------------------------------------------------------------------------
(* In a quiet state one manager is active at most. *)
LEMMA OneActive ==
  ASSUME ActiveLaunched, QuietInv, Quiet,
         NEW k \in Launchers, NEW l \in Launchers,
         daemon[k] \in Active, daemon[l] \in Active
  PROVE  k = l
  <1> DEFINE Owning == {"wait", "confirm", "success"}
  <1>1. \A m \in {k, l} :
          lpc[m] \in Owning \cup {"record", "abort", "abortWait"}
    BY DEF ActiveLaunched, Quiet
  <1>2. CASE lpc[k] \in Owning /\ lpc[l] \in Owning
    <2>1. \A m \in {k, l} :
            \/ pidFile.record.pid = DaemonPid(m)
            \/ pidFile.record = Record(DaemonPid(m), "running")
      BY <1>2 DEF QuietInv, ManagersRecorded
    <2>2. \A m \in {k, l} : pidFile.record.pid = DaemonPid(m)
      BY <2>1 DEF Record
    <2> QED
      BY <2>2, DistinctPids
  <1>3. CASE lpc[k] \notin Owning \/ lpc[l] \notin Owning
    BY <1>1, <1>3 DEF QuietInv, LaunchersKnow
  <1> QED
    BY <1>2, <1>3

(* A command that reads the file in a quiet state finds the active manager. *)
LEMMA ReaderFindsActive ==
  ASSUME TypeOK, ActiveLaunched, QuietInv, Quiet,
         \/ \E s \in Stoppers : spc[s] = "read"
         \/ \E l \in Launchers : lpc[l] = "read",
         NEW k \in Launchers, daemon[k] \in Active
  PROVE  pidFile.record.pid = DaemonPid(k)
  <1>1. lpc[k] \in {"record", "wait", "confirm", "abort", "abortWait", "success"}
    BY DEF ActiveLaunched, Quiet
  <1>2. lpc[k] \notin LWorking
    BY <1>1 DEF QuietInv, SingleWorker, LWorking, LStarting, SWorking
  <1>3. lpc[k] = "success"
    BY <1>1, <1>2 DEF LWorking, LStarting
  <1>4. pidFile.record = Record(DaemonPid(k), "running")
    BY <1>3 DEF QuietInv, ManagersRecorded
  <1> QED
    BY <1>4 DEF Record

(* One command at a time judges the record of the one active manager, and   *)
(* only that manager changes the file meanwhile.                            *)
LEMMA NextQuiet ==
  TypeOK /\ Lifecycle /\ Established /\ ActiveLaunched /\ QuietInv /\ [Next]_vars
    => QuietInv'
  <1> SUFFICES ASSUME TypeOK, Lifecycle, Established, ActiveLaunched,
                      QuietInv, [Next]_vars
               PROVE  QuietInv'
    OBVIOUS
  <1> USE DistinctPids DEF TypeOK, Lifecycle, Established, ActiveLaunched,
          QuietInv, Quiet, SingleWorker, ManagersRecorded, LaunchersKnow,
          StoppersKnow, NoneActive, Active, LWorking, Working, Alive, Genuine,
          Files, File, Records, Record, NoFile, NoRecord,
          Invalid, Statuses, Pids, LStarting, LEnded,
          SWorking, SEnded, DaemonLive, LGoto, SGoto, Becomes, fileVars, lVars,
          sVars, history
  <1>1. ASSUME NEW l \in Launchers, StartDaemon(l)
       PROVE  QuietInv'
    <2>1. CASE CheckReadiness(l)
      BY <2>1 DEF CheckReadiness
    <2>2. CASE ReadExisting(l)
      <3>1. ASSUME Quiet
            PROVE  \A k \in Launchers :
                     daemon[k] \in Active => pidFile.record.pid = DaemonPid(k)
        BY <2>2, <3>1, ReaderFindsActive DEF ReadExisting
      <3> QED
        BY <2>2, <3>1 DEF ReadExisting, ReadPidFile
    <2>3. CASE ProbeExisting(l)
      BY <2>3 DEF ProbeExisting
    <2>4. CASE IdentifyExisting(l)
      <3>1. CASE Genuine(lrec[l].pid)
        <4>1. CASE lpc' = [lpc EXCEPT ![l] = "refused"]
          BY <2>4, <4>1 DEF IdentifyExisting
        <4>2. CASE lpc' # [lpc EXCEPT ![l] = "refused"]
          <5>1. mishap' = (mishap \/ Genuine(lrec[l].pid))
            BY <2>4, <4>2 DEF IdentifyExisting
          <5> QED
            BY <3>1, <5>1
        <4> QED
          BY <4>1, <4>2
      <3>2. CASE ~Genuine(lrec[l].pid)
        <4>1. Quiet => NoneActive
          BY <2>4, <3>2 DEF IdentifyExisting
        <4> QED
          BY <2>4, <3>2, <4>1 DEF IdentifyExisting
      <3> QED
        BY <3>1, <3>2
    <2>5. CASE CleanupStale(l)
      BY <2>5 DEF CleanupStale, CleanupPidFile
    <2>6. CASE Reserve(l)
      BY <2>6 DEF Reserve, OpenReservation
    <2>7. CASE ReserveFails(l)
      BY <2>7 DEF ReserveFails
    <2>8. CASE FillReservation(l)
      BY <2>8 DEF FillReservation, WriteReservation
    <2>9. CASE Spawn(l)
      BY <2>9 DEF Spawn
    <2>10. CASE PrepareFails(l)
      BY <2>10 DEF PrepareFails, CleanupPidFile
    <2>11. CASE RecordStarting(l)
      BY <2>11 DEF RecordStarting, WritePidFile
    <2>12. CASE SeeReady(l)
      BY <2>12 DEF SeeReady
    <2>13. CASE WaitFails(l)
      BY <2>13 DEF WaitFails
    <2>14. CASE RecordRunning(l)
      BY <2>14 DEF RecordRunning, WritePidFile
    <2>15. CASE RecordFails(l)
      BY <2>15 DEF RecordFails
    <2>16. CASE AbortSignals(l)
      BY <2>16 DEF AbortSignals, Terminated
    <2>17. CASE AbortWaits(l)
      BY <2>17 DEF AbortWaits, Terminated
    <2>18. CASE AbortConfirms(l)
      BY <2>18 DEF AbortConfirms
    <2>19. CASE AbortCleans(l)
      BY <2>19 DEF AbortCleans, CleanupPidFile
    <2> QED
      BY <1>1, <2>1, <2>2, <2>3, <2>4, <2>5, <2>6, <2>7, <2>8, <2>9, <2>10,
         <2>11, <2>12, <2>13, <2>14, <2>15, <2>16, <2>17, <2>18, <2>19
         DEF StartDaemon
  <1>2. ASSUME NEW l \in Launchers, ManagerSteps(l)
       PROVE  QuietInv'
    <2>1. CASE Boot(l)
      BY <2>1 DEF Boot
    <2>2. CASE BootFails(l)
      BY <2>2 DEF BootFails
    <2>3. CASE BootOnAnotherNode(l)
      BY <2>3 DEF BootOnAnotherNode
    <2>4. CASE ShutdownCleans(l)
      <3>1. ASSUME Quiet
            PROVE  \A k \in Launchers : daemon[k] \in Active => k = l
        BY <2>4, <3>1, OneActive DEF ShutdownCleans
      <3> QED
        BY <2>4, <3>1 DEF ShutdownCleans, CleanupPidFile
    <2>5. CASE DaemonExits(l)
      BY <2>5 DEF DaemonExits
    <2> QED
      BY <1>2, <2>1, <2>2, <2>3, <2>4, <2>5
         DEF ManagerSteps
  <1>3. ASSUME NEW s \in Stoppers, StopNode(s)
       PROVE  QuietInv'
    <2>1. CASE StopReads(s)
      <3>1. ASSUME Quiet
            PROVE  \A k \in Launchers :
                     daemon[k] \in Active => pidFile.record.pid = DaemonPid(k)
        BY <2>1, <3>1, ReaderFindsActive DEF StopReads
      <3> QED
        BY <2>1, <3>1 DEF StopReads, ReadPidFile
    <2>2. CASE StopWouldOrphanFiber(s)
      BY <2>2 DEF StopWouldOrphanFiber
    <2>3. CASE StopProbes(s)
      BY <2>3 DEF StopProbes
    <2>4. CASE StopIdentifies(s)
      BY <2>4 DEF StopIdentifies
    <2>5. CASE StopSignals(s)
      BY <2>5 DEF StopSignals, Terminated
    <2>6. CASE StopWaits(s)
      BY <2>6 DEF StopWaits
    <2>7. CASE StopKills(s)
      <3>1. CASE \E l \in Launchers :
                    /\ srec[s].pid = DaemonPid(l)
                    /\ Terminated(l, "SIGKILL")
                    /\ SGoto(s, "cleanup")
        <4>1. PICK l \in Launchers :
                /\ srec[s].pid = DaemonPid(l)
                /\ Terminated(l, "SIGKILL")
                /\ SGoto(s, "cleanup")
          BY <3>1
        <4>2. daemon' = [daemon EXCEPT ![l] = "killed"]
          BY <4>1 DEF Terminated
        <4> QED
          BY <2>7, <4>1, <4>2 DEF StopKills
      <3>2. CASE ~Genuine(srec[s].pid) /\ UNCHANGED daemon
        BY <2>7, <3>2 DEF StopKills
      <3> QED
        BY <2>7, <3>1, <3>2 DEF StopKills
    <2>8. CASE StopCleans(s)
      BY <2>8 DEF StopCleans, CleanupPidFile
    <2>9. CASE StopCleansStale(s)
      BY <2>9 DEF StopCleansStale, CleanupPidFile
    <2> QED
      BY <1>3, <2>1, <2>2, <2>3, <2>4, <2>5, <2>6, <2>7, <2>8, <2>9
         DEF StopNode
  <1>4. CASE Environment
    <2>1. ASSUME NEW l \in Launchers, LaunchBegins(l)
         PROVE  QuietInv'
      <3>1. SUFFICES ASSUME Quiet'
                    PROVE  SingleWorker' /\ ManagersRecorded' /\ LaunchersKnow'
                             /\ StoppersKnow'
        OBVIOUS
      <3>2. Quiet /\ Working = {}
        BY <2>1, <3>1 DEF LaunchBegins
      <3>3. /\ \A k \in Launchers : lpc[k] \notin LWorking
            /\ \A t \in Stoppers : spc[t] \notin SWorking
        BY <3>2
      <3>4. SingleWorker'
        BY <2>1, <3>3 DEF LaunchBegins
      <3> QED
        BY <2>1, <3>2, <3>4 DEF LaunchBegins
    <2>2. ASSUME NEW l \in Launchers, LauncherCrashes(l)
         PROVE  QuietInv'
      BY <2>2 DEF LauncherCrashes
    <2>3. ASSUME NEW l \in Launchers, ComponentExits(l)
         PROVE  QuietInv'
      BY <2>3 DEF ComponentExits
    <2>4. ASSUME NEW l \in Launchers, DaemonCrashes(l)
         PROVE  QuietInv'
      BY <2>4 DEF DaemonCrashes
    <2>5. ASSUME NEW s \in Stoppers, StopBegins(s)
         PROVE  QuietInv'
      <3>1. SUFFICES ASSUME Quiet'
                    PROVE  SingleWorker' /\ ManagersRecorded' /\ LaunchersKnow'
                             /\ StoppersKnow'
        OBVIOUS
      <3>2. Quiet /\ Working = {}
        BY <2>5, <3>1 DEF StopBegins
      <3>3. /\ \A k \in Launchers : lpc[k] \notin LWorking
            /\ \A t \in Stoppers : spc[t] \notin SWorking
        BY <3>2
      <3>4. SingleWorker'
        BY <2>5, <3>3 DEF StopBegins
      <3> QED
        BY <2>5, <3>2, <3>4 DEF StopBegins
    <2>6. ASSUME NEW s \in Stoppers, StopperCrashes(s)
         PROVE  QuietInv'
      BY <2>6 DEF StopperCrashes
    <2>7. CASE OtherNode
      BY <2>7 DEF OtherNode
    <2>8. CASE ReusePid
      BY <2>8 DEF ReusePid
    <2> QED
      BY <1>4, <2>1, <2>2, <2>3, <2>4, <2>5, <2>6, <2>7, <2>8
         DEF Environment
  <1>5. CASE UNCHANGED vars
    BY <1>5 DEF vars
  <1> QED
    BY <1>1, <1>2, <1>3, <1>4, <1>5 DEF Next
-----------------------------------------------------------------------------
LEMMA Invariance ==
  Spec => [](TypeOK /\ Lifecycle /\ Established /\ Recorded /\ ActiveLaunched
               /\ QuietInv)
  BY InitInv, NextTyped, NextLifecycle, NextEstablished, NextRecorded,
     NextActive, NextQuiet, PTL DEF Spec

(* The file, the pids and the places of all commands keep their types.      *)
THEOREM DaemonTyped == Spec => []TypeOK
  BY Invariance, PTL

(* node stop reports success only when the manager it read of has exited or *)
(* was sent SIGKILL, and no PID file names that manager again (stopNode),   *)
(* whatever other commands do meanwhile.                                    *)
THEOREM StopKeepsPromise == Spec => []StopEndsManager
  <1>1. Established /\ Recorded => StopEndsManager
    BY DEF Established, Recorded, StopEndsManager
  <1> QED
    BY <1>1, Invariance, PTL

(* A start reports failure only when its manager is dead or was never       *)
(* spawned (failDaemonStartup).                                             *)
THEOREM FailedStartIsClean == Spec => []FailedStartLeavesNothing
  <1>1. Established => FailedStartLeavesNothing
    BY DEF Established, FailedStartLeavesNothing
  <1> QED
    BY <1>1, Invariance, PTL

(* For one command at a time, the PID file of a daemon that was reported    *)
(* started and still serves is there and names it (reservePidFile,          *)
(* writePidFile).                                                           *)
THEOREM QuietFileKept == Spec => []QuietDaemonRecorded
  <1>1. QuietInv => QuietDaemonRecorded
    BY DEF QuietInv, ManagersRecorded, Active, QuietDaemonRecorded,
           RunningDaemonRecorded
  <1> QED
    BY <1>1, Invariance, PTL

(* For one command at a time, no second manager comes up (the duplicate     *)
(* check of startDaemon).                                                   *)
THEOREM QuietNoDuplicate == Spec => []QuietOneDaemon
  <1>1. ActiveLaunched /\ QuietInv => QuietOneDaemon
    BY OneActive DEF Active, QuietOneDaemon
  <1> QED
    BY <1>1, Invariance, PTL

(* For one command at a time, and while no other node runs, the node that   *)
(* answers a launcher is its own (waitForNodeReady).                        *)
THEOREM QuietAnswerIsOwn == Spec => QuietReadyIsOwn
  <1>1. QuietInv /\ [Next]_vars
          => [\A l \in Launchers :
                SeeReady(l) /\ Quiet /\ ~otherNode => daemon[l] = "serving"]_vars
    BY DEF QuietInv, LaunchersKnow, Active, SeeReady, Answering
  <1> QED
    BY <1>1, Invariance, PTL DEF Spec, QuietReadyIsOwn

=============================================================================
