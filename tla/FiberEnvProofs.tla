--------------------------- MODULE FiberEnvProofs ---------------------------
(***************************************************************************)
(* Proofs about FiberEnv for any number of daemons, foreground starts,     *)
(* stops and cleans, whatever is killed or signalled.                      *)
(*                                                                         *)
(* The lock has one holder, and a command that works holds it: a manager   *)
(* from its preparation until it supervises, a stop and a clean until they *)
(* end (Holding).  A command that has found runtime.json stale under the   *)
(* lock, and still holds it, therefore knows that whoever supervises has   *)
(* lost its record (StaleSeen): nobody can have begun to supervise since.  *)
(* So a manager that supervises is named by runtime.json unless a late     *)
(* stop removed its record (Named), and two managers are never both named. *)
(***************************************************************************)
EXTENDS FiberEnv, TLAPS

(* A manager that holds the lock, and one that runtime.json should name.    *)
HoldsLock == (Preparing \ {"lock"}) \cup Starting \cup {"abandon", "ready"}
Recorded  == {"ready", "supervise", "stopping"}

(* Where a stop has a target, and where it knows that its target is dead.   *)
Targeting == {"term", "wait", "kill", "confirm"}
Confirmed == {"cleanpid", "dropRuntime", "stopped"}

(* Who holds the lock, and who has not come to it yet.                      *)
Holding ==
  /\ Lock!OneHolder
  /\ \A m \in Managers :
       /\ phase[m] = "out" => mpc[m] = "idle"
       /\ mpc[m] \in HoldsLock => phase[m] = "holding"
  /\ \A s \in Stoppers : spc[s] \in SWorking => phase[s] = "holding"
  /\ \A c \in Cleaners : cpc[c] \in CWorking => phase[c] = "holding"

(* The FNNs of a manager follow it, unless it died or went astray.          *)
FnnsFollow ==
  \A m \in Managers :
    /\ mpc[m] \in {"idle", "spawn"} \cup Preparing => fnn[m] = "none"
    /\ mpc[m] \in Recorded => fnn[m] \in {"open", "dead"}
    /\ mpc[m] \in {"drop", "cleanpid"} => fnn[m] = "dead"
    /\ mpc[m] = "stray" => m \in unrecorded
    /\ mpc[m] = "dead" /\ fnn[m] \in FnnLive => m \in killed

(* A target is dead once the stop has confirmed it. *)
TargetsKnown ==
  \A s \in Stoppers :
    /\ spc[s] \in Targeting \cup Confirmed => target[s] \in Managers
    /\ spc[s] \in Confirmed => mpc[target[s]] = "dead"

(* The child of a launcher that has spawned it, and of one that gave up.    *)
ChildKnown ==
  \A l \in Launchers :
    /\ lpc[l] \in {"record", "wait", "confirm", "abort", "abortWait"}
         => mpc[l] # "idle"
    /\ lpc[l] \in {"abortClean", "failed"} => mpc[l] = "dead"

Named ==
  \A m \in Managers :
    mpc[m] \in Recorded => runtime = Runtime(m, "running") \/ m \in lost

(* Who has found runtime.json stale, or absent, and holds the lock.         *)
FoundStale ==
  \/ \E m \in Managers :
       mpc[m] \in {"ports", "spawn", "record", "starting", "abandon"}
  \/ \E s \in Stoppers : spc[s] = "dropStale"
  \/ \E c \in Cleaners : cpc[c] \in CWorking \ {"runtime1"}

StaleSeen ==
  FoundStale =>
    \A m \in Managers : mpc[m] \in {"supervise", "stopping"} => m \in lost

(* A clean that has looked for open stores, and holds the lock, finds open  *)
(* later only those of managers that nothing leads to.                      *)
StoresSeen ==
  \A c \in Cleaners, m \in Managers :
    cpc[c] \in {"dropStale"} \cup Removing /\ fnn[m] = "open"
      => m \in killed \cup unrecorded

-----------------------------------------------------------------------------
(* The operations on the PID file keep its type. *)
LEMMA FilesKept ==
  ASSUME pidFile \in Files
  PROVE  /\ pidFile.record \in Records
         /\ CleanupPidFile => pidFile' \in Files
         /\ \A l \in Launchers :
              /\ OpenReservation(l) => pidFile' \in Files
              /\ WriteReservation(l) => pidFile' \in Files
              /\ \A status \in {"starting", "running"} :
                   WritePidFile(l, status) => pidFile' \in Files
  BY DEF Files, File, NoFile, Records, Record, NoRecord, Invalid, Statuses,
         Pids, DaemonPid, LauncherPid, CleanupPidFile, OpenReservation,
         WriteReservation, WritePidFile

LEMMA InitTyped == Init => TypeOK
  <1> SUFFICES ASSUME Init
               PROVE  TypeOK
    OBVIOUS
  <1>1. pidFile \in Files /\ NoRecord \in Records
    BY DEF Init, LeftoverFiles, Files, File, Records, Record, NoFile, NoRecord,
           Invalid, Statuses, Pids
  <1>2. runtime \in [manager : Managers \cup {OldPid},
                     status : {"starting", "running"}] \cup {NoRuntime}
    BY DEF Init, Runtime
  <1> QED
    BY <1>1, <1>2 DEF Init, TypeOK, Lock!TypeOK

-----------------------------------------------------------------------------
(* LeavesLock keeps the type of the phases, and takes the lock from its     *)
(* holder or changes nothing.                                               *)
LEMMA LeavingTyped ==
  ASSUME Lock!TypeOK, NEW p \in Commands, LeavesLock(p)
  PROVE  /\ Lock!TypeOK'
         /\ phase'[p] = IF phase[p] = "out" THEN "out" ELSE "gone"
         /\ \A q \in Commands \ {p} : phase'[q] = phase[q]
  BY DEF Lock!TypeOK, LeavesLock

LEMMA SignalTyped ==
  ASSUME TypeOK, NEW m \in Managers, Signalled(m)
  PROVE  /\ Lock!TypeOK'
         /\ mpc' \in [Managers -> {"idle", "dead"} \cup ManagerLive]
         /\ pending' \subseteq Managers
         /\ killed' \subseteq Managers /\ unrecorded' = unrecorded
  <1> USE DEF TypeOK, Lock!TypeOK, MGoto, Commands, deaths
  <1>1. CASE mpc[m] \in Unhandled \cup Leaving /\ LeavesLock(m) /\ MGoto(m, "dead")
             /\ killed' = killed \cup {m} /\ UNCHANGED <<pending, unrecorded>>
    BY <1>1, LeavingTyped
  <1> QED
    BY <1>1 DEF Signalled

LEMMA KillTyped ==
  ASSUME TypeOK, NEW m \in Managers, GroupKilled(m)
  PROVE  /\ Lock!TypeOK'
         /\ mpc' \in [Managers -> {"idle", "dead"} \cup ManagerLive]
         /\ fnn' \in [Managers -> {"none", "dead"} \cup FnnLive]
         /\ pending' = pending
         /\ killed' \subseteq Managers /\ unrecorded' = unrecorded
  BY LeavingTyped DEF GroupKilled, TypeOK, MGoto, Commands

-----------------------------------------------------------------------------
(* Every step keeps the types. *)
LEMMA ManagerTyped ==
  ASSUME TypeOK, NEW m \in Managers, ManagerSteps(m) \/ ManagerBegins(m)
  PROVE  TypeOK'
  <1> USE DEF TypeOK, Commands, MGoto, Fnn, MUnchanged, external, launcher,
          stopper, history, deaths, ManagerLive, Unhandled, Preparing,
          Starting, Supervising, Leaving, FnnLive
  <1>1. CASE ManagerBegins(m)
    BY <1>1 DEF ManagerBegins, Lock!Ask, Lock!TypeOK
  <1>2. CASE ManagerLocks(m)
    BY <1>2 DEF ManagerLocks, Lock!Grant, Lock!TypeOK
  <1>3. CASE ManagerPrepares(m) \/ ManagerChecks(m) \/ PortsFree(m)
    BY <1>3 DEF ManagerPrepares, ManagerChecks, PortsFree, Lock!TypeOK
  <1>4. CASE ManagerGivesUp(m) \/ Supervises(m) \/ ManagerExits(m)
    BY <1>4, LeavingTyped DEF ManagerGivesUp, Supervises, ManagerExits
  <1>5. CASE SpawnFnns(m) \/ StrayEnds(m)
    BY <1>5 DEF SpawnFnns, StrayEnds, Lock!TypeOK
  <1>6. CASE RecordStarting(m) \/ StartupPasses(m)
    BY <1>6 DEF RecordStarting, StartupPasses, Runtime, Lock!TypeOK
  <1>7. CASE RecordFails(m)
    BY <1>7, LeavingTyped DEF RecordFails
  <1>8. CASE StartupFails(m) \/ SupervisionEnds(m)
    BY <1>8 DEF StartupFails, SupervisionEnds, Lock!TypeOK
  <1>9. CASE FnnsStopped(m)
    BY <1>9 DEF FnnsStopped, Lock!TypeOK
  <1>10. CASE CleansOwnPid(m)
    BY <1>10, FilesKept DEF CleansOwnPid, Lock!TypeOK
  <1> QED
    BY <1>1, <1>2, <1>3, <1>4, <1>5, <1>6, <1>7, <1>8, <1>9, <1>10
    DEF ManagerSteps

LEMMA LauncherTyped ==
  ASSUME TypeOK, NEW l \in Launchers,
         LauncherSteps(l) \/ LaunchReads(l) \/ LauncherKilled(l)
  PROVE  TypeOK'
  <1> USE FilesKept
      DEF TypeOK, LGoto, LUnchanged, LOnly, LWorking, LEnded, external,
          manager, stopper, history, deaths
  <1>1. NoRecord \in Records /\ l \in Managers /\ l \in Commands
    BY DEF Records, Managers, Commands
  <1>2. CASE LaunchReads(l) \/ LaunchProbes(l)
    BY <1>1, <1>2 DEF LaunchReads, LaunchProbes, ReadPidFile, Lock!TypeOK
  <1>3. CASE \/ LaunchCleans(l) \/ LaunchReserves(l) \/ LaunchWrites(l)
             \/ LaunchPrepareFails(l) \/ LaunchAbortCleans(l)
    BY <1>1, <1>3 DEF LaunchCleans, LaunchReserves, LaunchWrites,
                      LaunchPrepareFails, LaunchAbortCleans, Lock!TypeOK
  <1>4. CASE LaunchSpawns(l)
    BY <1>1, <1>4 DEF LaunchSpawns, Lock!Ask, Lock!TypeOK, MGoto, ManagerLive,
                      Unhandled, Preparing
  <1>5. CASE LaunchRecords(l) \/ LaunchConfirms(l)
    BY <1>1, <1>5 DEF LaunchRecords, LaunchConfirms, Lock!TypeOK
  <1>6. CASE LaunchSeesReady(l) \/ LaunchWaitFails(l) \/ LauncherKilled(l)
    BY <1>1, <1>6 DEF LaunchSeesReady, LaunchWaitFails, LauncherKilled,
                      EUnchanged, Lock!TypeOK
  <1>7. CASE LaunchAborts(l)
    <2>1. CASE Signalled(l)
      BY <1>1, <1>7, <2>1, SignalTyped DEF LaunchAborts
    <2> QED
      BY <1>1, <1>7, <2>1 DEF LaunchAborts, Lock!TypeOK
  <1>8. CASE LaunchAbortWaits(l)
    <2>1. CASE GroupKilled(l)
      BY <1>1, <1>8, <2>1, KillTyped DEF LaunchAbortWaits
    <2> QED
      BY <1>1, <1>8, <2>1 DEF LaunchAbortWaits, Lock!TypeOK
  <1> QED
    BY <1>2, <1>3, <1>4, <1>5, <1>6, <1>7, <1>8 DEF LauncherSteps

LEMMA StopTyped ==
  ASSUME TypeOK, TargetsKnown,
         NEW s \in Stoppers, StopSteps(s) \/ StopBegins(s)
  PROVE  TypeOK'
  <1> USE FilesKept
      DEF TypeOK, SGoto, SUnchanged, SOnly, SWorking, SEnded, external,
          manager, launcher, stopper, history, deaths, Runtime
  <1>1. NoRecord \in Records /\ s \in Commands
    BY DEF Records, Commands
  <1>2. CASE StopBegins(s) \/ StopLocks(s)
    BY <1>1, <1>2 DEF StopBegins, StopLocks, Lock!Ask, Lock!Grant, Lock!Deny,
                      Lock!TypeOK
  <1>3. CASE StopReads(s)
    BY <1>1, <1>3 DEF StopReads, ReadPidFile, Lock!TypeOK
  <1>4. CASE StopProbes(s)
    <2>1. CASE SEnds(s, "refused") /\ UNCHANGED target
      BY <1>1, <1>4, <2>1, LeavingTyped DEF StopProbes, SEnds
    <2> QED
      BY <1>1, <1>4, <2>1 DEF StopProbes, Lock!TypeOK, Managers
  <1>5. CASE StopCleansStale(s) \/ StopCleansPid(s) \/ StopWaits(s)
    BY <1>1, <1>5 DEF StopCleansStale, StopCleansPid, StopWaits, Lock!TypeOK
  <1>6. CASE StopReadsRuntime(s)
    <2>1. CASE UNCHANGED target /\ LeavesLock(s)
      BY <1>1, <1>6, <2>1, LeavingTyped DEF StopReadsRuntime, SEnds
    <2>2. nodeDaemon \subseteq Managers
      BY DEF Managers
    <2> QED
      BY <1>1, <1>6, <2>1, <2>2 DEF StopReadsRuntime, SEnds, Lock!TypeOK
  <1>7. CASE StopDropsStale(s) \/ StopDropsRuntime(s)
    BY <1>1, <1>7, LeavingTyped
    DEF StopDropsStale, StopDropsRuntime, SEnds, NoRuntime
  <1>8. CASE StopSignals(s)
    <2>1. target[s] \in Managers
      BY <1>8 DEF StopSignals, TargetsKnown, Targeting
    <2>2. CASE Signalled(target[s])
      <3>1. spc' = [spc EXCEPT ![s] = "wait"]
            \/ spc' = [spc EXCEPT ![s] = "refused"]
        BY <1>8 DEF StopSignals, SEnds
      <3>2. UNCHANGED <<srec, target, fnn, runtime, pidFile, lost>>
            /\ SUnchanged
        BY <1>8 DEF StopSignals
      <3> QED
        BY <1>1, <2>1, <2>2, <3>1, <3>2, SignalTyped
    <2>3. CASE SEnds(s, "refused")
      BY <1>1, <1>8, <2>3, LeavingTyped DEF StopSignals, SEnds
    <2> QED
      BY <1>1, <1>8, <2>2, <2>3 DEF StopSignals, Lock!TypeOK
  <1>9. CASE StopKills(s)
    <2>1. target[s] \in Managers
      BY <1>9 DEF StopKills, TargetsKnown, Targeting
    <2>2. CASE GroupKilled(target[s])
      BY <1>1, <1>9, <2>1, <2>2, KillTyped DEF StopKills
    <2> QED
      BY <1>1, <1>9, <2>2 DEF StopKills, Lock!TypeOK
  <1>10. CASE StopConfirms(s)
    <2>1. CASE SEnds(s, "unconfirmed")
      BY <1>1, <1>10, <2>1, LeavingTyped DEF StopConfirms, SEnds
    <2> QED
      BY <1>1, <1>10, <2>1 DEF StopConfirms, Lock!TypeOK
  <1> QED
    BY <1>2, <1>3, <1>4, <1>5, <1>6, <1>7, <1>8, <1>9, <1>10
    DEF StopSteps

LEMMA CleanTyped ==
  ASSUME TypeOK, NEW c \in Cleaners, CleanSteps(c) \/ CleanBegins(c)
  PROVE  TypeOK'
  <1> USE DEF TypeOK, CGoto, CUnchanged, CWorking, CEnded, Removing, external,
          manager, launcher, stopper, history, deaths
  <1>1. c \in Commands
    BY DEF Commands
  <1>2. CASE CleanBegins(c) \/ CleanLocks(c)
    BY <1>1, <1>2 DEF CleanBegins, CleanLocks, Lock!Ask, Lock!Grant, Lock!Deny,
                      Lock!TypeOK
  <1>3. ASSUME NEW here, NEW next \in CWorking, NEW refuses,
               CleanChecks(c, here, next, refuses)
        PROVE  TypeOK'
    <2>1. CASE CEnds(c, "refused")
      BY <1>1, <1>3, <2>1, LeavingTyped DEF CleanChecks, CEnds
    <2> QED
      BY <1>1, <1>3, <2>1 DEF CleanChecks, Lock!TypeOK
  <1>4. CASE ChecksNodeDaemon(c) \/ CleanRemovesStores(c)
    BY <1>1, <1>4, LeavingTyped DEF ChecksNodeDaemon, CleanRemovesStores, CEnds
  <1>5. CASE CleanPrompts(c)
    <2>1. CASE CEnds(c, "refused")
      BY <1>1, <1>5, <2>1, LeavingTyped DEF CleanPrompts, CEnds
    <2> QED
      BY <1>1, <1>5, <2>1 DEF CleanPrompts, Lock!TypeOK
  <1>6. CASE CleanDropsStale(c)
    BY <1>1, <1>6 DEF CleanDropsStale, Lock!TypeOK
  <1>7. CASE CleanRemovesTree(c)
    BY <1>1, <1>7, LeavingTyped, FilesKept DEF CleanRemovesTree, CEnds
  <1> QED
    BY <1>2, <1>3, <1>4, <1>5, <1>6, <1>7
    DEF CleanSteps, CleanChecksRuntime, CleanChecksPid, CleanChecksStores

LEMMA FaultTyped ==
  ASSUME TypeOK, NEW m \in Managers,
         FnnOpens(m) \/ FnnDies(m) \/ UserSignals(m) \/ ManagerKilled(m)
  PROVE  TypeOK'
  <1> USE DEF TypeOK, EUnchanged, external, stopper, deaths
  <1>1. CASE FnnOpens(m) \/ FnnDies(m)
    BY <1>1 DEF FnnOpens, FnnDies, Fnn, FnnLive, Lock!TypeOK
  <1>2. CASE UserSignals(m)
    BY <1>2, SignalTyped DEF UserSignals
  <1>3. CASE ManagerKilled(m)
    BY <1>3, LeavingTyped DEF ManagerKilled, MGoto, Commands
  <1> QED
    BY <1>1, <1>2, <1>3

LEMMA NextTyped == TypeOK /\ TargetsKnown /\ [Next]_vars => TypeOK'
  <1> SUFFICES ASSUME TypeOK, TargetsKnown, [Next]_vars
               PROVE  TypeOK'
    OBVIOUS
  <1>1. CASE UNCHANGED vars
    BY <1>1 DEF vars, TypeOK, Lock!TypeOK, external, manager, launcher, stopper,
                history, deaths
  <1> QED
    BY <1>1, ManagerTyped, LauncherTyped, StopTyped, CleanTyped, FaultTyped
    DEF Next, Environment, Managers

-----------------------------------------------------------------------------
(* The inductive invariant, beside the types. *)
EnvInv ==
  /\ Holding /\ FnnsFollow /\ TargetsKnown /\ ChildKnown
  /\ Named /\ StaleSeen /\ StoresSeen

LEMMA InitInv == Init => EnvInv
  BY DEF Init, EnvInv, Holding, Lock!OneHolder, FnnsFollow, TargetsKnown,
         ChildKnown, Named, StaleSeen, FoundStale, StoresSeen, HoldsLock,
         Recorded, Targeting, Confirmed, Commands, Managers, Preparing,
         Starting, SWorking, CWorking, Removing

(* Every step keeps the invariant.                                          *)
LEMMA NextInv == TypeOK /\ EnvInv /\ [Next]_vars => EnvInv'
  <1> SUFFICES ASSUME TypeOK, EnvInv, [Next]_vars
               PROVE  EnvInv'
    OBVIOUS
  <1> USE CommandAssumption
      DEF EnvInv, Holding, Lock!OneHolder, FnnsFollow, TargetsKnown,
          ChildKnown, Named, StaleSeen, FoundStale, StoresSeen,
          HoldsLock, Recorded, Targeting, Confirmed
  <1> USE DEF TypeOK, Lock!TypeOK, LeavesLock, Commands, Managers, ManagerLive,
          Unhandled, Preparing, Starting, Supervising, Leaving, FnnLive,
          LWorking, SWorking, CWorking, Removing, Runtime, MGoto, LGoto, SGoto,
          CGoto, Fnn, SEnds, CEnds, external, manager, launcher, stopper,
          history, deaths
  <1>1. ASSUME NEW m \in Managers, ManagerSteps(m)
        PROVE  EnvInv'
    <2> USE DEF MUnchanged
    <2>1. CASE ManagerLocks(m)
      BY <2>1 DEF ManagerLocks, Lock!Grant
    <2>2. CASE ManagerPrepares(m) \/ PortsFree(m)
      BY <2>2 DEF ManagerPrepares, PortsFree
    <2>3. CASE ManagerChecks(m)
      BY <2>3 DEF ManagerChecks, RuntimeLive, ManagerAlive, NoRuntime
    <2>4. CASE ManagerGivesUp(m)
      BY <2>4 DEF ManagerGivesUp
    <2>5. CASE SpawnFnns(m)
      BY <2>5 DEF SpawnFnns
    <2>6. CASE RecordStarting(m)
      BY <2>6 DEF RecordStarting
    <2>7. CASE RecordFails(m)
      BY <2>7 DEF RecordFails
    <2>8. CASE StrayEnds(m)
      BY <2>8 DEF StrayEnds
    <2>9. CASE StartupPasses(m)
      BY <2>9 DEF StartupPasses
    <2>10. CASE Supervises(m)
      BY <2>10 DEF Supervises
    <2>11. CASE StartupFails(m)
      BY <2>11 DEF StartupFails
    <2>12. CASE SupervisionEnds(m)
      BY <2>12 DEF SupervisionEnds
    <2>13. CASE FnnsStopped(m)
      BY <2>13 DEF FnnsStopped
    <2>14. CASE CleansOwnPid(m)
      BY <2>14 DEF CleansOwnPid
    <2>15. CASE ManagerExits(m)
      BY <2>15 DEF ManagerExits
    <2> QED
      BY <1>1, <2>1, <2>2, <2>3, <2>4, <2>5, <2>6, <2>7, <2>8, <2>9, <2>10,
         <2>11, <2>12, <2>13, <2>14, <2>15 DEF ManagerSteps
  <1>2. ASSUME NEW l \in Launchers,
               LauncherSteps(l) \/ LaunchReads(l) \/ LauncherKilled(l)
        PROVE  EnvInv'
    <2> USE DEF LUnchanged, LOnly
    <2>1. CASE LaunchReads(l) \/ LaunchProbes(l)
      BY <2>1 DEF LaunchReads, LaunchProbes
    <2>2. CASE \/ LaunchCleans(l) \/ LaunchReserves(l) \/ LaunchWrites(l)
               \/ LaunchPrepareFails(l)
      BY <2>2 DEF LaunchCleans, LaunchReserves, LaunchWrites,
                  LaunchPrepareFails
    <2>3. CASE LaunchSpawns(l)
      BY <2>3 DEF LaunchSpawns, Lock!Ask
    <2>4. CASE LaunchRecords(l) \/ LaunchConfirms(l)
      BY <2>4 DEF LaunchRecords, LaunchConfirms
    <2>5. CASE LaunchSeesReady(l) \/ LaunchWaitFails(l) \/ LauncherKilled(l)
      BY <2>5 DEF LaunchSeesReady, LaunchWaitFails, LauncherKilled,
                  EUnchanged
    <2>6. CASE LaunchAborts(l)
      BY <2>6, SMTT(30) DEF LaunchAborts, Signalled
    <2>7. CASE LaunchAbortWaits(l)
      BY <2>7 DEF LaunchAbortWaits, GroupKilled
    <2>8. CASE LaunchAbortCleans(l)
      BY <2>8 DEF LaunchAbortCleans
    <2> QED
      BY <1>2, <2>1, <2>2, <2>3, <2>4, <2>5, <2>6, <2>7, <2>8
      DEF LauncherSteps
  <1>3. ASSUME NEW s \in Stoppers, StopSteps(s) \/ StopBegins(s)
        PROVE  EnvInv'
    <2> USE DEF SUnchanged, SOnly
    <2>1. CASE StopBegins(s) \/ StopLocks(s)
      BY <2>1 DEF StopBegins, StopLocks, Lock!Ask, Lock!Grant, Lock!Deny
    <2>2. CASE StopReads(s) \/ StopCleansStale(s)
      BY <2>2 DEF StopReads, StopCleansStale
    <2>3. CASE StopProbes(s)
      BY <2>3 DEF StopProbes
    <2>4. CASE StopReadsRuntime(s)
      BY <2>4, SMTT(30) DEF StopReadsRuntime, RuntimeLive, ManagerAlive, NoRuntime
    <2>5. CASE StopDropsStale(s)
      BY <2>5 DEF StopDropsStale
    <2>6. CASE StopSignals(s)
      BY <2>6 DEF StopSignals, Signalled
    <2>7. CASE StopWaits(s) \/ StopConfirms(s)
      BY <2>7 DEF StopWaits, StopConfirms
    <2>8. CASE StopKills(s)
      BY <2>8, SMTT(30) DEF StopKills, GroupKilled
    <2>9. CASE StopCleansPid(s)
      BY <2>9 DEF StopCleansPid
    <2>10. CASE StopDropsRuntime(s)
      BY <2>10 DEF StopDropsRuntime, NoRuntime
    <2> QED
      BY <1>3, <2>1, <2>2, <2>3, <2>4, <2>5, <2>6, <2>7, <2>8, <2>9, <2>10
      DEF StopSteps
  <1>4. ASSUME NEW c \in Cleaners, CleanSteps(c) \/ CleanBegins(c)
        PROVE  EnvInv'
    <2> USE DEF CUnchanged
    <2>1. CASE CleanBegins(c) \/ CleanLocks(c)
      BY <2>1 DEF CleanBegins, CleanLocks, Lock!Ask, Lock!Grant, Lock!Deny
    <2>2. CASE ChecksNodeDaemon(c)
      BY <2>2 DEF ChecksNodeDaemon
    <2>3. CASE \/ CleanChecksRuntime(c, "runtime1", "pid1")
               \/ CleanChecksRuntime(c, "runtime2", "pid2")
      BY <2>3, SMTT(30) DEF CleanChecksRuntime, CleanChecks, RuntimeLive, ManagerAlive,
                  NoRuntime
    <2>4. CASE \/ CleanChecksPid(c, "pid1", "stores1")
               \/ CleanChecksPid(c, "pid2", "stores2")
      BY <2>4 DEF CleanChecksPid, CleanChecks
    <2>5. ASSUME NEW here \in {"stores1", "stores2"},
                 NEW next \in {"prompt", "dropStale", "removeTree"},
                 CleanChecksStores(c, here, next)
          PROVE  EnvInv'
      BY <2>5 DEF CleanChecksStores, CleanChecks, StoreHeld
    <2>6. CASE CleanPrompts(c)
      BY <2>6, SMTT(30) DEF CleanPrompts
    <2>7. CASE CleanDropsStale(c)
      BY <2>7 DEF CleanDropsStale, NoRuntime
    <2>8. CASE CleanRemovesStores(c)
      BY <2>8 DEF CleanRemovesStores
    <2>9. CASE CleanRemovesTree(c)
      BY <2>9 DEF CleanRemovesTree, NoRuntime
    <2> QED
      BY <1>4, <2>1, <2>2, <2>3, <2>4, <2>5, <2>6, <2>7, <2>8, <2>9
      DEF CleanSteps
  <1>5. ASSUME NEW m \in Managers,
               FnnOpens(m) \/ FnnDies(m) \/ UserSignals(m) \/ ManagerKilled(m)
        PROVE  EnvInv'
    <2> USE DEF EUnchanged
    <2>1. CASE FnnOpens(m)
      BY <2>1 DEF FnnOpens
    <2>2. CASE FnnDies(m)
      BY <2>2 DEF FnnDies
    <2>3. CASE UserSignals(m)
      BY <2>3 DEF UserSignals, Signalled
    <2>4. CASE ManagerKilled(m)
      BY <2>4 DEF ManagerKilled
    <2> QED
      BY <1>5, <2>1, <2>2, <2>3, <2>4
  <1>6. ASSUME NEW f \in Foregrounds, ManagerBegins(f)
        PROVE  EnvInv'
    BY <1>6 DEF ManagerBegins, Lock!Ask, MUnchanged
  <1>7. CASE UNCHANGED vars
    BY <1>7 DEF vars
  <1> QED
    BY <1>1, <1>2, <1>3, <1>4, <1>5, <1>6, <1>7 DEF Next, Environment

LEMMA Invariance == Spec => [](TypeOK /\ EnvInv)
  <1>1. EnvInv => TargetsKnown
    BY DEF EnvInv
  <1> QED
    BY <1>1, InitTyped, InitInv, NextTyped, NextInv, PTL DEF Spec

-----------------------------------------------------------------------------
(* Every reachable state is well typed. *)
THEOREM FiberTyped == Spec => []TypeOK
  BY Invariance, PTL

(* fiber stop reports success only for a manager that is dead. *)
THEOREM StopIsConfirmed == Spec => []StoppedIsDead
  <1>1. EnvInv => StoppedIsDead
    BY DEF EnvInv, TargetsKnown, Confirmed, StoppedIsDead
  <1> QED
    BY <1>1, Invariance, PTL

(* A daemon start that fails leaves no manager unless it says so or its     *)
(* last writePidFile threw; a manager that it leaves and that supervises is *)
(* named by runtime.json (startFiberDaemon, failFiberDaemonStartup).        *)
THEOREM FailedStartLeavesARecord == Spec => []FailedStartIsKnown
  <1>1. EnvInv => FailedStartIsKnown
    BY CommandAssumption
    DEF EnvInv, ChildKnown, FnnsFollow, Named, Recorded, Managers,
        ManagerLive, Unhandled, Preparing, Starting, Supervising, Leaving,
        FailedStartIsKnown
  <1> QED
    BY <1>1, Invariance, PTL

(* runtime.json names the manager that supervises, unless a late stop of    *)
(* another manager has removed its record.                                  *)
THEOREM SupervisorIsNamed == Spec => []SupervisorRecorded
  <1>1. EnvInv => SupervisorRecorded
    BY DEF EnvInv, Named, Recorded, Supervising, SupervisorRecorded
  <1> QED
    BY <1>1, Invariance, PTL

(* No clean command removes a store that an FNN has open, unless nothing    *)
(* leads to that FNN.                                                       *)
THEOREM CleanSparesStores == Spec => []ManagedStoreKept
  <1>1. EnvInv => ManagedStoreKept
    BY DEF EnvInv, StoresSeen, ManagedStoreKept
  <1> QED
    BY <1>1, Invariance, PTL

(* Two Fiber environments live side by side only when the manager of one    *)
(* died, could not record itself or lost its record.                        *)
THEOREM EnvironmentIsSingle == Spec => []OneEnvironment
  <1>1. TypeOK /\ EnvInv => OneEnvironment
    <2> SUFFICES ASSUME TypeOK, EnvInv, NEW m \in Managers, NEW n \in Managers,
                        fnn[m] \in FnnLive, fnn[n] \in FnnLive, m # n,
                        {m, n} \cap (killed \cup unrecorded \cup lost) = {}
                 PROVE  FALSE
      BY DEF OneEnvironment
    <2>1. ASSUME NEW k \in {m, n}
          PROVE  \/ mpc[k] \in {"record", "starting", "abandon"}
                      /\ phase[k] = "holding"
                 \/ mpc[k] = "ready" /\ phase[k] = "holding"
                      /\ runtime = Runtime(k, "running")
                 \/ mpc[k] \in {"supervise", "stopping"}
                      /\ runtime = Runtime(k, "running")
      BY DEF TypeOK, EnvInv, Holding, HoldsLock, FnnsFollow, Named, Recorded,
             ManagerLive, Unhandled, Preparing, Starting, Supervising, Leaving,
             FnnLive
    <2>2. ~(phase[m] = "holding" /\ phase[n] = "holding")
      BY DEF EnvInv, Holding, Lock!OneHolder, Commands
    <2>3. Runtime(m, "running") # Runtime(n, "running")
      BY DEF Runtime
    <2>4. ~\E k, j \in {m, n} :
             /\ mpc[k] \in {"record", "starting", "abandon"}
             /\ mpc[j] \in {"supervise", "stopping"}
      BY DEF EnvInv, StaleSeen, FoundStale
    <2> QED
      BY <2>1, <2>2, <2>3, <2>4
  <1> QED
    BY <1>1, Invariance, PTL

=============================================================================
