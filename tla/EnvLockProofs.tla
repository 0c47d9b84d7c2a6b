--------------------------- MODULE EnvLockProofs ---------------------------
(***************************************************************************)
(* Proofs about EnvLock for any set of commands.                           *)
(*                                                                         *)
(* While no owner's file has been removed, the file at the path is the     *)
(* file of every owner (OwnerHasFile), so there is one owner at most.      *)
(* An owner's file can only be removed by an acquirer that met another one *)
(* half way (SerialInv): alone, it reads a complete record, and finds its  *)
(* writer alive while that writer owns the lock.                           *)
(***************************************************************************)
EXTENDS EnvLock, TLAPS

(* The file of an owner is at the path unless an acquirer has removed it.  *)
OwnerHasFile ==
  ~stolen => \A p \in Procs : pc[p] \in Owning => lockFile = p

(* A command at work is a live process. *)
WorkersLive ==
  \A p \in Procs : pc[p] \in Acquiring \cup Owning => p \in pidLive

(* A command that is past acquireEnvLock has written its record. *)
OwnersRecorded ==
  \A p \in Procs : pc[p] \in Owning \ {"write"} => p \in recorded

(* What an acquirer that is alone knows of the file at the path.           *)
OneAcquirer == \A p, q \in Acquirers : p = q

ProbesTheFile ==
  \A p \in Procs : pc[p] = "probe" => lockFile \in {None, seen[p]}

BreaksNoOwner ==
  \A p \in Procs :
    pc[p] = "unlink" /\ lockFile # None => pc[lockFile] \notin Owning

SerialInv ==
  /\ WorkersLive
  /\ OwnersRecorded
  /\ ~overlapped =>
       OneAcquirer /\ ProbesTheFile /\ BreaksNoOwner /\ ~stolen

(* What an acquirer that nobody disturbs knows of its attempts. *)
AttemptInv ==
  \A p \in Procs :
    /\ pc[p] = "idle" => attempt[p] = 1
    /\ ~touched[p] =>
         /\ pc[p] = "open" /\ attempt[p] = 2 => lockFile = None
         /\ pc[p] \in {"read", "probe", "unlink"} =>
              lockFile # None /\ attempt[p] = 1
         /\ pc[p] # "lost"

-----------------------------------------------------------------------------
LEMMA InitTyped == Init => TypeOK
  BY 1 \in 1..2 DEF Init, TypeOK, Max_Attempts, Acquiring, Owning, Ended

LEMMA NextTyped == TypeOK /\ [Next]_vars => TypeOK'
  <1> SUFFICES ASSUME TypeOK, [Next]_vars
               PROVE  TypeOK'
    OBVIOUS
  <1> USE DEF TypeOK, Acquiring, Owning, Ended, Max_Attempts, Goto,
              own, shared, history
  <1>1. ASSUME NEW p \in Procs, AcquireEnvLock(p)
        PROVE  TypeOK'
    <2>1. CASE OpenCreates(p)
      BY <2>1 DEF OpenCreates, TouchedBy, Acquirers
    <2>2. CASE OpenExists(p) \/ OpenFails(p)
      BY <2>2 DEF OpenExists, OpenFails
    <2>3. CASE ReadRecord(p)
      BY <2>3 DEF ReadRecord, LockRecord
    <2>4. CASE ProbeHolder(p)
      BY <2>4 DEF ProbeHolder
    <2>5. CASE BreakLock(p)
      BY <2>5 DEF BreakLock, TouchedBy, Acquirers
    <2>6. CASE BreakFindsNothing(p) \/ BreakFails(p)
      BY <2>6 DEF BreakFindsNothing, BreakFails
    <2>7. CASE WriteRecord(p) \/ WriteFails(p)
      BY <2>7 DEF WriteRecord, WriteFails
    <2> QED
      BY <1>1, <2>1, <2>2, <2>3, <2>4, <2>5, <2>6, <2>7 DEF AcquireEnvLock
  <1>2. ASSUME NEW p \in Procs, ReleaseEnvLock(p)
        PROVE  TypeOK'
    <2>1. CASE Release(p) \/ ReleaseRead(p) \/ ReleaseFails(p)
      BY <2>1 DEF Release, ReleaseRead, ReleaseFails
    <2>2. CASE ReleaseUnlink(p)
      BY <2>2 DEF ReleaseUnlink, TouchedBy, Acquirers
    <2> QED
      BY <1>2, <2>1, <2>2 DEF ReleaseEnvLock
  <1>3. ASSUME NEW p \in Procs, Environment(p)
        PROVE  TypeOK'
    BY <1>3 DEF Environment, Start, Crash, Exit, RecyclePid, Acquirers
  <1>4. CASE UNCHANGED vars
    BY <1>4 DEF vars
  <1> QED
    BY <1>1, <1>2, <1>3, <1>4 DEF Next

(* Every reachable state is well typed. *)
THEOREM TypeCorrect == Spec => []TypeOK
  BY InitTyped, NextTyped, PTL DEF Spec

-----------------------------------------------------------------------------
LEMMA NextKeepsOwners ==
  TypeOK /\ OwnerHasFile /\ [Next]_vars => OwnerHasFile'
  <1> SUFFICES ASSUME TypeOK, OwnerHasFile, [Next]_vars
               PROVE  OwnerHasFile'
    OBVIOUS
  <1> USE NoneAssumption
          DEF TypeOK, OwnerHasFile, Acquiring, Owning, Ended, Goto,
              own, shared, history
  <1>1. ASSUME NEW p \in Procs, AcquireEnvLock(p)
        PROVE  OwnerHasFile'
    <2>1. CASE OpenCreates(p)
      BY <2>1 DEF OpenCreates
    <2>2. CASE OpenExists(p) \/ OpenFails(p)
      BY <2>2 DEF OpenExists, OpenFails
    <2>3. CASE ReadRecord(p) \/ ProbeHolder(p)
      BY <2>3 DEF ReadRecord, ProbeHolder
    <2>4. CASE BreakLock(p)
      BY <2>4, ZenonT(30) DEF BreakLock
    <2>5. CASE BreakFindsNothing(p) \/ BreakFails(p)
      BY <2>5 DEF BreakFindsNothing, BreakFails
    <2>6. CASE WriteRecord(p) \/ WriteFails(p)
      BY <2>6 DEF WriteRecord, WriteFails
    <2> QED
      BY <1>1, <2>1, <2>2, <2>3, <2>4, <2>5, <2>6 DEF AcquireEnvLock
  <1>2. ASSUME NEW p \in Procs, ReleaseEnvLock(p)
        PROVE  OwnerHasFile'
    BY <1>2 DEF ReleaseEnvLock, Release, ReleaseRead, ReleaseUnlink,
                ReleaseFails
  <1>3. ASSUME NEW p \in Procs, Environment(p)
        PROVE  OwnerHasFile'
    BY <1>3 DEF Environment, Start, Crash, Exit, RecyclePid
  <1>4. CASE UNCHANGED vars
    BY <1>4 DEF vars
  <1> QED
    BY <1>1, <1>2, <1>3, <1>4 DEF Next

(* Exclusion is lost only when an acquirer has removed the lock file of a   *)
(* live owner.                                                              *)
THEOREM ExclusionUnlessStolen == Spec => []ExclusiveUnlessStolen
  <1>1. Init => OwnerHasFile
    BY DEF Init, OwnerHasFile, Owning
  <1>2. OwnerHasFile => ExclusiveUnlessStolen
    BY DEF OwnerHasFile, ExclusiveUnlessStolen, MutualExclusion, Holders,
           Owning
  <1> QED
    BY <1>1, <1>2, NextKeepsOwners, TypeCorrect, PTL DEF Spec

-----------------------------------------------------------------------------
(* A lock file whose creator has ended by itself, with neither a crash nor  *)
(* a failed write or unlink, is never found at the path.                    *)
THEOREM LeftoverLocks == Spec => []LeftoverNeedsCrash
  <1>1. Init => LeftoverNeedsCrash
    BY DEF Init, LeftoverNeedsCrash
  <1>2. TypeOK /\ LeftoverNeedsCrash /\ [Next]_vars => LeftoverNeedsCrash'
    <2> SUFFICES ASSUME TypeOK, LeftoverNeedsCrash, [Next]_vars
                 PROVE  LeftoverNeedsCrash'
      OBVIOUS
    <2> USE NoneAssumption
            DEF TypeOK, LeftoverNeedsCrash, Acquiring, Owning, Ended, Goto,
                own, shared, history
    <2>1. ASSUME NEW p \in Procs, AcquireEnvLock(p)
          PROVE  LeftoverNeedsCrash'
      BY <2>1 DEF AcquireEnvLock, OpenCreates, OpenExists, OpenFails,
                  ReadRecord, ProbeHolder, BreakLock, BreakFindsNothing,
                  BreakFails, WriteRecord, WriteFails
    <2>2. ASSUME NEW p \in Procs, ReleaseEnvLock(p)
          PROVE  LeftoverNeedsCrash'
      BY <2>2 DEF ReleaseEnvLock, Release, ReleaseRead, ReleaseUnlink,
                  ReleaseFails, LockRecord
    <2>3. ASSUME NEW p \in Procs, Environment(p)
          PROVE  LeftoverNeedsCrash'
      BY <2>3 DEF Environment, Start, Crash, Exit, RecyclePid
    <2>4. CASE UNCHANGED vars
      BY <2>4 DEF vars
    <2> QED
      BY <2>1, <2>2, <2>3, <2>4 DEF Next
  <1> QED
    BY <1>1, <1>2, TypeCorrect, PTL DEF Spec
-----------------------------------------------------------------------------
LEMMA NextKeepsAttempts ==
  TypeOK /\ AttemptInv /\ [Next]_vars => AttemptInv'
  <1> SUFFICES ASSUME TypeOK, AttemptInv, [Next]_vars
               PROVE  AttemptInv'
    OBVIOUS
  <1> USE NoneAssumption
          DEF TypeOK, AttemptInv, Acquiring, Owning, Ended, Goto, Max_Attempts,
              TouchedBy, Acquirers, own, shared, history
  <1>1. ASSUME NEW p \in Procs, AcquireEnvLock(p)
        PROVE  AttemptInv'
    <2>1. CASE OpenCreates(p)
      BY <2>1 DEF OpenCreates
    <2>2. CASE OpenExists(p) \/ OpenFails(p)
      BY <2>2 DEF OpenExists, OpenFails
    <2>3. CASE ReadRecord(p) \/ ProbeHolder(p)
      BY <2>3 DEF ReadRecord, ProbeHolder
    <2>4. CASE BreakLock(p)
      <3>1. ASSUME NEW q \in Procs, q # p
            PROVE  /\ pc'[q] = pc[q] /\ attempt'[q] = attempt[q]
                   /\ ~touched'[q] => ~touched[q] /\ pc[q] \notin Acquiring
        BY <2>4, <3>1 DEF BreakLock
      <3>2. /\ pc'[p] = IF attempt[p] = 1 THEN "open" ELSE "lost"
            /\ ~touched'[p] => ~touched[p]
            /\ lockFile' = None
        BY <2>4 DEF BreakLock
      <3>3. ~touched[p] => attempt[p] = 1
        BY <2>4 DEF BreakLock
      <3> QED
        BY <3>1, <3>2, <3>3
    <2>5. CASE BreakFindsNothing(p) \/ BreakFails(p)
      BY <2>5 DEF BreakFindsNothing, BreakFails
    <2>6. CASE WriteRecord(p) \/ WriteFails(p)
      BY <2>6 DEF WriteRecord, WriteFails
    <2> QED
      BY <1>1, <2>1, <2>2, <2>3, <2>4, <2>5, <2>6 DEF AcquireEnvLock
  <1>2. ASSUME NEW p \in Procs, ReleaseEnvLock(p)
        PROVE  AttemptInv'
    BY <1>2 DEF ReleaseEnvLock, Release, ReleaseRead, ReleaseUnlink,
                ReleaseFails
  <1>3. ASSUME NEW p \in Procs, Environment(p)
        PROVE  AttemptInv'
    BY <1>3 DEF Environment, Start, Crash, Exit, RecyclePid
  <1>4. CASE UNCHANGED vars
    BY <1>4 DEF vars
  <1> QED
    BY <1>1, <1>2, <1>3, <1>4 DEF Next

(* The two attempts suffice for a command that nobody races. *)
THEOREM TwoAttemptsSuffice == Spec => []LostNeedsRace
  <1>1. Init => AttemptInv
    BY DEF Init, AttemptInv
  <1>2. AttemptInv => LostNeedsRace
    BY DEF AttemptInv, LostNeedsRace
  <1> QED
    BY <1>1, <1>2, NextKeepsAttempts, TypeCorrect, PTL DEF Spec

-----------------------------------------------------------------------------
LEMMA NextKeepsSerial ==
  TypeOK /\ SerialInv /\ [Next]_vars => SerialInv'
  <1> SUFFICES ASSUME TypeOK, SerialInv, [Next]_vars
               PROVE  SerialInv'
    OBVIOUS
  <1> USE NoneAssumption
          DEF TypeOK, SerialInv, WorkersLive, OwnersRecorded, OneAcquirer,
              ProbesTheFile, BreaksNoOwner, Acquirers, Acquiring, Owning,
              Ended, Goto, own, shared, history
  <1>1. ASSUME NEW p \in Procs, AcquireEnvLock(p)
        PROVE  SerialInv'
    <2>1. CASE OpenCreates(p)
      BY <2>1 DEF OpenCreates
    <2>2. CASE OpenExists(p) \/ OpenFails(p)
      BY <2>2 DEF OpenExists, OpenFails
    <2>3. CASE ReadRecord(p)
      BY <2>3 DEF ReadRecord, LockRecord
    <2>4. CASE ProbeHolder(p)
      BY <2>4 DEF ProbeHolder
    <2>5. CASE BreakLock(p)
      BY <2>5 DEF BreakLock
    <2>6. CASE BreakFindsNothing(p) \/ BreakFails(p)
      BY <2>6 DEF BreakFindsNothing, BreakFails
    <2>7. CASE WriteRecord(p) \/ WriteFails(p)
      BY <2>7 DEF WriteRecord, WriteFails
    <2> QED
      BY <1>1, <2>1, <2>2, <2>3, <2>4, <2>5, <2>6, <2>7 DEF AcquireEnvLock
  <1>2. ASSUME NEW p \in Procs, ReleaseEnvLock(p)
        PROVE  SerialInv'
    BY <1>2 DEF ReleaseEnvLock, Release, ReleaseRead, ReleaseUnlink,
                ReleaseFails
  <1>3. ASSUME NEW p \in Procs, Environment(p)
        PROVE  SerialInv'
    <2>1. CASE Start(p)
      BY <2>1, ZenonT(30) DEF Start
    <2>2. CASE Crash(p)
      BY <2>2 DEF Crash
    <2>3. CASE Exit(p) \/ RecyclePid(p)
      BY <2>3 DEF Exit, RecyclePid
    <2> QED
      BY <1>3, <2>1, <2>2, <2>3 DEF Environment
  <1>4. CASE UNCHANGED vars
    BY <1>4 DEF vars
  <1> QED
    BY <1>1, <1>2, <1>3, <1>4 DEF Next

LEMMA InitSerial == Init => SerialInv
  BY DEF Init, SerialInv, WorkersLive, OwnersRecorded, OneAcquirer,
         ProbesTheFile, BreaksNoOwner, Acquirers, Acquiring, Owning

(* Commands that are never inside acquireEnvLock together never hold the    *)
(* lock together.                                                           *)
THEOREM SerialExclusion == Spec => []SerialUseIsExclusive
  <1>1. SerialInv /\ ExclusiveUnlessStolen => SerialUseIsExclusive
    BY DEF SerialInv, ExclusiveUnlessStolen, SerialUseIsExclusive
  <1> QED
    BY <1>1, InitSerial, NextKeepsSerial, TypeCorrect, ExclusionUnlessStolen,
       PTL DEF Spec
-----------------------------------------------------------------------------
(* The command p is the only one whose phase a step changes. *)
PhaseStep(p, from, to) ==
  /\ Phase(p) = from
  /\ Phase(p)' = to
  /\ \A q \in Procs \ {p} : Phase(q)' = Phase(q)

LEMMA StepOfTheLock ==
  ASSUME NEW p \in Procs,
         \/ PhaseStep(p, "out", "asking")
         \/ /\ PhaseStep(p, "asking", "holding")
            /\ \A q \in Procs : Phase(q) # "holding"
         \/ PhaseStep(p, "asking", "gone")
         \/ PhaseStep(p, "holding", "gone")
         \/ \A q \in Procs : Phase(q)' = Phase(q)
  PROVE  [Lock!Next]_phases
  <1>1. ASSUME NEW from, NEW to, PhaseStep(p, from, to)
        PROVE  phases[p] = from /\ phases' = [phases EXCEPT ![p] = to]
    BY <1>1 DEF PhaseStep, phases
  <1>2. CASE PhaseStep(p, "out", "asking")
    BY <1>1, <1>2 DEF Lock!Next, Lock!Ask
  <1>3. CASE /\ PhaseStep(p, "asking", "holding")
             /\ \A q \in Procs : Phase(q) # "holding"
    BY <1>1, <1>3 DEF phases, Lock!Next, Lock!Grant
  <1>4. CASE PhaseStep(p, "asking", "gone")
    BY <1>1, <1>4 DEF Lock!Next, Lock!Deny
  <1>5. CASE PhaseStep(p, "holding", "gone")
    BY <1>1, <1>5 DEF Lock!Next, Lock!Leave
  <1>6. CASE \A q \in Procs : Phase(q)' = Phase(q)
    BY <1>6 DEF phases
  <1> QED
    BY <1>2, <1>3, <1>4, <1>5, <1>6

LEMMA NextIsALockStep ==
  TypeOK /\ OwnerHasFile /\ ~stolen /\ [Next]_vars
    => [Lock!Next]_phases
  <1> SUFFICES ASSUME TypeOK, OwnerHasFile, ~stolen, [Next]_vars
               PROVE  [Lock!Next]_phases
    OBVIOUS
  <1> USE DEF PhaseStep, Phase, TypeOK, Acquiring, Owning, Ended, Goto,
              own, shared, history
  <1>1. ASSUME NEW p \in Procs, AcquireEnvLock(p)
        PROVE  [Lock!Next]_phases
    <2>1. CASE OpenCreates(p)
      <3>1. \A q \in Procs : Phase(q) # "holding"
        BY <2>1, NoneAssumption DEF OpenCreates, OwnerHasFile
      <3>2. PhaseStep(p, "asking", "holding")
        BY <2>1 DEF OpenCreates
      <3> QED
        BY <3>1, <3>2, StepOfTheLock
    <2>2. CASE \/ OpenFails(p) \/ BreakFindsNothing(p) \/ BreakFails(p)
      <3>1. PhaseStep(p, "asking", "gone")
        BY <2>2 DEF OpenFails, BreakFindsNothing, BreakFails
      <3> QED
        BY <3>1, StepOfTheLock
    <2>3. CASE OpenExists(p) \/ ReadRecord(p) \/ WriteRecord(p)
      <3>1. \A q \in Procs : Phase(q)' = Phase(q)
        BY <2>3 DEF OpenExists, ReadRecord, WriteRecord
      <3> QED
        BY <3>1, StepOfTheLock
    <2>4. CASE ProbeHolder(p)
      <3>1. \/ PhaseStep(p, "asking", "gone")
            \/ \A q \in Procs : Phase(q)' = Phase(q)
        BY <2>4 DEF ProbeHolder
      <3> QED
        BY <3>1, StepOfTheLock
    <2>5. CASE BreakLock(p)
      <3>1. \/ PhaseStep(p, "asking", "gone")
            \/ \A q \in Procs : Phase(q)' = Phase(q)
        BY <2>5 DEF BreakLock
      <3> QED
        BY <3>1, StepOfTheLock
    <2>6. CASE WriteFails(p)
      <3>1. PhaseStep(p, "holding", "gone")
        BY <2>6 DEF WriteFails
      <3> QED
        BY <3>1, StepOfTheLock
    <2> QED
      BY <1>1, <2>1, <2>2, <2>3, <2>4, <2>5, <2>6 DEF AcquireEnvLock
  <1>2. ASSUME NEW p \in Procs, ReleaseEnvLock(p)
        PROVE  [Lock!Next]_phases
    <2>1. \/ PhaseStep(p, "holding", "gone")
          \/ \A q \in Procs : Phase(q)' = Phase(q)
      BY <1>2 DEF ReleaseEnvLock, Release, ReleaseRead, ReleaseUnlink,
                  ReleaseFails
    <2> QED
      BY <2>1, StepOfTheLock
  <1>3. ASSUME NEW p \in Procs, Environment(p)
        PROVE  [Lock!Next]_phases
    <2>1. CASE Start(p)
      <3>1. PhaseStep(p, "out", "asking")
        BY <2>1 DEF Start
      <3> QED
        BY <3>1, StepOfTheLock
    <2>2. CASE Crash(p)
      <3>1. PhaseStep(p, "asking", "gone") \/ PhaseStep(p, "holding", "gone")
        BY <2>2 DEF Crash
      <3> QED
        BY <3>1, StepOfTheLock
    <2>3. CASE Exit(p) \/ RecyclePid(p)
      <3>1. \A q \in Procs : Phase(q)' = Phase(q)
        BY <2>3 DEF Exit, RecyclePid
      <3> QED
        BY <3>1, StepOfTheLock
    <2> QED
      BY <1>3, <2>1, <2>2, <2>3 DEF Environment
  <1>4. CASE UNCHANGED vars
    BY <1>4 DEF vars, phases
  <1> QED
    BY <1>1, <1>2, <1>3, <1>4 DEF Next

(* The lock file implements the lock tried once, for commands that enter    *)
(* acquireEnvLock one at a time.                                            *)
THEOREM SerialImplementsTryLock == SerialSpec => TryLockPromise
  <1>1. Init => Lock!Init
    BY DEF Init, Lock!Init, phases, Phase, Owning, Ended
  <1>2. Init => OwnerHasFile /\ ~overlapped
    BY DEF Init, OwnerHasFile, Owning
  <1>3. ~overlapped /\ [Next /\ ~overlapped']_vars => ~overlapped'
    BY DEF vars, history
  <1>4. SerialInv /\ ~overlapped => ~stolen
    BY DEF SerialInv
  <1>5. [Next /\ ~overlapped']_vars => [Next]_vars
    OBVIOUS
  <1> QED
    BY <1>1, <1>2, <1>3, <1>4, <1>5, InitTyped, NextTyped, NextKeepsOwners,
       InitSerial, NextKeepsSerial, NextIsALockStep,
       PTL DEF SerialSpec, TryLockPromise, Lock!Spec
=============================================================================
