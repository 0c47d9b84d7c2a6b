\* Three commands: one to leave a stale lock, two to race for it.
CONSTANTS
  Procs = {p1, p2, p3}
  None = None
SPECIFICATION FairSpec
INVARIANTS
  TypeOK
  ExclusiveUnlessStolen
  SerialUseIsExclusive
  LeftoverNeedsCrash
  LostNeedsRace
PROPERTY AcquireEnds
CHECK_DEADLOCK FALSE
