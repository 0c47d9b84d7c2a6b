\* One command of each kind, at most three of them in one behaviour.
CONSTANTS
  Launchers = {l1}
  Foregrounds = {f1}
  Stoppers = {s1}
  Cleaners = {c1}
  MaxCommands = 3
  OldPid = OldPid
  NoPid = NoPid
SPECIFICATION Spec
INVARIANTS
  TypeOK
  ManagedStoreKept
  OneEnvironment
  SupervisorRecorded
  StoppedIsDead
  FailedStartIsKnown
CHECK_DEADLOCK FALSE
