\* Two daemons and a stop, in any order and overlap.
CONSTANTS
  Launchers = {l1, l2}
  Stoppers = {s1}
  OldPid = OldPid
  NoPid = NoPid
SPECIFICATION Spec
SYMMETRY Symmetry
INVARIANTS
  TypeOK
  QuietDaemonRecorded
  QuietOneDaemon
  StopEndsManager
  FailedStartLeavesNothing
PROPERTY QuietReadyIsOwn
CHECK_DEADLOCK FALSE
