\* A startup failure that leaves the FNNs running.
CONSTANTS
  Launchers = {l1}
  Foregrounds = {f1}
  Stoppers = {s1}
  Cleaners = {c1}
  MaxCommands = 3
  OldPid = OldPid
  NoPid = NoPid
SPECIFICATION Spec
INVARIANTS
  FailureStopsFnns
CHECK_DEADLOCK FALSE
