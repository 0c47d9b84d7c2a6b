\* One FNN; a component that dies while the FNN starts is never noticed.
CONSTANTS
  Fnns = {f1}
SPECIFICATION FairSpec
PROPERTY NoHalfDeadService
CHECK_DEADLOCK FALSE
