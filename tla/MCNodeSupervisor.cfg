\* One run of offckb node, both modes, two FNNs; no bound.
CONSTANTS
  Fnns = {f1, f2}
SPECIFICATION FairSpec
INVARIANTS
  TypeOK
  CleanExit
  ExitAwaitsCleanup
  PipeSparesTeardown
PROPERTY FailureEndsService
CHECK_DEADLOCK FALSE
