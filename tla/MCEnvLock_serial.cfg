\* Three commands, never two inside acquireEnvLock at once.
CONSTANTS
  Procs = {p1, p2, p3}
  None = None
SPECIFICATION SerialSpec
PROPERTY TryLockPromise
SYMMETRY Symmetry
CHECK_DEADLOCK FALSE
