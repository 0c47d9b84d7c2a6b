\* Two commands are enough: one breaks the file the other has just created.
CONSTANTS
  Procs = {p1, p2}
  None = None
SPECIFICATION Spec
INVARIANT MutualExclusion
SYMMETRY Symmetry
CHECK_DEADLOCK FALSE
