\* One start whose launcher is killed.
CONSTANTS
  Launchers = {l1}
  Stoppers = {s1}
  OldPid = OldPid
  NoPid = NoPid
SPECIFICATION FairSpec
PROPERTY StartingIsTemporary
CHECK_DEADLOCK FALSE
