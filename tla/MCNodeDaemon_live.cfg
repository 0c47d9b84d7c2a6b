\* One start and one stop: their waits, failures and kills.
CONSTANTS
  Launchers = {l1}
  Stoppers = {s1}
  OldPid = OldPid
  NoPid = NoPid
SPECIFICATION FairSpec
PROPERTIES
  CommandsEnd
  StartingEndsUnlessKilled
CHECK_DEADLOCK FALSE
