\* Each part on its own small instance: two processes or one with its faults.
CONSTANTS
  MaxAttempts = 3
  LineBytes = 2
  MaxBytes = 4
  MaxEvents = 6
  MaxFaults = 2
  Inodes = {1, 2, 3, 4}
  Tail_ = 1
  Installers = {1, 2}
  MaxInstallFaults = 2
  Processes = {1, 2}
  MaxKills = 2
  MaxInstalls = 3
  Binaries <- MCBinaries
  Keys = {"k1", "k2"}
  MaxDeploys = 3
  MaxRuns = 3
  Owners = {"issuer", "bob"}
  Issuer = "issuer"
  Commands = {1, 2}
  MaxAmount = 2
  MaxInputCells = 2
  MaxScanCells = 2
  MaxCommands = 3
  InitialCells <- MCInitialCells
SPECIFICATION Spec
INVARIANTS
  GivesUpOnce
  EventsKept
  ShownOnce
  InstallsSafe
  UpgradeKeepsTypeId
  TokensConserved
CHECK_DEADLOCK FALSE
