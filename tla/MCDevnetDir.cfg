\* Two boots, two forks, one editor session; chains of at most three blocks.
CONSTANTS
  Missing = Missing
  Broken = Broken
  CustomModule = CustomModule
  MaxTip = 3
  Versions <- MCVersions
  MaxBoots <- MCMaxBoots
  MaxForks <- MCMaxForks
  MaxSessions <- MCMaxSessions
  MaxEdits <- MCMaxEdits
  MaxItems = 2
  Actors <- MCActors
  InitialDirs <- MCInitialDirs
SPECIFICATION Spec
INVARIANTS
  TypeOK
  ForkAllOrNothing
  FirstRunFlagged
  SignedInputsLocal
  ForkIsolated
  BootRepairs
  ConfigStaysValid
  EditsTracked
CHECK_DEADLOCK FALSE
