SPECIFICATION Spec
CONSTANTS
  Procs = {p1, p2}
  Names = {1, 2}
  Aliases <- MCAliases
  LocalDirs = {"./x", "./y"}
  Targets <- MCTargets
  MaxVersion = 2
  MaxEdits = 1
  MaxCommands = 2
INVARIANTS
  ReportedIsComplete
  ArchiveStandsForDirectory
  ScratchGoesAway
CHECK_DEADLOCK FALSE
