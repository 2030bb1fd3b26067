SPECIFICATION BackupSpec
CONSTANTS
  None = None
  Versions = {"1", "2"}
  InitialVersion = "1"
  Overlap = FALSE
  Twice = FALSE
  MaxFaults = 1
  MaxCrashes = 1
INVARIANTS
  BackupTypeOK
  BackupKept
  OnlyConfirmedLeft
  
CHECK_DEADLOCK FALSE
