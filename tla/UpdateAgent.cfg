\* One package, an update to v2, its rollback to v1 and an update to v3.
SPECIFICATION Spec
CONSTANTS
  Versions = {"v1", "v2", "v3"}
  None = None
  MaxRetry = 0
  Pkgs = {"p"}
  Campaigns = {"c1"}
  Commands <- MCCommands
  UaRollbackTypes = {"URB_UA_INITIATED"}
  InitialVersion = "v1"
  AsyncQuery = TRUE
  MaxInbox = 1
INVARIANTS TypeOK StageOwned
PROPERTIES WorkerInOrder InstallsRequested
CHECK_DEADLOCK FALSE
