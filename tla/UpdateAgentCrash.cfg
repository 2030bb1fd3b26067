\* A prepare-update with a campaign id after one without.
SPECIFICATION Spec
CONSTANTS
  Versions = {"v1", "v2", "v3"}
  None = None
  MaxRetry = 0
  Pkgs = {"p"}
  Campaigns = {"c1"}
  Commands <- MCCommands
  UaRollbackTypes = {"URB_UA_INITIATED"}
  InitialVersion = "v1"
  AsyncQuery = TRUE
  MaxInbox = 1
INVARIANT NoCrash
CHECK_DEADLOCK FALSE
