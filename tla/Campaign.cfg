\* Two campaigns of one package, one retry, then two rollback versions.
SPECIFICATION FairCampaignSpec
CONSTANTS
  Versions = {"v1", "v2", "v3"}
  None = None
  MaxRetry = 1
  Pkgs = {"p"}
  Campaigns = {1, 2}
  Commands <- MCCommands
  UaRollbackTypes = {"URB_UA_INITIATED"}
  InitialVersion = "v1"
  AsyncQuery = FALSE
  MaxInbox = 1
  Targets = {"v2"}
  RollbackVersions <- MCRollbackVersions
  Downloadable = {"v3"}
  MaxCampaigns = 2
  MaxAttempts = 2
INVARIANTS DoNotDisturb ReadyMeansPrepared RetryBudget
PROPERTIES ImplementsProtocol CampaignEnds
CHECK_DEADLOCK FALSE
