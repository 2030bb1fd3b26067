\* The clean-up of a skipped confirm-update runs in a later campaign.
SPECIFICATION CampaignSpec
CONSTANTS
  Versions = {"v1", "v2", "v3"}
  None = None
  MaxRetry = 1
  Pkgs = {"p"}
  Campaigns = {1, 2}
  Commands <- MCCommands
  UaRollbackTypes = {"URB_UA_INITIATED"}
  InitialVersion = "v1"
  AsyncQuery = FALSE
  MaxInbox = 1
  Targets = {"v2"}
  RollbackVersions <- MCRollbackVersions
  Downloadable = {"v3"}
  MaxCampaigns = 2
  MaxAttempts = 2
INVARIANT CleanupStandsForConfirm
CHECK_DEADLOCK FALSE
