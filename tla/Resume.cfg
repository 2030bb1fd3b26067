\* Two reboots, at any step; the DMC waits for the agent to have resumed.
SPECIFICATION ResumeSpec
CONSTANTS
  None = None
  Torn = Torn
  Versions = {"1", "2", "3"}
  InitialVersion = "1"
  MaxRetry = 1
  MaxAttempts = 2
  Commands <- MCCommands
  Handlers <- OneHandler
  Type = "/ECU"
  UaRollbackTypes = {"URB_UA_INITIATED", "URB_DMC_INITIATED_NO_UA_INTENT"}
  MaxReboots = 2
INVARIANT ResumeTypeOK
PROPERTIES
  StatusTruthful
  RollbackMovesOn
  RecordIsAnswered
CHECK_DEADLOCK FALSE
