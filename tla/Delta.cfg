\* Two components prepare updates; one fault and one crash.
CONSTANTS
  w1 = w1
  w2 = w2
  Workers <- MCWorkers
  NoFile = NoFile
  Bad = Bad
  None = None
  MaxFaults = 1
  MaxCrashes = 1
  MaxPrepares = 2
  ConcurrentShell = FALSE
  SilentFailures = FALSE
  Jobs <- MCJobs
  Configs <- MCConfigs
  Commands <- MCCommands
SPECIFICATION Spec
INVARIANTS DeltaTypeOK ReadyIsIntact AnnouncedSucceeds
PROPERTY ReconstructionEnds
CHECK_DEADLOCK FALSE
