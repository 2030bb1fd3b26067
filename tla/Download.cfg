\* Four blocks of two contents, one without e-tag; every kind of failure, three in all.
SPECIFICATION DownloadSpec
CONSTANTS
  Length = 4
  Tags = {t1, t2}
  Untagged = {t2}
  Campaigns = {1, 2}
  Faults = {"net", "range", "disk", "copy", "decrypt", "postpone", "tag", "remove", "crash"}
  MaxFaults = 3
  None = None
  Torn = Torn
INVARIANTS
  DownloadTypeOK
  DownloadedIntact
  CompletedIntact
  KeepsProgress
PROPERTIES
  EventuallyCompleted
  WorkerReleased
