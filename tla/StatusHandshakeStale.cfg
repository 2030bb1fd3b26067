\* An answer that arrives while its request times out approves the next installation.
SPECIFICATION HandshakeSpec
CONSTANTS
  MaxRequests = 2
  MaxResponses = 1
  Spurious = FALSE
  None = None
INVARIANT InstallApproved
CHECK_DEADLOCK FALSE
