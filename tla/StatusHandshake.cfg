\* Three installations, every answer possible, late and repeated ones included.
SPECIFICATION HandshakeSpec
CONSTANTS
  MaxRequests = 3
  MaxResponses = 2
  Spurious = TRUE
  None = None
INVARIANT HandshakeTypeOK
PROPERTY AnswerDecides
CHECK_DEADLOCK FALSE
