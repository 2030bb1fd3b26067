\* Two connections of the DMC and two prepare-updates; answers may take long.
SPECIFICATION SequenceSpec
CONSTANTS
  Syncers = {s1, s2}
  Ids = {a, b, c, d}
  Known = {None, 0, 1}
  MaxStatus = 4
  MaxPrepares = 2
  None = None
INVARIANTS
  SequenceTypeOK
  OneInfoKeepsOrder
PROPERTY EventuallySynced
CHECK_DEADLOCK FALSE
