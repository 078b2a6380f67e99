SPECIFICATION FreshSpec
CONSTANTS
  Readers = {r1}
  Writers = {w1}
  Initializers = {i1, i2}
  ConnSemID = 0
  Faults = {}
  NoReader = NoReader
INVARIANT ConnectedAfterInit
CHECK_DEADLOCK FALSE
