SPECIFICATION FairSpec
CONSTANTS
  Readers = {r1, r2}
  Writers = {w1, w2}
  Initializers = {i1, i2}
  ConnSemID = 1
  Faults = {"kill", "early"}
  NoReader = NoReader
INVARIANTS PairsAreExclusive MutexIsNotLost SlotIsNotLost
PROPERTIES ResetOnlyReopensTheSlot EveryoneLeaves
CHECK_DEADLOCK FALSE
