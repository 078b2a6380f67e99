SPECIFICATION FairSpec
CONSTANTS
  Readers = {r1, r2}
  w1 = w1
  w2 = w2
  Writers <- MCWriters
  FileLen <- MCFileLen
  Capacity = 2
  Faults = {"timeout", "file", "output", "kill"}
  NoReader = NoReader
INVARIANTS OutputOfOneFile SuccessLosesNothing ShortOnlyByFailure
PROPERTY PairsComplete
CHECK_DEADLOCK FALSE
