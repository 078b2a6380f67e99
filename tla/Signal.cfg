SPECIFICATION FairSpec
CONSTANTS
  BITS = 2
  SIZE_BUF = 2
  Files <- MCFiles
  Faults = {"alarm", "file", "write", "kill", "stop"}
INVARIANTS Lockstep TakenIsPrefix LossIsWholeBytes WriterSuccess
PROPERTIES Delivered BothEnd
