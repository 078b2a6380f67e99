SPECIFICATION FairSpec
CONSTANTS
  numberChilds = 5
  Faults = {"fork", "kill"}
INVARIANTS OutputInOrder RemovedQueueIsUnused
PROPERTY AllPrinted
CHECK_DEADLOCK FALSE
