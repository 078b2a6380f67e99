SPECIFICATION FairSpec
CONSTANTS
  CPUs = {0, 1, 3}
  CoreIds = {0, 4}
  Packages = {0, 1}
  MaxThreads = 4
  Faults = {"init", "unknown", "qsort", "alloc", "attr", "create", "join", "eps"}
INVARIANTS SumIsWhole EvenLoad
PROPERTY CallReturns
CHECK_DEADLOCK FALSE
