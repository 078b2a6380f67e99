SPECIFICATION Spec
CONSTANTS
  N = 2
  Chars = {"a", "b"}
  Disk <- TwoOnDisk
  Files <- TwoFiles
  Capacity <- MCCapacity
  PipeSize = 2
  Faults = {}
INVARIANTS AnyNumberOfFiles
CHECK_DEADLOCK FALSE
