SPECIFICATION FairSpec
CONSTANTS
  N = 2
  Chars = {"a", "b"}
  Disk <- AllOnDisk
  Files <- Overlaying
  Capacity <- MCCapacity
  PipeSize = 2
  Faults = {"kill", "fork", "file", "output", "eagain"}
INVARIANTS InOrder CountedIsWhole
PROPERTIES SendFileEnds Delivered ClientsEnd
CHECK_DEADLOCK FALSE
