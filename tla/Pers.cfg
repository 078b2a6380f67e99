SPECIFICATION FairSpec
CONSTANTS
  FileLen = 6
  Faults = {"timeout", "io", "kill"}
INVARIANTS BufferExclusive OutputIsPrefix SpuriousFailureIsHarmless
PROPERTIES Implements Delivered BothEnd
