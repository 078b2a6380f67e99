SPECIFICATION FairSpec
CONSTANTS
  Clients = {c1, c2}
  MaxThreads = 4
  Server = Server
  Faults = {"loss", "late", "calc", "alloc", "die"}
INVARIANTS ResultIsWhole IdleClientFailsAll
PROPERTIES ServerSucceeds EveryoneEnds
CHECK_DEADLOCK FALSE
