SPECIFICATION AnyCalls
CONSTANTS
  BYTE = 2
  K = 3
  Sizes = {9}
  MaxCalls = 2
INVARIANT FindAgreesWithForeach
CHECK_DEADLOCK FALSE
