SPECIFICATION AnyCalls
CONSTANTS
  BYTE = 2
  K = 3
  Sizes = {5, 9, 14}
  MaxCalls = 2
INVARIANTS FillIsExact FindIsFirst SubArrayIsSlice InvertFlips
CHECK_DEADLOCK FALSE
