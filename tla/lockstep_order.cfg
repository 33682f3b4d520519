CONSTANTS
  TNK = 4
  TND = 2
  TICKS = 256
  MaxAhead = 4
  LastTick = 4
SPECIFICATION Spec
INVARIANT OrderDoesNotMatter
CHECK_DEADLOCK FALSE
