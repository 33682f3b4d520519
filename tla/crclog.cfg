CONSTANTS
  TND = 1
  TICKS = 10
  Splits = {11}
  LastTick = 12
  MaxOdd = 1
SPECIFICATION Spec
INVARIANTS TypeOK NoFalseVerdict NoSplitMissed
CHECK_DEADLOCK FALSE
