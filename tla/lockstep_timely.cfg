CONSTANTS
  TNK = 1
  TND = 2
  TICKS = 32
  MaxAhead = 3
  LastTick = 7
SPECIFICATION Spec
INVARIANTS TypeOK Agreement NoHole LeadBound
PROPERTY KeepsThePromise
CHECK_DEADLOCK FALSE
