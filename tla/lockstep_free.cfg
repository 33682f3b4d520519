CONSTANTS
  TNK = 2
  TND = 2
  TICKS = 32
  MaxAhead = 6
  LastTick = 3
SPECIFICATION FairSpec
INVARIANTS RecordsHonest FramesFollowTicks NoFalseAlarm WrapInvisible
PROPERTIES BothFinish WatermarkMonotone
CHECK_DEADLOCK FALSE
