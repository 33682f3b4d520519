CONSTANTS
  Size = 4
  Byte <- MCByte
  Class <- MCClass
  Operand <- MCOperand
  NoPc = NoPc
  ImageSize = 5
  Listings <- MCListings
  Tables <- MCTables
  MaxGrowth = 1
  NewByte = NewByte
  Filler = Filler
  LIMIT = 4
  MaxRows = 4
  LastTick = 9
  GAP = 2
  RECOVER_TAIL = 2
  REPAIR_BOUND = 4
  PageSize = 5
  NETCODE = {"TNWARM", "TNTICK"}
  SEEDS = {1, 2}
  Missing = Missing
  Idle = Idle
SPECIFICATION GatesSpec
INVARIANTS DescentExact NeverRunsData BytesStayPut AuditedIsPlaced
INVARIANTS HonestPatchPasses VerdictIsRight RepairIsJudged ClearKeepsOut
PROPERTIES GateEnds
CHECK_DEADLOCK FALSE
