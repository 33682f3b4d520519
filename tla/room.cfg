CONSTANTS
  Letter = {"A"}
  Digit = {"0", "1"}
  NAME_LEN = 2
  Wish <- MCWish
  MAX_CLIENTS = 4
  MaxLate = 1
  NoName = NoName
  NoRow = NoRow
SPECIFICATION FairSpec
INVARIANTS TypeOK OfflineIsLast
PROPERTIES CountReachesTheLobby FreeNameIsFound ShutdownEnds
CHECK_DEADLOCK FALSE
