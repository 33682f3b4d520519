CONSTANTS
  Conn = {c1, c2, c3, c4}
  Name = {n1, n2, n3}
  NoOne = NoOne
  NoName = NoName
  MAX_CLIENTS = 3
  MAX_TX_BACKLOG = 1
  MaxRx = 1
SPECIFICATION Spec
SYMMETRY Symmetry
INVARIANTS TypeOK PartnersMutual NamesExact WaitersAreAlone SurvivorIsTold RolesComplement
CHECK_DEADLOCK FALSE
