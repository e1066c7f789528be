SPECIFICATION Spec
CONSTANTS
  p = p
  q = q
  s = s
  c = c
  d = d
  Procs = {p, q, s}
  MaxRooms = 2
  Configs <- MCConfigs
  Codes = {c, d}
  MaxPlayers = 1
  NoRoom = NoRoom
  NoCode = NoCode
  NoProc = NoProc
INVARIANTS TypeOK AnsweredRoomsKeepTheirCode DroppedRoomsAreEmpty ListIsComplete
PROPERTIES RequestsAreAnswered
CHECK_DEADLOCK FALSE
