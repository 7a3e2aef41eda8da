SPECIFICATION TurnsSpec
CONSTANTS
  me = me
  p = p
  q = q
  r1 = r1
  r2 = r2
  k1 = k1
  k2 = k2
  Tile = {me, p}
  Room = {r1}
  NoRoom = NoRoom
  MaxRooms = 2
  MaxMembers = 3
  Retain = 2
  MaxTodos = 0
  MaxSeq = 2
  Card = me
  Turn = {k1, k2}
  Stop = Stop
  NoTurn = NoTurn
  MaxGen = 2
SYMMETRY Symmetry
INVARIANTS StopIsFinal
PROPERTIES OwnReservationIsSound
CHECK_DEADLOCK FALSE
