SPECIFICATION Spec
CONSTANTS
  a = a
  b = b
  c = c
  d = d
  r1 = r1
  r2 = r2
  r3 = r3
  Tile = {a, b, c, d}
  Room = {r1, r2, r3}
  NoRoom = NoRoom
  MaxRooms = 2
  MaxMembers = 4
  Retain = 2
  MaxTodos = 1
  MaxSeq = 3
SYMMETRY Symmetry
INVARIANTS LedgerIsSound UnreadExact GroupsAreSound
PROPERTIES CursorNeverRewinds TodosStayBehind
CHECK_DEADLOCK FALSE
CONSTRAINT ManyRoomsOrLongLedger
