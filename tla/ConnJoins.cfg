\* Two requests of one connection and one of another, on two workers.
SPECIFICATION Spec
CONSTANTS
  c1 = c1
  c2 = c2
  c3 = c3
  l1 = l1
  l2 = l2
  NULL = NULL
  Conns = {c1, c2}
  Loops = {l1, l2}
  Workers = {w1, w2}
  Users = {u1, u2}
  Rooms = {r1}
  Banned = {}
  LoopOf <- MCLoopOf
  Loop0 = l2
  MaxConns = 2
  MaxConnsPerUser = 1
  MaxJoins <- MCJoins
SYMMETRY MCSymmetry
INVARIANTS
  TypeOK
  UserLimit
  RoomIndexReleased
  UserCountReleased
CHECK_DEADLOCK FALSE
