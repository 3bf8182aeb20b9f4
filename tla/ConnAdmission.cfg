\* Three connections race for two slots.
SPECIFICATION FairSpec
CONSTANTS
  c1 = c1
  c2 = c2
  c3 = c3
  l1 = l1
  l2 = l2
  NULL = NULL
  Conns = {c1, c2, c3}
  Loops = {l1, l2}
  Workers = {w1}
  Users = {u1}
  Rooms = {r1}
  Banned = {}
  LoopOf <- MCLoopOf
  Loop0 = l2
  MaxConns = 2
  MaxConnsPerUser = 1
  MaxJoins <- MCNoJoin
INVARIANTS
  AdmissionLimit
  SlotsConserved
  ReachableWhileOpen
  UnregisteredWhenClosed
PROPERTIES
  SilentClosed
CHECK_DEADLOCK FALSE
