\* Joins, closes and calls of every kind on two loops.
SPECIFICATION Spec
CONSTANTS
  l1 = l1  l2 = l2
  c1 = c1  c2 = c2
  u1 = u1  u2 = u2
  g1 = g1  g2 = g2
  Loops = {l1, l2}
  Conns = {c1, c2}
  Users = {u1, u2}
  NoUser = NoUser
  Pool = {g1, g2}
  LoopOf <- MCLoopOf
  MaxJoins = 2
  MaxCalls = 2
SYMMETRY Symmetry
INVARIANTS
  NumbersAgree
  JoinedIsRouted
  KickComplete
  GlobalComplete
CHECK_DEADLOCK FALSE
