\* Three connections, two on one loop, two rooms; the contract kept, or the callers there are.
SPECIFICATION FairSpec
CONSTANTS
  c1 = c1
  c2 = c2
  c3 = c3
  l1 = l1
  l2 = l2
  r1 = r1
  r2 = r2
  NULL = NULL
  GONE = GONE
  Conns = {c1, c2, c3}
  Loops = {l1, l2}
  Workers = {w1}
  Rooms = {r1, r2}
  LoopOf <- MCLoopOf
  Objs <- MCObjs
  Joins <- MCJoins
INVARIANTS
  ShardIndexExact
  LocalCountExact
  CountersAgree
  JoinedIsListed
PROPERTIES
  ImplementsIndex
  EmptyRoomsCollected
CHECK_DEADLOCK FALSE
