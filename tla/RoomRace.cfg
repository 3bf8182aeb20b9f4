\* A join or a broadcast on a pool goroutine and a close on the event-loop.
SPECIFICATION Spec
CONSTANTS
  c1 = c1
  c2 = c2
  c3 = c3
  l1 = l1
  l2 = l2
  r1 = r1
  r2 = r2
  NULL = NULL
  GONE = GONE
  Conns = {c1}
  Loops = {l1, l2}
  Workers = {w1}
  Rooms = {r1}
  LoopOf <- MCLoopOf
  Objs <- MCObjs
  Joins <- MCJoins
INVARIANTS
  RaceFree
CHECK_DEADLOCK FALSE
