\* A gift that is retried, or a chat with a refused chat or a system message; writes repeated and late, a failed commit, a crash and a restart.
SPECIFICATION FairSpec
CONSTANTS
  n1 = n1  n2 = n2
  c1 = c1  c2 = c2  c3 = c3
  a = a  b = b  d = d  s = s
  NodeOf <- MCNodeOf
  SenderOf <- MCSenderOf
  CallerOf <- MCCallerOf
  ConnIDOf <- MCSameID
  Batches <- MCBatches
  Nodes = {n1, n2}
  Conns = {c1, c2, c3}
  Chats = {a, b, d}
  Sysmsgs = {s}
  Refused = {b}
  Special = {d}
  Slow = {c2}
  PoolSize = 1
  WriterAttempts = 2
  MaxWrites = 3
  MaxLost = 1
  MaxCrashes = 1
INVARIANTS
  CopiesBounded
  NoEcho
  OnlyPublished
PROPERTIES
  Delivered
CHECK_DEADLOCK FALSE
