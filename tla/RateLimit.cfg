\* A clock that is stepped back, a bucket of three, two tokens a second.
SPECIFICATION Spec
CONSTANTS
  Users = {u1}
  rate = 2
  capacity = 3
  MaxClock = 4
  MaxElapsed = 6
INVARIANTS
  TypeOK
  WindowBound
PROPERTIES
  QuietUserPasses
CHECK_DEADLOCK FALSE
