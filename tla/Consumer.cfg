\* Two messages at any time, two failed reads while one waits, a Close at any time.
SPECIFICATION FairSpec
CONSTANTS
  readTimeout = 2
  MaxBackoff = 4
  maxRetryCount = 4
  MaxMsgs = 2
  MaxFailures = 2
INVARIANTS
  ReadIsHandled
  WaitBounded
PROPERTIES
  Consumed
CHECK_DEADLOCK FALSE
