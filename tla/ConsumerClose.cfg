\* A Close that finds the channel.
SPECIFICATION FairSpec
CONSTANTS
  readTimeout = 2
  MaxBackoff = 4
  maxRetryCount = 4
  MaxMsgs = 1
  MaxFailures = 1
PROPERTIES
  EndsAfterClose
CHECK_DEADLOCK FALSE
