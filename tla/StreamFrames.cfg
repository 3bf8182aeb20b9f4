\* Every request and every sequence of up to three frames, cut in every way, with a broadcast.
SPECIFICATION Spec
CONSTANTS
  MaxPayload = 2
  MaxHandshake = 3
  MaxBuffer = 28
  ReadCap = 13
  ClientFrames <- MCClientFrames
  MaxFrames = 3
  PushLengths = {125, 126, 65535, 65536}
  MaxPushes = 1
INVARIANTS
  CaughtUp
  HandledInOrder
  ClosedForCause
  RepliesQueued
CHECK_DEADLOCK FALSE
