CONSTANTS
  c1 = c1
  c2 = c2
  Subscribers = {c1, c2}
  MaxRequests = 2
  MaxLosses = 1
  MaxRestarts = 1
  MaxRetries = 1
  MaxFaults = 3
  MaxDrops = 1
SPECIFICATION MCSpec
CHECK_DEADLOCK FALSE
INVARIANT SoundAtAnyTime
PROPERTY AnsweredAndEnded
