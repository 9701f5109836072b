CONSTANTS
  MaxRequests = 2
  MaxRestarts = 2
  c1 = c1
  c2 = c2
  c3 = c3
  Clients = {c1, c2, c3}
  None = None
  TicksPerSec = 2
  Delays = {1, 2}
  MaxStarts = 3
  MaxNow = 3
  t1 = t1
  t2 = t2
  t3 = t3
  k1 = k1
  k2 = k2
  Threads = {t1, t2, t3}
  Keys = {k1, k2}
  LOC_SYNC_REQ_BUFFER_SIZE = 2
  MaxCalls = 3
SPECIFICATION MCSpec
INVARIANT GuardedByThread
INVARIANT OneAnswer
INVARIANT InTimeIsOwn
INVARIANT OneOwnerEach
INVARIANT SoonestIsArmed
INVARIANT BuffersAreLive
INVARIANT AnswersFit
PROPERTY EveryWaitEnds
CHECK_DEADLOCK FALSE
