SPECIFICATION FairSpec
CONSTANTS
  Threads = {t1, t2}
  NumTimers = 2
  Setters = {t1}
  Bufs = {b1, b2}
  Queues = {q1,q2}
  MinRel = 0
  MaxRel = 1
  MaxTick = 1
  Hasty = FALSE
  None = None
INVARIANTS TypeOK ActiveHasBuffer  FreeListExact 
PROPERTY DueDelivered
CHECK_DEADLOCK FALSE
