CONSTANTS
  NumQps = 3
  NumBufs = 2
  Limit = 2
  FiresOnArm = TRUE
  MaxOther = 1
SPECIFICATION Spec
INVARIANTS PoolConserved HeardOnce LimitIsWatched SrqOutlivesHandler
CHECK_DEADLOCK FALSE
