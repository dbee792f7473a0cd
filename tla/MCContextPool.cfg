SPECIFICATION LoadFairSpec
CHECK_DEADLOCK FALSE
CONSTANTS
  Threads = {t1, t2, t3}
  PoolSize = 2
  MaxOutputs = 2
INVARIANTS
  OneUser
  NoneLost
  NoLostWakeup
  CrashNeedsHolder
  NothingLeaked
PROPERTIES
  InferReturns
