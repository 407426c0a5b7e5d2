SPECIFICATION PFairSpec
CONSTANTS
  t1 = t1  t2 = t2  w1 = w1  w2 = w2  a = a  b = b  c = c  v1 = v1
  None = None
  Threads <- FourThreads
  Workers = {w1, w2}
  Keys <- ThreeKeys
  Values = {v1}
  ShardCount = 2
  ShardOf <- TwoShards
  MaxHandles = 2
  MaxCalls <- OneCallEach
  Ops <- Calls
  NestedReads = FALSE
INVARIANTS NoCircularWaitInPool AliasingXorMutability
PROPERTIES EveryCallReturns ParallelVisitsExactly
