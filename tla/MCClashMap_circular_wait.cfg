SPECIFICATION Spec
CONSTANTS
  t1 = t1  t2 = t2  a = a  c = c  v1 = v1  v2 = v2
  None = None
  Threads <- TwoThreads
  Keys <- TwoKeys
  Values = {v1}
  ShardCount = 2
  ShardOf <- OneKeyPerShard
  MaxHandles = 2
  MaxCalls <- TwoCallsAndOne
  Ops <- GetAndIterMut
  NestedReads = TRUE
INVARIANT NoCircularWait
