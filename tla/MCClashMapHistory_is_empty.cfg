SPECIFICATION HSpec
CONSTANTS
  t1 = t1  t2 = t2  a = a  b = b  c = c  v1 = v1  v2 = v2
  None = None
  Threads <- TwoThreads
  Keys <- ThreeKeys
  Values = {v1}
  ShardCount = 2
  ShardOf <- TwoShards
  MaxHandles = 1
  MaxCalls <- OneCallAndTwo
  Ops <- IsEmpty
  NestedReads = FALSE
PROPERTY EmptyMeansWasEmpty
