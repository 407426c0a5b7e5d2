SPECIFICATION SetSpec
CONSTANTS
  t1 = t1  t2 = t2  w1 = w1  w2 = w2  a = a  b = b  c = c  unit = unit
  None = None
  Threads <- FourThreads
  Workers = {w1, w2}
  Keys <- ThreeKeys
  Values = {unit}
  ShardCount = 2
  ShardOf <- TwoShards
  MaxHandles = 2
  MaxCalls <- OneCallAndTwo
  Ops <- Calls
  NestedReads = FALSE
SYMMETRY Alike
INVARIANT AnswersAddUp
PROPERTY ParallelVisitsExactly
