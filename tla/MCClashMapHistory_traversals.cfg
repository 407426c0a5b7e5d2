SPECIFICATION HSpec
CONSTANTS
  t1 = t1  t2 = t2  a = a  b = b  c = c  v1 = v1  v2 = v2
  None = None
  Threads <- TwoThreads
  Keys <- ThreeKeys
  Values = {v1}
  ShardCount = 2
  ShardOf <- TwoShards
  MaxHandles = 2
  MaxCalls <- OneCallAndTwo
  Ops <- GoingOver
  NestedReads = FALSE
INVARIANTS TypeOK RefsStayValid AliasingXorMutability HolesAreHidden IteratorsYieldOnce
PROPERTIES ImplementsAtomicMap LenIsBounded CopyHasWhatStays ClearLeavesOnlyNewKeys
           AnnouncedLenIsRight IteratorsYieldWhatStays
