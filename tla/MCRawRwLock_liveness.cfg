SPECIFICATION FairSpec
CONSTANTS
  t1 = t1
  t2 = t2
  t3 = t3
  t4 = t4
  Threads = {t1, t2, t3}
  Slots = {s1}
  OneWriter = 3
  MaxCalls <- OneEach
PROPERTY EveryCallReturns
