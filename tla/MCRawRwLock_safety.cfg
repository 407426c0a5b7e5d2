SPECIFICATION Spec
CONSTANTS
  t1 = t1
  t2 = t2
  t3 = t3
  t4 = t4
  Threads = {t1, t2, t3, t4}
  Slots = {s1, s2}
  OneWriter = 3
  MaxCalls <- OneEachTwoForFirst
SYMMETRY OthersAlike
INVARIANTS TypeOK MutualExclusion WordAgreesWithGuards UnlockAssertions
  ReentrantReadNeverParks ParkedReadersAreWoken ParkedWritersAreWoken
  QuietWordIsZero
PROPERTY ImplementsAbstractLock
