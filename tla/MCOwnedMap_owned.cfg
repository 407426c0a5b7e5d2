CONSTANTS
  a = a
  b = b
  c = c
  None = None
  Word = 512
  Keys = {a, b, c}
  Values = {v, w}
  Hash <- MCHash
  Rooms <- MCRooms
  Capacities <- MCCapacities
  ShardAmounts <- MCShardAmounts
  Additionals <- MCAdditionals
  ForeignKeys = FALSE
SPECIFICATION Spec
INVARIANTS TypeOK IndexInRange ElementsAreFiled KeysAreUnique RoomIsAsAsked TagBitsAreLeft
PROPERTY ImplementsPlainMap
