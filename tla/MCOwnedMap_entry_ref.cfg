CONSTANTS
  a = a
  b = b
  c = c
  None = None
  Word = 512
  Keys = {a, b, c}
  Values = {v, w}
  Hash <- MCHash
  Rooms <- MCRooms
  Capacities <- MCCapacities
  ShardAmounts <- MCShardAmounts
  Additionals <- MCAdditionals
  ForeignKeys = TRUE
SPECIFICATION Spec
PROPERTY VacantEntrySetsItsKey
