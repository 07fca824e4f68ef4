\* The smallest ring in which an inverted pair straddles a page boundary.
SPECIFICATION QuerySpec
CONSTANTS
  Adders = {a1, a2}
  IDs = {i1, i2}
  Lens = {1}
  Protocols = {http}
  Statuses = {}
  NoStatus = NoStatus
  Capacity = 3
  ByteBudget = 3
  MaxTotal = 3
  Nil = Nil
  NoRaw = NoRaw
  Walkers = {r1}
  Pollers = {}
  Match = {http}
  Limit = 1
INVARIANT
  WalkComplete
CHECK_DEADLOCK FALSE
