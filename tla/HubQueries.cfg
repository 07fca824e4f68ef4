\* A client pages through a ring of 3 slots, two entries at a time, and another
\* polls the stats, while two ingest goroutines add to the ring.
SPECIFICATION FairQuerySpec
CONSTANTS
  Adders = {a1, a2}
  IDs = {i1, i2}
  Lens = {1}
  Protocols = {http}
  Statuses = {}
  NoStatus = NoStatus
  Capacity = 3
  ByteBudget = 3
  MaxTotal = 4
  Nil = Nil
  NoRaw = NoRaw
  Walkers = {r1}
  Pollers = {q1}
  Match = {http}
  Limit = 2
INVARIANTS
  WalksAccountFor
  SharesWithinTotal
PROPERTY
  WalkTerminates
\* The run ends when MaxTotal entries have been added.
CHECK_DEADLOCK FALSE
