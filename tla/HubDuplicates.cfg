\* The only client connects while an entry is stored and not yet broadcast.
SPECIFICATION Spec
CONSTANTS
  Ingesters = {i1}
  Clients = {c1}
  Flushers = {f1}
  Classes = {k1, k2}
  Filters = {{k1}, {k1, k2}}
  ReplayDepth = 1
  ReplayBatch = 1
  MaxEntries = 1
  MaxSwaps = 1
INVARIANT
  NoDuplicates
CHECK_DEADLOCK FALSE
