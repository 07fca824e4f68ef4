\* Two ingest goroutines and the flush against two clients that
\* connect, swap filters and leave.
SPECIFICATION FairSpec
CONSTANTS
  Ingesters = {i1, i2}
  Clients = {c1, c2}
  Flushers = {f1}
  Classes = {k1}
  Filters = {{k1}}
  ReplayDepth = 1
  ReplayBatch = 1
  MaxEntries = 2
  MaxSwaps = 1
INVARIANT
  NoSilentLoss
PROPERTIES
  GroupsRespectFilters
  EverySettles
\* The traffic ends when MaxEntries have been ingested.
CHECK_DEADLOCK FALSE
