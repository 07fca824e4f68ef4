\* Two ingest goroutines race for a ring of 3 slots and 4 bytes; the lengths
\* are a failed marshal, two that fit, and one over the whole budget.  A rate
\* window of 3 buckets; facets of which 2 values are tracked; a cache of 2
\* answers and 3 bytes; filters extended up to 5
\* tokens; aggregates of 4 entries.
SPECIFICATION MCSpec
CONSTANTS
  Adders = {a1, a2}
  IDs = {i1, i2}
  Lens = {0, 1, 3, 5}
  Protocols = {http}
  Statuses = {}
  NoStatus = NoStatus
  Capacity = 3
  ByteBudget = 4
  MaxTotal = 4
  Nil = Nil
  NoRaw = NoRaw
  rateWindowSeconds = 3
  liveRateSeconds = 1
  MaxEntries = 4
  MaxSeconds = 4
  Ids = {1, 2, 3}
  Pods = {p1}
  PodIP = podIP
  SvcIP = svcIP
  OtherIP = otherIP
  maxPendingResolve = 2
  maxResolveAttempts = 2
  MaxFaults = 1
  FacetValues = {v1, v2, v3}
  facetTrackCap = 2
  facetEvictSample = 1
  Requests = {q1, q2, q3}
  BodySizes = {1, 2}
  aggCacheTTL = 2
  maxCacheEntries = 2
  maxCacheBytes = 3
  MaxTime = 4
  maxFilterDepth = 2
  maxInListLen = 2
  MaxToks = 5
  Bucket = 2
  maxTimelineBuckets = 3
  Since = 1
  Until = 8
  SortLimit = 2
  SummaryLimit = 3
SYMMETRY Symm
INVARIANTS
  TypeOK
  IndexIsNewest
  BytesAreSum
  RatesAreExact
  NamesAreKept
  FacetsCountTheirFields
  CacheServesFresh
  FiltersCompileAsMeant
  AggregatesAgree
PROPERTIES
  ImplementsHistory
\* The run ends when MaxTotal entries have been added.
CHECK_DEADLOCK FALSE
