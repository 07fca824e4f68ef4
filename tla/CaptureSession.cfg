\* A hub that may crash once, or give up a call whose patch lands later; two
\* requests, one edit by another writer.  The clock counts seconds; a session
\* lasts one of them and can expire while a call is under way.
SPECIFICATION FairSpec
CONSTANTS
  Hubs = {h1}
  Nodes = 1
  Durations = {0, 9}
  defaultDuration = 1
  maxDuration = 1
  TicksPerSecond = 1
  StartTime = 1
  MaxTime = 3
  MaxRequests = 2
  MaxCrashes = 1
  MaxEdits = 1
  None = None
INVARIANT
  StoppedMeansStopped
PROPERTIES
  ActiveNeverExtended
  OnlyStartRestarts
  SessionsEnd
