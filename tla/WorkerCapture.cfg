\* A connection of either kind, captured from its start or from the middle,
\* with more requests than its backlog holds; two flows in a table of one, with
\* sequence numbers that wrap; two ids in a map of one; two TLS connections for
\* one stream, a channel and pipes of one chunk and a ledger of one connection;
\* two processes; messages at and over the size limits; every port, protocol
\* and way to capture it; three commands; two channels with a message each.
SPECIFICATION MCSpec
CONSTANTS
  Keys = {k1}
  MaxRequests = 3
  reqBacklogCap = 2
  completeResponsePairRetries = 1
  Ages = TRUE
  None = None
  FlowKeys = {f1, f2}
  SeqSpace = 2
  maxFlows = 1
  Idle = 1
  MaxPackets = 2
  Ids = {i1, i2}
  maxPending = 1
  MaxExchanges = 2
  Conns = {c1, c2}
  Size = 2
  outCap = 1
  maxLaggedConns = 1
  pipeCap = 1
  limit = 4
  streamLimit = 1
  MaxIdle = 1
  Pids = {p1, p2}
  Libs = {l1}
  grace = 1
  MaxStarts = 3
  Base = 1
  Sane = 4
  Scan = 2
  MaxSize = 5
  MaxMessages = 3
  ExtraPorts = {7000}
  ClientPort = 33000
  MaxCommands = 3
  MaxPushes = 1
  DefColumns = 3
  Channels = {1, 2}
  MaxContents = 2
  MaxBody = 3
  bodyCap = 2
  amqpMaxCapture = 1
INVARIANTS
  MispairedOnlyIf
  PairsAreClean
  FlowsReportedOnce
  IdsPairOnce
  StreamsHaveNoHole
  DissectorsStayFramed
  DirectionsAgree
  RepliesInStep
  ContentIsWhole
PROPERTIES
  SweepSparesFresh
  
  CaptureSettles
\* Connections, messages and the worker end.
CHECK_DEADLOCK FALSE
