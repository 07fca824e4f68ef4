\* A sink with a channel of 2 slots and batches of 3 entries or 3 bytes, where
\* an entry may fail to marshal and a long one makes a frame the hub refuses;
\* the readers of an old and of a new hub connection that pause and resume; a
\* node that reconnects, with rows collected in between; and frames of 1, 2 and
\* 4 bytes for a dashboard queue of 2 slots and 3 bytes; an export of two rotated
\* files of one entry and a webhook that takes two at a time, with two failures.
SPECIFICATION MCSpec
CONSTANTS
  Lens = {0, 1, 4}
  QueueSlots = 2
  sinkBatchMaxEntries = 3
  sinkBatchMaxBytes = 3
  entryEnvelope = 1
  batchEnvelope = 2
  workerReadLimit = 9
  MaxCaptured = 4
  MaxConns = 2
  Readers = {r1, r2}
  Nodes = {n1}
  WorkerConns = {k1, k2}
  NodeOfConn <- OneNode
  CommandSlots = 1
  GC = TRUE
  MaxRows = 2
  None = None
  Broadcasters = {flush, stats}
  Handler = handler
  FrameSizes = {1, 2, 4}
  SendSlots = 2
  frontQueueBytes = 3
  MaxFrames = 5
  exportBufferSize = 2
  exportFileRotations = 2
  exportWebhookMaxBatch = 2
  FileMax = 1
  MaxEntries = 4
  MaxFaults = 2
INVARIANTS
  Accounted
  DeliveredOnceInOrder
  QueueAccount
  NoSendOnClosed
  RegistryFollowsLatest
  ExportAccount
PROPERTIES
  RefusedOnlyWhenBehind
  LinksMove
\* Capture, frames and connections end.
CHECK_DEADLOCK FALSE
