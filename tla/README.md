# k8shark: a TLA+ model

k8shark captures the traffic of a Kubernetes cluster. A **worker** on every node
reads packets (AF_PACKET) and TLS plaintext (eBPF), pairs requests with
responses, and ships *entries* over a WebSocket to the **hub**. The hub keeps the
newest entries in memory, answers queries, and streams entries to **dashboards**.
Capture can be started for a limited time on demand, which the hub does by
patching the worker DaemonSet.

The models cover the hub's concurrent state and what it computes from it, the
worker's capture from packets and TLS records to entries, and the path between the
two. Each one follows the code under `src/` step by step: an action is the code between
two points at which another goroutine, process or message can intervene.
`PROJECT.json` maps every definition to the lines it models.

## 1. Inventory

| Component | State | Operations | Talks to | What is hard | What makes it correct |
|---|---|---|---|---|---|
| Hub entry store (`hub/store.go`) | ring `buf`/`raw`, `next`, `live`, `retainedBytes`, `byID`, counters, rate buckets | add, get, snapshot, recentBefore(Seq), stats | called by ingest, queries, replay | Seq and marshalling happen off the lock; slot and byte eviction; an id added twice | the index answers with the newest live entry; bytes equal the sum; the ring is the newest entries |
| Hub queries (`hub/server.go`, `mcp/server.go`, `ui/useHub.ts`) | a cursor in the client | page by before_seq, page by before, stats | store | arrivals and evictions between pages; counters read at different moments | a walk is complete and ends; shares stay within the total |
| Hub live fan-out (`hub/server.go`) | `pending`, the window timer, `frontClients`, every client's filter | ingest, broadcast, flushBroadcast, replay, filter swap, register, leave | store, send queues | window armed exactly once; replay against flush; a filter swapped during a flush | nothing lost silently; own filter only; the window is always flushed |
| Dashboard send queue (`hub/server.go`) | channel `send`, `queuedBytes` | trySend, writer, teardown | fan-out | reservation races; send on a closed channel; an oversized frame | exact counter, bounded queue, no panic, drains |
| On-demand capture (`hub/capture.go`) | the DaemonSet's annotations and selector | start, stop, reconcile, describe | Kubernetes API, controller | several writers, optimistic locking, crash between read and patch, a patch that lands after its caller gave up, expiry during a call | sessions are not extended or resurrected; expired ones end; damage is repaired |
| Worker registry (`hub/server.go`) | rows per node, command channels per node | hello, entries, stats, teardown, gc, pause, metrics | worker sink | a reconnect overtakes the teardown of the old connection; gc between lookup and update; row pointers kept across unlocks | the newest connection stays reachable; no closed-channel send; no ghost rows |
| Worker sink (`worker/sink.go`) | entry channel, batch, counters | emit, run/connect, assembleBatch, pump, requeue | pipeline, hub | a write fails after the hub read it; requeueing into a channel that fills | every entry accounted for; repeats and reordering only after a failed write; no frame over the hub's limit but for a record that leaves no room |
| Worker capture pause (`worker/sink.go`, `worker/worker.go`) | pause flag, one-slot wake-up channel, packet source | command, captureLoop | sink's reader goroutines | coalesced wake-ups, commands of an old and a new connection, a failed reopen | no command is lost |
| Request/response pairing (`worker/pipeline.go`) | pending FIFO per connection, reserved slots, loss marks | enqueue, reserve, fill, complete, purge, gc, trim | dissectors, sink | two half-streams in two goroutines; loss; caps and expiry that drop the front | a response pairs with its request, never with another one's |
| L4 flows (`worker/dissect_l4.go`) | flow table, l7 flags, recent duplicates | track, markL7, flush, evict | pipeline | a flush between two passes; eviction at the cap | a flow is reported once; L7 connections are not reported as L4 |
| TLS capture (`worker/tls_pipeline.go`, `worker/ebpf/`) | streams, pipes, byte budget, loss ledger | drain, sniff, consume, rescan, close | pairing | a slow consumer; loss found late; descriptors reused | budget conserved; no data after a gap that was noticed is parsed as if there were none |
| Kubernetes resolver (`hub/k8s.go`) | name snapshot, entries awaiting late resolution | refresh, enrich, retryPending | store | an entry evicted while it waits; limited attempts | attempts and memory bounded; labels never regress |
| Exporter (`hub/export.go`) | buffered channel, webhook batch, file | export, flush, rotate | ingest | drop-newest; shutdown with a part batch | drops are counted; order kept |
| Aggregate cache (`hub/server.go`) | answers with age and size | cachedAgg | queries | staleness and size limits | answers within the ttl; memory bounded |
| Facets (`hub/facets.go`) | counters per value | observe, increment | ingest | sampled eviction at the cap | bounded; counts never exceed the truth |
| Protocol dissectors (`worker/dissect_*.go`) | place in the byte stream, result-set state, AMQP channels, ids | one per protocol | pairing | sizes at the limits; replies that do not look like replies; interleaved channels | framing never slips; one reply per command; contents are whole |
| Summaries, graph, timeline, sort, diff (`hub/summary.go`, `graph.go`, `sort.go`, `mcp/diff.go`) | none | one each | queries, MCP | ranks, ties and bucket edges | the views of one buffer agree |
| IFL filters (`hub/filter.go`, `ui/filterParse.ts`) | none | parse, evaluate | queries, fan-out | precedence, nesting limits | parser agrees with a reference evaluation |
| Dashboard (`ui/src/useHub.ts`) | rows, buffer, pause, cursor | flush, reconnect, loadOlder | hub | reconnect against paging, buffering while paused | no row twice, rows capped |
| Packet sources, demo traffic, CLI and manifests, HTTP routing and tokens, MCP adapter, pcap | none that is shared | | | I/O and pure functions | |

The hazards behind the fourth column, each at its line, are listed in
`PROJECT.json`, including the two that no property covers.

### How the parts meet

`worker` capture: packets go through **FlowTable** and the assembler, TLS records
through **TLSCapture** (fed by the probes of **TLSAttach**); **Dispatch** picks the
dissector of a direction, which cuts it into messages (**Framing**) and pairs them
(**Pairing**, **ReplyPairing**, **IdPairing**, **AMQPContent**) → **WorkerSink** → WebSocket → **WorkerRegistry** (the
connection handler) → **Resolver** → **HubStore**.add (with **RateWindows** and
**Facets**) → **Exporter**, and → **HubFanout** (window, flush, replay) →
**FrontQueue** (one per dashboard) → dashboard. **HubQueries** reads the store; its aggregate answers are computed as in
**Aggregates**, over what a **Filter** selects, and kept in **AggCache**.
Pause commands go back through the registry's command channels to
**CapturePause**. **CaptureSession** switches the workers on and off.

Two components that meet are joined by what one may assume of the other:
HubFanout lets trySend accept or refuse freely, and FrontQueue shows when it
refuses; FrontQueue lets frames arrive at any time; WorkerSink lets connections
break between any two steps, before or after the hub has read a frame; the
HubStore is composed with its readers in HubQueries, which extends it.

## 2. Modules

| Module | Models | Notes |
|---|---|---|
| `HubStore` | `store.add`, the ring, the index, the counters, the snapshots | one add is AddSeq (off the lock), then AddOversize, or AddPlace, AddEvict per loop iteration, AddDone; `mu` is the lock |
| `HubHistory` | abstract: a bounded history of which the newest part is retained | what the store promises its readers |
| `HubStoreRefinement` | HubStore implements HubHistory, with `snapshotEntries` as the history; the byte account |  |
| `HubQueries` | composition of HubStore with paging clients and stats pollers | a page is the set of the ages of its entries, as a snapshot is newest first; `arrivals` and the fields of a walk are history variables |
| `HubFanout` | ingest, broadcast, flushBroadcast, replayHistory, handleFront | a flush takes the clients one at a time, each filter under that client's lock, so a swap falls between two of them; `sent`, `again`, `lost`, `since` are history variables |
| `FrontQueue` | `frontClient.trySend`, the writer goroutine, the end of a connection | the dashboard may stop reading; `panic` records a send on a closed channel |
| `CaptureSession` | `capture.go`, with the API server, the DaemonSet controller, other writers and the clock | a patch is a message that may arrive after its sender gave up or crashed; `answer` is what a hub's session handler said last, its error path included |
| `WorkerRegistry` | `handleWorker`, the row table and its gc, the command channels and `broadcastCommand` | rows are objects with an identity: a handler may hold one that gc has removed |
| `WorkerSink` | `emit`, `run`, `connect`, `assembleBatch`, `pump` | frames in flight per connection, what the hub has read, and the bytes a frame puts around its records |
| `CapturePause` | the pause flag, `pauseChanged`, `captureLoop` | the source may fail to reopen or end |
| `Pairing` | the FIFO of pending requests per connection in `pipeline.go`, the two goroutines of a connection, `lossReader`, `gc` | requests and responses are numbered as on the wire, so a pair is right when its two numbers agree; `shifted` and `resp.cut` record what made it wrong |
| `RateWindows` | `observeRate` and `windows` of the store | an adder and a call of `stats` work with the time they read before they got the lock; an entry's own timestamp is another node's |
| `Resolver` | `refresh` with its three lists, `enrich`, `trackPending`, `retryPending` | pods come and go and any list may fail; `corrected` is what the catch-up hands over |
| `Facets` | the tracked fields, their gates and getters, `increment` with sampled eviction | an entry is the set of its optional parts and one value |
| `AggCache` | `cachedAgg` | a build is three steps with time passing between them |
| `Filter` | the parser, the limits and the operators of IFL | the state machine types an expression; the reference is the grammar with its meaning |
| `Aggregates` | summary, percentiles, service graph, timeline, sorted page, MCP diff | pure operators over a buffer that grows; an end has a namespace, a workload and a name, and a focus may be any of them |
| `Exporter` | `export`, `run`, `consume`, `writeFile`, `rotate`, `flushWebhook` | files survive a crash, so a rotation can be cut in two; a record is written whole or not at all |
| `FlowTable` | `trackTCP`, `trackUDP`, `markL7`, `flushFlows`, `evictOverCapLocked` | a segment carries one byte, may be skipped and come late, or come again; sequence numbers wrap; `at`, `gone`, `odd`, `early` are history |
| `IdPairing` | the maps by id of DNS, MongoDB and Kafka, `sweepStale`, `trimOverCap` | exchanges are numbered as on the wire, ids repeat |
| `TLSCapture` | `drainLoop`, `forwardLoss`, `consumeTLSBounded`, `chanPipe`, the byte budget | chunks of a direction are numbered, so a hole is visible; a chunk may also be lost without a record of it (`missed`) |
| `TLSAttach` | `rescan`, `discoverTargets`, `reconcileAttachments`, `Close` | a scan reads processes one by one while they start, exit and map other libraries |
| `Framing` | the message readers of Kafka, MongoDB, PostgreSQL, MySQL, AMQP, DNS over TCP, WebSocket and Redis bulk strings | a message is a header, bytes and a trailer; sizes sit around the limits |
| `Dispatch` | `consumeStreamID`, `sniffTLS`, `capturePorts` | every port, protocol, way of capturing it and first bytes of either side |
| `ReplyPairing` | what MySQL, PostgreSQL and Redis dissectors take for commands and replies | messages carry the number of their command, which the dissector does not see |
| `AMQPContent` | `consumeAMQPID`'s channel map and property table | frames of several channels alternate; a byte kept is its message and its place in the body |
| `HubParts`, `MCLinks`, `MCWorkerCapture` | several parts in one run | below; `MCHubStore` adds Filter to HubParts, apart from it because of its RECURSIVE parser |
| `MCResolver`, `MCWorkerRegistry` | one part with its constants | |
| `HubStoreProofs`, `HubPartsProofs`, `HubFanoutProofs`, `CaptureSessionProofs`, `LinksProofs`, `WorkerCaptureProofs`, `DissectorProofs` | theorems | section 5 |
| `SumProofs` | lemmas on sums and folds over a sequence and induction with a set | used by the others |

Data is abstracted to what the properties tell apart. An entry is its sequence
number, its id and the length of its JSON (length 0 stands for a marshal that
failed). A filter is the set of entry classes it matches. A frame in FrontQueue is
its size. An expiry is a clock value that passes through RFC 3339 formatting,
which drops the part below a second (`RFC3339`). A row of the registry is its
node, whether it says connected, and whether it is old enough to be collected.

Parts that share no state are checked in one run: `part` says which of them a
behaviour exercises, the others stay in their initial state, and so their states
add up instead of multiplying. An invariant of such a run is evaluated where its
part runs. A temporal property assumes the fairness of its own part
(`part = "queue" /\ Q!Fairness => Q!QueueDrains`), so the specification of the run
itself needs none.

Definitions marked "Mutant of" are deliberately wrong variants of the definition
that follows them. No specification uses them; substituting one shows that the
property it is listed with in `PROJECT.json` can fail.

## 3. Runs

| Run | Checks | Shows |
|---|---|---|
| `HubStore` | TypeOK, IndexIsNewest, BytesAreSum, ImplementsHistory | with two adders racing, slot and byte eviction, an oversized entry, a failed marshal and repeated ids, the index and the byte account are right at every step, and readers see a bounded history |
| | RatesAreExact | rates are those of the entries added less the seconds whose buckets a newer one took while `stats` waited for the lock, unless an add is a whole window late |
| | NamesAreKept (NoneForgotten, RegistryBounded, WorkloadStable) | an entry with a bare endpoint is retried, corrected, given up after its attempts or was refused by a full registry; a failed list does not rename a workload |
| | FacetsCountTheirFields (GatesMatchGetters, CountsWithinBounds) | the gates skip no field a getter would show; counts are bounded and never too high |
| | CacheServesFresh (ServedFresh, CacheBounded) | a cached answer shows data younger than the time to live however long its build took; the byte account is exact |
| | FiltersCompileAsMeant | every token sequence compiles to its meaning in the grammar, or is refused |
| | AggregatesAgree (SummaryMatchesGraph, FocusKeepsNode, RanksAreRight, TimelineComplete, DiffTellsChanges) | the views of a buffer agree with it and with each other; a focused graph shows exactly the entries one of whose ends is the focus, by any of its names |
| `HubQueries` | WalksAccountFor (WalkExactButInverted, IdWalkComplete), SharesWithinTotal, WalkTerminates | what a before_seq walk repeats or misses is confined to entries whose Seq order is not their ring order; an id walk misses nothing; protocol shares stay within 100%; every walk ends |
| `HubFanout` | NoSilentLoss, GroupsRespectFilters, EverySettles | what a client is owed is queued, counted as dropped or on its way, and in the end settled, so no window is left without a flush; a flush uses for every client the filter it has when its turn in the grouping comes |
| `CaptureSession` | StoppedMeansStopped, ActiveNeverExtended, OnlyStartRestarts, SessionsEnd (ExpiredStops, RepairConverges) | concurrent and late patches never extend a running session or bring back a stopped one; an expired session is ended and a damaged one repaired; an answer "stopped" that carries no error is true |
| `Links` | Accounted, DeliveredOnceInOrder (OnceInOrder, FramesFit) | sink: every captured entry is counted once; the hub reads one twice, or out of order, only after a failed write; a frame is over the hub's limit only if one record alone leaves no room for a batch |
| | QueueAccount (CounterExact, QueueBounded), RefusedOnlyWhenBehind | send queue: the reservation is exact on every path, the queue is bounded except for one oversized frame |
| | NoSendOnClosed | no send meets a closed channel, in the send queue and in the registry |
| | RegistryFollowsLatest (LiveStaysReachable, GoneIsNotConnected) | the newest connection of a node keeps its command channel through any teardown of an older one, and no row claims a connection after all have ended |
| | ExportAccount (NoSilentDrop, FilesInOrder) | what the webhook does not get is counted or was lost in a crash; the rotated files read in order |
| | LinksMove | the sink reconnects, a command takes effect, the send queue drains or its stalled client is removed, a stopping exporter ends |
| `WorkerCapture` | MispairedOnlyIf, PairsAreClean (EmittedOnce, PeekSeesOwnRequest, NeverSleepsOnAFPacket) | an entry pairs a response with its own request except after the losses the code accepts and in the one response a gap cut short; nothing is emitted twice; the response parser learns the method of the right request; it never sleeps where that stalls the assembler |
| | FlowsReportedOnce (PacketsReportedOnce, DissectedReportedOnlyIfGone, RetransmitsAreBehind) | a packet is in one generic entry at most, a dissected connection in none unless its flow was lost; until sequence numbers wrap only a segment behind another counts as retransmitted, whether it repeats one or was overtaken |
| | IdsPairOnce (CrossedOnlyIfReused, RequestPairedOnce), SweepSparesFresh | pairs are crossed only when an id is used again; the sweep spares what is fresh |
| | StreamsHaveNoHole (StreamHasNoHole, BudgetIsExact) | a dissector reads its stream without a hole, but for those of a pause and of chunks lost without a record; the shared budget is what the pipes hold |
| | ProbesOnlyWhereNeeded | a scan takes no probe from a library that a process has had mapped ever since the scan began; none is left after closing |
| | DissectorsStayFramed (StaysFramed, StopsOnlyOnBadSize), DirectionsAgree (with FilterAdmitsDispatch) | framing never slips; both directions get the same dissector in opposite roles but for the listed first bytes that mislead; the kernel filter admits every dissected port |
| | RepliesInStep, ContentIsWhole | replies are counted one per command up to the first command the dissectors do not follow; AMQP contents hold bytes of their own body in order, whole from the beginning up to the lesser of the body cap and what is read of a frame |
| | CaptureSettles | an undissected flow is reported in the end; after a stop the loops end, every TLS dissector returns and the budget is given back |
| `HubWalkComplete` | WalkComplete: **violated** | finding 1 |
| `HubDuplicates` | NoDuplicates: **violated** | finding 2 |
| `PairingGap` | NoMispairAfterGap: **violated** | finding 3 |
| `WorkerReconnect` | RegistryShowsConnected: **violated** | finding 4 |
| `ResolverBlanks` | FailedListKeepsNames: **violated** | finding 5 |
| `PostgresPrefer` | PreferredTLSIsFollowed: **violated** | finding 6 |

Deadlock is not checked where the bounded traffic or the connections of a run
simply end; it is checked in CaptureSession.

### Bounds

* *HubStore, HubQueries*: two adders are needed for an inverted pair and three
  slots to place one across a page or an eviction. `MaxTotal` = 4 adds wrap a ring
  of three slots, so that an overwrite meets an index row of a repeated id. The
  lengths 0, 1, 3, 5 against a budget of 4 give a failed marshal, no eviction, an
  eviction of one and of several entries, and the oversized entry. Protocols and
  statuses only feed counters, so one protocol and no status are enough there.
* *HubFanout*: two ingesters race for the window; two clients let one swap or leave
  while a flush serves the other. The filters are `{k1}` and the match-nothing
  `Reject`, which already separates a client's group key from its predicate. One
  flusher is the number the 30 ms window gives in practice; `HubDuplicates` needs one
  client and one entry.
* *FrontQueue*: two broadcasters and the handler; sizes below, at and above the byte
  limit; five frames fill two slots more than twice; the peer may stall at any time.
* *CaptureSession*: one hub, because a call that is given up and whose patch lands
  later is already a second writer, and `OtherWriter` is a third; one crash, two
  requests, one foreign edit. A session lasts one tick of three, so it can expire
  at any point of a call. `MaxTime` freezes the clock after every session expired.
* *CapturePause*: two readers, the old and the new connection; a run has no other
  bound.
* *Pairing*: one connection. Connections meet only in `evictOverCapLocked`, which
  deletes an arbitrary row when there are too many, and that is a free choice of
  every step. Three requests overflow a backlog of two; one retry separates a first
  from a last attempt. The initial states cover both capture paths, HTTP and the
  protocols that queue complete requests, and captures that start before or between
  a request and its response. `PairingGap` switches the clock off, so that gc
  cannot be the cause.
* *WorkerRegistry*: one node with two overlapping connections, which is the case
  where rows and channels are shared; three rows allow one to be collected and made
  anew twice.
* *WorkerSink*: four entries through two slots, batches of three entries or three
  bytes, two connections: a full channel while a batch is requeued, a batch cut by
  each limit, and a batch retried on the next connection. The read limit of nine
  bytes is what a full batch and its envelope need and one more, so a record of
  four bytes fits alone and not behind a batch of two.
* *RateWindows*: three buckets and four seconds wrap the window; two adders let one
  be late, and a call of `stats` may wait through any of them. *Facets*: three values compete for two places. *AggCache*: two answers,
  three bytes and three requests meet both limits.
* *Resolver*: three entries for a registry of two, two attempts, one failed request:
  a full registry, a last attempt, and a refresh that fails in any one of its lists.
* *Filter*: expressions typed in chunks (operands, comparisons, lists, operators,
  parentheses), one more as long as there are fewer than five tokens; depth two and
  lists of two reach both limits. *Aggregates*: every buffer of up to four entries
  from a list that has ties, errors, unlabelled ends, several pods of a workload, a
  name shared by two namespaces and times on bucket edges.
* *Exporter*: two rotated files of one entry and four entries, so the oldest is
  removed; a webhook batch of two; two failures.
* *FlowTable*: two keys in a table of one; sequence numbers modulo two, so a wrap is
  the second byte; two packets, the second of which may be one the first overtook. *IdPairing*: two ids in a map of one and two
  exchanges, so an id is evicted, replaced or used again.
* *TLSCapture*: two connections compete for one stream, a channel and pipes of one
  chunk and a ledger of one connection; every stage drops, with a record and without.
  *TLSAttach*: two processes and a library that each may map and unmap; three starts.
* *Framing*: sizes 0 to one over the limit, three messages. *ReplyPairing*: three
  commands, with every dialect and opening. *AMQPContent*: two channels with a
  message each, bodies of up to three bytes in frames of any size, of which one byte
  is read, against two bytes kept: both limits cut, each first.

### Fairness

* *HubFanout*: weak fairness of an ingest goroutine's steps inside `broadcast` and
  of the flush, which is a runtime timer and then a goroutine. Nothing is assumed
  of clients or of the arrival of entries.
* *FrontQueue*: weak fairness of a send in progress, of the registration behind the
  replay and of the teardown's close, and of the writer while the dashboard reads.
  `frontWriter` sets no write deadline (`hub/server.go:968`), so with a peer that stalls
  the write may never return and nothing is assumed of it; no pong arrives then, and
  the read deadline ends `frontReader`, which removes the client
  (`hub/server.go:812-818`). `QueueDrains` says just that: the queue of a client drains,
  or the client is removed. The writer of a removed client stays in its write until
  TCP gives up.
* *HubQueries*: weak fairness of an add that holds the lock (there is no blocking
  call in the critical section), strong fairness of a page request, because the
  lock is taken and released meanwhile: Go's RWMutex lets a waiting reader in
  before the next writer. A client is assumed to keep paging until the walk ends.
* *CaptureSession*: the reconcile ticker, the steps of a call (the HTTP client has a
  timeout), the API server's handling of a patch it received, the controller, and
  time. No fairness of requests, edits or crashes; a crashed hub is restarted by
  Kubernetes.
* *CapturePause*: weak fairness of a reader's non-blocking signal and of the capture
  loop. No fairness of commands or of the source ending.
* *WorkerSink*: weak fairness of the reconnect loop and of pump, not of the network:
  writes may fail for ever, and `QueueMoves` allows for that.
* *Exporter*: weak fairness of its one goroutine, whose posts have a timeout. Entries,
  ticks, stops and crashes need not come.
* *FlowTable*: weak fairness of what the packet loop has begun; strong fairness of the
  flush tick and of time, because Go's select picks at random between packets and
  the ticker.
* *TLSCapture*: weak fairness of the drain and consumer loops and of a dissector that
  can read or has met the end. Nothing makes the context end or a stream go idle.

## 4. Findings

1. **before_seq paging can skip an entry** (`hub/store.go:118`). Seq is drawn before
   the ring's lock, so two adds can enter the ring in the opposite order. The
   comment says nothing depends on the two orders agreeing, but the clients of
   before_seq continue below the Seq of the last entry of a page; an entry with a
   larger Seq deeper in the ring is never shown. HubQueries shows that this is the
   only way to miss one, and that paging by id is complete.
2. **A connecting client can be sent an entry twice** (`hub/server.go:855`). The
   comment says that an entry in the gap between `store.add` and `broadcast` would
   otherwise be caught by both the replay and the live feed, and that registering
   after the replay avoids it. In the run the only client connects in that gap: the
   replay's snapshot has the entry, the client registers, and only then `broadcast`
   goes on, finds a client and queues the entry, which the flush sends a second time.
   An entry that already waits in the 30 ms window of another client meets the same
   end.
3. **A response cut by packet loss is paired with a later request**
   (`worker/pipeline.go:709`). When a segment of a response body is missing,
   `lossReader` purges the pending requests and discards the direction to its end;
   the requests the client sends meanwhile are queued. `drainBody` does not tell its
   caller that the body ended early, so the truncated response completes and takes
   the oldest of those requests. The comment on `lossReader` promises that no
   mispaired entry is emitted after a known gap. `MispairedOnlyIf` shows that it is
   at most this one response per connection.
4. **A reconnected worker can be shown as not connected** (`hub/server.go:476`). The
   teardown of a dead connection clears `Connected` on the node's row even if the
   node has reconnected meanwhile; the command channel beside it is guarded against
   exactly that.

5. **A failed list of Services blanks their names** (`hub/k8s.go:180`). When the pods
   list succeeds and the services list fails, `refresh` publishes a map without
   Services. Its comment says that a failed refresh keeps the previous map, and that
   of `listAll` that callers keep their previous state.
6. **A PostgreSQL server that refuses TLS is not followed**
   (`worker/dissect_postgres.go:128`). Its answer to an SSLRequest is the single byte
   `N`; the response side reads it as a message type and the head of the next
   message as an absurd length, and stops. The request side handles sslmode=prefer
   explicitly, and the test of it leaves the byte out of the response stream.

Observed while modelling. The models have these behaviours, and the properties are
stated around them:

* Reopening AF_PACKET on resume may fail; nothing retries until the next pause and
  resume (`worker/worker.go:241-248`).
* `chanPipe.Read` says the prefix already queued is always delivered
  (`worker/tls_pipeline.go:429-430`); a chunk that arrives between its poll and its
  wait can be abandoned when the pipe lags in the same moment.
* A dissected connection is reported as a generic flow if its flow was reaped or
  evicted after the dissector marked it (`DissectedReportedOnlyIfGone`).
* An adder that waits for the store's lock for a whole rate window resets the bucket
  of a newer second, and a call of `stats` that waits for it while the clock moves
  misses the seconds whose buckets were taken meanwhile (`hub/store.go:427-429`).
  `RatesAreExact` excludes the first and says by how much the second is short.
* A record larger than what the hub's read limit leaves is written as a frame the hub
  refuses by ending the connection: if the write succeeded its batch counts as sent
  and is lost, if it failed the batch is put back and tried again. The comment on `workerReadLimit`
  counts on a margin for a single pathological entry (`hub/server.go:199-201`), but
  `--body-bytes` and `--raw-bytes` have no upper bound (`worker/pipeline.go:126-138`)
  and headers are not cut. `FramesFit` says that nothing else makes such a frame.
* When the read of the DaemonSet fails, the session handler answers with the state
  `stopped` and an error, while workers may capture (`hub/server.go:639-644`).
* A segment that was overtaken counts as a retransmission when it comes
  (`worker/dissect_l4.go:308-311`, 326-329).
* A chunk of a TLS stream that the full ring buffer refuses, or that does not decode,
  is lost without a tombstone (`worker/ebpf/bpf/tls.bpf.c:274`,
  `worker/ebpf/loader.go:266-270`), and the parsers read on behind the hole.
* The comment on `pgRole` calls the first message of either side unambiguous
  (`worker/tls_pipeline.go:315-319`); an `ErrorResponse` that a PostgreSQL server sends
  first, read in the server's own TLS library, is taken for the client's side.
  `Misleading` in Dispatch lists this and the other openings that mislead `sniffTLS`.
* With `--body-bytes` above 64 KiB, an AMQP body frame longer than that leaves a hole
  in the body that is shown (`worker/dissect_amqp.go:112-117`, 175-185).
* MySQL prepared statements with parameters, several results of a command and an end
  packet of nine bytes or more; PostgreSQL queries of several statements, failed
  batches and suspended portals; Redis subscriptions of several channels or under
  RESP3: their replies are not one per command and shift later pairs (`Awkward` in
  ReplyPairing lists them).
* AMQP deliveries are shown from the client's side (`worker/dissect_amqp.go:420`).
* Entries the exporter could not write to its file are logged and not counted in
  `dropped`; entries exported after a stop stay in the channel.
* An entry of which one end never resolves is counted and handed over again in every
  cycle; an empty but successful pods list replaces the map; the name of a
  ReplicaSet without an owner loses its last part.
* A comparison in a filter takes any token, also an operator's name, as its value.

## 5. Proofs

TLAPS checks these for every value of the constants that satisfies the named
`ASSUME`s. Their modules avoid RECURSIVE operators.

* **HubStoreProofs**: `TypeCorrect` (Spec ⇒ □TypeOK) and `IndexCorrect`
  (Spec ⇒ □IndexIsNewest), assuming a positive capacity and byte budget, natural
  entry lengths, and that `Nil` is no goroutine and no entry. IndexIsNewest is not
  inductive: whether clearing an index row is right depends on which slot is
  overwritten. The proof has three layers, each inductive relative to the one
  before it:
  - `TInv` = TypeOK ∧ LockInv ∧ RingContiguous: the live entries are exactly the
    `live` slots behind the cursor, so the slot under the cursor is empty or holds
    the oldest entry, and so does the slot the budget loop clears;
  - `SInv` adds SeqUnique: no two entries share a number, so comparing entries is
    comparing pointers, as the code does;
  - `IInv` adds IndexByAge, IndexIsNewest phrased by the age of an entry: adding
    shifts every age by one, evicting removes the largest.

  Lemmas on `SlotOfAge` (a bijection between ages and slots, and how it moves with
  the cursor) carry the modular arithmetic. On top of the same layers,
  `BytesCorrect` (Spec ⇒ □BytesAreSum) shows that the byte counter the budget loop
  trusts is the sum over the ring however adds and evictions interleave, and
  `MirrorsCorrect` that a slot never caches the JSON of another entry.

  `SharesCorrect` (QuerySpec ⇒ □SharesWithinTotal) counts the adds under way
  (`QInv`): total is ahead of the sum by protocol by exactly as many.
  `WalksCorrect` (QuerySpec ⇒ □WalksAccountFor) holds for any page size above zero,
  filter, ring and number of clients. Its invariant `WInv` first relates the ring to
  the order of arrival: the ring is the last `live` arrivals, each number arrives
  once (RingInv), so what is not behind a ring entry's position is in the ring
  (`Placed`). Of a walk it then says (WalkOK) that below the cursor only entries
  behind their inverted partner were shown, that a start entry still in the ring
  above the cursor was shown or skipped over for its partner (BySeqOK), and that a
  walk by id has shown all that is not behind its anchor (AnchorOK). This speaks of
  positions, not ages, so it stands still while entries arrive and leave
  (`WalkStable`); a page takes it forward (`BySeqStep`, `ByIDStep`) because it holds all
  candidates not behind its own oldest (`PageOf`).

  `StoreImplementsHistory` (Spec ⇒ ImplementsHistory) is the refinement of HubHistory
  under the mapping of HubStoreRefinement. Both SuffixBytes and Trim are CHOOSEs, so
  the proof first shows that a suffix-sum function exists and is unique (`BytesAre`)
  and what Append and Tail do to it. Then AddPlace is Record: it appends to the ring,
  in the place of the oldest entry if the ring is full (`PlaceRing`), and trimming
  the longer sequence gives the same (`LongestTail`); AddEvict takes off an entry
  that trimming had already left out (`EvictRing`), hence a stutter. The invariant it
  needs is `HInv`: retainedBytes is the bytes of the ring, and within the budget when
  the lock is free.
* **HubPartsProofs**: theorems about the composition `HubParts`, whose steps are steps
  of one part. `RatesCorrect` (RatesAreExact): a bucket holds the second it is for or
  a later one of the same remainder, and counts all of that second's entries, unless
  an add was a whole window late (`Kept`); two seconds of one bucket are a window
  apart (`SameRemainder`), so the bucket of a second in the window holds that second,
  or one that came while `stats` waited for the lock with an older time (`asked`).
  The sums over buckets and over seconds are then compared by induction over the
  width (`WindowsMatch`). `NamesCorrect` (NamesAreKept): the registry and its copy
  are RegistrySafe — what is copied has not been dropped, what is in the drop list is
  given up for a reason the property names, and an attempt is counted for each pass;
  MapsSafe says that every published map has the pod under its Deployment, whichever
  list failed. `FacetsCorrect` (FacetsCountTheirFields): no getter of one part reads a
  field that another part's gate guards (`GettersApart`), so skipping loses nothing
  (`GatesLoseNothing`); a table counts no more than was seen, through any eviction
  (`Incremented`). `CacheCorrect` (CacheServesFresh): a body's stamp is not later than
  the snapshot it was built from, and the account is the sum of the sizes.
  `TimelineCorrect` is about a part of AggregatesAgree, TimelineComplete: the steps of
  the timeline reach from its start to the end of the range, whichever end the limit
  cuts (`StepsFit`), so every entry in the range has one step, and the counts of the
  steps add up to the entries (`PartsAddUp`, by induction over the steps).
  `PartsAssumption`: a positive window that contains the live rate, at least one
  attempt, a positive bucket and room for one bucket, natural limits, and pod and service addresses that differ, as refresh
  assumes when it lets services fill the gaps (k8s.go:178-180).
* **HubFanoutProofs**: `NothingLostSilently` (Spec ⇒ □NoSilentLoss),
  `GroupsShareOneFilter` (the action property GroupsRespectFilters) and
  `WindowsAreFlushed` (Spec ⇒ □WindowHasTimer), for any finite set of ingesting
  goroutines and any dashboards and filters. NoSilentLoss needs to know what a flush
  holds: a plan only while it sends (PlansHeld), entries that were stored before
  (Stored), the key and the predicate of one filter, for a client and for a group it
  has formed (KeysAgree, GroupsAgree), and a predicate that matches all the client is owed of the window although the client may have
  changed its filter since (PlansMatch). `TimerInv` counts the goroutines about to
  arm the timer.
* **CaptureSessionProofs**: `StoppedIsTrue` (Spec ⇒ □StoppedMeansStopped), and the
  action properties `SessionNotExtended` and `StopNotUndone`, for any number of
  hubs, nodes, requests and edits. `IInv` says that an operation that has read the
  DaemonSet holds a copy (InHand), that a copy whose version is current is the
  DaemonSet (CopiesCurrent), that every expiry in the cluster is a whole second,
  having gone through RFC 3339 (WholeSeconds), that a patch which will be accepted
  and makes the session run starts one that is over or repeats what is there
  (RunningPatches), and what the controller's status says of the pods
  (ReportedPods). AnswersTrue carries what a read showed to the answer made of it
  later.
* **LinksProofs**: of the send queue `QueueIsAccounted` (QueueAccount) and
  `NoStarvation` (RefusedOnlyWhenBehind), of the registry `LatestStaysRegistered`
  (RegistryFollowsLatest), of both `ChannelsStayOpen` (NoSendOnClosed), of the sink
  `EntriesDelivered` (DeliveredOnceInOrder) and of the export `ExportIsAccounted`
  (ExportAccount), for any finite set of broadcasters and any
  assignment of connections to nodes. QueueSafe and ChannelsSafe say who may still
  send when a channel is closed; QueueCounted says that the byte counter is the sum
  of what is in the channel, in the writer's hand and admitted; RowsSafe says which
  handler still has to take back a row that says connected. For the export, HookSafe
  says that what is posted, batched and queued is increasing, each before the next,
  and FilesSafe that every file is increasing and before all newer ones and the
  queue, which each single rename of a rotation preserves: that is why a crash
  between two of them does no harm. A live file is below its limit plus one entry
  for each failure (Steady), which bounds what a rename can leave. `ExportAssumption`:
  at least one rotated file, which holds at least one entry. Of the pause,
  `WakeupsAreNotLost` (Spec ⇒ □NoLostWakeup) for any set of readers: when the source
  disagrees with the flag, then a signal is in the channel, or a reader is about to
  send one, or the loop is about to look at the flag (PauseSafe).
  Of the sink alone, `EveryEntryCounted` (Spec ⇒ □Accounted) for every queue size,
  batch limit and entry length, from an invariant that types the counters and the
  two sequences; each step moves one entry between two terms of the sum.
  `DeliveredInOrder` shows that entries whose write succeeded are read once and in the
  order of capture; a batch whose write failed may have reached the hub and is sent
  again, so its entries may repeat and come late. `FramesWithinLimit` shows for records
  of any length that a frame exceeds the hub's read limit only if its last record is
  longer than `Room`, what the limit leaves on top of a full batch with its commas and
  its envelope; of the constants it assumes that they leave room for the batch
  (sink.go:41-44).
* **WorkerCaptureProofs**: theorems about the composition `MCWorkerCapture`, whose
  steps are steps of one part. `PairedCorrectly` (MispairedOnlyIf) and `PairedOnce`
  (PairsAreClean) for the FIFO of a connection, for any number of connections and
  requests, any backlog and any number of retries. Neither property is inductive:
  whether the entry that a response makes is right depends on what is at the head
  of the FIFO. PairsSafe says, of each connection, that the FIFO is a run of
  consecutive numbers ending with the last request parsed (Queued), that on a
  connection in order its length is the number of requests not yet answered
  (Aligned), that what was paired has left the FIFO (Taken, Once), that a response is
  parked only on the request whose body is being read, and that the directions
  counted are those being read (Counted). Each action has a lemma about the values
  of one connection, and one that lifts it to all of them. `IdsPairCorrectly`
  (IdsPairOnce) and `SweepSparesNew` for pairing by id: requests are read in order,
  so what waits under an id is the newest request read with it.
  `FlowsReportedCorrectly` (FlowsReportedOnce) for the flow table: flows and the entries not made from them
  share no packet, a dissected connection is marked on its flow unless the flow is
  gone, and a flow expects nothing beyond what was sent until sequence numbers wrap
  or start again, nor beyond a segment in hand that is ahead of all before it
  (FlowsPlaced), so what is behind its expectation was sent before something else. `ProbesStayWhereNeeded` (ProbesOnlyWhereNeeded) for the TLS probes:
  a walk has found every library that a process has had mapped since it began, or
  still has to read that process, or is incomplete.
  `StreamsStayWhole` (StreamsHaveNoHole) for decrypted TLS, any number of
  connections, chunks, streams and any capacities, in the one direction the
  composition follows. TLSSafe needs three places at once: behind every record in
  the channel, all that was sent later is awaited, that is, in the channel too,
  behind a loss, or missed without a record (Good, ChannelSafe); so is all that was
  sent behind the last chunk of an open pipe (Caught), which says that the next
  record leaves no hole but a missed one; and what was read is the beginning of what was put in, the
  buffer and the pipe its rest (PipeShape). A pipe that refused a chunk is closed,
  and a connection that lost one is in the ledger (LossKnown), so neither resumes.
  Assumptions: `PairingAssumption`, `FlowAssumption`, `TLSAssumption` (a chunk has
  bytes: `feed` ignores empty records) and `AttachAssumption`.
* **DissectorProofs**: theorems about the same composition, of its dissectors.
  `DirectionsCorrect` (DirectionsAgree) for the dispatch, for any extra ports: the two
  directions are routed one at a time, so DispatchSafe says that what is routed is
  what `Consumed` gives for that side and that the openings are those of the protocol
  spoken, the misleading ones among them; then the cases are the dispatch by port, by a first byte that tells the
  role (`SniffedRight`) and by direction. `FramingCorrect` (StaysFramed and
  StopsOnlyOnBadSize) for the framing, for any sizes and limits: FramesSafe lays the
  messages not yet taken on the wire (Starts), and says that the reader is at the
  start of the next one, or within the body of one it skips.
  `RepliesCorrect` (RepliesInStep) for pairing without ids, for any number of
  commands, pushes and columns. The messages do not say where in an answer they
  are, so RepliesPlaced gives each one on the wire its place: they are whole answers
  to successive commands, but for the first, of which the rest is left. With that, the
  queue holds exactly the followed commands whose reply is still to come, in order;
  MySQL's reader, which counts column definitions, is in the state that the next
  message needs; and what no command asked for is no reply.
  `ContentCorrect` (ContentIsWhole) for the contents of AMQP, for any channels, sizes,
  body cap and bytes read of a frame. Assembles says that the channel map has a message
  under way if and only if its method frame was captured, with the count of the bytes
  that have been sent of it and some of them in order (OwnBody); a frame adds bytes
  behind those (`MoreBody`), and leaves a hole only where one of the limits has cut;
  ReportsWhole that a message is reported just when it is due: complete, begun after
  the capture, and not broken off. That a property shown is that property
  (`PropertiesShown`) is an induction along the property list: the encoder and the
  parser are folds over the same list (`ListRuns`, `ParseRuns`), and the parser stands
  where the cells of the properties before it end, or at the end of a cut frame.
  Assumptions: `FramingAssumption` (natural sizes), `RouteAssumption` (the client's
  port is the higher one, as the direction hint takes it to be,
  pipeline.go:617-623), `ReplyAssumption` (a natural number of columns) and
  `ContentAssumption` (natural message size, body cap and bytes read of a frame; a cap
  that is not positive is replaced by the default, pipeline.go:117, 130-132).
* **SumProofs** holds what these share: induction over Nat stated with a set
  instead of an operator (by the least element of its complement), and with it the
  sums over sets and sequences, and a fold over a sequence as a run with a state for
  each prefix.

Model-checked only, and why:

* the liveness properties and all that need fairness: out of the prover's reach;
* Filter: the parser is a RECURSIVE operator, and every module that reaches it loses
  the SMT backend, which is why `MCHubStore` adds it to HubParts and no theorem is
  about `MCHubStore`;
* Aggregates but for its timeline: the summary, the graph, the ranks and the diff are
  built with `SelectSeq` and `SortSeq`, to which the provers attach no meaning: a
  definition that the prover cannot expand, and a sort by an operator parameter.

## 6. Not modelled, and why

* What a dissector renders of a payload, packet reassembly, HTTP bodies and pcap
  files: data transformation without state. How messages are framed, paired and
  put together is modelled.
* Packet sources, eBPF programs, ELF and procfs parsing: kernel I/O. They appear as
  opening, failing to open and ending in CapturePause, as records dropped with and
  without a tombstone in TLSCapture, and as processes read one by one in TLSAttach.
* A record of the export file that is written in part (`hub/export.go:228-247`): Exporter
  writes a record whole or not at all.
* An entry that `json.Marshal` refuses has no raw form; `broadcast` and the replay pass
  over it (`hub/server.go:1049`). HubFanout leaves such entries out; HubStore keeps
  them with length 0.
* HTTP routing, token checks, metric text, CLI, manifests, MCP tool texts: stateless
  per request or sequential I/O. The demo generator: nothing depends on it.
* The lexer of IFL, `matches` and `startswith`: text matching. The dashboard's own
  parser and the state of `useHub` beyond its paging: code of the browser, with one
  thread.
* The header-name facets and the lists served to the autocompletion: the same
  counters read out.

## 7. Plan

Done: the store with its readers and rates, fan-out, send queue, capture sessions,
registry, sink, pause, pairing of every kind, flows, TLS capture and its probes,
framing, dispatch, resolver, exporter, cache, facets, filters and aggregates.

Left: every safety property of a passing run is stated by a theorem but
FiltersCompileAsMeant and the parts of AggregatesAgree other than TimelineComplete,
for the reasons at the end of section 5.
