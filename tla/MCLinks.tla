------------------------------- MODULE MCLinks -------------------------------
(***************************************************************************)
(* Model of the links of hub, workers and dashboards: the sink of a worker *)
(* (WorkerSink), the commands that pause its capture (CapturePause), the   *)
(* hub's side of worker connections (WorkerRegistry), the send queue of a  *)
(* dashboard (FrontQueue) and the export of entries (Exporter).  A         *)
(* behaviour exercises one of them, so that their states add up instead of *)
(* multiplying; a temporal property assumes the fairness of its own part   *)
(* only, and an invariant is only evaluated where its part runs.           *)
(***************************************************************************)
EXTENDS WorkerSink

CONSTANTS
  Readers,
  Nodes, WorkerConns, NodeOfConn, CommandSlots, GC, MaxRows, None,
  Broadcasters, Handler, FrameSizes, SendSlots, frontQueueBytes, MaxFrames,
  exportBufferSize, exportFileRotations, exportWebhookMaxBatch, FileMax, MaxEntries, MaxFaults

VARIABLES
  part,  \* the part that runs
  capturePaused, pauseChanged, rpc, loop, src, captureLive, sourceBroken,
  hpc, workers, rows, row, held, workerConns, latest, commands, commandWriter, commandPanic,
  send, open, registered, queuedBytes, spc, frame, handler, writer, hand, panic, peer,
  frames,
  webhook, exported, buffered, live, old, file, rot, batch, posted, counted, crashed, run, faults

\* For the run: every connection is of the one node.
OneNode == [k \in WorkerConns |-> CHOOSE n \in Nodes : TRUE]

P == INSTANCE CapturePause WITH broken <- sourceBroken
R == INSTANCE WorkerRegistry WITH Conns <- WorkerConns, NodeOf <- NodeOfConn,
       SendSlots <- CommandSlots, send <- commands, writer <- commandWriter,
       panic <- commandPanic
Q == INSTANCE FrontQueue
X == INSTANCE Exporter WITH ch <- buffered, n <- exported

ASSUME LinksAssumption == R!RegistryAssumption /\ Q!QueueAssumption /\ X!ExportAssumption

pauseVars == <<capturePaused, pauseChanged, rpc, loop, src, captureLive, sourceBroken>>
registryVars == <<hpc, workers, rows, row, held, workerConns, latest, commands,
                  commandWriter, commandPanic>>
queueVars == <<send, open, registered, queuedBytes, spc, frame, handler, writer,
               hand, panic, peer, frames>>

exportVars == <<webhook, exported, buffered, live, old, file, rot, batch, posted, counted, crashed,
                run, faults>>

MCInit == /\ part \in {"sink", "pause", "registry", "queue", "export"}
          /\ Init /\ P!Init /\ R!Init /\ Q!Init /\ X!Init
          /\ part = "export" \/ ~webhook

MCNext ==
  /\ UNCHANGED part
  /\ \/ part = "sink" /\ Next /\ UNCHANGED <<pauseVars, registryVars, queueVars, exportVars>>
     \/ part = "pause" /\ P!Next /\ UNCHANGED <<vars, registryVars, queueVars, exportVars>>
     \/ part = "registry" /\ R!Next /\ UNCHANGED <<vars, pauseVars, queueVars, exportVars>>
     \/ part = "queue" /\ Q!Next /\ UNCHANGED <<vars, pauseVars, registryVars, exportVars>>
     \/ part = "export" /\ X!Next /\ UNCHANGED <<vars, pauseVars, registryVars, queueVars>>

MCSpec == MCInit /\ [][MCNext]_<<part, vars, pauseVars, registryVars, queueVars, exportVars>>

-----------------------------------------------------------------------------
(* Properties.                                                             *)

\* Entries reach the hub once and in order but after a failed write, and a
\* frame is over the hub's read limit only for the length of its last record;
\* see WorkerSink (sink.go:41-49, 252-254, 365-373).
DeliveredOnceInOrder == part = "sink" => OnceInOrder /\ FramesFit

\* The pump never stops between a failure and the next connection (WorkerSink,
\* sink.go:170-189); a pause or resume that is not taken back takes effect
\* (CapturePause, worker.go:225-253); the queue of a dashboard drains, or its
\* stalled client is removed (FrontQueue, server.go:812-818, 958-982); and a
\* stop of the exporter comes to its end (Exporter, export.go:178-189).
LinksMove ==
  /\ part = "sink" /\ Fairness => QueueMoves
  /\ part = "pause" /\ P!Fairness => P!CommandTakesEffect
  /\ part = "queue" /\ Q!Fairness => Q!QueueDrains
  /\ part = "export" /\ X!Fairness => X!StopDrains

\* The byte counter of a send queue is exact whatever path a frame leaves by,
\* and the queue is bounded by it but for one oversized frame; see FrontQueue
\* (server.go:968-1018).
QueueAccount == part = "queue" => Q!CounterExact /\ Q!QueueBounded

\* A frame is refused for its bytes only when the client is behind; see
\* FrontQueue (server.go:1003-1007).
RefusedOnlyWhenBehind == Q!RefusedOnlyWhenBehind

\* No goroutine sends a frame or a command on a channel that the teardown of
\* its connection has closed, which would crash the hub (server.go:478-485,
\* 869-875).
NoSendOnClosed == Q!NoPanic /\ R!NoPanic

\* The connection that said hello last stays reachable for commands while it
\* is served, and a node with no handler left is not marked as connected; see
\* WorkerRegistry (server.go:476-482, 746-755).
RegistryFollowsLatest ==
  part = "registry" => R!LiveStaysReachable /\ R!GoneIsNotConnected

\* An entry the webhook does not get is counted or was lost in a crash, and
\* the files read in order from the oldest; see Exporter (export.go:133-144,
\* 228-316).
ExportAccount == part = "export" => X!NoSilentDrop /\ X!FilesInOrder
=============================================================================
