---------------------------- MODULE WorkerRegistry ----------------------------
(***************************************************************************)
(* The hub's side of its worker connections (internal/hub/server.go):      *)
(* handleWorker's hello and teardown, the registry of workers, its garbage *)
(* collection, and the delivery of pause commands.                         *)
(*                                                                         *)
(* Each connection has a handler goroutine and a writer.  A worker may     *)
(* reconnect while the hub has not yet noticed that its old connection is  *)
(* dead, so handlers of one node overlap; the registry row and the command *)
(* channel of a node are updated in separate critical sections of wmu.     *)
(* Looking up or creating a row (workerRow) and applying an update to it   *)
(* (workerUpdate) are separate too, and the collector may run in between.  *)
(*                                                                         *)
(* Every connection id is used once and belongs to one node, and a worker  *)
(* says hello once per connection.  lastSeen is abstracted to "recent"     *)
(* (within workerGCTTL of now) or not, a command to its being in the       *)
(* channel.  The other fields of a row and the number of open connections  *)
(* (a function of hpc) are left out.                                       *)
(***************************************************************************)
EXTENDS Integers, Sequences, FiniteSets

CONSTANTS
  Nodes,      \* worker nodes
  Conns,      \* WebSocket connections
  NodeOf,     \* NodeOf[k]: the node a connection comes from
  SendSlots,  \* capacity of a command channel (8)
  GC,         \* whether time passes far enough for rows to be collected
  MaxRows,    \* bound on the rows ever created
  None

RegistryAssumption ==
  /\ NodeOf \in [Conns -> Nodes]
  /\ SendSlots \in Nat \ {0} /\ MaxRows \in Nat
  /\ GC \in BOOLEAN
  /\ None \notin Conns /\ None \notin Nat

VARIABLES
  hpc,          \* hpc[k]: where the handler of connection k is
  workers,      \* workers[n]: the row of a node (its index in rows), or None
  rows,         \* every row ever created: [connected, recent]
  row,          \* row[k]: the row the running workerUpdate looked up
  held,         \* held[k]: the row resolved at hello, for the entry counters
  workerConns,  \* workerConns[n]: the connection whose channel is registered
  latest,       \* latest[n]: the connection whose hello came last (history)
  send,         \* send[k]: the number of commands in the channel
  writer,       \* writer[k]: the goroutine draining it runs
  panic         \* a command was sent on a closed channel

vars == <<hpc, workers, rows, row, held, workerConns, latest, send, writer, panic>>

Stages == {"none", "open", "hello", "row", "register", "serving", "stats",
           "gone", "unconnect", "unregister", "close", "closed"}

TypeOK ==
  /\ hpc \in [Conns -> Stages]
  /\ workers \in [Nodes -> (1 .. MaxRows) \cup {None}]
  /\ rows \in Seq([connected : BOOLEAN, recent : BOOLEAN]) /\ Len(rows) <= MaxRows
  /\ row \in [Conns -> (1 .. MaxRows) \cup {None}]
  /\ held \in [Conns -> (1 .. MaxRows) \cup {None}]
  /\ workerConns \in [Nodes -> Conns \cup {None}]
  /\ latest \in [Nodes -> Conns \cup {None}]
  /\ send \in [Conns -> 0 .. SendSlots]
  /\ writer \in [Conns -> BOOLEAN]
  /\ panic \in BOOLEAN

Init ==
  /\ hpc = [k \in Conns |-> "none"]
  /\ workers = [n \in Nodes |-> None]
  /\ rows = <<>>
  /\ row = [k \in Conns |-> None]
  /\ held = [k \in Conns |-> None]
  /\ workerConns = [n \in Nodes |-> None]
  /\ latest = [n \in Nodes |-> None]
  /\ send = [k \in Conns |-> 0]
  /\ writer = [k \in Conns |-> FALSE]
  /\ panic = FALSE

channels == <<workerConns, latest, send, writer, panic>>
registry == <<workers, rows, row, held>>

Goto(k, stage) == hpc' = [hpc EXCEPT ![k] = stage]

-----------------------------------------------------------------------------
(* workerRow and workerUpdate.                                             *)

\* workerRow(node): the row of the node, created on first sight and noted in
\* slot, the handler's variable that takes the result.
workerRow(n, slot, k) ==
  IF workers[n] # None
  THEN slot' = [slot EXCEPT ![k] = workers[n]] /\ UNCHANGED <<workers, rows>>
  ELSE /\ Len(rows) < MaxRows
       /\ rows' = Append(rows, [connected |-> FALSE, recent |-> FALSE])
       /\ workers' = [workers EXCEPT ![n] = Len(rows) + 1]
       /\ slot' = [slot EXCEPT ![k] = Len(rows) + 1]

\* The second half of workerUpdate: fn(&we.info) on the row looked up.
workerUpdate(k, connected, recent) ==
  /\ rows' = [rows EXCEPT ![row[k]] = [connected |-> connected, recent |-> recent]]
  /\ UNCHANGED <<workers, row, held>>

-----------------------------------------------------------------------------
(* handleWorker.                                                           *)

\* Upgrade: the channel and the writer exist from here on.
Accept(k) ==
  /\ hpc[k] = "none"
  /\ writer' = [writer EXCEPT ![k] = TRUE]
  /\ Goto(k, "open")
  /\ UNCHANGED <<registry, workerConns, latest, send, panic>>

\* The hello: look up the row for the entry counters, then again inside
\* workerUpdate, mark it connected, and register the channel.
HelloHold(k) ==
  /\ hpc[k] = "open"
  /\ workerRow(NodeOf[k], held, k)
  /\ Goto(k, "hello")
  /\ UNCHANGED <<row, channels>>

HelloRow(k) ==
  /\ hpc[k] = "hello"
  /\ workerRow(NodeOf[k], row, k)
  /\ Goto(k, "row")
  /\ UNCHANGED <<held, channels>>

HelloUpdate(k) ==
  /\ hpc[k] = "row"
  /\ workerUpdate(k, TRUE, TRUE)
  /\ Goto(k, "register")
  /\ UNCHANGED channels

HelloRegister(k) ==
  /\ hpc[k] = "register"
  /\ workerConns' = [workerConns EXCEPT ![NodeOf[k]] = k]
  /\ latest' = [latest EXCEPT ![NodeOf[k]] = k]
  /\ Goto(k, "serving")
  /\ UNCHANGED <<registry, send, writer, panic>>

\* Entries arrive: recordWorkerEntries refreshes the row held since hello,
\* without wmu, whether or not the registry still lists it.
Entries(k) ==
  /\ hpc[k] = "serving"
  /\ rows' = [rows EXCEPT ![held[k]].recent = TRUE]
  /\ UNCHANGED <<hpc, workers, row, held, channels>>

\* A stats frame: LastSeen is refreshed, Connected is left alone.
StatsRow(k) ==
  /\ hpc[k] = "serving"
  /\ workerRow(NodeOf[k], row, k)
  /\ Goto(k, "stats")
  /\ UNCHANGED <<held, channels>>

StatsUpdate(k) ==
  /\ hpc[k] = "stats"
  /\ workerUpdate(k, rows[row[k]].connected, TRUE)
  /\ Goto(k, "serving")
  /\ UNCHANGED channels

\* ReadMessage fails.  A connection without a hello has no row and no
\* registered channel to clean up.
Disconnect(k) ==
  /\ hpc[k] \in {"open", "serving"}
  /\ Goto(k, IF hpc[k] = "open" THEN "close" ELSE "gone")
  /\ UNCHANGED <<registry, channels>>

TeardownRow(k) ==
  /\ hpc[k] = "gone"
  /\ workerRow(NodeOf[k], row, k)
  /\ Goto(k, "unconnect")
  /\ UNCHANGED <<held, channels>>

TeardownUpdate(k) ==
  /\ hpc[k] = "unconnect"
  /\ workerUpdate(k, FALSE, rows[row[k]].recent)
  /\ Goto(k, "unregister")
  /\ UNCHANGED channels

\* Mutant of TeardownUnregister: whatever channel is registered goes.
TeardownUnregisterAny(k) ==
  /\ hpc[k] = "unregister"
  /\ workerConns' = [workerConns EXCEPT ![NodeOf[k]] = None]
  /\ Goto(k, "close")
  /\ UNCHANGED <<registry, latest, send, writer, panic>>

\* Only if this connection's channel is still the registered one.
TeardownUnregister(k) ==
  /\ hpc[k] = "unregister"
  /\ workerConns' = [workerConns EXCEPT ![NodeOf[k]] = IF @ = k THEN None ELSE @]
  /\ Goto(k, "close")
  /\ UNCHANGED <<registry, latest, send, writer, panic>>

TeardownClose(k) ==
  /\ hpc[k] = "close"
  /\ Goto(k, "closed")
  /\ UNCHANGED <<registry, channels>>

\* workerWriter: write the next command to the socket, or fail and return.
WriterSend(k) ==
  /\ writer[k]
  /\ send[k] > 0
  /\ send' = [send EXCEPT ![k] = @ - 1]
  /\ \/ UNCHANGED writer
     \/ writer' = [writer EXCEPT ![k] = FALSE]
  /\ UNCHANGED <<hpc, registry, workerConns, latest, panic>>

\* The channel is closed and empty.
WriterExit(k) ==
  /\ writer[k]
  /\ hpc[k] = "closed" /\ send[k] = 0
  /\ writer' = [writer EXCEPT ![k] = FALSE]
  /\ UNCHANGED <<hpc, registry, workerConns, latest, send, panic>>

-----------------------------------------------------------------------------
(* sendWorkerCommand and gcWorkers, each in one critical section.          *)

\* To the nodes of a request (one, or all): a full channel drops the command.
sendWorkerCommand ==
  \E targets \in {{n} : n \in Nodes} \cup {Nodes} :
    LET reached == {workerConns[n] : n \in targets} \ {None} IN
    /\ reached # {}
    /\ send' = [k \in Conns |-> IF k \in reached /\ send[k] < SendSlots
                               THEN send[k] + 1 ELSE send[k]]
    /\ panic' = (panic \/ \E k \in reached : hpc[k] = "closed")
    /\ UNCHANGED <<hpc, registry, workerConns, latest, writer>>

\* More than workerGCTTL passes without a sign of life on any row.
TimePasses ==
  /\ GC
  /\ \E i \in DOMAIN rows : rows[i].recent
  /\ rows' = [i \in DOMAIN rows |-> [rows[i] EXCEPT !.recent = FALSE]]
  /\ UNCHANGED <<hpc, workers, row, held, channels>>

gcWorkers ==
  LET stale == {n \in Nodes : /\ workers[n] # None
                              /\ ~rows[workers[n]].connected /\ ~rows[workers[n]].recent} IN
  /\ GC
  /\ stale # {}
  /\ workers' = [n \in Nodes |-> IF n \in stale THEN None ELSE workers[n]]
  /\ UNCHANGED <<hpc, rows, row, held, channels>>

-----------------------------------------------------------------------------
handleWorker(k) ==
  \/ Accept(k) \/ HelloHold(k) \/ HelloRow(k) \/ HelloUpdate(k)
  \/ HelloRegister(k) \/ Entries(k) \/ StatsRow(k) \/ StatsUpdate(k) \/ Disconnect(k)
  \/ TeardownRow(k) \/ TeardownUpdate(k) \/ TeardownUnregister(k) \/ TeardownClose(k)

Next == \/ \E k \in Conns : handleWorker(k) \/ WriterSend(k) \/ WriterExit(k)
        \/ sendWorkerCommand \/ TimePasses \/ gcWorkers

Spec == Init /\ [][Next]_vars

-----------------------------------------------------------------------------
(* Properties.                                                             *)

\* A command is never sent on the channel of a connection that was torn down,
\* which would crash the hub, although teardown, reconnect and commands
\* interleave (server.go:475-485, 569-597).
NoPanic == ~panic

\* The connection that said hello last stays reachable for commands as long
\* as it is served: a late teardown of an older connection of the node never
\* unregisters it (server.go:478-482).
LiveStaysReachable ==
  \A n \in Nodes : latest[n] # None /\ hpc[latest[n]] \in {"serving", "stats"} =>
    workerConns[n] = latest[n]

\* A node whose handlers are all gone is not left marked as connected, or its
\* row would never be collected (server.go:476, 746-755).
GoneIsNotConnected ==
  \A n \in Nodes : workers[n] # None /\ rows[workers[n]].connected =>
    \E k \in Conns : /\ NodeOf[k] = n
                     /\ hpc[k] \in {"register", "serving", "stats", "gone", "unconnect"}

\* "Whether the worker is currently connected." (server.go:1555): while a
\* node has a live connection its row says so.
RegistryShowsConnected ==
  \A k \in Conns : hpc[k] = "serving" =>
    workers[NodeOf[k]] # None /\ rows[workers[NodeOf[k]]].connected

=============================================================================
