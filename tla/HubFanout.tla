------------------------------ MODULE HubFanout ------------------------------
(***************************************************************************)
(* Live fan-out from the hub to the dashboards (internal/hub/server.go):   *)
(* ingest() stores an entry and queues it in `pending`; the first entry of *)
(* a window arms a one-shot timer whose flushBroadcast() sends every front *)
(* client the part of the window that matches its filter.  A connecting    *)
(* client, and one that swaps its filter, is first replayed history.       *)
(*                                                                         *)
(* Entries are numbered in ring order and abstracted to the class the      *)
(* filters tell apart; a filter is the set of classes it matches.  The     *)
(* ring is large enough here to evict nothing (HubStore is about that).    *)
(* Whether trySend finds room is decided by FrontQueue and is a free       *)
(* choice here.  Every client id is one WebSocket connection.  An entry    *)
(* that json.Marshal refuses (raw is nil) is stored but neither replayed   *)
(* nor broadcast; every entry here marshals.                               *)
(***************************************************************************)
EXTENDS Integers, Sequences, FiniteSets, SequencesExt

CONSTANTS
  Ingesters,    \* ingest goroutines, one per worker connection
  Clients,      \* front connections
  Flushers,     \* goroutines that can run flushBroadcast at the same time
  Classes,      \* what filters tell apart in an entry
  Filters,      \* the filters that compile, as sets of classes
  ReplayDepth,  \* entries replayed (500)
  ReplayBatch,  \* replayBatchSize (100)
  MaxEntries,   \* bounds on the entries ingested,
  MaxSwaps      \*   and on the filter frames handled

ASSUME FanoutAssumption ==
  /\ Filters \subseteq SUBSET Classes
  /\ IsFiniteSet(Ingesters)
  /\ ReplayDepth \in Nat \ {0} /\ ReplayBatch \in Nat \ {0}

VARIABLES
  stored,     \* the ring: the class of every entry, oldest first
  ipc, icur,  \* ingest goroutine: where it is, the entry it holds
  pending,    \* s.pending
  timers,     \* armed one-shot timers that have not fired
  fpc,        \* flush goroutine: idle, taken; with s.mu.RLock: grouping, sending
  fbatch,     \* the window it took
  fkeys,      \* byKey: filter key -> predicate of its group
  fplan,      \* client -> predicate its group uses; shrinks as it sends
  conn,       \* conn[c]: where the connection of c is
  pred, key,  \* c.pred and c.filterKey
  swap,       \* the filter a replay is under way for
  replay,     \* history still to be replayed, oldest first
  sent,       \* entries queued to c
  again,      \* entries queued to c by a flush after a replay of them
  lost,       \* live entries whose frame c's full queue refused
  broadcastDropped,
  since,      \* history: entries above it are owed to c by live fan-out
  swaps       \* filter frames so far

ingestVars == <<stored, ipc, icur>>
flushVars == <<pending, timers, fpc, fbatch, fkeys, fplan, broadcastDropped>>
connVars == <<conn, pred, key, swap, replay, since, swaps>>
queueVars == <<sent, again, lost>>
vars == <<ingestVars, flushVars, connVars, queueVars>>

Reject == {}  \* the match-nothing predicate of a bad ?filter=

\* s.frontClients
frontClients == {c \in Clients : conn[c] \in {"live", "swapping"}}

Numbers == 1 .. MaxEntries

TypeOK ==
  /\ stored \in Seq(Classes) /\ Len(stored) <= MaxEntries
  /\ ipc \in [Ingesters -> {"idle", "stored", "queueing", "arming"}]
  /\ icur \in [Ingesters -> 0 .. MaxEntries]
  /\ pending \in Seq(Numbers)
  /\ timers \in 0 .. Cardinality(Flushers)
  /\ fpc \in [Flushers -> {"idle", "taken", "grouping", "sending"}]
  /\ fbatch \in [Flushers -> Seq(Numbers)]
  /\ \A f \in Flushers : DOMAIN fplan[f] \subseteq Clients /\ DOMAIN fkeys[f] \subseteq SUBSET Classes
  /\ conn \in [Clients -> {"off", "replaying", "live", "swapping", "unlinked", "closed"}]
  /\ pred \in [Clients -> SUBSET Classes] /\ swap \in [Clients -> SUBSET Classes]
  /\ replay \in [Clients -> Seq(Numbers)]
  /\ sent \in [Clients -> SUBSET Numbers]
  /\ again \in [Clients -> SUBSET Numbers]
  /\ lost \in [Clients -> SUBSET Numbers]
  /\ broadcastDropped \in Nat
  /\ since \in [Clients -> 0 .. MaxEntries]
  /\ swaps \in 0 .. MaxSwaps

Init ==
  /\ stored = <<>>
  /\ ipc = [i \in Ingesters |-> "idle"] /\ icur = [i \in Ingesters |-> 0]
  /\ pending = <<>> /\ timers = 0
  /\ fpc = [f \in Flushers |-> "idle"]
  /\ fbatch = [f \in Flushers |-> <<>>]
  /\ fkeys = [f \in Flushers |-> <<>>] /\ fplan = [f \in Flushers |-> <<>>]
  /\ broadcastDropped = 0
  /\ conn = [c \in Clients |-> "off"]
  /\ pred = [c \in Clients |-> Reject] /\ key = [c \in Clients |-> Reject]
  /\ swap = [c \in Clients |-> Reject]
  /\ replay = [c \in Clients |-> <<>>]
  /\ sent = [c \in Clients |-> {}]
  /\ again = [c \in Clients |-> {}]
  /\ lost = [c \in Clients |-> {}]
  /\ since = [c \in Clients |-> 0] /\ swaps = 0

-----------------------------------------------------------------------------
(* ingest(): store.add, then broadcast.                                    *)

IngestStore(i) ==
  /\ ipc[i] = "idle"
  /\ Len(stored) < MaxEntries
  /\ \E k \in Classes : stored' = Append(stored, k)
  /\ icur' = [icur EXCEPT ![i] = Len(stored) + 1]
  /\ ipc' = [ipc EXCEPT ![i] = "stored"]
  /\ UNCHANGED <<flushVars, connVars, queueVars>>

Return(i) ==
  /\ ipc' = [ipc EXCEPT ![i] = "idle"]
  /\ icur' = [icur EXCEPT ![i] = 0]

\* Mutant of BroadcastCheck: the fast path is also taken with one client.
BroadcastCheckFew(i) ==
  /\ ipc[i] = "stored"
  /\ IF Cardinality(frontClients) <= 1 THEN Return(i)
     ELSE ipc' = [ipc EXCEPT ![i] = "queueing"] /\ UNCHANGED icur
  /\ UNCHANGED <<stored, flushVars, connVars, queueVars>>

\* The fast path: with no front client the entry is not queued.  frontCount
\* is only trusted when it is not zero, and changes together with the map,
\* so reading it and then the map is one look at frontClients.
BroadcastCheck(i) ==
  /\ ipc[i] = "stored"
  /\ IF frontClients = {} THEN Return(i)
     ELSE ipc' = [ipc EXCEPT ![i] = "queueing"] /\ UNCHANGED icur
  /\ UNCHANGED <<stored, flushVars, connVars, queueVars>>

\* The append, and what it means to be the first entry of a window.
QueueEntry(i, first) ==
  /\ ipc[i] = "queueing"
  /\ pending' = Append(pending, icur[i])
  /\ IF first THEN ipc' = [ipc EXCEPT ![i] = "arming"] /\ UNCHANGED icur
     ELSE Return(i)
  /\ UNCHANGED <<stored, timers, fpc, fbatch, fkeys, fplan, broadcastDropped,
                 connVars, queueVars>>

\* Mutant of BroadcastQueue: only the second entry of a window arms a timer.
BroadcastQueueSecond(i) == QueueEntry(i, Len(pending) = 1)

\* Append under bmu; the first entry of a window has a timer to arm.
BroadcastQueue(i) == QueueEntry(i, pending = <<>>)

\* time.AfterFunc, after bmu is released.
BroadcastArm(i) ==
  /\ ipc[i] = "arming"
  /\ timers < Cardinality(Flushers)
  /\ timers' = timers + 1
  /\ Return(i)
  /\ UNCHANGED <<stored, pending, fpc, fbatch, fkeys, fplan, broadcastDropped,
                 connVars, queueVars>>

-----------------------------------------------------------------------------
(* flushBroadcast().                                                       *)

\* The timer fires: take the window under bmu.
FlushTake(f) ==
  /\ fpc[f] = "idle"
  /\ timers > 0
  /\ timers' = timers - 1
  /\ fbatch' = [fbatch EXCEPT ![f] = pending]
  /\ pending' = <<>>
  /\ fpc' = [fpc EXCEPT ![f] = IF pending = <<>> THEN "idle" ELSE "taken"]
  /\ UNCHANGED <<ingestVars, fkeys, fplan, broadcastDropped, connVars, queueVars>>

\* s.mu.RLock
FlushLock(f) ==
  /\ fpc[f] = "taken"
  /\ fpc' = [fpc EXCEPT ![f] = "grouping"]
  /\ UNCHANGED <<ingestVars, pending, timers, fbatch, fkeys, fplan, broadcastDropped,
                 connVars, queueVars>>

\* m[k] = v of a Go map.
With(m, k, v) == [x \in DOMAIN m \cup {k} |-> IF x = k THEN v ELSE m[x]]

\* snapshotFilter of one client, under its c.mu only, so that another may swap
\* its filter in between.  A client whose key was met before joins that group
\* and shares its predicate; the others begin a group.
FlushSnapshot(f) ==
  /\ fpc[f] = "grouping"
  /\ \E c \in frontClients \ DOMAIN fplan[f] :
       LET group == IF key[c] \in DOMAIN fkeys[f] THEN fkeys[f][key[c]] ELSE pred[c] IN
       /\ fplan' = [fplan EXCEPT ![f] = With(@, c, group)]
       /\ fkeys' = [fkeys EXCEPT ![f] = With(@, key[c], group)]
  /\ UNCHANGED <<ingestVars, pending, timers, fpc, fbatch, broadcastDropped, connVars, queueVars>>

\* Every client of the map is in a group.
FlushGrouped(f) ==
  /\ fpc[f] = "grouping"
  /\ DOMAIN fplan[f] = frontClients
  /\ fpc' = [fpc EXCEPT ![f] = "sending"]
  /\ fkeys' = [fkeys EXCEPT ![f] = <<>>]
  /\ UNCHANGED <<ingestVars, pending, timers, fbatch, fplan, broadcastDropped, connVars, queueVars>>

\* c.trySend found room for a frame with these entries.
Queue(c, raws) == sent' = [sent EXCEPT ![c] = @ \cup raws]

\* The entries of a window that a group's frame is assembled from.
Matching(batch, p) == {n \in ToSet(batch) : stored[n] \in p}

\* One client of a group: nothing to send, or trySend succeeds or fails.
FlushSend(f) ==
  \E c \in DOMAIN fplan[f] :
    LET raws == Matching(fbatch[f], fplan[f][c]) IN
    /\ fpc[f] = "sending"
    /\ fplan' = [fplan EXCEPT ![f] = [d \in DOMAIN @ \ {c} |-> @[d]]]
    /\ \/ /\ Queue(c, raws)
          /\ again' = [again EXCEPT ![c] = @ \cup (sent[c] \cap raws)]
          /\ UNCHANGED <<lost, broadcastDropped>>
       \/ /\ raws # {}
          /\ lost' = [lost EXCEPT ![c] = @ \cup raws]
          /\ broadcastDropped' = broadcastDropped + Cardinality(raws)
          /\ UNCHANGED <<sent, again>>
    /\ UNCHANGED <<ingestVars, pending, timers, fpc, fbatch, fkeys, connVars>>

\* RUnlock.
FlushDone(f) ==
  /\ fpc[f] = "sending"
  /\ DOMAIN fplan[f] = {}
  /\ fpc' = [fpc EXCEPT ![f] = "idle"]
  /\ fbatch' = [fbatch EXCEPT ![f] = <<>>]
  /\ UNCHANGED <<ingestVars, pending, timers, fkeys, fplan, broadcastDropped, connVars, queueVars>>

\* s.mu can be locked for writing: no flush is between RLock and RUnlock.
CanLock == \A f \in Flushers : fpc[f] \notin {"grouping", "sending"}

-----------------------------------------------------------------------------
(* handleFront, frontReader and replayHistory.                             *)

\* What recentRaw(ReplayDepth, p) returns, turned oldest first.
History(p) ==
  LET all == SelectSeq([n \in 1 .. Len(stored) |-> n], LAMBDA n : stored[n] \in p)
  IN SubSeq(all, IF Len(all) > ReplayDepth THEN Len(all) - ReplayDepth + 1 ELSE 1, Len(all))

\* A connection arrives: compile its filter, take the history to replay.
FrontConnect(c) ==
  /\ conn[c] = "off"
  /\ \E p \in Filters \cup {Reject} :
       /\ pred' = [pred EXCEPT ![c] = p]
       /\ key' = [key EXCEPT ![c] = p]
       /\ replay' = [replay EXCEPT ![c] = History(p)]
  /\ conn' = [conn EXCEPT ![c] = "replaying"]
  /\ UNCHANGED <<ingestVars, flushVars, swap, since, swaps, queueVars>>

\* One chunk of a replay; a chunk the queue refuses is not counted.
ReplayChunk(c) ==
  LET n == IF Len(replay[c]) < ReplayBatch THEN Len(replay[c]) ELSE ReplayBatch
      chunk == SubSeq(replay[c], 1, n)
  IN
  /\ replay[c] # <<>>
  /\ replay' = [replay EXCEPT ![c] = SubSeq(@, n + 1, Len(@))]
  /\ Queue(c, ToSet(chunk)) \/ UNCHANGED sent
  /\ UNCHANGED <<ingestVars, flushVars, conn, pred, key, swap, since, swaps, again, lost>>

\* Only now does c take part in live fan-out.
FrontRegister(c) ==
  /\ conn[c] = "replaying"
  /\ replay[c] = <<>>
  /\ CanLock
  /\ conn' = [conn EXCEPT ![c] = "live"]
  /\ since' = [since EXCEPT ![c] = Len(stored)]
  /\ UNCHANGED <<ingestVars, flushVars, pred, key, swap, replay, swaps, queueVars>>

\* A filter frame that compiles: history under the new predicate first.  (One
\* that does not compile only sends an error frame.)
FilterFrame(c) ==
  /\ conn[c] = "live"
  /\ swaps < MaxSwaps /\ swaps' = swaps + 1
  /\ \E p \in Filters :
       /\ swap' = [swap EXCEPT ![c] = p]
       /\ replay' = [replay EXCEPT ![c] = History(p)]
  /\ conn' = [conn EXCEPT ![c] = "swapping"]
  /\ UNCHANGED <<ingestVars, flushVars, pred, key, since, queueVars>>

\* Mutant of FilterSwap: the group key is left as it was.
FilterSwapPredOnly(c) ==
  /\ conn[c] = "swapping"
  /\ replay[c] = <<>>
  /\ pred' = [pred EXCEPT ![c] = swap[c]]
  /\ conn' = [conn EXCEPT ![c] = "live"]
  /\ swap' = [swap EXCEPT ![c] = Reject]
  /\ since' = [since EXCEPT ![c] = Len(stored)]
  /\ UNCHANGED <<ingestVars, flushVars, key, replay, swaps, queueVars>>

\* Then c.pred and c.filterKey change, together, under c.mu.
FilterSwap(c) ==
  /\ conn[c] = "swapping"
  /\ replay[c] = <<>>
  /\ pred' = [pred EXCEPT ![c] = swap[c]]
  /\ key' = [key EXCEPT ![c] = swap[c]]
  /\ conn' = [conn EXCEPT ![c] = "live"]
  /\ swap' = [swap EXCEPT ![c] = Reject]
  /\ since' = [since EXCEPT ![c] = Len(stored)]
  /\ UNCHANGED <<ingestVars, flushVars, replay, swaps, queueVars>>

\* ReadMessage fails: leave the map under s.mu ...
FrontUnlink(c) ==
  /\ conn[c] = "live"
  /\ CanLock
  /\ conn' = [conn EXCEPT ![c] = "unlinked"]
  /\ UNCHANGED <<ingestVars, flushVars, pred, key, swap, replay, since, swaps, queueVars>>

\* ... and close(c.send) after it; the frontClient is garbage.
FrontClose(c) ==
  /\ conn[c] = "unlinked"
  /\ conn' = [conn EXCEPT ![c] = "closed"]
  /\ pred' = [pred EXCEPT ![c] = Reject]
  /\ key' = [key EXCEPT ![c] = Reject]
  /\ since' = [since EXCEPT ![c] = 0]
  /\ sent' = [sent EXCEPT ![c] = {}]
  /\ again' = [again EXCEPT ![c] = {}]
  /\ lost' = [lost EXCEPT ![c] = {}]
  /\ UNCHANGED <<ingestVars, flushVars, swap, replay, swaps>>

-----------------------------------------------------------------------------
Ingest(i) == IngestStore(i) \/ BroadcastCheck(i) \/ BroadcastQueue(i) \/ BroadcastArm(i)
Flush(f) == \/ FlushTake(f) \/ FlushLock(f) \/ FlushSnapshot(f) \/ FlushGrouped(f)
            \/ FlushSend(f) \/ FlushDone(f)
FrontEnd(c) == \/ FrontConnect(c) \/ ReplayChunk(c) \/ FrontRegister(c)
               \/ FilterFrame(c) \/ FilterSwap(c) \/ FrontUnlink(c) \/ FrontClose(c)

Next == \/ \E i \in Ingesters : Ingest(i)
        \/ \E f \in Flushers : Flush(f)
        \/ \E c \in Clients : FrontEnd(c)

Spec == Init /\ [][Next]_vars

\* Goroutines that can run do run, and armed timers fire.  Nothing is assumed
\* of clients or of the traffic.
Fairness ==
  /\ \A i \in Ingesters :
       WF_vars(BroadcastCheck(i) \/ BroadcastQueue(i) \/ BroadcastArm(i))
  /\ \A f \in Flushers : WF_vars(Flush(f))

FairSpec == Spec /\ Fairness

-----------------------------------------------------------------------------
(* Properties.                                                             *)

\* An entry waits in the window only while a flush is coming for it: one
\* timer is armed, or one goroutine is about to arm it, never none and never
\* two (server.go:1069-1077, 1100-1106).
WindowHasTimer ==
  LET coming == timers + Cardinality({i \in Ingesters : ipc[i] = "arming"})
  IN coming = IF pending = <<>> THEN 0 ELSE 1

Settled(c, n) == n \in sent[c] \cup lost[c]
OnItsWay(c, n) ==
  \/ n \in ToSet(pending)
  \/ \E i \in Ingesters : ipc[i] \in {"stored", "queueing"} /\ icur[i] = n
  \/ \E f \in Flushers :
       /\ n \in ToSet(fbatch[f])
       /\ fpc[f] \in {"taken", "grouping"} \/ (fpc[f] = "sending" /\ c \in DOMAIN fplan[f])
Owed(c) == {n \in since[c] + 1 .. Len(stored) : stored[n] \in pred[c]}

\* Every entry stored since a client registered (or swapped its filter) that
\* matches its filter is queued to it, counted as dropped for it, or still on
\* its way: nothing is lost silently (server.go:433-438, 1048-1153).
NoSilentLoss ==
  \A c \in frontClients : \A n \in Owed(c) : Settled(c, n) \/ OnItsWay(c, n)

\* A flush uses for every client the filter the client has when its turn in
\* the grouping comes, although clients share the work by filter key and swap
\* their filters between one turn and the next (server.go:778-791, 1115-1133).
GroupsRespectFilters ==
  [][\A f \in Flushers : \A c \in DOMAIN fplan'[f] \ DOMAIN fplan[f] :
       fplan'[f][c] = pred[c]]_vars

\* "an entry that lands in the gap between the two would otherwise be caught
\* by both [...] Registering after avoids that" (server.go:847-854): no client
\* is sent an entry by a replay and then by a live flush.
NoDuplicates == \A c \in Clients : again[c] = {}

\* Once the traffic pauses, everything owed to the clients that are still
\* connected is eventually queued to them or counted as dropped: no entry
\* waits in a window that nothing will flush (server.go:1041-1077, 1099-1106).
EverySettles ==
  []<>(\A c \in frontClients : \A n \in Owed(c) : Settled(c, n))
=============================================================================
