------------------------------ MODULE WorkerSink ------------------------------
(***************************************************************************)
(* The way from a worker's capture to the hub (internal/worker/sink.go):   *)
(* emit() queues entries on a bounded channel and drops what does not fit; *)
(* run() dials the hub again and again; pump() drains the channel into     *)
(* frames, writes them, and puts a batch whose write failed back into the  *)
(* channel before it lets run() reconnect.                                 *)
(*                                                                         *)
(* Capture goes on between any two receives of a drain and between any two *)
(* emits of a requeue, so these are separate steps.  An entry is its place *)
(* in the order of capture and the length of its JSON, 0 if json.Marshal   *)
(* fails.  The connection is external: what was written may be lost with   *)
(* it, a write that failed may have reached the hub all the same, and the  *)
(* hub may still be reading an old connection when the next one is open.   *)
(***************************************************************************)
EXTENDS Integers, Sequences, FiniteSets, SequencesExt

CONSTANTS
  Lens,                 \* lengths json.Marshal can return, 0 when it fails
  QueueSlots,           \* capacity of s.ch (1024)
  sinkBatchMaxEntries,  \* 64
  sinkBatchMaxBytes,    \* 512 KiB
  entryEnvelope,        \* bytes around the record of a MsgEntry frame (25)
  batchEnvelope,        \* bytes around those of a MsgEntryBatch frame (34)
  workerReadLimit,      \* the hub's limit on a frame (4 MiB)
  MaxCaptured,          \* bounds on the entries captured,
  MaxConns              \*   and on the connections opened

\* Nothing bounds a record: bodies and raw captures are as long as the flags
\* ask for, and headers are not cut.  Only the constants are far apart.
ASSUME SinkAssumption ==
  /\ QueueSlots \in Nat \ {0}
  /\ sinkBatchMaxEntries \in Nat \ {0} /\ sinkBatchMaxBytes \in Nat \ {0}
  /\ Lens \subseteq Nat /\ MaxCaptured \in Nat /\ MaxConns \in Nat
  /\ entryEnvelope \in Nat /\ batchEnvelope \in Nat /\ entryEnvelope <= batchEnvelope
  /\ workerReadLimit \in Nat
  /\ sinkBatchMaxBytes + batchEnvelope + sinkBatchMaxEntries <= workerReadLimit

\* The longest record that fits a frame whatever else is in its batch.
Room == workerReadLimit - (sinkBatchMaxBytes + batchEnvelope + sinkBatchMaxEntries)

VARIABLES
  captured,       \* entries emitted by capture so far
  ch,             \* s.ch
  dropped, sent,  \* s.dropped and s.sent
  skipped,        \* entries whose marshal failed (not counted by the code)
  pump,           \* dialing, select, draining, writing, requeueing
  batched,        \* the batch in pump's hands
  conn,           \* number of the current connection, 0 before the first
  wire,           \* wire[c]: frames written to connection c, not yet read
  broken,         \* broken[c]: connection c carries nothing any more
  got,            \* got[c]: numbers of the entries the hub read from c
  failed          \* history: entries in a batch whose write failed

counters == <<dropped, sent, skipped>>
link == <<conn, wire, broken, got>>
vars == <<captured, ch, counters, pump, batched, link, failed>>

Conns == 1 .. MaxConns
Numbers == 1 .. MaxCaptured
Entry == [n : Numbers, len : Lens]

NumbersOf(entries) == [i \in DOMAIN entries |-> entries[i].n]
Size(entries) == FoldSeq(LAMBDA e, acc : e.len + acc, 0, entries)

\* The length of the frame assembleBatch makes of a batch, commas included.
FrameSize(entries) ==
  IF Len(entries) = 1 THEN entryEnvelope + Size(entries)
                      ELSE batchEnvelope + Size(entries) + Len(entries) - 1

TypeOK ==
  /\ captured \in 0 .. MaxCaptured
  /\ ch \in Seq(Entry) /\ Len(ch) <= QueueSlots
  /\ dropped \in Nat /\ sent \in Nat /\ skipped \in Nat
  /\ pump \in {"dialing", "select", "draining", "writing", "requeueing"}
  /\ batched \in Seq(Entry)
  /\ conn \in 0 .. MaxConns
  /\ wire \in [Conns -> Seq(Seq(Entry))]
  /\ broken \in [Conns -> BOOLEAN]
  /\ got \in [Conns -> Seq(Numbers)]
  /\ failed \subseteq Numbers

Init ==
  /\ captured = 0 /\ ch = <<>>
  /\ dropped = 0 /\ sent = 0 /\ skipped = 0
  /\ pump = "dialing" /\ batched = <<>>
  /\ conn = 0
  /\ wire = [c \in Conns |-> <<>>]
  /\ broken = [c \in Conns |-> FALSE]
  /\ got = [c \in Conns |-> <<>>]
  /\ failed = {}

-----------------------------------------------------------------------------
(* emit()                                                                  *)

\* Queue e, or count it as dropped if the channel is full.
emit(e) ==
  IF Len(ch) < QueueSlots
  THEN ch' = Append(ch, e) /\ UNCHANGED dropped
  ELSE dropped' = dropped + 1 /\ UNCHANGED ch

\* The pipeline has an entry.
Capture ==
  /\ captured < MaxCaptured
  /\ \E n \in Lens : emit([n |-> captured + 1, len |-> n])
  /\ captured' = captured + 1
  /\ UNCHANGED <<sent, skipped, pump, batched, link, failed>>

-----------------------------------------------------------------------------
(* run() and connect()                                                     *)

\* The dial and the hello succeed.  (A failure is retried: nothing changes.)
Connect ==
  /\ pump = "dialing"
  /\ conn < MaxConns
  /\ conn' = conn + 1
  /\ pump' = "select"
  /\ UNCHANGED <<captured, ch, counters, batched, wire, broken, got, failed>>

-----------------------------------------------------------------------------
(* pump() and assembleBatch()                                              *)

\* case e := <-s.ch, and the marshal of the first entry of a batch.
Take ==
  /\ pump = "select"
  /\ ch # <<>>
  /\ ch' = Tail(ch)
  /\ IF Head(ch).len = 0
     THEN skipped' = skipped + 1 /\ UNCHANGED <<pump, batched>>
     ELSE pump' = "draining" /\ batched' = <<Head(ch)>> /\ UNCHANGED skipped
  /\ UNCHANGED <<captured, dropped, sent, link, failed>>

\* Mutant of BatchHasRoom: no byte limit.
BatchHasSlots == Len(batched) < sinkBatchMaxEntries

BatchHasRoom == Len(batched) < sinkBatchMaxEntries /\ Size(batched) < sinkBatchMaxBytes

\* One turn of the drain.
Drain ==
  /\ pump = "draining"
  /\ BatchHasRoom
  /\ ch # <<>>
  /\ ch' = Tail(ch)
  /\ IF Head(ch).len = 0
     THEN skipped' = skipped + 1 /\ UNCHANGED batched
     ELSE batched' = Append(batched, Head(ch)) /\ UNCHANGED skipped
  /\ UNCHANGED <<captured, dropped, sent, pump, link, failed>>

\* The batch is full, or nothing else is queued.
DrainEnds ==
  /\ pump = "draining"
  /\ ~BatchHasRoom \/ ch = <<>>
  /\ pump' = "writing"
  /\ UNCHANGED <<captured, ch, counters, batched, link, failed>>

\* A frame reaches the connection, unless that is broken.
Transmit(frame) ==
  wire' = [wire EXCEPT ![conn] = IF broken[conn] THEN @ ELSE Append(@, frame)]

WriteSucceeds ==
  /\ pump = "writing"
  /\ Transmit(batched)
  /\ sent' = sent + Len(batched)
  /\ batched' = <<>>
  /\ pump' = "select"
  /\ UNCHANGED <<captured, ch, dropped, skipped, conn, broken, got, failed>>

WriteFails ==
  /\ pump = "writing"
  /\ Transmit(batched) \/ UNCHANGED wire
  /\ failed' = failed \cup ToSet(NumbersOf(batched))
  /\ pump' = "requeueing"
  /\ UNCHANGED <<captured, ch, counters, batched, conn, broken, got>>

\* Mutant of Requeue: a failed entry is forgotten.
RequeueForgets ==
  /\ pump = "requeueing"
  /\ batched # <<>>
  /\ batched' = Tail(batched)
  /\ UNCHANGED <<captured, ch, counters, pump, link, failed>>

\* for _, re := range batched { s.emit(re) }
Requeue ==
  /\ pump = "requeueing"
  /\ batched # <<>>
  /\ emit(Head(batched))
  /\ batched' = Tail(batched)
  /\ UNCHANGED <<captured, sent, skipped, pump, link, failed>>

\* pump returns; the deferred Close ends the connection.
RequeueEnds ==
  /\ pump = "requeueing"
  /\ batched = <<>>
  /\ pump' = "dialing"
  /\ UNCHANGED <<captured, ch, counters, batched, link, failed>>

\* The write of a stats frame fails: pump returns.
StatsFails ==
  /\ pump = "select"
  /\ pump' = "dialing"
  /\ UNCHANGED <<captured, ch, counters, batched, link, failed>>

-----------------------------------------------------------------------------
(* The connections and the hub's handlers.                                 *)

\* handleWorker reads a frame and ingests its entries in order; a frame over
\* the read limit ends the connection.
HubReads(c) ==
  /\ wire[c] # <<>>
  /\ IF FrameSize(Head(wire[c])) <= workerReadLimit
     THEN /\ got' = [got EXCEPT ![c] = @ \o NumbersOf(Head(wire[c]))]
          /\ wire' = [wire EXCEPT ![c] = Tail(@)]
          /\ UNCHANGED broken
     ELSE /\ wire' = [wire EXCEPT ![c] = <<>>]
          /\ broken' = [broken EXCEPT ![c] = TRUE]
          /\ UNCHANGED got
  /\ UNCHANGED <<captured, ch, counters, pump, batched, conn, failed>>

\* What is on the way is lost with the connection.
ConnLost(c) ==
  /\ c <= conn /\ ~broken[c]
  /\ broken' = [broken EXCEPT ![c] = TRUE]
  /\ wire' = [wire EXCEPT ![c] = <<>>]
  /\ UNCHANGED <<captured, ch, counters, pump, batched, conn, got, failed>>

-----------------------------------------------------------------------------
Pump == \/ Take \/ Drain \/ DrainEnds \/ WriteSucceeds \/ WriteFails
        \/ Requeue \/ RequeueEnds \/ StatsFails

Next == \/ Capture \/ Connect \/ Pump
        \/ \E c \in Conns : HubReads(c) \/ ConnLost(c)

Spec == Init /\ [][Next]_vars

\* The goroutine of run() keeps running and its dials succeed in the end.
\* Nothing is assumed of writes: they may all fail.
Fairness == WF_vars(Connect \/ Pump)

FairSpec == Spec /\ Fairness

-----------------------------------------------------------------------------
(* Properties.                                                             *)

\* Every captured entry is queued, in pump's hands, counted as sent or as
\* dropped, or could not be marshalled, exactly once, also while a failed
\* batch goes back to a channel that capture keeps filling (sink.go:158-167,
\* 360-375).
Accounted ==
  captured = Len(ch) + Len(batched) + sent + dropped + skipped

\* Entries whose writes succeeded reach the hub once, and those of one
\* connection in the order of capture, however they were batched; an entry
\* that is read twice or out of order was in a failed write and requeued
\* (sink.go:252-254, 365-373, server.go:522-526).
OnceInOrder ==
  \A c, d \in Conns : \A i \in DOMAIN got[c], j \in DOMAIN got[d] :
    <<c, i>> # <<d, j>> /\ {got[c][i], got[d][j]} \cap failed = {} =>
      /\ got[c][i] # got[d][j]
      /\ c = d /\ i < j => got[c][i] < got[d][j]

\* A frame over the hub's read limit, which ends the connection instead of
\* being delivered, is never the doing of the batching: its last record is so
\* long that it leaves no room for a full batch before it (sink.go:41-49,
\* 264-312, server.go:193-202).
FramesFit ==
  FrameSize(batched) > workerReadLimit => batched # <<>> /\ Last(batched).len > Room

\* What is in the channel leaves it, or no connection is left to open: the
\* pump never stops between a failure and the next connection
\* (sink.go:170-189, 317-377).
QueueMoves ==
  (ch # <<>>) ~> (ch = <<>> \/ (conn = MaxConns /\ pump = "dialing"))
=============================================================================
