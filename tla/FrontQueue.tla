------------------------------ MODULE FrontQueue ------------------------------
(***************************************************************************)
(* The send queue of one dashboard connection (internal/hub/server.go:     *)
(* frontClient, trySend, frontWriter, the end of frontReader).             *)
(*                                                                         *)
(* Broadcasters (flushBroadcast and statsLoop) send under s.mu.RLock while *)
(* the client is in s.frontClients.  The handler goroutine first queues    *)
(* the replay, then registers the client and becomes its reader, which     *)
(* sends replays and error frames too and, when the socket fails, removes  *)
(* the client under s.mu and closes the channel.  The writer drains it.    *)
(* trySend reserves bytes in an atomic counter before it uses the channel, *)
(* so its steps interleave with those of the others.  A frame is its size. *)
(***************************************************************************)
EXTENDS Integers, Sequences, FiniteSets, FiniteSetsExt, SequencesExt

CONSTANTS
  Broadcasters,     \* goroutines that send under s.mu.RLock
  Handler,          \* handleFront, then frontReader
  FrameSizes,
  SendSlots,        \* capacity of the channel (256)
  frontQueueBytes,  \* 16 MiB
  MaxFrames         \* bound on the frames sent

QueueAssumption ==
  /\ SendSlots \in Nat \ {0} /\ frontQueueBytes \in Nat \ {0}
  /\ FrameSizes \subseteq Nat \ {0}
  /\ IsFiniteSet(Broadcasters) /\ Handler \notin Broadcasters

Senders == Broadcasters \cup {Handler}

VARIABLES
  send,         \* the channel's buffer
  open,         \* the channel is open
  registered,   \* the client is in s.frontClients
  queuedBytes,
  spc, frame,   \* a sender's place in trySend, and its frame
  handler,      \* joining, reading, unlinked, gone
  writer,       \* off, select, writing, gone
  hand,         \* size of the frame the writer is writing, else 0
  panic,        \* a send hit a closed channel
  peer,         \* reading, or stalled: it stopped reading its socket for good
  frames        \* frames offered so far

vars == <<send, open, registered, queuedBytes, spc, frame, handler, writer, hand, panic, peer,
          frames>>

TypeOK ==
  /\ send \in Seq(FrameSizes) /\ Len(send) <= SendSlots
  /\ open \in BOOLEAN /\ registered \in BOOLEAN /\ panic \in BOOLEAN
  /\ queuedBytes \in Nat
  /\ spc \in [Senders -> {"idle", "calling", "reserved", "refused"}]
  /\ frame \in [Senders -> FrameSizes \cup {0}]
  /\ handler \in {"joining", "reading", "unlinked", "gone"}
  /\ writer \in {"off", "select", "writing", "gone"}
  /\ hand \in FrameSizes \cup {0}
  /\ peer \in {"reading", "stalled"}
  /\ frames \in 0 .. MaxFrames

Init ==
  /\ send = <<>> /\ open = TRUE /\ registered = FALSE /\ panic = FALSE
  /\ queuedBytes = 0
  /\ spc = [s \in Senders |-> "idle"] /\ frame = [s \in Senders |-> 0]
  /\ handler = "joining" /\ writer = "off" /\ hand = 0
  /\ peer = "reading" /\ frames = 0

-----------------------------------------------------------------------------
(* trySend.                                                                *)

\* A sender has a frame for the client.  A broadcaster found the client in
\* the map and keeps s.mu.RLock until trySend returns.
SendStart(s) ==
  /\ spc[s] = "idle"
  /\ frames < MaxFrames
  /\ IF s = Handler THEN handler \in {"joining", "reading"} ELSE registered
  /\ \E n \in FrameSizes : frame' = [frame EXCEPT ![s] = n]
  /\ spc' = [spc EXCEPT ![s] = "calling"]
  /\ frames' = frames + 1
  /\ UNCHANGED <<send, open, registered, queuedBytes, handler, writer, hand, panic, peer>>

\* The reservation of some bytes, and whether the frame is over the limit.
ReserveIf(s, over) ==
  /\ spc[s] = "calling"
  /\ queuedBytes' = queuedBytes + frame[s]
  /\ spc' = [spc EXCEPT ![s] = IF over THEN "refused" ELSE "reserved"]
  /\ UNCHANGED <<send, open, registered, frame, handler, writer, hand, panic, peer, frames>>

TooMany(n) == queuedBytes + n > frontQueueBytes

\* Mutant of Reserve: no exception for a frame that is alone.
ReserveStrict(s) == ReserveIf(s, TooMany(frame[s]))

\* c.queuedBytes.Add(n), and the test on what it returned.
Reserve(s) ==
  ReserveIf(s, TooMany(frame[s]) /\ queuedBytes + frame[s] # frame[s])

Return(s) ==
  /\ spc' = [spc EXCEPT ![s] = "idle"]
  /\ frame' = [frame EXCEPT ![s] = 0]

\* case c.send <- b
Enqueue(s) ==
  /\ spc[s] = "reserved"
  /\ ~open \/ Len(send) < SendSlots
  /\ send' = IF open THEN Append(send, frame[s]) ELSE send
  /\ panic' = (panic \/ ~open)
  /\ Return(s)
  /\ UNCHANGED <<open, registered, queuedBytes, handler, writer, hand, peer, frames>>

\* default: the slots are taken
SlotsFull(s) ==
  /\ spc[s] = "reserved"
  /\ open /\ Len(send) = SendSlots
  /\ spc' = [spc EXCEPT ![s] = "refused"]
  /\ UNCHANGED <<send, open, registered, queuedBytes, frame, handler, writer, hand, panic, peer, frames>>

\* c.queuedBytes.Add(-n); return false
Release(s) ==
  /\ spc[s] = "refused"
  /\ queuedBytes' = queuedBytes - frame[s]
  /\ Return(s)
  /\ UNCHANGED <<send, open, registered, handler, writer, hand, panic, peer, frames>>

-----------------------------------------------------------------------------
(* handleFront, frontReader and frontWriter.                               *)

\* s.mu can be locked: no broadcaster is inside its RLock section.
CanLock == \A b \in Broadcasters : spc[b] = "idle"

FrontRegister ==
  /\ handler = "joining" /\ spc[Handler] = "idle"
  /\ CanLock
  /\ registered' = TRUE
  /\ handler' = "reading"
  /\ writer' = "select"
  /\ UNCHANGED <<send, open, queuedBytes, spc, frame, hand, panic, peer, frames>>

\* Mutant of FrontUnlink: without waiting for the broadcasters.
FrontUnlinkUnlocked ==
  /\ handler = "reading" /\ spc[Handler] = "idle"
  /\ registered' = FALSE
  /\ handler' = "unlinked"
  /\ UNCHANGED <<send, open, queuedBytes, spc, frame, writer, hand, panic, peer, frames>>

\* ReadMessage fails: delete(s.frontClients, c) under s.mu.
FrontUnlink ==
  /\ handler = "reading" /\ spc[Handler] = "idle"
  /\ CanLock
  /\ registered' = FALSE
  /\ handler' = "unlinked"
  /\ UNCHANGED <<send, open, queuedBytes, spc, frame, writer, hand, panic, peer, frames>>

FrontClose ==
  /\ handler = "unlinked"
  /\ open' = FALSE
  /\ handler' = "gone"
  /\ UNCHANGED <<send, registered, queuedBytes, spc, frame, writer, hand, panic, peer, frames>>

\* case b, ok := <-c.send; a closed channel still yields what it holds.
WriterReceive ==
  /\ writer = "select"
  /\ send # <<>>
  /\ hand' = Head(send)
  /\ send' = Tail(send)
  /\ writer' = "writing"
  /\ UNCHANGED <<open, registered, queuedBytes, spc, frame, handler, panic, peer, frames>>

\* Mutant of WriterRelease: only a frame that was written is released.
WriterReleaseWritten ==
  /\ writer = "writing"
  /\ hand' = 0
  /\ \/ writer' = "select" /\ queuedBytes' = queuedBytes - hand
     \/ writer' = "gone" /\ UNCHANGED queuedBytes
  /\ UNCHANGED <<send, open, registered, spc, frame, handler, panic, peer, frames>>

\* WriteMessage returns; the reservation is released whatever it returned.
WriterRelease ==
  /\ writer = "writing"
  /\ queuedBytes' = queuedBytes - hand
  /\ hand' = 0
  /\ writer' \in {"select", "gone"}
  /\ UNCHANGED <<send, open, registered, spc, frame, handler, panic, peer, frames>>

\* !ok: the channel is closed and empty; or the ping fails.
WriterExit ==
  /\ writer = "select"
  /\ writer' = "gone"
  /\ UNCHANGED <<send, open, registered, queuedBytes, spc, frame, handler, hand, panic, peer, frames>>

\* The browser hangs or its network goes.  A peer that goes on reading later
\* was only slow.
PeerStalls ==
  /\ peer = "reading"
  /\ peer' = "stalled"
  /\ UNCHANGED <<send, open, registered, queuedBytes, spc, frame, handler, writer, hand, panic, frames>>

-----------------------------------------------------------------------------
trySend(s) == SendStart(s) \/ Reserve(s) \/ Enqueue(s) \/ SlotsFull(s) \/ Release(s)

Next == \/ \E s \in Senders : trySend(s)
        \/ FrontRegister \/ FrontUnlink \/ FrontClose
        \/ WriterReceive \/ WriterRelease \/ WriterExit \/ PeerStalls

Spec == Init /\ [][Next]_vars

\* Goroutines inside trySend run on; handleFront registers the client once it
\* has queued the replay; a removed client is torn down to the end; and the
\* writer gets on while the peer reads.  A write has no deadline: with a
\* stalled peer the writer may stay in it.  No pong comes then, and the read
\* deadline of 60 s makes ReadMessage fail (server.go:812-818).
Fairness ==
  /\ \A s \in Senders : WF_vars(Reserve(s) \/ Enqueue(s) \/ SlotsFull(s) \/ Release(s))
  /\ WF_vars(FrontRegister)
  /\ WF_vars(FrontClose)
  /\ WF_vars(peer = "reading" /\ (WriterReceive \/ WriterRelease))
  /\ WF_vars(peer = "stalled" /\ FrontUnlink)

FairSpec == Spec /\ Fairness

-----------------------------------------------------------------------------
(* Properties.                                                             *)

SumSizes(s) == FoldSeq(LAMBDA n, acc : n + acc, 0, s)
Reserved == {s \in Senders : spc[s] \in {"reserved", "refused"}}

\* The counter is exactly the bytes in the channel, in the writer's hand and
\* reserved by calls in progress: it never goes negative and never leaks,
\* whatever path a frame leaves by (server.go:968-973, 1003-1018).
CounterExact ==
  queuedBytes = SumSizes(send) + hand
                + MapThenSumSet(LAMBDA s : frame[s], Reserved)

\* The channel holds at most frontQueueBytes, or a single frame that is
\* larger than that by itself (server.go:984-1010).
QueueBounded == SumSizes(send) <= frontQueueBytes \/ Len(send) = 1

\* No goroutine sends on the closed channel, which would crash the hub
\* (server.go:869-875): the client leaves the map, under the lock that
\* broadcasters hold while sending, before its channel is closed.
NoPanic == ~panic

\* A frame is refused for its bytes only while another frame is queued, being
\* written or reserved: a client that keeps up can not be starved by a batch
\* larger than the whole budget (server.go:1003-1007).
RefusedOnlyWhenBehind ==
  [][\A s \in Senders : spc[s] = "calling" /\ spc'[s] = "refused" =>
       send # <<>> \/ hand # 0 \/ Reserved # {}]_vars

\* The queue drains and its bytes are given back, unless the writer is gone or
\* the peer stalled.  A stalled peer does not stay a client: it is removed and
\* its channel closed, although its writer may hang (server.go:812-818, 958-982).
QueueDrains ==
  (queuedBytes > 0) ~>
    (queuedBytes = 0 \/ writer = "gone" \/ (peer = "stalled" /\ handler = "gone"))
=============================================================================
