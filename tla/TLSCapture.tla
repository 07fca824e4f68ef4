----------------------------- MODULE TLSCapture -----------------------------
(***************************************************************************)
(* Decrypted TLS traffic on its way to the dissectors: the drain loop of   *)
(* the eBPF source (internal/worker/ebpf/loader.go), the channel of        *)
(* records, consumeTLSBounded with its streams, and the chanPipes that     *)
(* share one byte budget (internal/worker/tls_pipeline.go).                *)
(*                                                                         *)
(* Nobody here may block, so every stage drops under pressure, and a byte  *)
(* stream with a hole in it is worse than one that ends early.  The chunks *)
(* of a direction are numbered as the process wrote or read them.          *)
(***************************************************************************)
EXTENDS Integers, Sequences, FiniteSets, SequencesExt, FiniteSetsExt

CONSTANTS
  Conns,           \* (pid, SSL pointer)
  Dirs,            \* write and read
  Size,            \* bytes of a chunk
  outCap,          \* capacity of the channel of records
  maxLaggedConns,  \* size of the loss ledger
  pipeCap,         \* chunks a chanPipe holds
  limit,           \* the byte budget
  streamLimit,     \* streams at a time
  MaxChunks,       \* bound: MaxChunks[c], chunks of a direction of c
  MaxIdle          \* bound: streams that go idle

\* A chunk has bytes.
TLSAssumption == Size \in Nat \ {0}

VARIABLES
  sent,     \* sent[<<c, d>>]: chunks the process has moved
  out,      \* records in the channel
  lagged,   \* the ledger: connection -> tombstone delivered
  source,   \* open, closing, closed
  drain,    \* drainLoop runs
  consumer, \* consumeTLSBounded runs
  ctx,      \* the worker's context is live
  streams,  \* connection -> number of its stream
  pipes,    \* pipes[<<stream, direction>>]
  used,     \* bytes reserved
  paused,   \* capture is paused
  missed,   \* history: chunks a pause missed, or that were lost without a report
  lost,     \* history: the first chunk of each direction the source knows is lost, or 0
  idles     \* history: streams gone idle

vars == <<sent, out, lagged, source, drain, consumer, ctx, streams, pipes, used,
          paused, missed, lost, idles>>
sourceVars == <<sent, out, lagged, source, drain, lost>>
streamVars == <<streams, pipes, used, missed, idles>>

Init ==
  /\ sent = [p \in Conns \X Dirs |-> 0]
  /\ out = <<>> /\ lagged = <<>>
  /\ source = "open" /\ drain = TRUE /\ consumer = TRUE /\ ctx = TRUE
  /\ streams = <<>> /\ pipes = <<>> /\ used = 0
  /\ paused = FALSE /\ missed = {} /\ idles = 0
  /\ lost = [p \in Conns \X Dirs |-> 0]

Put(m, k, v) == [j \in DOMAIN m \cup {k} |-> IF j = k THEN v ELSE m[j]]

-----------------------------------------------------------------------------
(* The source.                                                             *)

\* A send that never waits: the newest record is the one dropped.
Offer(q, r) == IF Len(q) < outCap THEN Append(q, r) ELSE q

\* Mutant of forwardLoss: only a tombstone that fits is remembered.
forwardLossForgets(ev) ==
  /\ out' = Offer(out, [ev EXCEPT !.n = 0])
  /\ lagged' = IF out' = out THEN lagged ELSE Put(lagged, ev.conn, TRUE)
  /\ UNCHANGED <<source, drain>>

\* A tombstone is offered until one is in the channel.
forwardLoss(ev) ==
  LET c == ev.conn
      told == c \in DOMAIN lagged /\ lagged[c]
      q == IF told THEN out ELSE Offer(out, [ev EXCEPT !.n = 0])
  IN  /\ out' = q
      /\ lagged' = Put(lagged, c, told \/ q # out)
      /\ UNCHANGED <<source, drain>>

\* The ledger is full: the source closes itself and drainLoop ends.
stopOnLedgerOverflow ==
  /\ source' = "closing" /\ drain' = FALSE
  /\ UNCHANGED <<out, lagged>>

\* drainLoop takes the next event of the ring.  The program may have failed to
\* read the chunk, or cut it, and then reports a loss.
drainLoop(c, d, kernelLoss) ==
  LET ev == [conn |-> c, dir |-> d, n |-> sent[<<c, d>>] + 1]
      known == c \in DOMAIN lagged
      full == ~known /\ Cardinality(DOMAIN lagged) >= maxLaggedConns
      fits == ~known /\ ~kernelLoss /\ Len(out) < outCap
  IN
  /\ drain /\ source = "open" /\ sent[<<c, d>>] < MaxChunks[c]
  /\ sent' = [sent EXCEPT ![<<c, d>>] = @ + 1]
  /\ lost' = IF fits \/ lost[<<c, d>>] # 0 THEN lost ELSE [lost EXCEPT ![<<c, d>>] = ev.n]
  /\ \/ fits /\ out' = Append(out, ev) /\ UNCHANGED <<lagged, source, drain>>
     \/ ~fits /\ full /\ stopOnLedgerOverflow
     \/ ~fits /\ ~full /\ forwardLoss(ev)
  /\ UNCHANGED <<consumer, ctx, streamVars, paused>>

\* A chunk nobody reports: the ring is full and the program ignores that the
\* output failed, or drainLoop cannot decode the record.
LostSilently(c, d) ==
  /\ drain /\ source = "open" /\ sent[<<c, d>>] < MaxChunks[c]
  /\ sent' = [sent EXCEPT ![<<c, d>>] = @ + 1]
  /\ missed' = missed \cup {<<c, d, sent[<<c, d>>] + 1>>}
  /\ UNCHANGED <<out, lagged, lost, source, drain, consumer, ctx, streams, pipes, used, paused,
                 idles>>

\* The context ends and the source is closed for it.
Cancel ==
  /\ ctx /\ ctx' = FALSE
  /\ source' = IF source = "open" THEN "closing" ELSE source
  /\ UNCHANGED <<sent, out, lagged, lost, drain, consumer, streamVars, paused>>

\* The ring is closed, the read fails, drainLoop ends.
DrainEnds ==
  /\ drain /\ source = "closing" /\ drain' = FALSE
  /\ UNCHANGED <<sent, out, lagged, lost, source, consumer, ctx, streamVars, paused>>

\* Close waits for the loops and closes the channel last.
CloseSource ==
  /\ source = "closing" /\ ~drain /\ source' = "closed"
  /\ UNCHANGED <<sent, out, lagged, lost, drain, consumer, ctx, streamVars, paused>>

-----------------------------------------------------------------------------
(* consumeTLSBounded.                                                      *)

NewPipe(c) ==
  [conn |-> c, ch |-> <<>>, buf |-> 0, left |-> 0, closed |-> FALSE, lagged |-> FALSE,
   got |-> <<>>, put |-> <<>>, pc |-> "idle"]

newTLSStream(c, s) ==
  [p \in DOMAIN pipes \cup ({s} \X Dirs) |->
     IF p \in DOMAIN pipes THEN pipes[p] ELSE NewPipe(c)]

close(ps, s) == [p \in DOMAIN ps |-> IF p[1] = s THEN [ps[p] EXCEPT !.closed = TRUE] ELSE ps[p]]

\* push: reserve, then enqueue, and no waiting; a pipe that cannot take a chunk
\* takes no more.
push(p, n) ==
  LET reserve == used + Size <= limit
      room == Len(p.ch) < pipeCap
  IN  IF p.closed THEN [pipe |-> p, used |-> used]
      ELSE IF reserve /\ room
      THEN [pipe |-> [p EXCEPT !.ch = Append(@, n), !.put = Append(@, n)],
            used |-> used + Size]
      ELSE [pipe |-> [p EXCEPT !.lagged = TRUE, !.closed = TRUE], used |-> used]

\* The stream of the record, made if there is none and the limit allows.
feed(c, d, n) ==
  LET new == c \notin DOMAIN streams
      s == IF new THEN Cardinality(DOMAIN pipes) \div Cardinality(Dirs) + 1 ELSE streams[c]
      ps == IF new THEN newTLSStream(c, s) ELSE pipes
      moved == push(ps[<<s, d>>], n)
  IN  IF new /\ Cardinality(DOMAIN streams) >= streamLimit
      THEN UNCHANGED <<streams, pipes, used>>
      ELSE /\ streams' = Put(streams, c, s)
           /\ pipes' = [ps EXCEPT ![<<s, d>>] = moved.pipe]
           /\ used' = moved.used

\* A tombstone closes the stream; a pause skips the record; the rest is fed.
ConsumeRecord ==
  /\ consumer /\ out # <<>>
  /\ out' = Tail(out)
  /\ LET rec == Head(out)  c == rec.conn IN
     \/ /\ rec.n = 0
        /\ streams' = [k \in DOMAIN streams \ {c} |-> streams[k]]
        /\ pipes' = IF c \in DOMAIN streams THEN close(pipes, streams[c]) ELSE pipes
        /\ UNCHANGED <<used, missed>>
     \/ /\ rec.n # 0 /\ paused
        /\ missed' = missed \cup {<<c, rec.dir, rec.n>>}
        /\ UNCHANGED <<streams, pipes, used>>
     \/ /\ rec.n # 0 /\ ~paused
        /\ feed(c, rec.dir, rec.n)
        /\ UNCHANGED missed
  /\ UNCHANGED <<sent, lagged, lost, source, drain, consumer, ctx, paused, idles>>

\* gc: a stream without a record for tlsIdleTimeout.
IdleStream ==
  /\ consumer /\ idles < MaxIdle /\ idles' = idles + 1
  /\ \E c \in DOMAIN streams :
       /\ pipes' = close(pipes, streams[c])
       /\ streams' = [k \in DOMAIN streams \ {c} |-> streams[k]]
  /\ UNCHANGED <<sourceVars, consumer, ctx, used, paused, missed>>

\* The context is done or the channel is closed: closeAll, and consumeTLS ends.
ConsumerEnds ==
  /\ consumer /\ (~ctx \/ (source = "closed" /\ out = <<>>))
  /\ consumer' = FALSE
  /\ pipes' = [p \in DOMAIN pipes |->
                 IF \E c \in DOMAIN streams : streams[c] = p[1]
                 THEN [pipes[p] EXCEPT !.closed = TRUE] ELSE pipes[p]]
  /\ UNCHANGED <<sourceVars, ctx, streams, used, paused, missed, idles>>

\* The hub pauses or resumes the worker.
SetPaused ==
  /\ consumer /\ \E b \in BOOLEAN : b # paused /\ paused' = b
  /\ UNCHANGED <<sourceVars, consumer, ctx, streamVars>>

-----------------------------------------------------------------------------
(* A dissector and its pipe.  Read holds the lock for the buffer only.     *)

Rest == <<sourceVars, consumer, ctx, streams, paused, missed, idles>>
Set(p, pipe) == pipes' = [pipes EXCEPT ![p] = pipe]

\* The buffered chunk, whole or in part.  Its bytes are given back when the
\* last of them is read.
ReadBuffer(p) ==
  /\ pipes[p].pc = "idle" /\ pipes[p].left > 0
  /\ \E n \in 1 .. pipes[p].left :
       LET whole == n = pipes[p].left IN
       /\ Set(p, [pipes[p] EXCEPT !.left = @ - n, !.buf = IF whole THEN 0 ELSE @,
                                  !.got = IF whole THEN Append(@, pipes[p].buf) ELSE @])
       /\ used' = used - (IF whole THEN Size ELSE 0)
  /\ UNCHANGED Rest

Take(q) == [q EXCEPT !.buf = Head(q.ch), !.left = Size, !.ch = Tail(@), !.pc = "idle"]

\* An empty buffer: a queued chunk first.
ReadPoll(p) ==
  /\ pipes[p].pc = "idle" /\ pipes[p].left = 0
  /\ Set(p, IF pipes[p].ch # <<>> THEN Take(pipes[p]) ELSE [pipes[p] EXCEPT !.pc = "polled"])
  /\ UNCHANGED <<Rest, used>>

\* Then the lag.
ReadLag(p) ==
  /\ pipes[p].pc = "polled"
  /\ Set(p, [pipes[p] EXCEPT !.pc = IF pipes[p].lagged THEN "eof" ELSE "wait"])
  /\ UNCHANGED <<Rest, used>>

\* Then a wait for a chunk or for the end.
ReadWait(p) ==
  /\ pipes[p].pc = "wait" /\ (pipes[p].ch # <<>> \/ pipes[p].closed)
  /\ Set(p, IF pipes[p].ch # <<>> THEN Take(pipes[p]) ELSE [pipes[p] EXCEPT !.pc = "eof"])
  /\ UNCHANGED <<Rest, used>>

\* Chunks in the pipe, the one being read included.
Load(q) == Len(q.ch) + (IF q.buf = 0 THEN 0 ELSE 1)

\* Mutant of discard: only the unread part of the buffered chunk is given back.
discardPart(p) ==
  /\ pipes[p].pc \in {"idle", "eof"}
  /\ Set(p, [pipes[p] EXCEPT !.pc = "gone", !.closed = TRUE, !.ch = <<>>, !.buf = 0, !.left = 0])
  /\ used' = used - Size * Len(pipes[p].ch) - pipes[p].left
  /\ UNCHANGED Rest

\* The dissector returns, at the end or when it gives up, and discard closes
\* the pipe and gives back everything in it.
discard(p) ==
  /\ pipes[p].pc \in {"idle", "eof"}
  /\ Set(p, [pipes[p] EXCEPT !.pc = "gone", !.closed = TRUE, !.ch = <<>>, !.buf = 0, !.left = 0])
  /\ used' = used - Size * Load(pipes[p])
  /\ UNCHANGED Rest

Read(p) == ReadBuffer(p) \/ ReadPoll(p) \/ ReadLag(p) \/ ReadWait(p)
AtEof(p) == pipes[p].pc = "eof" /\ discard(p)

-----------------------------------------------------------------------------
Next ==
  \/ \E c \in Conns, d \in Dirs, b \in BOOLEAN : drainLoop(c, d, b)
  \/ \E c \in Conns, d \in Dirs : LostSilently(c, d)
  \/ Cancel \/ DrainEnds \/ CloseSource
  \/ ConsumeRecord \/ IdleStream \/ ConsumerEnds \/ SetPaused
  \/ \E p \in DOMAIN pipes : Read(p) \/ discard(p)

\* The loops run, a reader that can read does, and a dissector returns after
\* the end of its stream.  Nothing makes the context end or a stream go idle.
Fairness ==
  /\ WF_vars(DrainEnds) /\ WF_vars(CloseSource)
  /\ WF_vars(ConsumeRecord) /\ WF_vars(ConsumerEnds)
  /\ \A p \in (1 .. Cardinality(Conns) + MaxIdle) \X Dirs :
       WF_vars(p \in DOMAIN pipes /\ Read(p)) /\ WF_vars(p \in DOMAIN pipes /\ AtEof(p))

Spec == Init /\ [][Next]_vars

-----------------------------------------------------------------------------
(* Properties.                                                             *)

Held == [p \in DOMAIN pipes |-> Load(pipes[p])]

\* The shared budget is exactly what the pipes hold: however a chunk leaves a
\* pipe (read in parts, refused, discarded half read) its bytes are given back
\* once (tls_pipeline.go:38-51, 382-508).
BudgetIsExact == used = Size * MapThenSumSet(LAMBDA p : Held[p], DOMAIN pipes)

\* No dissector reads across a hole that anybody knows of: the chunks it reads
\* follow each other, except where the records in between came during a pause or
\* never left the kernel or the decoder, which neither reports; and once the
\* source has noticed the loss of a chunk nothing behind it reaches a pipe, of
\* the same stream or of a new one (tls_pipeline.go:137-152, loader.go:266-304,
\* tls.bpf.c:269-275).
StreamHasNoHole ==
  \A p \in DOMAIN pipes :
    LET q == pipes[p]  l == lost[<<q.conn, p[2]>>] IN
    /\ \A i \in 1 .. Len(q.put) : l # 0 => q.put[i] < l
    /\ \A i \in 1 .. Len(q.got) - 1 : \A n \in q.got[i] + 1 .. q.got[i + 1] - 1 :
         <<q.conn, p[2], n>> \in missed

\* Everything ends: once the context or the source has, the consumer returns,
\* every dissector does, none is left waiting on its pipe, and every byte of the
\* budget has been given back (tls_pipeline.go:153-187, 440-508).
AllReleased ==
  (~ctx \/ source = "closed") ~>
    (~consumer /\ used = 0 /\ \A p \in DOMAIN pipes : pipes[p].pc = "gone")
=============================================================================
