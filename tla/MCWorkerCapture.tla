--------------------------- MODULE MCWorkerCapture ---------------------------
(***************************************************************************)
(* Model of a worker's capture, from packets and TLS records to entries:   *)
(* HTTP pairing (Pairing), generic flows (FlowTable), pairing by id        *)
(* (IdPairing), TLS records (TLSCapture), probes (TLSAttach), and of the   *)
(* dissectors the framing (Framing), the choice (Dispatch), the replies in *)
(* order (ReplyPairing) and AMQP content (AMQPContent).  They share no     *)
(* state that a property looks at, so a behaviour exercises one of them    *)
(* and their states add up instead of multiplying; a temporal property     *)
(* assumes the fairness of its own part only, and an invariant is only     *)
(* evaluated where its part runs.                                          *)
(***************************************************************************)
EXTENDS Pairing, TLC

CONSTANTS
  FlowKeys, SeqSpace, maxFlows, Idle, MaxPackets,
  Ids, maxPending, MaxExchanges,
  Conns, Size, outCap, maxLaggedConns, pipeCap, limit, streamLimit, MaxIdle,
  Pids, Libs, grace, MaxStarts,
  Base, Sane, Scan, MaxSize, MaxMessages,
  ExtraPorts, ClientPort,
  MaxCommands, MaxPushes, DefColumns,
  Channels, MaxContents, MaxBody, bodyCap, amqpMaxCapture

VARIABLES
  part,  \* the part that runs
  flows, loop, pkt, stale, toEmit, packets, at, entries, l7, gone, odd, early,
  idProto, pend, idOf, unread, answers, stored, pairs, gcPc, idStale, crossed,
  sent, out, lagged, source, drain, consumer, ctx, streams, pipes, used, paused,
  missed, lost, idles,
  procs, starts, attached, scan, todo, targets, complete, steady, probes,
  frameProto, framed, frameWire, open, got, kept, frameAt,
  opts, server, speaks, opening, side, routed,
  replyProto, dialect, issued, answered, pushes, replyWire, fifo, mode, replyPairs,
  isClient, published, cur, seeing, began, channels, aborted, contents

\* Two chunks of a connection, one of another.
ChunksOf == LET first == CHOOSE c \in Conns : TRUE
            IN [c \in Conns |-> IF c = first THEN 2 ELSE 1]

\* The Basic properties up to the last one that is shown.
BasicProperties ==
  <<"contentType", "contentEncoding", "headers", "deliveryMode", "priority",
    "correlationId", "replyTo", "expiration", "messageId">>

F == INSTANCE FlowTable WITH Keys <- FlowKeys, n <- packets
I == INSTANCE IdPairing WITH proto <- idProto, id <- idOf, stale <- idStale
T == INSTANCE TLSCapture WITH Dirs <- {"write"}, MaxChunks <- ChunksOf
A == INSTANCE TLSAttach WITH source <- probes
W == INSTANCE Framing WITH proto <- frameProto, sent <- framed, wire <- frameWire,
       at <- frameAt
D == INSTANCE Dispatch WITH path <- side
R == INSTANCE ReplyPairing WITH proto <- replyProto, wire <- replyWire, pairs <- replyPairs
C == INSTANCE AMQPContent WITH MaxMessages <- MaxContents, sent <- published,
       entries <- contents, Properties <- BasicProperties

ASSUME CaptureAssumption ==
  /\ F!FlowAssumption /\ T!TLSAssumption /\ A!AttachAssumption
  /\ W!FramingAssumption /\ D!RouteAssumption /\ R!ReplyAssumption /\ C!ContentAssumption

flowVars == <<flows, loop, pkt, stale, toEmit, packets, at, entries, l7, gone, odd, early>>
idVars == <<idProto, pend, idOf, unread, answers, stored, pairs, gcPc, idStale, crossed>>
tlsVars == <<sent, out, lagged, source, drain, consumer, ctx, streams, pipes, used, paused,
             missed, lost, idles>>
probeVars == <<procs, starts, attached, scan, todo, targets, complete, steady, probes>>
frameVars == <<frameProto, framed, frameWire, open, got, kept, frameAt>>
routeVars == <<opts, server, speaks, opening, side, routed>>
replyVars == <<replyProto, dialect, issued, answered, pushes, replyWire, fifo, mode, replyPairs>>
contentVars == <<isClient, published, cur, seeing, began, channels, aborted, contents>>

\* A part that does not run keeps its only initial state, or None where it has
\* several.
MCInit ==
  /\ part \in {"pairing", "flows", "ids", "tls", "probes", "frames", "routes", "replies",
               "contents"}
  /\ Init
  /\ part = "pairing" \/ \A k \in Keys : path[k] = "tls" /\ proto[k] = "http" /\ resp[k].n = 0
  /\ F!Init /\ T!Init /\ A!Init /\ I!Init
  /\ part = "ids" \/ idProto = "dns"
  /\ IF part = "frames" THEN W!Init
     ELSE /\ frameProto = None /\ framed = None /\ frameWire = None /\ open = None
          /\ got = None /\ kept = None /\ frameAt = None
  /\ IF part = "routes" THEN D!Init
     ELSE /\ opts = None /\ server = None /\ speaks = None /\ opening = None
          /\ side = None /\ routed = None
  /\ IF part = "replies" THEN R!Init
     ELSE /\ replyProto = None /\ dialect = None /\ issued = None /\ answered = None
          /\ pushes = None /\ replyWire = None /\ fifo = None /\ mode = None
          /\ replyPairs = None
  /\ IF part = "contents" THEN C!Init
     ELSE /\ isClient = None /\ published = None /\ cur = None /\ seeing = None
          /\ began = None /\ channels = None /\ aborted = None /\ contents = None

dissectorVars == <<frameVars, routeVars, replyVars, contentVars>>

MCNext ==
  /\ UNCHANGED part
  /\ \/ /\ part = "pairing" /\ Next
        /\ UNCHANGED <<flowVars, idVars, tlsVars, probeVars, dissectorVars>>
     \/ /\ part = "flows" /\ F!Next
        /\ UNCHANGED <<vars, idVars, tlsVars, probeVars, dissectorVars>>
     \/ /\ part = "ids" /\ I!Next
        /\ UNCHANGED <<vars, flowVars, tlsVars, probeVars, dissectorVars>>
     \/ /\ part = "tls" /\ T!Next
        /\ UNCHANGED <<vars, flowVars, idVars, probeVars, dissectorVars>>
     \/ /\ part = "probes" /\ A!Next
        /\ UNCHANGED <<vars, flowVars, idVars, tlsVars, dissectorVars>>
     \/ /\ part \in {"frames", "routes", "replies", "contents"}
        /\ UNCHANGED <<vars, flowVars, idVars, tlsVars, probeVars>>
        /\ \/ part = "frames" /\ W!Next /\ UNCHANGED <<routeVars, replyVars, contentVars>>
           \/ part = "routes" /\ D!Next /\ UNCHANGED <<frameVars, replyVars, contentVars>>
           \/ part = "replies" /\ R!Next /\ UNCHANGED <<frameVars, routeVars, contentVars>>
           \/ part = "contents" /\ C!Next /\ UNCHANGED <<frameVars, routeVars, replyVars>>

MCSpec ==
  MCInit /\ [][MCNext]_<<part, vars, flowVars, idVars, tlsVars, probeVars, dissectorVars>>

-----------------------------------------------------------------------------
(* Properties.                                                             *)

\* An entry of an HTTP connection is emitted once, a response is read with the
\* method of its own request, and nobody who reads packets sleeps; see Pairing
\* (pipeline.go:233-267, 331-393, 310-324).
PairsAreClean ==
  part = "pairing" => EmittedOnce /\ PeekSeesOwnRequest /\ NeverSleepsOnAFPacket

\* A packet is reported in at most one generic entry, a dissected connection
\* only if its flow was lost, and what counts as retransmitted is behind; see
\* FlowTable (dissect_l4.go:218-227, 301-357, 470-518).
FlowsReportedOnce ==
  part = "flows" =>
    F!PacketsReportedOnce /\ F!DissectedReportedOnlyIfGone /\ F!RetransmitsAreBehind

\* Requests and responses with ids are paired once and crossed only when an id
\* is used again; see IdPairing (pipeline.go:1043-1083, dissect_kafka.go:192-200,
\* dissect_mongo.go:224-232).
IdsPairOnce == part = "ids" => I!CrossedOnlyIfReused /\ I!RequestPairedOnce

\* A sweep removes only what was old when it began; see IdPairing
\* (pipeline.go:1165-1188).
SweepSparesFresh == I!SweepSparesFresh

\* No dissector reads across a hole in a TLS stream that was noticed, and the
\* byte budget is exactly what the pipes hold; see TLSCapture
\* (tls_pipeline.go:38-51, 382-508, loader.go:270-304).
StreamsHaveNoHole == part = "tls" => T!StreamHasNoHole /\ T!BudgetIsExact

\* Probes are removed only from libraries nobody kept mapped through the scan, and
\* all at the end; see TLSAttach (loader.go:341-397).
ProbesOnlyWhereNeeded == A!ProbesOnlyWhereNeeded

\* No dissector loses its place between messages, or stops but for a size no
\* message may have; see Framing (dissect_kafka.go:112-135 and the others).
DissectorsStayFramed == part = "frames" => W!StaysFramed /\ W!StopsOnlyOnBadSize

\* Both directions of a connection reach one dissector in the right roles, and
\* the kernel filter lets through every port one is chosen by; see Dispatch
\* (pipeline.go:582-626, tls_pipeline.go:252-298, worker.go:342-369).
DirectionsAgree == part = "routes" => D!DirectionsAgree /\ D!FilterAdmitsDispatch

\* Commands are shown with their own whole replies; see ReplyPairing
\* (dissect_mysql.go:129-313, dissect_postgres.go:65-179, dissect_redis.go:44-122).
RepliesInStep == part = "replies" => R!RepliesInStep

\* AMQP contents are their own, in order, and their beginning whole; see AMQPContent
\* (dissect_amqp.go:59-128, 518-560).
ContentIsWhole == part = "contents" => C!ContentIsWhole

\* A flow nobody dissects is reported in the end (FlowTable, dissect_l4.go:470-518),
\* and once the worker stops every dissector of a TLS stream returns and the whole
\* budget is given back (TLSCapture, tls_pipeline.go:62-113, 153-187, 440-508).
CaptureSettles ==
  /\ part = "flows" /\ F!Fairness => F!FlowsAreReported
  /\ part = "tls" /\ T!Fairness => T!AllReleased
=============================================================================
