------------------------------- MODULE Pairing -------------------------------
(***************************************************************************)
(* Pairing of requests and responses (internal/worker/pipeline.go).  Each  *)
(* direction of a TCP connection is parsed by a goroutine of its own; they *)
(* meet in p.conns, a FIFO of pending requests per connection key, under   *)
(* p.mu.  HTTP reserves its place in the FIFO before it reads the body of  *)
(* a request, so a response may find a request that is not complete and is *)
(* then parked on it for the request's goroutine to emit.                  *)
(*                                                                         *)
(* Requests and responses of a connection are numbered as they appear on   *)
(* the wire: response n answers request n.  Response 0 answers a request   *)
(* sent before capture started.  A pending request is its number.          *)
(*                                                                         *)
(* The packet assembler hands bytes to one direction at a time and waits   *)
(* until the reader asks for more.  So on AF_PACKET a response is seen     *)
(* only after the head of its request was parsed, unless the request's     *)
(* direction is no longer parsed.  The two pipes of an eBPF TLS connection *)
(* are not ordered.  Loss inside a TLS connection ends both pipes before   *)
(* they are parsed and is not a gap here.                                  *)
(***************************************************************************)
EXTENDS Integers, Sequences, FiniteSets, SequencesExt

CONSTANTS
  Keys,           \* connections
  MaxRequests,    \* bound on the requests of a connection
  reqBacklogCap,  \* pending requests of a connection (1024)
  completeResponsePairRetries,
  Ages,           \* whether pending requests get older than gc's 30 s
  None

ASSUME PairingAssumption ==
  /\ MaxRequests \in Nat /\ reqBacklogCap \in Nat \ {0}
  /\ completeResponsePairRetries \in Nat /\ Ages \in BOOLEAN
  /\ None \notin Nat /\ None \notin Seq(Nat)

VARIABLES
  path, proto,      \* how a connection is captured, and what it speaks
  conns,            \* p.conns: the FIFO of a connection, or None
  filled,           \* requests whose payload is complete
  parked,           \* parked[k]: <<request, response>> in pr.resp
  afPacketStreams,  \* directions of a connection being read from AF_PACKET
  req,              \* request goroutine: where it is, requests parsed
  resp,             \* response goroutine: where it is, responses read,
                    \*   retries so far, the request whose method it peeked,
                    \*   the response a gap cut short
  old,              \* requests 1 .. old[k] are older than 30 s
  gcRun,            \* the running gc: the keys left to prune, its cutoff
  emitted,          \* entries emitted: <<request, response>>
  shifted           \* history: the FIFO lost a request or missed a response

wireVars == <<path, proto>>
gcVars == <<old, gcRun>>
vars == <<wireVars, conns, filled, parked, afPacketStreams, req, resp, gcVars,
          emitted, shifted>>

Requests == 1 .. MaxRequests
Responses == 0 .. MaxRequests
Pairs == Requests \X Responses
Stages == {"new", "head", "body", "pairing", "cut", "gone", "done"}
NoGC == [keys |-> {}, cutoff |-> [k \in Keys |-> 0]]

TypeOK ==
  /\ path \in [Keys -> {"afpacket", "tls"}] /\ proto \in [Keys -> {"http", "other"}]
  /\ conns \in [Keys -> Seq(Requests) \cup {None}]
  /\ filled \in [Keys -> SUBSET Requests]
  /\ parked \in [Keys -> SUBSET Pairs]
  /\ afPacketStreams \in [Keys -> 0 .. 2]
  /\ req \in [Keys -> [at : Stages, n : 0 .. MaxRequests]]
  /\ resp \in [Keys -> [at : Stages, n : -1 .. MaxRequests,
                        try : 0 .. completeResponsePairRetries,
                        peek : Requests \cup {None}, cut : Responses \cup {None}]]
  /\ old \in [Keys -> 0 .. MaxRequests]
  /\ gcRun \in [keys : SUBSET Keys, cutoff : [Keys -> 0 .. MaxRequests]]
  /\ emitted \in [Keys -> Seq(Pairs)]
  /\ shifted \in [Keys -> BOOLEAN]

\* Capture may start between a request and its response.
Init ==
  /\ path \in [Keys -> {"afpacket", "tls"}] /\ proto \in [Keys -> {"http", "other"}]
  /\ conns = [k \in Keys |-> None]
  /\ filled = [k \in Keys |-> {}] /\ parked = [k \in Keys |-> {}]
  /\ afPacketStreams = [k \in Keys |-> 0]
  /\ req = [k \in Keys |-> [at |-> "new", n |-> 0]]
  /\ \E seen \in [Keys -> {-1, 0}] :
       resp = [k \in Keys |-> [at |-> "new", n |-> seen[k], try |-> 0,
                               peek |-> None, cut |-> None]]
  /\ shifted = [k \in Keys |-> FALSE]
  /\ old = [k \in Keys |-> 0] /\ gcRun = NoGC
  /\ emitted = [k \in Keys |-> <<>>]

Queue(k) == IF conns[k] = None THEN <<>> ELSE conns[k]
Pending(k) == ToSet(Queue(k))
ReqAt(k, stage) == req' = [req EXCEPT ![k].at = stage]
RespAt(k, stage) == resp' = [resp EXCEPT ![k].at = stage]

-----------------------------------------------------------------------------
(* consumeStream: a direction is registered while it is read.              *)

addAFPacketStream(k) ==
  afPacketStreams' = [afPacketStreams EXCEPT ![k] = IF path[k] = "tls" THEN @ ELSE @ + 1]

removeAFPacketStream(k) ==
  afPacketStreams' = [afPacketStreams EXCEPT ![k] = IF path[k] = "tls" THEN @ ELSE @ - 1]

StartRequests(k) ==
  /\ req[k].at = "new"
  /\ ReqAt(k, "head")
  /\ addAFPacketStream(k)
  /\ UNCHANGED <<wireVars, conns, filled, parked, resp, gcVars, emitted, shifted>>

StartResponses(k) ==
  /\ resp[k].at = "new"
  /\ RespAt(k, "head")
  /\ addAFPacketStream(k)
  /\ UNCHANGED <<wireVars, conns, filled, parked, req, gcVars, emitted, shifted>>

\* A direction stops being parsed: it ended, it is not what it seemed, or it
\* switched to WebSocket frames, which are not paired.
StopRequests(k) ==
  /\ req[k].at = "head"
  /\ ReqAt(k, "gone")
  /\ UNCHANGED <<wireVars, conns, filled, parked, afPacketStreams, resp, gcVars,
                 emitted, shifted>>

StopResponses(k) ==
  /\ resp[k].at = "head"
  /\ RespAt(k, "gone")
  /\ UNCHANGED <<wireVars, conns, filled, parked, afPacketStreams, req, gcVars,
                 emitted, shifted>>

\* The rest of it is drained, then it is deregistered.
EndRequests(k) ==
  /\ req[k].at = "gone"
  /\ ReqAt(k, "done")
  /\ removeAFPacketStream(k)
  /\ UNCHANGED <<wireVars, conns, filled, parked, resp, gcVars, emitted, shifted>>

EndResponses(k) ==
  /\ resp[k].at = "gone"
  /\ RespAt(k, "done")
  /\ removeAFPacketStream(k)
  /\ UNCHANGED <<wireVars, conns, filled, parked, req, gcVars, emitted, shifted>>

-----------------------------------------------------------------------------
(* The request direction.                                                  *)

\* evictOverCapLocked(p.conns, maxPending): whether the map is over its limit
\* depends on all connections of the node, and so does which of them goes;
\* the keys of this model that go.
evictOverCapLocked(rows) == {{}} \cup {{j} : j \in rows}

\* Queue request q of k.  The oldest pending request goes when there are too
\* many, and any one connection when there are too many of those.
appendPending(k, q) ==
  LET queued == Append(Queue(k), q)
      capped == IF Len(queued) > reqBacklogCap THEN Tail(queued) ELSE queued
      new == [conns EXCEPT ![k] = capped]
      rows == {j \in Keys : new[j] # None}
      lost == {j \in {k} : capped # queued}
  IN
  \E evicted \in evictOverCapLocked(rows) :
    /\ conns' = [j \in Keys |-> IF j \in evicted THEN None ELSE new[j]]
    /\ shifted' = [j \in Keys |-> \/ shifted[j] \/ j \in lost
                                  \/ j \in evicted /\ new[j] # <<>>]

\* HTTP: the head of the next request is parsed.
reserveRequest(k) ==
  /\ proto[k] = "http"
  /\ req[k].at = "head"
  /\ req[k].n < MaxRequests
  /\ appendPending(k, req[k].n + 1)
  /\ req' = [req EXCEPT ![k] = [at |-> "body", n |-> @.n + 1]]
  /\ UNCHANGED <<wireVars, filled, parked, afPacketStreams, resp, gcVars, emitted>>

\* Mutant of fillRequest: a response parked meanwhile is not looked for.
fillForgets(k) ==
  LET n == req[k].n IN
  /\ req[k].at \in {"body", "cut"}
  /\ filled' = [filled EXCEPT ![k] = @ \cup {n}]
  /\ ReqAt(k, IF req[k].at = "body" THEN "head" ELSE "gone")
  /\ UNCHANGED <<wireVars, conns, parked, afPacketStreams, resp, gcVars, emitted, shifted>>

\* Its body is read, to the end or to where the direction ended; a response
\* that was parked on it meanwhile is emitted here.
fillRequest(k) ==
  LET n == req[k].n
      mine == {pr \in parked[k] : pr[1] = n}
  IN
  /\ req[k].at \in {"body", "cut"}
  /\ filled' = [filled EXCEPT ![k] = @ \cup {n}]
  /\ parked' = [parked EXCEPT ![k] = @ \ mine]
  /\ emitted' = [emitted EXCEPT ![k] = @ \o SetToSeq(mine)]
  /\ ReqAt(k, IF req[k].at = "body" THEN "head" ELSE "gone")
  /\ UNCHANGED <<wireVars, conns, afPacketStreams, resp, gcVars, shifted>>

\* The other protocols queue a request when it is complete.
enqueueRequest(k) ==
  /\ proto[k] = "other"
  /\ req[k].at = "head"
  /\ req[k].n < MaxRequests
  /\ appendPending(k, req[k].n + 1)
  /\ filled' = [filled EXCEPT ![k] = @ \cup {req[k].n + 1}]
  /\ req' = [req EXCEPT ![k].n = @ + 1]
  /\ UNCHANGED <<wireVars, parked, afPacketStreams, resp, gcVars, emitted>>

\* appendPending for a connection outside the model evicts one inside.
EvictedByOther(k) ==
  /\ conns[k] # None
  /\ {k} \in evictOverCapLocked({k})
  /\ conns' = [conns EXCEPT ![k] = None]
  /\ shifted' = [shifted EXCEPT ![k] = @ \/ conns[k] # <<>>]
  /\ UNCHANGED <<wireVars, filled, parked, afPacketStreams, req, resp, gcVars, emitted>>

-----------------------------------------------------------------------------
(* The response direction.                                                 *)

\* No request beyond the last one will be parsed.
RequestsLost(k) == req[k].at \in {"cut", "gone", "done"}

\* Response n can have been captured.
OnTheWire(k, n) ==
  /\ n <= MaxRequests
  /\ path[k] = "tls" \/ n <= req[k].n \/ RequestsLost(k)

\* peekPendingMethod, before the head of the next response is parsed.
peekPendingMethod(k) ==
  /\ resp[k].at = "head"
  /\ OnTheWire(k, resp[k].n + 1)
  /\ resp' = [resp EXCEPT ![k].at = "body",
                          ![k].peek = IF Queue(k) = <<>> THEN None ELSE Head(Queue(k))]
  /\ UNCHANGED <<wireVars, conns, filled, parked, afPacketStreams, req, gcVars,
                 emitted, shifted>>

\* An interim (1xx) response is skipped.
SkipInterim(k) ==
  /\ proto[k] = "http"
  /\ resp[k].at = "body"
  /\ resp' = [resp EXCEPT ![k].at = "head", ![k].peek = None]
  /\ UNCHANGED <<wireVars, conns, filled, parked, afPacketStreams, req, gcVars,
                 emitted, shifted>>

\* The response is read: its body is complete, or (HTTP) the direction ended
\* in the middle of it.
ReadResponse(k) ==
  /\ resp[k].at \in {"body", "cut"}
  /\ resp' = [resp EXCEPT ![k].at = "pairing", ![k].n = @ + 1, ![k].peek = None]
  /\ UNCHANGED <<wireVars, conns, filled, parked, afPacketStreams, req, gcVars,
                 emitted, shifted>>

\* completeResponse returns; a direction that was cut short has ended.
Completed(k) ==
  resp' = [resp EXCEPT ![k].at = IF resp[k].cut = None THEN "head" ELSE "gone", ![k].try = 0]

\* completeResponse takes the oldest pending request.  If it is complete the
\* entry is emitted, which no other goroutine can observe half way; if not,
\* the response is parked on it.
CompletePop(k) ==
  LET pr == <<Head(Queue(k)), resp[k].n>> IN
  /\ resp[k].at = "pairing"
  /\ Queue(k) # <<>>
  /\ conns' = [conns EXCEPT ![k] = Tail(Queue(k))]
  /\ IF pr[1] \in filled[k]
     THEN emitted' = [emitted EXCEPT ![k] = Append(@, pr)] /\ UNCHANGED parked
     ELSE parked' = [parked EXCEPT ![k] = @ \cup {pr}] /\ UNCHANGED emitted
  /\ Completed(k)
  /\ shifted' = [shifted EXCEPT ![k] = @ \/ resp[k].n = 0]
  /\ UNCHANGED <<wireVars, filled, afPacketStreams, req, gcVars>>

WaitForPair(k) ==
  afPacketStreams[k] = 0 /\ resp[k].try < completeResponsePairRetries

\* Nothing is pending: sleep and look again, where that may help ...
CompleteRetry(k) ==
  /\ resp[k].at = "pairing"
  /\ Queue(k) = <<>>
  /\ WaitForPair(k)
  /\ resp' = [resp EXCEPT ![k].try = @ + 1]
  /\ UNCHANGED <<wireVars, conns, filled, parked, afPacketStreams, req, gcVars,
                 emitted, shifted>>

\* ... or give the response up.
CompleteDrop(k) ==
  /\ resp[k].at = "pairing"
  /\ Queue(k) = <<>>
  /\ ~WaitForPair(k)
  /\ Completed(k)
  /\ shifted' = [shifted EXCEPT ![k] = @ \/ (resp[k].n > req[k].n /\ ~RequestsLost(k))]
  /\ UNCHANGED <<wireVars, conns, filled, parked, afPacketStreams, req, gcVars, emitted>>

-----------------------------------------------------------------------------
(* lossReader: a segment is missing.  onLoss purges the connection, the    *)
(* rest of the direction is discarded to its end, then the parser sees EOF *)

purgePending(k) == conns' = [conns EXCEPT ![k] = None]

RequestGap(k) ==
  /\ path[k] = "afpacket"
  /\ req[k].at \in {"head", "body"}
  /\ purgePending(k)
  /\ ReqAt(k, IF req[k].at = "body" THEN "cut" ELSE "gone")
  /\ UNCHANGED <<wireVars, filled, parked, afPacketStreams, resp, gcVars, emitted, shifted>>

\* Only HTTP completes a response whose body ends early.
ResponseGap(k) ==
  /\ path[k] = "afpacket"
  /\ resp[k].at \in {"head", "body"}
  /\ purgePending(k)
  /\ resp' = IF resp[k].at = "body" /\ proto[k] = "http"
             THEN [resp EXCEPT ![k].at = "cut", ![k].cut = resp[k].n + 1, ![k].peek = None]
             ELSE [resp EXCEPT ![k].at = "gone", ![k].peek = None]
  /\ UNCHANGED <<wireVars, filled, parked, afPacketStreams, req, gcVars, emitted, shifted>>

-----------------------------------------------------------------------------
(* gc: scan under the lock, then prune key by key under it again.  (The    *)
(* code prunes up to gcDeleteBatch keys per lock.)                         *)

\* 30 s pass for the oldest request that is not stale yet.
Age(k) ==
  /\ Ages
  /\ old[k] < req[k].n
  /\ old' = [old EXCEPT ![k] = @ + 1]
  /\ UNCHANGED <<wireVars, conns, filled, parked, afPacketStreams, req, resp, gcRun,
                 emitted, shifted>>

GCScan ==
  LET stale == {k \in Keys : /\ conns[k] # None
                             /\ conns[k] = <<>> \/ Head(conns[k]) <= old[k]} IN
  /\ gcRun.keys = {}
  /\ stale # {}
  /\ gcRun' = [keys |-> stale, cutoff |-> old]
  /\ UNCHANGED <<wireVars, conns, filled, parked, afPacketStreams, req, resp, old,
                 emitted, shifted>>

\* Mutant of Kept: the scan's verdict is not taken again for each request.
KeptNone(k) == <<>>

\* The requests of a queue that are not older than the cutoff, in order.
Kept(k) ==
  LET q == Queue(k)
      upTo[i \in 0 .. Len(q)] ==
        IF i = 0 THEN <<>>
        ELSE IF q[i] > gcRun.cutoff[k] THEN Append(upTo[i - 1], q[i]) ELSE upTo[i - 1]
  IN  upTo[Len(q)]

GCPrune(k) ==
  /\ k \in gcRun.keys
  /\ conns' = [conns EXCEPT ![k] = IF Kept(k) = <<>> THEN None ELSE Kept(k)]
  /\ shifted' = [shifted EXCEPT ![k] = @ \/ \E q \in Pending(k) : q <= gcRun.cutoff[k]]
  /\ gcRun' = IF gcRun.keys = {k} THEN NoGC ELSE [gcRun EXCEPT !.keys = @ \ {k}]
  /\ UNCHANGED <<wireVars, filled, parked, afPacketStreams, req, resp, old, emitted>>

-----------------------------------------------------------------------------
RequestSide(k) == \/ StartRequests(k) \/ reserveRequest(k) \/ fillRequest(k)
                  \/ enqueueRequest(k) \/ RequestGap(k) \/ StopRequests(k) \/ EndRequests(k)
ResponseSide(k) == \/ StartResponses(k) \/ peekPendingMethod(k) \/ SkipInterim(k)
                   \/ ReadResponse(k) \/ CompletePop(k) \/ CompleteRetry(k) \/ CompleteDrop(k)
                   \/ ResponseGap(k) \/ StopResponses(k) \/ EndResponses(k)

Next == \/ \E k \in Keys : RequestSide(k) \/ ResponseSide(k) \/ EvictedByOther(k)
        \/ \E k \in Keys : Age(k) \/ GCPrune(k)
        \/ GCScan

Spec == Init /\ [][Next]_vars

-----------------------------------------------------------------------------
(* Properties.                                                             *)

\* Entries pair a response with its own request.  The exceptions are a
\* connection whose FIFO lost a request to a limit or to gc, or that missed a
\* response (the limitation of pipeline.go:350-356), and the one response
\* that was being read when its direction lost a segment.
MispairedOnlyIf ==
  \A k \in Keys : \A pr \in ToSet(emitted[k]) :
    pr[1] = pr[2] \/ shifted[k] \/ pr[2] = resp[k].cut

\* A request and a response are emitted at most once, whichever of the two
\* goroutines does it, and a parked response is never stranded: the goroutine
\* of the request it is parked on is still going to look for it
\* (pipeline.go:229-244, 368-379, 762-766).
EmittedOnce ==
  \A k \in Keys :
    /\ \A i, j \in DOMAIN emitted[k] :
         i # j => /\ emitted[k][i][1] # emitted[k][j][1]
                  /\ emitted[k][i][2] # emitted[k][j][2]
    /\ \A pr \in parked[k] : req[k].n = pr[1] /\ req[k].at \in {"body", "cut"}

\* The method that decides whether a response has a body is that of its own
\* request, on a connection in order, unless loss ended the requests
\* (pipeline.go:663-668).
PeekSeesOwnRequest ==
  \A k \in Keys :
    resp[k].at = "body" /\ resp[k].n >= 0 /\ path[k] = "afpacket" /\ ~shifted[k] =>
      resp[k].peek = resp[k].n + 1 \/ (resp[k].peek = None /\ RequestsLost(k))

\* completeResponse never sleeps on a connection that AF_PACKET feeds, where
\* it would hold up the assembler (pipeline.go:280-298).
NeverSleepsOnAFPacket ==
  \A k \in Keys : resp[k].try > 0 => path[k] = "tls"

\* "the invariant: never emit a mispaired entry after a known gap"
\* (pipeline.go:531-532), on a connection that was in order before it.
NoMispairAfterGap ==
  \A k \in Keys : ~shifted[k] => \A pr \in ToSet(emitted[k]) : pr[1] = pr[2]
=============================================================================
