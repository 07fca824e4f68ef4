------------------------------ MODULE FlowTable ------------------------------
(***************************************************************************)
(* L4 flow accounting in a worker (internal/worker/dissect_l4.go).  The    *)
(* packet loop hands a TCP segment to the assembler, whose dissector marks *)
(* the connection as dissected for every request it reads, and then counts *)
(* the segment in the flow of its key (route, trackTCP).  A flow without   *)
(* the mark is reported when it closes, or by flushFlows once it is idle.  *)
(* The TLS dissectors mark connections from goroutines of their own.       *)
(*                                                                         *)
(* Time is in ticks longer than dedupWindow: two deliveries in one tick    *)
(* are one packet seen on two interfaces.  A flow has an age instead of a  *)
(* lastSeen.  A segment carries one byte; sequence numbers wrap at SeqSpace. *)
(***************************************************************************)
EXTENDS Integers, FiniteSets

CONSTANTS
  Keys,        \* connKey values
  SeqSpace,    \* sequence numbers are modulo this
  maxFlows,    \* cap of the table
  Idle,        \* ticks after which a flow is idle (20s)
  MaxPackets   \* bound on the packets

\* What the proofs use of the constants.
FlowAssumption == SeqSpace \in Nat \ {0} /\ Idle \in Nat /\ MaxPackets \in Nat

Sides == {"client", "server"}

VARIABLES
  flows,    \* key -> flowState
  loop,     \* packet loop: packet, track (assembled), reap, report
  pkt,      \* the packet between the assembler and trackTCP
  stale,    \* flushFlows: keys to delete
  toEmit,   \*   and flows to report
  n,        \* packets so far
  at,       \* at[k][s]: one past the last byte captured of side s of the newest
            \*   connection of k
  entries,  \* generic entries reported
  l7,       \* history: keys whose connection has been dissected
  gone,     \* history: keys whose flow was reaped or evicted since the last mark
  odd,      \* history: keys whose sequence numbers wrapped or started again
  early     \* history: keys with a retransmission counted for a segment ahead
            \*   of all those of its direction before it

vars == <<flows, loop, pkt, stale, toEmit, n, at, entries, l7, gone, odd, early>>

NoPacket == [key |-> "none"]

Init ==
  /\ flows = <<>> /\ loop = "packet" /\ pkt = NoPacket
  /\ stale = {} /\ toEmit = {} /\ n = 0
  /\ at = [k \in Keys |-> [s \in Sides |-> 0]]
  /\ entries = {} /\ l7 = {} /\ gone = {} /\ odd = {} /\ early = {}

NoSegment == [seq |-> 0, fresh |-> FALSE]

\* A flow without packets, as markL7 leaves it.
Placeholder ==
  [first |-> FALSE, age |-> Idle + 1, l7 |-> TRUE, emitted |-> FALSE, closed |-> FALSE, pkts |-> {},
   next |-> [s \in Sides |-> -1], seg |-> [s \in Sides |-> NoSegment]]

newFlow == [Placeholder EXCEPT !.first = TRUE, !.age = 0, !.l7 = FALSE]

Put(m, k, f) == [j \in DOMAIN m \cup {k} |-> IF j = k THEN f ELSE m[j]]
Without(m, ks) == [j \in DOMAIN m \ ks |-> m[j]]

\* What an insertion may evict: any one key, the new one included.
evictOverCapLocked(m) ==
  IF Cardinality(DOMAIN m) <= maxFlows THEN {{}} ELSE {{k} : k \in DOMAIN m}

\* flows' with f at k, evicting if k is new.  f is still used by its caller
\* when it was itself evicted.
Store(k, f) ==
  LET m == Put(flows, k, f) IN
  \E out \in IF k \in DOMAIN flows THEN {{}} ELSE evictOverCapLocked(m) :
    /\ flows' = Without(m, out)
    /\ gone' = gone \cup out

-----------------------------------------------------------------------------
(* Dissectors.                                                             *)

MarkedFlow(k) == IF k \in DOMAIN flows THEN [flows[k] EXCEPT !.l7 = TRUE] ELSE Placeholder

\* The key has a marked flow from here on, unless the insertion evicts it.
markL7(k) ==
  LET m == Put(flows, k, MarkedFlow(k)) IN
  \E out \in IF k \in DOMAIN flows THEN {{}} ELSE evictOverCapLocked(m) :
    /\ flows' = Without(m, out)
    /\ gone' = (gone \ {k}) \cup out
    /\ l7' = l7 \cup {k}

\* A TLS dissector reads a request, at any time.
TLSRequest(k) ==
  /\ markL7(k)
  /\ UNCHANGED <<loop, pkt, stale, toEmit, n, at, entries, odd, early>>

-----------------------------------------------------------------------------
(* route, trackTCP and trackUDP.                                           *)

\* A packet of side s: TCP data (the next byte; the one after a byte that is
\* missing or overtaken; or an earlier one, which is sent again or comes for the
\* first time, late), FIN or RST, the SYN of a new connection, or UDP.  A segment
\* that completes an HTTP request is dissected before it is counted.
Route(k) ==
  /\ loop = "packet"
  /\ n < MaxPackets
  /\ n' = n + 1
  /\ loop' = "track"
  /\ \E s \in Sides, kind \in {"data", "syn", "close", "udp"}, off \in -2 .. 1 :
       LET pos == at[k][s] + off IN
       /\ pos >= 0 /\ (kind # "data" => off = 0)
       /\ pkt' = [key |-> k, side |-> s, kind |-> kind, seq |-> pos % SeqSpace, ahead |-> off >= 0]
       /\ at' = CASE kind = "data" /\ off >= 0 -> [at EXCEPT ![k][s] = pos + 1]
                  [] kind = "syn" -> [at EXCEPT ![k] = [t \in Sides |-> 0]]
                  [] OTHER -> at
       /\ odd' = IF pos >= SeqSpace \/ (kind = "syn" /\ at[k] # [t \in Sides |-> 0])
                 THEN odd \cup {k} ELSE odd
       /\ \/ kind = "data" /\ s = "client" /\ markL7(k)
          \/ UNCHANGED <<flows, gone, l7>>
  /\ UNCHANGED <<stale, toEmit, entries, early>>

\* The flow the packet belongs to, created or completed.
FlowOf(p) ==
  IF p.key \in DOMAIN flows THEN [flows[p.key] EXCEPT !.first = TRUE] ELSE newFlow

\* The same segment as the last of its direction, within dedupWindow.
seenRecently(f, p) == f.seg[p.side] = [seq |-> p.seq, fresh |-> TRUE]

\* A segment below the expected sequence number counts as retransmitted; the
\* comparison knows nothing of wrapping.
Retransmitted(f, p) == p.kind = "data" /\ f.next[p.side] # -1 /\ p.seq < f.next[p.side]

\* trackTCP's accounting of a packet that is not a duplicate.
Counted(f, p) ==
  [f EXCEPT !.age = 0,
            !.pkts = @ \cup {n},
            !.seg[p.side] = IF p.kind = "data" THEN [seq |-> p.seq, fresh |-> TRUE] ELSE @,
            !.next[p.side] = IF p.kind # "data" \/ Retransmitted(f, p) THEN @
                             ELSE (p.seq + 1) % SeqSpace,
            !.closed = @ \/ p.kind = "close"]

\* emitFlow, with what is known of the connection at that time.
emitFlow(k, f, why) ==
  [key |-> k, pkts |-> f.pkts, why |-> why, dissected |-> k \in l7, flowLost |-> k \in gone]

\* Mutant of ToReport: the flow is not remembered as reported.
ToReportAgain(f) == f.closed /\ ~f.l7

\* A closing flow that is neither reported nor dissected is reported.
ToReport(f) == f.closed /\ ~f.emitted /\ ~f.l7

trackTCP ==
  LET f == FlowOf(pkt)
      g == Counted(f, pkt)
  IN
  /\ loop = "track" /\ pkt.kind # "udp"
  /\ loop' = "packet" /\ pkt' = NoPacket
  /\ IF pkt.kind = "data" /\ seenRecently(f, pkt)
     THEN Store(pkt.key, [f EXCEPT !.age = 0]) /\ UNCHANGED <<entries, early>>
     ELSE /\ Store(pkt.key, [g EXCEPT !.emitted = @ \/ ToReport(g)])
          /\ entries' = IF ToReport(g) THEN entries \cup {emitFlow(pkt.key, g, "close")} ELSE entries
          /\ early' = IF Retransmitted(f, pkt) /\ pkt.ahead THEN early \cup {pkt.key} ELSE early
  /\ UNCHANGED <<stale, toEmit, n, at, l7, odd>>

\* connKey has no protocol: a UDP packet may land in a TCP flow of the same
\* endpoints, placeholder or not.
trackUDP ==
  LET f == IF pkt.key \in DOMAIN flows THEN flows[pkt.key] ELSE newFlow IN
  /\ loop = "track" /\ pkt.kind = "udp"
  /\ loop' = "packet" /\ pkt' = NoPacket
  /\ Store(pkt.key, [f EXCEPT !.age = 0, !.pkts = @ \cup {n}])
  /\ UNCHANGED <<stale, toEmit, n, at, entries, l7, odd, early>>

-----------------------------------------------------------------------------
(* flushFlows, on the packet loop's ticker.                                *)

\* A placeholder's lastSeen is the zero time, so it is idle at once.
IsIdle(f) == f.age > Idle

FlushReports(m, k) == ~m[k].emitted /\ IsIdle(m[k]) /\ ~m[k].l7 /\ m[k].first

\* The scan: under flowMu, mark and copy what is idle, note what to delete.
FlushScan ==
  /\ loop = "packet"
  /\ stale' = {k \in DOMAIN flows : flows[k].emitted \/ IsIdle(flows[k])}
  /\ toEmit' = {emitFlow(k, flows[k], "idle") : k \in {j \in DOMAIN flows : FlushReports(flows, j)}}
  /\ flows' = [k \in DOMAIN flows |-> [flows[k] EXCEPT !.emitted = @ \/ FlushReports(flows, k)]]
  /\ loop' = "reap"
  /\ UNCHANGED <<pkt, n, at, entries, l7, gone, odd, early>>

\* The deletions, in batches: flowMu is free in between, for markL7.
FlushReap ==
  /\ loop = "reap"
  /\ \E k \in stale :
       LET dead == {j \in {k} \cap DOMAIN flows : flows[j].emitted \/ IsIdle(flows[j])} IN
       /\ stale' = stale \ {k}
       /\ flows' = Without(flows, dead)
       /\ gone' = gone \cup dead
  /\ UNCHANGED <<loop, pkt, toEmit, n, at, entries, l7, odd, early>>

\* What the scan copied is reported at the end.
FlushEmit ==
  /\ loop = "reap" /\ stale = {}
  /\ entries' = entries \cup toEmit
  /\ toEmit' = {}
  /\ loop' = "packet"
  /\ UNCHANGED <<flows, pkt, stale, n, at, l7, gone, odd, early>>

\* The clock.  flushFlows reads it once, at its start.
Tick ==
  /\ loop = "packet"
  /\ flows' = [k \in DOMAIN flows |->
                [flows[k] EXCEPT !.age = IF @ > Idle THEN @ ELSE @ + 1,
                                 !.seg = [s \in Sides |-> [@[s] EXCEPT !.fresh = FALSE]]]]
  /\ UNCHANGED <<loop, pkt, stale, toEmit, n, at, entries, l7, gone, odd, early>>

-----------------------------------------------------------------------------
Next == \/ \E k \in Keys : Route(k) \/ TLSRequest(k)
        \/ trackTCP \/ trackUDP \/ FlushScan \/ FlushReap \/ FlushEmit \/ Tick

Spec == Init /\ [][Next]_vars

\* The loop finishes what it began; its ticker fires and the clock advances
\* although packets keep arriving.
Fairness == /\ WF_vars(trackTCP \/ trackUDP \/ FlushReap \/ FlushEmit)
            /\ SF_vars(FlushScan) /\ SF_vars(Tick)

-----------------------------------------------------------------------------
(* Properties.                                                             *)

\* A packet is reported in at most one generic entry: a flow reported when it
\* closed is not reported again for later segments nor when it is idle
\* (dissect_l4.go:349-361, 476-517).
PacketsReportedOnce ==
  \A a, b \in entries \cup toEmit : a # b => a.pkts \cap b.pkts = {}

\* A dissected connection is only reported as a generic flow as well when its
\* flow, and the mark with it, was deleted since the last request, being idle
\* or evicted (dissect_l4.go:218-227, 349, 482).
DissectedReportedOnlyIfGone == \A e \in entries \cup toEmit : e.dissected => e.flowLost

\* What counts as retransmitted is behind a segment of its direction that was
\* already sent: a repeat, or one that was overtaken and comes for the first
\* time, which the code does not tell from a repeat.  A segment ahead of all
\* others counts so only after the sequence numbers of the key wrapped or
\* started again with a new connection (dissect_l4.go:308-315, 326-333).
RetransmitsAreBehind == early \subseteq odd

\* A flow that nobody dissects does not stay unreported: it closes, or gets
\* idle and is reported and deleted, unless it is evicted
\* (dissect_l4.go:470-518).
FlowsAreReported ==
  \A k \in Keys :
    LET waits == k \in DOMAIN flows /\ ~flows[k].l7 /\ ~flows[k].emitted
    IN waits ~> ~waits
=============================================================================
