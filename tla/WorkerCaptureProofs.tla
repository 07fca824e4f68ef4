-------------------------- MODULE WorkerCaptureProofs --------------------------
(***************************************************************************)
(* Proofs about a worker's capture: the pairing of requests and responses  *)
(* in order (Pairing) and by id (IdPairing), the flow table (FlowTable),   *)
(* the streams of decrypted TLS traffic (TLSCapture) and the probes of TLS *)
(* libraries (TLSAttach), for any number of connections, requests,         *)
(* exchanges, packets, chunks, keys and processes and every cap of the     *)
(* maps and queues.                                                        *)
(***************************************************************************)
EXTENDS MCWorkerCapture, SumProofs, FiniteSetTheorems, SequenceTheorems, TLAPS

captureVars == <<part, vars, flowVars, idVars, tlsVars, probeVars, dissectorVars>>

-----------------------------------------------------------------------------
(* Pairing by id.                                                          *)

\* Exchanges are numbered from 1; what waits, waits under its own id.
IdsTyped ==
  /\ idProto \in {"dns", "kafka", "mongo"}
  /\ \E m \in Nat : DOMAIN idOf = 1 .. m
  /\ unread \subseteq DOMAIN idOf /\ answers \subseteq DOMAIN idOf
  /\ stored \subseteq DOMAIN idOf
  /\ \A k \in DOMAIN pend : pend[k].x \in stored /\ idOf[pend[k].x] = k
  /\ \A pr \in pairs : pr[1] \in stored /\ pr[2] \in DOMAIN idOf

\* Requests are read in order, so that what waits under an id is the newest
\* request read with it.
IdsNewest ==
  /\ \A y \in stored, u \in unread : y <= u
  /\ \A y \in stored, k \in DOMAIN pend : idOf[y] = k => y <= pend[k].x

\* Over TCP a request that has been read is not read again, and one that has
\* been answered does not wait any more.
IdsOnce ==
  idProto # "dns" =>
    /\ stored \cap unread = {}
    /\ \A pr \in pairs, k \in DOMAIN pend : pend[k].x # pr[1]

IdsSafe == IdsTyped /\ IdsNewest /\ IdsOnce /\ I!CrossedOnlyIfReused /\ I!RequestPairedOnce

LEMMA IdsInit == I!Init => IdsSafe
<1> SUFFICES ASSUME I!Init PROVE IdsSafe
  OBVIOUS
<1>1. DOMAIN idOf = 1 .. 0 /\ 0 \in Nat /\ DOMAIN pend = {}
  BY DEF I!Init
<1> QED BY <1>1 DEF I!Init, IdsSafe, IdsTyped, IdsNewest, IdsOnce, I!CrossedOnlyIfReused, I!RequestPairedOnce

LEMMA IdsSend == ASSUME IdsSafe, I!Send PROVE IdsSafe'
<1>1. PICK m \in Nat : DOMAIN idOf = 1 .. m
  BY DEF IdsSafe, IdsTyped
<1> DEFINE x == m + 1
<1>2. I!Cardinality(I!Exchanges) = m
  <2>1. Cardinality(1 .. m) = m
    BY FS_Interval
  <2> QED BY <1>1, <2>1 DEF I!Exchanges, I!Cardinality, Cardinality
<1>3. PICK i \in Ids : /\ idOf' = I!Put(idOf, x, i)
                       /\ unread' \in {unread, unread \cup {x}}
                       /\ answers' \in {answers, answers \cup {x}}
  BY <1>2 DEF I!Send
<1>4. DOMAIN idOf' = 1 .. m + 1 /\ \A y \in 1 .. m : idOf'[y] = idOf[y]
  BY <1>1, <1>3 DEF I!Put
<1>5. UNCHANGED <<idProto, pend, stored, pairs, crossed>>
  BY DEF I!Send
<1>6. IdsTyped'
  BY <1>1, <1>3, <1>4, <1>5 DEF IdsSafe, IdsTyped
<1>7. IdsNewest'
  BY <1>1, <1>3, <1>4, <1>5 DEF IdsSafe, IdsTyped, IdsNewest
<1>8. IdsOnce'
  BY <1>1, <1>3, <1>5 DEF IdsSafe, IdsTyped, IdsOnce
<1>9. I!CrossedOnlyIfReused'
  BY <1>1, <1>4, <1>5 DEF IdsSafe, IdsTyped, I!CrossedOnlyIfReused
<1>10. I!RequestPairedOnce'
  BY <1>5 DEF IdsSafe, I!RequestPairedOnce
<1> QED BY <1>6, <1>7, <1>8, <1>9, <1>10 DEF IdsSafe

\* What a store leaves in the map: what was there, and perhaps the new request.
LEMMA IdsStored ==
  ASSUME IdsSafe, NEW again \in BOOLEAN, I!StoreRequest(again)
  PROVE  \E x \in unread :
           /\ \A y \in unread : x <= y
           /\ \A k \in DOMAIN pend' : \/ k \in DOMAIN pend /\ pend'[k].x = pend[k].x /\ k # idOf[x]
                                      \/ k = idOf[x] /\ pend'[k].x = x
                                      \/ pend' = pend
           /\ unread' = IF again THEN unread ELSE unread \ {x}
           /\ stored' = IF pend' = pend THEN stored ELSE stored \cup {x}
<1> DEFINE M(x) == I!Put(pend, idOf[x], [x |-> x, old |-> FALSE])
<1>1. PICK x \in unread :
        /\ \A y \in unread : x <= y
        /\ pend' \in CASE idProto = "dns" -> I!dnsQuery(M(x))
                       [] idProto = "kafka" -> I!kafkaStore(M(x))
                       [] idProto = "mongo" -> I!mongoOpMsg(M(x)) \cup I!mongoOpQuery(M(x))
        /\ unread' = IF again THEN unread ELSE unread \ {x}
        /\ stored' = IF pend' = pend THEN stored ELSE stored \cup {x}
  BY DEF I!StoreRequest
<1> HIDE DEF M
<1>2. /\ DOMAIN M(x) = DOMAIN pend \cup {idOf[x]} /\ M(x)[idOf[x]].x = x
      /\ \A k \in DOMAIN pend \ {idOf[x]} : M(x)[k] = pend[k]
  BY DEF M, I!Put
<1>3. ASSUME pend' # pend
      PROVE  \A k \in DOMAIN pend' : k \in DOMAIN M(x) /\ pend'[k] = M(x)[k]
  <2>1. pend' = M(x) \/ \E j \in DOMAIN M(x) : pend' = I!Without(M(x), {j})
    BY <1>1, <1>3 DEF IdsSafe, IdsTyped, I!dnsQuery, I!kafkaStore, I!mongoOpMsg, I!mongoOpQuery, I!mongoStore
  <2> QED BY <2>1 DEF I!Without
<1>4. \A k \in DOMAIN pend' : \/ k \in DOMAIN pend /\ pend'[k].x = pend[k].x /\ k # idOf[x]
                              \/ k = idOf[x] /\ pend'[k].x = x
                              \/ pend' = pend
  BY ONLY <1>2, <1>3
<1>5. /\ \A y \in unread : x <= y
      /\ unread' = IF again THEN unread ELSE unread \ {x}
      /\ stored' = IF pend' = pend THEN stored ELSE stored \cup {x}
  BY ONLY <1>1
<1> WITNESS x \in unread
<1> QED BY ONLY <1>4, <1>5

LEMMA IdsSweep ==
  ASSUME IdsSafe, I!Age \/ I!SweepScan \/ I!SweepReap \/ I!TrimOverCap PROVE IdsSafe'
<1>1. UNCHANGED <<idProto, idOf, unread, answers, stored, pairs, crossed>>
  BY DEF I!Age, I!SweepScan, I!SweepReap, I!TrimOverCap, I!wire
<1>2. \A k \in DOMAIN pend' : k \in DOMAIN pend /\ pend'[k].x = pend[k].x
  <2>1. CASE I!Age
    BY <2>1 DEF I!Age
  <2>2. CASE ~I!Age
    BY <2>2 DEF I!SweepScan, I!SweepReap, I!TrimOverCap, I!Without
  <2> QED BY <2>1, <2>2
<1> QED BY <1>1, <1>2 DEF IdsSafe, IdsTyped, IdsNewest, IdsOnce, I!CrossedOnlyIfReused,
                          I!RequestPairedOnce

LEMMA IdsStore == ASSUME IdsSafe, NEW again \in BOOLEAN, I!StoreRequest(again) PROVE IdsSafe'
<1>1. PICK x \in unread :
        /\ \A y \in unread : x <= y
        /\ \A k \in DOMAIN pend' : \/ k \in DOMAIN pend /\ pend'[k].x = pend[k].x /\ k # idOf[x]
                                   \/ k = idOf[x] /\ pend'[k].x = x
                                   \/ pend' = pend
        /\ unread' = IF again THEN unread ELSE unread \ {x}
        /\ stored' = IF pend' = pend THEN stored ELSE stored \cup {x}
  BY IdsStored
<1>2. UNCHANGED <<idProto, idOf, answers, pairs, crossed>> /\ (again => idProto = "dns")
  BY DEF I!StoreRequest
<1>3. \A y \in DOMAIN idOf : y \in Nat
  BY DEF IdsSafe, IdsTyped
<1>4. IdsTyped'
  BY <1>1, <1>2 DEF IdsSafe, IdsTyped
<1>5. IdsNewest'
  BY <1>1, <1>2, <1>3 DEF IdsSafe, IdsTyped, IdsNewest
<1>6. IdsOnce'
  BY <1>1, <1>2 DEF IdsSafe, IdsTyped, IdsOnce
<1> QED BY <1>2, <1>4, <1>5, <1>6 DEF IdsSafe, I!CrossedOnlyIfReused, I!RequestPairedOnce

LEMMA IdsRead == ASSUME IdsSafe, NEW again \in BOOLEAN, I!ReadResponse(again) PROVE IdsSafe'
<1>1. UNCHANGED <<idProto, idOf, unread, stored>>
  BY DEF I!ReadResponse
<1>2. PICK x \in answers :
        /\ pend' = I!takePending(idOf[x]).pend
        /\ \E new \in SUBSET {<<q, x>> : q \in I!takePending(idOf[x]).x} :
             /\ pairs' = pairs \cup new
             /\ crossed' = crossed \cup {pr \in new : x \notin stored}
        /\ answers' \subseteq answers
  BY DEF I!ReadResponse
<1>3. PICK new \in SUBSET {<<q, x>> : q \in I!takePending(idOf[x]).x} :
             /\ pairs' = pairs \cup new
             /\ crossed' = crossed \cup {pr \in new : x \notin stored}
  BY <1>2
<1>4. /\ DOMAIN pend' = DOMAIN pend \ {idOf[x]}
      /\ \A k \in DOMAIN pend' : pend'[k] = pend[k]
  BY <1>2 DEF I!takePending, I!Without
<1>5. \A pr \in new : idOf[x] \in DOMAIN pend /\ pr = <<pend[idOf[x]].x, x>>
  BY <1>3 DEF I!takePending
<1>6. \A y \in DOMAIN idOf : y \in Nat
  BY DEF IdsSafe, IdsTyped
<1>7. IdsTyped'
  <2>1. \A pr \in new : pr[1] \in stored /\ pr[2] \in DOMAIN idOf
    BY <1>2, <1>5 DEF IdsSafe, IdsTyped
  <2> QED BY <1>1, <1>2, <1>3, <1>4, <2>1 DEF IdsSafe, IdsTyped
<1>8. IdsNewest'
  BY <1>1, <1>4 DEF IdsSafe, IdsNewest
<1>9. IdsOnce'
  <2>1. \A pr \in new, k \in DOMAIN pend' : pend'[k].x # pr[1]
    BY <1>4, <1>5 DEF IdsSafe, IdsTyped
  <2> QED BY <1>1, <1>3, <1>4, <2>1 DEF IdsSafe, IdsOnce
<1>10. I!CrossedOnlyIfReused'
  <2>1. ASSUME NEW pr \in new, pr[1] # pr[2]
        PROVE  idOf[pr[1]] = idOf[pr[2]] /\ (pr \in crossed' \/ pr[1] > pr[2])
    <3>1. pr[1] \in stored /\ pr[2] = x /\ idOf[pr[1]] = idOf[x] /\ pr[1] = pend[idOf[x]].x
          /\ idOf[x] \in DOMAIN pend
      BY <1>5 DEF IdsSafe, IdsTyped
    <3>2. CASE x \notin stored
      BY <1>3, <3>1, <3>2
    <3>3. CASE x \in stored
      <4>1. x <= pr[1]
        BY <3>1, <3>3 DEF IdsSafe, IdsNewest
      <4>2. x \in Nat /\ pr[1] \in Nat
        BY <1>6, <3>1, <3>3 DEF IdsSafe, IdsTyped
      <4> QED BY <2>1, <3>1, <4>1, <4>2
    <3> QED BY <3>2, <3>3
  <2> QED BY <1>1, <1>3, <2>1 DEF IdsSafe, I!CrossedOnlyIfReused
<1>11. I!RequestPairedOnce'
  <2> SUFFICES ASSUME idProto # "dns", NEW a \in pairs', NEW b \in pairs', a[1] = b[1]
               PROVE  a = b
    BY <1>1 DEF I!RequestPairedOnce
  <2>1. CASE a \in pairs /\ b \in pairs
    BY <2>1 DEF IdsSafe, I!RequestPairedOnce
  <2>2. CASE a \in new /\ b \in new
    BY <1>5, <2>2
  <2>3. ASSUME NEW c \in pairs, NEW d \in new PROVE c[1] # d[1]
    <3>1. idOf[x] \in DOMAIN pend /\ d[1] = pend[idOf[x]].x
      BY <1>5
    <3> QED BY <3>1 DEF IdsSafe, IdsOnce
  <2> QED BY <1>3, <2>1, <2>2, <2>3
<1> QED BY <1>7, <1>8, <1>9, <1>10, <1>11 DEF IdsSafe

LEMMA IdsNext == ASSUME IdsSafe, I!Next \/ UNCHANGED idVars PROVE IdsSafe'
<1>1. CASE UNCHANGED idVars
  BY <1>1 DEF idVars, IdsSafe, IdsTyped, IdsNewest, IdsOnce, I!CrossedOnlyIfReused, I!RequestPairedOnce
<1> QED BY <1>1, IdsSend, IdsSweep, IdsStore, IdsRead DEF I!Next

-----------------------------------------------------------------------------
(* The flow table.                                                         *)

Segment == [seq : Int, fresh : BOOLEAN]
Flow == [first : BOOLEAN, age : Int, l7 : BOOLEAN, emitted : BOOLEAN, closed : BOOLEAN,
         pkts : SUBSET Nat, next : [F!Sides -> Int], seg : [F!Sides -> Segment]]
Packet == [key : FlowKeys, side : F!Sides, kind : {"data", "syn", "close", "udp"},
           seq : Nat, ahead : BOOLEAN]
Reported == entries \cup toEmit

FlowsTyped ==
  /\ packets \in Nat /\ loop \in {"packet", "track", "reap"}
  /\ at \in [FlowKeys -> [F!Sides -> Nat]]
  /\ \A k \in DOMAIN flows : k \in FlowKeys /\ flows[k] \in Flow
  /\ loop = "track" => pkt \in Packet

\* The packets of two flows are different ones, and those of a flow that has not
\* been reported are in no entry; the packet in hand is nowhere yet.
FlowsApart ==
  /\ \A k \in DOMAIN flows : \A i \in flows[k].pkts : i <= packets
  /\ \A e \in Reported : \A i \in e.pkts : i \in Nat /\ i <= packets
  /\ loop = "track" => /\ \A k \in DOMAIN flows : packets \notin flows[k].pkts
                       /\ \A e \in Reported : packets \notin e.pkts
  /\ \A j, k \in DOMAIN flows : j # k => flows[j].pkts \cap flows[k].pkts = {}
  /\ \A k \in DOMAIN flows, e \in Reported :
       ~flows[k].emitted => flows[k].pkts \cap e.pkts = {}
  /\ F!PacketsReportedOnce

\* The mark of a dissected connection is on its flow, or the flow is gone.
FlowsMarked ==
  /\ \A k \in l7 \ gone : k \in DOMAIN flows /\ flows[k].l7
  /\ F!DissectedReportedOnlyIfGone

\* Where sequence numbers have neither wrapped nor started again, a flow expects
\* nothing beyond what its sides have sent, nor beyond a new segment in hand.
FlowsPlaced ==
  /\ \A k \in DOMAIN flows \ odd : \A s \in F!Sides : flows[k].next[s] <= at[k][s]
  /\ loop = "track" /\ pkt.kind = "data" /\ pkt.key \notin odd =>
       /\ pkt.seq + 1 <= at[pkt.key][pkt.side]
       /\ pkt.ahead /\ pkt.key \in DOMAIN flows => flows[pkt.key].next[pkt.side] <= pkt.seq
  /\ F!RetransmitsAreBehind

FlowsSafe == FlowsTyped /\ FlowsApart /\ FlowsMarked /\ FlowsPlaced

LEMMA FlowsInit == F!Init => FlowsSafe
<1> SUFFICES ASSUME F!Init PROVE FlowsSafe
  OBVIOUS
<1>1. DOMAIN flows = {} /\ Reported = {} /\ l7 = {} /\ early = {}
  BY DEF F!Init, Reported
<1>2. FlowsTyped
  BY <1>1 DEF F!Init, FlowsTyped
<1>3. FlowsApart
  BY <1>1 DEF F!Init, FlowsApart, F!PacketsReportedOnce, Reported
<1>4. FlowsMarked
  BY <1>1 DEF F!Init, FlowsMarked, F!DissectedReportedOnlyIfGone, Reported
<1>5. FlowsPlaced
  BY <1>1 DEF F!Init, FlowsPlaced, F!RetransmitsAreBehind
<1> QED BY <1>2, <1>3, <1>4, <1>5 DEF FlowsSafe

\* A flow that no packet has been counted in.
Empty(f) == f.pkts = {} /\ \A s \in F!Sides : f.next[s] = -1

LEMMA NewFlows ==
  /\ F!Placeholder \in Flow /\ Empty(F!Placeholder) /\ F!Placeholder.l7 /\ ~F!Placeholder.emitted
  /\ F!newFlow \in Flow /\ Empty(F!newFlow) /\ ~F!newFlow.emitted
  /\ ~F!newFlow.l7
<1>1. F!Placeholder \in Flow
  BY CaptureAssumption DEF F!FlowAssumption, F!Placeholder, Flow, Segment, F!NoSegment
<1>2. F!newFlow = [F!Placeholder EXCEPT !.first = TRUE, !.age = 0, !.l7 = FALSE]
  BY DEF F!newFlow
<1>3. Empty(F!Placeholder) /\ F!Placeholder.l7 /\ ~F!Placeholder.emitted
  BY DEF F!Placeholder, Empty
<1> HIDE DEF F!Placeholder
<1>4. F!newFlow \in Flow /\ ~F!newFlow.l7 /\ F!newFlow.emitted = F!Placeholder.emitted
      /\ F!newFlow.pkts = F!Placeholder.pkts /\ F!newFlow.next = F!Placeholder.next
  <2>1. ASSUME NEW f \in Flow, NEW g, g = [f EXCEPT !.first = TRUE, !.age = 0, !.l7 = FALSE]
        PROVE  g \in Flow /\ ~g.l7 /\ g.emitted = f.emitted /\ g.pkts = f.pkts /\ g.next = f.next
    <3>1. g = [first |-> TRUE, age |-> 0, l7 |-> FALSE, emitted |-> f.emitted,
               closed |-> f.closed, pkts |-> f.pkts, next |-> f.next, seg |-> f.seg]
      BY <2>1 DEF Flow
    <3>2. /\ f.emitted \in BOOLEAN /\ f.closed \in BOOLEAN /\ f.pkts \in SUBSET Nat
          /\ f.next \in [F!Sides -> Int] /\ f.seg \in [F!Sides -> Segment]
      BY DEF Flow
    <3>3. g \in Flow
      BY <3>1, <3>2 DEF Flow
    <3> QED BY <3>1, <3>3
  <2> QED BY <1>1, <1>2, <2>1
<1> QED BY <1>1, <1>3, <1>4 DEF Empty

\* The counts of every flow are what they were, or it is empty.
SameCounts ==
  \A k \in DOMAIN flows' :
    /\ k \in FlowKeys /\ flows'[k] \in Flow
    /\ \/ /\ k \in DOMAIN flows /\ flows'[k].pkts = flows[k].pkts
          /\ flows'[k].next = flows[k].next /\ (flows[k].emitted => flows'[k].emitted)
       \/ Empty(flows'[k])

\* f is in the table, unless it or another flow was evicted.
LEMMA FlowStored ==
  ASSUME FlowsSafe, NEW k \in FlowKeys, NEW f \in Flow, F!Store(k, f)
  PROVE  /\ \A j \in DOMAIN flows' : flows'[j] = (IF j = k THEN f ELSE flows[j])
                                    /\ j \in DOMAIN flows \cup {k}
         /\ gone \subseteq gone'
         /\ \A j \in (DOMAIN flows \cup {k}) \ DOMAIN flows' : j \in gone'
<1> DEFINE m == F!Put(flows, k, f)
<1>1. PICK o : flows' = F!Without(m, o) /\ gone' = gone \cup o
  BY DEF F!Store
<1> QED BY <1>1 DEF F!Without, F!Put

LEMMA FlowMarked ==
  ASSUME FlowsSafe, NEW k \in FlowKeys, F!markL7(k)
  PROVE  /\ SameCounts
         /\ \A j \in l7' \ gone' : j \in DOMAIN flows' /\ flows'[j].l7
         /\ \A j \in DOMAIN flows' : j # k => j \in DOMAIN flows
<1> DEFINE f == F!MarkedFlow(k)
           m == F!Put(flows, k, f)
<1>1. PICK o : flows' = F!Without(m, o) /\ gone' = (gone \ {k}) \cup o /\ l7' = l7 \cup {k}
  BY DEF F!markL7
<1>2. /\ f \in Flow /\ f.l7
      /\ \/ k \in DOMAIN flows /\ f.pkts = flows[k].pkts /\ f.next = flows[k].next
            /\ f.emitted = flows[k].emitted
         \/ Empty(f)
  <2>1. CASE k \in DOMAIN flows
    <3>1. flows[k] \in Flow /\ f = [flows[k] EXCEPT !.l7 = TRUE]
      BY <2>1 DEF FlowsSafe, FlowsTyped, F!MarkedFlow
    <3> QED BY <2>1, <3>1 DEF Flow
  <2>2. CASE k \notin DOMAIN flows
    <3>1. f = F!Placeholder
      BY <2>2 DEF F!MarkedFlow
    <3> QED BY <3>1, NewFlows
  <2> QED BY <2>1, <2>2
<1> HIDE DEF f
<1>3. DOMAIN flows' = (DOMAIN flows \cup {k}) \ o
      /\ \A j \in DOMAIN flows' : flows'[j] = IF j = k THEN f ELSE flows[j]
  BY <1>1 DEF F!Without, F!Put
<1>4. SameCounts
  BY <1>2, <1>3 DEF SameCounts, FlowsSafe, FlowsTyped
<1>5. ASSUME NEW j \in l7' \ gone' PROVE j \in DOMAIN flows' /\ flows'[j].l7
  BY <1>1, <1>2, <1>3 DEF FlowsSafe, FlowsMarked
<1> QED BY <1>3, <1>4, <1>5

\* What leaves the counts, the entries and the clock of packets alone keeps the
\* packets apart.
LEMMA ApartKept ==
  ASSUME FlowsSafe, SameCounts, UNCHANGED packets, Reported' \subseteq Reported,
         loop' = "track" => loop = "track"
  PROVE  FlowsApart'
<1>1. \A k \in DOMAIN flows' : \/ flows'[k].pkts = {}
                               \/ k \in DOMAIN flows /\ flows'[k].pkts = flows[k].pkts
                                  /\ (flows[k].emitted => flows'[k].emitted)
  BY DEF SameCounts, Empty
<1>2. F!PacketsReportedOnce'
  BY DEF FlowsSafe, FlowsApart, F!PacketsReportedOnce, Reported
<1> QED BY <1>1, <1>2 DEF FlowsSafe, FlowsApart

LEMMA PlacedKept ==
  ASSUME FlowsSafe, SameCounts, UNCHANGED <<at, odd, early>>,
         (loop' = "track" => loop = "track" /\ pkt' = pkt)
  PROVE  FlowsPlaced'
<1>1. \A k \in DOMAIN flows' : \/ \A s \in F!Sides : flows'[k].next[s] = -1
                               \/ k \in DOMAIN flows /\ flows'[k].next = flows[k].next
  BY DEF SameCounts, Empty
<1>2. \A k \in DOMAIN flows' \ odd : \A s \in F!Sides : flows'[k].next[s] <= at[k][s]
  <2>1. \A k \in DOMAIN flows' : \A s \in F!Sides : at[k][s] \in Nat
    BY DEF SameCounts, FlowsSafe, FlowsTyped
  <2> QED BY <1>1, <2>1 DEF FlowsSafe, FlowsPlaced
<1>3. loop' = "track" => pkt \in Packet
  BY DEF FlowsSafe, FlowsTyped
<1> QED BY <1>1, <1>2, <1>3 DEF FlowsSafe, FlowsPlaced, Packet, F!RetransmitsAreBehind

LEMMA TLSRequestSafe == ASSUME FlowsSafe, NEW k \in FlowKeys, F!TLSRequest(k) PROVE FlowsSafe'
<1>1. /\ F!markL7(k)
      /\ UNCHANGED <<loop, pkt, stale, toEmit, packets, at, entries, odd, early>>
  BY DEF F!TLSRequest
<1>2. SameCounts /\ \A j \in l7' \ gone' : j \in DOMAIN flows' /\ flows'[j].l7
  BY <1>1, FlowMarked
<1>3. FlowsApart'
  BY <1>1, <1>2, ApartKept DEF Reported
<1>4. FlowsPlaced'
  BY <1>1, <1>2, PlacedKept
<1>5. FlowsTyped'
  BY <1>1, <1>2 DEF FlowsSafe, FlowsTyped, SameCounts
<1>6. FlowsMarked'
  BY <1>1, <1>2 DEF FlowsSafe, FlowsMarked, F!DissectedReportedOnlyIfGone
<1> QED BY <1>3, <1>4, <1>5, <1>6 DEF FlowsSafe

LEMMA FlushSafe ==
  ASSUME FlowsSafe, F!FlushReap \/ F!FlushEmit \/ F!Tick PROVE FlowsSafe'
<1>1. /\ UNCHANGED <<pkt, packets, at, l7, odd, early>> /\ Reported' = Reported
      /\ loop' \in {"packet", "reap"}
  BY DEF F!FlushReap, F!FlushEmit, F!Tick, Reported
<1>2. /\ SameCounts /\ gone \subseteq gone'
      /\ \A k \in DOMAIN flows' : k \in DOMAIN flows /\ (flows[k].l7 => flows'[k].l7)
      /\ \A k \in DOMAIN flows \ DOMAIN flows' : k \in gone'
  <2>1. CASE F!FlushReap
    <3>1. PICK dead : flows' = F!Without(flows, dead) /\ gone' = gone \cup dead
      BY <2>1 DEF F!FlushReap
    <3> QED BY <3>1 DEF F!Without, SameCounts, FlowsSafe, FlowsTyped
  <2>2. CASE F!FlushEmit
    BY <2>2 DEF F!FlushEmit, SameCounts, FlowsSafe, FlowsTyped
  <2>3. CASE F!Tick
    <3>1. gone' = gone /\ DOMAIN flows' = DOMAIN flows
      BY <2>3 DEF F!Tick
    <3>2. ASSUME NEW k \in DOMAIN flows
          PROVE  /\ flows'[k] \in Flow /\ flows'[k].pkts = flows[k].pkts
                 /\ flows'[k].next = flows[k].next /\ flows'[k].emitted = flows[k].emitted
                 /\ flows'[k].l7 = flows[k].l7
      <4> DEFINE f == flows[k]
                 a == IF f.age > Idle THEN f.age ELSE f.age + 1
                 b == [s \in F!Sides |-> [f.seg[s] EXCEPT !.fresh = FALSE]]
      <4>1. f \in Flow
        BY DEF FlowsSafe, FlowsTyped
      <4>2. flows'[k] = [f EXCEPT !.age = a, !.seg = b]
        BY <2>3 DEF F!Tick
      <4>3. a \in Int /\ b \in [F!Sides -> Segment]
        <5>1. f.age \in Int /\ f.seg \in [F!Sides -> Segment]
          BY <4>1 DEF Flow
        <5>2. \A t \in Segment : [t EXCEPT !.fresh = FALSE] \in Segment
          BY DEF Segment
        <5> QED BY <5>1, <5>2
      <4> HIDE DEF f, a, b
      <4>4. flows'[k] \in Flow /\ flows'[k].pkts = f.pkts /\ flows'[k].next = f.next
            /\ flows'[k].emitted = f.emitted /\ flows'[k].l7 = f.l7
        BY <4>1, <4>2, <4>3 DEF Flow
      <4> QED BY <4>4 DEF f
    <3> QED BY <3>1, <3>2 DEF SameCounts, FlowsSafe, FlowsTyped
  <2> QED BY <2>1, <2>2, <2>3
<1>3. FlowsApart'
  BY <1>1, <1>2, ApartKept
<1>4. FlowsPlaced'
  BY <1>1, <1>2, PlacedKept
<1>5. FlowsTyped'
  BY <1>1, <1>2 DEF FlowsSafe, FlowsTyped, SameCounts
<1>6. FlowsMarked'
  BY <1>1, <1>2 DEF FlowsSafe, FlowsMarked, F!DissectedReportedOnlyIfGone, Reported
<1> QED BY <1>3, <1>4, <1>5, <1>6 DEF FlowsSafe

LEMMA FlushScanSafe == ASSUME FlowsSafe, F!FlushScan PROVE FlowsSafe'
<1> DEFINE told == {k \in DOMAIN flows : F!FlushReports(flows, k)}
<1>1. /\ UNCHANGED <<pkt, packets, at, entries, l7, gone, odd, early>> /\ loop' = "reap"
      /\ DOMAIN flows' = DOMAIN flows
      /\ toEmit' = {F!emitFlow(k, flows[k], "idle") : k \in told}
  BY DEF F!FlushScan
<1>2. ASSUME NEW k \in DOMAIN flows
      PROVE  /\ flows'[k] \in Flow /\ flows'[k].pkts = flows[k].pkts
             /\ flows'[k].next = flows[k].next /\ flows'[k].l7 = flows[k].l7
             /\ flows'[k].emitted = (flows[k].emitted \/ k \in told)
  <2> DEFINE f == flows[k]
             b == f.emitted \/ F!FlushReports(flows, k)
  <2>1. f \in Flow /\ b \in BOOLEAN
    BY DEF FlowsSafe, FlowsTyped, Flow, F!FlushReports
  <2>2. flows'[k] = [f EXCEPT !.emitted = b]
    BY DEF F!FlushScan
  <2>3. b = (f.emitted \/ k \in told)
    OBVIOUS
  <2> HIDE DEF f, b, told
  <2>4. flows'[k] \in Flow /\ flows'[k].pkts = f.pkts /\ flows'[k].next = f.next
        /\ flows'[k].emitted = b /\ flows'[k].l7 = f.l7
    BY <2>1, <2>2 DEF Flow
  <2> QED BY <2>3, <2>4 DEF f
<1>3. SameCounts
  BY <1>1, <1>2 DEF SameCounts, FlowsSafe, FlowsTyped, Flow
<1>4. ASSUME NEW e \in toEmit'
      PROVE  \E k \in told : /\ e.pkts = flows[k].pkts /\ (e.dissected => k \in l7)
                          /\ (k \in gone => e.flowLost) /\ e = F!emitFlow(k, flows[k], "idle")
  <2>1. PICK k \in told : e = F!emitFlow(k, flows[k], "idle")
    BY <1>1
  <2>2. e.pkts = flows[k].pkts /\ (e.dissected => k \in l7) /\ (k \in gone => e.flowLost)
    BY <2>1 DEF F!emitFlow
  <2> QED BY <2>1, <2>2
<1>5. \A k \in told : ~flows[k].emitted /\ ~flows[k].l7
  BY DEF F!FlushReports
<1> HIDE DEF told
<1>6. FlowsTyped'
  BY <1>1, <1>3 DEF FlowsSafe, FlowsTyped, SameCounts
<1>7. FlowsPlaced'
  BY <1>1, <1>3, PlacedKept
<1>8. FlowsMarked'
  <2>1. \A e \in toEmit' : e.dissected => e.flowLost
    BY <1>4, <1>5 DEF FlowsSafe, FlowsMarked
  <2> QED BY <1>1, <1>2, <2>1 DEF FlowsSafe, FlowsMarked, F!DissectedReportedOnlyIfGone
<1>9. FlowsApart'
  <2>1. /\ \A e \in toEmit' : \A i \in e.pkts : i \in Nat /\ i <= packets
        /\ \A e \in toEmit', a \in entries : e.pkts \cap a.pkts = {}
        /\ \A e, a \in toEmit' : e # a => e.pkts \cap a.pkts = {}
    <3>1. \A k \in DOMAIN flows : flows[k].pkts \in SUBSET Nat
      BY DEF FlowsSafe, FlowsTyped, Flow
    <3>2. told \subseteq DOMAIN flows
      BY DEF told
    <3>3. \A e \in toEmit' : \A i \in e.pkts : i \in Nat /\ i <= packets
      BY <1>4, <3>1, <3>2 DEF FlowsSafe, FlowsApart
    <3>4. \A e \in toEmit', a \in entries : e.pkts \cap a.pkts = {}
      BY <1>4, <1>5, <3>2 DEF FlowsSafe, FlowsApart, Reported
    <3>5. ASSUME NEW e \in toEmit', NEW a \in toEmit', e # a PROVE e.pkts \cap a.pkts = {}
      <4>1. PICK k \in told : e.pkts = flows[k].pkts /\ e = F!emitFlow(k, flows[k], "idle")
        BY <1>4
      <4>2. PICK j \in told : a.pkts = flows[j].pkts /\ a = F!emitFlow(j, flows[j], "idle")
        BY <1>4
      <4>3. k # j
        BY <3>5, <4>1, <4>2
      <4> QED BY <3>2, <4>1, <4>2, <4>3 DEF FlowsSafe, FlowsApart
    <3> QED BY <3>3, <3>4, <3>5
  <2>2. \A k \in DOMAIN flows, e \in toEmit' : ~flows'[k].emitted => flows[k].pkts \cap e.pkts = {}
    <3> SUFFICES ASSUME NEW k \in DOMAIN flows, NEW e \in toEmit', ~flows'[k].emitted
                 PROVE  flows[k].pkts \cap e.pkts = {}
      OBVIOUS
    <3>1. PICK j \in told : e.pkts = flows[j].pkts
      BY <1>4
    <3>2. k \notin told /\ j \in DOMAIN flows
      BY <1>2 DEF told
    <3> QED BY <3>1, <3>2 DEF FlowsSafe, FlowsApart
  <2>3. F!PacketsReportedOnce'
    BY <1>1, <2>1 DEF FlowsSafe, FlowsApart, F!PacketsReportedOnce
  <2>4. /\ \A k \in DOMAIN flows : \A i \in flows[k].pkts : i <= packets
        /\ \A j, k \in DOMAIN flows : j # k => flows[j].pkts \cap flows[k].pkts = {}
        /\ \A e \in entries : \A i \in e.pkts : i \in Nat /\ i <= packets
        /\ \A k \in DOMAIN flows, e \in entries :
             ~flows'[k].emitted => flows[k].pkts \cap e.pkts = {}
    BY <1>2 DEF FlowsSafe, FlowsApart, Reported
  <2> QED BY <1>1, <1>2, <2>1, <2>2, <2>3, <2>4 DEF FlowsApart, Reported
<1> QED BY <1>6, <1>7, <1>8, <1>9 DEF FlowsSafe

LEMMA RouteSafe == ASSUME FlowsSafe, NEW k \in FlowKeys, F!Route(k) PROVE FlowsSafe'
<1>1. PICK s \in F!Sides, kind \in {"data", "syn", "close", "udp"}, off \in -2 .. 1 :
        LET pos == at[k][s] + off IN
        /\ pos >= 0 /\ (kind # "data" => off = 0)
        /\ pkt' = [key |-> k, side |-> s, kind |-> kind, seq |-> pos % SeqSpace, ahead |-> off >= 0]
        /\ at' = CASE kind = "data" /\ off >= 0 -> [at EXCEPT ![k][s] = pos + 1]
                   [] kind = "syn" -> [at EXCEPT ![k] = [t \in F!Sides |-> 0]]
                   [] OTHER -> at
        /\ odd' = IF pos >= SeqSpace \/ (kind = "syn" /\ at[k] # [t \in F!Sides |-> 0])
                  THEN odd \cup {k} ELSE odd
        /\ \/ kind = "data" /\ s = "client" /\ F!markL7(k)
           \/ UNCHANGED <<flows, gone, l7>>
  BY DEF F!Route
<1> DEFINE pos == at[k][s] + off
<1>2. UNCHANGED <<stale, toEmit, entries, early>> /\ packets' = packets + 1 /\ loop' = "track"
  BY DEF F!Route
<1>3. /\ SameCounts
      /\ \A j \in l7' \ gone' : j \in DOMAIN flows' /\ flows'[j].l7
  <2>1. CASE F!markL7(k)
    BY <2>1, FlowMarked
  <2>2. CASE UNCHANGED <<flows, gone, l7>>
    BY <2>2 DEF SameCounts, FlowsSafe, FlowsTyped, FlowsMarked
  <2> QED BY <1>1, <2>1, <2>2
<1>4. /\ at \in [FlowKeys -> [F!Sides -> Nat]] /\ packets \in Nat /\ SeqSpace \in Nat \ {0}
      /\ at[k] \in [F!Sides -> Nat] /\ at[k][s] \in Nat /\ off \in Int
  BY CaptureAssumption DEF FlowsSafe, FlowsTyped, F!FlowAssumption
<1>5. pos \in Nat /\ pos % SeqSpace \in Nat
  BY <1>1, <1>4
<1>6. pos < SeqSpace => pos % SeqSpace = pos
  <2> HIDE DEF pos
  <2> QED BY <1>4, <1>5
<1>7. pkt' = [key |-> k, side |-> s, kind |-> kind, seq |-> pos % SeqSpace, ahead |-> off >= 0]
  BY <1>1
<1>8. /\ at' \in [FlowKeys -> [F!Sides -> Nat]]
      /\ kind = "data" => at'[k][s] >= pos + 1
      /\ \A j \in FlowKeys \ odd' : \A t \in F!Sides : at[j][t] <= at'[j][t]
  <2>1. CASE kind = "data" /\ off >= 0
    <3>1. at' = [at EXCEPT ![k][s] = pos + 1]
      BY <1>1, <2>1
    <3>2. at' \in [FlowKeys -> [F!Sides -> Nat]] /\ at'[k][s] = pos + 1
          /\ \A j \in FlowKeys, t \in F!Sides : <<j, t>> # <<k, s>> => at'[j][t] = at[j][t]
      BY <1>4, <1>5, <3>1
    <3>3. at[k][s] <= pos + 1
      BY <1>4, <2>1
    <3> HIDE DEF pos
    <3>4. ASSUME NEW j \in FlowKeys, NEW t \in F!Sides PROVE at[j][t] <= at'[j][t]
      <4>1. at[j][t] \in Nat
        BY <1>4
      <4> QED BY <3>2, <3>3, <4>1
    <3> QED BY <1>5, <3>2, <3>4
  <2>2. CASE kind = "data" /\ ~(off >= 0)
    <3>1. at' = at /\ off < 0
      BY <1>1, <1>4, <2>2
    <3>2. \A j \in FlowKeys, t \in F!Sides : at[j][t] \in Nat
      BY <1>4
    <3> QED BY <1>4, <3>1, <3>2
  <2>3. CASE kind = "syn"
    <3>1. at' = [at EXCEPT ![k] = [t \in F!Sides |-> 0]]
      BY <1>1, <2>3
    <3>2. k \notin odd' => at[k] = [t \in F!Sides |-> 0]
      BY <1>1, <2>3
    <3>3. \A j \in FlowKeys, t \in F!Sides : at[j][t] \in Nat
      BY <1>4
    <3> QED BY <1>4, <2>3, <3>1, <3>2, <3>3
  <2>4. CASE kind \notin {"data", "syn"}
    <3>1. at' = at
      BY <1>1, <2>4
    <3>2. \A j \in FlowKeys, t \in F!Sides : at[j][t] \in Nat
      BY <1>4
    <3> QED BY <1>4, <2>4, <3>1, <3>2
  <2> QED BY <2>1, <2>2, <2>3, <2>4
<1>9. odd \subseteq odd' /\ (k \notin odd' => pos < SeqSpace)
  BY <1>1, <1>4, <1>5
<1>10. pkt' \in Packet /\ pkt'.key = k /\ pkt'.side = s /\ pkt'.kind = kind
       /\ pkt'.seq = pos % SeqSpace /\ (pkt'.ahead => off >= 0)
  <2> HIDE DEF pos
  <2>1. (off >= 0) \in BOOLEAN
    OBVIOUS
  <2>2. pkt' \in Packet
    BY <1>5, <1>7, <2>1 DEF Packet
  <2> QED BY <1>7, <2>2
<1>11. off >= 0 => at[k][s] <= pos
  BY <1>4
<1> HIDE DEF pos
<1>12. FlowsTyped'
  BY <1>2, <1>3, <1>4, <1>8, <1>10 DEF FlowsTyped, SameCounts
<1>13. FlowsMarked'
  BY <1>2, <1>3 DEF FlowsSafe, FlowsMarked, F!DissectedReportedOnlyIfGone
<1>14. FlowsApart'
  <2>1. \A j \in DOMAIN flows' : \/ flows'[j].pkts = {}
                                 \/ j \in DOMAIN flows /\ flows'[j].pkts = flows[j].pkts
                                    /\ (flows[j].emitted => flows'[j].emitted)
    BY <1>3 DEF SameCounts, Empty
  <2>2. \A j \in DOMAIN flows : flows[j].pkts \in SUBSET Nat
    BY DEF FlowsSafe, FlowsTyped, Flow
  <2>3. Reported' = Reported /\ F!PacketsReportedOnce'
    BY <1>2 DEF FlowsSafe, FlowsApart, F!PacketsReportedOnce, Reported
  <2>4. \A j \in DOMAIN flows' : \A i \in flows'[j].pkts : i \in Nat /\ i <= packets
    BY <2>1, <2>2 DEF FlowsSafe, FlowsApart
  <2>5. \A e \in Reported : \A i \in e.pkts : i \in Nat /\ i <= packets
    BY DEF FlowsSafe, FlowsApart
  <2>6. \A i \in Nat : i <= packets => i <= packets + 1 /\ i # packets + 1
    BY <1>4
  <2>7. /\ \A j, l \in DOMAIN flows' : j # l => flows'[j].pkts \cap flows'[l].pkts = {}
        /\ \A j \in DOMAIN flows', e \in Reported :
             ~flows'[j].emitted => flows'[j].pkts \cap e.pkts = {}
    BY <2>1 DEF FlowsSafe, FlowsApart
  <2> QED BY <1>2, <2>3, <2>4, <2>5, <2>6, <2>7 DEF FlowsApart
<1>15. FlowsPlaced'
  <2>1. \A j \in DOMAIN flows' : /\ j \in FlowKeys
                                 /\ \/ \A t \in F!Sides : flows'[j].next[t] = -1
                                    \/ j \in DOMAIN flows /\ flows'[j].next = flows[j].next
                                       /\ flows[j].next \in [F!Sides -> Int]
    BY <1>3 DEF SameCounts, Empty, FlowsSafe, FlowsTyped, Flow
  <2>2. ASSUME NEW j \in DOMAIN flows' \ odd', NEW t \in F!Sides
        PROVE  flows'[j].next[t] <= at[j][t]
    <3>1. at[j][t] \in Nat /\ j \notin odd
      BY <1>4, <1>9, <2>1
    <3> QED BY <2>1, <3>1 DEF FlowsSafe, FlowsPlaced
  <2>3. ASSUME NEW j \in DOMAIN flows' \ odd', NEW t \in F!Sides
        PROVE  flows'[j].next[t] <= at'[j][t]
    <3>1. at[j][t] \in Nat /\ at'[j][t] \in Nat /\ at[j][t] <= at'[j][t]
      BY <1>4, <1>8, <2>1
    <3>2. flows'[j].next[t] \in Int
      BY <2>1
    <3> QED BY <2>2, <3>1, <3>2
  <2>4. ASSUME kind = "data", k \notin odd'
        PROVE  /\ pkt'.seq + 1 <= at'[k][s]
               /\ pkt'.ahead /\ k \in DOMAIN flows' => flows'[k].next[s] <= pkt'.seq
    <3>1. pkt'.seq = pos /\ at'[k][s] >= pos + 1 /\ at'[k][s] \in Nat
      BY <1>4, <1>6, <1>8, <1>9, <1>10, <2>4
    <3>2. ASSUME pkt'.ahead, k \in DOMAIN flows' PROVE flows'[k].next[s] <= pkt'.seq
      <4>1. flows'[k].next[s] <= at[k][s] /\ at[k][s] <= pos
        BY <1>10, <1>11, <2>2, <2>4, <3>2
      <4>2. flows'[k].next[s] \in Int
        BY <2>1, <3>2
      <4> QED BY <1>4, <1>5, <3>1, <4>1, <4>2
    <3> QED BY <1>5, <3>1, <3>2
  <2>5. F!RetransmitsAreBehind'
    BY <1>2, <1>9 DEF FlowsSafe, FlowsPlaced, F!RetransmitsAreBehind
  <2> QED BY <1>2, <1>10, <2>3, <2>4, <2>5 DEF FlowsPlaced
<1> QED BY <1>12, <1>13, <1>14, <1>15 DEF FlowsSafe

\* f is the flow of key k: what the table has, or a new one.
FlowFor(k, f) ==
  /\ f \in Flow
  /\ IF k \in DOMAIN flows
     THEN /\ f.pkts = flows[k].pkts /\ f.next = flows[k].next
          /\ f.emitted = flows[k].emitted /\ f.l7 = flows[k].l7
     ELSE Empty(f) /\ ~f.emitted /\ ~f.l7

\* What the updates of a flow leave.
LEMMA FlowAged ==
  ASSUME NEW f \in Flow, NEW P \in SUBSET Nat, NEW g, g = [f EXCEPT !.age = 0, !.pkts = P]
  PROVE  g \in Flow /\ g.pkts = P /\ g.next = f.next /\ g.l7 = f.l7 /\ g.emitted = f.emitted
<1>1. g = [first |-> f.first, age |-> 0, l7 |-> f.l7, emitted |-> f.emitted, closed |-> f.closed,
           pkts |-> P, next |-> f.next, seg |-> f.seg]
  BY DEF Flow
<1>2. /\ f.first \in BOOLEAN /\ f.l7 \in BOOLEAN /\ f.emitted \in BOOLEAN /\ f.closed \in BOOLEAN
      /\ f.next \in [F!Sides -> Int] /\ f.seg \in [F!Sides -> Segment]
  BY DEF Flow
<1>3. g \in Flow
  BY <1>1, <1>2 DEF Flow
<1> QED BY <1>1, <1>3

LEMMA FlowReported ==
  ASSUME NEW f \in Flow, NEW b \in BOOLEAN, NEW g, g = [f EXCEPT !.emitted = b]
  PROVE  g \in Flow /\ g.pkts = f.pkts /\ g.next = f.next /\ g.l7 = f.l7 /\ g.emitted = b
BY DEF Flow

\* The packet in hand is counted in its flow, which may be reported with it.
LEMMA Tracked ==
  ASSUME FlowsSafe, loop = "track", NEW k \in FlowKeys, NEW f, FlowFor(k, f),
         NEW g \in Flow, F!Store(k, g),
         g.pkts \subseteq f.pkts \cup {packets}, g.l7 = f.l7, f.emitted => g.emitted,
         k \notin odd => \A t \in F!Sides : g.next[t] <= at[k][t],
         loop' = "packet", UNCHANGED <<packets, at, l7, odd, toEmit>>,
         NEW news, entries' = entries \cup news,
         \A d, e \in news : d = e,
         \A e \in news : /\ e.pkts \subseteq f.pkts \cup {packets} /\ ~f.emitted /\ g.emitted
                         /\ ~f.l7 /\ (e.dissected => k \in l7) /\ (k \in gone => e.flowLost),
         early' \subseteq odd
  PROVE  FlowsSafe'
<1>1. /\ \A j \in DOMAIN flows' : flows'[j] = (IF j = k THEN g ELSE flows[j])
                                 /\ j \in DOMAIN flows \cup {k}
      /\ gone \subseteq gone'
      /\ \A j \in (DOMAIN flows \cup {k}) \ DOMAIN flows' : j \in gone'
  BY FlowStored
<1>2. FlowsTyped'
  BY <1>1 DEF FlowsSafe, FlowsTyped
<1>3. FlowsMarked'
  <2>1. \A j \in l7' \ gone' : j \in DOMAIN flows' /\ flows'[j].l7
    BY <1>1 DEF FlowsSafe, FlowsMarked, FlowFor
  <2>2. \A e \in news : e.dissected => e.flowLost
    BY DEF FlowsSafe, FlowsMarked, FlowFor
  <2> QED BY <2>1, <2>2 DEF FlowsSafe, FlowsMarked, F!DissectedReportedOnlyIfGone
<1>4. FlowsPlaced'
  BY <1>1 DEF FlowsSafe, FlowsPlaced, F!RetransmitsAreBehind
<1>5. FlowsApart'
  <2>1. f.pkts = {} \/ (k \in DOMAIN flows /\ f.pkts = flows[k].pkts /\ f.emitted = flows[k].emitted)
    BY DEF FlowFor, Empty
  <2>2. Reported' = Reported \cup news /\ packets \in Nat
    BY DEF Reported, FlowsSafe, FlowsTyped
  <2>3. \A i \in f.pkts : i \in Nat /\ i <= packets /\ i # packets
    BY <2>1 DEF FlowsSafe, FlowsApart, FlowsTyped, Flow
  <2>4. /\ \A j \in DOMAIN flows' : \A i \in flows'[j].pkts : i <= packets
        /\ \A e \in Reported' : \A i \in e.pkts : i \in Nat /\ i <= packets
    BY <1>1, <2>2, <2>3 DEF FlowsSafe, FlowsApart
  <2>5. \A j \in DOMAIN flows \ {k} : flows[j].pkts \cap (f.pkts \cup {packets}) = {}
    BY <2>1 DEF FlowsSafe, FlowsApart
  <2>6. \A j, l \in DOMAIN flows' : j # l => flows'[j].pkts \cap flows'[l].pkts = {}
    BY <1>1, <2>5 DEF FlowsSafe, FlowsApart
  <2>7. ~f.emitted => \A e \in Reported : (f.pkts \cup {packets}) \cap e.pkts = {}
    BY <2>1 DEF FlowsSafe, FlowsApart
  <2>8. \A j \in DOMAIN flows', e \in Reported' :
          ~flows'[j].emitted => flows'[j].pkts \cap e.pkts = {}
    <3> SUFFICES ASSUME NEW j \in DOMAIN flows', NEW e \in Reported', ~flows'[j].emitted
                 PROVE  flows'[j].pkts \cap e.pkts = {}
      OBVIOUS
    <3>1. CASE j = k
      BY <1>1, <2>2, <2>7, <3>1
    <3>2. CASE j # k /\ e \in Reported
      BY <1>1, <3>2 DEF FlowsSafe, FlowsApart
    <3>3. CASE j # k /\ e \in news
      BY <1>1, <2>5, <3>3
    <3> QED BY <2>2, <3>1, <3>2, <3>3
  <2>9. F!PacketsReportedOnce'
    <3> SUFFICES ASSUME NEW a \in Reported', NEW b \in Reported', a # b
                 PROVE  a.pkts \cap b.pkts = {}
      BY DEF F!PacketsReportedOnce, Reported
    <3>1. CASE a \in Reported /\ b \in Reported
      BY <3>1 DEF FlowsSafe, FlowsApart, F!PacketsReportedOnce, Reported
    <3>2. CASE a \in news /\ b \in Reported
      BY <2>7, <3>2
    <3>3. CASE b \in news /\ a \in Reported
      BY <2>7, <3>3
    <3> QED BY <2>2, <3>1, <3>2, <3>3
  <2> QED BY <2>4, <2>6, <2>8, <2>9 DEF FlowsApart
<1> QED BY <1>2, <1>3, <1>4, <1>5 DEF FlowsSafe

LEMMA TrackUDPSafe == ASSUME FlowsSafe, F!trackUDP PROVE FlowsSafe'
<1> DEFINE k == pkt.key
           f == IF k \in DOMAIN flows THEN flows[k] ELSE F!newFlow
           g == [f EXCEPT !.age = 0, !.pkts = @ \cup {packets}]
<1>1. /\ loop = "track" /\ loop' = "packet" /\ F!Store(k, g)
      /\ UNCHANGED <<toEmit, packets, at, entries, l7, odd, early>>
  BY DEF F!trackUDP
<1>2. k \in FlowKeys /\ packets \in Nat
  BY <1>1 DEF FlowsSafe, FlowsTyped, Packet
<1>3. FlowFor(k, f)
  BY NewFlows DEF FlowFor, FlowsSafe, FlowsTyped
<1> HIDE DEF k, f
<1>4. g \in Flow /\ g.pkts = f.pkts \cup {packets} /\ g.l7 = f.l7 /\ g.emitted = f.emitted
      /\ g.next = f.next
  <2>1. f \in Flow
    BY <1>3 DEF FlowFor
  <2>2. f.pkts \in SUBSET Nat
    BY <2>1 DEF Flow
  <2> DEFINE P == f.pkts \cup {packets}
  <2>3. P \in SUBSET Nat
    BY <1>2, <2>2
  <2>4. g = [f EXCEPT !.age = 0, !.pkts = P]
    OBVIOUS
  <2> HIDE DEF g, P
  <2>5. g \in Flow /\ g.pkts = P /\ g.next = f.next /\ g.l7 = f.l7 /\ g.emitted = f.emitted
    BY ONLY <2>1, <2>3, <2>4, FlowAged, ZenonT(60)
  <2> QED BY <2>5 DEF P
<1>5. k \notin odd => \A t \in F!Sides : f.next[t] <= at[k][t]
  <2>1. \A t \in F!Sides : at[k][t] \in Nat
    BY <1>2 DEF FlowsSafe, FlowsTyped
  <2>2. CASE k \in DOMAIN flows
    BY <1>3, <2>2 DEF FlowFor, FlowsSafe, FlowsPlaced
  <2>3. CASE k \notin DOMAIN flows
    BY <1>3, <2>1, <2>3 DEF FlowFor, Empty
  <2> QED BY <2>2, <2>3
<1>6. early' \subseteq odd
  BY <1>1 DEF FlowsSafe, FlowsPlaced, F!RetransmitsAreBehind
<1> HIDE DEF g
<1> DEFINE news == {}
<1>7. /\ entries' = entries \cup news /\ \A d, e \in news : d = e
      /\ \A e \in news : /\ e.pkts \subseteq f.pkts \cup {packets} /\ ~f.emitted /\ g.emitted
                          /\ ~f.l7 /\ (e.dissected => k \in l7) /\ (k \in gone => e.flowLost)
  BY <1>1
<1>8. /\ g.pkts \subseteq f.pkts \cup {packets} /\ (f.emitted => g.emitted)
      /\ k \notin odd => \A t \in F!Sides : g.next[t] <= at[k][t]
  BY <1>4, <1>5
<1> HIDE DEF news
<1> QED BY <1>1, <1>2, <1>3, <1>4, <1>6, <1>7, <1>8, Tracked

LEMMA FlowOfFor == ASSUME FlowsSafe, loop = "track" PROVE FlowFor(pkt.key, F!FlowOf(pkt))
<1> DEFINE k == pkt.key
<1>1. CASE k \notin DOMAIN flows
  <2>1. F!FlowOf(pkt) = F!newFlow
    BY <1>1 DEF F!FlowOf
  <2> QED BY <1>1, <2>1, NewFlows DEF FlowFor
<1>2. CASE k \in DOMAIN flows
  <2> DEFINE g == F!FlowOf(pkt)
  <2>1. flows[k] \in Flow
    BY <1>2 DEF FlowsSafe, FlowsTyped
  <2>2. g = [flows[k] EXCEPT !.first = TRUE]
    BY <1>2 DEF F!FlowOf
  <2> HIDE DEF g
  <2>3. g \in Flow /\ g.pkts = flows[k].pkts /\ g.next = flows[k].next
        /\ g.l7 = flows[k].l7 /\ g.emitted = flows[k].emitted
    BY <2>1, <2>2 DEF Flow
  <2>4. FlowFor(k, g)
    BY <1>2, <2>3 DEF FlowFor
  <2> QED BY <2>4 DEF g
<1> QED BY <1>1, <1>2

LEMMA TrackTCPSafe == ASSUME FlowsSafe, F!trackTCP PROVE FlowsSafe'
<1> DEFINE k == pkt.key
           f == F!FlowOf(pkt)
           c == F!Counted(f, pkt)
           seen == pkt.kind = "data" /\ F!seenRecently(f, pkt)
           told == ~seen /\ F!ToReport(c)
           g == IF seen THEN [f EXCEPT !.age = 0] ELSE [c EXCEPT !.emitted = @ \/ F!ToReport(c)]
           news == IF told THEN {F!emitFlow(k, c, "close")} ELSE {}
           sg == IF pkt.kind = "data" THEN [seq |-> pkt.seq, fresh |-> TRUE] ELSE f.seg[pkt.side]
           nx == IF pkt.kind # "data" \/ F!Retransmitted(f, pkt) THEN f.next[pkt.side]
                 ELSE (pkt.seq + 1) % SeqSpace
<1>1. /\ loop = "track" /\ loop' = "packet" /\ UNCHANGED <<toEmit, packets, at, l7, odd>>
  BY DEF F!trackTCP
<1>2. F!Store(k, g) /\ entries' = entries \cup news
  BY DEF F!trackTCP
<1>3. early' \subseteq early \cup {k}
      /\ (k \in early' \ early => F!Retransmitted(f, pkt) /\ pkt.ahead)
  BY DEF F!trackTCP
<1>4. /\ pkt \in Packet /\ k \in FlowKeys /\ pkt.side \in F!Sides /\ pkt.seq \in Nat
      /\ packets \in Nat /\ SeqSpace \in Nat \ {0}
  BY <1>1, CaptureAssumption DEF FlowsSafe, FlowsTyped, Packet, F!FlowAssumption
<1>5. FlowFor(k, f) /\ f \in Flow
  BY <1>1, FlowOfFor DEF FlowFor
<1>6. \A t \in F!Sides : at[k][t] \in Nat
  BY <1>4 DEF FlowsSafe, FlowsTyped
<1>7. k \notin odd => \A t \in F!Sides : f.next[t] <= at[k][t]
  <2> HIDE DEF f
  <2> QED BY <1>5, <1>6 DEF FlowFor, Empty, FlowsSafe, FlowsPlaced
<1>8. /\ f.pkts \cup {packets} \in SUBSET Nat /\ f.next \in [F!Sides -> Int]
      /\ f.seg \in [F!Sides -> Segment]
      /\ f.emitted \in BOOLEAN /\ f.closed \in BOOLEAN /\ f.l7 \in BOOLEAN
  <2> HIDE DEF f
  <2> QED BY <1>4, <1>5 DEF Flow
<1>9. c = [f EXCEPT !.age = 0, !.pkts = f.pkts \cup {packets}, !.seg[pkt.side] = sg,
                    !.next[pkt.side] = nx, !.closed = f.closed \/ pkt.kind = "close"]
  BY DEF F!Counted
<1>10. sg \in Segment /\ nx \in Int /\ (pkt.seq + 1) % SeqSpace <= pkt.seq + 1
  <2>1. f.seg[pkt.side] \in Segment /\ f.next[pkt.side] \in Int
    BY <1>4, <1>8
  <2>2. [seq |-> pkt.seq, fresh |-> TRUE] \in Segment
    BY <1>4 DEF Segment
  <2>3. (pkt.seq + 1) % SeqSpace \in Int /\ (pkt.seq + 1) % SeqSpace <= pkt.seq + 1
    <3>1. pkt.seq + 1 \in Nat
      BY <1>4
    <3>2. \A p \in Nat : p % SeqSpace \in Int /\ p % SeqSpace <= p
      BY <1>4
    <3> QED BY <3>1, <3>2
  <2> QED BY <2>1, <2>2, <2>3
<1>11. k \notin odd => nx <= at[k][pkt.side]
  <2> SUFFICES ASSUME k \notin odd PROVE nx <= at[k][pkt.side]
    OBVIOUS
  <2>1. CASE pkt.kind = "data" /\ ~F!Retransmitted(f, pkt)
    <3>1. pkt.seq + 1 <= at[k][pkt.side]
      BY <1>1, <2>1 DEF FlowsSafe, FlowsPlaced
    <3>2. nx = (pkt.seq + 1) % SeqSpace
      BY <2>1
    <3> HIDE DEF nx, f
    <3> QED BY <1>4, <1>6, <1>10, <3>1, <3>2
  <2>2. CASE ~(pkt.kind = "data" /\ ~F!Retransmitted(f, pkt))
    <3>1. nx = f.next[pkt.side]
      BY <2>2
    <3> QED BY <1>4, <1>7, <3>1
  <2> QED BY <2>1, <2>2
<1>12. ASSUME F!Retransmitted(f, pkt), pkt.ahead PROVE k \in odd
  <2>1. pkt.kind = "data" /\ f.next[pkt.side] # -1 /\ pkt.seq < f.next[pkt.side]
    BY <1>12 DEF F!Retransmitted
  <2> HIDE DEF f
  <2>2. k \in DOMAIN flows /\ f.next = flows[k].next
    BY <1>4, <1>5, <2>1 DEF FlowFor, Empty
  <2>3. k \notin odd => f.next[pkt.side] <= pkt.seq
    BY <1>1, <1>12, <2>1, <2>2 DEF FlowsSafe, FlowsPlaced
  <2>4. f.next[pkt.side] \in Int
    BY <1>4, <1>8
  <2> QED BY <1>4, <2>1, <2>3, <2>4
<1>13. early' \subseteq odd
  <2> HIDE DEF f, k
  <2> QED BY <1>3, <1>12 DEF FlowsSafe, FlowsPlaced, F!RetransmitsAreBehind
<1> HIDE DEF f, k, sg, nx
<1>14. /\ c \in Flow /\ c.pkts = f.pkts \cup {packets} /\ c.next = [f.next EXCEPT ![pkt.side] = nx]
       /\ c.l7 = f.l7 /\ c.emitted = f.emitted
  <2> DEFINE P == f.pkts \cup {packets}
             b == f.closed \/ pkt.kind = "close"
             s == [f.seg EXCEPT ![pkt.side] = sg]
             n == [f.next EXCEPT ![pkt.side] = nx]
  <2>1. /\ P \in SUBSET Nat /\ b \in BOOLEAN /\ f \in Flow
        /\ s \in [F!Sides -> Segment] /\ n \in [F!Sides -> Int]
    BY <1>4, <1>5, <1>8, <1>10
  <2> HIDE DEF c, P, b
  <2>2. c = [f EXCEPT !.age = 0, !.pkts = P, !.seg = s, !.next = n, !.closed = b]
    BY <1>4, <1>5, <1>9 DEF Flow, P, b
  <2> HIDE DEF s, n
  <2>3. c = [first |-> f.first, age |-> 0, l7 |-> f.l7, emitted |-> f.emitted, closed |-> b,
             pkts |-> P, next |-> n, seg |-> s]
    BY <2>1, <2>2 DEF Flow
  <2>4. f.first \in BOOLEAN /\ f.l7 \in BOOLEAN /\ f.emitted \in BOOLEAN
    BY <2>1 DEF Flow
  <2>5. c \in Flow
    BY <2>1, <2>3, <2>4 DEF Flow
  <2>6. c.pkts = P /\ c.next = n /\ c.l7 = f.l7 /\ c.emitted = f.emitted
    BY <2>3
  <2> QED BY <2>5, <2>6 DEF P, n
<1>15. k \notin odd => \A t \in F!Sides : c.next[t] <= at[k][t]
  <2> HIDE DEF c
  <2> QED BY <1>7, <1>8, <1>11, <1>14
<1> HIDE DEF c
<1>16. ASSUME F!ToReport(c) PROVE ~f.emitted /\ ~f.l7
  BY <1>14, <1>16 DEF F!ToReport
<1>17. /\ g \in Flow /\ g.pkts \subseteq f.pkts \cup {packets} /\ g.l7 = f.l7
       /\ (f.emitted => g.emitted) /\ (told => g.emitted)
       /\ k \notin odd => \A t \in F!Sides : g.next[t] <= at[k][t]
  <2>1. CASE seen
    <3>1. g = [f EXCEPT !.age = 0]
      BY <2>1
    <3>2. ~told
      BY <2>1
    <3> HIDE DEF g, seen, told
    <3>3. g \in Flow /\ g.pkts = f.pkts /\ g.next = f.next /\ g.l7 = f.l7 /\ g.emitted = f.emitted
      BY <1>5, <3>1 DEF Flow
    <3> QED BY <1>7, <3>2, <3>3
  <2>2. CASE ~seen
    <3>1. g = [c EXCEPT !.emitted = c.emitted \/ F!ToReport(c)]
      BY <2>2
    <3>2. (c.emitted \/ F!ToReport(c)) \in BOOLEAN /\ told = F!ToReport(c)
      BY <2>2 DEF F!ToReport
    <3> HIDE DEF g, seen, told
    <3> DEFINE b == c.emitted \/ F!ToReport(c)
    <3>4. c \in Flow /\ b \in BOOLEAN /\ g = [c EXCEPT !.emitted = b]
      BY <1>14, <3>1, <3>2
    <3> HIDE DEF b
    <3>5. g \in Flow /\ g.pkts = c.pkts /\ g.next = c.next /\ g.l7 = c.l7 /\ g.emitted = b
      BY ONLY <3>4, FlowReported, Zenon
    <3>3. /\ g \in Flow /\ g.pkts = c.pkts /\ g.next = c.next /\ g.l7 = c.l7
          /\ g.emitted = (c.emitted \/ F!ToReport(c))
      BY <3>5 DEF b
    <3> QED BY <1>14, <1>15, <3>2, <3>3
  <2> QED BY <2>1, <2>2
<1>18. /\ \A d, e \in news : d = e
       /\ \A e \in news : /\ e.pkts \subseteq f.pkts \cup {packets} /\ ~f.emitted /\ g.emitted
                           /\ ~f.l7 /\ (e.dissected => k \in l7) /\ (k \in gone => e.flowLost)
  <2>1. \A e \in news : told /\ e = F!emitFlow(k, c, "close")
    OBVIOUS
  <2>2. told => F!ToReport(c)
    OBVIOUS
  <2> DEFINE r == F!emitFlow(k, c, "close")
  <2>3. /\ r.pkts = f.pkts \cup {packets} /\ (r.dissected => k \in l7)
        /\ (k \in gone => r.flowLost)
    BY <1>14 DEF F!emitFlow
  <2>4. told => ~f.emitted /\ ~f.l7 /\ g.emitted
    BY <1>16, <1>17, <2>2
  <2>5. \A e \in news : told /\ e = r
    BY <2>1
  <2> HIDE DEF g, news, told, r
  <2> QED BY <2>3, <2>4, <2>5
<1> HIDE DEF g, news, told, seen
<1> QED BY <1>1, <1>2, <1>4, <1>5, <1>13, <1>17, <1>18, Tracked

LEMMA FlowsNext == ASSUME FlowsSafe, F!Next \/ UNCHANGED flowVars PROVE FlowsSafe'
<1>1. CASE UNCHANGED flowVars
  BY <1>1 DEF flowVars, FlowsSafe, FlowsTyped, FlowsApart, FlowsMarked, FlowsPlaced, Reported,
              F!PacketsReportedOnce, F!DissectedReportedOnlyIfGone, F!RetransmitsAreBehind
<1> QED BY <1>1, RouteSafe, TLSRequestSafe, TrackTCPSafe, TrackUDPSafe, FlushScanSafe, FlushSafe
        DEF F!Next

-----------------------------------------------------------------------------
(* Probes of TLS libraries.                                                *)

\* A walk has found, or still has to read the process of, every library mapped
\* since it began, unless it is not complete.
\* There are no probes before the source opens nor after it has closed.
ProbesSafe ==
  /\ DOMAIN procs \subseteq Pids
  /\ \A s \in steady : s[1] \in DOMAIN procs /\ s[2] \in procs[s[1]].libs
  /\ scan \in {"idle", "walking", "done"}
  /\ scan = "done" => todo = {}
  /\ scan # "idle" =>
       \A s \in steady : s[1] \in todo \/ (complete => s[2] \in targets)
  /\ probes \in {"none", "closed"} => scan = "idle" /\ DOMAIN attached = {}

LEMMA ProbesInit == A!Init => ProbesSafe
BY DEF A!Init, ProbesSafe

LEMMA ProbesNext == ASSUME ProbesSafe, A!Next \/ UNCHANGED probeVars PROVE ProbesSafe'
<1>1. CASE UNCHANGED probeVars
  BY <1>1 DEF probeVars, ProbesSafe
<1>2. CASE A!StartProcess
  <2>1. PICK p \in Pids \ DOMAIN procs, ls \in SUBSET Libs, r \in BOOLEAN :
          procs' = [q \in DOMAIN procs \cup {p} |->
                     IF q = p THEN [libs |-> ls, readable |-> r] ELSE procs[q]]
    BY <1>2 DEF A!StartProcess
  <2>2. DOMAIN procs' = DOMAIN procs \cup {p} /\ \A q \in DOMAIN procs : procs'[q] = procs[q]
    BY <2>1
  <2>3. UNCHANGED <<attached, scan, todo, targets, complete, steady, probes>>
    BY <1>2 DEF A!StartProcess, A!walk
  <2> QED BY <2>2, <2>3 DEF ProbesSafe
<1>3. CASE A!Exit
  <2>1. PICK p \in DOMAIN procs : /\ procs' = A!Only(procs, Pids \ {p})
                                  /\ steady' = {s \in steady : s[1] # p}
    BY <1>3 DEF A!Exit
  <2>2. /\ DOMAIN procs' = DOMAIN procs \ {p}
        /\ \A q \in DOMAIN procs \ {p} : procs'[q] = procs[q]
    BY <2>1 DEF A!Only, ProbesSafe
  <2>3. UNCHANGED <<attached, scan, todo, targets, complete, probes>>
    BY <1>3 DEF A!Exit, A!walk
  <2> QED BY <2>1, <2>2, <2>3 DEF ProbesSafe
<1>10. CASE A!MapLibraries
  <2>1. PICK p \in DOMAIN procs, ls \in SUBSET Libs, r \in BOOLEAN :
          /\ procs' = [procs EXCEPT ![p] = [libs |-> ls, readable |-> r]]
          /\ steady' = {s \in steady : s[1] # p \/ s[2] \in ls}
    BY <1>10 DEF A!MapLibraries
  <2>2. /\ DOMAIN procs' = DOMAIN procs /\ procs'[p].libs = ls
        /\ \A q \in DOMAIN procs \ {p} : procs'[q] = procs[q]
    BY <2>1
  <2>3. UNCHANGED <<attached, scan, todo, targets, complete, probes>>
    BY <1>10 DEF A!MapLibraries, A!walk
  <2> QED BY <2>1, <2>2, <2>3 DEF ProbesSafe
<1>4. CASE A!startTLSCapture
  BY <1>4 DEF A!startTLSCapture, A!walk, ProbesSafe
<1>5. CASE A!rescan
  BY <1>5 DEF A!rescan, ProbesSafe
<1>6. CASE A!discoverTargets
  <2>1. scan = "walking" /\ UNCHANGED <<procs, attached, steady, probes>>
    BY <1>6 DEF A!discoverTargets
  <2>2. CASE todo = {} /\ scan' = "done" /\ UNCHANGED <<todo, targets, complete>>
    BY <2>1, <2>2 DEF ProbesSafe
  <2>3. CASE \E p \in todo : /\ todo' = todo \ {p}
                             /\ targets' = targets \cup UNION A!scanPidMaps(p)
                             /\ complete' = (complete /\ A!scanPidMaps(p) # {})
                             /\ UNCHANGED scan
    <3>1. PICK p \in todo : /\ todo' = todo \ {p}
                            /\ targets' = targets \cup UNION A!scanPidMaps(p)
                            /\ complete' = (complete /\ A!scanPidMaps(p) # {})
                            /\ UNCHANGED scan
      BY <2>3
    <3>2. complete' => complete /\ procs[p].libs \subseteq targets'
      BY <3>1 DEF A!scanPidMaps
    <3>3. \A s \in steady : s[1] \in todo' \/ (complete' => s[2] \in targets')
      BY <2>1, <3>1, <3>2 DEF ProbesSafe
    <3> QED BY <2>1, <3>1, <3>3 DEF ProbesSafe
  <2> QED BY <1>6, <2>2, <2>3 DEF A!discoverTargets
<1>7. CASE A!reconcileAttachments
  BY <1>7 DEF A!reconcileAttachments, ProbesSafe
<1>8. CASE A!Close
  BY <1>8 DEF A!Close, A!walk, ProbesSafe
<1>9. CASE A!closeAttachments
  BY <1>9 DEF A!closeAttachments, A!walk, ProbesSafe
<1> QED BY <1>1, <1>2, <1>3, <1>4, <1>5, <1>6, <1>7, <1>8, <1>9, <1>10 DEF A!Next

\* What a step may do to the probes.
ProbesKept ==
  /\ \A l \in DOMAIN attached \ DOMAIN attached' :
       probes' # "closed" => \A s \in steady : s[2] # l
  /\ probes' = "closed" => DOMAIN attached' = {}

LEMMA ProbesStep == ASSUME ProbesSafe, A!Next PROVE ProbesKept
<1>1. CASE A!reconcileAttachments
  <2>1. scan = "done" /\ UNCHANGED probes
    BY <1>1 DEF A!reconcileAttachments
  <2>2. probes # "closed"
    BY <2>1 DEF ProbesSafe
  <2>3. PICK ok \in [targets \ DOMAIN attached -> A!attachTarget] :
          LET new == {l \in DOMAIN ok : ok[l]}
              seen == [l \in DOMAIN attached \cup new |->
                         IF l \in targets THEN 0
                         ELSE IF attached[l] > grace THEN attached[l] ELSE attached[l] + 1]
          IN  attached' = A!Only(seen, {l \in DOMAIN seen : ~A!Overdue(seen, l)})
    BY <1>1 DEF A!reconcileAttachments
  <2> DEFINE new == {l \in DOMAIN ok : ok[l]}
             seen == [l \in DOMAIN attached \cup new |->
                        IF l \in targets THEN 0
                        ELSE IF attached[l] > grace THEN attached[l] ELSE attached[l] + 1]
  <2>4. attached' = A!Only(seen, {l \in DOMAIN seen : ~A!Overdue(seen, l)})
    BY <2>3
  <2>5. DOMAIN seen = DOMAIN attached \cup new
        /\ \A l \in DOMAIN attached \cap targets : seen[l] = 0
    OBVIOUS
  <2> HIDE DEF seen, new
  <2>6. \A l \in DOMAIN attached \ DOMAIN attached' : A!Overdue(seen, l)
    BY <2>4, <2>5 DEF A!Only
  <2>7. \A l \in DOMAIN attached \ DOMAIN attached' : complete /\ l \notin targets
    BY <2>5, <2>6, CaptureAssumption DEF A!Overdue, A!AttachAssumption
  <2>8. ASSUME complete PROVE \A s \in steady : s[2] \in targets
    BY <2>1, <2>8 DEF ProbesSafe
  <2> QED BY <2>1, <2>2, <2>7, <2>8 DEF ProbesKept
<1>2. CASE A!closeAttachments
  BY <1>2 DEF A!closeAttachments, ProbesKept
<1>3. CASE A!startTLSCapture
  BY <1>3 DEF A!startTLSCapture, ProbesSafe, ProbesKept
<1>4. CASE \/ A!StartProcess \/ A!Exit \/ A!MapLibraries \/ A!rescan \/ A!discoverTargets
          \/ A!Close
  <2>1. UNCHANGED attached /\ (probes' = probes \/ probes' = "closing")
    BY <1>4 DEF A!StartProcess, A!Exit, A!MapLibraries, A!rescan, A!discoverTargets, A!Close
  <2> QED BY <2>1 DEF ProbesSafe, ProbesKept
<1> QED BY <1>1, <1>2, <1>3, <1>4 DEF A!Next

-----------------------------------------------------------------------------
(* Pairing in order.                                                      *)

\* q holds consecutive numbers, the last of which is r.
Run(q, r) == q \in Seq(Nat) /\ Len(q) <= r /\ \A i \in 1 .. Len(q) : q[i] = r - Len(q) + i

\* What is known of one connection, in terms of the way pa it is captured, its
\* FIFO q, its complete requests fi, what is parked pk, the directions counted
\* af, the goroutines of its requests rq and responses rs, its entries em, and
\* whether the FIFO is out of step sh.

ReqState == [at : Stages, n : 0 .. MaxRequests]
RespState == [at : Stages, n : -1 .. MaxRequests, try : 0 .. completeResponsePairRetries,
              peek : Requests \cup {None}, cut : Responses \cup {None}]

Reading(g) == g.at \notin {"new", "done"}
InBody(rq) == rq.at \in {"body", "cut"}
Ended(rq) == rq.at \in {"cut", "gone", "done"}

\* The responses that have been dealt with.
Dealt(rs) == IF rs.at = "pairing" THEN rs.n - 1 ELSE rs.n

PairTyped(pa, pk, rq, rs, em, sh) ==
  /\ pa \in {"afpacket", "tls"} /\ sh \in BOOLEAN
  /\ rq \in ReqState /\ rs \in RespState
  /\ pk \subseteq Pairs /\ em \in Seq(Pairs)

\* A connection is counted once for each direction that is read from AF_PACKET,
\* so that nobody sleeps while it is.
Counted(pa, af, rq, rs) ==
  /\ af = IF pa = "tls" THEN 0
          ELSE (IF Reading(rq) THEN 1 ELSE 0) + (IF Reading(rs) THEN 1 ELSE 0)
  /\ rs.try > 0 => pa = "tls"

\* The FIFO is a run that ends with the last request parsed, and every request
\* but the one whose body is being read is complete.
Queued(q, fi, rq) ==
  /\ Run(q, rq.n) /\ (InBody(rq) => rq.n > 0)
  /\ fi = 1 .. (IF InBody(rq) THEN rq.n - 1 ELSE rq.n)

\* The numbers of responses, and of the one that a gap cut short.
Numbered(rs) ==
  /\ rs.at \in {"body", "cut"} => rs.n < MaxRequests
  /\ rs.at = "pairing" => rs.n >= 0
  /\ rs.at \in {"new", "head", "body"} => rs.cut = None
  /\ rs.at = "cut" => rs.cut = rs.n + 1
  /\ rs.at = "pairing" /\ rs.cut # None => rs.cut = rs.n

\* What is paired was taken from the FIFO, by a response dealt with.
Taken(q, pk, rq, rs, em) ==
  \A pr \in ToSet(em) \cup pk : pr[1] <= rq.n - Len(q) /\ pr[2] <= Dealt(rs)

\* A request and a response are in one entry, made or parked, and a response is
\* parked only on the request whose body is being read.
Once(pk, rq, em) ==
  /\ \A i, j \in DOMAIN em : i # j => em[i][1] # em[j][1] /\ em[i][2] # em[j][2]
  /\ \A pr \in pk : pr[1] = rq.n /\ InBody(rq)
  /\ \A x, y \in pk : x = y
  /\ \A x \in pk, y \in ToSet(em) : x[1] # y[1] /\ x[2] # y[2]

\* On a connection in order, what waits are the requests not answered yet, or
\* nothing after the requests have ended.
Aligned(q, rq, rs, sh) ==
  ~sh /\ rs.at \notin {"gone", "done"} /\ rs.cut = None =>
    \/ q = <<>> /\ Ended(rq)
    \/ Dealt(rs) <= rq.n /\ Len(q) = rq.n - (IF Dealt(rs) < 0 THEN 0 ELSE Dealt(rs))

\* MispairedOnlyIf, of what is parked too.
Right(pk, rs, em, sh) ==
  \A pr \in ToSet(em) \cup pk : pr[1] = pr[2] \/ sh \/ pr[2] = rs.cut

\* PeekSeesOwnRequest.
Peeked(pa, rq, rs, sh) ==
  rs.at = "body" /\ rs.n >= 0 /\ pa = "afpacket" /\ ~sh =>
    rs.peek = rs.n + 1 \/ (rs.peek = None /\ Ended(rq))

PairSafe(pa, q, fi, pk, af, rq, rs, em, sh) ==
  /\ PairTyped(pa, pk, rq, rs, em, sh)
  /\ Counted(pa, af, rq, rs) /\ Queued(q, fi, rq) /\ Numbered(rs)
  /\ Taken(q, pk, rq, rs, em) /\ Once(pk, rq, em)
  /\ Aligned(q, rq, rs, sh) /\ Right(pk, rs, em, sh) /\ Peeked(pa, rq, rs, sh)

KeySafe(k) == PairSafe(path[k], Queue(k), filled[k], parked[k], afPacketStreams[k],
                       req[k], resp[k], emitted[k], shifted[k])

PairsShaped ==
  /\ path = [k \in Keys |-> path[k]]
  /\ conns \in [Keys -> Seq(Nat) \cup {None}]
  /\ filled = [k \in Keys |-> filled[k]] /\ parked = [k \in Keys |-> parked[k]]
  /\ afPacketStreams = [k \in Keys |-> afPacketStreams[k]]
  /\ req \in [Keys -> ReqState] /\ resp \in [Keys -> RespState]
  /\ old \in [Keys -> Nat] /\ gcRun \in [keys : SUBSET Keys, cutoff : [Keys -> Nat]]
  /\ emitted = [k \in Keys |-> emitted[k]] /\ shifted = [k \in Keys |-> shifted[k]]

PairsSafe == PairsShaped /\ \A k \in Keys : KeySafe(k)

-----------------------------------------------------------------------------
(* The FIFO of a connection, and what gc keeps of it.                      *)

LEMMA RunEmpty == \A r \in Nat : Run(<<>>, r)
BY DEF Run

LEMMA RunAppend ==
  ASSUME NEW q, NEW r \in Nat, Run(q, r)
  PROVE  Run(Append(q, r + 1), r + 1) /\ Len(Append(q, r + 1)) = Len(q) + 1
BY DEF Run

LEMMA RunTail ==
  ASSUME NEW q, NEW r \in Nat, Run(q, r), q # <<>>
  PROVE  Run(Tail(q), r) /\ Len(Tail(q)) = Len(q) - 1 /\ Head(q) = r - Len(q) + 1 /\ Len(q) \in Nat \ {0}
BY DEF Run

LEMMA NumbersAppend ==
  ASSUME NEW a \in Nat, NEW l \in Nat
  PROVE  Append([j \in 1 .. l |-> a + j], a + l + 1) = [j \in 1 .. l + 1 |-> a + j]
<1> DEFINE s == [j \in 1 .. l |-> a + j]
           t == [j \in 1 .. l + 1 |-> a + j]
           e == a + l + 1
<1>1. s \in Seq(Nat) /\ t \in Seq(Nat) /\ Len(s) = l /\ Len(t) = l + 1 /\ e \in Nat
  OBVIOUS
<1>2. (\A j \in 1 .. l : s[j] = a + j) /\ \A j \in 1 .. l + 1 : t[j] = a + j
  OBVIOUS
<1>3. e = a + (l + 1)
  OBVIOUS
<1> HIDE DEF s, t, e
<1>4. /\ Append(s, e) \in Seq(Nat) /\ Len(Append(s, e)) = l + 1 /\ Append(s, e)[l + 1] = e
      /\ \A j \in 1 .. l : Append(s, e)[j] = s[j]
  BY <1>1
<1>5. ASSUME NEW j \in 1 .. l + 1 PROVE Append(s, e)[j] = t[j]
  <2>1. CASE j = l + 1
    BY <1>2, <1>3, <1>4, <2>1
  <2>2. CASE j # l + 1
    BY <1>2, <1>4, <2>2
  <2> QED BY <2>1, <2>2
<1>6. Append(s, e) = t
  BY <1>1, <1>4, <1>5, SeqEqual
<1> QED BY <1>6 DEF s, t, e

\* Induction up to m, for a set.
LEMMA StepByStep ==
  ASSUME NEW m \in Nat, NEW S, 0 \in S, \A i \in 0 .. m - 1 : i \in S => i + 1 \in S
  PROVE  m \in S
<1> DEFINE B == {i \in Nat : i <= m => i \in S}
<1>1. 0 \in B
  OBVIOUS
<1>2. ASSUME NEW i \in Nat, i \in B PROVE i + 1 \in B
  <2>1. CASE i + 1 <= m
    BY <1>2, <2>1
  <2>2. CASE ~(i + 1 <= m)
    BY <2>2
  <2> QED BY <2>1, <2>2
<1> HIDE DEF B
<1>3. Nat \subseteq B
  BY <1>1, <1>2, SetInduction
<1> QED BY <1>3 DEF B

\* What gc keeps of consecutive numbers is consecutive, and it is all of them
\* unless one is below the cutoff.
LEMMA KeptIsRun ==
  ASSUME NEW k \in Keys, NEW r \in Nat, Run(Queue(k), r), gcRun.cutoff[k] \in Nat
  PROVE  /\ Run(Kept(k), r) /\ Len(Kept(k)) <= Len(Queue(k))
         /\ Len(Kept(k)) < Len(Queue(k)) => \E q \in Pending(k) : q <= gcRun.cutoff[k]
<1> DEFINE q == Queue(k)
           c == gcRun.cutoff[k]
           m == Len(q)
           b == r - m
           Q(h) == h = [i \in 0 .. Len(q) |->
                         IF i = 0 THEN <<>>
                         ELSE IF q[i] > c THEN Append(h[i - 1], q[i]) ELSE h[i - 1]]
           it == CHOOSE h : Q(h)
<1>1. Kept(k) = it[Len(q)]
  BY DEF Kept
<1>2. m \in Nat /\ b \in Nat /\ c \in Nat /\ q \in Seq(Nat) /\ \A i \in 1 .. m : q[i] = b + i
  BY DEF Run
<1> HIDE DEF q, c, b
<1>3. \E h : Q(h)
  <2> DEFINE d == IF c > b THEN c - b ELSE 0
             g(i) == IF i <= d THEN <<>> ELSE [j \in 1 .. i - d |-> b + d + j]
             h == [i \in 0 .. m |-> g(i)]
  <2>1. d \in Nat /\ \A i \in 1 .. m : q[i] > c <=> i > d
    BY <1>2
  <2> HIDE DEF d
  <2>2. ASSUME NEW i \in 1 .. m
        PROVE  g(i) = IF q[i] > c THEN Append(g(i - 1), q[i]) ELSE g(i - 1)
    <3>1. CASE i <= d
      BY <1>2, <2>1, <3>1
    <3>2. CASE i = d + 1
      BY <1>2, <2>1, <3>2
    <3>3. CASE i > d + 1
      <4> DEFINE s == [j \in 1 .. i - 1 - d |-> b + d + j]
                 t == [j \in 1 .. i - d |-> b + d + j]
      <4>1. b + d \in Nat /\ i - 1 - d \in Nat /\ i - 1 - d + 1 = i - d /\ b + d + (i - 1 - d) + 1 = b + i
        BY <1>2, <2>1, <3>3
      <4>2. Append(s, b + i) = t
        <5>1. Append(s, b + d + (i - 1 - d) + 1) = [j \in 1 .. i - 1 - d + 1 |-> b + d + j]
          BY <4>1, NumbersAppend
        <5> QED BY <4>1, <5>1
      <4>3. g(i) = t /\ g(i - 1) = s /\ q[i] = b + i /\ q[i] > c
        BY <1>2, <2>1, <3>3
      <4> HIDE DEF g, s, t
      <4> QED BY <4>2, <4>3
    <3> QED BY <2>1, <3>1, <3>2, <3>3
  <2>3. g(0) = <<>>
    BY <2>1
  <2> HIDE DEF g
  <2>4. \A i \in 0 .. m : h[i] = g(i)
    OBVIOUS
  <2>5. \A i \in 1 .. m : i - 1 \in 0 .. m
    BY <1>2
  <2>6. \A i \in 0 .. m : h[i] = IF i = 0 THEN <<>>
                                 ELSE IF q[i] > c THEN Append(h[i - 1], q[i]) ELSE h[i - 1]
    BY <1>2, <2>2, <2>3, <2>4, <2>5
  <2>7. h = [i \in 0 .. m |-> h[i]]
    OBVIOUS
  <2> HIDE DEF h
  <2>8. Q(h)
    BY <2>6, <2>7
  <2> QED BY <2>8
<1> HIDE DEF it, Q
<1>4. Q(it)
  BY <1>3 DEF it
<1>5. /\ it[0] = <<>>
      /\ \A i \in 0 .. m - 1 : it[i + 1] = IF q[i + 1] > c THEN Append(it[i], q[i + 1]) ELSE it[i]
  <2>1. \A i \in 0 .. m : it[i] = IF i = 0 THEN <<>>
                                  ELSE IF q[i] > c THEN Append(it[i - 1], q[i]) ELSE it[i - 1]
    BY <1>4 DEF Q
  <2>2. 0 \in 0 .. m
    BY <1>2
  <2>3. \A i \in 0 .. m - 1 : i + 1 \in 0 .. m /\ i + 1 # 0 /\ (i + 1) - 1 = i
    BY <1>2
  <2> HIDE DEF m
  <2> QED BY <2>1, <2>2, <2>3
<1> DEFINE P(i) == /\ Run(it[i], b + i) /\ Len(it[i]) <= i
                   /\ Len(it[i]) > 0 => b + i > c
                   /\ Len(it[i]) < i => \E j \in 1 .. m : q[j] <= c
           S == {i \in 0 .. m : P(i)}
<1>6. 0 \in S
  BY <1>2, <1>5, RunEmpty
<1>7. ASSUME NEW i \in 0 .. m - 1, i \in S PROVE i + 1 \in S
  <2>1. /\ Run(it[i], b + i) /\ Len(it[i]) <= i
        /\ Len(it[i]) > 0 => b + i > c
        /\ Len(it[i]) < i => \E j \in 1 .. m : q[j] <= c
    BY <1>7
  <2>2. it[i] \in Seq(Nat)
    BY <2>1 DEF Run
  <2>3. Len(it[i]) \in Nat /\ i + 1 \in 1 .. m /\ i + 1 \in 0 .. m /\ b + i \in Nat
    BY <1>2, <2>2
  <2>4. q[i + 1] = b + i + 1
    BY <1>2, <2>3
  <2>5. P(i + 1)
    <3> HIDE DEF m
    <3>1. CASE q[i + 1] > c
      <4>1. it[i + 1] = Append(it[i], b + i + 1)
        BY <1>5, <2>4, <3>1
      <4>2. Run(it[i + 1], b + i + 1) /\ Len(it[i + 1]) = Len(it[i]) + 1
        BY <2>1, <2>3, <4>1, RunAppend
      <4> QED BY <1>2, <2>1, <2>3, <2>4, <3>1, <4>2
    <3>2. CASE ~(q[i + 1] > c)
      <4>0. q[i + 1] <= c
        BY <1>2, <2>3, <2>4, <3>2
      <4>1. it[i + 1] = it[i] /\ q[i + 1] <= c
        BY <1>5, <3>2, <4>0
      <4>2. Len(it[i]) = 0
        BY <1>2, <2>1, <2>3, <2>4, <4>1
      <4>3. Run(it[i], b + (i + 1))
        BY <1>2, <2>2, <2>3, <4>2 DEF Run
      <4> QED BY <1>2, <2>1, <2>3, <4>1, <4>2, <4>3
    <3> QED BY <3>1, <3>2
  <2> HIDE DEF P
  <2> QED BY <2>3, <2>5
<1>8. m \in S
  <2> HIDE DEF S, P
  <2> QED BY <1>2, <1>6, <1>7, StepByStep
<1>9. b + m = r
  BY <1>2 DEF b
<1>10. Run(it[m], r) /\ Len(it[m]) <= m /\ (Len(it[m]) < m => \E j \in 1 .. m : q[j] <= c)
  BY <1>8, <1>9
<1>11. \A j \in 1 .. m : q[j] \in Pending(k)
  BY <1>2 DEF Pending, ToSet, q
<1> QED BY <1>1, <1>10, <1>11 DEF q, c

-----------------------------------------------------------------------------
(* Each operation on the values of one connection.                         *)

LEMMA PairNumbers ==
  ASSUME NEW pa, NEW pk, NEW rq, NEW rs, NEW em, NEW sh, PairTyped(pa, pk, rq, rs, em, sh)
  PROVE  /\ rq.n \in 0 .. MaxRequests /\ rs.n \in -1 .. MaxRequests /\ MaxRequests \in Nat
         /\ rs.try \in Nat /\ Dealt(rs) \in Int /\ rq.at \in Stages /\ rs.at \in Stages
         /\ rs.cut \in Nat \cup {None} /\ rs.peek \in Nat \cup {None} /\ None \notin Nat
         /\ \A pr \in ToSet(em) \cup pk : pr[1] \in Nat \ {0} /\ pr[2] \in Nat
         /\ sh \in BOOLEAN
<1>1. MaxRequests \in Nat /\ None \notin Nat
  BY PairingAssumption
<1>2. rq.n \in 0 .. MaxRequests /\ rq.at \in Stages
  BY DEF PairTyped, ReqState
<1>3. rs.n \in -1 .. MaxRequests /\ rs.at \in Stages /\ rs.try \in Nat
      /\ rs.cut \in Nat \cup {None} /\ rs.peek \in Nat \cup {None}
  BY <1>1, PairingAssumption DEF PairTyped, RespState, Requests, Responses
<1>4. ToSet(em) \cup pk \subseteq Pairs
  BY DEF PairTyped, ToSet
<1>5. \A pr \in Pairs : pr[1] \in Nat \ {0} /\ pr[2] \in Nat
  BY <1>1 DEF Pairs, Requests, Responses
<1>6. Dealt(rs) \in Int
  BY <1>3, <1>1 DEF Dealt
<1> QED BY <1>1, <1>2, <1>3, <1>4, <1>5, <1>6 DEF PairTyped

\* The goroutines move on, and nothing is taken from the FIFO or put into it.
LEMMA MoveSafe ==
  ASSUME NEW pa, NEW q, NEW fi, NEW pk, NEW af, NEW rq, NEW rs, NEW em, NEW sh,
         PairSafe(pa, q, fi, pk, af, rq, rs, em, sh),
         NEW rq2 \in ReqState, NEW rs2 \in RespState, NEW af2,
         rq2.n = rq.n, InBody(rq2) <=> InBody(rq), Ended(rq) => Ended(rq2),
         rs2.at \notin {"gone", "done"} => rs.at \notin {"gone", "done"},
         Dealt(rs2) = Dealt(rs), rs2.cut = rs.cut,
         Numbered(rs2), Counted(pa, af2, rq2, rs2), Peeked(pa, rq2, rs2, sh)
  PROVE  PairSafe(pa, q, fi, pk, af2, rq2, rs2, em, sh)
<1>1. PairTyped(pa, pk, rq2, rs2, em, sh)
  BY DEF PairSafe, PairTyped
<1>2. Queued(q, fi, rq2)
  BY DEF PairSafe, Queued
<1>3. Taken(q, pk, rq2, rs2, em) /\ Once(pk, rq2, em)
  BY DEF PairSafe, Taken, Once
<1>4. Aligned(q, rq2, rs2, sh)
  BY DEF PairSafe, Aligned
<1>5. Right(pk, rs2, em, sh)
  BY DEF PairSafe, Right
<1> QED BY <1>1, <1>2, <1>3, <1>4, <1>5 DEF PairSafe

\* The FIFO loses requests, which is noted.
LEMMA ShortenSafe ==
  ASSUME NEW pa, NEW q, NEW fi, NEW pk, NEW af, NEW rq, NEW rs, NEW em, NEW sh,
         PairSafe(pa, q, fi, pk, af, rq, rs, em, sh),
         NEW q2, NEW sh2 \in BOOLEAN, Run(q2, rq.n), Len(q2) <= Len(q), sh => sh2,
         Len(q2) < Len(q) => sh2
  PROVE  PairSafe(pa, q2, fi, pk, af, rq, rs, em, sh2)
<1>0. PairTyped(pa, pk, rq, rs, em, sh) /\ Run(q, rq.n)
  BY DEF PairSafe, Queued
<1>1. PairTyped(pa, pk, rq, rs, em, sh2)
  BY <1>0 DEF PairTyped
<1>2. Queued(q2, fi, rq)
  BY DEF PairSafe, Queued
<1>3. Len(q) \in Nat /\ Len(q2) \in Nat /\ (q = <<>> => q2 = <<>>)
  BY <1>0 DEF Run
<1>4. Taken(q2, pk, rq, rs, em)
  BY <1>0, <1>3, PairNumbers DEF PairSafe, Taken
<1>5. Aligned(q2, rq, rs, sh2)
  BY <1>3 DEF PairSafe, Aligned
<1>6. Right(pk, rs, em, sh2) /\ Peeked(pa, rq, rs, sh2)
  BY DEF PairSafe, Right, Peeked
<1> QED BY <1>1, <1>2, <1>4, <1>5, <1>6 DEF PairSafe

\* The next request is queued: HTTP reads its body after that, the others before.
LEMMA AppendSafe ==
  ASSUME NEW pa, NEW q, NEW fi, NEW pk, NEW af, NEW rq, NEW rs, NEW em, NEW sh,
         PairSafe(pa, q, fi, pk, af, rq, rs, em, sh), rq.at = "head", rq.n < MaxRequests,
         NEW rq2 \in ReqState, rq2.n = rq.n + 1, NEW fi2,
         \/ rq2.at = "body" /\ fi2 = fi
         \/ rq2.at = "head" /\ fi2 = fi \cup {rq.n + 1}
  PROVE  PairSafe(pa, Append(q, rq.n + 1), fi2, pk, af, rq2, rs, em, sh)
<1> DEFINE q2 == Append(q, rq.n + 1)
<1>0. PairTyped(pa, pk, rq, rs, em, sh) /\ Run(q, rq.n)
  BY DEF PairSafe, Queued
<1>1. PairTyped(pa, pk, rq2, rs, em, sh)
  BY <1>0 DEF PairTyped
<1>2. rq.n \in Nat
  BY <1>0, PairNumbers
<1>3. Run(q2, rq.n + 1) /\ Len(q2) = Len(q) + 1 /\ Len(q) \in Nat
  BY <1>0, <1>2, RunAppend DEF Run
<1> HIDE DEF q2
<1>4. Queued(q2, fi2, rq2)
  <2>1. fi = 1 .. rq.n
    BY DEF PairSafe, Queued, InBody
  <2>2. fi2 = 1 .. (IF InBody(rq2) THEN rq2.n - 1 ELSE rq2.n)
    <3>1. CASE rq2.at = "body" /\ fi2 = fi
      BY <1>2, <2>1, <3>1 DEF InBody
    <3>2. CASE rq2.at = "head" /\ fi2 = fi \cup {rq.n + 1}
      <4>1. ~InBody(rq2)
        BY <3>2 DEF InBody
      <4>2. (1 .. rq.n) \cup {rq.n + 1} = 1 .. rq.n + 1
        BY <1>2
      <4> QED BY <2>1, <3>2, <4>1, <4>2
    <3> QED BY <3>1, <3>2
  <2> QED BY <1>2, <1>3, <2>2 DEF Queued
<1>5. pk = {}
  BY DEF PairSafe, Once, InBody
<1>6. Taken(q2, pk, rq2, rs, em)
  BY <1>0, <1>2, <1>3, PairNumbers DEF PairSafe, Taken
<1>7. Once(pk, rq2, em)
  BY <1>5 DEF PairSafe, Once
<1>8. Aligned(q2, rq2, rs, sh)
  <2>1. Dealt(rs) \in Int /\ ~Ended(rq)
    BY <1>0, PairNumbers DEF Ended
  <2> QED BY <1>2, <1>3, <2>1 DEF PairSafe, Aligned
<1>9. Counted(pa, af, rq2, rs) /\ Peeked(pa, rq2, rs, sh)
  BY DEF PairSafe, Counted, Reading, Peeked, Ended
<1> QED BY <1>1, <1>4, <1>6, <1>7, <1>8, <1>9 DEF PairSafe, q2

\* An entry is made or a response is parked for the pair pr.
LEMMA EntrySets ==
  ASSUME NEW em \in Seq(Pairs), NEW pr \in Pairs
  PROVE  /\ Append(em, pr) \in Seq(Pairs) /\ ToSet(Append(em, pr)) = ToSet(em) \cup {pr}
         /\ DOMAIN Append(em, pr) = DOMAIN em \cup {Len(em) + 1}
         /\ Append(em, pr)[Len(em) + 1] = pr
         /\ \A i \in DOMAIN em : Append(em, pr)[i] = em[i] /\ em[i] \in ToSet(em) /\ i # Len(em) + 1
<1> DEFINE e == Append(em, pr)
<1>1. /\ e \in Seq(Pairs) /\ DOMAIN e = 1 .. Len(em) + 1 /\ DOMAIN em = 1 .. Len(em)
      /\ Len(em) \in Nat /\ e[Len(em) + 1] = pr /\ \A i \in 1 .. Len(em) : e[i] = em[i]
  OBVIOUS
<1> HIDE DEF e
<1>2. 1 .. Len(em) + 1 = (1 .. Len(em)) \cup {Len(em) + 1} /\ \A i \in 1 .. Len(em) : i # Len(em) + 1
  BY <1>1
<1>3. \A i \in DOMAIN em : em[i] \in ToSet(em)
  BY DEF ToSet
<1>4. ToSet(e) \subseteq ToSet(em) \cup {pr}
  BY <1>1, <1>2 DEF ToSet
<1>5. ToSet(em) \cup {pr} \subseteq ToSet(e)
  BY <1>1, <1>2 DEF ToSet
<1> QED BY <1>1, <1>2, <1>3, <1>4, <1>5 DEF e

LEMMA OnceMore ==
  ASSUME NEW em \in Seq(Pairs), NEW pr \in Pairs,
         \A i, j \in DOMAIN em : i # j => em[i][1] # em[j][1] /\ em[i][2] # em[j][2],
         \A y \in ToSet(em) : pr[1] # y[1] /\ pr[2] # y[2]
  PROVE  LET e == Append(em, pr) IN
         \A i, j \in DOMAIN e : i # j => e[i][1] # e[j][1] /\ e[i][2] # e[j][2]
<1> DEFINE e == Append(em, pr)
           m == Len(em) + 1
<1>1. /\ DOMAIN e = DOMAIN em \cup {m} /\ e[m] = pr
      /\ \A i \in DOMAIN em : e[i] = em[i] /\ em[i] \in ToSet(em) /\ i # m
  BY EntrySets
<1> HIDE DEF e, m
<1>2. \A i, j \in DOMAIN e : i # j => e[i][1] # e[j][1] /\ e[i][2] # e[j][2]
  <2> SUFFICES ASSUME NEW i \in DOMAIN e, NEW j \in DOMAIN e, i # j
               PROVE  e[i][1] # e[j][1] /\ e[i][2] # e[j][2]
    OBVIOUS
  <2>1. CASE i \in DOMAIN em /\ j \in DOMAIN em
    BY <1>1, <2>1
  <2>2. CASE i = m /\ j \in DOMAIN em
    BY <1>1, <2>2
  <2>3. CASE i \in DOMAIN em /\ j = m
    BY <1>1, <2>3
  <2> QED BY <1>1, <2>1, <2>2, <2>3
<1> QED BY <1>2 DEF e

\* completeResponse has paired or given up its response.
LEMMA CompletedSafe ==
  ASSUME NEW rs \in RespState, NEW rs2 \in RespState, Numbered(rs), rs.at = "pairing",
         rs2.at = (IF rs.cut = None THEN "head" ELSE "gone"), rs2.try = 0,
         rs2.n = rs.n, rs2.cut = rs.cut
  PROVE  /\ Numbered(rs2) /\ Dealt(rs) = rs.n - 1 /\ Dealt(rs2) = rs.n
         /\ Reading(rs) /\ Reading(rs2)
         /\ \A pa, rq, sh : Peeked(pa, rq, rs2, sh)
BY DEF Numbered, Dealt, Reading, Peeked

\* The oldest pending request is taken by the response in hand.
LEMMA PopSafe ==
  ASSUME NEW pa, NEW q, NEW fi, NEW pk, NEW af, NEW rq, NEW rs, NEW em, NEW sh,
         PairSafe(pa, q, fi, pk, af, rq, rs, em, sh), rs.at = "pairing", q # <<>>,
         NEW rs2 \in RespState, NEW sh2 \in BOOLEAN, NEW em2, NEW pk2, NEW pr,
         rs2.at = (IF rs.cut = None THEN "head" ELSE "gone"), rs2.try = 0,
         rs2.n = rs.n, rs2.cut = rs.cut,
         sh2 <=> (sh \/ rs.n = 0),
         pr = <<Head(q), rs.n>>,
         IF pr[1] \in fi THEN em2 = Append(em, pr) /\ pk2 = pk
                         ELSE em2 = em /\ pk2 = pk \cup {pr}
  PROVE  PairSafe(pa, Tail(q), fi, pk2, af, rq, rs2, em2, sh2)
<1> DEFINE t == Tail(q)
<1>0. PairTyped(pa, pk, rq, rs, em, sh) /\ Run(q, rq.n) /\ Numbered(rs) /\ rs \in RespState
      /\ rq \in ReqState /\ em \in Seq(Pairs)
  BY DEF PairSafe, Queued, PairTyped
<1>1. /\ rq.n \in 0 .. MaxRequests /\ rs.n \in 0 .. MaxRequests /\ MaxRequests \in Nat
      /\ rs.cut \in Nat \cup {None} /\ None \notin Nat
  BY <1>0, PairNumbers DEF Numbered
<1>2. /\ Run(t, rq.n) /\ Len(t) = Len(q) - 1 /\ pr[1] = rq.n - Len(q) + 1 /\ pr[2] = rs.n
      /\ Len(q) \in Nat \ {0} /\ Len(q) <= rq.n /\ Len(t) \in Nat
  <2>1. /\ Run(t, rq.n) /\ Len(t) = Len(q) - 1 /\ Head(q) = rq.n - Len(q) + 1
        /\ Len(q) \in Nat \ {0}
    <3>1. rq.n \in Nat /\ Run(q, rq.n) /\ q # <<>>
      BY <1>0, <1>1
    <3> QED BY ONLY <3>1, RunTail, Zenon DEF t
  <2>2. Len(q) <= rq.n
    BY <1>0 DEF Run
  <2>3. pr[1] = Head(q) /\ pr[2] = rs.n
    OBVIOUS
  <2> QED BY <2>1, <2>2, <2>3
<1> HIDE DEF t
<1>3. pr \in Pairs
  BY <1>1, <1>2 DEF Pairs, Requests, Responses
<1>4. /\ Numbered(rs2) /\ Dealt(rs) = rs.n - 1 /\ Dealt(rs2) = rs.n /\ Reading(rs) /\ Reading(rs2)
      /\ Peeked(pa, rq, rs2, sh2)
  BY <1>0, CompletedSafe
<1>5. \A x \in ToSet(em) \cup pk : /\ x[1] \in Nat /\ x[2] \in Nat
                                   /\ x[1] <= rq.n - Len(q) /\ x[2] <= rs.n - 1
  BY <1>0, <1>4, PairNumbers DEF PairSafe, Taken
<1>6. \A x \in ToSet(em) \cup pk : x[1] # pr[1] /\ x[2] # pr[2]
  BY <1>1, <1>2, <1>5
<1>7. pk = {}
  <2>1. \A x \in pk : x[1] = rq.n
    BY DEF PairSafe, Once
  <2> QED BY <1>1, <1>2, <1>5, <2>1
<1>8. ToSet(em2) \cup pk2 = ToSet(em) \cup pk \cup {pr} /\ em2 \in Seq(Pairs) /\ pk2 \subseteq Pairs
  <2>1. CASE pr[1] \in fi
    <3>1. em2 = Append(em, pr) /\ pk2 = {} /\ pk = {}
      BY <1>7, <2>1
    <3>2. Append(em, pr) \in Seq(Pairs) /\ ToSet(Append(em, pr)) = ToSet(em) \cup {pr}
      BY ONLY <1>0, <1>3, EntrySets, Zenon
    <3> QED BY <3>1, <3>2
  <2>2. CASE pr[1] \notin fi
    BY <1>0, <1>3, <1>7, <2>2
  <2> QED BY <2>1, <2>2
<1>9. Once(pk2, rq, em2)
  <2>1. CASE pr[1] \in fi
    <3>1. em2 = Append(em, pr) /\ pk2 = {}
      BY <1>7, <2>1
    <3>2. /\ \A i, j \in DOMAIN em : i # j => em[i][1] # em[j][1] /\ em[i][2] # em[j][2]
          /\ \A y \in ToSet(em) : pr[1] # y[1] /\ pr[2] # y[2]
      BY <1>6 DEF PairSafe, Once
    <3> QED BY <1>0, <1>3, <3>1, <3>2, OnceMore, SMTT(30) DEF Once
  <2>2. CASE pr[1] \notin fi
    <3>1. em2 = em /\ pk2 = {pr}
      BY <1>7, <2>2
    <3>2. pr[1] = rq.n /\ InBody(rq)
      BY <1>1, <1>2, <2>2 DEF PairSafe, Queued
    <3> QED BY <1>6, <3>1, <3>2 DEF PairSafe, Once
  <2> QED BY <2>1, <2>2
<1>10. Taken(t, pk2, rq, rs2, em2)
  <2>1. \A x \in ToSet(em) \cup pk : x[1] <= rq.n - Len(t) /\ x[2] <= Dealt(rs2)
    BY <1>1, <1>2, <1>4, <1>5, SMTT(30)
  <2>2. pr[1] <= rq.n - Len(t) /\ pr[2] <= Dealt(rs2)
    BY <1>1, <1>2, <1>4
  <2> QED BY <1>8, <2>1, <2>2 DEF Taken
<1>11. Aligned(t, rq, rs2, sh2)
  BY <1>1, <1>2, <1>4 DEF PairSafe, Aligned
<1>12. Right(pk2, rs2, em2, sh2)
  <2>1. pr[1] = pr[2] \/ sh2 \/ pr[2] = rs2.cut
    <3>1. CASE rs.cut # None
      BY <1>0, <1>2, <3>1 DEF Numbered
    <3>2. CASE rs.cut = None /\ ~sh /\ rs.n # 0
      <4>1. Len(q) = rq.n - (rs.n - 1)
        BY <1>1, <1>4, <3>2 DEF PairSafe, Aligned
      <4> QED BY <1>1, <1>2, <4>1, SMTT(30)
    <3> QED BY <3>1, <3>2
  <2>2. \A x \in ToSet(em) \cup pk : x[1] = x[2] \/ sh2 \/ x[2] = rs2.cut
    BY DEF PairSafe, Right
  <2> QED BY <1>8, <2>1, <2>2 DEF Right
<1>13. Counted(pa, af, rq, rs2)
  BY <1>4 DEF PairSafe, Counted
<1>14. Queued(t, fi, rq)
  BY <1>2 DEF PairSafe, Queued
<1>15. PairTyped(pa, pk2, rq, rs2, em2, sh2)
  BY <1>0, <1>8 DEF PairTyped
<1> QED BY <1>4, <1>9, <1>10, <1>11, <1>12, <1>13, <1>14, <1>15 DEF PairSafe, t

\* Nothing is pending and the response in hand is given up.
LEMMA DropSafe ==
  ASSUME NEW pa, NEW fi, NEW pk, NEW af, NEW rq, NEW rs, NEW em, NEW sh,
         PairSafe(pa, <<>>, fi, pk, af, rq, rs, em, sh), rs.at = "pairing",
         NEW rs2 \in RespState, NEW sh2 \in BOOLEAN,
         rs2.at = (IF rs.cut = None THEN "head" ELSE "gone"), rs2.try = 0,
         rs2.n = rs.n, rs2.cut = rs.cut,
         sh2 <=> (sh \/ (rs.n > rq.n /\ ~Ended(rq)))
  PROVE  PairSafe(pa, <<>>, fi, pk, af, rq, rs2, em, sh2)
<1>0. PairTyped(pa, pk, rq, rs, em, sh) /\ Numbered(rs) /\ rs \in RespState
  BY DEF PairSafe, PairTyped
<1>1. /\ rq.n \in Nat /\ rs.n \in Nat
  BY <1>0, PairNumbers DEF Numbered
<1>2. /\ Numbered(rs2) /\ Dealt(rs) = rs.n - 1 /\ Dealt(rs2) = rs.n /\ Reading(rs) /\ Reading(rs2)
      /\ Peeked(pa, rq, rs2, sh2)
  BY <1>0, CompletedSafe
<1>3. PairTyped(pa, pk, rq, rs2, em, sh2)
  BY <1>0 DEF PairTyped
<1>4. Taken(<<>>, pk, rq, rs2, em)
  <2>1. \A x \in ToSet(em) \cup pk : /\ x[2] \in Nat /\ x[2] <= rs.n - 1 /\ x[1] <= rq.n - Len(<<>>)
    BY <1>0, <1>2, PairNumbers DEF PairSafe, Taken
  <2> QED BY <1>1, <1>2, <2>1 DEF Taken
<1>5. Aligned(<<>>, rq, rs2, sh2)
  <2> SUFFICES ASSUME ~sh2, rs2.cut = None
               PROVE  \/ Ended(rq)
                      \/ rs.n <= rq.n /\ Len(<<>>) = rq.n - (IF rs.n < 0 THEN 0 ELSE rs.n)
    BY <1>2 DEF Aligned
  <2>1. \/ Ended(rq)
        \/ rs.n - 1 <= rq.n /\ 0 = rq.n - (IF rs.n - 1 < 0 THEN 0 ELSE rs.n - 1)
    BY <1>2 DEF PairSafe, Aligned
  <2> QED BY <1>1, <2>1
<1>6. Right(pk, rs2, em, sh2)
  BY DEF PairSafe, Right
<1>7. Counted(pa, af, rq, rs2)
  BY <1>2 DEF PairSafe, Counted
<1> QED BY <1>2, <1>3, <1>4, <1>5, <1>6, <1>7 DEF PairSafe

\* The body of a request is read; its goroutine emits what was parked on it.
LEMMA FillSafe ==
  ASSUME NEW pa, NEW q, NEW fi, NEW pk, NEW af, NEW rq, NEW rs, NEW em, NEW sh,
         PairSafe(pa, q, fi, pk, af, rq, rs, em, sh), InBody(rq),
         NEW rq2 \in ReqState, rq2.n = rq.n,
         rq2.at = IF rq.at = "body" THEN "head" ELSE "gone",
         NEW em2, \/ pk = {} /\ em2 = em
                  \/ \E pr \in pk : em2 = Append(em, pr)
  PROVE  PairSafe(pa, q, fi \cup {rq.n}, {}, af, rq2, rs, em2, sh)
<1>0. PairTyped(pa, pk, rq, rs, em, sh) /\ em \in Seq(Pairs) /\ pk \subseteq Pairs /\ Run(q, rq.n)
  BY DEF PairSafe, PairTyped, Queued
<1>1. rq.n \in Nat /\ ~InBody(rq2) /\ Reading(rq) /\ Reading(rq2) /\ (Ended(rq) <=> Ended(rq2))
  BY <1>0, PairNumbers DEF InBody, Ended, Reading
<1>2. em2 \in Seq(Pairs) /\ ToSet(em2) = ToSet(em) \cup pk
      /\ \A i, j \in DOMAIN em2 : i # j => em2[i][1] # em2[j][1] /\ em2[i][2] # em2[j][2]
  <2>1. CASE pk = {} /\ em2 = em
    BY <1>0, <2>1 DEF PairSafe, Once
  <2>2. CASE \E pr \in pk : em2 = Append(em, pr)
    <3>1. PICK pr \in pk : em2 = Append(em, pr)
      BY <2>2
    <3>2. pk = {pr} /\ pr \in Pairs
      BY <1>0 DEF PairSafe, Once
    <3>3. /\ \A i, j \in DOMAIN em : i # j => em[i][1] # em[j][1] /\ em[i][2] # em[j][2]
          /\ \A y \in ToSet(em) : pr[1] # y[1] /\ pr[2] # y[2]
      BY DEF PairSafe, Once
    <3>4. em2 \in Seq(Pairs) /\ ToSet(em2) = ToSet(em) \cup pk
      BY <1>0, <3>1, <3>2, EntrySets
    <3> QED BY <1>0, <3>1, <3>2, <3>3, <3>4, OnceMore
  <2> QED BY <2>1, <2>2
<1>3. PairTyped(pa, {}, rq2, rs, em2, sh)
  BY <1>0, <1>2 DEF PairTyped
<1>4. Queued(q, fi \cup {rq.n}, rq2)
  <2>1. fi = 1 .. rq.n - 1
    BY DEF PairSafe, Queued
  <2>2. rq.n # 0 => (1 .. rq.n - 1) \cup {rq.n} = 1 .. rq.n
    BY <1>1
  <2>3. rq.n # 0
    BY DEF PairSafe, Queued
  <2> QED BY <1>0, <1>1, <2>1, <2>2, <2>3 DEF Queued
<1>5. Taken(q, {}, rq2, rs, em2) /\ Right({}, rs, em2, sh)
  BY <1>2 DEF PairSafe, Taken, Right
<1>6. Once({}, rq2, em2)
  BY <1>2 DEF Once
<1>7. Aligned(q, rq2, rs, sh) /\ Counted(pa, af, rq2, rs) /\ Peeked(pa, rq2, rs, sh)
  BY <1>1 DEF PairSafe, Aligned, Counted, Peeked
<1> QED BY <1>3, <1>4, <1>5, <1>6, <1>7 DEF PairSafe

\* A segment is missing and the FIFO is purged.
LEMMA RequestGapSafe ==
  ASSUME NEW pa, NEW q, NEW fi, NEW pk, NEW af, NEW rq, NEW rs, NEW em, NEW sh,
         PairSafe(pa, q, fi, pk, af, rq, rs, em, sh), rq.at \in {"head", "body"},
         NEW rq2 \in ReqState, rq2.n = rq.n,
         rq2.at = IF rq.at = "body" THEN "cut" ELSE "gone"
  PROVE  PairSafe(pa, <<>>, fi, pk, af, rq2, rs, em, sh)
<1>0. PairTyped(pa, pk, rq, rs, em, sh) /\ Run(q, rq.n)
  BY DEF PairSafe, PairTyped, Queued
<1>1. /\ rq.n \in Nat /\ (InBody(rq2) <=> InBody(rq)) /\ Reading(rq) /\ Reading(rq2)
      /\ ~Ended(rq) /\ Ended(rq2)
  BY <1>0, PairNumbers DEF InBody, Ended, Reading
<1>2. Run(<<>>, rq.n) /\ Len(q) \in Nat /\ Len(<<>>) = 0
  BY <1>0, <1>1, RunEmpty DEF Run
<1>3. PairTyped(pa, pk, rq2, rs, em, sh) /\ Queued(<<>>, fi, rq2)
  BY <1>0, <1>1, <1>2 DEF PairTyped, PairSafe, Queued
<1>4. Taken(<<>>, pk, rq2, rs, em)
  BY <1>0, <1>1, <1>2, PairNumbers DEF PairSafe, Taken
<1>5. Once(pk, rq2, em) /\ Aligned(<<>>, rq2, rs, sh)
  BY <1>1 DEF PairSafe, Once, Aligned
<1>6. Counted(pa, af, rq2, rs) /\ Peeked(pa, rq2, rs, sh)
  BY <1>1 DEF PairSafe, Counted, Peeked
<1> QED BY <1>3, <1>4, <1>5, <1>6 DEF PairSafe

LEMMA ResponseGapSafe ==
  ASSUME NEW pa, NEW q, NEW fi, NEW pk, NEW af, NEW rq, NEW rs, NEW em, NEW sh,
         PairSafe(pa, q, fi, pk, af, rq, rs, em, sh), rs.at \in {"head", "body"},
         NEW rs2 \in RespState, rs2.n = rs.n, rs2.try = rs.try,
         \/ rs.at = "body" /\ rs2.at = "cut" /\ rs2.cut = rs.n + 1
         \/ rs2.at = "gone" /\ rs2.cut = rs.cut
  PROVE  PairSafe(pa, <<>>, fi, pk, af, rq, rs2, em, sh)
<1>0. PairTyped(pa, pk, rq, rs, em, sh) /\ Run(q, rq.n) /\ Numbered(rs)
  BY DEF PairSafe, PairTyped, Queued
<1>1. /\ rq.n \in Nat /\ rs.n \in Int /\ Dealt(rs2) = rs.n /\ Dealt(rs) = rs.n
      /\ Reading(rs) /\ Reading(rs2) /\ rs.cut = None
  BY <1>0, PairNumbers DEF Numbered, Dealt, Reading
<1>2. Run(<<>>, rq.n) /\ Len(q) \in Nat /\ Len(<<>>) = 0
  BY <1>0, <1>1, RunEmpty DEF Run
<1>3. PairTyped(pa, pk, rq, rs2, em, sh) /\ Queued(<<>>, fi, rq)
  BY <1>0, <1>1, <1>2 DEF PairTyped, PairSafe, Queued
<1>4. Taken(<<>>, pk, rq, rs2, em)
  BY <1>0, <1>1, <1>2, PairNumbers DEF PairSafe, Taken
<1>5. Aligned(<<>>, rq, rs2, sh) /\ Numbered(rs2)
  <2>1. rs2.at = "gone" \/ rs2.cut # None
    <3>1. rs.n + 1 \in Nat /\ None \notin Nat
      BY <1>0, PairNumbers
    <3> QED BY <3>1
  <2>2. Numbered(rs2)
    BY <1>0, <1>1 DEF Numbered
  <2> QED BY <2>1, <2>2 DEF Aligned
<1>6. Right(pk, rs2, em, sh)
  <2>1. \A x \in ToSet(em) \cup pk : x[2] # rs.cut
    BY <1>0, <1>1, PairNumbers
  <2> QED BY <2>1 DEF PairSafe, Right
<1>7. Counted(pa, af, rq, rs2) /\ Peeked(pa, rq, rs2, sh)
  BY <1>1 DEF PairSafe, Counted, Peeked
<1> QED BY <1>3, <1>4, <1>5, <1>6, <1>7 DEF PairSafe

-----------------------------------------------------------------------------
(* From a connection to all of them.                                       *)

\* A step leaves everything of connection j alone.
Same(j) ==
  /\ path'[j] = path[j] /\ Queue(j)' = Queue(j) /\ filled'[j] = filled[j]
  /\ parked'[j] = parked[j] /\ afPacketStreams'[j] = afPacketStreams[j]
  /\ req'[j] = req[j] /\ resp'[j] = resp[j] /\ emitted'[j] = emitted[j]
  /\ shifted'[j] = shifted[j]

LEMMA SameSafe == ASSUME NEW j, KeySafe(j), Same(j) PROVE KeySafe(j)'
BY DEF KeySafe, Same

LEMMA OneKey ==
  ASSUME PairsSafe, PairsShaped', NEW k \in Keys, KeySafe(k)', \A j \in Keys \ {k} : Same(j)
  PROVE  PairsSafe'
<1>1. \A j \in Keys \ {k} : KeySafe(j)'
  BY SameSafe DEF PairsSafe
<1> QED BY <1>1 DEF PairsSafe

LEMMA SameQueue == ASSUME NEW j, conns'[j] = conns[j] PROVE Queue(j)' = Queue(j)
BY DEF Queue

LEMMA ReqUpdate ==
  ASSUME NEW g \in ReqState, NEW a \in Stages
  PROVE  /\ [g EXCEPT !.at = a] \in ReqState
         /\ [g EXCEPT !.at = a].at = a /\ [g EXCEPT !.at = a].n = g.n
BY DEF ReqState

LEMMA ReqMoves ==
  ASSUME PairsSafe, NEW k \in Keys, NEW rq2 \in ReqState, req' = [req EXCEPT ![k] = rq2],
         NEW a2, afPacketStreams' = [afPacketStreams EXCEPT ![k] = a2],
         UNCHANGED <<path, conns, filled, parked, resp, old, gcRun, emitted, shifted>>,
         rq2.n = req[k].n, ~InBody(req[k]), ~InBody(rq2), Ended(req[k]) => Ended(rq2),
         Counted(path[k], a2, rq2, resp[k])
  PROVE  PairsSafe'
<1>1. PairsShaped'
  BY DEF PairsSafe, PairsShaped
<1>2. req'[k] = rq2 /\ afPacketStreams'[k] = a2 /\ Queue(k)' = Queue(k)
  BY SameQueue DEF PairsSafe, PairsShaped
<1>3. \A j \in Keys \ {k} : Same(j)
  BY SameQueue DEF PairsSafe, PairsShaped, Same
<1>4. KeySafe(k) /\ Peeked(path[k], req[k], resp[k], shifted[k]) /\ Numbered(resp[k])
      /\ resp[k] \in RespState
  BY DEF PairsSafe, KeySafe, PairSafe, PairTyped
<1>5. Peeked(path[k], rq2, resp[k], shifted[k])
  BY <1>4 DEF Peeked
<1>6. PairSafe(path[k], Queue(k), filled[k], parked[k], a2, rq2, resp[k], emitted[k], shifted[k])
  BY <1>4, <1>5, MoveSafe DEF KeySafe
<1>7. KeySafe(k)'
  BY <1>2, <1>6 DEF KeySafe
<1> QED BY <1>1, <1>3, <1>7, OneKey

LEMMA RespMoves ==
  ASSUME PairsSafe, NEW k \in Keys, NEW rs2 \in RespState, resp' = [resp EXCEPT ![k] = rs2],
         NEW a2, afPacketStreams' = [afPacketStreams EXCEPT ![k] = a2],
         UNCHANGED <<path, conns, filled, parked, req, old, gcRun, emitted, shifted>>,
         rs2.at \notin {"gone", "done"} => resp[k].at \notin {"gone", "done"},
         Dealt(rs2) = Dealt(resp[k]), rs2.cut = resp[k].cut,
         Numbered(rs2), Counted(path[k], a2, req[k], rs2),
         Peeked(path[k], req[k], rs2, shifted[k])
  PROVE  PairsSafe'
<1>1. PairsShaped'
  BY DEF PairsSafe, PairsShaped
<1>2. resp'[k] = rs2 /\ afPacketStreams'[k] = a2 /\ Queue(k)' = Queue(k)
  BY SameQueue DEF PairsSafe, PairsShaped
<1>3. \A j \in Keys \ {k} : Same(j)
  BY SameQueue DEF PairsSafe, PairsShaped, Same
<1>4. KeySafe(k) /\ req[k] \in ReqState
  BY DEF PairsSafe, KeySafe, PairSafe, PairTyped
<1>6. PairSafe(path[k], Queue(k), filled[k], parked[k], a2, req[k], rs2, emitted[k], shifted[k])
  BY <1>4, MoveSafe DEF KeySafe
<1>7. KeySafe(k)'
  BY <1>2, <1>6 DEF KeySafe
<1> QED BY <1>1, <1>3, <1>7, OneKey

\* What is known of connection k.
LEMMA KeyFacts ==
  ASSUME PairsSafe, NEW k \in Keys
  PROVE  /\ KeySafe(k) /\ req[k] \in ReqState /\ resp[k] \in RespState
         /\ PairTyped(path[k], parked[k], req[k], resp[k], emitted[k], shifted[k])
         /\ Counted(path[k], afPacketStreams[k], req[k], resp[k])
         /\ Queued(Queue(k), filled[k], req[k]) /\ Numbered(resp[k])
         /\ Aligned(Queue(k), req[k], resp[k], shifted[k])
         /\ Peeked(path[k], req[k], resp[k], shifted[k])
BY DEF PairsSafe, KeySafe, PairSafe, PairTyped

LEMMA RequestsMove ==
  ASSUME PairsSafe, NEW k \in Keys, StartRequests(k) \/ StopRequests(k) \/ EndRequests(k)
  PROVE  PairsSafe'
<1> DEFINE stage == IF req[k].at = "new" THEN "head" ELSE IF req[k].at = "head" THEN "gone" ELSE "done"
           rq2 == [req[k] EXCEPT !.at = stage]
           af == afPacketStreams[k]
           a2 == IF path[k] = "tls" THEN af ELSE
                 IF req[k].at = "new" THEN af + 1 ELSE IF req[k].at = "head" THEN af ELSE af - 1
<1>1. /\ req[k].at \in {"new", "head", "gone"}
      /\ req' = [req EXCEPT ![k].at = stage]
      /\ afPacketStreams' = [afPacketStreams EXCEPT ![k] = a2]
      /\ UNCHANGED <<path, conns, filled, parked, resp, old, gcRun, emitted, shifted>>
  <2>1. CASE StartRequests(k)
    BY <2>1 DEF StartRequests, ReqAt, addAFPacketStream, wireVars, gcVars
  <2>2. CASE StopRequests(k)
    <3>1. afPacketStreams = [afPacketStreams EXCEPT ![k] = af]
      BY DEF PairsSafe, PairsShaped
    <3> QED BY <2>2, <3>1 DEF StopRequests, ReqAt, wireVars, gcVars
  <2>3. CASE EndRequests(k)
    BY <2>3 DEF EndRequests, ReqAt, removeAFPacketStream, wireVars, gcVars
  <2> QED BY <2>1, <2>2, <2>3
<1>2. stage \in Stages /\ req' = [req EXCEPT ![k] = rq2]
  BY <1>1 DEF Stages, PairsSafe, PairsShaped
<1>3. rq2 \in ReqState /\ rq2.at = stage /\ rq2.n = req[k].n
  BY <1>2, KeyFacts, ReqUpdate
<1>4. Counted(path[k], a2, rq2, resp[k])
  BY <1>1, <1>3, KeyFacts DEF Counted, Reading
<1>5. ~InBody(req[k]) /\ ~InBody(rq2) /\ (Ended(req[k]) => Ended(rq2))
  BY <1>1, <1>3 DEF InBody, Ended
<1> HIDE DEF rq2, a2, stage
<1> QED BY <1>1, <1>2, <1>3, <1>4, <1>5, ReqMoves

LEMMA RespFields ==
  ASSUME PairsSafe, NEW k \in Keys
  PROVE  /\ resp[k].at \in Stages /\ resp[k].n \in -1 .. MaxRequests
         /\ resp[k].try \in 0 .. completeResponsePairRetries
         /\ resp[k].peek \in Requests \cup {None} /\ resp[k].cut \in Responses \cup {None}
BY KeyFacts DEF RespState

LEMMA ResponsesMove ==
  ASSUME PairsSafe, NEW k \in Keys, StartResponses(k) \/ StopResponses(k) \/ EndResponses(k)
  PROVE  PairsSafe'
<1> DEFINE r == resp[k]
           stage == IF r.at = "new" THEN "head" ELSE IF r.at = "head" THEN "gone" ELSE "done"
           rs2 == [r EXCEPT !.at = stage]
           af == afPacketStreams[k]
           a2 == IF path[k] = "tls" THEN af ELSE
                 IF r.at = "new" THEN af + 1 ELSE IF r.at = "head" THEN af ELSE af - 1
<1>1. /\ r.at \in {"new", "head", "gone"}
      /\ resp' = [resp EXCEPT ![k].at = stage]
      /\ afPacketStreams' = [afPacketStreams EXCEPT ![k] = a2]
      /\ UNCHANGED <<path, conns, filled, parked, req, old, gcRun, emitted, shifted>>
  <2>1. CASE StartResponses(k)
    BY <2>1 DEF StartResponses, RespAt, addAFPacketStream, wireVars, gcVars
  <2>2. CASE StopResponses(k)
    <3>1. afPacketStreams = [afPacketStreams EXCEPT ![k] = af]
      BY DEF PairsSafe, PairsShaped
    <3> QED BY <2>2, <3>1 DEF StopResponses, RespAt, wireVars, gcVars
  <2>3. CASE EndResponses(k)
    BY <2>3 DEF EndResponses, RespAt, removeAFPacketStream, wireVars, gcVars
  <2> QED BY <2>1, <2>2, <2>3
<1>2. stage \in Stages
  BY DEF Stages
<1>4. resp' = [resp EXCEPT ![k] = rs2]
  BY <1>1 DEF PairsSafe, PairsShaped
<1>5. rs2 \in RespState /\ rs2.at = stage /\ rs2.n = r.n /\ rs2.try = r.try /\ rs2.cut = r.cut
  <2>1. r \in RespState
    BY KeyFacts
  <2> HIDE DEF stage, r
  <2> QED BY <1>2, <2>1 DEF RespState
<1> HIDE DEF rs2
<1>6. Counted(path[k], a2, req[k], rs2)
  BY <1>1, <1>5, KeyFacts DEF Counted, Reading
<1>7. Numbered(rs2) /\ Dealt(rs2) = Dealt(r) /\ Peeked(path[k], req[k], rs2, shifted[k])
  BY <1>1, <1>5, KeyFacts DEF Numbered, Dealt, Peeked
<1>8. rs2.at \notin {"gone", "done"} => r.at \notin {"gone", "done"}
  BY <1>1, <1>5
<1> HIDE DEF a2, stage
<1> QED BY <1>1, <1>4, <1>5, <1>6, <1>7, <1>8, RespMoves

\* The steps of the response goroutine between two responses.
LEMMA PeekStep ==
  ASSUME PairsSafe, NEW k \in Keys, peekPendingMethod(k) PROVE PairsSafe'
<1> DEFINE r == resp[k]
           p == IF Queue(k) = <<>> THEN None ELSE Head(Queue(k))
           rs2 == [r EXCEPT !.at = "body", !.peek = p]
<1>1. /\ r.at = "head" /\ OnTheWire(k, r.n + 1)
      /\ resp' = [resp EXCEPT ![k].at = "body", ![k].peek = p]
      /\ UNCHANGED <<path, conns, filled, parked, afPacketStreams, req, old, gcRun, emitted, shifted>>
  BY DEF peekPendingMethod, wireVars, gcVars
<1>2. /\ req[k].n \in 0 .. MaxRequests /\ r.n \in -1 .. MaxRequests /\ Run(Queue(k), req[k].n)
      /\ MaxRequests \in Nat
  BY KeyFacts, RespFields, PairingAssumption DEF ReqState, Queued
<1>3. Queue(k) # <<>> => /\ Head(Queue(k)) = req[k].n - Len(Queue(k)) + 1
                         /\ Len(Queue(k)) \in Nat \ {0} /\ Len(Queue(k)) <= req[k].n
  <2> SUFFICES ASSUME Queue(k) # <<>>
               PROVE  /\ Head(Queue(k)) = req[k].n - Len(Queue(k)) + 1
                      /\ Len(Queue(k)) \in Nat \ {0} /\ Len(Queue(k)) <= req[k].n
    OBVIOUS
  <2>1. req[k].n \in Nat /\ Run(Queue(k), req[k].n)
    BY <1>2
  <2>2. Len(Queue(k)) <= req[k].n
    BY <2>1 DEF Run
  <2> QED BY <2>1, <2>2, RunTail
<1>4. p \in Requests \cup {None}
  BY <1>2, <1>3 DEF Requests
<1>6. resp' = [resp EXCEPT ![k] = rs2]
  BY <1>1 DEF PairsSafe, PairsShaped
<1>7. /\ rs2 \in RespState /\ rs2.at = "body" /\ rs2.n = r.n /\ rs2.try = r.try /\ rs2.cut = r.cut
      /\ rs2.peek = p
  <2>1. "body" \in Stages /\ r \in RespState
    BY KeyFacts DEF Stages
  <2> HIDE DEF p, r
  <2> QED BY <1>4, <2>1 DEF RespState
<1> HIDE DEF rs2
<1>8. Counted(path[k], afPacketStreams[k], req[k], rs2)
  BY <1>1, <1>7, KeyFacts DEF Counted, Reading
<1>9. r.n < MaxRequests /\ (path[k] = "tls" \/ r.n + 1 <= req[k].n \/ Ended(req[k]))
  BY <1>1, <1>2 DEF OnTheWire, RequestsLost, Ended
<1>10. Numbered(rs2) /\ Dealt(rs2) = r.n /\ Dealt(r) = r.n
  BY <1>1, <1>7, <1>9, KeyFacts DEF Numbered, Dealt
<1>11. Peeked(path[k], req[k], rs2, shifted[k])
  <2> SUFFICES ASSUME r.n >= 0, path[k] = "afpacket", ~shifted[k]
               PROVE  p = r.n + 1 \/ (p = None /\ Ended(req[k]))
    BY <1>7 DEF Peeked
  <2>1. \/ Queue(k) = <<>> /\ Ended(req[k])
        \/ r.n <= req[k].n /\ Len(Queue(k)) = req[k].n - r.n
    BY <1>1, <1>2, <1>10, KeyFacts DEF Aligned, Numbered
  <2>2. Queue(k) = <<>> => Len(Queue(k)) = 0
    OBVIOUS
  <2> QED BY <1>2, <1>3, <1>9, <2>1, <2>2
<1>12. afPacketStreams' = [afPacketStreams EXCEPT ![k] = afPacketStreams[k]]
  BY <1>1 DEF PairsSafe, PairsShaped
<1>13. /\ UNCHANGED <<path, conns, filled, parked, req, old, gcRun, emitted, shifted>>
       /\ resp[k].at \notin {"gone", "done"} /\ Dealt(rs2) = Dealt(resp[k])
       /\ rs2 \in RespState /\ rs2.cut = resp[k].cut /\ Numbered(rs2)
  BY <1>1, <1>7, <1>10
<1> HIDE DEF p, r
<1> QED BY ONLY PairsSafe, k \in Keys, <1>6, <1>8, <1>11, <1>12, <1>13, RespMoves, ZenonT(60)

LEMMA SkipStep ==
  ASSUME PairsSafe, NEW k \in Keys, SkipInterim(k) PROVE PairsSafe'
<1> DEFINE r == resp[k]
           rs2 == [r EXCEPT !.at = "head", !.peek = None]
<1>1. /\ r.at = "body" /\ resp' = [resp EXCEPT ![k].at = "head", ![k].peek = None]
      /\ UNCHANGED <<path, conns, filled, parked, afPacketStreams, req, old, gcRun, emitted, shifted>>
  BY DEF SkipInterim, wireVars, gcVars
<1>2. resp' = [resp EXCEPT ![k] = rs2]
      /\ afPacketStreams' = [afPacketStreams EXCEPT ![k] = afPacketStreams[k]]
  BY <1>1 DEF PairsSafe, PairsShaped
<1>3. rs2 \in RespState /\ rs2.at = "head" /\ rs2.n = r.n /\ rs2.try = r.try /\ rs2.cut = r.cut
  <2>1. "head" \in Stages /\ None \in Requests \cup {None} /\ r \in RespState
    BY KeyFacts DEF Stages
  <2> HIDE DEF r
  <2> QED BY <2>1 DEF RespState
<1> HIDE DEF rs2
<1>4. Counted(path[k], afPacketStreams[k], req[k], rs2)
  BY <1>1, <1>3, KeyFacts DEF Counted, Reading
<1>5. Numbered(rs2) /\ Dealt(rs2) = Dealt(r) /\ Peeked(path[k], req[k], rs2, shifted[k])
  BY <1>1, <1>3, KeyFacts DEF Numbered, Dealt, Peeked
<1> QED BY <1>1, <1>2, <1>3, <1>4, <1>5, RespMoves

LEMMA ReadStep ==
  ASSUME PairsSafe, NEW k \in Keys, ReadResponse(k) PROVE PairsSafe'
<1> DEFINE r == resp[k]
           m == r.n + 1
           rs2 == [r EXCEPT !.at = "pairing", !.n = m, !.peek = None]
<1>1. /\ r.at \in {"body", "cut"}
      /\ resp' = [resp EXCEPT ![k].at = "pairing", ![k].n = @ + 1, ![k].peek = None]
      /\ UNCHANGED <<path, conns, filled, parked, afPacketStreams, req, old, gcRun, emitted, shifted>>
  BY DEF ReadResponse, wireVars, gcVars
<1>2. resp' = [resp EXCEPT ![k] = rs2]
      /\ afPacketStreams' = [afPacketStreams EXCEPT ![k] = afPacketStreams[k]]
  BY <1>1 DEF PairsSafe, PairsShaped
<1>3. m \in 0 .. MaxRequests /\ m \in -1 .. MaxRequests /\ m - 1 = r.n
  BY <1>1, KeyFacts, RespFields, PairingAssumption DEF Numbered
<1>4. rs2 \in RespState /\ rs2.at = "pairing" /\ rs2.n = m /\ rs2.try = r.try /\ rs2.cut = r.cut
  <2>1. "pairing" \in Stages /\ None \in Requests \cup {None} /\ r \in RespState
    BY KeyFacts DEF Stages
  <2> HIDE DEF r, m
  <2> QED BY <1>3, <2>1 DEF RespState
<1> HIDE DEF rs2
<1>5. Counted(path[k], afPacketStreams[k], req[k], rs2)
  BY <1>1, <1>4, KeyFacts DEF Counted, Reading
<1>6. Numbered(rs2) /\ Dealt(rs2) = Dealt(r) /\ Peeked(path[k], req[k], rs2, shifted[k])
  BY <1>1, <1>3, <1>4, KeyFacts DEF Numbered, Dealt, Peeked
<1> QED BY <1>1, <1>2, <1>4, <1>5, <1>6, RespMoves

LEMMA RetryStep ==
  ASSUME PairsSafe, NEW k \in Keys, CompleteRetry(k) PROVE PairsSafe'
<1> DEFINE r == resp[k]
           y == r.try + 1
           rs2 == [r EXCEPT !.try = y]
<1>1. /\ r.at = "pairing" /\ afPacketStreams[k] = 0 /\ r.try < completeResponsePairRetries
      /\ resp' = [resp EXCEPT ![k].try = @ + 1]
      /\ UNCHANGED <<path, conns, filled, parked, afPacketStreams, req, old, gcRun, emitted, shifted>>
  BY DEF CompleteRetry, WaitForPair, wireVars, gcVars
<1>2. resp' = [resp EXCEPT ![k] = rs2]
      /\ afPacketStreams' = [afPacketStreams EXCEPT ![k] = afPacketStreams[k]]
  BY <1>1 DEF PairsSafe, PairsShaped
<1>3. y \in 0 .. completeResponsePairRetries
  BY <1>1, RespFields, PairingAssumption
<1>4. rs2 \in RespState /\ rs2.at = r.at /\ rs2.n = r.n /\ rs2.peek = r.peek /\ rs2.cut = r.cut
  <2>1. r \in RespState
    BY KeyFacts
  <2> HIDE DEF r, y
  <2> QED BY <1>3, <2>1 DEF RespState
<1> HIDE DEF rs2
<1>5. Counted(path[k], afPacketStreams[k], req[k], rs2)
  <2>1. path[k] = "tls"
    BY <1>1, KeyFacts DEF Counted, Reading
  <2> QED BY <1>1, <2>1 DEF Counted
<1>6. Numbered(rs2) /\ Dealt(rs2) = Dealt(r) /\ Peeked(path[k], req[k], rs2, shifted[k])
  BY <1>1, <1>4, KeyFacts DEF Numbered, Dealt, Peeked
<1> QED BY <1>1, <1>2, <1>4, <1>5, <1>6, RespMoves

\* completeResponse, after which it waits for the next response or has ended.
LEMMA CompletedUpdate ==
  ASSUME PairsSafe, NEW k \in Keys, Completed(k)
  PROVE  /\ resp' \in [Keys -> RespState] /\ \A j \in Keys \ {k} : resp'[j] = resp[j]
         /\ resp'[k].at = (IF resp[k].cut = None THEN "head" ELSE "gone")
         /\ resp'[k].n = resp[k].n /\ resp'[k].try = 0 /\ resp'[k].cut = resp[k].cut
<1> DEFINE r == resp[k]
           a == IF r.cut = None THEN "head" ELSE "gone"
           rs2 == [r EXCEPT !.at = a, !.try = 0]
<1>1. resp' = [resp EXCEPT ![k] = rs2]
  BY DEF Completed, PairsSafe, PairsShaped
<1>2. rs2 \in RespState /\ rs2.at = a /\ rs2.n = r.n /\ rs2.try = 0 /\ rs2.cut = r.cut
  <2>1. a \in Stages /\ 0 \in 0 .. completeResponsePairRetries /\ r \in RespState
    BY KeyFacts, PairingAssumption DEF Stages
  <2> HIDE DEF r, a
  <2> QED BY <2>1 DEF RespState
<1> HIDE DEF rs2
<1> QED BY <1>1, <1>2 DEF PairsSafe, PairsShaped

LEMMA QueueSet ==
  ASSUME PairsSafe, NEW k \in Keys, NEW x \in Seq(Nat), conns' = [conns EXCEPT ![k] = x]
  PROVE  /\ Queue(k)' = x /\ conns' \in [Keys -> Seq(Nat) \cup {None}]
         /\ \A j \in Keys \ {k} : Queue(j)' = Queue(j)
<1>1. conns'[k] = x /\ x # None
  BY PairingAssumption DEF PairsSafe, PairsShaped
<1>2. \A j \in Keys \ {k} : conns'[j] = conns[j]
  BY DEF PairsSafe, PairsShaped
<1>3. conns' \in [Keys -> Seq(Nat) \cup {None}]
  BY DEF PairsSafe, PairsShaped
<1> QED BY <1>1, <1>2, <1>3 DEF Queue

LEMMA QueueGone ==
  ASSUME PairsSafe, NEW k \in Keys, conns' = [conns EXCEPT ![k] = None]
  PROVE  /\ Queue(k)' = <<>> /\ conns' \in [Keys -> Seq(Nat) \cup {None}]
         /\ \A j \in Keys \ {k} : Queue(j)' = Queue(j)
<1>1. conns'[k] = None /\ \A j \in Keys \ {k} : conns'[j] = conns[j]
  BY DEF PairsSafe, PairsShaped
<1>2. conns' \in [Keys -> Seq(Nat) \cup {None}]
  BY DEF PairsSafe, PairsShaped
<1> QED BY <1>1, <1>2 DEF Queue

LEMMA PopStep ==
  ASSUME PairsSafe, NEW k \in Keys, CompletePop(k) PROVE PairsSafe'
<1> DEFINE q == Queue(k)
           pr == <<Head(q), resp[k].n>>
           em2 == emitted'[k]
           pk2 == parked'[k]
<1>1. /\ resp[k].at = "pairing" /\ q # <<>> /\ conns' = [conns EXCEPT ![k] = Tail(q)]
      /\ IF pr[1] \in filled[k]
         THEN emitted' = [emitted EXCEPT ![k] = Append(@, pr)] /\ parked' = parked
         ELSE parked' = [parked EXCEPT ![k] = @ \cup {pr}] /\ emitted' = emitted
      /\ Completed(k)
      /\ shifted' = [shifted EXCEPT ![k] = @ \/ resp[k].n = 0]
      /\ UNCHANGED <<path, filled, afPacketStreams, req, old, gcRun>>
  BY DEF CompletePop, wireVars, gcVars
<1>2. /\ resp' \in [Keys -> RespState] /\ \A j \in Keys \ {k} : resp'[j] = resp[j]
      /\ resp'[k].at = (IF resp[k].cut = None THEN "head" ELSE "gone")
      /\ resp'[k].n = resp[k].n /\ resp'[k].try = 0 /\ resp'[k].cut = resp[k].cut
  BY <1>1, CompletedUpdate
<1>3. Tail(q) \in Seq(Nat)
  <2>1. q \in Seq(Nat) /\ q # <<>>
    BY <1>1, KeyFacts DEF Queued, Run
  <2> HIDE DEF q
  <2> QED BY ONLY <2>1
<1>4. /\ Queue(k)' = Tail(q) /\ conns' \in [Keys -> Seq(Nat) \cup {None}]
      /\ \A j \in Keys \ {k} : Queue(j)' = Queue(j)
  <2> HIDE DEF q
  <2> QED BY <1>1, <1>3, QueueSet
<1>5. IF pr[1] \in filled[k] THEN em2 = Append(emitted[k], pr) /\ pk2 = parked[k]
                             ELSE em2 = emitted[k] /\ pk2 = parked[k] \cup {pr}
  <2> HIDE DEF pr, q
  <2> QED BY <1>1 DEF PairsSafe, PairsShaped
<1>6. /\ emitted' = [j \in Keys |-> emitted'[j]] /\ parked' = [j \in Keys |-> parked'[j]]
      /\ \A j \in Keys \ {k} : emitted'[j] = emitted[j] /\ parked'[j] = parked[j]
  <2> HIDE DEF pr, q
  <2> QED BY <1>1 DEF PairsSafe, PairsShaped
<1>7. /\ shifted' = [j \in Keys |-> shifted'[j]] /\ shifted'[k] \in BOOLEAN
      /\ \A j \in Keys \ {k} : shifted'[j] = shifted[j]
      /\ shifted'[k] <=> (shifted[k] \/ resp[k].n = 0)
  <2> HIDE DEF pr, q
  <2>1. shifted = [j \in Keys |-> shifted[j]]
    BY DEF PairsSafe, PairsShaped
  <2>2. shifted'[k] = (shifted[k] \/ resp[k].n = 0)
    BY <1>1, <2>1
  <2> QED BY <1>1, <2>1, <2>2
<1>8. PairsShaped'
  BY <1>1, <1>2, <1>4, <1>6, <1>7 DEF PairsSafe, PairsShaped
<1>9. \A j \in Keys \ {k} : Same(j)
  BY <1>1, <1>2, <1>4, <1>6, <1>7 DEF Same
<1>10. PairSafe(path[k], Tail(q), filled[k], pk2, afPacketStreams[k], req[k], resp'[k], em2,
                shifted'[k])
  <2>1. PairSafe(path[k], q, filled[k], parked[k], afPacketStreams[k], req[k], resp[k],
                 emitted[k], shifted[k])
    BY KeyFacts DEF KeySafe
  <2>2. resp'[k] \in RespState
    BY <1>2
  <2>3. pr = <<Head(q), resp[k].n>>
    OBVIOUS
  <2> HIDE DEF q, em2, pk2, pr
  <2>4. resp[k].at = "pairing" /\ q # <<>>
    BY <1>1
  <2>5. shifted'[k] \in BOOLEAN /\ (shifted'[k] <=> (shifted[k] \/ resp[k].n = 0))
    BY <1>7
  <2>6. /\ resp'[k].at = (IF resp[k].cut = None THEN "head" ELSE "gone")
        /\ resp'[k].try = 0 /\ resp'[k].n = resp[k].n /\ resp'[k].cut = resp[k].cut
    BY <1>2
  <2> QED BY ONLY <1>5, <2>1, <2>2, <2>3, <2>4, <2>5, <2>6, PopSafe, SMTT(30)
<1>11. KeySafe(k)'
  BY <1>1, <1>4, <1>10 DEF KeySafe
<1> QED BY <1>8, <1>9, <1>11, OneKey

LEMMA DropStep ==
  ASSUME PairsSafe, NEW k \in Keys, CompleteDrop(k) PROVE PairsSafe'
<1>1. /\ resp[k].at = "pairing" /\ Queue(k) = <<>> /\ Completed(k)
      /\ shifted' = [shifted EXCEPT ![k] = @ \/ (resp[k].n > req[k].n /\ ~Ended(req[k]))]
      /\ UNCHANGED <<path, conns, filled, parked, afPacketStreams, req, old, gcRun, emitted>>
  BY DEF CompleteDrop, wireVars, gcVars, RequestsLost, Ended
<1>2. /\ resp' \in [Keys -> RespState] /\ \A j \in Keys \ {k} : resp'[j] = resp[j]
      /\ resp'[k].at = (IF resp[k].cut = None THEN "head" ELSE "gone")
      /\ resp'[k].n = resp[k].n /\ resp'[k].try = 0 /\ resp'[k].cut = resp[k].cut
  BY <1>1, CompletedUpdate
<1>3. /\ shifted' = [j \in Keys |-> shifted'[j]] /\ shifted'[k] \in BOOLEAN
      /\ \A j \in Keys \ {k} : shifted'[j] = shifted[j]
      /\ shifted'[k] <=> (shifted[k] \/ (resp[k].n > req[k].n /\ ~Ended(req[k])))
  <2> DEFINE b == resp[k].n > req[k].n /\ ~Ended(req[k])
  <2>1. shifted = [j \in Keys |-> shifted[j]]
    BY DEF PairsSafe, PairsShaped
  <2>2. shifted' = [shifted EXCEPT ![k] = shifted[k] \/ b]
    BY <1>1
  <2> HIDE DEF b
  <2>3. shifted'[k] = (shifted[k] \/ b)
    BY <2>1, <2>2
  <2>4. shifted' = [j \in Keys |-> shifted'[j]] /\ \A j \in Keys \ {k} : shifted'[j] = shifted[j]
    BY <2>1, <2>2
  <2> QED BY <2>3, <2>4 DEF b
<1>4. PairsShaped'
  BY <1>1, <1>2, <1>3 DEF PairsSafe, PairsShaped
<1>5. \A j \in Keys : Queue(j)' = Queue(j)
  BY <1>1 DEF Queue
<1>6. \A j \in Keys \ {k} : Same(j)
  BY <1>1, <1>2, <1>3, <1>5 DEF Same
<1>7. PairSafe(path[k], <<>>, filled[k], parked[k], afPacketStreams[k], req[k], resp'[k],
               emitted[k], shifted'[k])
  <2>1. PairSafe(path[k], <<>>, filled[k], parked[k], afPacketStreams[k], req[k], resp[k],
                 emitted[k], shifted[k])
    BY <1>1, KeyFacts DEF KeySafe
  <2>2. resp'[k] \in RespState
    BY <1>2
  <2> QED BY <1>1, <1>2, <1>3, <2>1, <2>2, DropSafe
<1>8. KeySafe(k)'
  BY <1>1, <1>5, <1>7 DEF KeySafe
<1> QED BY <1>4, <1>6, <1>8, OneKey

\* A gap purges the FIFO of its connection and ends the direction.
LEMMA RequestGapStep ==
  ASSUME PairsSafe, NEW k \in Keys, RequestGap(k) PROVE PairsSafe'
<1> DEFINE stage == IF req[k].at = "body" THEN "cut" ELSE "gone"
           rq2 == [req[k] EXCEPT !.at = stage]
<1>1. /\ req[k].at \in {"head", "body"} /\ conns' = [conns EXCEPT ![k] = None]
      /\ req' = [req EXCEPT ![k].at = stage]
      /\ UNCHANGED <<path, filled, parked, afPacketStreams, resp, old, gcRun, emitted, shifted>>
  BY DEF RequestGap, purgePending, ReqAt, wireVars, gcVars
<1>2. stage \in Stages /\ req' = [req EXCEPT ![k] = rq2]
  BY <1>1 DEF Stages, PairsSafe, PairsShaped
<1>3. rq2 \in ReqState /\ rq2.at = stage /\ rq2.n = req[k].n
  BY <1>2, KeyFacts, ReqUpdate
<1>4. /\ Queue(k)' = <<>> /\ conns' \in [Keys -> Seq(Nat) \cup {None}]
      /\ \A j \in Keys \ {k} : Queue(j)' = Queue(j)
  BY <1>1, QueueGone
<1> HIDE DEF rq2
<1>5. /\ req' \in [Keys -> ReqState] /\ req'[k] = rq2
      /\ \A j \in Keys \ {k} : req'[j] = req[j]
  BY <1>2, <1>3 DEF PairsSafe, PairsShaped
<1>6. PairsShaped'
  BY <1>1, <1>4, <1>5 DEF PairsSafe, PairsShaped
<1>7. \A j \in Keys \ {k} : Same(j)
  BY <1>1, <1>4, <1>5 DEF Same
<1>8. PairSafe(path[k], <<>>, filled[k], parked[k], afPacketStreams[k], rq2, resp[k],
               emitted[k], shifted[k])
  BY <1>1, <1>3, KeyFacts, RequestGapSafe DEF KeySafe
<1>9. KeySafe(k)'
  BY <1>1, <1>4, <1>5, <1>8 DEF KeySafe
<1> QED BY <1>6, <1>7, <1>9, OneKey

LEMMA ResponseGapStep ==
  ASSUME PairsSafe, NEW k \in Keys, ResponseGap(k) PROVE PairsSafe'
<1> DEFINE r == resp[k]
           c == r.n + 1
           rs2 == IF r.at = "body" /\ proto[k] = "http"
                  THEN [r EXCEPT !.at = "cut", !.cut = c, !.peek = None]
                  ELSE [r EXCEPT !.at = "gone", !.peek = None]
<1>1. /\ r.at \in {"head", "body"} /\ conns' = [conns EXCEPT ![k] = None]
      /\ resp' = IF r.at = "body" /\ proto[k] = "http"
                 THEN [resp EXCEPT ![k].at = "cut", ![k].cut = c, ![k].peek = None]
                 ELSE [resp EXCEPT ![k].at = "gone", ![k].peek = None]
      /\ UNCHANGED <<path, filled, parked, afPacketStreams, req, old, gcRun, emitted, shifted>>
  BY DEF ResponseGap, purgePending, wireVars, gcVars
<1>2. /\ Queue(k)' = <<>> /\ conns' \in [Keys -> Seq(Nat) \cup {None}]
      /\ \A j \in Keys \ {k} : Queue(j)' = Queue(j)
  BY <1>1, QueueGone
<1>3. resp' = [resp EXCEPT ![k] = rs2]
  BY <1>1 DEF PairsSafe, PairsShaped
<1>4. /\ rs2 \in RespState /\ rs2.n = r.n /\ rs2.try = r.try
      /\ \/ r.at = "body" /\ rs2.at = "cut" /\ rs2.cut = r.n + 1
         \/ rs2.at = "gone" /\ rs2.cut = r.cut
  <2>1. CASE r.at = "body" /\ proto[k] = "http"
    <3>1. c \in Responses \cup {None}
      BY <2>1, KeyFacts, RespFields, PairingAssumption DEF Responses, Numbered
    <3>2. r \in RespState /\ "cut" \in Stages
      BY KeyFacts DEF Stages
    <3>3. rs2 = [r EXCEPT !.at = "cut", !.cut = c, !.peek = None]
      BY <2>1
    <3>4. /\ rs2 \in RespState /\ rs2.n = r.n /\ rs2.try = r.try /\ rs2.at = "cut" /\ rs2.cut = c
      <4> HIDE DEF r, rs2, c
      <4> QED BY ONLY <3>1, <3>2, <3>3 DEF RespState
    <3> QED BY <2>1, <3>4
  <2>2. CASE ~(r.at = "body" /\ proto[k] = "http")
    <3>2. r \in RespState /\ "gone" \in Stages
      BY KeyFacts DEF Stages
    <3>3. rs2 = [r EXCEPT !.at = "gone", !.peek = None]
      BY <2>2
    <3>4. /\ rs2 \in RespState /\ rs2.n = r.n /\ rs2.try = r.try /\ rs2.at = "gone" /\ rs2.cut = r.cut
      <4> HIDE DEF r, rs2
      <4> QED BY ONLY <3>2, <3>3 DEF RespState
    <3> QED BY <3>4
  <2> QED BY <2>1, <2>2
<1> HIDE DEF rs2
<1>5. /\ resp' \in [Keys -> RespState] /\ resp'[k] = rs2
      /\ \A j \in Keys \ {k} : resp'[j] = resp[j]
  BY <1>3, <1>4 DEF PairsSafe, PairsShaped
<1>6. PairsShaped'
  BY <1>1, <1>2, <1>5 DEF PairsSafe, PairsShaped
<1>7. \A j \in Keys \ {k} : Same(j)
  BY <1>1, <1>2, <1>5 DEF Same
<1>8. PairSafe(path[k], <<>>, filled[k], parked[k], afPacketStreams[k], req[k], rs2,
               emitted[k], shifted[k])
  <2>1. KeySafe(k)
    BY KeyFacts
  <2> QED BY <1>1, <1>4, <2>1, ResponseGapSafe DEF KeySafe
<1>9. KeySafe(k)'
  BY <1>1, <1>2, <1>5, <1>8 DEF KeySafe
<1> QED BY <1>6, <1>7, <1>9, OneKey

\* The FIFO of a connection becomes shorter, which is noted.
LEMMA Shortened ==
  ASSUME PairsSafe, NEW j \in Keys, NEW x, Queue(j)' = x, Run(x, req[j].n),
         Len(x) <= Len(Queue(j)), shifted'[j] \in BOOLEAN, shifted[j] => shifted'[j],
         Len(x) < Len(Queue(j)) => shifted'[j],
         UNCHANGED <<path, filled, parked, afPacketStreams, req, resp, emitted>>
  PROVE  KeySafe(j)'
<1>1. KeySafe(j)
  BY KeyFacts
<1>2. PairSafe(path[j], x, filled[j], parked[j], afPacketStreams[j], req[j], resp[j],
               emitted[j], shifted'[j])
  BY <1>1, ShortenSafe DEF KeySafe
<1> QED BY <1>2 DEF KeySafe

LEMMA EvictStep ==
  ASSUME PairsSafe, NEW k \in Keys, EvictedByOther(k) PROVE PairsSafe'
<1>1. /\ conns[k] # None /\ conns' = [conns EXCEPT ![k] = None]
      /\ shifted' = [shifted EXCEPT ![k] = @ \/ conns[k] # <<>>]
      /\ UNCHANGED <<path, filled, parked, afPacketStreams, req, resp, old, gcRun, emitted>>
  BY DEF EvictedByOther, wireVars, gcVars
<1>2. /\ Queue(k)' = <<>> /\ conns' \in [Keys -> Seq(Nat) \cup {None}]
      /\ \A j \in Keys \ {k} : Queue(j)' = Queue(j)
  BY <1>1, QueueGone
<1>3. shifted = [j \in Keys |-> shifted[j]] /\ shifted[k] \in BOOLEAN
  BY KeyFacts DEF PairsSafe, PairsShaped, PairTyped
<1>4. shifted'[k] = (shifted[k] \/ conns[k] # <<>>)
  BY <1>1, <1>3
<1>5. shifted' = [j \in Keys |-> shifted'[j]] /\ \A j \in Keys \ {k} : shifted'[j] = shifted[j]
  BY <1>1, <1>3
<1>6. Queue(k) = conns[k] /\ Queue(k) \in Seq(Nat) /\ req[k].n \in Nat
  BY <1>1, KeyFacts DEF Queue, Queued, Run, ReqState
<1>7. KeySafe(k)'
  <2>1. Run(<<>>, req[k].n) /\ Len(<<>>) <= Len(Queue(k))
    BY <1>6, RunEmpty
  <2>2. Len(<<>>) < Len(Queue(k)) => shifted'[k]
    <3>1. Queue(k) = <<>> => ~(Len(<<>>) < Len(Queue(k)))
      OBVIOUS
    <3> QED BY <1>4, <1>6, <3>1, Zenon
  <2>3. shifted'[k] \in BOOLEAN /\ (shifted[k] => shifted'[k])
    BY <1>4
  <2> QED BY <1>1, <1>2, <2>1, <2>2, <2>3, Shortened
<1>8. PairsShaped'
  BY <1>1, <1>2, <1>5 DEF PairsSafe, PairsShaped
<1>9. \A j \in Keys \ {k} : Same(j)
  BY <1>1, <1>2, <1>5 DEF Same
<1> QED BY <1>7, <1>8, <1>9, OneKey

\* A request is queued; the oldest one goes from a full FIFO, and one connection
\* from a full map.
LEMMA AppendStep ==
  ASSUME PairsSafe, NEW k \in Keys, req[k].at = "head", req[k].n < MaxRequests,
         appendPending(k, req[k].n + 1),
         NEW rq2 \in ReqState, rq2.n = req[k].n + 1, req' = [req EXCEPT ![k] = rq2],
         NEW fi2, filled' = [filled EXCEPT ![k] = fi2],
         \/ rq2.at = "body" /\ fi2 = filled[k]
         \/ rq2.at = "head" /\ fi2 = filled[k] \cup {req[k].n + 1},
         UNCHANGED <<path, parked, afPacketStreams, resp, old, gcRun, emitted>>
  PROVE  PairsSafe'
<1> DEFINE r == req[k].n + 1
           queued == Append(Queue(k), r)
           capped == IF Len(queued) > reqBacklogCap THEN Tail(queued) ELSE queued
           new == [conns EXCEPT ![k] = capped]
           rows == {j \in Keys : new[j] # None}
           gone2 == {j \in {k} : capped # queued}
<1>1. PICK evicted \in evictOverCapLocked(rows) :
        /\ conns' = [j \in Keys |-> IF j \in evicted THEN None ELSE new[j]]
        /\ shifted' = [j \in Keys |-> \/ shifted[j] \/ j \in gone2
                                      \/ j \in evicted /\ new[j] # <<>>]
  BY DEF appendPending
<1>2. evicted \subseteq rows
  BY DEF evictOverCapLocked
<1>3. req[k].n \in Nat /\ r \in Nat /\ Run(Queue(k), req[k].n) /\ Queue(k) \in Seq(Nat)
  BY KeyFacts DEF ReqState, Queued, Run
<1>4. Run(queued, r) /\ queued \in Seq(Nat) /\ Len(queued) \in Nat \ {0} /\ queued # <<>>
  <2>1. Run(queued, r) /\ Len(queued) = Len(Queue(k)) + 1
    BY <1>3, RunAppend
  <2>2. queued \in Seq(Nat)
    BY <1>3
  <2> HIDE DEF queued
  <2> QED BY <1>3, <2>1, <2>2
<1> HIDE DEF queued
<1>5. /\ Run(capped, r) /\ capped \in Seq(Nat) /\ Len(capped) <= Len(queued)
      /\ Len(capped) < Len(queued) => k \in gone2
  <2>1. Run(Tail(queued), r) /\ Len(Tail(queued)) = Len(queued) - 1
    BY <1>3, <1>4, RunTail
  <2>2. Tail(queued) \in Seq(Nat)
    BY <2>1 DEF Run
  <2>3. Run(capped, r) /\ capped \in Seq(Nat) /\ Len(capped) <= Len(queued)
    BY <1>4, <2>1, <2>2
  <2>4. Len(capped) < Len(queued) => capped # queued
    BY <1>4
  <2> QED BY <2>3, <2>4
<1> HIDE DEF capped
<1>6. /\ new \in [Keys -> Seq(Nat) \cup {None}] /\ new[k] = capped /\ capped # None
      /\ \A j \in Keys \ {k} : new[j] = conns[j]
  BY <1>5, PairingAssumption DEF PairsSafe, PairsShaped
<1> HIDE DEF new
<1>7. conns' \in [Keys -> Seq(Nat) \cup {None}]
  BY <1>1, <1>6
<1>8. \A j \in Keys : shifted[j] \in BOOLEAN
  BY KeyFacts DEF PairTyped
<1>9. /\ shifted' = [j \in Keys |-> shifted'[j]]
      /\ \A j \in Keys : shifted'[j] = (shifted[j] \/ j \in gone2 \/ (j \in evicted /\ new[j] # <<>>))
  <2> HIDE DEF gone2, rows
  <2> QED BY <1>1
<1>10. /\ req' \in [Keys -> ReqState] /\ req'[k] = rq2 /\ filled'[k] = fi2
       /\ filled' = [j \in Keys |-> filled'[j]]
       /\ \A j \in Keys \ {k} : req'[j] = req[j] /\ filled'[j] = filled[j]
  BY DEF PairsSafe, PairsShaped
<1>11. PairsShaped'
  BY <1>7, <1>9, <1>10 DEF PairsSafe, PairsShaped
<1>12. ASSUME NEW j \in Keys \ {k} PROVE KeySafe(j)'
  <2>1. j \notin gone2 /\ new[j] = conns[j] /\ j \in Keys
    BY <1>6
  <2>2. CASE j \notin evicted
    <3>1. conns'[j] = conns[j]
      BY <1>1, <2>1, <2>2
    <3>2. shifted'[j] = shifted[j]
      BY <1>8, <1>9, <2>1, <2>2
    <3>3. Same(j)
      BY <1>10, <3>1, <3>2, SameQueue DEF Same
    <3> QED BY <3>3, SameSafe, KeyFacts
  <2>3. CASE j \in evicted
    <3>1. conns'[j] = None /\ conns[j] # None
      BY <1>1, <1>2, <2>1, <2>3
    <3>2. Queue(j)' = <<>> /\ Queue(j) = conns[j]
      BY <3>1 DEF Queue
    <3>3. shifted'[j] = (shifted[j] \/ Queue(j) # <<>>)
      BY <1>9, <2>1, <2>3, <3>2
    <3>4. Run(<<>>, req[j].n) /\ Queue(j) \in Seq(Nat) /\ Len(<<>>) <= Len(Queue(j))
      BY KeyFacts, RunEmpty DEF Queued, Run, ReqState
    <3>5. Queue(j) = <<>> => ~(Len(<<>>) < Len(Queue(j)))
      OBVIOUS
    <3>6. PairSafe(path[j], <<>>, filled[j], parked[j], afPacketStreams[j], req[j], resp[j],
                   emitted[j], shifted'[j])
      <4>1. PairSafe(path[j], Queue(j), filled[j], parked[j], afPacketStreams[j], req[j], resp[j],
                     emitted[j], shifted[j])
        BY KeyFacts DEF KeySafe
      <4>2. /\ shifted'[j] \in BOOLEAN /\ (shifted[j] => shifted'[j])
            /\ Len(<<>>) < Len(Queue(j)) => shifted'[j]
        BY <3>3, <3>5, Zenon
      <4> QED BY <3>4, <4>1, <4>2, ShortenSafe
    <3> QED BY <1>10, <3>2, <3>6 DEF KeySafe
  <2> QED BY <2>2, <2>3
<1>13. KeySafe(k)'
  <2>1. PairSafe(path[k], queued, fi2, parked[k], afPacketStreams[k], rq2, resp[k], emitted[k],
                 shifted[k])
    BY KeyFacts, AppendSafe DEF KeySafe, queued
  <2> DEFINE x == IF k \in evicted THEN <<>> ELSE capped
  <2>2. Queue(k)' = x
    BY <1>1, <1>6 DEF Queue
  <2>3. Run(x, rq2.n) /\ Len(x) <= Len(queued)
    BY <1>3, <1>4, <1>5, RunEmpty
  <2>4. shifted'[k] \in BOOLEAN /\ (shifted[k] => shifted'[k])
    BY <1>8, <1>9, Zenon
  <2>5. Len(x) < Len(queued) => shifted'[k]
    <3>1. CASE k \in evicted /\ capped # <<>>
      BY <1>6, <1>9, <3>1, Zenon
    <3>2. CASE k \in evicted /\ capped = <<>>
      <4>1. Len(capped) < Len(queued)
        BY <1>4, <3>2
      <4> QED BY <1>5, <1>9, <4>1, Zenon
    <3>3. CASE k \notin evicted
      BY <1>5, <1>9, <3>3
    <3> QED BY <3>1, <3>2, <3>3
  <2> HIDE DEF x
  <2>6. PairSafe(path[k], x, fi2, parked[k], afPacketStreams[k], rq2, resp[k], emitted[k],
                 shifted'[k])
    BY <2>1, <2>3, <2>4, <2>5, ShortenSafe
  <2> QED BY <1>10, <2>2, <2>6 DEF KeySafe
<1> QED BY <1>11, <1>12, <1>13 DEF PairsSafe

LEMMA QueueStep ==
  ASSUME PairsSafe, NEW k \in Keys, reserveRequest(k) \/ enqueueRequest(k) PROVE PairsSafe'
<1>1. /\ req[k].at = "head" /\ req[k].n < MaxRequests /\ appendPending(k, req[k].n + 1)
      /\ UNCHANGED <<path, parked, afPacketStreams, resp, old, gcRun, emitted>>
  BY DEF reserveRequest, enqueueRequest, wireVars, gcVars
<1>2. req[k].n \in 0 .. MaxRequests /\ MaxRequests \in Nat /\ req[k] \in ReqState
  BY KeyFacts, PairingAssumption DEF ReqState
<1>3. CASE reserveRequest(k)
  <2> DEFINE rq2 == [at |-> "body", n |-> req[k].n + 1]
  <2>1. req' = [req EXCEPT ![k] = rq2] /\ filled' = [filled EXCEPT ![k] = filled[k]]
    BY <1>3 DEF reserveRequest, PairsSafe, PairsShaped
  <2>2. rq2 \in ReqState /\ rq2.at = "body" /\ rq2.n = req[k].n + 1
    BY <1>1, <1>2 DEF ReqState, Stages
  <2> HIDE DEF rq2
  <2> QED BY <1>1, <2>1, <2>2, AppendStep
<1>4. CASE enqueueRequest(k)
  <2> DEFINE rq2 == [req[k] EXCEPT !.n = req[k].n + 1]
             fi2 == filled[k] \cup {req[k].n + 1}
  <2>1. req' = [req EXCEPT ![k] = rq2] /\ filled' = [filled EXCEPT ![k] = fi2]
    BY <1>4 DEF enqueueRequest, PairsSafe, PairsShaped
  <2>2. rq2 \in ReqState /\ rq2.at = "head" /\ rq2.n = req[k].n + 1
    BY <1>1, <1>2 DEF ReqState, Stages
  <2>3. fi2 = filled[k] \cup {req[k].n + 1}
    OBVIOUS
  <2> HIDE DEF rq2, fi2
  <2> QED BY <1>1, <2>1, <2>2, <2>3, AppendStep
<1> QED BY <1>3, <1>4

LEMMA SetToSeqNone == SetToSeq({}) = <<>>
<1>1. Cardinality({}) = 0
  BY FS_EmptySet
<1>2. 1 .. 0 = {}
  OBVIOUS
<1>3. <<>> \in [1 .. 0 -> {}] /\ IsInjective(<<>>)
  BY <1>2 DEF IsInjective
<1>4. SetToSeq({}) \in [1 .. 0 -> {}]
  BY <1>1, <1>3 DEF SetToSeq
<1> QED BY <1>2, <1>4

LEMMA SetToSeqOne == ASSUME NEW x PROVE SetToSeq({x}) = <<x>>
<1>1. Cardinality({x}) = 1
  BY FS_Singleton
<1>2. 1 .. 1 = {1}
  OBVIOUS
<1>3. <<x>> \in [1 .. 1 -> {x}] /\ IsInjective(<<x>>)
  BY <1>2 DEF IsInjective
<1>4. SetToSeq({x}) \in [1 .. 1 -> {x}]
  BY <1>1, <1>3 DEF SetToSeq
<1> QED BY <1>2, <1>4

\* The body of a request is read; a response parked on it is emitted.
LEMMA FillStep ==
  ASSUME PairsSafe, NEW k \in Keys, fillRequest(k) PROVE PairsSafe'
<1> DEFINE n == req[k].n
           mine == {pr \in parked[k] : pr[1] = n}
           stage == IF req[k].at = "body" THEN "head" ELSE "gone"
           rq2 == [req[k] EXCEPT !.at = stage]
           em2 == emitted[k] \o SetToSeq(mine)
<1>1. /\ InBody(req[k])
      /\ filled' = [filled EXCEPT ![k] = filled[k] \cup {n}]
      /\ parked' = [parked EXCEPT ![k] = parked[k] \ mine]
      /\ emitted' = [emitted EXCEPT ![k] = em2]
      /\ req' = [req EXCEPT ![k].at = stage]
      /\ UNCHANGED <<path, conns, afPacketStreams, resp, old, gcRun, shifted>>
  BY DEF fillRequest, ReqAt, InBody, wireVars, gcVars
<1>2. stage \in Stages /\ req' = [req EXCEPT ![k] = rq2]
  BY <1>1 DEF Stages, PairsSafe, PairsShaped
<1>3. rq2 \in ReqState /\ rq2.at = stage /\ rq2.n = n
  BY <1>2, KeyFacts, ReqUpdate
<1>4. /\ \A pr \in parked[k] : pr[1] = n
      /\ \A x, y \in parked[k] : x = y
      /\ emitted[k] \in Seq(Pairs)
  BY KeyFacts DEF KeySafe, PairSafe, Once, PairTyped
<1>5. mine = parked[k] /\ parked[k] \ mine = {}
  BY <1>4
<1> HIDE DEF mine, stage, n
<1>6. \/ parked[k] = {} /\ em2 = emitted[k]
      \/ \E pr \in parked[k] : em2 = Append(emitted[k], pr)
  <2>1. CASE parked[k] = {}
    <3>1. SetToSeq(mine) = <<>>
      BY <1>5, <2>1, SetToSeqNone
    <3> HIDE DEF em2
    <3>2. em2 = emitted[k] \o <<>>
      BY <3>1 DEF em2
    <3> QED BY <1>4, <2>1, <3>2
  <2>2. CASE parked[k] # {}
    <3>1. PICK pr \in parked[k] : parked[k] = {pr}
      BY <1>4, <2>2
    <3>2. SetToSeq(mine) = <<pr>>
      BY <1>5, <3>1, SetToSeqOne
    <3> HIDE DEF em2
    <3>3. em2 = emitted[k] \o <<pr>>
      BY <3>2 DEF em2
    <3>4. pr \in Pairs
      BY KeyFacts DEF PairTyped
    <3>5. emitted[k] \o <<pr>> = Append(emitted[k], pr)
      BY <1>4, <3>4
    <3> QED BY <3>3, <3>5
  <2> QED BY <2>1, <2>2
<1> HIDE DEF rq2, em2
<1>7. /\ req' \in [Keys -> ReqState] /\ req'[k] = rq2 /\ filled'[k] = filled[k] \cup {n}
      /\ parked'[k] = {} /\ emitted'[k] = em2
      /\ filled' = [j \in Keys |-> filled'[j]] /\ parked' = [j \in Keys |-> parked'[j]]
      /\ emitted' = [j \in Keys |-> emitted'[j]]
      /\ \A j \in Keys \ {k} : /\ req'[j] = req[j] /\ filled'[j] = filled[j]
                               /\ parked'[j] = parked[j] /\ emitted'[j] = emitted[j]
  <2>1. /\ req \in [Keys -> ReqState] /\ filled = [j \in Keys |-> filled[j]]
        /\ parked = [j \in Keys |-> parked[j]] /\ emitted = [j \in Keys |-> emitted[j]]
    BY DEF PairsSafe, PairsShaped
  <2>2. parked' = [parked EXCEPT ![k] = {}]
    BY <1>1, <1>5
  <2>3. req' \in [Keys -> ReqState] /\ req'[k] = rq2 /\ \A j \in Keys \ {k} : req'[j] = req[j]
    BY <1>2, <1>3, <2>1
  <2>4. /\ parked'[k] = {} /\ emitted'[k] = em2
        /\ parked' = [j \in Keys |-> parked'[j]] /\ emitted' = [j \in Keys |-> emitted'[j]]
        /\ \A j \in Keys \ {k} : parked'[j] = parked[j] /\ emitted'[j] = emitted[j]
    BY <1>1, <2>1, <2>2
  <2>5. /\ filled'[k] = filled[k] \cup {n} /\ filled' = [j \in Keys |-> filled'[j]]
        /\ \A j \in Keys \ {k} : filled'[j] = filled[j]
    BY <1>1, <2>1
  <2> QED BY <2>3, <2>4, <2>5
<1>8. \A j \in Keys : Queue(j)' = Queue(j)
  BY <1>1 DEF Queue
<1>9. PairsShaped'
  BY <1>1, <1>7 DEF PairsSafe, PairsShaped
<1>10. \A j \in Keys \ {k} : Same(j)
  BY <1>1, <1>7, <1>8 DEF Same
<1>11. PairSafe(path[k], Queue(k), filled[k] \cup {n}, {}, afPacketStreams[k], rq2, resp[k],
                em2, shifted[k])
  <2>1. PairSafe(path[k], Queue(k), filled[k], parked[k], afPacketStreams[k], req[k], resp[k],
                 emitted[k], shifted[k])
    BY KeyFacts DEF KeySafe
  <2>2. rq2.n = req[k].n /\ rq2.at = IF req[k].at = "body" THEN "head" ELSE "gone"
    BY <1>3 DEF n, stage
  <2>3. PairSafe(path[k], Queue(k), filled[k] \cup {req[k].n}, {}, afPacketStreams[k], rq2,
                 resp[k], em2, shifted[k])
    BY <1>1, <1>3, <1>6, <2>1, <2>2, FillSafe
  <2> QED BY <2>3 DEF n
<1>12. KeySafe(k)'
  BY <1>1, <1>7, <1>8, <1>11 DEF KeySafe
<1> QED BY <1>9, <1>10, <1>12, OneKey

\* Requests age and gc scans: no connection changes.
LEMMA ScanStep ==
  ASSUME PairsSafe, GCScan \/ \E k \in Keys : Age(k) PROVE PairsSafe'
<1>1. /\ UNCHANGED <<path, conns, filled, parked, afPacketStreams, req, resp, emitted, shifted>>
      /\ old' \in [Keys -> Nat] /\ gcRun' \in [keys : SUBSET Keys, cutoff : [Keys -> Nat]]
  <2>1. CASE GCScan
    BY <2>1 DEF GCScan, wireVars, PairsSafe, PairsShaped
  <2>2. ASSUME NEW k \in Keys, Age(k)
        PROVE  /\ UNCHANGED <<path, conns, filled, parked, afPacketStreams, req, resp, emitted, shifted>>
               /\ old' \in [Keys -> Nat] /\ gcRun' \in [keys : SUBSET Keys, cutoff : [Keys -> Nat]]
    BY <2>2 DEF Age, wireVars, PairsSafe, PairsShaped
  <2> QED BY <2>1, <2>2
<1>2. \A j \in Keys : Same(j)
  BY <1>1, SameQueue DEF Same
<1>3. PairsShaped'
  BY <1>1 DEF PairsSafe, PairsShaped
<1> QED BY <1>2, <1>3, SameSafe DEF PairsSafe

\* gc removes what its cutoff is past from the FIFO of a connection.
LEMMA PruneStep ==
  ASSUME PairsSafe, NEW k \in Keys, GCPrune(k) PROVE PairsSafe'
<1> DEFINE x == Kept(k)
           some == \E q \in Pending(k) : q <= gcRun.cutoff[k]
<1>1. /\ conns' = [conns EXCEPT ![k] = IF x = <<>> THEN None ELSE x]
      /\ shifted' = [shifted EXCEPT ![k] = shifted[k] \/ some]
      /\ gcRun' = IF gcRun.keys = {k} THEN NoGC ELSE [gcRun EXCEPT !.keys = @ \ {k}]
      /\ UNCHANGED <<path, filled, parked, afPacketStreams, req, resp, old, emitted>>
  BY DEF GCPrune, wireVars
<1>2. gcRun' \in [keys : SUBSET Keys, cutoff : [Keys -> Nat]]
  <2>1. gcRun \in [keys : SUBSET Keys, cutoff : [Keys -> Nat]]
    BY DEF PairsSafe, PairsShaped
  <2>2. NoGC \in [keys : SUBSET Keys, cutoff : [Keys -> Nat]]
    BY DEF NoGC
  <2>3. [gcRun EXCEPT !.keys = @ \ {k}] \in [keys : SUBSET Keys, cutoff : [Keys -> Nat]]
    BY <2>1
  <2> QED BY <1>1, <2>2, <2>3
<1>3. /\ Run(x, req[k].n) /\ Len(x) <= Len(Queue(k)) /\ (Len(x) < Len(Queue(k)) => some)
      /\ req[k].n \in Nat
  <2>1. req[k].n \in Nat /\ Run(Queue(k), req[k].n)
    BY KeyFacts DEF Queued, ReqState
  <2>2. gcRun.cutoff[k] \in Nat
    BY DEF PairsSafe, PairsShaped
  <2> QED BY <2>1, <2>2, KeptIsRun
<1> HIDE DEF x, some
<1>4. x \in Seq(Nat)
  BY <1>3 DEF Run
<1>5. x # None
  BY <1>4, PairingAssumption
<1>6. /\ Queue(k)' = x /\ conns' \in [Keys -> Seq(Nat) \cup {None}]
      /\ \A j \in Keys \ {k} : Queue(j)' = Queue(j)
  <2>1. CASE x = <<>>
    <3>1. conns' = [conns EXCEPT ![k] = None]
      BY <1>1, <2>1
    <3> QED BY <2>1, <3>1, QueueGone
  <2>2. CASE x # <<>>
    <3>1. conns' = [conns EXCEPT ![k] = x]
      BY <1>1, <2>2
    <3> QED BY <1>4, <3>1, QueueSet
  <2> QED BY <2>1, <2>2
<1>7. shifted = [j \in Keys |-> shifted[j]] /\ shifted[k] \in BOOLEAN
  BY KeyFacts DEF PairsSafe, PairsShaped, PairTyped
<1>8. shifted'[k] = (shifted[k] \/ some)
  BY <1>1, <1>7
<1>9. shifted' = [j \in Keys |-> shifted'[j]] /\ \A j \in Keys \ {k} : shifted'[j] = shifted[j]
  BY <1>1, <1>7
<1>10. KeySafe(k)'
  <2>1. shifted'[k] \in BOOLEAN /\ (shifted[k] => shifted'[k])
    BY <1>8, Zenon
  <2>2. Len(x) < Len(Queue(k)) => shifted'[k]
    BY <1>3, <1>8, Zenon
  <2> QED BY <1>1, <1>3, <1>6, <2>1, <2>2, Shortened
<1>11. PairsShaped'
  BY <1>1, <1>2, <1>6, <1>9 DEF PairsSafe, PairsShaped
<1>12. \A j \in Keys \ {k} : Same(j)
  BY <1>1, <1>6, <1>9 DEF Same
<1> QED BY <1>10, <1>11, <1>12, OneKey

-----------------------------------------------------------------------------
LEMMA PairsInit == Init => PairsSafe
<1> SUFFICES ASSUME Init PROVE PairsSafe
  OBVIOUS
<1> PICK seen \in [Keys -> {-1, 0}] :
      resp = [k \in Keys |-> [at |-> "new", n |-> seen[k], try |-> 0, peek |-> None, cut |-> None]]
  BY DEF Init
<1>0. MaxRequests \in Nat /\ completeResponsePairRetries \in Nat
  BY PairingAssumption
<1> DEFINE rq == [at |-> "new", n |-> 0]
           start(m) == [at |-> "new", n |-> m, try |-> 0, peek |-> None, cut |-> None]
<1>1. rq \in ReqState /\ \A m \in {-1, 0} : start(m) \in RespState
  BY <1>0 DEF ReqState, RespState, Stages
<1>2. PairsShaped
  <2>1. req \in [Keys -> ReqState] /\ resp \in [Keys -> RespState]
    <3> HIDE DEF rq
    <3>1. req = [k \in Keys |-> rq]
      BY DEF Init, rq
    <3>2. resp = [k \in Keys |-> start(seen[k])]
      OBVIOUS
    <3> HIDE DEF start
    <3> QED BY <1>1, <3>1, <3>2
  <2>2. gcRun \in [keys : SUBSET Keys, cutoff : [Keys -> Nat]]
    BY DEF Init, NoGC
  <2> QED BY <2>1, <2>2 DEF Init, PairsShaped
<1>3. ASSUME NEW k \in Keys PROVE KeySafe(k)
  <2>1. /\ Queue(k) = <<>> /\ filled[k] = {} /\ parked[k] = {} /\ afPacketStreams[k] = 0
        /\ req[k] = rq /\ resp[k] = start(seen[k]) /\ emitted[k] = <<>> /\ shifted[k] = FALSE
        /\ path[k] \in {"afpacket", "tls"} /\ seen[k] \in {-1, 0}
    BY DEF Init, Queue
  <2>2. PairTyped(path[k], {}, rq, start(seen[k]), <<>>, FALSE)
    <3> HIDE DEF rq, start
    <3> QED BY <1>1, <2>1 DEF PairTyped
  <2>3. Counted(path[k], 0, rq, start(seen[k]))
    BY <2>1 DEF Counted, Reading
  <2>4. Queued(<<>>, {}, rq)
    BY RunEmpty DEF Queued, InBody
  <2>5. Numbered(start(seen[k])) /\ Peeked(path[k], rq, start(seen[k]), FALSE)
    BY DEF Numbered, Peeked
  <2>6. ToSet(<<>>) = {} /\ DOMAIN <<>> = {}
    BY DEF ToSet
  <2>7. Taken(<<>>, {}, rq, start(seen[k]), <<>>) /\ Right({}, start(seen[k]), <<>>, FALSE)
    BY <2>6 DEF Taken, Right
  <2>8. Once({}, rq, <<>>)
    BY <2>6 DEF Once
  <2>9. Aligned(<<>>, rq, start(seen[k]), FALSE)
    BY <2>1 DEF Aligned, Dealt
  <2> HIDE DEF rq, start
  <2>10. PairSafe(path[k], <<>>, {}, {}, 0, rq, start(seen[k]), <<>>, FALSE)
    BY <2>2, <2>3, <2>4, <2>5, <2>7, <2>8, <2>9 DEF PairSafe
  <2> QED BY <2>1, <2>10 DEF KeySafe
<1> QED BY <1>2, <1>3 DEF PairsSafe

LEMMA PairsNext == PairsSafe /\ (Next \/ UNCHANGED vars) => PairsSafe'
<1> SUFFICES ASSUME PairsSafe, Next \/ UNCHANGED vars PROVE PairsSafe'
  OBVIOUS
<1>1. CASE \E k \in Keys : RequestSide(k)
  <2> PICK k \in Keys : RequestSide(k)
    BY <1>1
  <2> QED BY RequestsMove, QueueStep, FillStep, RequestGapStep DEF RequestSide
<1>2. CASE \E k \in Keys : ResponseSide(k)
  <2> PICK k \in Keys : ResponseSide(k)
    BY <1>2
  <2> QED BY ResponsesMove, PeekStep, SkipStep, ReadStep, PopStep, RetryStep, DropStep,
             ResponseGapStep DEF ResponseSide
<1>3. CASE \E k \in Keys : EvictedByOther(k)
  BY <1>3, EvictStep
<1>4. CASE \E k \in Keys : GCPrune(k)
  BY <1>4, PruneStep
<1>5. CASE GCScan \/ \E k \in Keys : Age(k)
  BY <1>5, ScanStep
<1>6. CASE UNCHANGED vars
  <2>1. UNCHANGED <<path, conns, filled, parked, afPacketStreams, req, resp, old, gcRun, emitted,
                    shifted>>
    BY <1>6 DEF vars, wireVars, gcVars
  <2>2. PairsShaped' /\ \A j \in Keys : Same(j)
    BY <2>1, SameQueue DEF PairsSafe, PairsShaped, Same
  <2> QED BY <2>2, SameSafe DEF PairsSafe
<1> QED BY <1>1, <1>2, <1>3, <1>4, <1>5, <1>6 DEF Next

\* The invariant says what the properties do.
LEMMA PairsImply ==
  PairsSafe => MispairedOnlyIf /\ EmittedOnce /\ PeekSeesOwnRequest /\ NeverSleepsOnAFPacket
<1> SUFFICES ASSUME PairsSafe
             PROVE  MispairedOnlyIf /\ EmittedOnce /\ PeekSeesOwnRequest /\ NeverSleepsOnAFPacket
  OBVIOUS
<1>1. \A k \in Keys : /\ Right(parked[k], resp[k], emitted[k], shifted[k])
                      /\ Once(parked[k], req[k], emitted[k])
                      /\ Peeked(path[k], req[k], resp[k], shifted[k])
                      /\ Counted(path[k], afPacketStreams[k], req[k], resp[k])
  BY DEF PairsSafe, KeySafe, PairSafe
<1>2. MispairedOnlyIf
  BY <1>1 DEF MispairedOnlyIf, Right
<1>3. EmittedOnce
  BY <1>1 DEF EmittedOnce, Once, InBody
<1>4. PeekSeesOwnRequest
  BY <1>1 DEF PeekSeesOwnRequest, Peeked, Ended, RequestsLost
<1>5. NeverSleepsOnAFPacket
  BY <1>1 DEF NeverSleepsOnAFPacket, Counted
<1> QED BY <1>2, <1>3, <1>4, <1>5

-----------------------------------------------------------------------------
(* TLS records: one pipe.                                                  *)

\* got is the beginning of put; behind its first k elements put is ch.
Begins(got_, put_) == Len(got_) <= Len(put_) /\ \A i \in 1 .. Len(got_) : got_[i] = put_[i]
Behind(put_, k, ch_) == Len(put_) = k + Len(ch_) /\ \A i \in 1 .. Len(ch_) : ch_[i] = put_[k + i]

LEMMA BehindTail ==
  ASSUME NEW s \in Seq(Nat), NEW k \in Nat, NEW t \in Seq(Nat \ {0}), t # <<>>, Behind(s, k, t)
  PROVE  /\ Behind(s, k + 1, Tail(t)) /\ Head(t) = s[k + 1] /\ Head(t) \in Nat \ {0}
         /\ Tail(t) \in Seq(Nat \ {0}) /\ Len(t) = Len(Tail(t)) + 1
<1>1. /\ Len(t) \in Nat \ {0} /\ Head(t) = t[1] /\ t[1] \in Nat \ {0}
      /\ Tail(t) \in Seq(Nat \ {0}) /\ Len(Tail(t)) = Len(t) - 1
      /\ \A i \in 1 .. Len(t) - 1 : Tail(t)[i] = t[i + 1]
  OBVIOUS
<1>2. Len(s) = k + Len(t) /\ \A i \in 1 .. Len(t) : t[i] = s[k + i]
  BY DEF Behind
<1>3. \A i \in 1 .. Len(t) - 1 : i + 1 \in 1 .. Len(t) /\ k + (i + 1) = k + 1 + i
  BY <1>1
<1>4. \A i \in 1 .. Len(t) - 1 : Tail(t)[i] = s[k + 1 + i]
  BY <1>1, <1>2, <1>3
<1>5. 1 \in 1 .. Len(t)
  BY <1>1
<1> QED BY <1>1, <1>2, <1>4, <1>5 DEF Behind

LEMMA BehindAppend ==
  ASSUME NEW s \in Seq(Nat), NEW k \in Nat, NEW t \in Seq(Nat \ {0}), Behind(s, k, t),
         NEW n \in Nat \ {0}
  PROVE  /\ Behind(Append(s, n), k, Append(t, n))
         /\ Append(s, n) \in Seq(Nat) /\ Append(t, n) \in Seq(Nat \ {0})
         /\ Len(Append(t, n)) = Len(t) + 1 /\ Len(t) \in Nat
<1> DEFINE u == Append(s, n)
           v == Append(t, n)
           l == Len(t)
<1>1. /\ l \in Nat /\ Len(v) = l + 1 /\ v[l + 1] = n /\ v \in Seq(Nat \ {0})
      /\ \A i \in 1 .. l : v[i] = t[i]
  OBVIOUS
<1>2. Len(s) = k + l /\ \A i \in 1 .. l : t[i] = s[k + i]
  BY DEF Behind
<1>3. /\ Len(u) = k + l + 1 /\ u[k + l + 1] = n /\ u \in Seq(Nat)
      /\ \A i \in 1 .. k + l : u[i] = s[i]
  <2>1. /\ Len(u) = Len(s) + 1 /\ u[Len(s) + 1] = n /\ u \in Seq(Nat)
        /\ \A i \in 1 .. Len(s) : u[i] = s[i]
    OBVIOUS
  <2>2. Len(s) = k + l
    BY <1>2
  <2> QED BY <2>1, <2>2
<1> HIDE DEF u, v, l
<1>4. ASSUME NEW i \in 1 .. l + 1 PROVE v[i] = u[k + i]
  <2>1. CASE i = l + 1
    <3>1. k + i = k + l + 1
      BY <1>1, <2>1
    <3> QED BY <1>1, <1>3, <2>1, <3>1
  <2>2. CASE i \in 1 .. l
    <3>1. k + i \in 1 .. k + l
      BY <1>1, <2>2
    <3> QED BY <1>1, <1>2, <1>3, <2>2, <3>1
  <2> QED BY <1>1, <2>1, <2>2
<1>5. Len(u) = k + (l + 1)
  BY <1>1, <1>3
<1>6. Behind(u, k, v)
  BY <1>1, <1>4, <1>5 DEF Behind
<1> QED BY <1>1, <1>3, <1>6 DEF u, v, l

LEMMA BeginsMore ==
  ASSUME NEW s \in Seq(Nat), NEW t \in Seq(Nat), Begins(t, s), NEW n \in Nat
  PROVE  Begins(t, Append(s, n)) /\ \A i \in 1 .. Len(s) : Append(s, n)[i] = s[i]
<1>1. /\ Len(s) \in Nat /\ Len(t) \in Nat /\ Len(t) <= Len(s) /\ Len(Append(s, n)) = Len(s) + 1
      /\ \A i \in 1 .. Len(s) : Append(s, n)[i] = s[i]
      /\ \A i \in 1 .. Len(t) : t[i] = s[i]
  BY DEF Begins
<1>2. \A i \in 1 .. Len(t) : i \in 1 .. Len(s)
  BY <1>1
<1> QED BY <1>1, <1>2 DEF Begins

LEMMA BeginsNext ==
  ASSUME NEW s \in Seq(Nat), NEW t \in Seq(Nat), Begins(t, s), Len(t) + 1 <= Len(s)
  PROVE  /\ Begins(Append(t, s[Len(t) + 1]), s) /\ Len(Append(t, s[Len(t) + 1])) = Len(t) + 1
         /\ Append(t, s[Len(t) + 1]) \in Seq(Nat)
<1> DEFINE n == s[Len(t) + 1]
<1>1. /\ Len(s) \in Nat /\ Len(t) \in Nat /\ Len(t) + 1 \in 1 .. Len(s) /\ n \in Nat
      /\ \A i \in 1 .. Len(t) : t[i] = s[i]
  BY DEF Begins
<1> HIDE DEF n
<1>2. /\ Len(Append(t, n)) = Len(t) + 1 /\ Append(t, n) \in Seq(Nat) /\ Append(t, n)[Len(t) + 1] = n
      /\ \A i \in 1 .. Len(t) : Append(t, n)[i] = t[i]
  BY <1>1
<1>3. \A i \in 1 .. Len(t) + 1 : i = Len(t) + 1 \/ i \in 1 .. Len(t)
  BY <1>1
<1>4. \A i \in 1 .. Len(t) + 1 : Append(t, n)[i] = s[i]
  BY <1>1, <1>2, <1>3 DEF n
<1>5. Begins(Append(t, n), s)
  BY <1>1, <1>2, <1>4 DEF Begins
<1> QED BY <1>2, <1>5 DEF n

Pipe == [conn : Conns, ch : Seq(Nat \ {0}), buf : Nat, left : Nat, closed : BOOLEAN,
         lagged : BOOLEAN, got : Seq(Nat), put : Seq(Nat),
         pc : {"idle", "polled", "wait", "eof", "gone"}]

\* What was read is the beginning of what was put in, and the rest is in the
\* buffer and the channel until the reader is gone.
PipeShape(q) ==
  /\ q \in Pipe
  /\ q.buf = 0 <=> q.left = 0
  /\ q.pc # "idle" => q.buf = 0
  /\ q.pc = "gone" => q.closed /\ q.ch = <<>>
  /\ Begins(q.got, q.put)
  /\ q.pc # "gone" /\ q.buf = 0 => Behind(q.put, Len(q.got), q.ch)
  /\ q.buf # 0 => Behind(q.put, Len(q.got) + 1, q.ch) /\ q.buf = q.put[Len(q.got) + 1]

LEMMA PipeFields ==
  ASSUME NEW q \in Pipe
  PROVE  /\ q.conn \in Conns /\ q.ch \in Seq(Nat \ {0}) /\ q.buf \in Nat /\ q.left \in Nat
         /\ q.closed \in BOOLEAN /\ q.lagged \in BOOLEAN /\ q.got \in Seq(Nat) /\ q.put \in Seq(Nat)
         /\ q.pc \in {"idle", "polled", "wait", "eof", "gone"}
         /\ Len(q.ch) \in Nat /\ Len(q.got) \in Nat /\ Len(q.put) \in Nat
BY DEF Pipe

LEMMA LoadIs ==
  ASSUME NEW q \in Pipe
  PROVE  /\ T!Load(q) \in Nat
         /\ q.buf = 0 => T!Load(q) = Len(q.ch)
         /\ q.buf # 0 => T!Load(q) = Len(q.ch) + 1
<1> DEFINE m == Len(q.ch)
<1>1. m \in Nat
  BY PipeFields
<1>2. T!Load(q) = m + (IF q.buf = 0 THEN 0 ELSE 1)
  BY DEF T!Load
<1> HIDE DEF m
<1>3. T!Load(q) \in Nat /\ (q.buf = 0 => T!Load(q) = m) /\ (q.buf # 0 => T!Load(q) = m + 1)
  <2>1. CASE q.buf = 0
    BY <1>1, <1>2, <2>1
  <2>2. CASE q.buf # 0
    BY <1>1, <1>2, <2>2
  <2> QED BY <2>1, <2>2
<1> QED BY <1>3 DEF m

LEMMA NewShape ==
  ASSUME NEW c \in Conns
  PROVE  /\ PipeShape(T!NewPipe(c)) /\ T!Load(T!NewPipe(c)) = 0 /\ T!NewPipe(c).put = <<>>
         /\ T!NewPipe(c).conn = c /\ T!NewPipe(c).closed = FALSE
<1> DEFINE r == T!NewPipe(c)
<1>1. /\ r \in Pipe /\ r.conn = c /\ r.ch = <<>> /\ r.buf = 0 /\ r.left = 0 /\ r.closed = FALSE
      /\ r.got = <<>> /\ r.put = <<>> /\ r.pc = "idle"
  BY DEF Pipe, T!NewPipe
<1> HIDE DEF r
<1>2. Begins(<<>>, <<>>) /\ Behind(<<>>, Len(<<>>), <<>>) /\ Len(<<>>) = 0
  BY DEF Begins, Behind
<1>3. PipeShape(r) /\ T!Load(r) = 0
  BY <1>1, <1>2, LoadIs DEF PipeShape
<1> QED BY <1>1, <1>3 DEF r

\* The fields that a step of the reader leaves alone.
SameFeed(r, q) == r.conn = q.conn /\ r.put = q.put /\ (q.closed => r.closed)

LEMMA ClosedShape ==
  ASSUME NEW q, PipeShape(q), NEW r,
         r = [q EXCEPT !.closed = TRUE] \/ r = [q EXCEPT !.lagged = TRUE, !.closed = TRUE]
  PROVE  PipeShape(r) /\ SameFeed(r, q) /\ T!Load(r) = T!Load(q) /\ r.closed
<1>1. q \in Pipe
  BY DEF PipeShape
<1>2. /\ r \in Pipe /\ r.conn = q.conn /\ r.ch = q.ch /\ r.buf = q.buf /\ r.left = q.left
      /\ r.closed = TRUE /\ r.got = q.got /\ r.put = q.put /\ r.pc = q.pc
  BY <1>1 DEF Pipe
<1>3. T!Load(r) = T!Load(q)
  BY <1>2 DEF T!Load
<1>4. PipeShape(r)
  BY <1>2 DEF PipeShape
<1> QED BY <1>2, <1>3, <1>4 DEF SameFeed

LEMMA PcShape ==
  ASSUME NEW q, PipeShape(q), q.buf = 0, q.pc # "gone", NEW s \in {"polled", "wait", "eof"},
         NEW r, r = [q EXCEPT !.pc = s]
  PROVE  PipeShape(r) /\ SameFeed(r, q) /\ T!Load(r) = T!Load(q)
<1>1. q \in Pipe
  BY DEF PipeShape
<1>2. /\ r \in Pipe /\ r.conn = q.conn /\ r.ch = q.ch /\ r.buf = q.buf /\ r.left = q.left
      /\ r.closed = q.closed /\ r.got = q.got /\ r.put = q.put /\ r.pc = s /\ s # "gone"
  BY <1>1 DEF Pipe
<1>3. T!Load(r) = T!Load(q)
  BY <1>2 DEF T!Load
<1>4. PipeShape(r)
  BY <1>2 DEF PipeShape
<1> QED BY <1>2, <1>3, <1>4 DEF SameFeed

\* A chunk moves from the channel to the buffer.
LEMMA TakeShape ==
  ASSUME NEW q, PipeShape(q), q.buf = 0, q.pc # "gone", q.ch # <<>>,
         NEW r, r = T!Take(q)
  PROVE  PipeShape(r) /\ SameFeed(r, q) /\ T!Load(r) = T!Load(q)
<1>1. Size \in Nat \ {0}
  BY CaptureAssumption DEF T!TLSAssumption
<1>2. q \in Pipe /\ Behind(q.put, Len(q.got), q.ch) /\ Begins(q.got, q.put)
  BY DEF PipeShape
<1>3. /\ Behind(q.put, Len(q.got) + 1, Tail(q.ch)) /\ Head(q.ch) = q.put[Len(q.got) + 1]
      /\ Head(q.ch) \in Nat \ {0} /\ Tail(q.ch) \in Seq(Nat \ {0})
      /\ Len(q.ch) = Len(Tail(q.ch)) + 1
  BY <1>2, PipeFields, BehindTail
<1>4. /\ r \in Pipe /\ r.ch = Tail(q.ch) /\ r.buf = Head(q.ch) /\ r.left = Size /\ r.pc = "idle"
      /\ r.conn = q.conn /\ r.put = q.put /\ r.got = q.got /\ r.closed = q.closed
  BY <1>1, <1>2, <1>3 DEF Pipe, T!Take
<1>5. T!Load(r) = T!Load(q)
  BY <1>2, <1>3, <1>4, LoadIs
<1>6. PipeShape(r)
  BY <1>1, <1>2, <1>3, <1>4 DEF PipeShape
<1> QED BY <1>4, <1>5, <1>6 DEF SameFeed

\* A part of the buffered chunk is read.
LEMMA PartShape ==
  ASSUME NEW q, PipeShape(q), NEW n \in 1 .. q.left, n # q.left,
         NEW r, r = [q EXCEPT !.left = @ - n, !.buf = @, !.got = @]
  PROVE  PipeShape(r) /\ SameFeed(r, q) /\ T!Load(r) = T!Load(q)
<1>0. q \in Pipe
  BY DEF PipeShape
<1>1. q.left \in Nat /\ q.left - n \in Nat \ {0} /\ q.left # 0
  <2>1. q.left \in Nat
    BY <1>0, PipeFields
  <2> QED BY <2>1
<1>2. /\ r \in Pipe /\ r.left = q.left - n /\ r.ch = q.ch /\ r.buf = q.buf /\ r.pc = q.pc
      /\ r.conn = q.conn /\ r.put = q.put /\ r.got = q.got /\ r.closed = q.closed
  BY <1>0, <1>1 DEF Pipe
<1>3. T!Load(r) = T!Load(q)
  BY <1>2 DEF T!Load
<1>4. PipeShape(r)
  <2>1. r.left # 0
    BY <1>1, <1>2
  <2> QED BY ONLY PipeShape(q), <1>1, <1>2, <2>1 DEF PipeShape
<1> QED BY <1>2, <1>3, <1>4 DEF SameFeed

\* The last of the buffered chunk is read.
LEMMA WholeShape ==
  ASSUME NEW q, PipeShape(q), q.left # 0,
         NEW r, r = [q EXCEPT !.left = @ - q.left, !.buf = 0, !.got = Append(@, q.buf)]
  PROVE  PipeShape(r) /\ SameFeed(r, q) /\ T!Load(r) = T!Load(q) - 1
<1>0. /\ q \in Pipe /\ q.buf # 0 /\ q.pc # "gone" /\ Begins(q.got, q.put)
      /\ Behind(q.put, Len(q.got) + 1, q.ch) /\ q.buf = q.put[Len(q.got) + 1]
  BY DEF PipeShape
<1>1. q.got \in Seq(Nat) /\ q.put \in Seq(Nat) /\ Len(q.got) + 1 <= Len(q.put) /\ q.left - q.left = 0
  <2>1. Len(q.got) \in Nat /\ Len(q.ch) \in Nat /\ Len(q.put) = Len(q.got) + 1 + Len(q.ch)
    BY <1>0, PipeFields DEF Behind
  <2>2. q.left \in Nat /\ q.got \in Seq(Nat) /\ q.put \in Seq(Nat)
    BY <1>0, PipeFields
  <2> DEFINE g == Len(q.got)
             m == Len(q.ch)
             l == q.left
  <2> HIDE DEF g, m, l
  <2>3. g + 1 <= g + 1 + m /\ l - l = 0
    <3>1. g \in Nat /\ m \in Nat /\ l \in Nat
      BY <2>1, <2>2 DEF g, m, l
    <3> QED BY <3>1
  <2> QED BY <2>1, <2>2, <2>3 DEF g, m, l
<1>2. /\ Begins(Append(q.got, q.buf), q.put) /\ Len(Append(q.got, q.buf)) = Len(q.got) + 1
      /\ Append(q.got, q.buf) \in Seq(Nat)
  BY <1>0, <1>1, BeginsNext
<1>3. /\ r \in Pipe /\ r.left = 0 /\ r.ch = q.ch /\ r.buf = 0 /\ r.pc = q.pc
      /\ r.conn = q.conn /\ r.put = q.put /\ r.got = Append(q.got, q.buf) /\ r.closed = q.closed
  <2>1. /\ r.left = q.left - q.left /\ r.ch = q.ch /\ r.buf = 0 /\ r.pc = q.pc
        /\ r.conn = q.conn /\ r.put = q.put /\ r.got = Append(q.got, q.buf) /\ r.closed = q.closed
    BY <1>0 DEF Pipe
  <2>2. r = [q EXCEPT !.left = 0, !.buf = 0, !.got = Append(q.got, q.buf)]
    BY <1>1
  <2>3. r \in Pipe
    <3> DEFINE t == Append(q.got, q.buf)
    <3> HIDE DEF t
    <3>1. q \in Pipe /\ t \in Seq(Nat) /\ r = [q EXCEPT !.left = 0, !.buf = 0, !.got = t]
      BY <1>0, <1>2, <2>2 DEF t
    <3> QED BY ONLY <3>1 DEF Pipe
  <2> QED BY <1>1, <2>1, <2>3
<1>4. T!Load(r) = Len(q.ch) /\ T!Load(q) = Len(q.ch) + 1 /\ Len(q.ch) \in Nat
  BY <1>0, <1>3, LoadIs, PipeFields
<1>5. PipeShape(r)
  BY ONLY PipeShape(q), <1>0, <1>2, <1>3 DEF PipeShape
<1>6. T!Load(r) = T!Load(q) - 1
  BY <1>4
<1> QED BY <1>3, <1>5, <1>6 DEF SameFeed

\* The reader is gone.
LEMMA GoneShape ==
  ASSUME NEW q, PipeShape(q),
         NEW r, r = [q EXCEPT !.pc = "gone", !.closed = TRUE, !.ch = <<>>, !.buf = 0, !.left = 0]
  PROVE  PipeShape(r) /\ SameFeed(r, q) /\ T!Load(r) = 0
<1>0. q \in Pipe /\ Begins(q.got, q.put)
  BY DEF PipeShape
<1>1. /\ r \in Pipe /\ r.left = 0 /\ r.ch = <<>> /\ r.buf = 0 /\ r.pc = "gone"
      /\ r.conn = q.conn /\ r.put = q.put /\ r.got = q.got /\ r.closed = TRUE
  <2>1. /\ r.left = 0 /\ r.ch = <<>> /\ r.buf = 0 /\ r.pc = "gone"
        /\ r.conn = q.conn /\ r.put = q.put /\ r.got = q.got /\ r.closed = TRUE
    BY <1>0 DEF Pipe
  <2>2. <<>> \in Seq(Nat \ {0})
    OBVIOUS
  <2>3. r \in Pipe
    BY <1>0, <2>2 DEF Pipe
  <2> QED BY <2>1, <2>3
<1>2. T!Load(r) = 0
  BY <1>1, LoadIs
<1>3. PipeShape(r)
  BY ONLY <1>0, <1>1 DEF PipeShape
<1> QED BY <1>1, <1>2, <1>3 DEF SameFeed

\* A chunk is put in.
LEMMA PutShape ==
  ASSUME NEW q, PipeShape(q), ~q.closed, NEW n \in Nat \ {0},
         NEW r, r = [q EXCEPT !.ch = Append(@, n), !.put = Append(@, n)]
  PROVE  /\ PipeShape(r) /\ T!Load(r) = T!Load(q) + 1 /\ r.put = Append(q.put, n)
         /\ r.conn = q.conn /\ r.closed = q.closed
<1>0. q \in Pipe /\ Begins(q.got, q.put) /\ q.pc # "gone"
  BY DEF PipeShape
<1> DEFINE k == IF q.buf = 0 THEN Len(q.got) ELSE Len(q.got) + 1
<1>1. /\ k \in Nat /\ q.put \in Seq(Nat) /\ q.ch \in Seq(Nat \ {0}) /\ q.got \in Seq(Nat)
      /\ Len(q.got) \in Nat
  BY <1>0, PipeFields
<1>2. Behind(q.put, k, q.ch)
  BY <1>0 DEF PipeShape
<1> HIDE DEF k
<1>3. /\ Behind(Append(q.put, n), k, Append(q.ch, n))
      /\ Append(q.put, n) \in Seq(Nat) /\ Append(q.ch, n) \in Seq(Nat \ {0})
      /\ Len(Append(q.ch, n)) = Len(q.ch) + 1 /\ Len(q.ch) \in Nat
  BY <1>1, <1>2, BehindAppend
<1>4. Begins(q.got, Append(q.put, n)) /\ \A i \in 1 .. Len(q.put) : Append(q.put, n)[i] = q.put[i]
  BY <1>0, <1>1, BeginsMore
<1>5. /\ r \in Pipe /\ r.left = q.left /\ r.ch = Append(q.ch, n) /\ r.buf = q.buf /\ r.pc = q.pc
      /\ r.conn = q.conn /\ r.put = Append(q.put, n) /\ r.got = q.got /\ r.closed = q.closed
  BY <1>0, <1>3 DEF Pipe
<1>6. T!Load(r) = T!Load(q) + 1
  BY <1>0, <1>3, <1>5, LoadIs
<1>7. q.buf # 0 => q.buf = Append(q.put, n)[Len(q.got) + 1]
  <2>1. ASSUME q.buf # 0 PROVE Len(q.got) + 1 \in 1 .. Len(q.put)
    <3>1. Len(q.put) = Len(q.got) + 1 + Len(q.ch)
      BY <2>1 DEF PipeShape, Behind
    <3> DEFINE g == Len(q.got)
               m == Len(q.ch)
    <3> HIDE DEF g, m
    <3>2. g \in Nat /\ m \in Nat
      BY <1>1, <1>3 DEF g, m
    <3>3. g + 1 \in 1 .. g + 1 + m
      BY <3>2
    <3> QED BY <3>1, <3>3 DEF g, m
  <2>2. q.buf # 0 => q.buf = q.put[Len(q.got) + 1]
    BY DEF PipeShape
  <2> QED BY <1>4, <2>1, <2>2
<1>8. /\ r.buf = 0 => Behind(r.put, Len(r.got), r.ch)
      /\ r.buf # 0 => Behind(r.put, Len(r.got) + 1, r.ch)
  BY <1>3, <1>5 DEF k
<1>9. PipeShape(r)
  BY ONLY PipeShape(q), <1>0, <1>4, <1>5, <1>7, <1>8 DEF PipeShape
<1> QED BY <1>5, <1>6, <1>9

-----------------------------------------------------------------------------
(* TLS records: the channel.                                               *)

Of(f, c) == f[<<c, "write">>]
TLSRecord == [conn : Conns, dir : {"write"}, n : Nat]

\* Chunk n of c is in the channel, comes after one the source lost, or is missed
\* anyway.
InOut(o, c, n) == \E i \in 1 .. Len(o) : o[i].conn = c /\ o[i].n = n
Keeps(o, p) == \A c, n : InOut(o, c, n) => InOut(p, c, n)
Awaited(sk, o, l, c, n) == <<c, "write", n>> \in sk \/ InOut(o, c, n) \/ (Of(l, c) # 0 /\ n >= Of(l, c))

Counts(s, l) ==
  /\ s \in [Conns \X {"write"} -> Nat] /\ l \in [Conns \X {"write"} -> Nat]
  /\ \A c \in Conns : Of(s, c) \in Nat /\ Of(l, c) \in Nat /\ Of(l, c) <= Of(s, c)

\* Chunk m is one the source has not lost, and all after it are awaited.
Good(sk, o, s, l, c, m) ==
  /\ m <= Of(s, c) /\ (Of(l, c) # 0 => m < Of(l, c))
  /\ \A n \in m + 1 .. Of(s, c) : Awaited(sk, o, l, c, n)

\* The chunks of a connection are in the channel in order, and without a gap but
\* for those missed.
ChannelSafe(sk, o, s, l) ==
  /\ o \in Seq(TLSRecord)
  /\ \A i \in 1 .. Len(o) : o[i].n # 0 => Good(sk, o, s, l, o[i].conn, o[i].n)
  /\ \A i, j \in 1 .. Len(o) :
       i < j /\ o[i].conn = o[j].conn /\ o[i].n # 0 /\ o[j].n # 0 => o[i].n < o[j].n

\* One more chunk of c, which the channel takes or the source loses.
OneMore(s, l, t, k, c) ==
  /\ Of(t, c) = Of(s, c) + 1 /\ \A b \in Conns \ {c} : Of(t, b) = Of(s, b) /\ Of(k, b) = Of(l, b)
  /\ Of(k, c) = Of(l, c) \/ (Of(l, c) = 0 /\ Of(k, c) = Of(s, c) + 1)

\* The channel takes it, or it is lost, or missed.
Moves(s, l, t, k, c, sk, x, o, p) ==
  /\ Counts(s, l) /\ OneMore(s, l, t, k, c) /\ sk \subseteq x /\ Keeps(o, p)
  /\ InOut(p, c, Of(s, c) + 1) \/ Of(k, c) # 0 \/ <<c, "write", Of(s, c) + 1>> \in x

LEMMA ChannelAppend ==
  ASSUME NEW o \in Seq(TLSRecord), NEW r \in TLSRecord
  PROVE  /\ Append(o, r) \in Seq(TLSRecord) /\ Len(Append(o, r)) = Len(o) + 1 /\ Len(o) \in Nat
         /\ Append(o, r)[Len(o) + 1] = r
         /\ \A i \in 1 .. Len(o) : Append(o, r)[i] = o[i] /\ o[i] \in TLSRecord
         /\ \A i \in 1 .. Len(o) + 1 : i = Len(o) + 1 \/ i \in 1 .. Len(o)
         /\ \A i \in 1 .. Len(o) : i \in 1 .. Len(o) + 1 /\ i < Len(o) + 1
         /\ Len(o) + 1 \in 1 .. Len(o) + 1
<1>1. Len(o) \in Nat
  OBVIOUS
<1>2. /\ \A i \in 1 .. Len(o) + 1 : i = Len(o) + 1 \/ i \in 1 .. Len(o)
      /\ \A i \in 1 .. Len(o) : i \in 1 .. Len(o) + 1 /\ i < Len(o) + 1
      /\ Len(o) + 1 \in 1 .. Len(o) + 1
  BY <1>1
<1> QED BY <1>1, <1>2

LEMMA InOutAppend ==
  ASSUME NEW o \in Seq(TLSRecord), NEW r \in TLSRecord
  PROVE  /\ \A c, n : InOut(o, c, n) => InOut(Append(o, r), c, n)
         /\ InOut(Append(o, r), r.conn, r.n)
BY ChannelAppend DEF InOut

\* What was awaited still is, and so is the next chunk.
LEMMA AwaitedMore ==
  ASSUME NEW s, NEW l, NEW t, NEW k, NEW c \in Conns, NEW sk, NEW x, NEW o, NEW p,
         Moves(s, l, t, k, c, sk, x, o, p),
         NEW b \in Conns, NEW m \in Nat, NEW n \in m + 1 .. Of(t, b)
  PROVE  Awaited(x, p, k, b, n) \/ (n \in m + 1 .. Of(s, b) /\ ~Awaited(sk, o, l, b, n))
<1>1. Of(s, b) \in Nat /\ Of(l, b) \in Nat /\ Of(l, b) <= Of(s, b)
  BY DEF Moves, Counts
<1>2. CASE b # c
  BY <1>2 DEF Moves, OneMore, Awaited, Keeps
<1>3. CASE b = c
  <2>1. n \in m + 1 .. Of(s, c) \/ n = Of(s, c) + 1
    BY <1>1, <1>3 DEF Moves, OneMore
  <2>2. CASE n \in m + 1 .. Of(s, c) /\ Awaited(sk, o, l, c, n)
    <3>1. <<c, "write", n>> \in sk \/ InOut(o, c, n) \/ (Of(l, c) # 0 /\ n >= Of(l, c))
      BY <2>2 DEF Awaited
    <3>2. Of(l, c) # 0 => Of(k, c) = Of(l, c)
      BY DEF Moves, OneMore
    <3>3. Awaited(x, p, k, c, n)
      BY <3>1, <3>2 DEF Moves, Awaited, Keeps
    <3> QED BY <1>3, <3>3
  <2>3. CASE n = Of(s, c) + 1
    <3>1. Of(k, c) <= Of(s, c) + 1
      BY <1>1, <1>3 DEF Moves, OneMore
    <3>2. n >= Of(k, c)
      BY <2>3, <1>1, <1>3, <3>1 DEF Moves, OneMore
    <3>3. Awaited(x, p, k, c, n)
      BY <2>3, <3>2 DEF Moves, Awaited
    <3> QED BY <1>3, <3>3
  <2> QED BY <1>3, <2>1, <2>2, <2>3
<1> QED BY <1>2, <1>3

\* A chunk before the loss stays before it.
LEMMA BelowMore ==
  ASSUME NEW s, NEW l, Counts(s, l), NEW t, NEW k, NEW c \in Conns, OneMore(s, l, t, k, c),
         NEW b \in Conns, NEW m \in Nat, m <= Of(s, b), Of(l, b) # 0 => m < Of(l, b)
  PROVE  m <= Of(t, b) /\ (Of(k, b) # 0 => m < Of(k, b))
<1>1. Of(s, b) \in Nat /\ Of(l, b) \in Nat
  BY DEF Counts
<1>2. CASE b # c
  BY <1>2 DEF OneMore
<1>3. CASE b = c
  BY <1>1, <1>3 DEF OneMore
<1> QED BY <1>2, <1>3

LEMMA GoodMore ==
  ASSUME NEW s, NEW l, NEW t, NEW k, NEW c \in Conns, NEW sk, NEW x, NEW o, NEW p,
         Moves(s, l, t, k, c, sk, x, o, p),
         NEW b \in Conns, NEW m \in Nat, Good(sk, o, s, l, b, m)
  PROVE  Good(x, p, t, k, b, m)
<1>1. \A n \in m + 1 .. Of(t, b) : Awaited(x, p, k, b, n)
  <2>1. \A n \in m + 1 .. Of(s, b) : Awaited(sk, o, l, b, n)
    BY DEF Good
  <2> TAKE n \in m + 1 .. Of(t, b)
  <2>2. Awaited(x, p, k, b, n) \/ (n \in m + 1 .. Of(s, b) /\ ~Awaited(sk, o, l, b, n))
    BY AwaitedMore
  <2> QED BY <2>1, <2>2
<1>2. m <= Of(t, b) /\ (Of(k, b) # 0 => m < Of(k, b))
  BY BelowMore DEF Moves, Good
<1> QED BY <1>1, <1>2 DEF Good

\* The next chunk is put into the channel.
LEMMA ChannelTakes ==
  ASSUME NEW s, NEW l, Counts(s, l), NEW t, NEW c \in Conns, OneMore(s, l, t, l, c),
         NEW sk, NEW o, ChannelSafe(sk, o, s, l), Of(l, c) = 0,
         NEW r \in TLSRecord, r.conn = c, r.n = Of(s, c) + 1
  PROVE  ChannelSafe(sk, Append(o, r), t, l)
<1> DEFINE p == Append(o, r)
           N == Len(o)
<1>1. /\ p \in Seq(TLSRecord) /\ Len(p) = N + 1 /\ N \in Nat /\ p[N + 1] = r
      /\ \A i \in 1 .. N : p[i] = o[i] /\ o[i] \in TLSRecord
      /\ \A i \in 1 .. N + 1 : i = N + 1 \/ i \in 1 .. N
  BY ChannelAppend DEF ChannelSafe
<1>2. Moves(s, l, t, l, c, sk, sk, o, p)
  BY InOutAppend DEF ChannelSafe, Keeps, Moves
<1> HIDE DEF p
<1>3. Of(s, c) \in Nat /\ Of(t, c) = Of(s, c) + 1
  BY DEF Counts, OneMore
<1>4. ASSUME NEW i \in 1 .. N + 1, p[i].n # 0 PROVE Good(sk, p, t, l, p[i].conn, p[i].n)
  <2>1. CASE i \in 1 .. N
    <3>1. p[i].conn \in Conns /\ p[i].n \in Nat
      BY <1>1, <2>1 DEF TLSRecord
    <3>2. Good(sk, o, s, l, p[i].conn, p[i].n)
      BY <1>1, <1>4, <2>1 DEF ChannelSafe
    <3> QED BY <1>2, <3>1, <3>2, GoodMore
  <2>2. CASE i = N + 1
    <3>1. p[i].conn = c /\ p[i].n = Of(t, c)
      BY <1>1, <1>3, <2>2
    <3>2. Good(sk, p, t, l, c, Of(t, c))
      BY <1>3 DEF Good
    <3> QED BY <3>1, <3>2
  <2> QED BY <1>1, <2>1, <2>2
<1>5. ASSUME NEW i \in 1 .. N + 1, NEW j \in 1 .. N + 1, i < j, p[i].conn = p[j].conn,
             p[i].n # 0, p[j].n # 0
      PROVE  p[i].n < p[j].n
  <2>1. i \in 1 .. N
    BY <1>1, <1>5
  <2>2. CASE j \in 1 .. N
    BY <1>1, <1>5, <2>1, <2>2 DEF ChannelSafe
  <2>3. CASE j = N + 1
    <3>1. p[j].n = Of(s, c) + 1 /\ o[i].conn = c /\ p[i] = o[i] /\ o[i].n \in Nat
      BY <1>1, <1>5, <2>1, <2>3 DEF TLSRecord
    <3>2. o[i].n <= Of(s, c)
      BY <1>5, <2>1, <3>1 DEF ChannelSafe, Good
    <3> QED BY <1>3, <3>1, <3>2
  <2> QED BY <1>1, <2>2, <2>3
<1>6. ChannelSafe(sk, p, t, l)
  BY <1>1, <1>4, <1>5 DEF ChannelSafe
<1> QED BY <1>6 DEF p

\* The next chunk is lost or missed, and a tombstone may be put into the channel.
LEMMA ChannelLoses ==
  ASSUME NEW s, NEW l, Counts(s, l), NEW t, NEW k, NEW c \in Conns, OneMore(s, l, t, k, c),
         NEW sk, NEW x, sk \subseteq x, Of(k, c) # 0 \/ <<c, "write", Of(s, c) + 1>> \in x,
         NEW o, ChannelSafe(sk, o, s, l),
         NEW p, p = o \/ \E r \in TLSRecord : r.n = 0 /\ p = Append(o, r)
  PROVE  ChannelSafe(x, p, t, k) /\ Keeps(o, p)
<1>0. o \in Seq(TLSRecord)
  BY DEF ChannelSafe
<1>1. Keeps(o, p) /\ Moves(s, l, t, k, c, sk, x, o, p)
  BY <1>0, InOutAppend DEF Keeps, Moves
<1>2. /\ p \in Seq(TLSRecord)
      /\ \A i \in 1 .. Len(p) : p[i].n # 0 => i \in 1 .. Len(o) /\ p[i] = o[i] /\ o[i] \in TLSRecord
  <2>1. CASE p = o
    BY <1>0, <2>1
  <2>2. CASE p # o
    <3>1. PICK r \in TLSRecord : r.n = 0 /\ p = Append(o, r)
      BY <2>2
    <3>2. /\ Append(o, r) \in Seq(TLSRecord) /\ Len(Append(o, r)) = Len(o) + 1
          /\ Append(o, r)[Len(o) + 1] = r
          /\ \A i \in 1 .. Len(o) : Append(o, r)[i] = o[i] /\ o[i] \in TLSRecord
          /\ \A i \in 1 .. Len(o) + 1 : i = Len(o) + 1 \/ i \in 1 .. Len(o)
      BY <1>0, ChannelAppend
    <3> QED BY <3>1, <3>2
  <2> QED BY <2>1, <2>2
<1>3. ASSUME NEW i \in 1 .. Len(p), p[i].n # 0 PROVE Good(x, p, t, k, p[i].conn, p[i].n)
  <2>1. p[i].conn \in Conns /\ p[i].n \in Nat /\ Good(sk, o, s, l, p[i].conn, p[i].n)
    BY <1>2, <1>3 DEF TLSRecord, ChannelSafe
  <2> QED BY <1>1, <2>1, GoodMore
<1>4. \A i, j \in 1 .. Len(p) :
        i < j /\ p[i].conn = p[j].conn /\ p[i].n # 0 /\ p[j].n # 0 => p[i].n < p[j].n
  BY <1>2 DEF ChannelSafe
<1> QED BY <1>1, <1>2, <1>3, <1>4 DEF ChannelSafe

\* A chunk that is missed as well leaves the channel as it is.
LEMMA ChannelMisses ==
  ASSUME NEW sk, NEW o, NEW s, NEW l, ChannelSafe(sk, o, s, l), NEW x, sk \subseteq x
  PROVE  ChannelSafe(x, o, s, l)
BY DEF ChannelSafe, Good, Awaited

\* The oldest record is taken out of the channel.
LEMMA ChannelTail ==
  ASSUME NEW s, NEW l, Counts(s, l), NEW sk, NEW o, ChannelSafe(sk, o, s, l), o # <<>>
  PROVE  LET h == Head(o) IN
         /\ ChannelSafe(sk, Tail(o), s, l) /\ h \in TLSRecord
         /\ \A c, n : InOut(o, c, n) => InOut(Tail(o), c, n) \/ (c = h.conn /\ n = h.n)
         /\ h.n # 0 => /\ Good(sk, Tail(o), s, l, h.conn, h.n)
                       /\ \A n \in 1 .. h.n - 1 : ~InOut(o, h.conn, n)
<1> DEFINE h == Head(o)
           p == Tail(o)
           N == Len(o)
<1>1. /\ N \in Nat \ {0} /\ h = o[1] /\ h \in TLSRecord /\ p \in Seq(TLSRecord) /\ Len(p) = N - 1
      /\ \A i \in 1 .. N - 1 : p[i] = o[i + 1]
      /\ \A i \in 1 .. N : o[i] \in TLSRecord
  BY DEF ChannelSafe
<1> HIDE DEF h, p
<1>2. /\ \A i \in 1 .. N - 1 : i + 1 \in 1 .. N /\ 1 < i + 1
      /\ \A i \in 1 .. N : i = 1 \/ (i - 1 \in 1 .. N - 1 /\ (i - 1) + 1 = i)
      /\ 1 \in 1 .. N
      /\ \A i, j \in 1 .. N - 1 : i < j => i + 1 < j + 1
  BY <1>1
<1>3. \A c, n : InOut(o, c, n) => InOut(p, c, n) \/ (c = h.conn /\ n = h.n)
  <2> SUFFICES ASSUME NEW c, NEW n, NEW i \in 1 .. N, o[i].conn = c, o[i].n = n
               PROVE  InOut(p, c, n) \/ (c = h.conn /\ n = h.n)
    BY DEF InOut
  <2>1. CASE i = 1
    BY <1>1, <2>1
  <2>2. CASE i # 1
    <3>1. i - 1 \in 1 .. Len(p) /\ p[i - 1] = o[i]
      BY <1>1, <1>2, <2>2
    <3> QED BY <3>1 DEF InOut
  <2> QED BY <2>1, <2>2
<1>4. ASSUME NEW i \in 1 .. N, o[i].n # 0, i = 1 \/ o[i].conn # h.conn \/ h.n = 0 \/ h.n < o[i].n
      PROVE  Good(sk, p, s, l, o[i].conn, o[i].n)
  <2>1. o[i].n \in Nat /\ h.n \in Nat /\ Good(sk, o, s, l, o[i].conn, o[i].n)
    BY <1>1, <1>4 DEF TLSRecord, ChannelSafe
  <2>2. Of(s, o[i].conn) \in Nat
    BY <1>1 DEF Counts, TLSRecord
  <2>3. ASSUME NEW n \in o[i].n + 1 .. Of(s, o[i].conn) PROVE Awaited(sk, p, l, o[i].conn, n)
    <3>1. n # h.n \/ o[i].conn # h.conn
      BY <1>1, <1>4, <2>1, <2>2
    <3>2. Awaited(sk, o, l, o[i].conn, n)
      BY <2>1 DEF Good
    <3> QED BY <1>3, <3>1, <3>2 DEF Awaited
  <2> QED BY <2>1, <2>3 DEF Good
<1>5. ChannelSafe(sk, p, s, l)
  <2>1. ASSUME NEW i \in 1 .. N - 1, p[i].n # 0 PROVE Good(sk, p, s, l, p[i].conn, p[i].n)
    <3>1. i + 1 \in 1 .. N /\ 1 < i + 1 /\ p[i] = o[i + 1]
      BY <1>1, <1>2
    <3>2. o[i + 1].conn # h.conn \/ h.n = 0 \/ h.n < o[i + 1].n
      BY <1>1, <1>2, <2>1, <3>1 DEF ChannelSafe
    <3> QED BY <1>4, <2>1, <3>1, <3>2
  <2>2. \A i, j \in 1 .. N - 1 :
          i < j /\ p[i].conn = p[j].conn /\ p[i].n # 0 /\ p[j].n # 0 => p[i].n < p[j].n
    BY <1>1, <1>2 DEF ChannelSafe
  <2> QED BY <1>1, <2>1, <2>2 DEF ChannelSafe
<1>6. ASSUME h.n # 0 PROVE Good(sk, p, s, l, h.conn, h.n) /\ \A n \in 1 .. h.n - 1 : ~InOut(o, h.conn, n)
  <2>1. Good(sk, p, s, l, h.conn, h.n)
    BY <1>1, <1>2, <1>4, <1>6
  <2>2. ASSUME NEW n \in 1 .. h.n - 1, NEW i \in 1 .. N, o[i].conn = h.conn, o[i].n = n PROVE FALSE
    <3>1. h.n \in Nat
      BY <1>1 DEF TLSRecord
    <3>2. i # 1 /\ n # 0 /\ n < h.n
      BY <1>1, <2>2, <3>1
    <3>3. 1 < i
      BY <1>1, <3>2
    <3>4. h.n < n
      BY <1>1, <1>2, <1>6, <2>2, <3>2, <3>3 DEF ChannelSafe
    <3> QED BY <3>1, <3>2, <3>4
  <2> QED BY <2>1, <2>2 DEF InOut
<1> QED BY <1>1, <1>3, <1>5, <1>6 DEF h, p

-----------------------------------------------------------------------------
(* TLS records: what is in a pipe and what is still to come.               *)

\* Everything in a pipe was sent before a loss, and between two chunks only a
\* pause missed some.
Fed(q, s, l, sk) ==
  /\ \A i \in 1 .. Len(q.put) :
       q.put[i] <= Of(s, q.conn) /\ (Of(l, q.conn) # 0 => q.put[i] < Of(l, q.conn))
  /\ \A i \in 1 .. Len(q.put) - 1 : \A n \in q.put[i] + 1 .. q.put[i + 1] - 1 :
       <<q.conn, "write", n>> \in sk

\* After the last chunk of a pipe, each is awaited.
Caught(q, o, s, l, sk) ==
  q.put # <<>> => \A n \in q.put[Len(q.put)] + 1 .. Of(s, q.conn) :
                    Awaited(sk, o, l, q.conn, n)

\* An open pipe is the one of its connection.
PipeSafe(p, q, st, o, s, l, sk) ==
  /\ PipeShape(q) /\ Fed(q, s, l, sk)
  /\ ~q.closed => q.conn \in DOMAIN st /\ st[q.conn] = p[1] /\ Caught(q, o, s, l, sk)

LEMMA SamePipe ==
  ASSUME NEW p, NEW q, NEW st, NEW o, NEW s, NEW l, NEW sk, PipeSafe(p, q, st, o, s, l, sk),
         NEW r, PipeShape(r), SameFeed(r, q)
  PROVE  PipeSafe(p, r, st, o, s, l, sk)
<1>1. Fed(r, s, l, sk) /\ (Caught(q, o, s, l, sk) => Caught(r, o, s, l, sk))
  BY DEF PipeSafe, SameFeed, Fed, Caught
<1>2. ~r.closed => ~q.closed
  BY DEF SameFeed
<1> QED BY <1>1, <1>2 DEF PipeSafe, SameFeed

LEMMA PipeNumbers ==
  ASSUME NEW q, PipeShape(q)
  PROVE  /\ q.conn \in Conns /\ Len(q.put) \in Nat /\ \A i \in 1 .. Len(q.put) : q.put[i] \in Nat
         /\ q.put # <<>> => Len(q.put) \in 1 .. Len(q.put) /\ q.put[Len(q.put)] \in Nat
<1>1. q.conn \in Conns /\ q.put \in Seq(Nat)
  BY PipeFields DEF PipeShape
<1> DEFINE w == q.put
<1> HIDE DEF w
<1>2. w \in Seq(Nat)
  BY <1>1 DEF w
<1>3. Len(w) \in Nat /\ (\A i \in 1 .. Len(w) : w[i] \in Nat) /\ (w # <<>> => Len(w) \in 1 .. Len(w))
  BY <1>2
<1> QED BY <1>1, <1>3 DEF w

\* The source moves on.
LEMMA MorePipe ==
  ASSUME NEW s, NEW l, NEW t, NEW k, NEW c \in Conns, NEW sk, NEW x, NEW o, NEW o2,
         Moves(s, l, t, k, c, sk, x, o, o2),
         NEW p, NEW q, NEW st, PipeSafe(p, q, st, o, s, l, sk)
  PROVE  PipeSafe(p, q, st, o2, t, k, x)
<1>1. /\ PipeShape(q) /\ Fed(q, s, l, sk) /\ q.conn \in Conns
      /\ \A i \in 1 .. Len(q.put) : q.put[i] \in Nat
      /\ q.put # <<>> => q.put[Len(q.put)] \in Nat
  BY PipeNumbers DEF PipeSafe
<1>5. Counts(s, l) /\ OneMore(s, l, t, k, c) /\ sk \subseteq x
  BY DEF Moves
<1>2. Fed(q, t, k, x)
  <2>1. ASSUME NEW i \in 1 .. Len(q.put)
        PROVE  q.put[i] <= Of(t, q.conn) /\ (Of(k, q.conn) # 0 => q.put[i] < Of(k, q.conn))
    <3>1. /\ q.put[i] \in Nat /\ q.put[i] <= Of(s, q.conn)
          /\ Of(l, q.conn) # 0 => q.put[i] < Of(l, q.conn)
      BY <1>1 DEF Fed
    <3> QED BY <1>1, <1>5, <3>1, BelowMore
  <2> QED BY <1>1, <1>5, <2>1 DEF Fed
<1>3. ASSUME Caught(q, o, s, l, sk), q.put # <<>>,
             NEW n \in q.put[Len(q.put)] + 1 .. Of(t, q.conn)
      PROVE  Awaited(x, o2, k, q.conn, n)
  <2> DEFINE m == q.put[Len(q.put)]
  <2>1. m \in Nat
    BY <1>1, <1>3
  <2>2. \A y \in m + 1 .. Of(s, q.conn) : Awaited(sk, o, l, q.conn, y)
    BY <1>3 DEF Caught
  <2> HIDE DEF m
  <2>3. n \in m + 1 .. Of(t, q.conn)
    BY DEF m
  <2>4. Awaited(x, o2, k, q.conn, n) \/ (n \in m + 1 .. Of(s, q.conn) /\ ~Awaited(sk, o, l, q.conn, n))
    BY <1>1, <2>1, <2>3, AwaitedMore
  <2> QED BY <2>2, <2>4
<1>4. Caught(q, o, s, l, sk) => Caught(q, o2, t, k, x)
  BY <1>3 DEF Caught
<1> QED BY <1>1, <1>2, <1>4 DEF PipeSafe

\* A record is taken that is not for this pipe, or that is missed.
LEMMA TailPipe ==
  ASSUME NEW s, NEW l, Counts(s, l), NEW sk, NEW o, ChannelSafe(sk, o, s, l), o # <<>>,
         NEW p, NEW q, NEW st, PipeSafe(p, q, st, o, s, l, sk),
         NEW x, sk \subseteq x, NEW u,
         ~q.closed => /\ q.conn \in DOMAIN u /\ u[q.conn] = p[1]
                      /\ \/ q.conn # Head(o).conn \/ Head(o).n = 0
                         \/ <<q.conn, "write", Head(o).n>> \in x
  PROVE  PipeSafe(p, q, u, Tail(o), s, l, x)
<1>1. Fed(q, s, l, x)
  BY DEF PipeSafe, Fed
<1>2. ASSUME ~q.closed, q.put # <<>>, NEW n \in q.put[Len(q.put)] + 1 .. Of(s, q.conn)
      PROVE  Awaited(x, Tail(o), l, q.conn, n)
  <2>1. q.put[Len(q.put)] \in Nat /\ Of(s, q.conn) \in Nat
    BY <1>2, PipeNumbers DEF PipeSafe, Counts
  <2>2. n # 0
    BY <2>1
  <2>3. Awaited(sk, o, l, q.conn, n)
    BY <1>2 DEF PipeSafe, Caught
  <2>4. InOut(o, q.conn, n) => InOut(Tail(o), q.conn, n) \/ (q.conn = Head(o).conn /\ n = Head(o).n)
    BY ChannelTail
  <2> QED BY <1>2, <2>2, <2>3, <2>4 DEF Awaited
<1> QED BY <1>1, <1>2 DEF PipeSafe, Caught

\* The record is put into the open pipe of its connection.
Puts(q, n, r) == r = [q EXCEPT !.ch = Append(@, n), !.put = Append(@, n)]

LEMMA FeedPipe ==
  ASSUME NEW s, NEW l, Counts(s, l), NEW sk, NEW o, ChannelSafe(sk, o, s, l), o # <<>>,
         Head(o).n # 0, NEW p, NEW q, NEW st, PipeSafe(p, q, st, o, s, l, sk), ~q.closed,
         q.conn = Head(o).conn,
         NEW r, Puts(q, Head(o).n, r)
  PROVE  PipeSafe(p, r, st, Tail(o), s, l, sk) /\ T!Load(r) = T!Load(q) + 1 /\ r.conn = q.conn
<1> DEFINE h == Head(o).n
           c == q.conn
           w == q.put
           N == Len(w)
<1>1. /\ h \in Nat \ {0} /\ Good(sk, Tail(o), s, l, c, h) /\ c \in Conns
      /\ \A n \in 1 .. h - 1 : ~InOut(o, c, n)
  BY ChannelTail DEF TLSRecord
<1>2. /\ PipeShape(r) /\ T!Load(r) = T!Load(q) + 1 /\ r.put = Append(w, h) /\ r.conn = c
      /\ r.closed = q.closed
  <2>1. PipeShape(q) /\ ~q.closed
    BY DEF PipeSafe
  <2>2. h \in Nat \ {0} /\ r = [q EXCEPT !.ch = Append(@, h), !.put = Append(@, h)]
    BY <1>1 DEF Puts
  <2> HIDE DEF h
  <2> QED BY ONLY <2>1, <2>2, PutShape DEF w, c
<1>3. PipeShape(q) /\ Fed(q, s, l, sk) /\ Caught(q, o, s, l, sk) /\ w \in Seq(Nat)
  BY PipeFields DEF PipeSafe, PipeShape
<1>4. Of(s, c) \in Nat /\ Of(l, c) \in Nat
  BY <1>1 DEF Counts
<1>5. /\ \A i \in 1 .. N : w[i] <= Of(s, c) /\ (Of(l, c) # 0 => w[i] < Of(l, c))
      /\ \A i \in 1 .. N - 1 : \A n \in w[i] + 1 .. w[i + 1] - 1 : <<c, "write", n>> \in sk
  BY <1>3 DEF Fed
<1>6. w # <<>> => \A n \in w[N] + 1 .. Of(s, c) : Awaited(sk, o, l, c, n)
  BY <1>3 DEF Caught
<1>7. h <= Of(s, c) /\ (Of(l, c) # 0 => h < Of(l, c))
      /\ \A n \in h + 1 .. Of(s, c) : Awaited(sk, Tail(o), l, c, n)
  BY <1>1 DEF Good
<1> HIDE DEF h, c, w
<1>8. /\ N \in Nat /\ Len(Append(w, h)) = N + 1 /\ Append(w, h)[N + 1] = h
      /\ \A i \in 1 .. N : Append(w, h)[i] = w[i] /\ w[i] \in Nat
      /\ \A i \in 1 .. N + 1 : i = N + 1 \/ i \in 1 .. N
  BY <1>1, <1>3
<1> DEFINE v == Append(w, h)
<1> HIDE DEF v
<1>9. \A i \in 1 .. N + 1 : v[i] <= Of(s, c) /\ (Of(l, c) # 0 => v[i] < Of(l, c))
  BY <1>5, <1>7, <1>8 DEF v
<1>10. ASSUME NEW i \in 1 .. N, NEW n \in v[i] + 1 .. v[i + 1] - 1 PROVE <<c, "write", n>> \in sk
  <2>1. CASE i \in 1 .. N - 1
    <3>1. i \in 1 .. N /\ i + 1 \in 1 .. N
      BY <1>8, <2>1
    <3>2. v[i] = w[i] /\ v[i + 1] = w[i + 1]
      BY <1>8, <3>1 DEF v
    <3> QED BY <1>5, <1>10, <2>1, <3>2
  <2>2. CASE i = N
    <3>1. v[i] = w[N] /\ v[i + 1] = h /\ w[N] \in Nat /\ N # 0
      BY <1>8, <2>2 DEF v
    <3>2. n \in w[N] + 1 .. h - 1
      BY <1>10, <3>1
    <3>3. n \in w[N] + 1 .. Of(s, c) /\ n \in 1 .. h - 1 /\ ~(Of(l, c) # 0 /\ n >= Of(l, c))
      BY <1>1, <1>4, <1>7, <3>1, <3>2
    <3>4. w # <<>>
      BY <3>1
    <3>5. Awaited(sk, o, l, c, n)
      BY <1>6, <3>3, <3>4
    <3>6. Awaited(sk, o, l, c, n) => <<c, "write", n>> \in sk
      BY <1>1, <3>3 DEF Awaited, h, c
    <3> QED BY <3>5, <3>6
  <2> QED BY <1>8, <2>1, <2>2
<1>11. Fed(r, s, l, sk)
  <2>1. r.put = v /\ r.conn = c /\ Len(v) = N + 1 /\ (N + 1) - 1 = N
    BY <1>2, <1>8 DEF v
  <2> QED BY <1>9, <1>10, <2>1 DEF Fed
<1>12. Caught(r, Tail(o), s, l, sk)
  <2>1. r.put = v /\ r.conn = c /\ v[Len(v)] = h
    BY <1>2, <1>8 DEF v
  <2> QED BY <1>7, <2>1 DEF Caught
<1>13. r.conn = q.conn /\ (~r.closed => q.conn \in DOMAIN st /\ st[q.conn] = p[1])
  BY <1>2 DEF PipeSafe, c
<1> QED BY <1>2, <1>11, <1>12, <1>13 DEF PipeSafe

-----------------------------------------------------------------------------
(* TLS records: the budget.                                                *)

Loads(ps) == [p \in DOMAIN ps |-> T!Load(ps[p])]
Total(ps) == SumOver(Loads(ps), DOMAIN ps)

Shaped(ps) == IsFiniteSet(DOMAIN ps) /\ \A p \in DOMAIN ps : PipeShape(ps[p])

LEMMA LoadsTyped ==
  ASSUME NEW ps, Shaped(ps)
  PROVE  (\A p \in DOMAIN ps : Loads(ps)[p] = T!Load(ps[p]) /\ Loads(ps)[p] \in Nat) /\ Total(ps) \in Nat
<1>1. \A p \in DOMAIN ps : Loads(ps)[p] = T!Load(ps[p]) /\ Loads(ps)[p] \in Nat
  BY LoadIs DEF Loads, Shaped, PipeShape
<1> QED BY <1>1, SumOverType DEF Total, Shaped

LEMMA TotalOne ==
  ASSUME NEW ps, Shaped(ps), NEW p \in DOMAIN ps, NEW r, PipeShape(r),
         NEW u, DOMAIN u = DOMAIN ps, u[p] = r, \A j \in DOMAIN ps \ {p} : u[j] = ps[j]
  PROVE  Total(u) = Total(ps) - T!Load(ps[p]) + T!Load(r) /\ Shaped(u)
<1>1. Shaped(u)
  BY DEF Shaped
<1>2. /\ Loads(u)[p] = T!Load(r) /\ Loads(ps)[p] = T!Load(ps[p]) /\ Loads(u)[p] \in Nat
      /\ \A j \in DOMAIN ps : Loads(ps)[j] \in Nat
      /\ \A j \in DOMAIN ps \ {p} : Loads(u)[j] = Loads(ps)[j]
  BY <1>1, LoadsTyped
<1>3. IsFiniteSet(DOMAIN ps)
  BY DEF Shaped
<1>4. SumOver(Loads(u), DOMAIN ps) = SumOver(Loads(ps), DOMAIN ps) - Loads(ps)[p] + Loads(u)[p]
  BY <1>2, <1>3, SumOverExcept
<1> QED BY <1>1, <1>2, <1>4 DEF Total

LEMMA TotalSame ==
  ASSUME NEW ps, Shaped(ps), NEW u, Shaped(u), DOMAIN u = DOMAIN ps,
         \A j \in DOMAIN ps : T!Load(u[j]) = T!Load(ps[j])
  PROVE  Total(u) = Total(ps)
<1>1. IsFiniteSet(DOMAIN ps) /\ \A j \in DOMAIN ps : Loads(u)[j] = Loads(ps)[j] /\ Loads(ps)[j] \in Nat
  BY LoadsTyped DEF Shaped
<1> QED BY <1>1, SumOverSame DEF Total

LEMMA TotalNew ==
  ASSUME NEW ps, Shaped(ps), NEW x, x \notin DOMAIN ps, NEW u, DOMAIN u = DOMAIN ps \cup {x},
         PipeShape(u[x]), T!Load(u[x]) = 0, \A j \in DOMAIN ps : u[j] = ps[j]
  PROVE  Total(u) = Total(ps) /\ Shaped(u)
<1>1. IsFiniteSet(DOMAIN ps) /\ IsFiniteSet(DOMAIN ps \cup {x})
  BY FS_AddElement DEF Shaped
<1>2. Shaped(u)
  BY <1>1 DEF Shaped
<1>3. /\ Loads(u)[x] = 0 /\ \A j \in DOMAIN u : Loads(u)[j] \in Nat
      /\ \A j \in DOMAIN ps : Loads(u)[j] = Loads(ps)[j] /\ Loads(ps)[j] \in Nat
  BY <1>2, LoadsTyped
<1>4. x \in DOMAIN u /\ DOMAIN u \ {x} = DOMAIN ps
  OBVIOUS
<1>5. Total(u) = Loads(u)[x] + SumOver(Loads(u), DOMAIN ps)
  BY <1>1, <1>3, <1>4, SumOverSplit DEF Total
<1>6. SumOver(Loads(u), DOMAIN ps) = Total(ps)
  BY <1>1, <1>3, SumOverSame DEF Total
<1>7. Total(ps) \in Nat
  BY LoadsTyped
<1> QED BY <1>2, <1>3, <1>5, <1>6, <1>7

-----------------------------------------------------------------------------
(* TLS records: the steps.                                                 *)

PipesNumbered(ps) == \E k \in Nat : DOMAIN ps = (1 .. k) \X {"write"}

Streaming(st, ps) ==
  \A c \in DOMAIN st : /\ c \in Conns /\ <<st[c], "write">> \in DOMAIN ps
                       /\ ps[<<st[c], "write">>].conn = c

\* Once a chunk of a connection is lost, the source forwards no more of it.
LossKnown == \A c \in Conns : Of(lost, c) # 0 => c \in DOMAIN lagged \/ ~drain

TLSSafe ==
  /\ Counts(sent, lost) /\ LossKnown /\ ChannelSafe(missed, out, sent, lost)
  /\ PipesNumbered(pipes) /\ Streaming(streams, pipes)
  /\ \A p \in DOMAIN pipes : PipeSafe(p, pipes[p], streams, out, sent, lost, missed)
  /\ used = Size * Total(pipes)

LEMMA PipesFinite == ASSUME NEW ps, PipesNumbered(ps) PROVE IsFiniteSet(DOMAIN ps)
<1>1. PICK k \in Nat : DOMAIN ps = (1 .. k) \X {"write"}
  BY DEF PipesNumbered
<1>2. IsFiniteSet(1 .. k) /\ IsFiniteSet({"write"})
  <2>1. 1 \in Int /\ k \in Int
    OBVIOUS
  <2>2. IsFiniteSet(1 .. k)
    BY <2>1, FS_Interval
  <2>3. IsFiniteSet({"write"})
    BY FS_Singleton
  <2> QED BY <2>2, <2>3
<1> QED BY <1>1, <1>2, FS_Product

LEMMA TLSShaped == TLSSafe => Shaped(pipes)
BY PipesFinite DEF TLSSafe, Shaped, PipeSafe

LEMMA TLSInit == T!Init => TLSSafe
<1> SUFFICES ASSUME T!Init PROVE TLSSafe
  OBVIOUS
<1>1. /\ sent = [p \in Conns \X {"write"} |-> 0] /\ lost = [p \in Conns \X {"write"} |-> 0]
      /\ out = <<>> /\ streams = <<>> /\ pipes = <<>> /\ used = 0
  BY DEF T!Init
<1>2. DOMAIN pipes = {} /\ DOMAIN streams = {} /\ Len(out) = 0 /\ out \in Seq(TLSRecord)
  BY <1>1
<1>3. Counts(sent, lost) /\ LossKnown
  BY <1>1 DEF Counts, LossKnown, Of
<1>4. ChannelSafe(missed, out, sent, lost)
  BY <1>2 DEF ChannelSafe
<1>5. PipesNumbered(pipes)
  <2>1. 0 \in Nat /\ (1 .. 0) \X {"write"} = {}
    OBVIOUS
  <2> QED BY <1>2, <2>1 DEF PipesNumbered
<1>6. Total(pipes) = 0
  BY <1>2, SumOverEmpty DEF Total
<1>7. Size * 0 = 0
  BY CaptureAssumption DEF T!TLSAssumption
<1> QED BY <1>1, <1>2, <1>3, <1>4, <1>5, <1>6, <1>7 DEF TLSSafe, Streaming

LEMMA TLSKept ==
  ASSUME TLSSafe, UNCHANGED <<sent, lost, lagged, out, streams, pipes, used, missed>>, drain' => drain
  PROVE  TLSSafe'
<1>1. LossKnown'
  BY DEF TLSSafe, LossKnown
<1> QED BY <1>1 DEF TLSSafe

\* The reader of one pipe.
LEMMA ReaderStep ==
  ASSUME TLSSafe, NEW p \in DOMAIN pipes, NEW r, pipes' = [pipes EXCEPT ![p] = r],
         PipeShape(r), SameFeed(r, pipes[p]), used' = used - Size * (T!Load(pipes[p]) - T!Load(r)),
         UNCHANGED <<sent, lost, lagged, out, streams, missed, drain>>
  PROVE  TLSSafe'
<1>1. /\ DOMAIN pipes' = DOMAIN pipes /\ pipes'[p] = r
      /\ \A j \in DOMAIN pipes \ {p} : pipes'[j] = pipes[j]
  OBVIOUS
<1>2. Shaped(pipes)
  BY TLSShaped
<1>3. Total(pipes') = Total(pipes) - T!Load(pipes[p]) + T!Load(r)
  <2> DEFINE u == pipes'
  <2>1. DOMAIN u = DOMAIN pipes /\ u[p] = r /\ \A j \in DOMAIN pipes \ {p} : u[j] = pipes[j]
    BY <1>1
  <2> HIDE DEF u
  <2>2. Total(u) = Total(pipes) - T!Load(pipes[p]) + T!Load(r)
    BY ONLY <1>2, <2>1, PipeShape(r), p \in DOMAIN pipes, TotalOne
  <2> QED BY <2>2 DEF u
<1>4. Total(pipes) \in Nat /\ T!Load(pipes[p]) \in Nat /\ T!Load(r) \in Nat
  BY <1>2, LoadsTyped, LoadIs DEF Shaped, PipeShape
<1>5. used' = Size * Total(pipes')
  <2> DEFINE a == Total(pipes)
             b == T!Load(pipes[p])
             c == T!Load(r)
  <2>1. used = Size * a /\ used' = used - Size * (b - c) /\ Total(pipes') = a - b + c
    BY <1>3 DEF TLSSafe
  <2>2. a \in Nat /\ b \in Nat /\ c \in Nat
    BY <1>4
  <2> HIDE DEF a, b, c
  <2>3. Size \in Nat
    BY CaptureAssumption DEF T!TLSAssumption
  <2>4. Size * (a - b + c) = Size * a - Size * (b - c)
    BY <2>2, <2>3
  <2> QED BY <2>1, <2>4
<1>6. \A j \in DOMAIN pipes' : PipeSafe(j, pipes'[j], streams, out, sent, lost, missed)
  <2> TAKE j \in DOMAIN pipes'
  <2>1. PipeSafe(j, pipes[j], streams, out, sent, lost, missed)
    BY <1>1 DEF TLSSafe
  <2>2. CASE j = p
    BY <1>1, <2>1, <2>2, SamePipe
  <2>3. CASE j # p
    BY <1>1, <2>1, <2>3
  <2> QED BY <2>2, <2>3
<1>7. PipesNumbered(pipes')
  BY <1>1 DEF TLSSafe, PipesNumbered
<1>8. Streaming(streams, pipes')
  BY <1>1 DEF TLSSafe, Streaming, SameFeed
<1>9. LossKnown'
  BY DEF TLSSafe, LossKnown
<1> QED BY <1>5, <1>6, <1>7, <1>8, <1>9 DEF TLSSafe

LEMMA ReadSafe == ASSUME TLSSafe, NEW p \in DOMAIN pipes, T!Read(p) \/ T!discard(p) PROVE TLSSafe'
<1> DEFINE q == pipes[p]
<1>1. PipeShape(q) /\ q \in Pipe /\ T!Load(q) \in Nat
  BY LoadIs DEF TLSSafe, PipeSafe, PipeShape
<1>2. UNCHANGED <<sent, lost, lagged, out, streams, missed, drain>>
  BY DEF T!Read, T!ReadBuffer, T!ReadPoll, T!ReadLag, T!ReadWait, T!discard, T!Rest, T!sourceVars
<1>3. Size \in Nat /\ T!Load(q) - T!Load(q) = 0 /\ Size * 0 = 0 /\ used - 0 = used
  <2>1. Size \in Nat
    BY CaptureAssumption DEF T!TLSAssumption
  <2>2. Total(pipes) \in Nat /\ used = Size * Total(pipes)
    BY TLSShaped, LoadsTyped DEF TLSSafe
  <2>3. used \in Int
    BY <2>1, <2>2
  <2> QED BY <1>1, <2>1, <2>3
<1>4. ASSUME NEW r, T!Set(p, r), PipeShape(r), SameFeed(r, q), T!Load(r) = T!Load(q), UNCHANGED used
      PROVE  TLSSafe'
  <2>1. pipes' = [pipes EXCEPT ![p] = r] /\ used' = used - Size * (T!Load(pipes[p]) - T!Load(r))
    BY <1>3, <1>4 DEF T!Set
  <2> QED BY <1>2, <1>4, <2>1, ReaderStep
<1>5. CASE T!ReadBuffer(p)
  <2>1. q.left > 0 /\ q.left \in Nat
    BY <1>1, <1>5, PipeFields DEF T!ReadBuffer
  <2>2. PICK n \in 1 .. q.left :
          /\ T!Set(p, [q EXCEPT !.left = @ - n, !.buf = IF n = q.left THEN 0 ELSE @,
                                !.got = IF n = q.left THEN Append(@, q.buf) ELSE @])
          /\ used' = used - (IF n = q.left THEN Size ELSE 0)
    BY <1>5 DEF T!ReadBuffer
  <2>3. CASE n = q.left
    <3> DEFINE r == [q EXCEPT !.left = @ - q.left, !.buf = 0, !.got = Append(@, q.buf)]
    <3>1. pipes' = [pipes EXCEPT ![p] = r] /\ used' = used - Size
      BY <2>2, <2>3 DEF T!Set
    <3>2. PipeShape(r) /\ SameFeed(r, q) /\ T!Load(r) = T!Load(q) - 1
      <4>1. PipeShape(q) /\ q.left # 0
        BY <1>1, <2>1
      <4>2. r = [q EXCEPT !.left = @ - q.left, !.buf = 0, !.got = Append(@, q.buf)]
        OBVIOUS
      <4> HIDE DEF r, q
      <4> QED BY ONLY <4>1, <4>2, WholeShape
    <3> HIDE DEF r
    <3>3. Size * (T!Load(q) - T!Load(r)) = Size
      <4>1. T!Load(q) - T!Load(r) = 1
        BY <1>1, <3>2
      <4> QED BY <1>3, <4>1
    <3> QED BY <1>2, <3>1, <3>2, <3>3, ReaderStep
  <2>4. CASE n # q.left
    <3> DEFINE r == [q EXCEPT !.left = @ - n, !.buf = @, !.got = @]
    <3>1. T!Set(p, r) /\ UNCHANGED used
      BY <1>3, <2>2, <2>4
    <3>2. PipeShape(r) /\ SameFeed(r, q) /\ T!Load(r) = T!Load(q)
      BY <1>1, <2>4, PartShape
    <3> HIDE DEF r
    <3> QED BY <1>4, <3>1, <3>2
  <2> QED BY <2>3, <2>4
<1>6. CASE T!ReadPoll(p)
  <2>1. q.buf = 0 /\ q.pc # "gone" /\ UNCHANGED used
    BY <1>1, <1>6 DEF T!ReadPoll, PipeShape
  <2>2. CASE q.ch # <<>>
    BY <1>1, <1>4, <1>6, <2>1, <2>2, TakeShape DEF T!ReadPoll
  <2>3. CASE q.ch = <<>>
    BY <1>1, <1>4, <1>6, <2>1, <2>3, PcShape DEF T!ReadPoll
  <2> QED BY <2>2, <2>3
<1>7. CASE T!ReadLag(p)
  <2>1. q.buf = 0 /\ q.pc # "gone" /\ UNCHANGED used
    BY <1>1, <1>7 DEF T!ReadLag, PipeShape
  <2>2. PICK s \in {"polled", "wait", "eof"} : T!Set(p, [q EXCEPT !.pc = s])
    BY <1>7 DEF T!ReadLag
  <2> QED BY <1>1, <1>4, <2>1, <2>2, PcShape
<1>8. CASE T!ReadWait(p)
  <2>1. q.buf = 0 /\ q.pc # "gone" /\ UNCHANGED used
    BY <1>1, <1>8 DEF T!ReadWait, PipeShape
  <2>2. CASE q.ch # <<>>
    BY <1>1, <1>4, <1>8, <2>1, <2>2, TakeShape DEF T!ReadWait
  <2>3. CASE q.ch = <<>>
    BY <1>1, <1>4, <1>8, <2>1, <2>3, PcShape DEF T!ReadWait
  <2> QED BY <2>2, <2>3
<1>9. CASE T!discard(p)
  <2> DEFINE r == [q EXCEPT !.pc = "gone", !.closed = TRUE, !.ch = <<>>, !.buf = 0, !.left = 0]
  <2>1. pipes' = [pipes EXCEPT ![p] = r] /\ used' = used - Size * T!Load(q)
    BY <1>9 DEF T!discard, T!Set
  <2>2. PipeShape(r) /\ SameFeed(r, q) /\ T!Load(r) = 0
    BY <1>1, GoneShape
  <2> HIDE DEF r
  <2>3. T!Load(q) - T!Load(r) = T!Load(q)
    BY <1>1, <2>2
  <2> QED BY <1>2, <2>1, <2>2, <2>3, ReaderStep
<1> QED BY <1>5, <1>6, <1>7, <1>8, <1>9 DEF T!Read

\* The source forwards a chunk, or loses it and says so.
LEMMA DrainSafe ==
  ASSUME TLSSafe, NEW c \in Conns, NEW b \in BOOLEAN, T!drainLoop(c, "write", b)
  PROVE  TLSSafe'
<1> DEFINE ev == [conn |-> c, dir |-> "write", n |-> sent[<<c, "write">>] + 1]
           known == c \in DOMAIN lagged
           fits == ~known /\ ~b /\ Len(out) < outCap
<1>1. /\ drain /\ UNCHANGED <<streams, pipes, used, missed>>
      /\ sent' = [sent EXCEPT ![<<c, "write">>] = @ + 1]
      /\ lost' = IF fits \/ lost[<<c, "write">>] # 0 THEN lost
                 ELSE [lost EXCEPT ![<<c, "write">>] = ev.n]
      /\ \/ fits /\ out' = Append(out, ev) /\ UNCHANGED <<lagged, drain>>
         \/ ~fits /\ ~drain' /\ UNCHANGED <<out, lagged>>
         \/ ~fits /\ T!forwardLoss(ev)
  BY DEF T!drainLoop, T!stopOnLedgerOverflow, T!streamVars
<1>2. /\ Of(sent, c) \in Nat /\ Of(lost, c) \in Nat /\ Of(lost, c) <= Of(sent, c)
      /\ sent \in [Conns \X {"write"} -> Nat] /\ lost \in [Conns \X {"write"} -> Nat]
      /\ out \in Seq(TLSRecord)
  BY DEF TLSSafe, Counts, ChannelSafe
<1>3. ev \in TLSRecord /\ ev.conn = c /\ ev.n = Of(sent, c) + 1
  BY <1>2 DEF TLSRecord, Of
<1>4. /\ sent' \in [Conns \X {"write"} -> Nat] /\ Of(sent', c) = Of(sent, c) + 1
      /\ \A k \in Conns \ {c} : Of(sent', k) = Of(sent, k)
  BY <1>1, <1>2 DEF Of
<1>5. fits => Of(lost, c) = 0
  BY <1>1 DEF TLSSafe, LossKnown
<1> HIDE DEF ev
<1>6. /\ lost' \in [Conns \X {"write"} -> Nat]
      /\ \A k \in Conns \ {c} : Of(lost', k) = Of(lost, k)
      /\ fits => lost' = lost
      /\ Of(lost, c) # 0 => lost' = lost
      /\ ~fits /\ Of(lost, c) = 0 => Of(lost', c) = Of(sent, c) + 1
  <2>1. CASE fits \/ Of(lost, c) # 0
    BY <1>1, <1>2, <2>1 DEF Of
  <2>2. CASE ~fits /\ Of(lost, c) = 0
    <3>1. lost' = [lost EXCEPT ![<<c, "write">>] = Of(sent, c) + 1] /\ Of(sent, c) + 1 \in Nat
      BY <1>1, <1>2, <1>3, <2>2 DEF Of
    <3> QED BY <1>2, <2>2, <3>1 DEF Of
  <2> QED BY <2>1, <2>2
<1>7. OneMore(sent, lost, sent', lost', c)
  BY <1>4, <1>6 DEF OneMore
<1>8. Counts(sent', lost')
  <2>1. ASSUME NEW k \in Conns
        PROVE  Of(sent', k) \in Nat /\ Of(lost', k) \in Nat /\ Of(lost', k) <= Of(sent', k)
    <3>1. Of(sent, k) \in Nat /\ Of(lost, k) \in Nat /\ Of(lost, k) <= Of(sent, k)
      BY DEF TLSSafe, Counts
    <3>2. CASE k # c
      BY <1>4, <1>6, <3>1, <3>2
    <3>3. CASE k = c
      BY <1>4, <1>6, <3>1, <3>3
    <3> QED BY <3>2, <3>3
  <2> QED BY <1>4, <1>6, <2>1 DEF Counts
<1>9. ~fits => Of(lost', c) # 0
  BY <1>2, <1>6
<1>10. ~fits => /\ c \in DOMAIN lagged' \/ ~drain'
                /\ out' = out \/ \E r \in TLSRecord : r.n = 0 /\ out' = Append(out, r)
  <2>1. CASE ~fits /\ T!forwardLoss(ev)
    <3> DEFINE r == [ev EXCEPT !.n = 0]
    <3>1. r \in TLSRecord /\ r.n = 0
      BY <1>3 DEF TLSRecord
    <3>2. out' = out \/ out' = Append(out, r)
      BY <1>3, <2>1 DEF T!forwardLoss, T!Offer
    <3>3. c \in DOMAIN lagged'
      BY <1>3, <2>1 DEF T!forwardLoss, T!Put
    <3> HIDE DEF r
    <3> QED BY <3>1, <3>2, <3>3
  <2> QED BY <1>1, <2>1
<1>11. DOMAIN lagged \subseteq DOMAIN lagged' /\ (drain' => drain)
  BY <1>1 DEF T!forwardLoss, T!Put
<1> HIDE DEF fits
<1>12. /\ ChannelSafe(missed, out', sent', lost') /\ Keeps(out, out')
       /\ Moves(sent, lost, sent', lost', c, missed, missed, out, out')
  <2>1. Counts(sent, lost) /\ ChannelSafe(missed, out, sent, lost)
    BY DEF TLSSafe
  <2>2. CASE fits
    <3>1. out' = Append(out, ev) /\ lost' = lost
      BY <1>1, <1>6, <2>2
    <3>2. ChannelSafe(missed, Append(out, ev), sent', lost)
      BY <1>3, <1>5, <1>7, <2>1, <2>2, <3>1, ChannelTakes
    <3>3. Keeps(out, Append(out, ev)) /\ InOut(Append(out, ev), c, Of(sent, c) + 1)
      BY <1>2, <1>3, InOutAppend DEF Keeps
    <3> QED BY <1>7, <2>1, <3>1, <3>2, <3>3 DEF Moves
  <2>3. CASE ~fits
    <3>1. ChannelSafe(missed, out', sent', lost') /\ Keeps(out, out') /\ Of(lost', c) # 0
      BY <1>7, <1>9, <1>10, <2>1, <2>3, ChannelLoses
    <3> QED BY <1>7, <2>1, <3>1 DEF Moves
  <2> QED BY <2>2, <2>3
<1>13. LossKnown'
  <2>1. ASSUME NEW k \in Conns, Of(lost', k) # 0 PROVE k \in DOMAIN lagged' \/ ~drain'
    <3>1. CASE Of(lost', k) = Of(lost, k)
      BY <1>11, <2>1, <3>1 DEF TLSSafe, LossKnown
    <3>2. CASE Of(lost', k) # Of(lost, k)
      BY <1>6, <1>10, <3>2
    <3> QED BY <3>1, <3>2
  <2> QED BY <2>1 DEF LossKnown
<1>14. \A p \in DOMAIN pipes : PipeSafe(p, pipes[p], streams, out', sent', lost', missed)
  <2> TAKE p \in DOMAIN pipes
  <2>1. Counts(sent, lost) /\ PipeSafe(p, pipes[p], streams, out, sent, lost, missed)
    BY DEF TLSSafe
  <2> QED BY <1>12, <2>1, MorePipe
<1> QED BY <1>1, <1>8, <1>12, <1>13, <1>14 DEF TLSSafe


\* A chunk is lost and nobody notices.
LEMMA SilentSafe == ASSUME TLSSafe, NEW c \in Conns, T!LostSilently(c, "write") PROVE TLSSafe'
<1>1. /\ UNCHANGED <<out, lost, lagged, streams, pipes, used, drain>>
      /\ sent' = [sent EXCEPT ![<<c, "write">>] = @ + 1]
      /\ missed' = missed \cup {<<c, "write", Of(sent, c) + 1>>}
  BY DEF T!LostSilently, Of
<1>2. Counts(sent, lost) /\ ChannelSafe(missed, out, sent, lost)
  BY DEF TLSSafe
<1>3. Counts(sent', lost) /\ OneMore(sent, lost, sent', lost, c)
  BY <1>1, <1>2 DEF Counts, OneMore, Of
<1>4. missed \subseteq missed' /\ <<c, "write", Of(sent, c) + 1>> \in missed'
  BY <1>1
<1>5. /\ ChannelSafe(missed', out, sent', lost)
      /\ Moves(sent, lost, sent', lost, c, missed, missed', out, out)
  BY <1>2, <1>3, <1>4, ChannelLoses DEF Moves
<1>6. \A p \in DOMAIN pipes : PipeSafe(p, pipes[p], streams, out, sent', lost, missed')
  <2> TAKE p \in DOMAIN pipes
  <2>1. PipeSafe(p, pipes[p], streams, out, sent, lost, missed)
    BY DEF TLSSafe
  <2> QED BY <1>5, <2>1, MorePipe
<1>7. LossKnown'
  BY <1>1 DEF TLSSafe, LossKnown
<1> QED BY <1>1, <1>3, <1>5, <1>6, <1>7 DEF TLSSafe

\* A stream ends, and perhaps the oldest record with it.
LEMMA MovedPipe ==
  ASSUME NEW s, NEW l, Counts(s, l), NEW sk, NEW o, ChannelSafe(sk, o, s, l),
         NEW p, NEW q, NEW st, PipeSafe(p, q, st, o, s, l, sk),
         NEW v, v = o \/ (o # <<>> /\ Head(o).n = 0 /\ v = Tail(o)),
         NEW u, ~q.closed => q.conn \in DOMAIN u /\ u[q.conn] = p[1]
  PROVE  PipeSafe(p, q, u, v, s, l, sk)
<1>1. CASE v = o
  BY <1>1 DEF PipeSafe
<1>2. CASE o # <<>> /\ Head(o).n = 0 /\ v = Tail(o)
  BY <1>2, TailPipe
<1> QED BY <1>1, <1>2

\* A stream ends: its pipe is closed and its connection has none.  The oldest
\* record may be the one that ends it.
LEMMA StreamEnds ==
  ASSUME TLSSafe, NEW c,
         streams' = [k \in DOMAIN streams \ {c} |-> streams[k]],
         pipes' = IF c \in DOMAIN streams THEN T!close(pipes, streams[c]) ELSE pipes,
         out' = out \/ (out # <<>> /\ Head(out).n = 0 /\ out' = Tail(out)),
         UNCHANGED <<sent, lost, lagged, used, missed, drain>>
  PROVE  TLSSafe'
<1> DEFINE Cl(j) == c \in DOMAIN streams /\ j[1] = streams[c]
<1>1. /\ DOMAIN pipes' = DOMAIN pipes
      /\ \A j \in DOMAIN pipes : pipes'[j] = IF Cl(j) THEN [pipes[j] EXCEPT !.closed = TRUE] ELSE pipes[j]
  BY DEF T!close
<1>2. \A j \in DOMAIN pipes : PipeShape(pipes[j]) /\ PipeSafe(j, pipes[j], streams, out, sent, lost, missed)
  BY DEF TLSSafe, PipeSafe
<1>3. ASSUME NEW j \in DOMAIN pipes
      PROVE  /\ PipeShape(pipes'[j]) /\ T!Load(pipes'[j]) = T!Load(pipes[j])
             /\ SameFeed(pipes'[j], pipes[j]) /\ (Cl(j) => pipes'[j].closed)
  <2>1. CASE Cl(j)
    <3>1. pipes'[j] = [pipes[j] EXCEPT !.closed = TRUE]
      BY <1>1, <2>1
    <3> QED BY <1>2, <3>1, ClosedShape
  <2>2. CASE ~Cl(j)
    <3>1. pipes'[j] = pipes[j]
      BY <1>1, <2>2
    <3> QED BY <1>2, <2>2, <3>1 DEF SameFeed
  <2> QED BY <2>1, <2>2
<1>4. Shaped(pipes) /\ Shaped(pipes')
  BY <1>1, <1>3, TLSShaped DEF Shaped
<1>5. Total(pipes') = Total(pipes)
  BY <1>1, <1>3, <1>4, TotalSame
<1>6. Counts(sent, lost) /\ ChannelSafe(missed, out, sent, lost) /\ ChannelSafe(missed, out', sent, lost)
  <2>1. Counts(sent, lost) /\ ChannelSafe(missed, out, sent, lost)
    BY DEF TLSSafe
  <2>2. out # <<>> => ChannelSafe(missed, Tail(out), sent, lost)
    BY <2>1, ChannelTail
  <2> QED BY <2>1, <2>2
<1>7. ASSUME NEW j \in DOMAIN pipes
      PROVE  PipeSafe(j, pipes'[j], streams', out', sent, lost, missed)
  <2>1. PipeSafe(j, pipes'[j], streams, out, sent, lost, missed)
    BY <1>2, <1>3, SamePipe
  <2>2. ASSUME ~pipes'[j].closed
        PROVE  pipes'[j].conn \in DOMAIN streams \ {c} /\ streams[pipes'[j].conn] = j[1]
    <3>1. ~Cl(j) /\ pipes'[j].conn \in DOMAIN streams /\ streams[pipes'[j].conn] = j[1]
      BY <1>3, <2>1, <2>2 DEF PipeSafe
    <3> QED BY <3>1
  <2>3. ~pipes'[j].closed => pipes'[j].conn \in DOMAIN streams' /\ streams'[pipes'[j].conn] = j[1]
    BY <2>2
  <2> QED BY <1>6, <2>1, <2>3, MovedPipe
<1>8. PipesNumbered(pipes')
  BY <1>1 DEF TLSSafe, PipesNumbered
<1>9. Streaming(streams', pipes')
  BY <1>1, <1>3 DEF TLSSafe, Streaming, SameFeed
<1>10. LossKnown'
  BY DEF TLSSafe, LossKnown
<1> QED BY <1>1, <1>5, <1>6, <1>7, <1>8, <1>9, <1>10 DEF TLSSafe

\* The oldest record is taken and put into no pipe.
LEMMA SkipSafe ==
  ASSUME TLSSafe, out # <<>>, Head(out).n # 0, out' = Tail(out),
         UNCHANGED <<sent, lost, lagged, streams, pipes, used, drain>>,
         \/ missed' = missed \cup {<<Head(out).conn, Head(out).dir, Head(out).n>>}
         \/ Head(out).conn \notin DOMAIN streams /\ UNCHANGED missed
  PROVE  TLSSafe'
<1>1. Counts(sent, lost) /\ ChannelSafe(missed, out, sent, lost) /\ ChannelSafe(missed, out', sent, lost)
  BY ChannelTail DEF TLSSafe
<1>2. Head(out).dir = "write" /\ missed \subseteq missed'
  BY <1>1, ChannelTail DEF TLSRecord
<1>0. ChannelSafe(missed', out', sent, lost)
  BY <1>1, <1>2, ChannelMisses
<1>3. ASSUME NEW j \in DOMAIN pipes
      PROVE  PipeSafe(j, pipes[j], streams, Tail(out), sent, lost, missed')
  <2>1. PipeSafe(j, pipes[j], streams, out, sent, lost, missed)
    BY DEF TLSSafe
  <2>2. ~pipes[j].closed => /\ pipes[j].conn \in DOMAIN streams /\ streams[pipes[j].conn] = j[1]
                            /\ \/ pipes[j].conn # Head(out).conn
                               \/ <<pipes[j].conn, "write", Head(out).n>> \in missed'
    BY <1>2, <2>1 DEF PipeSafe
  <2> QED BY <1>1, <1>2, <2>1, <2>2, TailPipe
<1>4. LossKnown'
  BY DEF TLSSafe, LossKnown
<1> QED BY <1>0, <1>1, <1>3, <1>4 DEF TLSSafe

\* The oldest record is taken and pushed to the pipe of its stream.
LEMMA PushSafe ==
  ASSUME TLSSafe, out # <<>>, Head(out).n # 0, out' = Tail(out),
         NEW ps, Shaped(ps), PipesNumbered(ps), Total(ps) = Total(pipes),
         NEW st, Streaming(st, ps), Head(out).conn \in DOMAIN st,
         \A j \in DOMAIN ps : PipeSafe(j, ps[j], st, out, sent, lost, missed),
         NEW x, x = <<st[Head(out).conn], "write">>,
         pipes' = [ps EXCEPT ![x] = T!push(ps[x], Head(out).n).pipe],
         used' = T!push(ps[x], Head(out).n).used, streams' = st,
         UNCHANGED <<sent, lost, lagged, missed, drain>>
  PROVE  TLSSafe'
<1> DEFINE q == ps[x]
           h == Head(out).n
           r == T!push(q, h).pipe
<1>1. Counts(sent, lost) /\ ChannelSafe(missed, out, sent, lost) /\ ChannelSafe(missed, out', sent, lost)
  BY ChannelTail DEF TLSSafe
<1>2. x \in DOMAIN ps /\ q.conn = Head(out).conn /\ PipeSafe(x, q, st, out, sent, lost, missed)
  BY DEF Streaming
<1>3. PipeShape(q) /\ T!Load(q) \in Nat
  BY <1>2, LoadIs DEF PipeSafe, PipeShape
<1>4. /\ PipeSafe(x, r, st, Tail(out), sent, lost, missed) /\ r.conn = q.conn
      /\ \/ T!Load(r) = T!Load(q) /\ used' = used
         \/ T!Load(r) = T!Load(q) + 1 /\ used' = used + Size
  <2>1. CASE ~q.closed /\ r = [q EXCEPT !.ch = Append(@, h), !.put = Append(@, h)] /\ used' = used + Size
    <3> HIDE DEF q, r
    <3>1. Puts(q, Head(out).n, r) /\ ~q.closed
      BY <2>1 DEF Puts
    <3>2. out # <<>> /\ Head(out).n # 0
      OBVIOUS
    <3>3. PipeSafe(x, r, st, Tail(out), sent, lost, missed) /\ T!Load(r) = T!Load(q) + 1 /\ r.conn = q.conn
      BY <1>1, <1>2, <3>1, <3>2, FeedPipe
    <3> QED BY <2>1, <3>3
  <2>2. ASSUME PipeShape(r), SameFeed(r, q), T!Load(r) = T!Load(q), r.closed, used' = used
        PROVE  PipeSafe(x, r, st, Tail(out), sent, lost, missed) /\ r.conn = q.conn
    <3>1. PipeSafe(x, r, st, out, sent, lost, missed) /\ r.conn = q.conn
      BY <1>2, <2>2, SamePipe DEF SameFeed
    <3> HIDE DEF r
    <3> QED BY <1>1, <2>2, <3>1, TailPipe
  <2>3. CASE q.closed /\ r = q /\ used' = used
    BY <1>3, <2>2, <2>3 DEF SameFeed
  <2>4. CASE r = [q EXCEPT !.lagged = TRUE, !.closed = TRUE] /\ used' = used
    <3>1. PipeShape(r) /\ SameFeed(r, q) /\ T!Load(r) = T!Load(q) /\ r.closed
      <4> HIDE DEF r, q
      <4> QED BY <1>3, <2>4, ClosedShape
    <3> QED BY <2>2, <2>4, <3>1
  <2>5. \/ ~q.closed /\ r = [q EXCEPT !.ch = Append(@, h), !.put = Append(@, h)] /\ used' = used + Size
        \/ q.closed /\ r = q /\ used' = used
        \/ r = [q EXCEPT !.lagged = TRUE, !.closed = TRUE] /\ used' = used
    BY DEF T!push
  <2> QED BY <2>1, <2>3, <2>4, <2>5
<1> HIDE DEF r, q, h
<1>5. /\ DOMAIN pipes' = DOMAIN ps /\ pipes'[x] = r
      /\ \A j \in DOMAIN ps \ {x} : pipes'[j] = ps[j]
  BY <1>2 DEF r, q, h
<1>6. PipeShape(r) /\ T!Load(r) \in Nat /\ Total(ps) \in Nat
  BY <1>4, LoadIs, LoadsTyped DEF PipeSafe, PipeShape
<1>7. Total(pipes') = Total(ps) - T!Load(q) + T!Load(r)
  <2> DEFINE u == pipes'
  <2>1. DOMAIN u = DOMAIN ps /\ u[x] = r /\ \A j \in DOMAIN ps \ {x} : u[j] = ps[j]
    BY <1>5
  <2> HIDE DEF u
  <2>2. Total(u) = Total(ps) - T!Load(ps[x]) + T!Load(r)
    BY ONLY Shaped(ps), <1>2, <1>6, <2>1, TotalOne
  <2> QED BY <2>2 DEF u, q
<1>8. used' = Size * Total(pipes')
  <2> DEFINE a == Total(ps)
  <2>1. used = Size * a /\ a \in Nat
    BY <1>6 DEF TLSSafe
  <2>2. Size \in Nat
    BY CaptureAssumption DEF T!TLSAssumption
  <2> HIDE DEF a
  <2>3. Size * (a + 1) = Size * a + Size
    BY <2>1, <2>2
  <2>4. (Total(pipes') = a /\ used' = used) \/ (Total(pipes') = a + 1 /\ used' = used + Size)
    <3>1. Total(pipes') = a - T!Load(q) + T!Load(r)
      BY <1>7 DEF a
    <3> QED BY <1>3, <1>4, <2>1, <3>1
  <2> QED BY <2>1, <2>3, <2>4
<1>9. ASSUME NEW j \in DOMAIN ps
      PROVE  PipeSafe(j, pipes'[j], st, Tail(out), sent, lost, missed)
  <2>1. CASE j = x
    BY <1>4, <1>5, <2>1
  <2>2. CASE j # x
    <3>1. pipes'[j] = ps[j] /\ PipeSafe(j, ps[j], st, out, sent, lost, missed)
      BY <1>5, <2>2
    <3>2. j = <<j[1], "write">>
      BY DEF PipesNumbered
    <3>3. ~ps[j].closed => /\ ps[j].conn \in DOMAIN st /\ st[ps[j].conn] = j[1]
                           /\ ps[j].conn # Head(out).conn
      BY <2>2, <3>1, <3>2 DEF PipeSafe
    <3>4. PipeSafe(j, ps[j], st, Tail(out), sent, lost, missed)
      BY <1>1, <3>1, <3>3, TailPipe
    <3> QED BY <3>1, <3>4
  <2> QED BY <2>1, <2>2
<1>10. PipesNumbered(pipes')
  BY <1>5 DEF PipesNumbered
<1>11. Streaming(st, pipes')
  <2> SUFFICES ASSUME NEW k \in DOMAIN st
               PROVE  /\ k \in Conns /\ <<st[k], "write">> \in DOMAIN pipes'
                      /\ pipes'[<<st[k], "write">>].conn = k
    BY DEF Streaming
  <2>1. k \in Conns /\ <<st[k], "write">> \in DOMAIN ps /\ ps[<<st[k], "write">>].conn = k
    BY DEF Streaming
  <2> QED BY <1>4, <1>5, <2>1 DEF q
<1>12. LossKnown'
  BY DEF TLSSafe, LossKnown
<1> QED BY <1>1, <1>5, <1>8, <1>9, <1>10, <1>11, <1>12 DEF TLSSafe

\* The record of a connection without a stream makes one, unless there are too
\* many.
LEMMA FeedSafe ==
  ASSUME TLSSafe, out # <<>>, Head(out).n # 0, out' = Tail(out),
         T!feed(Head(out).conn, Head(out).dir, Head(out).n),
         UNCHANGED <<sent, lost, lagged, missed, drain>>
  PROVE  TLSSafe'
<1> DEFINE c == Head(out).conn
           n == Head(out).n
<1>1. c \in Conns /\ Head(out).dir = "write"
  BY ChannelTail DEF TLSSafe, TLSRecord
<1>2. CASE c \in DOMAIN streams
  <2> DEFINE st == T!Put(streams, c, streams[c])
             x == <<streams[c], "write">>
  <2>1. /\ streams' = st /\ pipes' = [pipes EXCEPT ![x] = T!push(pipes[x], n).pipe]
        /\ used' = T!push(pipes[x], n).used
    BY <1>1, <1>2 DEF T!feed
  <2>2. DOMAIN st = DOMAIN streams /\ \A k \in DOMAIN streams : st[k] = streams[k]
    BY <1>2 DEF T!Put
  <2> HIDE DEF st
  <2>3. Streaming(st, pipes)
    BY <2>2 DEF TLSSafe, Streaming
  <2>4. \A j \in DOMAIN pipes : PipeSafe(j, pipes[j], st, out, sent, lost, missed)
    BY <2>2 DEF TLSSafe, PipeSafe
  <2>5. Shaped(pipes) /\ PipesNumbered(pipes) /\ c \in DOMAIN st /\ x = <<st[c], "write">>
    BY <1>2, <2>2, TLSShaped DEF TLSSafe
  <2> HIDE DEF x
  <2> QED BY <2>1, <2>3, <2>4, <2>5, PushSafe
<1>3. CASE c \notin DOMAIN streams /\ UNCHANGED <<streams, pipes, used>>
  BY <1>3, SkipSafe
<1>4. CASE c \notin DOMAIN streams /\ ~UNCHANGED <<streams, pipes, used>>
  <2>1. PICK k \in Nat : DOMAIN pipes = (1 .. k) \X {"write"}
    BY DEF TLSSafe, PipesNumbered
  <2>2. Cardinality(DOMAIN pipes) \div Cardinality({"write"}) + 1 = k + 1
    <3>1. IsFiniteSet(1 .. k) /\ Cardinality(1 .. k) = k
      <4>1. 1 \in Int /\ k \in Int
        OBVIOUS
      <4>2. IsFiniteSet(1 .. k) /\ Cardinality(1 .. k) = IF 1 > k THEN 0 ELSE k - 1 + 1
        BY <4>1, FS_Interval
      <4> QED BY <4>2
    <3>2. IsFiniteSet({"write"}) /\ Cardinality({"write"}) = 1
      BY FS_Singleton
    <3>3. Cardinality((1 .. k) \X {"write"}) = Cardinality(1 .. k) * Cardinality({"write"})
      BY <3>1, <3>2, FS_Product
    <3>4. k * 1 = k /\ k \div 1 = k
      OBVIOUS
    <3> QED BY <2>1, <3>1, <3>2, <3>3, <3>4
  <2> DEFINE s == k + 1
             x == <<s, "write">>
             ps == T!newTLSStream(c, s)
             st == T!Put(streams, c, s)
  <2>3. /\ streams' = st /\ pipes' = [ps EXCEPT ![x] = T!push(ps[x], n).pipe]
        /\ used' = T!push(ps[x], n).used
    <3>1. T!Cardinality(DOMAIN pipes) \div T!Cardinality({"write"}) + 1 = s
      BY <2>2 DEF T!Cardinality, Cardinality
    <3> HIDE DEF s
    <3> QED BY <1>1, <1>4, <3>1 DEF T!feed
  <2>4. s \in Nat /\ s \notin 1 .. k /\ 1 .. s = (1 .. k) \cup {s}
    OBVIOUS
  <2> HIDE DEF s
  <2>5. x \notin DOMAIN pipes /\ {s} \X {"write"} = {x} /\ DOMAIN pipes \cup {x} = (1 .. s) \X {"write"}
    BY <2>1, <2>4
  <2>6. /\ DOMAIN ps = DOMAIN pipes \cup {x} /\ ps[x] = T!NewPipe(c)
        /\ \A j \in DOMAIN pipes : ps[j] = pipes[j]
    BY <2>5 DEF T!newTLSStream
  <2>7. /\ DOMAIN st = DOMAIN streams \cup {c} /\ st[c] = s
        /\ \A b \in DOMAIN streams : st[b] = streams[b]
    BY <1>4 DEF T!Put
  <2> HIDE DEF ps, st
  <2>8. /\ PipeShape(ps[x]) /\ T!Load(ps[x]) = 0 /\ ps[x].put = <<>> /\ ps[x].conn = c
    BY <1>1, <2>6, NewShape
  <2>9. Total(ps) = Total(pipes) /\ Shaped(ps)
    <3>1. x \notin DOMAIN pipes /\ Shaped(pipes)
      BY <2>5, TLSShaped
    <3> HIDE DEF x
    <3> QED BY <2>6, <2>8, <3>1, TotalNew
  <2>10. PipesNumbered(ps)
    BY <2>4, <2>5, <2>6 DEF PipesNumbered
  <2>11. Streaming(st, ps)
    BY <1>1, <2>6, <2>7, <2>8 DEF TLSSafe, Streaming
  <2>12. ASSUME NEW j \in DOMAIN ps PROVE PipeSafe(j, ps[j], st, out, sent, lost, missed)
    <3>1. CASE j = x
      <4>1. Fed(ps[x], sent, lost, missed) /\ Caught(ps[x], out, sent, lost, missed)
        <5>1. Len(ps[x].put) = 0
          BY <2>8
        <5> QED BY <2>8, <5>1 DEF Fed, Caught
      <4>2. x[1] = s
        OBVIOUS
      <4> QED BY <2>7, <2>8, <3>1, <4>1, <4>2 DEF PipeSafe
    <3>2. CASE j \in DOMAIN pipes
      <4>1. ps[j] = pipes[j] /\ PipeSafe(j, pipes[j], streams, out, sent, lost, missed)
        BY <2>6, <3>2 DEF TLSSafe
      <4> QED BY <2>7, <4>1 DEF PipeSafe
    <3> QED BY <2>6, <3>1, <3>2
  <2>13. c \in DOMAIN st /\ x = <<st[c], "write">>
    BY <2>7
  <2> HIDE DEF x
  <2> QED BY <2>3, <2>9, <2>10, <2>11, <2>12, <2>13, PushSafe
<1> QED BY <1>2, <1>3, <1>4

LEMMA ConsumeSafe == ASSUME TLSSafe, T!ConsumeRecord PROVE TLSSafe'
<1>1. /\ out # <<>> /\ out' = Tail(out) /\ UNCHANGED <<sent, lagged, lost, drain>>
      /\ \/ /\ Head(out).n = 0
            /\ streams' = [k \in DOMAIN streams \ {Head(out).conn} |-> streams[k]]
            /\ pipes' = IF Head(out).conn \in DOMAIN streams
                        THEN T!close(pipes, streams[Head(out).conn]) ELSE pipes
            /\ UNCHANGED <<used, missed>>
         \/ /\ Head(out).n # 0
            /\ missed' = missed \cup {<<Head(out).conn, Head(out).dir, Head(out).n>>}
            /\ UNCHANGED <<streams, pipes, used>>
         \/ /\ Head(out).n # 0 /\ T!feed(Head(out).conn, Head(out).dir, Head(out).n)
            /\ UNCHANGED missed
  BY DEF T!ConsumeRecord
<1> QED BY <1>1, StreamEnds, SkipSafe, FeedSafe

LEMMA IdleSafe == ASSUME TLSSafe, T!IdleStream PROVE TLSSafe'
<1>1. PICK c \in DOMAIN streams : /\ pipes' = T!close(pipes, streams[c])
                                  /\ streams' = [k \in DOMAIN streams \ {c} |-> streams[k]]
  BY DEF T!IdleStream
<1>2. UNCHANGED <<sent, out, lagged, drain, lost, used, missed>>
  BY DEF T!IdleStream, T!sourceVars
<1> QED BY <1>1, <1>2, StreamEnds

\* The consumer ends and closes every pipe that has a stream.
LEMMA EndsSafe == ASSUME TLSSafe, T!ConsumerEnds PROVE TLSSafe'
<1> DEFINE Cl(j) == \E c \in DOMAIN streams : streams[c] = j[1]
<1>0. UNCHANGED <<sent, out, lagged, drain, lost, streams, used, missed>>
  BY DEF T!ConsumerEnds, T!sourceVars
<1>1. /\ DOMAIN pipes' = DOMAIN pipes
      /\ \A j \in DOMAIN pipes : pipes'[j] = IF Cl(j) THEN [pipes[j] EXCEPT !.closed = TRUE] ELSE pipes[j]
  BY DEF T!ConsumerEnds
<1>2. \A j \in DOMAIN pipes : PipeShape(pipes[j]) /\ PipeSafe(j, pipes[j], streams, out, sent, lost, missed)
  BY DEF TLSSafe, PipeSafe
<1> HIDE DEF Cl
<1>3. ASSUME NEW j \in DOMAIN pipes
      PROVE  /\ PipeShape(pipes'[j]) /\ T!Load(pipes'[j]) = T!Load(pipes[j])
             /\ SameFeed(pipes'[j], pipes[j])
  <2>1. CASE Cl(j)
    <3>1. pipes'[j] = [pipes[j] EXCEPT !.closed = TRUE]
      BY <1>1, <2>1
    <3> QED BY <1>2, <3>1, ClosedShape
  <2>2. CASE ~Cl(j)
    <3>1. pipes'[j] = pipes[j]
      BY <1>1, <2>2
    <3> QED BY <1>2, <3>1 DEF SameFeed
  <2> QED BY <2>1, <2>2
<1>4. Shaped(pipes) /\ Shaped(pipes')
  BY <1>1, <1>3, TLSShaped DEF Shaped
<1>5. Total(pipes') = Total(pipes)
  BY <1>1, <1>3, <1>4, TotalSame
<1>6. \A j \in DOMAIN pipes : PipeSafe(j, pipes'[j], streams, out, sent, lost, missed)
  BY <1>2, <1>3, SamePipe
<1>7. PipesNumbered(pipes') /\ Streaming(streams, pipes')
  BY <1>1, <1>3 DEF TLSSafe, PipesNumbered, Streaming, SameFeed
<1>8. LossKnown'
  BY <1>0 DEF TLSSafe, LossKnown
<1> QED BY <1>0, <1>1, <1>5, <1>6, <1>7, <1>8 DEF TLSSafe

LEMMA TLSNext == TLSSafe /\ (T!Next \/ UNCHANGED tlsVars) => TLSSafe'
<1> SUFFICES ASSUME TLSSafe, T!Next \/ UNCHANGED tlsVars PROVE TLSSafe'
  OBVIOUS
<1>1. CASE \E c \in Conns, d \in {"write"}, b \in BOOLEAN : T!drainLoop(c, d, b)
  BY <1>1, DrainSafe
<1>7. CASE \E c \in Conns, d \in {"write"} : T!LostSilently(c, d)
  BY <1>7, SilentSafe
<1>2. CASE T!Cancel \/ T!DrainEnds \/ T!CloseSource \/ T!SetPaused \/ UNCHANGED tlsVars
  <2>1. UNCHANGED <<sent, lost, lagged, out, streams, pipes, used, missed>> /\ (drain' => drain)
    BY <1>2 DEF T!Cancel, T!DrainEnds, T!CloseSource, T!SetPaused, tlsVars, T!streamVars, T!sourceVars
  <2> QED BY <2>1, TLSKept
<1>3. CASE T!ConsumeRecord
  BY <1>3, ConsumeSafe
<1>4. CASE T!IdleStream
  BY <1>4, IdleSafe
<1>5. CASE T!ConsumerEnds
  BY <1>5, EndsSafe
<1>6. CASE \E p \in DOMAIN pipes : T!Read(p) \/ T!discard(p)
  BY <1>6, ReadSafe
<1> QED BY <1>1, <1>2, <1>3, <1>4, <1>5, <1>6, <1>7 DEF T!Next

\* What is read is the beginning of what was put into the pipe.
LEMMA TLSImplies == TLSSafe => T!StreamHasNoHole /\ T!BudgetIsExact
<1> SUFFICES ASSUME TLSSafe PROVE T!StreamHasNoHole /\ T!BudgetIsExact
  OBVIOUS
<1>1. ASSUME NEW p \in DOMAIN pipes
      PROVE  LET q == pipes[p]  l == lost[<<q.conn, p[2]>>] IN
             /\ \A i \in 1 .. Len(q.put) : l # 0 => q.put[i] < l
             /\ \A i \in 1 .. Len(q.got) - 1 : \A n \in q.got[i] + 1 .. q.got[i + 1] - 1 :
                  <<q.conn, p[2], n>> \in missed
  <2> DEFINE q == pipes[p]
  <2>1. p[2] = "write"
    BY DEF TLSSafe, PipesNumbered
  <2>2. PipeShape(q) /\ Fed(q, sent, lost, missed)
    BY DEF TLSSafe, PipeSafe
  <2>3. Begins(q.got, q.put) /\ Len(q.got) \in Nat /\ Len(q.put) \in Nat
    BY <2>2, PipeFields DEF PipeShape
  <2> HIDE DEF q
  <2>4. /\ \A i \in 1 .. Len(q.put) : Of(lost, q.conn) # 0 => q.put[i] < Of(lost, q.conn)
        /\ \A i \in 1 .. Len(q.put) - 1 : \A n \in q.put[i] + 1 .. q.put[i + 1] - 1 :
             <<q.conn, "write", n>> \in missed
    BY <2>2 DEF Fed
  <2>5. \A i \in 1 .. Len(q.got) : q.got[i] = q.put[i]
    BY <2>3 DEF Begins
  <2>6. \A i \in 1 .. Len(q.got) - 1 :
          i \in 1 .. Len(q.got) /\ i + 1 \in 1 .. Len(q.got) /\ i \in 1 .. Len(q.put) - 1
    BY <2>3 DEF Begins
  <2>7. \A i \in 1 .. Len(q.got) - 1 : \A n \in q.got[i] + 1 .. q.got[i + 1] - 1 :
          <<q.conn, "write", n>> \in missed
    <3> TAKE i \in 1 .. Len(q.got) - 1
    <3>1. q.got[i] = q.put[i] /\ q.got[i + 1] = q.put[i + 1] /\ i \in 1 .. Len(q.put) - 1
      BY <2>5, <2>6
    <3> QED BY <2>4, <3>1
  <2> QED BY <2>1, <2>4, <2>7 DEF Of, q
<1>2. T!StreamHasNoHole
  BY <1>1 DEF T!StreamHasNoHole
<1>3. T!BudgetIsExact
  <2>1. used = Size * Total(pipes) /\ T!Held = Loads(pipes)
    BY DEF TLSSafe, T!Held, Loads
  <2>2. T!BudgetIsExact <=> used = Size * SumOver(T!Held, DOMAIN pipes)
    BY DEF T!BudgetIsExact, SumOver, T!MapThenSumSet, T!MapThenFoldSet, MapThenSumSet, MapThenFoldSet
  <2> QED BY <2>1, <2>2 DEF Total
<1> QED BY <1>2, <1>3

-----------------------------------------------------------------------------
(* The worker's capture.                                                   *)

\* Every part keeps its invariant, whichever part runs.
CaptureSafe == PairsSafe /\ IdsSafe /\ FlowsSafe /\ TLSSafe /\ ProbesSafe

\* A step of the whole is a step of each part or leaves it alone.
LEMMA CaptureSteps ==
  ASSUME [MCNext]_captureVars
  PROVE  /\ Next \/ UNCHANGED vars
         /\ I!Next \/ UNCHANGED idVars
         /\ F!Next \/ UNCHANGED flowVars
         /\ T!Next \/ UNCHANGED tlsVars
         /\ A!Next \/ UNCHANGED probeVars
BY DEF MCNext, captureVars

LEMMA CaptureInit == MCInit => CaptureSafe
BY PairsInit, IdsInit, FlowsInit, TLSInit, ProbesInit DEF MCInit, CaptureSafe

LEMMA CaptureNext == CaptureSafe /\ [MCNext]_captureVars => CaptureSafe'
BY CaptureSteps, PairsNext, IdsNext, FlowsNext, TLSNext, ProbesNext DEF CaptureSafe

\* Each part's invariant holds in every state of the capture, for any number
\* of connections, requests, exchanges, packets and processes and any caps
\* (pipeline.go:229-580, 1043-1249, dissect_l4.go:218-518, loader.go:251-397,
\* tls_pipeline.go:93-508).
THEOREM CaptureInvariant == MCSpec => []CaptureSafe
BY CaptureInit, CaptureNext, PTL DEF MCSpec, captureVars

\* An entry has the response of its own request, unless the FIFO of its
\* connection lost a request to a limit or to gc or missed a response, or the
\* response was being read when its direction lost a segment
\* (pipeline.go:331-393, 495-580, 1212-1249).
THEOREM PairedCorrectly == MCSpec => []MispairedOnlyIf
<1>1. CaptureSafe => MispairedOnlyIf
  BY PairsImply DEF CaptureSafe
<1> QED BY <1>1, CaptureInvariant, PTL

\* A request and a response are in at most one entry, whichever goroutine emits
\* it, a parked response is looked for, a response on a connection in order is
\* read with the method of its own request, and nobody who reads packets sleeps
\* (pipeline.go:229-267, 280-324, 331-393, 663-668).
THEOREM PairedOnce == MCSpec => []PairsAreClean
<1>1. CaptureSafe => PairsAreClean
  BY PairsImply DEF CaptureSafe, PairsAreClean
<1> QED BY <1>1, CaptureInvariant, PTL

\* Over TCP a request is in at most one entry, and a response is crossed with
\* another exchange's request only when their ids are the same and its own was
\* not there or was replaced (pipeline.go:1043-1083, dissect_kafka.go:192-200,
\* dissect_mongo.go:224-232).
THEOREM IdsPairCorrectly == MCSpec => []IdsPairOnce
<1>1. CaptureSafe => IdsPairOnce
  BY DEF CaptureSafe, IdsSafe, IdsPairOnce
<1> QED BY <1>1, CaptureInvariant, PTL

\* A packet is in at most one generic entry, a dissected connection is reported
\* only if its flow was lost, and until the sequence numbers wrap or start again
\* only what is behind a segment seen before, a repeat or one that was overtaken,
\* counts as a retransmission (dissect_l4.go:218-227, 301-357, 470-518).
THEOREM FlowsReportedCorrectly == MCSpec => []FlowsReportedOnce
<1>1. CaptureSafe => FlowsReportedOnce
  BY DEF CaptureSafe, FlowsSafe, FlowsApart, FlowsMarked, FlowsPlaced, FlowsReportedOnce
<1> QED BY <1>1, CaptureInvariant, PTL

\* No dissector of decrypted traffic reads across a hole anybody noticed: what it
\* reads follows on, except where records came during a pause or were lost by the
\* kernel or the decoder without a report, and nothing behind a chunk that the
\* source knows is lost reaches a pipe, of the same stream or of a later one.  The
\* budget is exactly what the pipes hold (tls_pipeline.go:38-51, 137-152, 382-508,
\* loader.go:266-304, tls.bpf.c:269-275).
THEOREM StreamsStayWhole == MCSpec => []StreamsHaveNoHole
<1>1. CaptureSafe => StreamsHaveNoHole
  BY TLSImplies DEF CaptureSafe, StreamsHaveNoHole
<1> QED BY <1>1, CaptureInvariant, PTL

\* What a step of gc may not remove.
SweepStep ==
  \A k \in DOMAIN pend : gcPc = "reap" /\ gcPc' = "reap" /\ idStale # {} /\ idStale' # idStale
    /\ ~pend[k].old => k \in DOMAIN pend'

LEMMA SweepKeeps == I!Next => SweepStep
<1>1. I!SweepReap => SweepStep
  BY DEF I!SweepReap, I!Without, I!Expired, SweepStep
<1>2. I!SweepScan => SweepStep
  BY DEF I!SweepScan, SweepStep
<1>3. ASSUME I!Send \/ I!Age \/ I!TrimOverCap
             \/ \E again \in BOOLEAN : I!StoreRequest(again) \/ I!ReadResponse(again)
      PROVE  UNCHANGED idStale
  BY <1>3 DEF I!Send, I!Age, I!TrimOverCap, I!StoreRequest, I!ReadResponse
<1> QED BY <1>1, <1>2, <1>3 DEF I!Next, SweepStep

\* A sweep of the pending requests removes only what was old when it began: it
\* spares what readers put under a key that it had found stale
\* (pipeline.go:1165-1188).
THEOREM SweepSparesNew == MCSpec => SweepSparesFresh
<1>1. [MCNext]_captureVars => [SweepStep]_(I!vars)
  BY CaptureSteps, SweepKeeps DEF I!vars, idVars
<1>2. MCSpec => [][SweepStep]_(I!vars)
  BY <1>1, PTL DEF MCSpec, captureVars
<1> QED BY <1>2 DEF SweepSparesFresh, I!SweepSparesFresh, SweepStep

\* A scan detaches a library only if no process has had it mapped ever since the
\* scan began, readable or not, and no probe is left when the source has closed
\* (attach.go:69-91, loader.go:341-397).
THEOREM ProbesStayWhereNeeded == MCSpec => ProbesOnlyWhereNeeded
<1>1. CaptureSafe /\ [MCNext]_captureVars => [ProbesKept]_(A!vars)
  BY CaptureSteps, ProbesStep DEF A!vars, probeVars, CaptureSafe
<1>2. MCSpec => [][ProbesKept]_(A!vars)
  BY <1>1, CaptureInvariant, PTL DEF MCSpec, captureVars
<1> QED BY <1>2 DEF ProbesOnlyWhereNeeded, A!ProbesOnlyWhereNeeded, ProbesKept

================================================================================
