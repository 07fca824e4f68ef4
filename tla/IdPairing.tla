------------------------------ MODULE IdPairing ------------------------------
(***************************************************************************)
(* Pairing by id in a worker: DNS (pipeline.go), Kafka and MongoDB         *)
(* (dissect_kafka.go, dissect_mongo.go) keep every request in a map under  *)
(* its connection or client and its id until the response with that id     *)
(* arrives.  gc removes what is older than its cutoff, scanning under the  *)
(* lock and deleting under it again.                                       *)
(*                                                                         *)
(* An exchange is one request and its response, numbered as they happen on *)
(* the wire; ids repeat (a counter starts again, a resolver retries, a     *)
(* port is reused).  The two directions are read by goroutines of their    *)
(* own, requests and responses may be lost, and DNS packets are seen twice *)
(* where a packet crosses two interfaces.                                  *)
(***************************************************************************)
EXTENDS Integers, FiniteSets

CONSTANTS
  Ids,           \* map keys: connection (or client) and id
  maxPending,    \* cap of the map
  MaxExchanges   \* bound on the exchanges

VARIABLES
  proto,     \* dns, kafka or mongo
  pend,      \* the map: id -> [x (exchange), old (before gc's cutoff)]
  id,        \* id[x], for the exchanges so far
  unread,    \* requests captured and not read yet
  answers,   \* responses captured and not read yet
  stored,    \* exchanges whose request has been read
  pairs,     \* entries emitted: <<request, response>>
  gcPc,      \* idle, reap, trim
  stale,     \* keys the scan found
  crossed    \* history: <<request, response>> whose own request was not there

vars == <<proto, pend, id, unread, answers, stored, pairs, gcPc, stale, crossed>>
wire == <<id, unread, answers>>

Exchanges == DOMAIN id

Init ==
  /\ proto \in {"dns", "kafka", "mongo"}
  /\ pend = <<>> /\ id = <<>>
  /\ unread = {} /\ answers = {} /\ stored = {} /\ pairs = {}
  /\ gcPc = "idle" /\ stale = {} /\ crossed = {}

Put(m, k, v) == [j \in DOMAIN m \cup {k} |-> IF j = k THEN v ELSE m[j]]
Without(m, ks) == [j \in DOMAIN m \ ks |-> m[j]]

-----------------------------------------------------------------------------
(* The wire.                                                               *)

\* A client sends a request, which is captured or lost.
Send ==
  /\ Cardinality(Exchanges) < MaxExchanges
  /\ \E i \in Ids :
       LET x == Cardinality(Exchanges) + 1 IN
       /\ id' = Put(id, x, i)
       /\ unread' \in {unread, unread \cup {x}}
       /\ answers' \in {answers, answers \cup {x}}
  /\ UNCHANGED <<proto, pend, stored, pairs, gcPc, stale, crossed>>

-----------------------------------------------------------------------------
(* The request side.                                                       *)

\* dnsQuery: the map is capped when a query is added.
dnsQuery(m) ==
  IF Cardinality(DOMAIN m) <= maxPending THEN {m} ELSE {Without(m, {k}) : k \in DOMAIN m}

\* kafkaStore and mongoStore do not; gc trims those maps.
kafkaStore(m) == {m}
mongoStore(m) == {m}

\* A message whose responseTo is 0 is stored if its command can be named; a
\* legacy query always is.
mongoOpMsg(m) == mongoStore(m) \cup {pend}
mongoOpQuery(m) == mongoStore(m)

\* The next request of its direction is read and stored.  A DNS query seen on a
\* second interface is stored again.
StoreRequest(again) ==
  /\ \E x \in unread :
       LET m == Put(pend, id[x], [x |-> x, old |-> FALSE]) IN
       /\ \A y \in unread : x <= y
       /\ pend' \in CASE proto = "dns" -> dnsQuery(m)
                      [] proto = "kafka" -> kafkaStore(m)
                      [] proto = "mongo" -> mongoOpMsg(m) \cup mongoOpQuery(m)
       /\ unread' = IF again THEN unread ELSE unread \ {x}
       /\ stored' = IF pend' = pend THEN stored ELSE stored \cup {x}
  /\ again => proto = "dns"
  /\ UNCHANGED <<proto, id, answers, pairs, gcPc, stale, crossed>>

-----------------------------------------------------------------------------
(* The response side.                                                      *)

\* Mutant of takePending: the request stays.
takeKeeps(k) == [pend |-> pend, x |-> {pend[k].x : j \in {k} \cap DOMAIN pend}]

\* dnsResponse, kafkaComplete, mongoComplete: look up and delete under the
\* lock; nothing is emitted for a response without a request.
takePending(k) ==
  [pend |-> Without(pend, {k}), x |-> {pend[j].x : j \in {k} \cap DOMAIN pend}]

dnsResponse(x) == proto = "dns" /\ takePending(id[x]).x # {}
kafkaComplete(x) == proto = "kafka" /\ takePending(id[x]).x # {}
mongoComplete(x) == proto = "mongo" /\ takePending(id[x]).x # {}

\* The next response of its direction is read.  A DNS response may be seen a
\* second time.
ReadResponse(again) ==
  /\ \E x \in answers :
       LET taken == takePending(id[x])
           paired == dnsResponse(x) \/ kafkaComplete(x) \/ mongoComplete(x)
           new == IF paired THEN {<<q, x>> : q \in taken.x} ELSE {}
       IN
       /\ proto = "dns" \/ \A y \in answers : x <= y
       /\ pend' = taken.pend
       /\ pairs' = pairs \cup new
       /\ crossed' = crossed \cup {pr \in new : x \notin stored}
       /\ answers' = IF again THEN answers ELSE answers \ {x}
  /\ again => proto = "dns"
  /\ UNCHANGED <<proto, id, unread, stored, gcPc, stale>>

-----------------------------------------------------------------------------
(* gc, every 15 s.                                                         *)

\* The clock passes the cutoff of a request.  gc reads it once, at its start.
Age ==
  /\ gcPc = "idle"
  /\ \E k \in DOMAIN pend : ~pend[k].old /\ pend' = [pend EXCEPT ![k].old = TRUE]
  /\ UNCHANGED <<proto, wire, stored, pairs, gcPc, stale, crossed>>

SweepScan ==
  /\ gcPc = "idle"
  /\ stale' = {k \in DOMAIN pend : pend[k].old}
  /\ gcPc' = "reap"
  /\ UNCHANGED <<proto, pend, wire, stored, pairs, crossed>>

\* Mutant of Expired: what the scan found is deleted without another look.
ExpiredAtScan(k) == k \in DOMAIN pend

\* Looked at again under the lock: the key may hold another request by now.
Expired(k) == k \in DOMAIN pend /\ pend[k].old

SweepReap ==
  /\ gcPc = "reap"
  /\ \E k \in stale :
       /\ stale' = stale \ {k}
       /\ pend' = Without(pend, {j \in {k} : Expired(j)})
  /\ UNCHANGED <<proto, wire, stored, pairs, gcPc, crossed>>

\* Kafka and mongo are then trimmed to the cap, batch by batch.
TrimOverCap ==
  /\ gcPc = "reap" /\ stale = {}
  /\ IF proto # "dns" /\ Cardinality(DOMAIN pend) > maxPending
     THEN \E k \in DOMAIN pend : pend' = Without(pend, {k}) /\ UNCHANGED gcPc
     ELSE gcPc' = "idle" /\ UNCHANGED pend
  /\ UNCHANGED <<proto, wire, stored, pairs, stale, crossed>>

-----------------------------------------------------------------------------
Next == \/ Send \/ Age \/ SweepScan \/ SweepReap \/ TrimOverCap
        \/ \E again \in BOOLEAN : StoreRequest(again) \/ ReadResponse(again)

Spec == Init /\ [][Next]_vars

-----------------------------------------------------------------------------
(* Properties.                                                             *)

\* A response is paired with the request of another exchange only when the two
\* have the same id and either its own request had not been stored (it was
\* lost, or its goroutine comes later) or a later request replaced it
\* (pipeline.go:1044-1051, dissect_kafka.go:192-200, dissect_mongo.go:224-232).
CrossedOnlyIfReused ==
  \A pr \in pairs : pr[1] # pr[2] =>
    id[pr[1]] = id[pr[2]] /\ (pr \in crossed \/ pr[1] > pr[2])

\* A request is in at most one entry, also when its response is seen twice;
\* only a DNS query that was itself seen twice may be answered twice
\* (pipeline.go:1044-1051).
RequestPairedOnce ==
  \A a, b \in pairs : a[1] = b[1] /\ proto # "dns" => a = b

\* A sweep only removes requests that were old when it began, whatever the
\* readers put under the same key meanwhile (pipeline.go:1165-1188).
SweepSparesFresh ==
  [][\A k \in DOMAIN pend : gcPc = "reap" /\ gcPc' = "reap" /\ stale # {} /\ stale' # stale
       /\ ~pend[k].old => k \in DOMAIN pend']_vars
=============================================================================
