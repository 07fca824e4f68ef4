------------------------------- MODULE Facets -------------------------------
(***************************************************************************)
(* The facet index behind the filter's autocompletion                      *)
(* (internal/hub/facets.go): for every tracked field a bounded table of    *)
(* the values seen, fed by store.add.  A field read through an optional    *)
(* part of the entry is skipped when that part is absent.                  *)
(*                                                                         *)
(* An entry is the set of its parts and a value that all its fields show.  *)
(* Ingest goroutines take the index's lock in turn, so a step is a whole   *)
(* observe.                                                                *)
(***************************************************************************)
EXTENDS Integers, FiniteSets, FiniteSetsExt, Functions

CONSTANTS
  Values, Shapes,            \* values, and the sets of parts an entry may have
  Watched,                   \* tracked fields whose counts the model keeps
  facetTrackCap, facetEvictSample,
  MaxEntries                 \* bound

-----------------------------------------------------------------------------
(* The fields, by the part of the entry their getter reads through.        *)

\* Getters that read the entry, an endpoint or a payload directly.
fieldGetter == {
  "namespace", "protocol", "node", "status", "elapsedMs", "src.ip", "src.port", "src.name",
  "src.namespace", "src.workload", "dst.ip", "dst.port", "dst.name", "dst.namespace",
  "dst.workload", "http.method", "request.path", "request.host", "response.status",
  "request.body", "response.body", "dns.question", "dns.answer", "redis.command",
  "postgres.query", "bytes", "packets", "flags", "summary", "trace.id",
  "response.contenttype", "amqp.exchange", "amqp.routingkey", "amqp.queue",
  "amqp.deliverytag", "amqp.correlationid", "amqp.replyto", "amqp.class", "ws.opcode",
  "amqp.method", "request.size", "response.size", "postgres.rowcount"}

\* Getters that answer "" without the part.
guardedGetter == [
  requestHTTP      |-> {"http.version"},
  responseHTTP     |-> {"http.ttfbms"},
  requestDNS       |-> {"dns.type"},
  responseDNS      |-> {"dns.rcode", "dns.authoritative", "dns.recursionavailable"},
  requestRedis     |-> {"redis.db", "redis.pipelinedepth"},
  responseRedis    |-> {"redis.reply"},
  requestPostgres  |-> {"postgres.statement", "postgres.portal"},
  responsePostgres |-> {"postgres.error", "postgres.txstatus"},
  requestMySQL     |-> {"mysql.command"},
  responseMySQL    |-> {"mysql.error"},
  requestMongo     |-> {"mongo.collection", "mongo.command"},
  requestKafka     |-> {"kafka.topic", "kafka.apikey"},
  L4               |-> {"l4.ttl", "l4.retransmits", "l4.window", "l4.mss", "l4.rttms",
                        "l4.durationms", "l4.clientbytes", "l4.serverbytes", "tls.sni",
                        "l4.srcmac", "l4.dstmac", "l4.ipversion", "l4.ipflags",
                        "l4.clienttcpflags", "l4.servertcpflags", "l4.seqstart",
                        "l4.ackstart", "l4.clientpackets", "l4.serverpackets"}]

Parts == DOMAIN guardedGetter
Getters == fieldGetter \cup UNION {guardedGetter[p] : p \in Parts}

\* The typed getters, for > < >= <=.
numericFieldGetter == {
  "elapsedMs", "src.port", "dst.port", "response.status", "bytes", "packets",
  "request.size", "response.size", "redis.db", "redis.pipelinedepth", "mysql.error",
  "l4.ttl", "l4.retransmits", "l4.window", "l4.mss", "l4.rttms", "l4.durationms",
  "l4.clientbytes", "l4.serverbytes", "amqp.deliverytag", "postgres.rowcount",
  "http.ttfbms", "l4.ipversion", "l4.seqstart", "l4.ackstart", "l4.clientpackets",
  "l4.serverpackets"}

\* The catalog: the fields typed as numbers, the rest of the tracked ones, and
\* those offered without values.
catalogNumbers == {
  "elapsedMs", "src.port", "dst.port", "response.status", "bytes", "packets", "redis.db",
  "mysql.error", "l4.ttl", "l4.retransmits", "l4.window", "l4.mss", "l4.rttms",
  "l4.durationms", "l4.clientbytes", "l4.serverbytes", "amqp.deliverytag",
  "redis.pipelinedepth", "request.size", "response.size", "postgres.rowcount",
  "http.ttfbms", "l4.seqstart", "l4.ackstart", "l4.clientpackets", "l4.serverpackets"}

catalogUntracked == {
  "elapsedMs", "src.port", "request.path", "dns.question", "dns.answer", "postgres.query",
  "request.body", "response.body", "bytes", "packets", "summary", "trace.id", "redis.reply",
  "l4.retransmits", "l4.window", "l4.rttms", "l4.durationms", "l4.clientbytes",
  "l4.serverbytes", "amqp.deliverytag", "amqp.correlationid", "request.size",
  "response.size", "postgres.rowcount", "http.ttfbms", "l4.srcmac", "l4.dstmac",
  "l4.seqstart", "l4.ackstart", "l4.clientpackets", "l4.serverpackets"}

\* The catalog has every getter once.
Tracked == Getters \ catalogUntracked

facetGates == [
  requestHTTP      |-> {"http.version"},
  requestDNS       |-> {"dns.type"},
  responseDNS      |-> {"dns.rcode", "dns.authoritative", "dns.recursionavailable"},
  requestRedis     |-> {"redis.db", "redis.pipelinedepth"},
  requestPostgres  |-> {"postgres.statement", "postgres.portal"},
  responsePostgres |-> {"postgres.error", "postgres.txstatus"},
  requestMySQL     |-> {"mysql.command"},
  responseMySQL    |-> {"mysql.error"},
  requestMongo     |-> {"mongo.collection", "mongo.command"},
  requestKafka     |-> {"kafka.topic", "kafka.apikey"},
  L4               |-> {"l4.ttl", "l4.mss", "l4.ipversion", "l4.ipflags", "l4.clienttcpflags",
                        "l4.servertcpflags", "tls.sni"}]

-----------------------------------------------------------------------------
VARIABLES
  counts,   \* counts[f]: how often each value of field f was seen
  seen,     \* ghost: the same, without a bound
  crowded,  \* ghost: fields that were at their limit
  last      \* the entry observed last: its parts

vars == <<counts, seen, crowded, last>>

Init == /\ counts = [f \in Watched |-> <<>>] /\ seen = [f \in Watched |-> <<>>]
        /\ crowded = {} /\ last = {}

\* Mutant of newFacetIndex: the answer's fields are asked for if there is a
\* question.
newFacetIndexRequest(parts) ==
  LET gated == UNION {facetGates[g] : g \in DOMAIN facetGates}
      there == (parts \ {"responseDNS"}) \cup IF "requestDNS" \in parts THEN {"responseDNS"} ELSE {}
  IN (Tracked \ gated) \cup UNION {facetGates[g] \cap Tracked : g \in DOMAIN facetGates \cap there}

\* newFacetIndex: what observe asks of an entry with these parts.
newFacetIndex(parts) ==
  LET gated == UNION {facetGates[g] : g \in DOMAIN facetGates}
  IN (Tracked \ gated) \cup UNION {facetGates[g] \cap Tracked : g \in DOMAIN facetGates \cap parts}

Shows(f, parts) ==
  f \in fieldGetter \/ \E p \in parts : f \in guardedGetter[p]

Bump(c, v) == [w \in DOMAIN c \cup {v} |-> IF w \notin DOMAIN c THEN 1
                                           ELSE IF w = v THEN c[w] + 1 ELSE c[w]]

Full(c, v) == v \notin DOMAIN c /\ Cardinality(DOMAIN c) >= facetTrackCap

\* A table after value v.  At the limit the least of a random sample goes.
increment(c, v) ==
  IF ~Full(c, v) THEN {Bump(c, v)}
  ELSE LET samples == {S \in SUBSET DOMAIN c :
                         Cardinality(S) = Min({facetEvictSample, Cardinality(DOMAIN c)})}
           Least(S) == {k \in S : \A j \in S : c[k] <= c[j]}
       IN {Bump(Restrict(c, DOMAIN c \ {k}), v) : k \in UNION {Least(S) : S \in samples}}

Total == MapThenSumSet(LAMBDA f : MapThenSumSet(LAMBDA v : seen[f][v], DOMAIN seen[f]), Watched)

observe(parts, v) ==
  LET now == {f \in Watched \cap newFacetIndex(parts) : Shows(f, parts)} IN
    /\ Total < MaxEntries
    /\ counts' \in {c \in [Watched -> UNION ({{counts[f]} : f \in Watched} \cup {increment(counts[f], v) : f \in now})] :
                      \A f \in Watched : c[f] \in IF f \in now THEN increment(counts[f], v) ELSE {counts[f]}}
    /\ seen' = [f \in Watched |-> IF Shows(f, parts) THEN Bump(seen[f], v) ELSE seen[f]]
    /\ crowded' = crowded \cup {f \in now : Full(counts[f], v)}
    /\ last' = parts

Next == \E parts \in Shapes, v \in Values : observe(parts, v)

Spec == Init /\ [][Next]_vars

-----------------------------------------------------------------------------
(* Properties.                                                             *)

\* Skipping by part records what asking every getter would: all the tracked
\* fields that an entry shows are asked of it; and every number of the catalog
\* is compared as one (facetGates, facets.go:261-275; TestFacetGatesMatchGetters).
GatesMatchGetters ==
  /\ \A f \in Tracked : Shows(f, last) => f \in newFacetIndex(last)
  /\ catalogNumbers \subseteq numericFieldGetter /\ numericFieldGetter \subseteq Getters

\* The counts are exact until a field meets its limit, never too high after
\* that, and the limit holds (increment, facets.go:216-235).
CountsWithinBounds ==
  \A f \in Watched :
    /\ Cardinality(DOMAIN counts[f]) <= facetTrackCap
    /\ f \notin crowded => counts[f] = seen[f]
    /\ \A v \in DOMAIN counts[f] : counts[f][v] <= seen[f][v]
=============================================================================
