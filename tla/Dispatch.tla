------------------------------ MODULE Dispatch ------------------------------
(***************************************************************************)
(* Which dissector reads which direction of a TCP connection, and in which *)
(* role: by server port (consumeStreamID, pipeline.go), else by its first  *)
(* bytes (sniffTLS, tls_pipeline.go), and which ports the kernel filter    *)
(* lets through at all (capturePorts, worker.go).                          *)
(*                                                                         *)
(* The two directions are dispatched on their own, so nothing but these    *)
(* rules makes them agree.  A direction is known by what opens it: a       *)
(* PostgreSQL start-up message or a message type, the AMQP header, a RESP  *)
(* marker, or something else.                                              *)
(***************************************************************************)
EXTENDS Integers

CONSTANTS ExtraPorts,   \* ports an operator may name
          ClientPort    \* an ephemeral port

redisPort == 6379
pgPort    == 5432
amqpPort  == 5672
mysqlPort == 3306
mongoPort == 27017
kafkaPort == 9092
dnsPort   == 53
defaultHTTPPorts == {80, 8080}

\* The client has the higher port, as the direction hint takes it to.
RouteAssumption ==
  /\ ExtraPorts \subseteq Nat /\ ClientPort \in Nat
  /\ \A p \in ExtraPorts \cup defaultHTTPPorts \cup
          {redisPort, pgPort, amqpPort, mysqlPort, mongoPort, kafkaPort, dnsPort} : p < ClientPort

VARIABLES
  opts,      \* the operator's port lists
  server,    \* the server's port
  speaks,    \* the protocol of the connection
  opening,   \* opening[side]: how the client and the server begin
  path,      \* AF_PACKET, or the TLS library of the client or of the server
  routed     \* side -> [proto, req]

vars == <<opts, server, speaks, opening, path, routed>>

\* The protocols the first bytes can tell, with how each side may begin.  "other"
\* is what sniffTLS has no rule for: a PostgreSQL start-up with a code of its own
\* (GSSENCRequest, protocol 3.2), the one byte N or S that answers an SSLRequest
\* and that no length follows, a NegotiateProtocolVersion, an inline Redis
\* command, an AMQP frame, HTTP.  A PostgreSQL server may refuse at once with an
\* ErrorResponse, an AMQP server with the header of the version it speaks.
Openings == [
  postgres |-> [client |-> {"startup", "other"}, server |-> {"R", "E", "other"}],
  redis    |-> [client |-> {"*", "other"}, server |-> {"+", "-", ":", "$", "%", "*"}],
  amqp     |-> [client |-> {"AMQP"}, server |-> {"other", "AMQP"}],
  http     |-> [client |-> {"other"}, server |-> {"other"}]]

Sides == {"client", "server"}

Init ==
  /\ opts \in [Redis : SUBSET ExtraPorts, Valkey : SUBSET ExtraPorts,
               AMQP : SUBSET ExtraPorts, HTTP : SUBSET ExtraPorts]
  /\ server \in {redisPort, pgPort, amqpPort, mysqlPort, mongoPort, kafkaPort, dnsPort}
                 \cup defaultHTTPPorts \cup ExtraPorts
  /\ speaks \in DOMAIN Openings
  /\ opening \in [client : Openings[speaks].client, server : Openings[speaks].server]
  /\ path \in {"packets", "client TLS", "server TLS"}
  /\ routed = <<>>

-----------------------------------------------------------------------------
(* The tables.                                                             *)

buildRespPorts(o) ==
  [p \in {redisPort} \cup o.Redis \cup o.Valkey |-> IF p \in o.Valkey THEN "valkey" ELSE "redis"]

buildAMQPPorts(o) == {amqpPort} \cup o.AMQP

\* What the kernel lets through.
capturePorts(o) ==
  {redisPort, pgPort, amqpPort, dnsPort, mysqlPort, mongoPort, kafkaPort}
    \cup defaultHTTPPorts \cup o.Redis \cup o.Valkey \cup o.AMQP \cup o.HTTP

-----------------------------------------------------------------------------
(* The first bytes.                                                        *)

isPGTypeByte(b) == b \in {"Q", "P", "B", "E", "D", "C", "S", "X", "R", "K", "Z", "T", "I", "N"}

\* The role a message type implies, where it implies one.
pgRole(b) == IF b \in {"Q", "P", "B", "X"} THEN {TRUE}
             ELSE IF b \in {"R", "K", "Z", "T", "I", "N"} THEN {FALSE} ELSE {}

\* Mutant of sniffTLS: the direction decides, not the content.
sniffByDirection(b, hint) ==
  CASE b = "AMQP" -> [proto |-> "amqp", req |-> TRUE]
    [] b = "startup" \/ isPGTypeByte(b) -> [proto |-> "postgres", req |-> hint]
    [] b \in {"*", "+", "-", ":", "$", ">", "~", "%", "_", "#", ",", "(", "="} ->
         [proto |-> "redis", req |-> hint]
    [] OTHER -> [proto |-> "http", req |-> hint]

sniffTLS(b, hint) ==
  CASE b = "AMQP" -> [proto |-> "amqp", req |-> TRUE]
    [] b = "startup" -> [proto |-> "postgres", req |-> TRUE]
    [] isPGTypeByte(b) -> [proto |-> "postgres",
                           req |-> IF pgRole(b) = {} THEN hint ELSE TRUE \in pgRole(b)]
    [] b = "*" -> [proto |-> "redis", req |-> TRUE]
    [] b \in {"+", "-", ":"} -> [proto |-> "redis", req |-> FALSE]
    [] b \in {"$", ">", "~", "%", "_", "#", ",", "(", "="} -> [proto |-> "redis", req |-> hint]
    [] OTHER -> [proto |-> "http", req |-> hint]

\* HTTP finds its own role.
consumeSniffedID(side, hint) ==
  LET s == sniffTLS(opening[side], hint) IN
  IF s.proto = "http" THEN [s EXCEPT !.req = side = "client"] ELSE s

-----------------------------------------------------------------------------
(* The ports.                                                              *)

consumeStreamID(src, dst, side) ==
  LET resp == buildRespPorts(opts)
      amqp == buildAMQPPorts(opts)
      by(port, name) == [proto |-> name, req |-> dst = port]
  IN  CASE dst \in DOMAIN resp -> [proto |-> resp[dst], req |-> TRUE]
        [] dst \notin DOMAIN resp /\ src \in DOMAIN resp -> [proto |-> resp[src], req |-> FALSE]
        [] {src, dst} \cap DOMAIN resp = {} /\ dst \in amqp -> [proto |-> "amqp", req |-> TRUE]
        [] {src, dst} \cap DOMAIN resp = {} /\ dst \notin amqp /\ src \in amqp ->
             [proto |-> "amqp", req |-> FALSE]
        [] OTHER ->
             IF pgPort \in {src, dst} THEN by(pgPort, "postgres")
             ELSE IF mysqlPort \in {src, dst} THEN by(mysqlPort, "mysql")
             ELSE IF mongoPort \in {src, dst} THEN by(mongoPort, "mongodb")
             ELSE IF kafkaPort \in {src, dst} THEN by(kafkaPort, "kafka")
             ELSE IF dnsPort \in {src, dst} THEN by(dnsPort, "dns")
             ELSE consumeSniffedID(side, src > dst)

\* What a TLS library writes is taken for the request side where the bytes do
\* not tell.
Consumed(side) ==
  LET to == IF side = "client" THEN server ELSE ClientPort
      from == IF side = "client" THEN ClientPort ELSE server
      writes == (path = "client TLS") = (side = "client")
  IN  IF path = "packets" THEN consumeStreamID(from, to, side) ELSE consumeSniffedID(side, writes)

\* A direction is dispatched.
Route(side) ==
  /\ side \notin DOMAIN routed
  /\ path = "packets" => server \in capturePorts(opts)
  /\ routed' = [s \in DOMAIN routed \cup {side} |-> IF s = side THEN Consumed(s) ELSE routed[s]]
  /\ UNCHANGED <<opts, server, speaks, opening, path>>

Next == \E side \in Sides : Route(side)

Spec == Init /\ [][Next]_vars

-----------------------------------------------------------------------------
(* Properties.                                                             *)

ByPort == {redisPort, pgPort, amqpPort, mysqlPort, mongoPort, kafkaPort, dnsPort}
            \cup opts.Redis \cup opts.Valkey \cup opts.AMQP

\* The directions whose first bytes mislead sniffTLS: it has no rule for them; a
\* first reply that is a RESP array reads as a command, and the header by which
\* an AMQP server refuses as a client's; and a map, a bulk reply or a PostgreSQL
\* error seen in the server's TLS library takes the write side's role, although
\* the comment on pgRole has the first message of a server always unambiguous.
Misleading(side) ==
  \/ speaks # "http" /\ opening[side] = "other"
  \/ side = "server" /\ \/ opening.server \in {"*", "AMQP"}
                        \/ opening.server \in {"$", "%", "E"} /\ path = "server TLS"

\* Both directions of a connection go to one dissector, the client's as the
\* requests and the server's as the responses.  By port this always holds.  By
\* content it holds from the start of a connection, whichever side's TLS library
\* is probed, for the openings that sniffTLS has a rule for and that are not
\* among those named above (pipeline.go:582-626, tls_pipeline.go:252-329).
DirectionsAgree ==
  /\ path = "packets" /\ server \in ByPort /\ DOMAIN routed = Sides =>
       /\ routed.client.proto = routed.server.proto
       /\ routed.client.req /\ ~routed.server.req
  /\ path # "packets" \/ server \notin ByPort =>
       \A side \in DOMAIN routed : ~Misleading(side) =>
         routed[side] = [proto |-> speaks, req |-> side = "client"]

\* Every port a dissector is chosen by passes the kernel filter: the comment on
\* capturePorts asks for a superset (worker.go:336-341).
FilterAdmitsDispatch == ByPort \subseteq capturePorts(opts)
=============================================================================
