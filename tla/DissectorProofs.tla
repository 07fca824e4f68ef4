---------------------------- MODULE DissectorProofs ----------------------------
(***************************************************************************)
(* Proofs about a worker's dissectors: how a direction gets its dissector  *)
(* (Dispatch), how it is cut into messages (Framing), which command a      *)
(* reply is paired with (ReplyPairing), and how the frames of alternating  *)
(* AMQP channels become contents (AMQPContent), for any number of          *)
(* messages, commands, pushes and channels, every size and every set of    *)
(* ports.                                                                  *)
(***************************************************************************)
EXTENDS MCWorkerCapture, SumProofs, FiniteSetTheorems, SequenceTheorems, TLAPS

captureVars == <<part, vars, flowVars, idVars, tlsVars, probeVars, dissectorVars>>

-----------------------------------------------------------------------------
(* The choice of a dissector (Dispatch).                                   *)

KnownPorts == {6379, 5432, 5672, 3306, 27017, 9092, 53}

LEMMA RouteConstants ==
  /\ ExtraPorts \subseteq Nat /\ ClientPort \in Nat
  /\ \A p \in ExtraPorts \cup {80, 8080} \cup KnownPorts : p \in Nat /\ p < ClientPort
BY CaptureAssumption DEF D!RouteAssumption, D!defaultHTTPPorts, D!redisPort, D!pgPort, D!amqpPort,
   D!mysqlPort, D!mongoPort, D!kafkaPort, D!dnsPort, KnownPorts

PortsTyped ==
  /\ opts.Redis \in SUBSET ExtraPorts /\ opts.Valkey \in SUBSET ExtraPorts
  /\ opts.AMQP \in SUBSET ExtraPorts /\ opts.HTTP \in SUBSET ExtraPorts
  /\ server \in KnownPorts \cup {80, 8080} \cup ExtraPorts

\* The openings, one protocol at a time.
OpeningsAre ==
  \/ /\ speaks = "postgres"
     /\ opening.client \in {"startup", "other"} /\ opening.server \in {"R", "E", "other"}
  \/ /\ speaks = "redis"
     /\ opening.client \in {"*", "other"} /\ opening.server \in {"+", "-", ":", "$", "%", "*"}
  \/ speaks = "amqp" /\ opening.client = "AMQP" /\ opening.server \in {"other", "AMQP"}
  \/ speaks = "http" /\ opening.client = "other" /\ opening.server = "other"

DispatchSafe ==
  /\ PortsTyped /\ OpeningsAre /\ side \in {"packets", "client TLS", "server TLS"}
  /\ routed = [s \in DOMAIN routed |-> D!Consumed(s)] /\ DOMAIN routed \subseteq {"client", "server"}

LEMMA InitOpenings ==
  ASSUME speaks \in DOMAIN D!Openings,
         opening \in [client : D!Openings[speaks].client, server : D!Openings[speaks].server]
  PROVE  OpeningsAre
<1>1. speaks \in {"postgres", "redis", "amqp", "http"}
  <2>1. DOMAIN D!Openings = {"postgres", "redis", "amqp", "http"}
    BY DEF D!Openings
  <2> QED BY <2>1
<1>2. /\ D!Openings["postgres"] = [client |-> {"startup", "other"}, server |-> {"R", "E", "other"}]
      /\ D!Openings["redis"] = [client |-> {"*", "other"}, server |-> {"+", "-", ":", "$", "%", "*"}]
      /\ D!Openings["amqp"] = [client |-> {"AMQP"}, server |-> {"other", "AMQP"}]
      /\ D!Openings["http"] = [client |-> {"other"}, server |-> {"other"}]
  BY DEF D!Openings
<1>3. opening.client \in D!Openings[speaks].client /\ opening.server \in D!Openings[speaks].server
  OBVIOUS
<1>4. CASE speaks = "postgres"
  BY <1>2, <1>3, <1>4 DEF OpeningsAre
<1>5. CASE speaks = "redis"
  BY <1>2, <1>3, <1>5 DEF OpeningsAre
<1>6. CASE speaks = "amqp"
  BY <1>2, <1>3, <1>6 DEF OpeningsAre
<1>7. CASE speaks = "http"
  BY <1>2, <1>3, <1>7 DEF OpeningsAre
<1> QED BY <1>1, <1>4, <1>5, <1>6, <1>7 DEF OpeningsAre

\* What the first bytes say; the hint is used for four of them.
LEMMA Sniffed ==
  ASSUME NEW hint
  PROVE  /\ D!sniffTLS("AMQP", hint) = [proto |-> "amqp", req |-> TRUE]
         /\ D!sniffTLS("startup", hint) = [proto |-> "postgres", req |-> TRUE]
         /\ D!sniffTLS("R", hint) = [proto |-> "postgres", req |-> FALSE]
         /\ D!sniffTLS("E", hint) = [proto |-> "postgres", req |-> hint]
         /\ D!sniffTLS("*", hint) = [proto |-> "redis", req |-> TRUE]
         /\ \A b \in {"+", "-", ":"} : D!sniffTLS(b, hint) = [proto |-> "redis", req |-> FALSE]
         /\ \A b \in {"$", "%"} : D!sniffTLS(b, hint) = [proto |-> "redis", req |-> hint]
         /\ D!sniffTLS("other", hint) = [proto |-> "http", req |-> hint]
<1>1. D!sniffTLS("AMQP", hint) = [proto |-> "amqp", req |-> TRUE]
  BY DEF D!sniffTLS, D!isPGTypeByte
<1>2. D!sniffTLS("startup", hint) = [proto |-> "postgres", req |-> TRUE]
  BY DEF D!sniffTLS, D!isPGTypeByte
<1>3. D!sniffTLS("R", hint) = [proto |-> "postgres", req |-> FALSE]
  <2>1. D!isPGTypeByte("R") /\ D!pgRole("R") = {FALSE}
    BY DEF D!isPGTypeByte, D!pgRole
  <2>2. D!sniffTLS("R", hint) = [proto |-> "postgres",
                                 req |-> IF D!pgRole("R") = {} THEN hint ELSE TRUE \in D!pgRole("R")]
    BY <2>1 DEF D!sniffTLS
  <2>3. {FALSE} # {} /\ (TRUE \in {FALSE}) = FALSE
    <3>1. TRUE \notin {FALSE}
      BY Zenon
    <3>2. {FALSE} # {}
      OBVIOUS
    <3> QED BY <3>1, <3>2
  <2> QED BY <2>1, <2>2, <2>3
<1>8. D!sniffTLS("E", hint) = [proto |-> "postgres", req |-> hint]
  <2>1. D!isPGTypeByte("E") /\ D!pgRole("E") = {}
    BY DEF D!isPGTypeByte, D!pgRole
  <2> QED BY <2>1 DEF D!sniffTLS
<1>4. D!sniffTLS("*", hint) = [proto |-> "redis", req |-> TRUE]
  BY DEF D!sniffTLS, D!isPGTypeByte
<1>5. ASSUME NEW b \in {"+", "-", ":"} PROVE D!sniffTLS(b, hint) = [proto |-> "redis", req |-> FALSE]
  BY <1>5 DEF D!sniffTLS, D!isPGTypeByte
<1>6. ASSUME NEW b \in {"$", "%"} PROVE D!sniffTLS(b, hint) = [proto |-> "redis", req |-> hint]
  BY <1>6 DEF D!sniffTLS, D!isPGTypeByte
<1>7. D!sniffTLS("other", hint) = [proto |-> "http", req |-> hint]
  BY DEF D!sniffTLS, D!isPGTypeByte
<1> QED BY <1>1, <1>2, <1>3, <1>4, <1>5, <1>6, <1>7, <1>8

LEMMA SniffedRight ==
  ASSUME OpeningsAre, NEW s \in {"client", "server"}, ~D!Misleading(s), NEW hint \in BOOLEAN,
         s = "server" /\ opening.server \in {"$", "%", "E"} => hint = FALSE
  PROVE  D!consumeSniffedID(s, hint) = [proto |-> speaks, req |-> s = "client"]
<1> DEFINE b == opening[s]
           r == D!sniffTLS(b, hint)
<1>1. D!consumeSniffedID(s, hint) = IF r.proto = "http" THEN [r EXCEPT !.req = (s = "client")] ELSE r
  BY DEF D!consumeSniffedID
<1>2. CASE s = "client"
  <2>1. r.proto = speaks /\ (speaks # "http" => r.req = TRUE)
        /\ r = [proto |-> r.proto, req |-> r.req]
    BY <1>2, Sniffed DEF OpeningsAre, D!Misleading
  <2> HIDE DEF r
  <2>2. (s = "client") = TRUE
    BY <1>2
  <2> QED BY <1>1, <2>1, <2>2
<1>3. CASE s = "server"
  <2>1. opening.server \notin {"*", "AMQP"} /\ (speaks # "http" => opening.server # "other")
    BY <1>3 DEF D!Misleading
  <2>2. r.proto = speaks /\ (speaks # "http" => r.req = FALSE)
        /\ r = [proto |-> r.proto, req |-> r.req]
    BY <1>3, <2>1, Sniffed DEF OpeningsAre
  <2> HIDE DEF r
  <2>3. (s = "client") = FALSE
    BY <1>3
  <2> QED BY <1>1, <2>2, <2>3
<1> QED BY <1>2, <1>3
FixedPorts == {5432, 3306, 27017, 9092, 53}

FixedName == [p \in FixedPorts |->
  IF p = 5432 THEN "postgres" ELSE IF p = 3306 THEN "mysql" ELSE IF p = 27017 THEN "mongodb"
  ELSE IF p = 9092 THEN "kafka" ELSE "dns"]

LEMMA InitRoutes == D!Init => DispatchSafe
<1> SUFFICES ASSUME D!Init PROVE DispatchSafe
  OBVIOUS
<1>1. OpeningsAre
  BY InitOpenings DEF D!Init
<1>2. PortsTyped
  <2>1. opts \in [Redis : SUBSET ExtraPorts, Valkey : SUBSET ExtraPorts,
                  AMQP : SUBSET ExtraPorts, HTTP : SUBSET ExtraPorts]
    BY DEF D!Init
  <2>2. server \in {D!redisPort, D!pgPort, D!amqpPort, D!mysqlPort, D!mongoPort, D!kafkaPort, D!dnsPort}
                   \cup D!defaultHTTPPorts \cup ExtraPorts
    BY DEF D!Init
  <2>3. server \in KnownPorts \cup {80, 8080} \cup ExtraPorts
    BY <2>2 DEF D!defaultHTTPPorts, D!redisPort, D!pgPort, D!amqpPort, D!mysqlPort,
           D!mongoPort, D!kafkaPort, D!dnsPort, KnownPorts
  <2> QED BY <2>1, <2>3 DEF PortsTyped
<1>3. side \in {"packets", "client TLS", "server TLS"} /\ routed = <<>>
  BY DEF D!Init
<1>4. routed = [s \in DOMAIN routed |-> D!Consumed(s)] /\ DOMAIN routed \subseteq {"client", "server"}
  <2>1. DOMAIN <<>> = {} /\ [s \in {} |-> D!Consumed(s)] = <<>>
    OBVIOUS
  <2> QED BY <1>3, <2>1
<1> QED BY <1>1, <1>2, <1>3, <1>4 DEF DispatchSafe

LEMMA NextRoutes == ASSUME DispatchSafe, D!Next \/ UNCHANGED routeVars PROVE DispatchSafe'
<1>1. UNCHANGED <<opts, server, speaks, opening, side>>
  <2>1. ASSUME NEW t \in D!Sides, D!Route(t) PROVE UNCHANGED <<opts, server, speaks, opening, side>>
    BY <2>1 DEF D!Route
  <2> QED BY <2>1 DEF D!Next, routeVars
<1>2. PortsTyped' /\ OpeningsAre' /\ side' \in {"packets", "client TLS", "server TLS"}
  <2>1. PortsTyped'
    <3>1. PortsTyped
      BY DEF DispatchSafe
    <3> QED BY <1>1, <3>1 DEF PortsTyped
  <2>2. OpeningsAre'
    BY <1>1 DEF DispatchSafe, OpeningsAre
  <2> QED BY <1>1, <2>1, <2>2 DEF DispatchSafe
<1>3. \A s : D!Consumed(s)' = D!Consumed(s)
  BY <1>1 DEF D!Consumed, D!consumeStreamID, D!consumeSniffedID, D!buildRespPorts, D!buildAMQPPorts
<1>4. routed' = [s \in DOMAIN routed' |-> D!Consumed(s)] /\ DOMAIN routed' \subseteq {"client", "server"}
  <2>1. CASE UNCHANGED routed
    BY <2>1 DEF DispatchSafe
  <2>2. ASSUME NEW t \in D!Sides, D!Route(t) PROVE <1>4!:
    <3>1. routed' = [s \in DOMAIN routed \cup {t} |-> IF s = t THEN D!Consumed(s) ELSE routed[s]]
          /\ t \in {"client", "server"}
      BY <2>2 DEF D!Route, D!Sides
    <3>2. /\ DOMAIN routed' = DOMAIN routed \cup {t}
          /\ \A s \in DOMAIN routed : routed[s] = D!Consumed(s)
          /\ DOMAIN routed \subseteq {"client", "server"}
      BY <3>1 DEF DispatchSafe
    <3> QED BY <3>1, <3>2
  <2> QED BY <2>1, <2>2 DEF D!Next, routeVars
<1> QED BY <1>2, <1>3, <1>4 DEF DispatchSafe

RespPorts == {6379} \cup opts.Redis \cup opts.Valkey
AMQPPorts == {5672} \cup opts.AMQP

LEMMA PortsAre ==
  /\ DOMAIN D!buildRespPorts(opts) = RespPorts /\ D!buildAMQPPorts(opts) = AMQPPorts
  /\ D!ByPort = RespPorts \cup AMQPPorts \cup FixedPorts
<1>1. DOMAIN D!buildRespPorts(opts) = RespPorts
  BY DEF D!buildRespPorts, D!redisPort, RespPorts
<1>2. D!buildAMQPPorts(opts) = AMQPPorts
  BY DEF D!buildAMQPPorts, D!amqpPort, AMQPPorts
<1>3. D!ByPort = RespPorts \cup AMQPPorts \cup FixedPorts
  BY DEF D!ByPort, RespPorts, AMQPPorts, D!redisPort, D!pgPort, D!amqpPort, D!mysqlPort,
         D!mongoPort, D!kafkaPort, D!dnsPort, FixedPorts
<1> QED BY <1>1, <1>2, <1>3

LEMMA PortsApart ==
  ASSUME PortsTyped
  PROVE  /\ server \in Nat /\ ClientPort \in Nat /\ server < ClientPort /\ server # ClientPort
         /\ ClientPort \notin RespPorts /\ ClientPort \notin AMQPPorts
         /\ ClientPort \notin FixedPorts
<1>1. /\ ExtraPorts \subseteq Nat /\ ClientPort \in Nat
      /\ \A p \in ExtraPorts \cup {80, 8080} \cup KnownPorts : p \in Nat /\ p < ClientPort
  BY RouteConstants
<1>2. server \in Nat /\ server < ClientPort /\ ClientPort \notin ExtraPorts
      /\ ClientPort \notin KnownPorts
  <2>1. server \in ExtraPorts \cup {80, 8080} \cup KnownPorts
    BY DEF PortsTyped
  <2>2. server \in Nat /\ server < ClientPort
    BY <1>1, <2>1
  <2>3. ClientPort \notin ExtraPorts \cup {80, 8080} \cup KnownPorts
    BY <1>1
  <2> QED BY <2>2, <2>3
<1>3. ClientPort \notin opts.Redis /\ ClientPort \notin opts.Valkey /\ ClientPort \notin opts.AMQP
  BY <1>2 DEF PortsTyped
<1> QED BY <1>1, <1>2, <1>3 DEF RespPorts, AMQPPorts, KnownPorts, FixedPorts

\* consumeStreamID's choice, port by port.
LEMMA StreamByPort ==
  ASSUME NEW src, NEW dst, NEW s
  PROVE  LET r == D!consumeStreamID(src, dst, s)
         IN /\ dst \in RespPorts => r = [proto |-> D!buildRespPorts(opts)[dst], req |-> TRUE]
            /\ dst \notin RespPorts /\ src \in RespPorts =>
                 r = [proto |-> D!buildRespPorts(opts)[src], req |-> FALSE]
            /\ src \notin RespPorts /\ dst \notin RespPorts =>
                 /\ dst \in AMQPPorts => r = [proto |-> "amqp", req |-> TRUE]
                 /\ dst \notin AMQPPorts /\ src \in AMQPPorts => r = [proto |-> "amqp", req |-> FALSE]
                 /\ dst \notin AMQPPorts /\ src \notin AMQPPorts =>
                      /\ dst \in FixedPorts /\ src \notin FixedPorts =>
                           r = [proto |-> FixedName[dst], req |-> TRUE]
                      /\ src \in FixedPorts /\ dst \notin FixedPorts =>
                           r = [proto |-> FixedName[src], req |-> FALSE]
                      /\ src \notin FixedPorts /\ dst \notin FixedPorts =>
                           r = D!consumeSniffedID(s, src > dst)
<1> DEFINE by(port, name) == [proto |-> name, req |-> dst = port]
           sniffed == D!consumeSniffedID(s, src > dst)
           rest == IF 5432 \in {src, dst} THEN by(5432, "postgres")
                   ELSE IF 3306 \in {src, dst} THEN by(3306, "mysql")
                   ELSE IF 27017 \in {src, dst} THEN by(27017, "mongodb")
                   ELSE IF 9092 \in {src, dst} THEN by(9092, "kafka")
                   ELSE IF 53 \in {src, dst} THEN by(53, "dns")
                   ELSE sniffed
           r == D!consumeStreamID(src, dst, s)
           t == D!buildRespPorts(opts)
<1>1. r = CASE dst \in RespPorts -> [proto |-> t[dst], req |-> TRUE]
            [] dst \notin RespPorts /\ src \in RespPorts -> [proto |-> t[src], req |-> FALSE]
            [] {src, dst} \cap RespPorts = {} /\ dst \in AMQPPorts -> [proto |-> "amqp", req |-> TRUE]
            [] {src, dst} \cap RespPorts = {} /\ dst \notin AMQPPorts /\ src \in AMQPPorts ->
                 [proto |-> "amqp", req |-> FALSE]
            [] OTHER -> rest
  BY PortsAre DEF D!consumeStreamID, D!pgPort, D!mysqlPort, D!mongoPort, D!kafkaPort, D!dnsPort
<1>8. /\ dst \in FixedPorts /\ src \notin FixedPorts => rest = [proto |-> FixedName[dst], req |-> TRUE]
      /\ src \in FixedPorts /\ dst \notin FixedPorts => rest = [proto |-> FixedName[src], req |-> FALSE]
      /\ src \notin FixedPorts /\ dst \notin FixedPorts => rest = sniffed
  <2> HIDE DEF sniffed
  <2>1. \A p : p \in {src, dst} <=> p = src \/ p = dst
    OBVIOUS
  <2>2. ASSUME NEW p, NEW name, dst = p PROVE by(p, name) = [proto |-> name, req |-> TRUE]
    <3>1. (dst = p) = TRUE
      BY <2>2
    <3> QED BY <3>1
  <2>3. ASSUME NEW p, NEW name, dst # p PROVE by(p, name) = [proto |-> name, req |-> FALSE]
    <3>1. (dst = p) = FALSE
      BY <2>3
    <3> QED BY <3>1
  <2>4. /\ 5432 \in FixedPorts /\ FixedName[5432] = "postgres"
        /\ 3306 \in FixedPorts /\ FixedName[3306] = "mysql"
        /\ 27017 \in FixedPorts /\ FixedName[27017] = "mongodb"
        /\ 9092 \in FixedPorts /\ FixedName[9092] = "kafka"
        /\ 53 \in FixedPorts /\ FixedName[53] = "dns"
    BY DEF FixedPorts, FixedName
  <2>5. \A p \in FixedPorts : p = 5432 \/ p = 3306 \/ p = 27017 \/ p = 9092 \/ p = 53
    BY DEF FixedPorts
  <2> HIDE DEF by
  <2>6. rest = IF 5432 = src \/ 5432 = dst THEN by(5432, "postgres")
            ELSE IF 3306 = src \/ 3306 = dst THEN by(3306, "mysql")
            ELSE IF 27017 = src \/ 27017 = dst THEN by(27017, "mongodb")
            ELSE IF 9092 = src \/ 9092 = dst THEN by(9092, "kafka")
            ELSE IF 53 = src \/ 53 = dst THEN by(53, "dns") ELSE sniffed
    BY <2>1
  <2> HIDE DEF rest
  <2>7. ASSUME dst \in FixedPorts, src \notin FixedPorts PROVE rest = [proto |-> FixedName[dst], req |-> TRUE]
    <3>1. rest = by(dst, FixedName[dst])
      BY <2>4, <2>5, <2>6, <2>7
    <3> QED BY <2>2, <3>1
  <2>8. ASSUME src \in FixedPorts, dst \notin FixedPorts PROVE rest = [proto |-> FixedName[src], req |-> FALSE]
    <3>1. rest = by(src, FixedName[src])
      BY <2>4, <2>5, <2>6, <2>8
    <3>2. dst # src
      BY <2>8
    <3> QED BY <2>3, <3>1, <3>2
  <2>9. src \notin FixedPorts /\ dst \notin FixedPorts => rest = sniffed
    BY <2>4, <2>6
  <2> QED BY <2>7, <2>8, <2>9 DEF rest, by
<1> HIDE DEF r, t, rest
<1>2. {src, dst} \cap RespPorts = {} <=> src \notin RespPorts /\ dst \notin RespPorts
  OBVIOUS
<1>3. dst \in RespPorts => r = [proto |-> t[dst], req |-> TRUE]
  BY <1>1, <1>2
<1>4. dst \notin RespPorts /\ src \in RespPorts => r = [proto |-> t[src], req |-> FALSE]
  BY <1>1, <1>2
<1>5. src \notin RespPorts /\ dst \notin RespPorts /\ dst \in AMQPPorts => r = [proto |-> "amqp", req |-> TRUE]
  BY <1>1, <1>2
<1>6. src \notin RespPorts /\ dst \notin RespPorts /\ dst \notin AMQPPorts /\ src \in AMQPPorts =>
        r = [proto |-> "amqp", req |-> FALSE]
  BY <1>1, <1>2
<1>7. src \notin RespPorts /\ dst \notin RespPorts /\ dst \notin AMQPPorts /\ src \notin AMQPPorts => r = rest
  BY <1>1, <1>2
<1> QED BY <1>3, <1>4, <1>5, <1>6, <1>7, <1>8 DEF r, t

LEMMA Higher == ASSUME NEW a \in Nat, NEW b \in Nat, a < b PROVE (a > b) = FALSE /\ (b > a) = TRUE
<1>1. ~(a > b) /\ (b > a)
  OBVIOUS
<1>2. (a > b) \in BOOLEAN /\ (b > a) \in BOOLEAN
  OBVIOUS
<1> QED BY <1>1, <1>2

LEMMA ByPortAgrees ==
  ASSUME PortsTyped, side = "packets", server \in D!ByPort
  PROVE  LET c == D!Consumed("client")  s == D!Consumed("server")
         IN  c.proto = s.proto /\ c.req = TRUE /\ s.req = FALSE
<1> DEFINE c == D!Consumed("client")
           s == D!Consumed("server")
           t == D!buildRespPorts(opts)
<1>1. /\ c = D!consumeStreamID(ClientPort, server, "client")
      /\ s = D!consumeStreamID(server, ClientPort, "server")
  BY DEF D!Consumed
<1>2. /\ server # ClientPort /\ ClientPort \notin RespPorts /\ ClientPort \notin AMQPPorts
      /\ ClientPort \notin FixedPorts
  BY PortsApart
<1>3. CASE server \in RespPorts
  <2>1. c = [proto |-> t[server], req |-> TRUE]
    BY <1>1, <1>3, StreamByPort
  <2>2. s = [proto |-> t[server], req |-> FALSE]
    BY <1>1, <1>2, <1>3, StreamByPort
  <2> HIDE DEF c, s, t
  <2> QED BY <2>1, <2>2 DEF c, s
<1>4. CASE server \notin RespPorts /\ server \in AMQPPorts
  <2>1. c = [proto |-> "amqp", req |-> TRUE] /\ s = [proto |-> "amqp", req |-> FALSE]
    BY <1>1, <1>2, <1>4, StreamByPort
  <2> HIDE DEF c, s
  <2> QED BY <2>1 DEF c, s
<1>5. CASE server \notin RespPorts /\ server \notin AMQPPorts
  <2>1. server \in FixedPorts
    BY <1>5, PortsAre
  <2>2. c = [proto |-> FixedName[server], req |-> TRUE]
    BY <1>1, <1>2, <1>5, <2>1, StreamByPort
  <2>3. s = [proto |-> FixedName[server], req |-> FALSE]
    BY <1>1, <1>2, <1>5, <2>1, StreamByPort
  <2> HIDE DEF c, s
  <2> QED BY <2>2, <2>3 DEF c, s
<1> QED BY <1>3, <1>4, <1>5

LEMMA ByContentAgrees ==
  ASSUME PortsTyped, OpeningsAre, side \in {"packets", "client TLS", "server TLS"},
         side # "packets" \/ server \notin D!ByPort,
         NEW s \in {"client", "server"}, ~D!Misleading(s)
  PROVE  D!Consumed(s) = [proto |-> speaks, req |-> s = "client"]
<1>1. CASE side # "packets"
  <2> DEFINE hint == (side = "client TLS") = (s = "client")
  <2>1. D!Consumed(s) = D!consumeSniffedID(s, hint)
    BY <1>1 DEF D!Consumed
  <2>2. s = "server" /\ opening.server \in {"$", "%", "E"} => hint = FALSE
    BY <1>1 DEF D!Misleading
  <2>3. hint \in BOOLEAN
    OBVIOUS
  <2> HIDE DEF hint
  <2> QED BY <2>1, <2>2, <2>3, SniffedRight
<1>2. CASE side = "packets"
  <2>1. server \notin RespPorts /\ server \notin AMQPPorts /\ server \notin FixedPorts
    BY <1>2, PortsAre
  <2>2. /\ ClientPort \notin RespPorts /\ ClientPort \notin AMQPPorts /\ ClientPort \notin FixedPorts
        /\ server \in Nat /\ ClientPort \in Nat /\ server < ClientPort
    BY PortsApart
  <2>3. CASE s = "client"
    <3>1. D!Consumed(s) = D!consumeStreamID(ClientPort, server, s)
      BY <1>2, <2>3 DEF D!Consumed
    <3>2. D!Consumed(s) = D!consumeSniffedID(s, ClientPort > server)
      BY <2>1, <2>2, <3>1, StreamByPort
    <3>3. (ClientPort > server) = TRUE
      BY <2>2
    <3>4. D!consumeSniffedID(s, TRUE) = [proto |-> speaks, req |-> s = "client"]
      BY <2>3, SniffedRight
    <3> QED BY <3>2, <3>3, <3>4
  <2>4. CASE s = "server"
    <3>1. D!Consumed(s) = D!consumeStreamID(server, ClientPort, s)
      BY <1>2, <2>4 DEF D!Consumed
    <3>2. D!Consumed(s) = D!consumeSniffedID(s, server > ClientPort)
      BY <2>1, <2>2, <3>1, StreamByPort
    <3>3. (server > ClientPort) = FALSE
      BY <2>2, Higher
    <3>4. D!consumeSniffedID(s, FALSE) = [proto |-> speaks, req |-> s = "client"]
      BY <2>4, SniffedRight
    <3> QED BY <3>2, <3>3, <3>4
  <2> QED BY <2>3, <2>4
<1> QED BY <1>1, <1>2

LEMMA RoutesImply == ASSUME DispatchSafe PROVE D!DirectionsAgree /\ D!FilterAdmitsDispatch
<1>1. PortsTyped /\ OpeningsAre /\ side \in {"packets", "client TLS", "server TLS"}
      /\ DOMAIN routed \subseteq {"client", "server"}
      /\ \A s \in DOMAIN routed : routed[s] = D!Consumed(s)
  BY DEF DispatchSafe
<1>2. ASSUME side = "packets", server \in D!ByPort, DOMAIN routed = D!Sides
      PROVE  routed.client.proto = routed.server.proto /\ routed.client.req /\ ~routed.server.req
  <2>1. routed["client"] = D!Consumed("client") /\ routed["server"] = D!Consumed("server")
    BY <1>1, <1>2 DEF D!Sides
  <2> QED BY <1>1, <1>2, <2>1, ByPortAgrees
<1>3. ASSUME side # "packets" \/ server \notin D!ByPort,
             NEW s \in DOMAIN routed, ~D!Misleading(s)
      PROVE  routed[s] = [proto |-> speaks, req |-> s = "client"]
  BY <1>1, <1>3, ByContentAgrees
<1>4. D!FilterAdmitsDispatch
  BY DEF D!FilterAdmitsDispatch, D!ByPort, D!capturePorts
<1> QED BY <1>2, <1>3, <1>4 DEF D!DirectionsAgree

\* Both directions of a connection reach one dissector, the client's as the
\* requests and the server's as the responses: always where a port decides, and
\* where the first bytes do, but for the openings the property names; and the
\* kernel filter lets every such port through (pipeline.go:582-626,
\* tls_pipeline.go:252-298, worker.go:342-369).
THEOREM DirectionsCorrect == MCSpec => []DirectionsAgree
<1> DEFINE Safe == part = "routes" => DispatchSafe
<1>1. MCInit => Safe
  <2>1. ASSUME MCInit, part = "routes" PROVE D!Init
    BY <2>1 DEF MCInit
  <2> QED BY <2>1, InitRoutes
<1>2. Safe /\ [MCNext]_captureVars => Safe'
  <2> SUFFICES ASSUME Safe, [MCNext]_captureVars,
                      part' = "routes"
               PROVE  DispatchSafe'
    OBVIOUS
  <2>1. part = "routes" /\ DispatchSafe
    BY DEF MCNext, captureVars
  <2>2. D!Next \/ UNCHANGED routeVars
    BY <2>1 DEF MCNext, captureVars, dissectorVars
  <2> QED BY <2>1, <2>2, NextRoutes
<1>3. Safe => DirectionsAgree
  BY RoutesImply DEF DirectionsAgree
<1> QED BY <1>1, <1>2, <1>3, PTL DEF MCSpec, captureVars
-----------------------------------------------------------------------------
(* The framing (Framing).                                                  *)

\* What the proof needs of a protocol.
LEMMA ProtocolTyped ==
  ASSUME NEW p \in W!Protocols
  PROVE  p.base \in Nat /\ p.tail \in {0, 1} /\ p.keep \in Nat
<1>1. Base \in Nat /\ Sane \in Nat /\ Scan \in Nat /\ MaxSize \in Nat
  BY CaptureAssumption DEF W!FramingAssumption
<1> QED BY <1>1 DEF W!Protocols, W!kafkaFrame, W!mongoMessage, W!pgMessage, W!pgUntyped,
           W!mysqlPacket, W!amqpFrame, W!dnsTCP, W!wsFrame, W!respBulk

\* Where the messages after the first g of m begin on a wire of k cells: one
\* after the other, their headers in place as far as the wire goes.
Starts(s, f, m, g, w, k, base, tail) ==
  /\ s \in [1 .. m + 1 -> Int]
  /\ s[g + 1] = 1
  /\ \A i \in g + 1 .. m : s[i + 1] = s[i] + 1 + f[i] + tail
  /\ \A i, j \in g + 1 .. m + 1 : i <= j => s[i] <= s[j]
  /\ \A i \in g + 1 .. m : s[i] <= k => w[s[i]] = f[i] + base
  /\ k < s[m + 1]

Sizes(f, m) == \A i \in 1 .. m : f[i] \in Nat

\* w2 is what w shows from a on.
Shows(w2, k2, w, a) == \A i \in 1 .. k2 : w2[i] = w[i + a]

\* What it says of each message.
Placed(s, f, m, g, w, k, base, tail) ==
  \A i \in g + 1 .. m :
    /\ f[i] \in Nat /\ s[i] \in Int /\ s[i] >= 1
    /\ s[i + 1] \in Int /\ s[i + 1] = s[i] + 1 + f[i] + tail
    /\ s[m + 1] \in Int /\ s[i] < s[m + 1] /\ s[i + 1] <= s[m + 1]
    /\ s[i] <= k => w[s[i]] = f[i] + base

LEMMA StartsAt ==
  ASSUME NEW m \in Nat, NEW g \in Nat, NEW k \in Nat, NEW base \in Nat, NEW tail \in Nat,
         NEW f, NEW w, NEW s, Sizes(f, m), Starts(s, f, m, g, w, k, base, tail)
  PROVE  Placed(s, f, m, g, w, k, base, tail)
<1> SUFFICES ASSUME NEW i \in g + 1 .. m
             PROVE  /\ f[i] \in Nat /\ s[i] \in Int /\ s[i] >= 1
                    /\ s[i + 1] \in Int /\ s[i + 1] = s[i] + 1 + f[i] + tail
                    /\ s[m + 1] \in Int /\ s[i] < s[m + 1] /\ s[i + 1] <= s[m + 1]
                    /\ s[i] <= k => w[s[i]] = f[i] + base
  BY DEF Placed
<1>1. i \in 1 .. m /\ i \in g + 1 .. m /\ i \in g + 1 .. m + 1 /\ i + 1 \in g + 1 .. m + 1
      /\ g + 1 \in g + 1 .. m + 1 /\ m + 1 \in g + 1 .. m + 1 /\ g + 1 <= i /\ i + 1 <= m + 1
      /\ i \in 1 .. m + 1 /\ i + 1 \in 1 .. m + 1 /\ m + 1 \in 1 .. m + 1
  OBVIOUS
<1>2. f[i] \in Nat
  BY <1>1 DEF Sizes
<1>3. s[i] \in Int /\ s[i + 1] \in Int /\ s[m + 1] \in Int
  BY <1>1 DEF Starts
<1>4. s[i + 1] = s[i] + 1 + f[i] + tail /\ (s[i] <= k => w[s[i]] = f[i] + base)
  BY <1>1 DEF Starts
<1>5. s[g + 1] = 1
  BY DEF Starts
<1>6. s[g + 1] <= s[i] /\ s[i + 1] <= s[m + 1]
  BY <1>1 DEF Starts
<1> QED BY <1>2, <1>3, <1>4, <1>5, <1>6

\* So they lie, the next message to come at x.
Further(f, m, g, w, k, base, tail, x) ==
  \E u : Starts(u, f, m, g, w, k, base, tail) /\ u[m + 1] = x

\* A message is sent: it begins where the wire ended.
LEMMA StartsSend ==
  ASSUME NEW m \in Nat, NEW g \in Nat, g <= m, NEW k \in Nat, NEW base \in Nat, NEW tail \in Nat,
         NEW f, NEW w, NEW s, Sizes(f, m), Starts(s, f, m, g, w, k, base, tail),
         k + 1 = s[m + 1],
         NEW n \in Nat, NEW f2, NEW w2, f2[m + 1] = n, Shows(f2, m, f, 0),
         w2[k + 1] = n + base, Shows(w2, k, w, 0)
  PROVE  Further(f2, m + 1, g, w2, k + 1 + n + tail, base, tail, k + 2 + n + tail)
<1>0. \A i \in g + 1 .. m :
        /\ f[i] \in Nat /\ s[i] \in Int /\ s[i] >= 1
        /\ s[i + 1] \in Int /\ s[i + 1] = s[i] + 1 + f[i] + tail
        /\ s[m + 1] \in Int /\ s[i] < s[m + 1] /\ s[i + 1] <= s[m + 1]
        /\ s[i] <= k => w[s[i]] = f[i] + base
  <2>1. Placed(s, f, m, g, w, k, base, tail)
    BY StartsAt
  <2> QED BY <2>1 DEF Placed
<1> DEFINE u == [i \in 1 .. m + 2 |-> IF i <= m + 1 THEN s[i] ELSE k + 1 + 1 + n + tail]
<1>1. s \in [1 .. m + 1 -> Int] /\ s[g + 1] = 1
  BY DEF Starts
<1>10. \A i, j \in g + 1 .. m + 1 : i <= j => s[i] <= s[j]
  BY DEF Starts
<1>2. /\ \A i \in 1 .. m + 1 : u[i] = s[i] /\ s[i] \in Int
      /\ u[m + 2] = k + 2 + n + tail /\ u \in [1 .. m + 2 -> Int]
  BY <1>1
<1> HIDE DEF u
<1>3. u[g + 1] = 1 /\ u[m + 1] = k + 1
  BY <1>1, <1>2
<1>4. \A i \in 1 .. m : f2[i] = f[i]
  BY DEF Shows
<1>5. ASSUME NEW i \in g + 1 .. m + 1 PROVE u[i + 1] = u[i] + 1 + f2[i] + tail
  <2>1. CASE i = m + 1
    <3>1. i + 1 = m + 2
      BY <2>1
    <3>2. u[i] = k + 1 /\ u[i + 1] = k + 2 + n + tail /\ f2[i] = n
      BY <1>2, <1>3, <2>1, <3>1
    <3> QED BY <3>2
  <2>2. CASE i # m + 1
    <3>1. i \in g + 1 .. m /\ i \in 1 .. m /\ i \in 1 .. m + 1 /\ i + 1 \in 1 .. m + 1
      BY <2>2
    <3>2. u[i] = s[i] /\ u[i + 1] = s[i + 1] /\ f2[i] = f[i]
      BY <1>2, <1>4, <3>1
    <3>3. s[i + 1] = s[i] + 1 + f[i] + tail
      BY <1>0, <2>2, <3>1
    <3> QED BY <3>2, <3>3
  <2> QED BY <2>1, <2>2
<1>6. ASSUME NEW i \in g + 1 .. m + 2, NEW j \in g + 1 .. m + 2, i <= j PROVE u[i] <= u[j]
  <2>1. CASE j # m + 2
    <3>1. i \in g + 1 .. m + 1 /\ j \in g + 1 .. m + 1 /\ i \in 1 .. m + 1 /\ j \in 1 .. m + 1
      BY <1>6, <2>1
    <3>2. u[i] = s[i] /\ u[j] = s[j]
      BY <1>2, <3>1
    <3> QED BY <1>6, <1>10, <3>1, <3>2
  <2>2. CASE j = m + 2 /\ i # m + 2
    <3>1. i \in g + 1 .. m + 1 /\ i \in 1 .. m + 1 /\ m + 1 \in g + 1 .. m + 1 /\ i <= m + 1
      BY <2>2
    <3>2. s[i] <= s[m + 1] /\ s[i] \in Int /\ u[i] = s[i]
      BY <1>2, <1>10, <3>1
    <3>3. u[i] <= k + 1
      BY <3>2
    <3>4. k + 1 <= k + 2 + n + tail
      OBVIOUS
    <3> QED BY <1>2, <2>2, <3>2, <3>3, <3>4
  <2>3. CASE j = m + 2 /\ i = m + 2
    BY <1>2, <2>3
  <2> QED BY <2>1, <2>2, <2>3
<1>7. ASSUME NEW i \in g + 1 .. m + 1, u[i] <= k + 1 + n + tail PROVE w2[u[i]] = f2[i] + base
  <2>1. CASE i = m + 1
    BY <1>3, <2>1
  <2>2. CASE i # m + 1
    <3>1. i \in g + 1 .. m /\ i \in 1 .. m /\ i \in 1 .. m + 1
      BY <2>2
    <3>2. u[i] = s[i] /\ f2[i] = f[i]
      BY <1>2, <1>4, <3>1
    <3>3. s[i] \in Int /\ s[i] >= 1 /\ s[i] < s[m + 1] /\ (s[i] <= k => w[s[i]] = f[i] + base)
      BY <1>0, <2>2, <3>1
    <3>4. s[i] \in 1 .. k /\ s[i] <= k /\ s[i] + 0 = s[i]
      BY <3>3
    <3>5. w2[s[i]] = w[s[i]]
      BY <3>4 DEF Shows
    <3> QED BY <3>2, <3>3, <3>4, <3>5
  <2> QED BY <2>1, <2>2
<1>8. k + 2 + n + tail = u[m + 2] /\ k + 1 + n + tail < u[m + 2] /\ (m + 1) + 1 = m + 2
  BY <1>2
<1>9. Starts(u, f2, m + 1, g, w2, k + 1 + n + tail, base, tail)
  <2>1. (m + 1) + 1 = m + 2
    OBVIOUS
  <2> QED BY <1>2, <1>3, <1>5, <1>6, <1>7, <1>8, <2>1 DEF Starts
<1> QED BY <1>8, <1>9 DEF Further

\* The capture is cut.
LEMMA StartsCut ==
  ASSUME NEW m \in Nat, NEW g \in Nat, g <= m, NEW k \in Nat, NEW base \in Nat, NEW tail \in Nat,
         NEW f, NEW w, NEW s, Sizes(f, m), Starts(s, f, m, g, w, k, base, tail),
         NEW c \in Nat, c <= k, NEW w2, Shows(w2, c, w, 0)
  PROVE  Starts(s, f, m, g, w2, c, base, tail)
<1>1. s \in [1 .. m + 1 -> Int] /\ k < s[m + 1] /\ m + 1 \in 1 .. m + 1
  BY DEF Starts
<1>2. c < s[m + 1]
  BY <1>1
<1>4. \A i \in g + 1 .. m : s[i] \in Int /\ s[i] >= 1 /\ (s[i] <= k => w[s[i]] = f[i] + base)
  <2>1. Placed(s, f, m, g, w, k, base, tail)
    BY StartsAt
  <2> QED BY <2>1 DEF Placed
<1>3. ASSUME NEW i \in g + 1 .. m, s[i] <= c PROVE w2[s[i]] = f[i] + base
  <2>1. s[i] \in Int /\ s[i] >= 1 /\ (s[i] <= k => w[s[i]] = f[i] + base)
    BY <1>4
  <2>2. s[i] \in 1 .. c /\ s[i] <= k /\ s[i] + 0 = s[i]
    BY <1>3, <2>1
  <2>3. w2[s[i]] = w[s[i]]
    BY <2>2 DEF Shows
  <2> QED BY <2>1, <2>2, <2>3
<1> QED BY <1>2, <1>3 DEF Starts

\* A whole message is taken from the front.
LEMMA StartsTake ==
  ASSUME NEW m \in Nat, NEW g \in Nat, g < m, NEW k \in Nat, NEW base \in Nat, NEW tail \in Nat,
         NEW f, NEW w, NEW s, Sizes(f, m), Starts(s, f, m, g, w, k, base, tail),
         NEW a \in Nat, a = 1 + f[g + 1] + tail, a <= k,
         NEW w2, Shows(w2, k - a, w, a)
  PROVE  Further(f, m, g + 1, w2, k - a, base, tail, s[m + 1] - a)
<1> DEFINE u == [i \in 1 .. m + 1 |-> s[i] - a]
<1>0. \A i \in g + 1 .. m :
        /\ f[i] \in Nat /\ s[i] \in Int /\ s[i] >= 1
        /\ s[i + 1] \in Int /\ s[i + 1] = s[i] + 1 + f[i] + tail
        /\ s[m + 1] \in Int /\ s[i] < s[m + 1] /\ s[i + 1] <= s[m + 1]
        /\ s[i] <= k => w[s[i]] = f[i] + base
  <2>1. Placed(s, f, m, g, w, k, base, tail)
    BY StartsAt
  <2> QED BY <2>1 DEF Placed
<1>1. s \in [1 .. m + 1 -> Int]
  BY DEF Starts
<1>9. s[g + 1] = 1 /\ k < s[m + 1]
  BY DEF Starts
<1>10. \A i, j \in g + 1 .. m + 1 : i <= j => s[i] <= s[j]
  BY DEF Starts
<1>2. (\A i \in 1 .. m + 1 : u[i] = s[i] - a /\ s[i] \in Int) /\ u \in [1 .. m + 1 -> Int]
  <2>1. \A i \in 1 .. m + 1 : s[i] \in Int
    BY <1>1
  <2>2. \A i \in 1 .. m + 1 : s[i] - a \in Int
    BY <2>1
  <2> QED BY <2>1, <2>2
<1> HIDE DEF u
<1>3. s[g + 2] = 1 + a /\ u[g + 2] = 1
  <2>1. s[g + 2] = s[g + 1] + 1 + f[g + 1] + tail /\ f[g + 1] \in Nat
    <3>1. g + 1 \in g + 1 .. m /\ (g + 1) + 1 = g + 2
      OBVIOUS
    <3>2. s[(g + 1) + 1] = s[g + 1] + 1 + f[g + 1] + tail /\ f[g + 1] \in Nat
      BY <1>0, <3>1
    <3> QED BY <3>1, <3>2
  <2>2. s[g + 2] = 1 + a
    BY <1>9, <2>1
  <2>3. g + 2 \in 1 .. m + 1
    OBVIOUS
  <2> QED BY <1>2, <2>2, <2>3
<1>4. ASSUME NEW i \in g + 2 .. m PROVE u[i + 1] = u[i] + 1 + f[i] + tail
  <2>1. i \in g + 1 .. m /\ i \in 1 .. m + 1 /\ i + 1 \in 1 .. m + 1
    OBVIOUS
  <2>2. u[i] = s[i] - a /\ u[i + 1] = s[i + 1] - a
    BY <1>2, <2>1
  <2>3. s[i + 1] = s[i] + 1 + f[i] + tail /\ s[i] \in Int /\ f[i] \in Nat
    BY <1>0, <2>1
  <2> QED BY <2>2, <2>3
<1>5. ASSUME NEW i \in g + 2 .. m + 1, NEW j \in g + 2 .. m + 1, i <= j PROVE u[i] <= u[j]
  <2>1. i \in g + 1 .. m + 1 /\ j \in g + 1 .. m + 1 /\ i \in 1 .. m + 1 /\ j \in 1 .. m + 1
    OBVIOUS
  <2>2. s[i] <= s[j]
    BY <1>5, <1>10, <2>1
  <2>3. u[i] = s[i] - a /\ u[j] = s[j] - a /\ s[i] \in Int /\ s[j] \in Int
    BY <1>2, <2>1
  <2> QED BY <2>2, <2>3
<1>6. ASSUME NEW i \in g + 2 .. m, u[i] <= k - a PROVE w2[u[i]] = f[i] + base
  <2>1. i \in g + 1 .. m /\ i \in 1 .. m + 1 /\ i \in g + 1 .. m + 1
        /\ g + 2 \in g + 1 .. m + 1 /\ g + 2 <= i
    OBVIOUS
  <2>2. u[i] = s[i] - a /\ s[i] \in Int
    BY <1>2, <2>1
  <2>3. s[g + 2] <= s[i]
    BY <1>10, <2>1
  <2>4. u[i] \in Int /\ u[i] >= 1 /\ u[i] + a = s[i] /\ s[i] <= k
    BY <1>3, <1>6, <2>2, <2>3
  <2>5. u[i] \in 1 .. k - a
    BY <1>6, <2>4
  <2>6. w[s[i]] = f[i] + base
    BY <1>0, <2>1, <2>4
  <2>7. w2[u[i]] = w[u[i] + a]
    BY <2>5 DEF Shows
  <2> QED BY <2>4, <2>6, <2>7
<1>7. u[m + 1] = s[m + 1] - a /\ k - a < u[m + 1]
  <2>1. m + 1 \in 1 .. m + 1
    OBVIOUS
  <2>2. u[m + 1] = s[m + 1] - a /\ s[m + 1] \in Int
    BY <1>2, <2>1
  <2> QED BY <1>9, <2>2
<1>8. Starts(u, f, m, g + 1, w2, k - a, base, tail)
  <2>1. (g + 1) + 1 = g + 2
    OBVIOUS
  <2> QED BY <1>2, <1>3, <1>4, <1>5, <1>6, <1>7, <2>1 DEF Starts
<1> QED BY <1>7, <1>8 DEF Further

FramesTyped ==
  /\ frameProto \in W!Protocols
  /\ framed \in Seq(Nat) /\ got \in Seq(Nat) /\ frameWire \in Seq(Int) /\ open \in BOOLEAN
  /\ frameAt \in {"reading", "stopped"}
  /\ Len(got) <= Len(framed) /\ \A i \in 1 .. Len(got) : got[i] = framed[i]

\* The messages not taken yet lie on the wire, which holds all of them while the
\* direction is open.
Laid(s) ==
  /\ Starts(s, framed, Len(framed), Len(got), frameWire, Len(frameWire), frameProto.base, frameProto.tail)
  /\ open => Len(frameWire) + 1 = s[Len(framed) + 1]

FramesSafe ==
  /\ FramesTyped
  /\ frameAt = "reading" => \E s : Laid(s)
  /\ frameAt = "stopped" /\ open =>
       /\ Len(got) < Len(framed)
       /\ ~ framed[Len(got) + 1] \in frameProto.least .. frameProto.most

LEMMA FramesSizes ==
  ASSUME FramesTyped
  PROVE  /\ Len(framed) \in Nat /\ Len(got) \in Nat /\ Len(frameWire) \in Nat /\ Len(got) <= Len(framed)
         /\ frameProto.base \in Nat /\ frameProto.tail \in Nat /\ frameProto.keep \in Nat
         /\ Sizes(framed, Len(framed)) /\ framed \in Seq(Nat) /\ frameWire \in Seq(Int)
         /\ got \in Seq(Nat)
<1>1. framed \in Seq(Nat) /\ frameWire \in Seq(Int) /\ got \in Seq(Nat)
  BY DEF FramesTyped
<1>2. Len(framed) \in Nat /\ Len(got) \in Nat /\ Len(frameWire) \in Nat
  BY <1>1
<1>3. Sizes(framed, Len(framed))
  BY <1>1 DEF Sizes
<1>4. frameProto.base \in Nat /\ frameProto.tail \in Nat /\ frameProto.keep \in Nat
  BY ProtocolTyped DEF FramesTyped
<1> QED BY <1>1, <1>2, <1>3, <1>4 DEF FramesTyped

LEMMA FramesInit == W!Init => FramesSafe
<1> SUFFICES ASSUME W!Init PROVE FramesSafe
  OBVIOUS
<1>1. FramesTyped /\ Len(framed) = 0 /\ Len(got) = 0 /\ Len(frameWire) = 0 /\ frameAt = "reading"
  BY DEF W!Init, FramesTyped
<1> DEFINE s == [i \in 1 .. 1 |-> 1]
<1>2. s[1] = 1 /\ s \in [1 .. 1 -> Int]
  OBVIOUS
<1> HIDE DEF s
<1>3. Laid(s)
  BY <1>1, <1>2 DEF Laid, Starts
<1> QED BY <1>1, <1>3 DEF FramesSafe

\* The message at the front, when one is there.
LEMMA FrontMessage ==
  ASSUME FramesTyped, NEW s, Laid(s), frameWire # <<>>
  PROVE  /\ Len(got) < Len(framed) /\ Len(frameWire) >= 1
         /\ framed[Len(got) + 1] \in Nat
         /\ frameWire[1] = framed[Len(got) + 1] + frameProto.base
         /\ W!Declared = framed[Len(got) + 1]
         /\ s[Len(got) + 2] = 2 + framed[Len(got) + 1] + frameProto.tail
<1> DEFINE m == Len(framed)
           g == Len(got)
           k == Len(frameWire)
<1>1. m \in Nat /\ g \in Nat /\ k \in Nat /\ g <= m /\ k >= 1
      /\ frameProto.base \in Nat /\ frameProto.tail \in Nat
  BY FramesSizes
<1>2. s[g + 1] = 1 /\ k < s[m + 1]
  BY DEF Laid, Starts
<1>3. Placed(s, framed, m, g, frameWire, k, frameProto.base, frameProto.tail)
  BY FramesSizes, StartsAt DEF Laid
<1> HIDE DEF m, g, k
<1>4. g < m
  <2>1. g # m
    BY <1>1, <1>2
  <2> QED BY <1>1, <2>1
<1>5. g + 1 \in g + 1 .. m /\ (g + 1) + 1 = g + 2
  BY <1>1, <1>4
<1>6. framed[g + 1] \in Nat /\ s[g + 2] = s[g + 1] + 1 + framed[g + 1] + frameProto.tail
      /\ (s[g + 1] <= k => frameWire[s[g + 1]] = framed[g + 1] + frameProto.base)
  BY <1>3, <1>5 DEF Placed
<1>7. frameWire[1] = framed[g + 1] + frameProto.base
  BY <1>1, <1>2, <1>6
<1>8. s[g + 2] = 2 + framed[g + 1] + frameProto.tail
  BY <1>1, <1>2, <1>6
<1>9. W!Declared = framed[g + 1]
  BY <1>1, <1>6, <1>7 DEF W!Declared
<1> QED BY <1>1, <1>4, <1>6, <1>7, <1>8, <1>9 DEF m, g, k

\* What a sender adds, what a cut leaves and what a reader leaves.
Grown(w2, w, n, base, tail) ==
  /\ w2 \in Seq(Int) /\ Len(w2) = Len(w) + 1 + n + tail
  /\ w2[Len(w) + 1] = n + base /\ Shows(w2, Len(w), w, 0)

LEMMA WireGrows ==
  ASSUME NEW w \in Seq(Int), NEW n \in Nat, NEW base \in Nat, NEW tail \in Nat
  PROVE  Grown(w \o W!Header(n + base) \o W!Payload(n) \o W!Trailer(tail), w, n, base, tail)
<1> DEFINE h == W!Header(n + base)
           p == W!Payload(n)
           t == W!Trailer(tail)
           w1 == w \o h
           w2 == w1 \o p
           w3 == w2 \o t
<1>1. h \in Seq(Int) /\ Len(h) = 1 /\ h[1] = n + base
  BY DEF W!Header
<1>2. p \in Seq(Int) /\ Len(p) = n
  BY DEF W!Payload, W!Byte
<1>3. t \in Seq(Int) /\ Len(t) = tail
  BY DEF W!Trailer, W!End
<1>4. Len(w) \in Nat
  OBVIOUS
<1> HIDE DEF h, p, t
<1>5. w1 \in Seq(Int) /\ Len(w1) = Len(w) + Len(h)
      /\ \A i \in 1 .. Len(w) + Len(h) : w1[i] = IF i <= Len(w) THEN w[i] ELSE h[i - Len(w)]
  <2>1. w \in Seq(Int) /\ h \in Seq(Int)
    BY <1>1
  <2> QED BY <2>1, ConcatProperties
<1> HIDE DEF w1
<1>6. w2 \in Seq(Int) /\ Len(w2) = Len(w1) + Len(p)
      /\ \A i \in 1 .. Len(w1) + Len(p) : w2[i] = IF i <= Len(w1) THEN w1[i] ELSE p[i - Len(w1)]
  <2>1. w1 \in Seq(Int) /\ p \in Seq(Int)
    BY <1>2, <1>5
  <2> QED BY <2>1, ConcatProperties
<1> HIDE DEF w2
<1>7. w3 \in Seq(Int) /\ Len(w3) = Len(w2) + Len(t)
      /\ \A i \in 1 .. Len(w2) + Len(t) : w3[i] = IF i <= Len(w2) THEN w2[i] ELSE t[i - Len(w2)]
  <2>1. w2 \in Seq(Int) /\ t \in Seq(Int)
    BY <1>3, <1>6
  <2> QED BY <2>1, ConcatProperties
<1> HIDE DEF w3
<1>8. \A i \in 1 .. Len(w) + 1 : w3[i] = w1[i]
  <2> TAKE i \in 1 .. Len(w) + 1
  <2>1. Len(w1) = Len(w) + 1 /\ Len(p) \in Nat /\ Len(t) \in Nat
    BY <1>1, <1>2, <1>3, <1>5
  <2>2. Len(w2) = Len(w) + 1 + Len(p)
    BY <1>6, <2>1
  <2>3. i \in 1 .. Len(w1) + Len(p) /\ i <= Len(w1) /\ i \in 1 .. Len(w2) + Len(t) /\ i <= Len(w2)
    BY <1>4, <2>1, <2>2
  <2> QED BY <1>6, <1>7, <2>3
<1>9. w3[Len(w) + 1] = n + base
  <2>1. Len(w) + 1 \in 1 .. Len(w) + 1 /\ ~(Len(w) + 1 <= Len(w)) /\ (Len(w) + 1) - Len(w) = 1
    BY <1>4
  <2>2. Len(w) + 1 \in 1 .. Len(w) + Len(h)
    BY <1>1, <1>4
  <2>3. w1[Len(w) + 1] = h[1]
    BY <1>5, <2>1, <2>2
  <2> QED BY <1>1, <1>8, <2>1, <2>3
<1>10. Shows(w3, Len(w), w, 0)
  <2> SUFFICES ASSUME NEW i \in 1 .. Len(w) PROVE w3[i] = w[i + 0]
    BY DEF Shows
  <2>1. i \in 1 .. Len(w) + 1 /\ i \in 1 .. Len(w) + Len(h) /\ i <= Len(w) /\ i + 0 = i
    BY <1>1, <1>4
  <2> QED BY <1>5, <1>8, <2>1
<1>11. Len(w3) = Len(w) + 1 + n + tail
  BY <1>1, <1>2, <1>3, <1>4, <1>5, <1>6, <1>7
<1> QED BY <1>7, <1>9, <1>10, <1>11 DEF Grown, w3, w2, w1, h, p, t

LEMMA WirePart ==
  ASSUME NEW w \in Seq(Int), NEW a \in 0 .. Len(w), NEW c \in a .. Len(w)
  PROVE  LET w2 == SubSeq(w, a + 1, c)
         IN  w2 \in Seq(Int) /\ Len(w2) = c - a /\ Shows(w2, c - a, w, a)
<1>1. \A i \in a + 1 .. c : w[i] \in Int
  OBVIOUS
<1>2. a \in Int /\ c \in Int /\ a + 1 \in Int
  OBVIOUS
<1>3. /\ SubSeq(w, a + 1, c) \in Seq(Int)
      /\ Len(SubSeq(w, a + 1, c)) = IF a + 1 <= c THEN c - (a + 1) + 1 ELSE 0
      /\ \A i \in 1 .. c - (a + 1) + 1 : SubSeq(w, a + 1, c)[i] = w[(a + 1) + i - 1]
  BY <1>1, <1>2, SubSeqProperties
<1> DEFINE w2 == SubSeq(w, a + 1, c)
<1> HIDE DEF w2
<1>4. Len(w2) = c - a
  BY <1>2, <1>3 DEF w2
<1>5. ASSUME NEW i \in 1 .. c - a PROVE w2[i] = w[i + a]
  <2>1. i \in 1 .. c - (a + 1) + 1 /\ (a + 1) + i - 1 = i + a
    BY <1>2
  <2> QED BY <1>3, <2>1 DEF w2
<1> QED BY <1>3, <1>4, <1>5 DEF w2, Shows

LEMMA FramesSend == ASSUME FramesSafe, W!SendMessage PROVE FramesSafe'
<1>1. PICK n \in 0 .. MaxSize :
        /\ framed' = Append(framed, n)
        /\ frameWire' = frameWire \o W!Header(n + frameProto.base) \o W!Payload(n)
                          \o W!Trailer(frameProto.tail)
  BY DEF W!SendMessage
<1>2. FramesTyped /\ open = TRUE /\ UNCHANGED <<frameProto, open, got, frameAt>>
  BY DEF FramesSafe, FramesTyped, W!SendMessage
<1> DEFINE m == Len(framed)
           g == Len(got)
           k == Len(frameWire)
           base == frameProto.base
           tail == frameProto.tail
<1>3. /\ m \in Nat /\ g \in Nat /\ k \in Nat /\ g <= m /\ base \in Nat /\ tail \in Nat
      /\ Sizes(framed, m) /\ framed \in Seq(Nat) /\ frameWire \in Seq(Int) /\ got \in Seq(Nat)
  BY <1>2, FramesSizes
<1>4. n \in Nat
  <2>1. MaxSize \in Nat
    BY CaptureAssumption DEF W!FramingAssumption
  <2> QED BY <2>1
<1>5. /\ framed' \in Seq(Nat) /\ Len(framed') = m + 1 /\ framed'[m + 1] = n
      /\ \A i \in 1 .. m : framed'[i] = framed[i]
  BY <1>1, <1>3, <1>4, AppendProperties
<1>6. /\ frameWire' \in Seq(Int) /\ Len(frameWire') = k + 1 + n + tail
      /\ frameWire'[k + 1] = n + base /\ Shows(frameWire', k, frameWire, 0)
  <2>1. Grown(frameWire', frameWire, n, base, tail)
    BY <1>1, <1>3, <1>4, WireGrows
  <2> QED BY <2>1 DEF Grown
<1>7. FramesTyped'
  <2>1. \A i \in 1 .. Len(got) : got[i] = framed'[i]
    <3> TAKE i \in 1 .. Len(got)
    <3>1. i \in 1 .. m
      BY <1>3
    <3>2. got[i] = framed[i]
      BY <1>2 DEF FramesTyped
    <3> QED BY <1>5, <3>1, <3>2
  <2>2. Len(got) <= Len(framed')
    BY <1>3, <1>5
  <2> QED BY <1>2, <1>3, <1>5, <1>6, <2>1, <2>2 DEF FramesTyped
<1>8. ASSUME frameAt = "reading" PROVE (\E s : Laid(s))'
  <2>1. PICK s : Laid(s)
    BY <1>8 DEF FramesSafe
  <2>2. Starts(s, framed, m, g, frameWire, k, base, tail) /\ k + 1 = s[m + 1]
    BY <1>2, <2>1 DEF Laid
  <2>3. Shows(framed', m, framed, 0)
    <3> SUFFICES ASSUME NEW i \in 1 .. m PROVE framed'[i] = framed[i + 0]
      BY DEF Shows
    <3>1. i + 0 = i
      BY <1>3
    <3> QED BY <1>5, <3>1
  <2> HIDE DEF m, g, k, base, tail
  <2>4. Further(framed', m + 1, g, frameWire', k + 1 + n + tail, base, tail, k + 2 + n + tail)
    BY <1>3, <1>4, <1>5, <1>6, <2>2, <2>3, StartsSend
  <2>5. PICK u : /\ Starts(u, framed', m + 1, g, frameWire', k + 1 + n + tail, base, tail)
                 /\ u[(m + 1) + 1] = k + 2 + n + tail
    BY <2>4 DEF Further
  <2>6. Len(framed') = m + 1 /\ Len(frameWire') = k + 1 + n + tail /\ Len(got') = g
        /\ frameProto'.base = base /\ frameProto'.tail = tail
    BY <1>2, <1>5, <1>6 DEF g, base, tail
  <2>7. k + 2 + n + tail = (k + 1 + n + tail) + 1
    BY <1>3, <1>4
  <2>8. Laid(u)'
    BY <2>5, <2>6, <2>7 DEF Laid
  <2> QED BY <2>8
<1>9. ASSUME frameAt = "stopped"
      PROVE  /\ Len(got) < Len(framed')
             /\ ~ framed'[Len(got) + 1] \in frameProto.least .. frameProto.most
  <2>1. Len(got) < Len(framed) /\ ~ framed[Len(got) + 1] \in frameProto.least .. frameProto.most
    BY <1>2, <1>9 DEF FramesSafe
  <2>2. Len(got) + 1 \in 1 .. m /\ Len(got) < m + 1
    BY <1>3, <2>1
  <2> QED BY <1>5, <2>1, <2>2
<1> QED BY <1>2, <1>7, <1>8, <1>9 DEF FramesSafe

LEMMA FramesCut == ASSUME FramesSafe, W!CutOff PROVE FramesSafe'
<1>1. PICK c \in 0 .. Len(frameWire) : frameWire' = SubSeq(frameWire, 1, c)
  BY DEF W!CutOff
<1>2. FramesTyped /\ open' = FALSE /\ UNCHANGED <<frameProto, framed, got, frameAt>>
  BY DEF FramesSafe, W!CutOff
<1> DEFINE m == Len(framed)
           g == Len(got)
           k == Len(frameWire)
           base == frameProto.base
           tail == frameProto.tail
<1>3. /\ m \in Nat /\ g \in Nat /\ k \in Nat /\ g <= m /\ base \in Nat /\ tail \in Nat
      /\ Sizes(framed, m) /\ framed \in Seq(Nat) /\ frameWire \in Seq(Int)
  BY <1>2, FramesSizes
<1>4. c \in Nat /\ c <= k /\ 0 \in 0 .. k /\ 0 + 1 = 1 /\ c - 0 = c
  BY <1>3
<1>5. frameWire' \in Seq(Int) /\ Len(frameWire') = c /\ Shows(frameWire', c, frameWire, 0)
  BY <1>1, <1>3, <1>4, WirePart
<1>6. FramesTyped'
  BY <1>2, <1>5 DEF FramesTyped
<1>7. ASSUME frameAt = "reading" PROVE (\E s : Laid(s))'
  <2>1. PICK s : Laid(s)
    BY <1>7 DEF FramesSafe
  <2>2. Starts(s, framed, m, g, frameWire, k, base, tail)
    BY <2>1 DEF Laid
  <2> HIDE DEF m, g, k, base, tail
  <2>3. Starts(s, framed, m, g, frameWire', c, base, tail)
    BY <1>3, <1>4, <1>5, <2>2, StartsCut
  <2>4. Laid(s)'
    BY <1>2, <1>5, <2>3 DEF Laid, m, g, base, tail
  <2> QED BY <2>4
<1> QED BY <1>2, <1>6, <1>7 DEF FramesSafe

\* Taking a message.
LEMMA GotGrows ==
  ASSUME FramesTyped, Len(got) < Len(framed)
  PROVE  LET got2 == Append(got, framed[Len(got) + 1])
         IN  /\ got2 \in Seq(Nat) /\ Len(got2) = Len(got) + 1 /\ Len(got2) <= Len(framed)
             /\ \A i \in 1 .. Len(got2) : got2[i] = framed[i]
<1>1. Len(got) \in Nat /\ Len(framed) \in Nat /\ got \in Seq(Nat) /\ framed \in Seq(Nat)
  BY FramesSizes
<1>2. framed[Len(got) + 1] \in Nat
  BY <1>1
<1> DEFINE got2 == Append(got, framed[Len(got) + 1])
<1>3. /\ got2 \in Seq(Nat) /\ Len(got2) = Len(got) + 1
      /\ \A i \in 1 .. Len(got) : got2[i] = got[i]
      /\ got2[Len(got) + 1] = framed[Len(got) + 1]
  BY <1>1, <1>2, AppendProperties
<1> HIDE DEF got2
<1>4. ASSUME NEW i \in 1 .. Len(got2) PROVE got2[i] = framed[i]
  <2>1. CASE i = Len(got) + 1
    BY <1>3, <2>1
  <2>2. CASE i # Len(got) + 1
    <3>1. i \in 1 .. Len(got)
      BY <1>1, <1>3, <2>2
    <3> QED BY <1>3, <3>1 DEF FramesTyped
  <2> QED BY <2>1, <2>2
<1>5. Len(got2) <= Len(framed)
  BY <1>1, <1>3
<1> QED BY <1>3, <1>4, <1>5 DEF got2

LEMMA AllRead == ASSUME NEW d \in Nat, NEW x \in Nat, NEW t \in Nat PROVE 1 + x + (d - x + t) = 1 + d + t
OBVIOUS

LEMMA FramesRead == ASSUME FramesSafe, W!ReadMessage PROVE FramesSafe'
<1> DEFINE m == Len(framed)
           g == Len(got)
           k == Len(frameWire)
           base == frameProto.base
           tail == frameProto.tail
           d == framed[g + 1]
           a == 1 + d + tail
<1>1. FramesTyped /\ frameAt = "reading" /\ frameWire # <<>>
      /\ UNCHANGED <<frameProto, framed, open, frameAt>>
  BY DEF FramesSafe, W!ReadMessage
<1>2. PICK s : Laid(s)
  BY <1>1 DEF FramesSafe
<1>3. /\ m \in Nat /\ g \in Nat /\ k \in Nat /\ g <= m /\ base \in Nat /\ tail \in Nat
      /\ Sizes(framed, m) /\ framed \in Seq(Nat) /\ frameWire \in Seq(Int) /\ frameProto.keep \in Nat
  BY <1>1, FramesSizes
<1>4. g < m /\ d \in Nat /\ W!Declared = d
  BY <1>1, <1>2, FrontMessage
<1>5. k >= a /\ got' = Append(got, d) /\ frameWire' = SubSeq(frameWire, a + 1, k)
  <2>1. /\ kept' = IF W!Declared > frameProto.keep THEN frameProto.keep ELSE W!Declared
        /\ Len(frameWire) >= 1 + kept' + W!ToSkip
        /\ got' = Append(got, W!Declared)
        /\ frameWire' = SubSeq(frameWire, (1 + kept' + W!ToSkip) + 1, Len(frameWire))
    BY DEF W!ReadMessage
  <2> HIDE DEF d
  <2>2. kept' \in Nat
    BY <1>3, <1>4, <2>1
  <2>3. 1 + kept' + W!ToSkip = a
    <3>1. W!ToSkip = d - kept' + tail
      BY <1>4 DEF W!ToSkip
    <3>2. d \in Nat /\ tail \in Nat
      BY <1>3, <1>4
    <3>3. 1 + kept' + (d - kept' + tail) = 1 + d + tail
      BY <2>2, <3>2, AllRead
    <3> QED BY <3>1, <3>3
  <2> QED BY <1>4, <2>1, <2>3
<1>6. a \in Nat /\ a \in 0 .. k /\ k \in a .. k
  <2>1. d \in Nat /\ tail \in Nat /\ k \in Nat
    BY <1>3, <1>4
  <2>2. k >= a
    BY <1>5
  <2> HIDE DEF d, tail, k
  <2> QED BY <2>1, <2>2
<1>7. frameWire' \in Seq(Int) /\ Len(frameWire') = k - a /\ Shows(frameWire', k - a, frameWire, a)
  BY <1>3, <1>5, <1>6, WirePart
<1>8. /\ got' \in Seq(Nat) /\ Len(got') = g + 1 /\ g + 1 <= m
      /\ \A i \in 1 .. Len(got') : got'[i] = framed[i]
  BY <1>1, <1>4, <1>5, GotGrows
<1>9. FramesTyped'
  BY <1>1, <1>7, <1>8 DEF FramesTyped
<1>10. (\E u : Laid(u))'
  <2>1. Starts(s, framed, m, g, frameWire, k, base, tail) /\ (open => k + 1 = s[m + 1])
    BY <1>2 DEF Laid
  <2>2. a = 1 + framed[g + 1] + tail /\ a <= k
    BY <1>3, <1>5, <1>6
  <2> HIDE DEF m, g, k, base, tail, a
  <2>6. Further(framed, m, g + 1, frameWire', k - a, base, tail, s[m + 1] - a)
    BY <1>3, <1>4, <1>6, <1>7, <2>1, <2>2, StartsTake
  <2>3. PICK u : Starts(u, framed, m, g + 1, frameWire', k - a, base, tail) /\ u[m + 1] = s[m + 1] - a
    BY <2>6 DEF Further
  <2>4. open => (k - a) + 1 = u[m + 1]
    <3> SUFFICES ASSUME open PROVE (k - a) + 1 = u[m + 1]
      OBVIOUS
    <3>1. k + 1 = s[m + 1]
      BY <2>1
    <3> QED BY <1>3, <1>6, <2>3, <3>1
  <2>5. Laid(u)'
    BY <1>1, <1>7, <1>8, <2>3, <2>4 DEF Laid, m, base, tail
  <2> QED BY <2>5
<1> QED BY <1>1, <1>9, <1>10 DEF FramesSafe

LEMMA FramesStop == ASSUME FramesSafe, W!Stop PROVE FramesSafe'
<1>1. FramesTyped /\ frameAt = "reading" /\ frameAt' = "stopped" /\ frameWire' = <<>>
      /\ UNCHANGED <<frameProto, framed, open>>
  BY DEF FramesSafe, W!Stop
<1>2. PICK s : Laid(s)
  BY <1>1 DEF FramesSafe
<1>3. CASE got' = got
  <2>1. FramesTyped'
    BY <1>1, <1>3 DEF FramesTyped
  <2>2. ASSUME open
        PROVE  /\ Len(got) < Len(framed)
               /\ ~ framed[Len(got) + 1] \in frameProto.least .. frameProto.most
    <3>1. frameWire # <<>> /\ W!BadLength
      BY <2>2 DEF W!Stop, W!Starved
    <3>2. Len(got) < Len(framed) /\ W!Declared = framed[Len(got) + 1]
      BY <1>1, <1>2, <3>1, FrontMessage
    <3> QED BY <3>1, <3>2 DEF W!BadLength
  <2> QED BY <1>1, <1>3, <2>1, <2>2 DEF FramesSafe
<1>4. CASE got' # got
  <2>1. frameWire # <<>> /\ ~W!BadLength /\ got' = Append(got, W!Declared)
    BY <1>4 DEF W!Stop
  <2>2. ~open
    BY <2>1 DEF W!Stop, W!Starved
  <2>3. Len(got) < Len(framed) /\ W!Declared = framed[Len(got) + 1]
    BY <1>1, <1>2, <2>1, FrontMessage
  <2>4. /\ got' \in Seq(Nat) /\ Len(got') <= Len(framed)
        /\ \A i \in 1 .. Len(got') : got'[i] = framed[i]
    BY <1>1, <2>1, <2>3, GotGrows
  <2>5. FramesTyped'
    BY <1>1, <2>4 DEF FramesTyped
  <2> QED BY <1>1, <2>2, <2>5 DEF FramesSafe
<1> QED BY <1>3, <1>4

LEMMA FramesNext == ASSUME FramesSafe, W!Next \/ UNCHANGED frameVars PROVE FramesSafe'
<1>1. CASE W!SendMessage
  BY <1>1, FramesSend
<1>2. CASE W!CutOff
  BY <1>2, FramesCut
<1>3. CASE W!ReadMessage
  BY <1>3, FramesRead
<1>4. CASE W!Stop
  BY <1>4, FramesStop
<1>5. CASE UNCHANGED frameVars
  BY <1>5 DEF frameVars, FramesSafe, FramesTyped, Laid
<1> QED BY <1>1, <1>2, <1>3, <1>4, <1>5 DEF W!Next

LEMMA FramesImply == ASSUME FramesSafe PROVE W!StaysFramed /\ W!StopsOnlyOnBadSize
<1>1. FramesTyped
  BY DEF FramesSafe
<1>2. W!IsPrefix(got, framed)
  <2>1. Len(got) \in Nat /\ Len(framed) \in Nat /\ Len(got) <= Len(framed)
    BY <1>1, FramesSizes
  <2>2. \A i \in 1 .. Len(got) : got[i] = framed[i]
    BY <1>1 DEF FramesTyped
  <2>3. SubSeq(got, 1, Len(got)) = SubSeq(framed, 1, Len(got))
    BY <2>1, <2>2
  <2> QED BY <2>1, <2>3 DEF W!IsPrefix
<1>3. ASSUME frameAt = "reading", frameWire # <<>> PROVE frameWire[1] \notin {W!Byte, W!End}
  <2>1. PICK s : Laid(s)
    BY <1>3 DEF FramesSafe
  <2>2. frameWire[1] \in Nat
    <3>1. frameWire[1] = framed[Len(got) + 1] + frameProto.base /\ framed[Len(got) + 1] \in Nat
      BY <1>1, <1>3, <2>1, FrontMessage
    <3>2. frameProto.base \in Nat
      BY <1>1, FramesSizes
    <3> QED BY <3>1, <3>2
  <2> QED BY <2>2 DEF W!Byte, W!End
<1>4. W!StopsOnlyOnBadSize
  BY DEF FramesSafe, W!StopsOnlyOnBadSize
<1> QED BY <1>2, <1>3, <1>4 DEF W!StaysFramed

\* What a dissector takes are the messages sent, in order, whatever their sizes
\* and wherever the capture ends; its next read begins at a header; and nothing
\* but a size that no message may have stops it before the end of the direction
\* (dissect_kafka.go:112-135, dissect_amqp.go:160-190 and the others).
THEOREM FramingCorrect == MCSpec => []DissectorsStayFramed
<1> DEFINE Safe == part = "frames" => FramesSafe
<1>1. MCInit => Safe
  <2>1. ASSUME MCInit, part = "frames" PROVE W!Init
    BY <2>1 DEF MCInit
  <2> QED BY <2>1, FramesInit
<1>2. Safe /\ [MCNext]_captureVars => Safe'
  <2> SUFFICES ASSUME Safe, [MCNext]_captureVars,
                      part' = "frames"
               PROVE  FramesSafe'
    OBVIOUS
  <2>1. part = "frames" /\ FramesSafe
    BY DEF MCNext, captureVars
  <2>2. W!Next \/ UNCHANGED frameVars
    BY <2>1 DEF MCNext, captureVars, dissectorVars
  <2> QED BY <2>1, <2>2, FramesNext
<1>3. Safe => DissectorsStayFramed
  BY FramesImply DEF DissectorsStayFramed
<1> QED BY <1>1, <1>2, <1>3, PTL DEF MCSpec, captureVars

-----------------------------------------------------------------------------
(* Replies in order (ReplyPairing).                                        *)

\* The commands up to the first that the dissectors do not follow.
Followed == IF R!FirstAwkward = 0 THEN Len(issued) ELSE R!FirstAwkward - 1

\* What the server answers, and the answers that are followed.
AnswersTo == [n \in 1 .. Len(issued) |-> R!Answers[issued[n]]]

FollowedAnswers ==
  CASE replyProto = "mysql" ->
         {<<>>, <<"OK">>, <<"ERR">>, <<"cols", "def", "EOF", "row", "EOF">>,
          <<"cols", "def", "row", "END">>}
    [] replyProto = "postgres" -> {<<"T", "D", "C", "Z">>, <<"I", "Z">>, <<"E", "Z">>}
    [] replyProto = "redis" -> {<<"bulk">>, <<"array">>}

\* The messages of a server, but for the one that refuses TLS.
ReplyKinds ==
  {"OK", "ERR", "cols", "def", "EOF", "row", "END", "LONGEND", "greeting", "more",
   "T", "D", "C", "Z", "I", "E", "s", "R", "bulk", "array", "push", "message"}

\* How often a command is put in the queue.
TimesQueued(k) == CASE replyProto = "mysql" -> R!mysqlRequests(k)
                 [] replyProto = "postgres" -> R!pgRequests(k)
                 [] replyProto = "redis" -> R!redisRequests(k)

LEMMA MysqlAnswers ==
  ASSUME replyProto = "mysql", dialect \in {"eof", "okEnd", "longEnd"},
         NEW k \in DOMAIN R!Answers
  PROVE  /\ R!Answers[k] \in Seq(ReplyKinds) /\ TimesQueued(k) \in {0, 1, 2}
         /\ ~ R!Awkward(k) =>
              /\ R!Answers[k] \in FollowedAnswers
              /\ TimesQueued(k) = IF R!Answers[k] = <<>> THEN 0 ELSE 1
<1>1. R!Answers = R!mysqlAnswers(dialect)
  BY DEF R!Answers
<1>2. k \in {"ok", "err", "rows", "prepare", "close", "reset", "multi"}
  BY <1>1 DEF R!mysqlAnswers
<1>3. FollowedAnswers = {<<>>, <<"OK">>, <<"ERR">>, <<"cols", "def", "EOF", "row", "EOF">>,
          <<"cols", "def", "row", "END">>}
  BY DEF FollowedAnswers
<1>4. TimesQueued(k) = IF k \in {"close", "reset"} THEN 0 ELSE 1
  BY DEF TimesQueued, R!mysqlRequests
<1>5. \A a, b, c, d, e \in ReplyKinds :
        {<<>>, <<a>>, <<a, b>>, <<a, b, c>>, <<a, b, c, d>>, <<a, b, c, d, e>>}
          \subseteq Seq(ReplyKinds)
  OBVIOUS
<1>6. {"OK", "ERR", "cols", "def", "EOF", "row", "END", "LONGEND"} \subseteq ReplyKinds
  BY DEF ReplyKinds
<1>7. ASSUME k \in {"prepare", "reset", "multi"} PROVE R!Awkward(k)
  BY <1>7 DEF R!Awkward
<1>8. CASE k = "ok"
  <2>1. R!Answers[k] = <<"OK">>
    BY <1>1, <1>8 DEF R!mysqlAnswers
  <2> QED BY <1>3, <1>4, <1>5, <1>6, <1>7, <1>8, <2>1
<1>9. CASE k = "err"
  <2>1. R!Answers[k] = <<"ERR">>
    BY <1>1, <1>9 DEF R!mysqlAnswers
  <2> QED BY <1>3, <1>4, <1>5, <1>6, <1>7, <1>9, <2>1
<1>10. CASE k = "prepare"
  <2>1. R!Answers[k] = <<"OK", "def", "EOF">> \/ R!Answers[k] = <<"OK", "def">>
    <3>1. R!mysqlAnswers(dialect)["prepare"]
            = IF dialect = "eof" THEN <<"OK", "def", "EOF">> ELSE <<"OK", "def">>
      BY DEF R!mysqlAnswers
    <3> QED BY <1>1, <1>10, <3>1
  <2>2. <<"OK", "def", "EOF">> \in Seq(ReplyKinds)
    BY <1>5, <1>6
  <2>3. <<"OK", "def">> \in Seq(ReplyKinds)
    BY <1>5, <1>6
  <2> QED BY <1>4, <1>7, <1>10, <2>1, <2>2, <2>3
<1>11. CASE k = "close"
  <2>1. R!Answers[k] = <<>>
    BY <1>1, <1>11 DEF R!mysqlAnswers
  <2> QED BY <1>3, <1>4, <1>5, <1>6, <1>7, <1>11, <2>1
<1>12. CASE k = "reset"
  <2>1. R!Answers[k] = <<"OK">>
    BY <1>1, <1>12 DEF R!mysqlAnswers
  <2> QED BY <1>3, <1>4, <1>5, <1>6, <1>7, <1>12, <2>1
<1>13. CASE k = "multi"
  <2>1. R!Answers[k] = <<"OK", "OK">>
    BY <1>1, <1>13 DEF R!mysqlAnswers
  <2> QED BY <1>3, <1>4, <1>5, <1>6, <1>7, <1>13, <2>1
<1>14. CASE k = "rows"
  <2>1. R!Answers[k] = R!ResultSet(dialect)
    BY <1>1, <1>14 DEF R!mysqlAnswers
  <2>2. CASE dialect = "eof"
    <3>1. R!Answers[k] = <<"cols", "def", "EOF", "row", "EOF">>
      BY <2>1, <2>2 DEF R!ResultSet
    <3> QED BY <1>3, <1>4, <1>5, <1>6, <1>14, <3>1
  <2>3. CASE dialect = "okEnd"
    <3>1. R!Answers[k] = <<"cols", "def", "row", "END">>
      BY <2>1, <2>3 DEF R!ResultSet
    <3> QED BY <1>3, <1>4, <1>5, <1>6, <1>14, <3>1
  <2>4. CASE dialect = "longEnd"
    <3>1. R!Answers[k] = <<"cols", "def", "row", "LONGEND">>
      BY <2>1, <2>4 DEF R!ResultSet
    <3>2. R!Awkward(k)
      BY <1>14, <2>4 DEF R!Awkward
    <3> QED BY <1>4, <1>5, <1>6, <1>14, <3>1, <3>2
  <2> QED BY <2>2, <2>3, <2>4
<1> QED BY <1>2, <1>8, <1>9, <1>10, <1>11, <1>12, <1>13, <1>14

LEMMA PgAnswers ==
  ASSUME replyProto = "postgres", NEW k \in DOMAIN R!Answers
  PROVE  /\ R!Answers[k] \in Seq(ReplyKinds) /\ TimesQueued(k) \in {0, 1, 2}
         /\ ~ R!Awkward(k) =>
              /\ R!Answers[k] \in FollowedAnswers
              /\ TimesQueued(k) = IF R!Answers[k] = <<>> THEN 0 ELSE 1
<1>1. R!Answers = R!pgAnswers
  BY DEF R!Answers
<1>2. k \in {"query", "empty", "error", "multi", "failedBatch", "suspended"}
  BY <1>1 DEF R!pgAnswers
<1>3. FollowedAnswers = {<<"T", "D", "C", "Z">>, <<"I", "Z">>, <<"E", "Z">>}
  BY DEF FollowedAnswers
<1>4. TimesQueued(k) = IF k = "failedBatch" THEN 2 ELSE 1
  BY DEF TimesQueued, R!pgRequests
<1>5. {"T", "D", "C", "Z", "I", "E", "s"} \subseteq ReplyKinds
  BY DEF ReplyKinds
<1>6. \A a, b, c, d \in ReplyKinds : {<<a, b>>, <<a, b, c>>, <<a, b, c, d>>} \subseteq Seq(ReplyKinds)
  OBVIOUS
<1>7. ASSUME k \in {"multi", "failedBatch", "suspended"} PROVE R!Awkward(k)
  BY <1>7 DEF R!Awkward
<1>8. CASE k = "query"
  <2>1. R!Answers[k] = <<"T", "D", "C", "Z">>
    BY <1>1, <1>8 DEF R!pgAnswers
  <2> QED BY <1>3, <1>4, <1>5, <1>6, <1>7, <1>8, <2>1
<1>9. CASE k = "empty"
  <2>1. R!Answers[k] = <<"I", "Z">>
    BY <1>1, <1>9 DEF R!pgAnswers
  <2> QED BY <1>3, <1>4, <1>5, <1>6, <1>7, <1>9, <2>1
<1>10. CASE k = "error"
  <2>1. R!Answers[k] = <<"E", "Z">>
    BY <1>1, <1>10 DEF R!pgAnswers
  <2> QED BY <1>3, <1>4, <1>5, <1>6, <1>7, <1>10, <2>1
<1>11. CASE k = "multi"
  <2>1. R!Answers[k] = <<"C", "C", "Z">>
    BY <1>1, <1>11 DEF R!pgAnswers
  <2> QED BY <1>3, <1>4, <1>5, <1>6, <1>7, <1>11, <2>1
<1>12. CASE k = "failedBatch"
  <2>1. R!Answers[k] = <<"E", "Z">>
    BY <1>1, <1>12 DEF R!pgAnswers
  <2> QED BY <1>3, <1>4, <1>5, <1>6, <1>7, <1>12, <2>1
<1>13. CASE k = "suspended"
  <2>1. R!Answers[k] = <<"D", "s", "Z">>
    BY <1>1, <1>13 DEF R!pgAnswers
  <2> QED BY <1>3, <1>4, <1>5, <1>6, <1>7, <1>13, <2>1
<1> QED BY <1>2, <1>8, <1>9, <1>10, <1>11, <1>12, <1>13

LEMMA RedisAnswers ==
  ASSUME replyProto = "redis", dialect \in {"resp2", "resp3"}, NEW k \in DOMAIN R!Answers
  PROVE  /\ R!Answers[k] \in Seq(ReplyKinds) /\ TimesQueued(k) \in {0, 1, 2}
         /\ ~ R!Awkward(k) =>
              /\ R!Answers[k] \in FollowedAnswers
              /\ TimesQueued(k) = IF R!Answers[k] = <<>> THEN 0 ELSE 1
<1>1. R!Answers = R!redisAnswers(dialect)
  BY DEF R!Answers
<1>2. k \in {"get", "subscribe", "subscribe2", "range"}
  BY <1>1 DEF R!redisAnswers
<1>3. FollowedAnswers = {<<"bulk">>, <<"array">>}
  BY DEF FollowedAnswers
<1>4. TimesQueued(k) = 1
  BY DEF TimesQueued, R!redisRequests
<1>5. \A a, b \in ReplyKinds : {<<a>>, <<a, b>>} \subseteq Seq(ReplyKinds)
  OBVIOUS
<1>6. {"bulk", "array", "push", "message"} \subseteq ReplyKinds
  BY DEF ReplyKinds
<1>7. k \in {"subscribe2", "range"} \/ (k = "subscribe" /\ dialect = "resp3") => R!Awkward(k)
  BY DEF R!Awkward
<1>8. CASE k = "get"
  <2>1. R!Answers[k] = <<"bulk">>
    BY <1>1, <1>8 DEF R!redisAnswers
  <2> QED BY <1>3, <1>4, <1>5, <1>6, <1>7, <1>8, <2>1
<1>9. CASE k = "subscribe"
  <2>1. R!Answers[k] = IF dialect = "resp3" THEN <<"push">> ELSE <<"array">>
    BY <1>1, <1>9 DEF R!redisAnswers
  <2> QED BY <1>3, <1>4, <1>5, <1>6, <1>7, <1>9, <2>1
<1>10. CASE k = "subscribe2"
  <2>1. R!Answers[k] = <<"push", "push">> \/ R!Answers[k] = <<"array", "array">>
    BY <1>1, <1>10 DEF R!redisAnswers
  <2> QED BY <1>3, <1>4, <1>5, <1>6, <1>7, <1>10, <2>1
<1>11. CASE k = "range"
  <2>1. R!Answers[k] = <<"message">>
    BY <1>1, <1>11 DEF R!redisAnswers
  <2> QED BY <1>3, <1>4, <1>5, <1>6, <1>7, <1>11, <2>1
<1> QED BY <1>2, <1>8, <1>9, <1>10, <1>11

\* The members below the first of a set.
Upto(s, n) == IF s # {} THEN Min(s) - 1 ELSE n

LEMMA MinIn ==
  ASSUME NEW s \in SUBSET Nat, s # {}
  PROVE  Min(s) \in s /\ \A y \in s : Min(s) <= y
<1> DEFINE V == {k \in Nat : \A j \in 0 .. k : j \notin s}
<1>1. ASSUME \A x \in s : \E y \in s : y < x PROVE FALSE
  <2>1. 0 \in V
    BY <1>1
  <2>2. ASSUME NEW k \in Nat, k \in V PROVE k + 1 \in V
    <3>1. k + 1 \notin s
      <4> SUFFICES ASSUME k + 1 \in s PROVE FALSE
        OBVIOUS
      <4>1. PICK y \in s : y < k + 1
        BY <1>1
      <4> QED BY <2>2, <4>1
    <3> QED BY <2>2, <3>1
  <2> HIDE DEF V
  <2>3. Nat \subseteq V
    BY <2>1, <2>2, SetInduction
  <2>4. \A k \in Nat : k \notin s
    BY <2>3 DEF V
  <2> QED BY <2>4
<1>2. \E x \in s : \A y \in s : x <= y
  BY <1>1
<1> QED BY <1>2 DEF Min

LEMMA UptoIs ==
  ASSUME NEW n \in Nat, NEW s \in SUBSET (1 .. n)
  PROVE  /\ Upto(s, n) \in 0 .. n
         /\ \A i \in 1 .. Upto(s, n) : i \notin s
         /\ Upto(s, n) < n => Upto(s, n) + 1 \in s
         /\ Upto(s, n) = n <=> s = {}
<1>1. CASE s = {}
  BY <1>1 DEF Upto
<1>2. CASE s # {}
  <2>1. Min(s) \in s /\ \A y \in s : Min(s) <= y
    BY <1>2, MinIn
  <2>2. PICK m : m = Min(s)
    OBVIOUS
  <2>3. m \in 1 .. n /\ m \in s /\ \A y \in s : m <= y
    BY <2>1, <2>2
  <2>4. Upto(s, n) = m - 1
    BY <1>2, <2>2 DEF Upto
  <2>5. \A i \in 1 .. m - 1 : i \notin s
    BY <2>3
  <2> QED BY <1>2, <2>3, <2>4, <2>5
<1> QED BY <1>1, <1>2

\* Another member at the end.
LEMMA UptoMore ==
  ASSUME NEW n \in Nat, NEW s \in SUBSET (1 .. n), NEW t \in SUBSET (1 .. n + 1),
         \A i \in 1 .. n : i \in t <=> i \in s
  PROVE  Upto(t, n + 1) = IF Upto(s, n) = n /\ n + 1 \notin t THEN n + 1 ELSE Upto(s, n)
<1> DEFINE a == Upto(s, n)
           b == Upto(t, n + 1)
<1>1. /\ a \in 0 .. n /\ \A i \in 1 .. a : i \notin s
      /\ a < n => a + 1 \in s
  BY UptoIs
<1>2. /\ b \in 0 .. n + 1 /\ \A i \in 1 .. b : i \notin t
      /\ b < n + 1 => b + 1 \in t
  <2>1. n + 1 \in Nat
    OBVIOUS
  <2> QED BY <2>1, UptoIs
<1> HIDE DEF a, b
<1>3. b >= a
  <2>1. ASSUME b < a PROVE FALSE
    <3>1. b + 1 \in 1 .. a /\ b + 1 \in 1 .. n /\ b + 1 \in t
      BY <1>1, <1>2, <2>1
    <3> QED BY <1>1, <3>1
  <2> QED BY <1>1, <1>2, <2>1
<1>4. ASSUME a < n PROVE b <= a
  <2>1. a + 1 \in t /\ a + 1 \in 1 .. n
    BY <1>1, <1>4
  <2> QED BY <1>1, <1>2, <2>1
<1> QED BY <1>1, <1>2, <1>3, <1>4 DEF a, b

AwkwardOnes == {i \in 1 .. Len(issued) : R!Awkward(issued[i])}

LEMMA FollowedIs ==
  Len(issued) \in Nat => Followed = Upto(AwkwardOnes, Len(issued)) /\ (R!FirstAwkward = 0 <=> AwkwardOnes = {})
<1> SUFFICES ASSUME Len(issued) \in Nat
             PROVE  Followed = Upto(AwkwardOnes, Len(issued)) /\ (R!FirstAwkward = 0 <=> AwkwardOnes = {})
  OBVIOUS
<1>1. R!FirstAwkward = IF AwkwardOnes # {} THEN Min(AwkwardOnes) ELSE 0
  BY DEF R!FirstAwkward, R!SelectInSeq, AwkwardOnes, R!Min, Min
<1>2. AwkwardOnes \in SUBSET Nat /\ AwkwardOnes \subseteq 1 .. Len(issued)
  BY DEF AwkwardOnes
<1>3. AwkwardOnes # {} => Min(AwkwardOnes) \in 1 .. Len(issued)
  BY <1>2, MinIn
<1>4. R!FirstAwkward = 0 <=> AwkwardOnes = {}
  BY <1>1, <1>3
<1> QED BY <1>1, <1>4 DEF Followed, Upto
Messages == [k : ReplyKinds, of : Nat]

\* Where an answer is read as a reply: at the end, in PostgreSQL at the message
\* that completes the command.
KeyOf(b) == IF b = <<"T", "D", "C", "Z">> THEN 3
            ELSE IF b \in {<<"I", "Z">>, <<"E", "Z">>} THEN 1 ELSE Len(b)

\* The message at i is the u[i]-th of its answer, and the rest of it follows.
OnPlace(w, u, a, i) ==
  /\ u[i] \in 1 .. Len(a[w[i].of]) /\ w[i].k = a[w[i].of][u[i]]
  /\ u[i] < Len(a[w[i].of]) => i + 1 \in 1 .. Len(w) /\ w[i + 1].of = w[i].of /\ u[i + 1] = u[i] + 1

\* The wire w holds answers to commands up to l, in order and each whole, but
\* for the first, of which the rest is left.
InPlaces(w, u, a, l) ==
  /\ \A i \in 1 .. Len(w) : w[i].of \in 1 .. l => OnPlace(w, u, a, i)
  /\ \A i, j \in 1 .. Len(w) : i < j /\ w[i].of # 0 /\ w[j].of # 0 => w[i].of <= w[j].of
  /\ \A i, j \in 1 .. Len(w) : i < j /\ w[i].of = w[j].of /\ w[i].of \in 1 .. l => u[i] < u[j]
  /\ \A i \in 1 .. Len(w) - 1 : w[i + 1].of \in 1 .. l /\ w[i].of # w[i + 1].of => u[i + 1] = 1

\* A reply to n is still to be read.
Comes(w, u, a, n) == \E i \in 1 .. Len(w) : w[i].of = n /\ u[i] = KeyOf(a[n])

Later(u) == [i \in Nat |-> u[i + 1]]
Longer(u, m) == [i \in Nat |-> IF i <= m THEN u[i] ELSE i - m]

LEMMA TailPlaces ==
  ASSUME NEW w \in Seq(Messages), w # <<>>, NEW u, NEW a, NEW l \in Nat, InPlaces(w, u, a, l)
  PROVE  /\ Tail(w) \in Seq(Messages) /\ Len(Tail(w)) = Len(w) - 1
         /\ \A i \in 1 .. Len(w) - 1 : Tail(w)[i] = w[i + 1]
         /\ InPlaces(Tail(w), Later(u), a, l)
<1> DEFINE t == Tail(w)
           v == Later(u)
<1>1. t \in Seq(Messages) /\ Len(t) = Len(w) - 1 /\ Len(w) \in Nat \ {0}
      /\ \A i \in 1 .. Len(w) - 1 : t[i] = w[i + 1]
  OBVIOUS
<1>2. \A i \in 1 .. Len(w) : v[i] = u[i + 1]
  BY DEF Later
<1> DEFINE d == Len(w)
           c == Len(t)
<1>0. /\ d \in Nat /\ c = d - 1
      /\ \A i \in 1 .. c : i \in 1 .. d /\ i + 1 \in 1 .. d /\ i \in 1 .. d - 1
      /\ \A i \in 1 .. c - 1 : i \in 1 .. c /\ i + 1 \in 1 .. c /\ i + 1 \in 1 .. d - 1
  BY <1>1
<1> HIDE DEF t, v, d, c
<1>10. \A i \in 1 .. c : t[i] = w[i + 1] /\ v[i] = u[i + 1]
  BY <1>0, <1>1, <1>2 DEF c, d
<1>3. ASSUME NEW i \in 1 .. c, t[i].of \in 1 .. l PROVE OnPlace(t, v, a, i)
  <2>1. i + 1 \in 1 .. d /\ t[i] = w[i + 1] /\ v[i] = u[i + 1]
    BY <1>0, <1>10
  <2>2. OnPlace(w, u, a, i + 1)
    BY <1>3, <2>1 DEF InPlaces, d
  <2>3. CASE i + 1 \in 1 .. c
    <3>1. t[i + 1] = w[(i + 1) + 1] /\ v[i + 1] = u[(i + 1) + 1]
      BY <1>10, <2>3
    <3> QED BY <2>1, <2>2, <2>3, <3>1 DEF OnPlace, c
  <2>4. CASE i + 1 \notin 1 .. c
    <3>1. (i + 1) + 1 \notin 1 .. d
      BY <1>0, <2>4
    <3> QED BY <2>1, <2>2, <3>1 DEF OnPlace, d
  <2> QED BY <2>3, <2>4
<1>4. ASSUME NEW i \in 1 .. c, NEW j \in 1 .. c, i < j
      PROVE  /\ t[i].of # 0 /\ t[j].of # 0 => t[i].of <= t[j].of
             /\ t[i].of = t[j].of /\ t[i].of \in 1 .. l => v[i] < v[j]
  <2>1. /\ i + 1 \in 1 .. d /\ t[i] = w[i + 1] /\ v[i] = u[i + 1]
        /\ j + 1 \in 1 .. d /\ t[j] = w[j + 1] /\ v[j] = u[j + 1]
        /\ i + 1 < j + 1
    BY <1>0, <1>10, <1>4
  <2> QED BY <2>1 DEF InPlaces, d
<1>5. ASSUME NEW i \in 1 .. c - 1, t[i + 1].of \in 1 .. l, t[i].of # t[i + 1].of
      PROVE  v[i + 1] = 1
  <2>1. /\ i + 1 \in 1 .. d - 1 /\ t[i] = w[i + 1] /\ t[i + 1] = w[(i + 1) + 1]
        /\ v[i + 1] = u[(i + 1) + 1]
    BY <1>0, <1>10
  <2> QED BY <1>5, <2>1 DEF InPlaces, d
<1>6. InPlaces(t, v, a, l)
  BY <1>3, <1>4, <1>5 DEF InPlaces, c
<1> QED BY <1>1, <1>6 DEF t, v

\* A whole answer is added.
LEMMA MorePlaces ==
  ASSUME NEW w \in Seq(Messages), NEW u, NEW a, NEW l \in Nat, InPlaces(w, u, a, l),
         NEW n \in Nat, NEW b \in Seq(ReplyKinds), n \in 1 .. l => a[n] = b,
         n = 0 \/ \A i \in 1 .. Len(w) : w[i].of < n
  PROVE  LET x == w \o R!Msgs(b, n)
             v == Longer(u, Len(w))
         IN  /\ x \in Seq(Messages) /\ Len(x) = Len(w) + Len(b)
             /\ \A i \in 1 .. Len(w) : x[i] = w[i] /\ v[i] = u[i]
             /\ \A i \in 1 .. Len(b) : x[Len(w) + i] = [k |-> b[i], of |-> n] /\ v[Len(w) + i] = i
             /\ InPlaces(x, v, a, l)
<1> DEFINE m == R!Msgs(b, n)
           x == w \o m
           v == Longer(u, Len(w))
           d == Len(w)
           c == Len(b)
<1>1. m \in Seq(Messages) /\ Len(m) = c /\ c \in Nat /\ d \in Nat
      /\ \A i \in 1 .. c : m[i] = [k |-> b[i], of |-> n]
  BY DEF R!Msgs, Messages
<1>2. /\ x \in Seq(Messages) /\ Len(x) = d + c
      /\ \A i \in 1 .. d : x[i] = w[i]
      /\ \A i \in 1 .. c : x[d + i] = [k |-> b[i], of |-> n]
  <2> HIDE DEF m
  <2>1. x \in Seq(Messages) /\ Len(x) = d + c /\ \A i \in 1 .. d : x[i] = w[i]
    BY <1>1
  <2>2. ASSUME NEW i \in 1 .. c PROVE x[d + i] = m[i]
    BY <1>1
  <2> QED BY <1>1, <2>1, <2>2
<1>3. (\A i \in 1 .. d : v[i] = u[i]) /\ (\A i \in 1 .. c : v[d + i] = i)
  BY <1>1 DEF Longer
<1>11. d \in Nat /\ c \in Nat
  BY <1>1
<1>13. n = 0 \/ \A i \in 1 .. d : w[i].of < n
  OBVIOUS
<1> HIDE DEF m, x, v, d, c
<1>12. w \in [1 .. d -> Messages]
  BY DEF d
<1>4. \A i \in 1 .. d : x[i].of = w[i].of /\ w[i].of \in Nat /\ i \in 1 .. d + c
  BY <1>2, <1>11, <1>12 DEF Messages
<1>5. \A i \in 1 .. c : x[d + i].of = n /\ x[d + i].k = b[i] /\ d + i \in 1 .. d + c
  <2> TAKE i \in 1 .. c
  <2>1. x[d + i] = [k |-> b[i], of |-> n]
    BY <1>2
  <2>2. d + i \in 1 .. d + c
    BY <1>11
  <2> QED BY <2>1, <2>2
<1>6. \A i \in 1 .. d + c : i \in 1 .. d \/ \E j \in 1 .. c : i = d + j
  <2> TAKE i \in 1 .. d + c
  <2>1. i \in 1 .. d \/ (i - d \in 1 .. c /\ i = d + (i - d))
    BY <1>11
  <2> QED BY <2>1
<1>7. ASSUME NEW i \in 1 .. d + c, x[i].of \in 1 .. l PROVE OnPlace(x, v, a, i)
  <2>1. CASE i \in 1 .. d
    <3>1. OnPlace(w, u, a, i) /\ x[i] = w[i] /\ v[i] = u[i]
      BY <1>2, <1>3, <1>7, <2>1 DEF InPlaces, d
    <3>2. i + 1 \in 1 .. d => x[i + 1] = w[i + 1] /\ v[i + 1] = u[i + 1] /\ i + 1 \in 1 .. d + c
      BY <1>11, <1>2, <1>3
    <3> QED BY <1>2, <3>1, <3>2 DEF OnPlace, d
  <2>2. ASSUME NEW j \in 1 .. c, i = d + j PROVE OnPlace(x, v, a, i)
    <3>1. x[i].of = n /\ x[i].k = b[j] /\ v[i] = j /\ a[n] = b
      BY <1>3, <1>5, <1>7, <2>2
    <3>2. ASSUME j < c PROVE i + 1 \in 1 .. d + c /\ x[i + 1].of = n /\ v[i + 1] = j + 1
      <4>1. j + 1 \in 1 .. c /\ i + 1 = d + (j + 1)
        BY <1>11, <2>2, <3>2
      <4> QED BY <1>3, <1>5, <4>1
    <3>3. v[i] < Len(a[x[i].of]) => j < c
      BY <3>1 DEF c
    <3> QED BY <1>11, <1>2, <3>1, <3>2, <3>3 DEF OnPlace, c
  <2> QED BY <1>6, <2>1, <2>2
<1>8. ASSUME NEW i \in 1 .. d + c, NEW j \in 1 .. d + c, i < j
      PROVE  /\ x[i].of # 0 /\ x[j].of # 0 => x[i].of <= x[j].of
             /\ x[i].of = x[j].of /\ x[i].of \in 1 .. l => v[i] < v[j]
  <2>1. CASE i \in 1 .. d /\ j \in 1 .. d
    <3>1. x[i] = w[i] /\ x[j] = w[j] /\ v[i] = u[i] /\ v[j] = u[j]
      BY <1>2, <1>3, <2>1
    <3> QED BY <1>8, <2>1, <3>1 DEF InPlaces, d
  <2>2. ASSUME i \in 1 .. d, NEW g \in 1 .. c, j = d + g
        PROVE  /\ x[i].of # 0 /\ x[j].of # 0 => x[i].of <= x[j].of
               /\ ~ (x[i].of = x[j].of /\ x[i].of \in 1 .. l)
    <3>1. x[i].of = w[i].of /\ x[j].of = n /\ w[i].of \in Nat
      BY <1>4, <1>5, <2>2
    <3>2. n = 0 \/ w[i].of < n
      BY <1>13, <2>2
    <3> QED BY <3>1, <3>2
  <2>3. ASSUME NEW f \in 1 .. c, i = d + f, NEW g \in 1 .. c, j = d + g
        PROVE  x[i].of = n /\ x[j].of = n /\ v[i] < v[j]
    BY <1>11, <1>3, <1>5, <1>8, <2>3
  <2>4. ~ (i \notin 1 .. d /\ j \in 1 .. d)
    BY <1>11, <1>8
  <2>5. CASE i \in 1 .. d /\ j \notin 1 .. d
    <3>1. PICK g \in 1 .. c : j = d + g
      BY <1>6, <2>5
    <3> QED BY <2>2, <2>5, <3>1
  <2>6. CASE i \notin 1 .. d /\ j \notin 1 .. d
    <3>1. PICK f \in 1 .. c, g \in 1 .. c : i = d + f /\ j = d + g
      BY <1>6, <2>6
    <3>2. x[i].of = n /\ x[j].of = n /\ v[i] < v[j]
      BY <2>3, <3>1
    <3> QED BY <3>2
  <2> QED BY <2>1, <2>4, <2>5, <2>6
<1>9. ASSUME NEW i \in 1 .. (d + c) - 1, x[i + 1].of \in 1 .. l, x[i].of # x[i + 1].of
      PROVE  v[i + 1] = 1
  <2>1. CASE i + 1 \in 1 .. d
    <3>1. i \in 1 .. d - 1 /\ x[i] = w[i] /\ x[i + 1] = w[i + 1] /\ v[i + 1] = u[i + 1]
      BY <1>11, <1>2, <1>3, <2>1
    <3> QED BY <1>9, <3>1 DEF InPlaces, d
  <2>2. CASE i = d
    <3>1. 1 \in 1 .. c /\ i + 1 = d + 1
      BY <1>11, <2>2
    <3> QED BY <1>3, <3>1
  <2>3. CASE i > d
    <3>1. i - d \in 1 .. c /\ i - d + 1 \in 1 .. c /\ i = d + (i - d) /\ i + 1 = d + (i - d + 1)
      BY <1>11, <2>3
    <3>2. x[i].of = n /\ x[i + 1].of = n
      BY <1>5, <3>1
    <3> QED BY <1>9, <3>2
  <2> QED BY <1>11, <2>1, <2>2, <2>3
<1>10. InPlaces(x, v, a, l)
  BY <1>2, <1>7, <1>8, <1>9 DEF InPlaces
<1> QED BY <1>2, <1>3, <1>10 DEF x, m, v, d, c

\* Another command, nothing of whose answer is on the wire.
LEMMA SamePlaces ==
  ASSUME NEW w \in Seq(Messages), NEW u, NEW a, NEW l \in Nat, InPlaces(w, u, a, l),
         NEW b, NEW m \in Nat, l <= m, \A n \in 1 .. l : b[n] = a[n],
         \A i \in 1 .. Len(w) : w[i].of \in 1 .. m => w[i].of \in 1 .. l
  PROVE  InPlaces(w, u, b, m)
<1>1. \A i \in 1 .. Len(w) - 1 : i + 1 \in 1 .. Len(w) /\ i \in 1 .. Len(w)
  OBVIOUS
<1>2. ASSUME NEW i \in 1 .. Len(w), w[i].of \in 1 .. m PROVE OnPlace(w, u, b, i)
  <2>1. b[w[i].of] = a[w[i].of] /\ OnPlace(w, u, a, i)
    BY <1>2 DEF InPlaces
  <2> QED BY <2>1 DEF OnPlace
<1> QED BY <1>1, <1>2 DEF InPlaces
InQueue(f, n) == \E i \in 1 .. Len(f) : f[i] = n

\* The queue f is in order, and holds the commands that have a reply to come: d
\* commands have been answered.
Waits(f, w, u, a, l, d) ==
  /\ \A i, j \in 1 .. Len(f) : i < j => f[i] <= f[j] /\ (f[i] <= l => f[i] < f[j])
  /\ \A n \in 1 .. l : InQueue(f, n) <=> (n > d /\ a[n] # <<>>) \/ Comes(w, u, a, n)

LEMMA ComesMore ==
  ASSUME NEW w \in Seq(Messages), NEW u, NEW a, NEW l \in Nat,
         NEW n \in Nat, NEW b \in Seq(ReplyKinds), n \in 1 .. l => a[n] = b,
         InPlaces(w, u, a, l), n = 0 \/ \A i \in 1 .. Len(w) : w[i].of < n, NEW q \in 1 .. l
  PROVE  Comes(w \o R!Msgs(b, n), Longer(u, Len(w)), a, q)
           <=> Comes(w, u, a, q) \/ (q = n /\ KeyOf(b) \in 1 .. Len(b))
<1>0. PICK x, v : x = w \o R!Msgs(b, n) /\ v = Longer(u, Len(w))
  OBVIOUS
<1>1. /\ Len(x) = Len(w) + Len(b)
      /\ \A i \in 1 .. Len(w) : x[i] = w[i] /\ v[i] = u[i]
      /\ \A i \in 1 .. Len(b) : x[Len(w) + i] = [k |-> b[i], of |-> n] /\ v[Len(w) + i] = i
  BY <1>0, MorePlaces
<1> DEFINE d == Len(w)
           c == Len(b)
<1>2. d \in Nat /\ c \in Nat
  OBVIOUS
<1> HIDE DEF d, c
<1>3. ASSUME Comes(w, u, a, q) PROVE Comes(x, v, a, q)
  <2>1. PICK i \in 1 .. d : w[i].of = q /\ u[i] = KeyOf(a[q])
    BY <1>3 DEF Comes, d
  <2>2. i \in 1 .. d + c /\ x[i].of = q /\ v[i] = KeyOf(a[q])
    BY <1>1, <1>2, <2>1 DEF d
  <2> QED BY <1>1, <2>2 DEF Comes, d, c
<1>4. ASSUME q = n, KeyOf(b) \in 1 .. c PROVE Comes(x, v, a, q)
  <2>1. d + KeyOf(b) \in 1 .. d + c
    BY <1>2, <1>4
  <2>2. x[d + KeyOf(b)] = [k |-> b[KeyOf(b)], of |-> n] /\ v[d + KeyOf(b)] = KeyOf(b)
    BY <1>1, <1>4 DEF d, c
  <2>3. x[d + KeyOf(b)].of = q /\ a[q] = b
    BY <1>4, <2>2
  <2> QED BY <1>1, <2>1, <2>2, <2>3 DEF Comes, d, c
<1>5. ASSUME Comes(x, v, a, q) PROVE Comes(w, u, a, q) \/ (q = n /\ KeyOf(b) \in 1 .. c)
  <2>1. PICK i \in 1 .. d + c : x[i].of = q /\ v[i] = KeyOf(a[q])
    BY <1>1, <1>5 DEF Comes, d, c
  <2>2. CASE i \in 1 .. d
    <3>1. w[i].of = q /\ u[i] = KeyOf(a[q])
      BY <1>1, <2>1, <2>2 DEF d
    <3> QED BY <2>2, <3>1 DEF Comes, d
  <2>3. CASE i \notin 1 .. d
    <3>1. i - d \in 1 .. c /\ i = d + (i - d)
      BY <1>2, <2>3
    <3>2. x[i] = [k |-> b[i - d], of |-> n] /\ v[i] = i - d
      BY <1>1, <3>1 DEF d, c
    <3>3. q = n /\ a[q] = b
      BY <2>1, <3>2
    <3> QED BY <2>1, <3>1, <3>2, <3>3
  <2> QED BY <2>2, <2>3
<1> QED BY <1>0, <1>3, <1>4, <1>5 DEF c

LEMMA ComesLess ==
  ASSUME NEW w \in Seq(Messages), w # <<>>, NEW u, NEW a, NEW q
  PROVE  Comes(w, u, a, q) <=>
           (w[1].of = q /\ u[1] = KeyOf(a[q])) \/ Comes(Tail(w), Later(u), a, q)
<1> DEFINE t == Tail(w)
           v == Later(u)
           d == Len(w)
<1>1. d \in Nat \ {0} /\ Len(t) = d - 1 /\ \A i \in 1 .. d - 1 : t[i] = w[i + 1]
  OBVIOUS
<1>2. \A i \in 1 .. d - 1 : v[i] = u[i + 1]
  BY <1>1 DEF Later
<1> HIDE DEF t, v, d
<1>3. ASSUME Comes(w, u, a, q) PROVE (w[1].of = q /\ u[1] = KeyOf(a[q])) \/ Comes(t, v, a, q)
  <2>1. PICK i \in 1 .. d : w[i].of = q /\ u[i] = KeyOf(a[q])
    BY <1>3 DEF Comes, d
  <2>2. CASE i = 1
    BY <2>1, <2>2
  <2>3. CASE i # 1
    <3>1. i - 1 \in 1 .. d - 1 /\ (i - 1) + 1 = i
      BY <1>1, <2>3
    <3>2. t[i - 1].of = q /\ v[i - 1] = KeyOf(a[q])
      BY <1>1, <1>2, <2>1, <3>1
    <3> QED BY <1>1, <3>1, <3>2 DEF Comes
  <2> QED BY <2>2, <2>3
<1>4. ASSUME w[1].of = q, u[1] = KeyOf(a[q]) PROVE Comes(w, u, a, q)
  <2>1. 1 \in 1 .. d
    BY <1>1
  <2> QED BY <1>4, <2>1 DEF Comes, d
<1>5. ASSUME Comes(t, v, a, q) PROVE Comes(w, u, a, q)
  <2>1. PICK i \in 1 .. d - 1 : t[i].of = q /\ v[i] = KeyOf(a[q])
    BY <1>1, <1>5 DEF Comes
  <2>2. i + 1 \in 1 .. d /\ w[i + 1].of = q /\ u[i + 1] = KeyOf(a[q])
    BY <1>1, <1>2, <2>1
  <2> QED BY <2>2 DEF Comes, d
<1> QED BY <1>3, <1>4, <1>5 DEF t, v

\* The key of an answer that has one is in it.
LEMMA KeyIn ==
  ASSUME NEW b \in Seq(ReplyKinds)
  PROVE  KeyOf(b) \in 1 .. Len(b) <=> b # <<>>
<1>1. CASE b = <<"T", "D", "C", "Z">>
  <2>1. KeyOf(b) = 3 /\ Len(b) = 4 /\ b # <<>>
    BY <1>1 DEF KeyOf
  <2> QED BY <2>1
<1>2. CASE b \in {<<"I", "Z">>, <<"E", "Z">>}
  <2>1. Len(b) = 2 /\ b # <<>>
    BY <1>2
  <2>2. b # <<"T", "D", "C", "Z">>
    BY <2>1
  <2>3. KeyOf(b) = 1
    BY <1>2, <2>2 DEF KeyOf
  <2> QED BY <2>1, <2>3
<1>3. CASE b \notin {<<"T", "D", "C", "Z">>, <<"I", "Z">>, <<"E", "Z">>}
  <2>1. KeyOf(b) = Len(b) /\ Len(b) \in Nat /\ (Len(b) = 0 <=> b = <<>>)
    BY <1>3 DEF KeyOf
  <2> QED BY <2>1
<1> QED BY <1>1, <1>2, <1>3

\* A command enters the queue, once if it is followed and has a reply.
LEMMA CommandWaits ==
  ASSUME NEW c \in Nat, NEW f \in Seq(1 .. c), NEW k \in {0, 1, 2},
         NEW w \in Seq(Messages), NEW u, NEW a, NEW b, NEW l \in 0 .. c, NEW m \in l .. c + 1,
         NEW d \in 0 .. c, \A i \in 1 .. Len(w) : w[i].of <= d,
         \A n \in 1 .. l : b[n] = a[n], Waits(f, w, u, a, l, d),
         m = l \/ (m = c + 1 /\ l = c /\ k = IF b[c + 1] = <<>> THEN 0 ELSE 1)
  PROVE  Waits(f \o [i \in 1 .. k |-> c + 1], w, u, b, m, d)
<1> DEFINE e == [i \in 1 .. k |-> c + 1]
           g == f \o e
           h == Len(f)
<1>1. e \in Seq(Nat) /\ Len(e) = k /\ \A i \in 1 .. k : e[i] = c + 1
  OBVIOUS
<1>2. /\ h \in Nat /\ Len(g) = h + k
      /\ \A i \in 1 .. h : g[i] = f[i] /\ f[i] \in 1 .. c
      /\ \A i \in 1 .. k : g[h + i] = c + 1
  <2> HIDE DEF e
  <2>1. f \in Seq(Nat) /\ h \in Nat /\ \A i \in 1 .. h : f[i] \in 1 .. c
    OBVIOUS
  <2>2. Len(g) = h + k /\ \A i \in 1 .. h : g[i] = f[i]
    BY <1>1, <2>1
  <2>3. ASSUME NEW i \in 1 .. k PROVE g[h + i] = e[i]
    BY <1>1, <2>1
  <2> QED BY <1>1, <2>1, <2>2, <2>3
<1> HIDE DEF g, e, h
<1>3. \A i \in 1 .. h + k : i \in 1 .. h \/ (i - h \in 1 .. k /\ g[i] = c + 1)
  <2> TAKE i \in 1 .. h + k
  <2>1. i \in 1 .. h \/ (i - h \in 1 .. k /\ i = h + (i - h))
    BY <1>2
  <2> QED BY <1>2, <2>1
<1>4. ASSUME NEW i \in 1 .. h + k, NEW j \in 1 .. h + k, i < j
      PROVE  g[i] <= g[j] /\ (g[i] <= m => g[i] < g[j])
  <2>1. CASE i \in 1 .. h /\ j \in 1 .. h
    <3>1. g[i] = f[i] /\ g[j] = f[j] /\ f[i] \in 1 .. c
      BY <1>2, <2>1
    <3>2. f[i] <= f[j] /\ (f[i] <= l => f[i] < f[j])
      BY <1>4, <2>1 DEF Waits, h
    <3>3. f[i] <= m => f[i] <= l
      BY <3>1
    <3> QED BY <3>1, <3>2, <3>3
  <2>2. CASE i \in 1 .. h /\ j \notin 1 .. h
    BY <1>2, <1>3, <2>2
  <2>3. CASE i \notin 1 .. h
    <3>1. j \notin 1 .. h /\ k = 2
      BY <1>2, <1>3, <1>4, <2>3
    <3>2. g[i] = c + 1 /\ g[j] = c + 1 /\ m = l
      BY <1>3, <2>3, <3>1
    <3> QED BY <3>2
  <2> QED BY <2>1, <2>2, <2>3
<1>5. ASSUME NEW n \in 1 .. m PROVE InQueue(g, n) <=> (n > d /\ b[n] # <<>>) \/ Comes(w, u, b, n)
  <2>1. CASE n <= l
    <3>1. InQueue(f, n) <=> (n > d /\ a[n] # <<>>) \/ Comes(w, u, a, n)
      BY <2>1 DEF Waits
    <3>2. b[n] = a[n]
      BY <2>1
    <3>3. InQueue(g, n) <=> InQueue(f, n)
      <4>1. ASSUME InQueue(g, n) PROVE InQueue(f, n)
        <5>1. PICK i \in 1 .. h + k : g[i] = n
          BY <1>2, <4>1 DEF InQueue
        <5>2. i \in 1 .. h
          BY <1>3, <2>1, <5>1
        <5> QED BY <1>2, <5>1, <5>2 DEF InQueue, h
      <4>2. ASSUME InQueue(f, n) PROVE InQueue(g, n)
        <5>1. PICK i \in 1 .. h : f[i] = n
          BY <4>2 DEF InQueue, h
        <5>2. i \in 1 .. h + k /\ g[i] = n
          BY <1>2, <5>1
        <5> QED BY <1>2, <5>2 DEF InQueue
      <4> QED BY <4>1, <4>2
    <3> QED BY <3>1, <3>2, <3>3 DEF Comes
  <2>2. CASE n > l
    <3>1. n = c + 1 /\ m = c + 1 /\ k = IF b[n] = <<>> THEN 0 ELSE 1
      BY <2>2
    <3>2. ~ Comes(w, u, b, n)
      <4>1. ASSUME NEW i \in 1 .. Len(w), w[i].of = n PROVE FALSE
        <5>1. w[i].of <= d
          OBVIOUS
        <5> QED BY <3>1, <4>1, <5>1
      <4> QED BY <4>1 DEF Comes
    <3>3. InQueue(g, n) <=> k = 1
      <4>1. ASSUME InQueue(g, n) PROVE k = 1
        <5>1. PICK i \in 1 .. h + k : g[i] = n
          BY <1>2, <4>1 DEF InQueue
        <5>2. i \notin 1 .. h
          BY <1>2, <3>1, <5>1
        <5>3. i - h \in 1 .. k
          BY <1>3, <5>2
        <5> QED BY <3>1, <5>3
      <4>2. ASSUME k = 1 PROVE InQueue(g, n)
        <5>1. h + 1 \in 1 .. h + k /\ g[h + 1] = n
          BY <1>2, <3>1, <4>2
        <5> QED BY <1>2, <5>1 DEF InQueue
      <4> QED BY <4>1, <4>2
    <3>4. n > d
      BY <3>1
    <3> QED BY <3>1, <3>2, <3>3, <3>4
  <2> QED BY <2>1, <2>2
<1>6. Waits(g, w, u, b, m, d)
  BY <1>2, <1>4, <1>5 DEF Waits
<1> QED BY <1>6 DEF g, e

\* An answer, or a push, comes to the wire.
LEMMA AnswerWaits ==
  ASSUME NEW f, NEW w \in Seq(Messages), NEW u, NEW a, NEW l \in Nat, NEW d \in Nat,
         NEW n \in Nat, NEW b \in Seq(ReplyKinds), n \in 1 .. l => a[n] = b,
         InPlaces(w, u, a, l), n = 0 \/ \A i \in 1 .. Len(w) : w[i].of < n,
         NEW e \in Nat, e = IF n = 0 THEN d ELSE d + 1, n # 0 => n = d + 1,
         Waits(f, w, u, a, l, d)
  PROVE  Waits(f, w \o R!Msgs(b, n), Longer(u, Len(w)), a, l, e)
<1> DEFINE x == w \o R!Msgs(b, n)
           v == Longer(u, Len(w))
<1>1. x = w \o R!Msgs(b, n) /\ v = Longer(u, Len(w))
  OBVIOUS
<1> HIDE DEF x, v
<1>2. ASSUME NEW q \in 1 .. l PROVE InQueue(f, q) <=> (q > e /\ a[q] # <<>>) \/ Comes(x, v, a, q)
  <2>1. InQueue(f, q) <=> (q > d /\ a[q] # <<>>) \/ Comes(w, u, a, q)
    BY DEF Waits
  <2>2. Comes(x, v, a, q) <=> Comes(w, u, a, q) \/ (q = n /\ KeyOf(b) \in 1 .. Len(b))
    <3>1. Comes(w \o R!Msgs(b, n), Longer(u, Len(w)), a, q)
            <=> Comes(w, u, a, q) \/ (q = n /\ KeyOf(b) \in 1 .. Len(b))
      BY ComesMore
    <3> QED BY <1>1, <3>1
  <2>3. CASE q = n
    <3>1. a[q] = b /\ q > d /\ ~ (q > e) /\ (KeyOf(b) \in 1 .. Len(b) <=> b # <<>>)
      BY <2>3, KeyIn
    <3> QED BY <2>1, <2>2, <2>3, <3>1
  <2>4. CASE q # n
    <3>1. q > e <=> q > d
      BY <2>4
    <3> QED BY <2>1, <2>2, <2>4, <3>1
  <2> QED BY <2>3, <2>4
<1> QED BY <1>2 DEF Waits, x, v

\* The head of the wire is read: by a reply, the command it belongs to leaves the
\* queue; and behind the commands followed, none of them is there any more.
LEMMA ReadWaits ==
  ASSUME NEW f \in Seq(Nat \ {0}), NEW w \in Seq(Messages), w # <<>>, NEW u, NEW a, NEW l \in Nat,
         NEW d \in Nat, InPlaces(w, u, a, l), Waits(f, w, u, a, l, d),
         \A i \in 1 .. Len(w) : w[i].of <= d
  PROVE  LET t == Tail(w)
             v == Later(u)
             n == w[1].of
         IN  /\ n \in 1 .. l /\ u[1] = KeyOf(a[n]) =>
                  f # <<>> /\ f[1] = n /\ Waits(Tail(f), t, v, a, l, d)
             /\ n \in 1 .. l /\ u[1] # KeyOf(a[n]) => Waits(f, t, v, a, l, d)
             /\ n = 0 => Waits(f, t, v, a, l, d)
             /\ n > l => /\ Waits(f, t, v, a, l, d)
                         /\ f # <<>> => f[1] > l /\ Waits(Tail(f), t, v, a, l, d)
<1> DEFINE t == Tail(w)
           v == Later(u)
           n == w[1].of
           h == Len(f)
           less == Tail(f)
<1>1. /\ \A q \in 1 .. l : Comes(w, u, a, q) <=> (n = q /\ u[1] = KeyOf(a[q])) \/ Comes(t, v, a, q)
      /\ n \in Nat /\ n <= d
  <2>1. 1 \in 1 .. Len(w) /\ w[1] \in Messages
    OBVIOUS
  <2>2. n \in Nat /\ n <= d
    BY <2>1 DEF Messages
  <2> QED BY <2>2, ComesLess
<1>2. h \in Nat /\ \A i \in 1 .. h : f[i] \in Nat \ {0}
  OBVIOUS
<1>3. f # <<>> => Len(less) = h - 1 /\ h >= 1 /\ \A i \in 1 .. h - 1 : less[i] = f[i + 1]
  OBVIOUS
<1>4. /\ \A i, j \in 1 .. h : i < j => f[i] <= f[j] /\ (f[i] <= l => f[i] < f[j])
      /\ \A q \in 1 .. l : InQueue(f, q) <=> (q > d /\ a[q] # <<>>) \/ Comes(w, u, a, q)
  BY DEF Waits
<1>5. \A i \in 1 .. Len(w) : n # 0 /\ w[i].of # 0 => n <= w[i].of
  <2> SUFFICES ASSUME NEW i \in 1 .. Len(w), n # 0, w[i].of # 0 PROVE n <= w[i].of
    OBVIOUS
  <2>1. CASE i = 1
    BY <1>1, <2>1
  <2>2. CASE i # 1
    <3>1. 1 \in 1 .. Len(w) /\ 1 < i
      BY <2>2
    <3> QED BY <3>1 DEF InPlaces
  <2> QED BY <2>1, <2>2
<1>6. \A q \in 1 .. l : Comes(w, u, a, q) => n = 0 \/ n <= q
  BY <1>5 DEF Comes
<1> HIDE DEF t, v, n, h, less
<1>7. ASSUME \A q \in 1 .. l : Comes(w, u, a, q) <=> Comes(t, v, a, q)
      PROVE  Waits(f, t, v, a, l, d)
  BY <1>4, <1>7 DEF Waits, h
<1>8. ASSUME f # <<>>, \A q \in 1 .. l : q # f[1] => (Comes(w, u, a, q) <=> Comes(t, v, a, q)),
             f[1] \in 1 .. l => f[1] <= d /\ ~ Comes(t, v, a, f[1])
      PROVE  Waits(less, t, v, a, l, d)
  <2>1. ASSUME NEW i \in 1 .. h - 1, NEW j \in 1 .. h - 1, i < j
        PROVE  less[i] <= less[j] /\ (less[i] <= l => less[i] < less[j])
    <3>1. i + 1 \in 1 .. h /\ j + 1 \in 1 .. h /\ i + 1 < j + 1
      BY <1>2, <2>1
    <3>2. less[i] = f[i + 1] /\ less[j] = f[j + 1]
      BY <1>3, <1>8
    <3> QED BY <1>4, <3>1, <3>2
  <2>2. ASSUME NEW q \in 1 .. l
        PROVE  InQueue(less, q) <=> InQueue(f, q) /\ q # f[1]
    <3>1. ASSUME InQueue(less, q) PROVE InQueue(f, q) /\ q # f[1]
      <4>1. PICK i \in 1 .. h - 1 : less[i] = q
        BY <1>3, <1>8, <3>1 DEF InQueue
      <4>2. i + 1 \in 1 .. h /\ f[i + 1] = q /\ 1 \in 1 .. h /\ 1 < i + 1
        BY <1>2, <1>3, <1>8, <4>1
      <4>3. f[1] <= l => f[1] < q
        BY <1>4, <4>2
      <4>4. InQueue(f, q)
        BY <4>2 DEF InQueue, h
      <4> QED BY <4>3, <4>4
    <3>2. ASSUME InQueue(f, q), q # f[1] PROVE InQueue(less, q)
      <4>1. PICK i \in 1 .. h : f[i] = q
        BY <3>2 DEF InQueue, h
      <4>2. i - 1 \in 1 .. h - 1 /\ (i - 1) + 1 = i
        BY <1>2, <3>2, <4>1
      <4>3. less[i - 1] = q
        BY <1>3, <1>8, <4>1, <4>2
      <4> QED BY <1>3, <1>8, <4>2, <4>3 DEF InQueue
    <3> QED BY <3>1, <3>2
  <2>3. ASSUME NEW q \in 1 .. l
        PROVE  InQueue(less, q) <=> (q > d /\ a[q] # <<>>) \/ Comes(t, v, a, q)
    <3>1. CASE q = f[1]
      BY <1>8, <2>2, <3>1
    <3>2. CASE q # f[1]
      BY <1>4, <1>8, <2>2, <3>2
    <3> QED BY <3>1, <3>2
  <2>4. Len(less) = h - 1
    BY <1>3, <1>8
  <2> QED BY <2>1, <2>3, <2>4 DEF Waits
<1>9. ASSUME n = 0 PROVE Waits(f, t, v, a, l, d)
  <2>1. \A q \in 1 .. l : Comes(w, u, a, q) <=> Comes(t, v, a, q)
    BY <1>1, <1>9
  <2> QED BY <1>7, <2>1
<1>10. ASSUME n \in 1 .. l, u[1] # KeyOf(a[n]) PROVE Waits(f, t, v, a, l, d)
  <2>1. \A q \in 1 .. l : Comes(w, u, a, q) <=> Comes(t, v, a, q)
    BY <1>1, <1>10
  <2> QED BY <1>7, <2>1
<1>11. ASSUME n > l PROVE Waits(f, t, v, a, l, d) /\ (f # <<>> => f[1] > l /\ Waits(less, t, v, a, l, d))
  <2>1. \A q \in 1 .. l : ~ Comes(w, u, a, q) /\ ~ Comes(t, v, a, q) /\ ~ (q > d)
    BY <1>1, <1>6, <1>11
  <2>2. \A q \in 1 .. l : ~ InQueue(f, q)
    BY <1>4, <2>1
  <2>3. ASSUME f # <<>> PROVE f[1] > l
    <3>1. 1 \in 1 .. h
      BY <1>2, <1>3, <2>3
    <3>2. InQueue(f, f[1])
      BY <3>1 DEF InQueue, h
    <3> QED BY <1>2, <2>2, <3>1, <3>2
  <2>4. Waits(f, t, v, a, l, d)
    BY <1>7, <2>1
  <2> QED BY <1>8, <2>1, <2>3, <2>4
<1>12. ASSUME n \in 1 .. l, u[1] = KeyOf(a[n]) PROVE f # <<>> /\ f[1] = n /\ Waits(less, t, v, a, l, d)
  <2>1. InQueue(f, n)
    BY <1>1, <1>4, <1>12
  <2>2. PICK i \in 1 .. h : f[i] = n
    BY <2>1 DEF InQueue, h
  <2>3. f # <<>> /\ 1 \in 1 .. h
    BY <1>2, <2>2 DEF h
  <2>4. f[1] <= n
    <3>1. CASE i = 1
      BY <1>2, <2>2, <2>3, <3>1
    <3>2. CASE i # 1
      BY <1>4, <2>2, <2>3, <3>2
    <3> QED BY <3>1, <3>2
  <2>5. f[1] \in 1 .. l
    BY <1>2, <1>12, <2>3, <2>4
  <2>6. InQueue(f, f[1])
    BY <2>3 DEF InQueue, h
  <2>7. f[1] = n
    <3>1. Comes(w, u, a, f[1])
      BY <1>1, <1>4, <1>12, <2>4, <2>5, <2>6
    <3> QED BY <1>6, <1>12, <2>4, <2>5, <3>1
  <2>8. ~ Comes(t, v, a, n)
    <3> SUFFICES ASSUME Comes(t, v, a, n) PROVE FALSE
      OBVIOUS
    <3>1. PICK j \in 1 .. Len(t) : t[j].of = n /\ v[j] = KeyOf(a[n])
      BY DEF Comes
    <3>2. j + 1 \in 1 .. Len(w) /\ t[j] = w[j + 1] /\ v[j] = u[j + 1] /\ 1 \in 1 .. Len(w) /\ 1 < j + 1
      BY DEF t, v, Later
    <3>3. u[1] < u[j + 1]
      BY <1>12, <3>1, <3>2 DEF InPlaces, n
    <3>4. OnPlace(w, u, a, 1)
      BY <1>12, <3>2 DEF InPlaces, n
    <3>5. u[1] \in Int
      BY <3>4 DEF OnPlace
    <3> QED BY <1>12, <3>1, <3>2, <3>3, <3>5
  <2>9. \A q \in 1 .. l : q # n => (Comes(w, u, a, q) <=> Comes(t, v, a, q))
    BY <1>1
  <2> QED BY <1>1, <1>8, <1>12, <2>3, <2>7, <2>8, <2>9
<1> QED BY <1>9, <1>10, <1>11, <1>12 DEF t, v, n, less

ReplyModes == [m : {"first", "idle", "handshake", "columns", "rows", "stopped"},
               left : Int, eof : BOOLEAN, first : Nat]

RepliesTyped ==
  /\ replyProto \in {"mysql", "postgres", "redis"}
  /\ replyProto = "mysql" => dialect \in {"eof", "okEnd", "longEnd"}
  /\ replyProto = "redis" => dialect \in {"resp2", "resp3"}
  /\ issued \in Seq(DOMAIN R!Answers) /\ answered \in 0 .. Len(issued)
  /\ replyWire \in Seq(Messages) /\ \A i \in 1 .. Len(replyWire) : replyWire[i].of <= answered
  /\ fifo \in Seq(1 .. Len(issued))
  /\ mode \in ReplyModes
  /\ replyPairs \in Seq(Nat \X Nat \X Nat)

\* An entry of a command that is followed shows its own whole reply.
RepliesShown ==
  \A i \in 1 .. Len(replyPairs) :
    /\ replyPairs[i][1] \in 1 .. Len(issued)
    /\ replyPairs[i][1] <= Followed =>
         replyPairs[i][2] = replyPairs[i][1] /\ replyPairs[i][3] = replyPairs[i][1]

\* The reader of MySQL is ready for the j-th message of the answer b to n.
ModeFits(b, n, j) ==
  /\ j = 1 => mode.m \in {"first", "idle"}
  /\ j = 2 => mode.m = "columns" /\ mode.left = 1 /\ mode.first = n /\ ~ mode.eof
  /\ j >= 3 => mode.m = "rows" /\ mode.first = n /\ (mode.eof <=> Len(b) = 5 /\ j >= 4)

\* The last r messages of MySQL's opening are still to be read.
OpeningLeft(r) ==
  /\ r <= Len(replyWire)
  /\ \A i \in 1 .. r : replyWire[i] = [k |-> <<"greeting", "more", "OK">>[3 - r + i], of |-> 0]
  /\ \A i \in r + 1 .. Len(replyWire) : replyWire[i].of # 0
  /\ r = 3 => mode.m = "first"
  /\ r \in {1, 2} => mode.m = "handshake"

MysqlReads(u) ==
  /\ \E r \in 0 .. 3 : OpeningLeft(r)
  /\ replyWire = <<>> /\ answered <= Followed => mode.m \in {"first", "idle"}
  /\ replyWire # <<>> => (replyWire[1].of \in 1 .. Followed =>
                            ModeFits(AnswersTo[replyWire[1].of], replyWire[1].of, u[1]))

\* What no command asked for is no reply.
Unasked(s) == \A i \in 1 .. Len(replyWire) : replyWire[i].of = 0 => replyWire[i].k \in s

RepliesRead(u) ==
  /\ replyProto = "mysql" => MysqlReads(u)
  /\ replyProto = "postgres" => mode.m # "stopped" /\ Unasked({"R", "Z"})
  /\ replyProto = "redis" => Unasked({"push", "message"})

RepliesPlaced(u) ==
  /\ InPlaces(replyWire, u, AnswersTo, Followed)
  /\ Waits(fifo, replyWire, u, AnswersTo, Followed, answered)
  /\ RepliesRead(u)

RepliesSafe == RepliesTyped /\ RepliesShown /\ \E u : RepliesPlaced(u)

LEMMA AnswersAre ==
  ASSUME RepliesTyped
  PROVE  /\ Len(issued) \in Nat /\ Followed \in 0 .. Len(issued)
         /\ Followed = Upto(AwkwardOnes, Len(issued)) /\ AwkwardOnes \in SUBSET (1 .. Len(issued))
         /\ (R!FirstAwkward = 0 <=> Followed = Len(issued))
         /\ \A k \in DOMAIN R!Answers :
              /\ R!Answers[k] \in Seq(ReplyKinds) /\ TimesQueued(k) \in {0, 1, 2}
              /\ ~ R!Awkward(k) =>
                   /\ R!Answers[k] \in FollowedAnswers
                   /\ TimesQueued(k) = IF R!Answers[k] = <<>> THEN 0 ELSE 1
         /\ \A n \in 1 .. Len(issued) :
              issued[n] \in DOMAIN R!Answers /\ AnswersTo[n] = R!Answers[issued[n]]
         /\ \A n \in 1 .. Followed : AnswersTo[n] \in FollowedAnswers
<1>1. Len(issued) \in Nat /\ \A n \in 1 .. Len(issued) : issued[n] \in DOMAIN R!Answers
  BY DEF RepliesTyped
<1>2. \A k \in DOMAIN R!Answers :
        /\ R!Answers[k] \in Seq(ReplyKinds) /\ TimesQueued(k) \in {0, 1, 2}
        /\ ~ R!Awkward(k) =>
             /\ R!Answers[k] \in FollowedAnswers
             /\ TimesQueued(k) = IF R!Answers[k] = <<>> THEN 0 ELSE 1
  BY MysqlAnswers, PgAnswers, RedisAnswers DEF RepliesTyped
<1>3. AwkwardOnes \in SUBSET (1 .. Len(issued))
  BY DEF AwkwardOnes
<1>4. Followed = Upto(AwkwardOnes, Len(issued)) /\ (R!FirstAwkward = 0 <=> AwkwardOnes = {})
  BY <1>1, FollowedIs
<1>5. /\ Followed \in 0 .. Len(issued) /\ \A i \in 1 .. Followed : i \notin AwkwardOnes
      /\ (Followed = Len(issued) <=> AwkwardOnes = {})
  BY <1>1, <1>3, <1>4, UptoIs
<1>6. \A n \in 1 .. Len(issued) : AnswersTo[n] = R!Answers[issued[n]]
  BY DEF AnswersTo
<1>7. \A n \in 1 .. Followed : AnswersTo[n] \in FollowedAnswers
  <2> TAKE n \in 1 .. Followed
  <2>1. n \in 1 .. Len(issued) /\ n \notin AwkwardOnes
    BY <1>1, <1>5
  <2>2. ~ R!Awkward(issued[n]) /\ issued[n] \in DOMAIN R!Answers
    BY <1>1, <2>1 DEF AwkwardOnes
  <2> QED BY <1>2, <1>6, <2>1, <2>2
<1> QED BY <1>1, <1>2, <1>3, <1>4, <1>5, <1>6, <1>7

LEMMA FollowedMore ==
  ASSUME RepliesTyped, NEW k \in DOMAIN R!Answers, R!Command(k), RepliesTyped'
  PROVE  /\ Len(issued)' = Len(issued) + 1
         /\ Followed' = IF Followed = Len(issued) /\ ~ R!Awkward(k) THEN Len(issued) + 1 ELSE Followed
         /\ \A n \in 1 .. Len(issued) : AnswersTo'[n] = AnswersTo[n]
         /\ AnswersTo'[Len(issued) + 1] = R!Answers[k]
<1> DEFINE c == Len(issued)
<1>1. issued' = Append(issued, k) /\ UNCHANGED <<replyProto, dialect>>
  BY DEF R!Command
<1>2. /\ c \in Nat /\ Len(issued') = c + 1 /\ issued'[c + 1] = k
      /\ \A i \in 1 .. c : issued'[i] = issued[i]
  BY <1>1 DEF RepliesTyped
<1>3. R!Answers' = R!Answers
  BY <1>1 DEF R!Answers
<1>4. \A x : R!Awkward(x)' <=> R!Awkward(x)
  BY <1>1 DEF R!Awkward
<1>5. AnswersTo' = [n \in 1 .. c + 1 |-> R!Answers[issued'[n]]]
  BY <1>2, <1>3 DEF AnswersTo
<1>6. AwkwardOnes' = {i \in 1 .. c + 1 : R!Awkward(issued'[i])}
  BY <1>1, <1>2 DEF AwkwardOnes, R!Awkward
<1>7. /\ AwkwardOnes' \in SUBSET (1 .. c + 1) /\ AwkwardOnes \in SUBSET (1 .. c)
      /\ \A i \in 1 .. c : i \in AwkwardOnes' <=> i \in AwkwardOnes
      /\ c + 1 \in AwkwardOnes' <=> R!Awkward(k)
  BY <1>2, <1>6 DEF AwkwardOnes
<1>8. Followed = Upto(AwkwardOnes, c)
  BY AnswersAre
<1>9. Followed' = Upto(AwkwardOnes', c + 1)
  <2>1. Len(issued') \in Nat
    BY <1>2
  <2>2. (Len(issued) \in Nat
           => Followed = Upto(AwkwardOnes, Len(issued)) /\ (R!FirstAwkward = 0 <=> AwkwardOnes = {}))'
    BY FollowedIs, PTL
  <2> QED BY <1>2, <2>1, <2>2
<1>10. Upto(AwkwardOnes', c + 1) = IF Upto(AwkwardOnes, c) = c /\ c + 1 \notin AwkwardOnes' THEN c + 1 ELSE Upto(AwkwardOnes, c)
  BY <1>2, <1>7, UptoMore
<1>11. Followed' = IF Followed = c /\ ~ R!Awkward(k) THEN c + 1 ELSE Followed
  BY <1>7, <1>8, <1>9, <1>10
<1>12. \A n \in 1 .. c : AnswersTo'[n] = AnswersTo[n]
  <2> TAKE n \in 1 .. c
  <2>1. AnswersTo'[n] = R!Answers[issued'[n]]
    BY <1>2, <1>5
  <2>2. AnswersTo[n] = R!Answers[issued[n]]
    BY DEF AnswersTo
  <2> QED BY <1>2, <2>1, <2>2
<1>13. AnswersTo'[c + 1] = R!Answers[k]
  BY <1>2, <1>5
<1> QED BY <1>2, <1>11, <1>12, <1>13

LEMMA RepliesInit == ASSUME R!Init, dialect # "sslPrefer" PROVE RepliesSafe
<1>1. /\ replyProto \in {"mysql", "postgres", "redis"} /\ dialect \in R!Dialects[replyProto]
      /\ issued = <<>> /\ answered = 0 /\ fifo = <<>> /\ replyPairs = <<>>
      /\ mode = [m |-> "first", left |-> 0, eof |-> FALSE, first |-> 0]
  BY DEF R!Init, R!Ready
<1>2. /\ replyProto = "mysql" => dialect \in {"eof", "okEnd", "longEnd"}
      /\ replyProto = "redis" => dialect \in {"resp2", "resp3"}
  <2>1. R!Dialects["mysql"] = {"eof", "okEnd", "longEnd"} /\ R!Dialects["redis"] = {"resp2", "resp3"}
    BY DEF R!Dialects
  <2> QED BY <1>1, <2>1
<1>3. PICK o \in R!Opening[replyProto] : replyWire = R!Msgs(o, 0)
  BY DEF R!Init
<1>4. /\ replyProto = "mysql" => o \in {<<>>, <<"greeting", "more", "OK">>}
      /\ replyProto = "postgres" => o \in {<<>>, <<"R", "Z">>}
      /\ replyProto = "redis" => o = <<>>
  <2>1. /\ R!Opening["mysql"] = {<<>>, <<"greeting", "more", "OK">>}
        /\ R!Opening["postgres"] = {<<>>, <<"R", "Z">>}
        /\ R!Opening["redis"] = {<<>>}
    BY DEF R!Opening
  <2> QED BY <1>3, <2>1
<1>5. o \in Seq(ReplyKinds)
  <2>1. \A a, b, c \in ReplyKinds : {<<>>, <<a, b>>, <<a, b, c>>} \subseteq Seq(ReplyKinds)
    OBVIOUS
  <2>2. {"greeting", "more", "OK", "R", "Z"} \subseteq ReplyKinds
    BY DEF ReplyKinds
  <2>3. <<>> \in Seq(ReplyKinds) /\ <<"R", "Z">> \in Seq(ReplyKinds)
        /\ <<"greeting", "more", "OK">> \in Seq(ReplyKinds)
    BY <2>1, <2>2
  <2> QED BY <1>1, <1>4, <2>3
<1>6. /\ replyWire \in Seq(Messages) /\ Len(replyWire) = Len(o) /\ Len(o) \in Nat
      /\ \A i \in 1 .. Len(o) : replyWire[i] = [k |-> o[i], of |-> 0] /\ replyWire[i].of = 0
                                /\ replyWire[i].k = o[i]
  BY <1>3, <1>5 DEF R!Msgs, Messages
<1>7. RepliesTyped
  <2>1. mode \in ReplyModes
    BY <1>1 DEF ReplyModes
  <2>2. /\ issued \in Seq(DOMAIN R!Answers) /\ fifo \in Seq(1 .. Len(issued))
        /\ replyPairs \in Seq(Nat \X Nat \X Nat)
    BY <1>1
  <2>3. answered \in 0 .. Len(issued)
    BY <1>1
  <2>4. \A i \in 1 .. Len(replyWire) : replyWire[i].of <= answered
    <3>1. answered = 0
      BY <1>1
    <3>2. \A i \in 1 .. Len(replyWire) : replyWire[i].of = 0
      BY <1>6
    <3> QED BY <3>1, <3>2
  <2>5. replyProto \in {"mysql", "postgres", "redis"} /\ replyWire \in Seq(Messages)
    BY <1>1, <1>6
  <2> QED BY <1>2, <2>1, <2>2, <2>3, <2>4, <2>5 DEF RepliesTyped
<1>8. Followed = 0
  BY <1>1, <1>7, AnswersAre
<1> DEFINE u == [i \in Nat |-> i]
<1>9. InPlaces(replyWire, u, AnswersTo, Followed)
  <2>1. \A n \in Nat : n \notin 1 .. Followed
    BY <1>8
  <2>2. \A i \in 1 .. Len(replyWire) : replyWire[i].of = 0 /\ replyWire[i].of \notin 1 .. Followed
    BY <1>6, <2>1
  <2>3. \A i \in 1 .. Len(replyWire) - 1 : i + 1 \in 1 .. Len(replyWire)
    BY <1>6
  <2> QED BY <2>2, <2>3 DEF InPlaces
<1>10. Waits(fifo, replyWire, u, AnswersTo, Followed, answered)
  BY <1>1, <1>8 DEF Waits
<1>11. RepliesRead(u)
  <2>1. ASSUME replyProto = "mysql" PROVE MysqlReads(u)
    <3>1. ~ (replyWire # <<>> /\ replyWire[1].of \in 1 .. Followed)
      BY <1>8
    <3>2. mode.m = "first"
      BY <1>1
    <3>3. CASE o = <<>>
      <4>1. OpeningLeft(0)
        BY <1>6, <3>3 DEF OpeningLeft
      <4> QED BY <3>1, <3>2, <4>1 DEF MysqlReads
    <3>4. CASE o = <<"greeting", "more", "OK">>
      <4>1. Len(replyWire) = 3 /\ \A i \in 1 .. 3 : replyWire[i] = [k |-> o[i], of |-> 0]
        BY <1>6, <3>4
      <4>2. \A i \in 1 .. 3 : 3 - 3 + i = i
        OBVIOUS
      <4>3. OpeningLeft(3)
        BY <3>2, <3>4, <4>1, <4>2 DEF OpeningLeft
      <4> QED BY <3>1, <3>2, <4>3 DEF MysqlReads
    <3> QED BY <1>4, <2>1, <3>3, <3>4
  <2>2. ASSUME replyProto = "postgres" PROVE mode.m # "stopped" /\ Unasked({"R", "Z"})
    <3>1. \A i \in 1 .. Len(o) : o[i] \in {"R", "Z"}
      BY <1>4, <2>2
    <3> QED BY <1>1, <1>6, <3>1 DEF Unasked
  <2>3. ASSUME replyProto = "redis" PROVE Unasked({"push", "message"})
    BY <1>4, <1>6, <2>3 DEF Unasked
  <2> QED BY <2>1, <2>2, <2>3 DEF RepliesRead
<1>12. RepliesShown
  BY <1>1 DEF RepliesShown
<1> QED BY <1>7, <1>9, <1>10, <1>11, <1>12 DEF RepliesSafe, RepliesPlaced

LEMMA CommandTyped ==
  ASSUME RepliesTyped, NEW k \in DOMAIN R!Answers, R!Command(k)
  PROVE  /\ RepliesTyped'
         /\ fifo' = fifo \o [i \in 1 .. TimesQueued(k) |-> Len(issued) + 1]
         /\ UNCHANGED <<replyProto, dialect, answered, replyWire, mode, replyPairs>>
<1>1. /\ issued' = Append(issued, k)
      /\ UNCHANGED <<replyProto, dialect, answered, replyWire, mode, replyPairs>>
      /\ fifo' = fifo \o [i \in 1 .. TimesQueued(k) |-> Len(issued')]
  BY DEF R!Command, TimesQueued
<1>2. Len(issued) \in Nat /\ Len(issued') = Len(issued) + 1 /\ R!Answers' = R!Answers
      /\ issued' \in Seq(DOMAIN R!Answers)
  BY <1>1 DEF RepliesTyped, R!Answers
<1>3. TimesQueued(k) \in Nat
  BY AnswersAre
<1> DEFINE e == [i \in 1 .. TimesQueued(k) |-> Len(issued')]
           all == 1 .. Len(issued')
<1>4. e \in Seq(all) /\ fifo \in Seq(all)
  <2>1. Len(issued') \in all /\ 1 .. Len(issued) \subseteq all
    BY <1>2
  <2> HIDE DEF all
  <2>2. e \in Seq(all)
    BY <1>3, <2>1
  <2>3. fifo \in Seq(1 .. Len(issued))
    BY DEF RepliesTyped
  <2>4. fifo \in [1 .. Len(fifo) -> all] /\ Len(fifo) \in Nat
    BY <2>1, <2>3
  <2>5. fifo \in Seq(all)
    BY <2>4, SeqDef
  <2> QED BY <2>2, <2>5
<1>5. fifo' \in Seq(all)
  <2>1. fifo' = fifo \o e
    BY <1>1
  <2> HIDE DEF e, all
  <2> QED BY <1>4, <2>1
<1>6. answered \in 0 .. Len(issued')
  BY <1>2 DEF RepliesTyped
<1> QED BY <1>1, <1>2, <1>5, <1>6 DEF RepliesTyped, all

LEMMA CommandSafe ==
  ASSUME RepliesSafe, NEW k \in DOMAIN R!Answers, R!Command(k) PROVE RepliesSafe'
<1> DEFINE c == Len(issued)
<1>1. RepliesTyped /\ RepliesShown
  BY DEF RepliesSafe
<1>2. PICK u : RepliesPlaced(u)
  BY DEF RepliesSafe
<1>3. /\ RepliesTyped' /\ fifo' = fifo \o [i \in 1 .. TimesQueued(k) |-> c + 1]
      /\ UNCHANGED <<replyProto, dialect, answered, replyWire, mode, replyPairs>>
  BY <1>1, CommandTyped
<1>4. /\ Len(issued)' = c + 1
      /\ Followed' = IF Followed = c /\ ~ R!Awkward(k) THEN c + 1 ELSE Followed
      /\ \A n \in 1 .. c : AnswersTo'[n] = AnswersTo[n]
      /\ AnswersTo'[c + 1] = R!Answers[k]
  BY <1>1, <1>3, FollowedMore
<1>5. /\ c \in Nat /\ Followed \in 0 .. c /\ TimesQueued(k) \in {0, 1, 2}
      /\ ~ R!Awkward(k) => TimesQueued(k) = IF R!Answers[k] = <<>> THEN 0 ELSE 1
  BY <1>1, AnswersAre
<1>6. /\ answered \in 0 .. c /\ replyWire \in Seq(Messages) /\ fifo \in Seq(1 .. c)
      /\ \A i \in 1 .. Len(replyWire) : replyWire[i].of <= answered
  BY <1>1 DEF RepliesTyped
<1> HIDE DEF c
<1>7. /\ Followed' \in Followed .. c + 1 /\ Followed' \in Nat /\ Followed <= Followed'
      /\ Followed' = Followed \/ (Followed' = c + 1 /\ Followed = c
                                    /\ TimesQueued(k) = IF AnswersTo'[c + 1] = <<>> THEN 0 ELSE 1)
      /\ \A n \in 1 .. Followed : AnswersTo'[n] = AnswersTo[n]
      /\ \A n \in Nat : n <= answered /\ n \in 1 .. Followed' => n \in 1 .. Followed
  BY <1>4, <1>5, <1>6
<1>8. \A i \in 1 .. Len(replyWire) : replyWire[i].of \in 1 .. Followed' => replyWire[i].of \in 1 .. Followed
  BY <1>6, <1>7
<1>9. InPlaces(replyWire, u, AnswersTo', Followed')
  <2>1. InPlaces(replyWire, u, AnswersTo, Followed)
    BY <1>2 DEF RepliesPlaced
  <2> HIDE DEF AnswersTo
  <2> QED BY <1>5, <1>6, <1>7, <1>8, <2>1, SamePlaces
<1>10. Waits(fifo', replyWire, u, AnswersTo', Followed', answered)
  <2>1. Waits(fifo, replyWire, u, AnswersTo, Followed, answered)
    BY <1>2 DEF RepliesPlaced
  <2> QED BY <1>3, <1>5, <1>6, <1>7, <2>1, CommandWaits
<1>11. RepliesRead(u)'
  <2>1. RepliesRead(u)
    BY <1>2 DEF RepliesPlaced
  <2>2. ASSUME replyProto = "mysql" PROVE MysqlReads(u)'
    <3>1. MysqlReads(u)
      BY <2>1, <2>2 DEF RepliesRead
    <3>2. \A r \in 0 .. 3 : OpeningLeft(r) => OpeningLeft(r)'
      BY <1>3 DEF OpeningLeft
    <3>3. answered <= Followed' => answered <= Followed
      BY <1>4, <1>5, <1>6
    <3>4. ASSUME replyWire # <<>>, replyWire[1].of \in 1 .. Followed'
          PROVE  ModeFits(AnswersTo[replyWire[1].of], replyWire[1].of, u[1])'
      <4>1. replyWire[1].of \in 1 .. Followed
        <5>1. 1 \in 1 .. Len(replyWire)
          BY <1>6, <3>4
        <5> QED BY <1>8, <3>4, <5>1
      <4>2. AnswersTo'[replyWire[1].of] = AnswersTo[replyWire[1].of]
        BY <1>7, <4>1
      <4>3. ModeFits(AnswersTo[replyWire[1].of], replyWire[1].of, u[1])
        BY <3>1, <3>4, <4>1 DEF MysqlReads
      <4> QED BY <1>3, <4>2, <4>3 DEF ModeFits
    <3>5. (\E r \in 0 .. 3 : OpeningLeft(r))'
      BY <3>1, <3>2 DEF MysqlReads
    <3> QED BY <1>3, <3>1, <3>3, <3>4, <3>5 DEF MysqlReads
  <2> QED BY <1>3, <2>1, <2>2 DEF RepliesRead, Unasked
<1>12. RepliesShown'
  <2> SUFFICES ASSUME NEW i \in 1 .. Len(replyPairs)
               PROVE  /\ replyPairs[i][1] \in 1 .. c + 1
                      /\ replyPairs[i][1] <= Followed' =>
                           replyPairs[i][2] = replyPairs[i][1] /\ replyPairs[i][3] = replyPairs[i][1]
    BY <1>3, <1>4 DEF RepliesShown
  <2>1. replyPairs[i][1] \in 1 .. c
    BY <1>1 DEF RepliesShown, c
  <2>2. replyPairs[i][1] <= Followed' => replyPairs[i][1] <= Followed
    BY <1>4, <1>5, <2>1
  <2> QED BY <1>1, <1>5, <2>1, <2>2 DEF RepliesShown
<1>13. RepliesPlaced(u)'
  BY <1>3, <1>9, <1>10, <1>11 DEF RepliesPlaced
<1> QED BY <1>3, <1>12, <1>13 DEF RepliesSafe

\* The answer to the next command, or a push, comes to the wire.
LEMMA WireMore ==
  ASSUME RepliesSafe, NEW n \in Nat, NEW b \in Seq(ReplyKinds),
         n # 0 => n = answered + 1 /\ n \in 1 .. Len(issued) /\ b = AnswersTo[n],
         n = 0 => replyProto = "redis" /\ \A i \in 1 .. Len(b) : b[i] \in {"push", "message"},
         replyWire' = replyWire \o R!Msgs(b, n), answered' = IF n = 0 THEN answered ELSE n,
         UNCHANGED <<replyProto, dialect, issued, fifo, mode, replyPairs>>
  PROVE  RepliesSafe'
<1>1. RepliesTyped /\ RepliesShown
  BY DEF RepliesSafe
<1>2. PICK u : RepliesPlaced(u)
  BY DEF RepliesSafe
<1> DEFINE d == Len(replyWire)
<1>0. PICK v : v = Longer(u, d)
  OBVIOUS
<1>3. AnswersTo' = AnswersTo /\ Followed' = Followed /\ R!Answers' = R!Answers
  BY DEF AnswersTo, Followed, R!FirstAwkward, R!SelectInSeq, R!Awkward, R!Answers
<1>4. Followed \in Nat /\ Followed <= Len(issued) /\ Len(issued) \in Nat
  BY <1>1, AnswersAre
<1>5. replyWire \in Seq(Messages) /\ d \in Nat /\ answered \in Nat
      /\ \A i \in 1 .. d : replyWire[i].of <= answered /\ replyWire[i] \in Messages
  BY <1>1 DEF RepliesTyped
<1>6. n = 0 \/ \A i \in 1 .. d : replyWire[i].of < n
  BY <1>5 DEF Messages
<1>7. n \in 1 .. Followed => AnswersTo[n] = b
  BY <1>4
<1>8. InPlaces(replyWire, u, AnswersTo, Followed)
      /\ Waits(fifo, replyWire, u, AnswersTo, Followed, answered) /\ RepliesRead(u)
  BY <1>2 DEF RepliesPlaced
<1> HIDE DEF AnswersTo, Followed
<1>9. /\ replyWire' \in Seq(Messages) /\ Len(replyWire') = d + Len(b)
      /\ \A i \in 1 .. d : replyWire'[i] = replyWire[i] /\ v[i] = u[i]
      /\ \A i \in 1 .. Len(b) : replyWire'[d + i] = [k |-> b[i], of |-> n] /\ v[d + i] = i
      /\ InPlaces(replyWire', v, AnswersTo, Followed)
  BY <1>0, <1>4, <1>5, <1>6, <1>7, <1>8, MorePlaces
<1>10. Waits(fifo, replyWire', v, AnswersTo, Followed, answered')
  <2>1. answered' \in Nat /\ answered' = (IF n = 0 THEN answered ELSE answered + 1)
    BY <1>5
  <2> QED BY <1>0, <1>4, <1>5, <1>6, <1>7, <1>8, <2>1, AnswerWaits
<1> HIDE DEF d
<1>11. \A i \in 1 .. d + Len(b) : i \in 1 .. d \/ (i - d \in 1 .. Len(b) /\ replyWire'[i] = [k |-> b[i - d], of |-> n])
  <2> TAKE i \in 1 .. d + Len(b)
  <2>1. Len(b) \in Nat /\ (i \in 1 .. d \/ (i - d \in 1 .. Len(b) /\ i = d + (i - d)))
    BY <1>5
  <2> QED BY <1>9, <2>1
<1>12. \A i \in 1 .. Len(replyWire') : i \in 1 .. d
         \/ (i - d \in 1 .. Len(b) /\ replyWire'[i].k = b[i - d] /\ replyWire'[i].of = n)
  <2>1. Len(replyWire') = d + Len(b)
    BY <1>9
  <2>2. ASSUME NEW i \in 1 .. d + Len(b), i \notin 1 .. d
        PROVE  i - d \in 1 .. Len(b) /\ replyWire'[i].k = b[i - d] /\ replyWire'[i].of = n
    <3>1. i - d \in 1 .. Len(b) /\ replyWire'[i] = [k |-> b[i - d], of |-> n]
      BY <1>11, <2>2
    <3> QED BY <3>1
  <2> QED BY <2>1, <2>2
<1>13. RepliesTyped'
  <2>1. answered' \in 0 .. Len(issued)
    BY <1>1 DEF RepliesTyped
  <2>2. ASSUME NEW i \in 1 .. Len(replyWire') PROVE replyWire'[i].of <= answered'
    <3>1. CASE i \in 1 .. d
      <4>1. replyWire'[i] = replyWire[i] /\ replyWire[i].of <= answered /\ replyWire[i] \in Messages
        BY <1>5, <1>9, <3>1
      <4>2. replyWire[i].of \in Nat /\ answered' \in Nat /\ answered <= answered'
        BY <1>5, <4>1 DEF Messages
      <4> QED BY <1>5, <4>1, <4>2
    <3>2. CASE i \notin 1 .. d
      BY <1>5, <1>12, <3>2
    <3> QED BY <3>1, <3>2
  <2> QED BY <1>1, <1>3, <1>9, <2>1, <2>2 DEF RepliesTyped
<1>14. RepliesShown'
  BY <1>1, <1>3 DEF RepliesShown
<1>15. ASSUME NEW s, Unasked(s), n = 0 => \A i \in 1 .. Len(b) : b[i] \in s PROVE Unasked(s)'
  <2> SUFFICES ASSUME NEW i \in 1 .. Len(replyWire'), replyWire'[i].of = 0 PROVE replyWire'[i].k \in s
    BY DEF Unasked
  <2>1. CASE i \in 1 .. d
    BY <1>9, <1>15, <2>1 DEF Unasked, d
  <2>2. CASE i \notin 1 .. d
    BY <1>12, <1>15, <2>2
  <2> QED BY <2>1, <2>2
<1>16. ASSUME replyProto = "mysql" PROVE MysqlReads(v)'
  <2>1. MysqlReads(u) /\ n # 0
    BY <1>8, <1>16 DEF RepliesRead
  <2>2. PICK r \in 0 .. 3 : OpeningLeft(r)
    BY <2>1 DEF MysqlReads
  <2>3. OpeningLeft(r)'
    <3>1. r \in 0 .. d /\ \A i \in 1 .. r : i \in 1 .. d
      BY <1>5, <2>2 DEF OpeningLeft, d
    <3>2. \A i \in 1 .. r : replyWire'[i] = replyWire[i]
      BY <1>9, <3>1
    <3>3. ASSUME NEW i \in r + 1 .. Len(replyWire') PROVE replyWire'[i].of # 0
      <4>1. i \in 1 .. Len(replyWire')
        BY <3>1
      <4>2. CASE i \in 1 .. d
        <5>1. i \in r + 1 .. Len(replyWire)
          BY <3>3, <4>2 DEF d
        <5> QED BY <1>9, <2>2, <4>2, <5>1 DEF OpeningLeft
      <4>3. CASE i \notin 1 .. d
        BY <1>12, <2>1, <4>1, <4>3
      <4> QED BY <4>2, <4>3
    <3>4. r <= Len(replyWire')
      BY <1>5, <1>9, <3>1
    <3> QED BY <2>2, <3>2, <3>3, <3>4 DEF OpeningLeft
  <2>4. replyWire' = <<>> /\ answered' <= Followed => mode.m \in {"first", "idle"}
    <3> SUFFICES ASSUME replyWire' = <<>>, answered' <= Followed PROVE mode.m \in {"first", "idle"}
      OBVIOUS
    <3>1. d = 0 /\ answered <= Followed
      BY <1>4, <1>5, <1>9, <2>1
    <3>2. replyWire = <<>>
      BY <1>5, <3>1 DEF d
    <3> QED BY <2>1, <3>1, <3>2 DEF MysqlReads
  <2>5. ASSUME replyWire' # <<>>, replyWire'[1].of \in 1 .. Followed
        PROVE  ModeFits(AnswersTo[replyWire'[1].of], replyWire'[1].of, v[1])
    <3>1. CASE replyWire = <<>>
      <4>1. d = 0 /\ Len(b) >= 1
        BY <1>9, <2>5, <3>1 DEF d
      <4>2. d + 1 = 1 /\ 1 \in 1 .. Len(b)
        BY <4>1
      <4>3. replyWire'[1].of = n /\ v[1] = 1
        <5>1. replyWire'[d + 1] = [k |-> b[1], of |-> n] /\ v[d + 1] = 1
          BY <1>9, <4>2
        <5>2. replyWire'[1] = [k |-> b[1], of |-> n] /\ v[1] = 1
          BY <4>2, <5>1
        <5> QED BY <5>2
      <4>4. answered <= Followed
        BY <1>4, <1>5, <2>1, <2>5, <4>3
      <4>5. mode.m \in {"first", "idle"}
        BY <2>1, <3>1, <4>4 DEF MysqlReads
      <4> QED BY <4>3, <4>5 DEF ModeFits
    <3>2. CASE replyWire # <<>>
      <4>1. 1 \in 1 .. d
        BY <1>5, <3>2 DEF d
      <4>2. replyWire'[1] = replyWire[1] /\ v[1] = u[1]
        BY <1>9, <4>1
      <4> QED BY <2>1, <2>5, <3>2, <4>2 DEF MysqlReads
    <3> QED BY <3>1, <3>2
  <2>6. (\E q \in 0 .. 3 : OpeningLeft(q))'
    BY <2>3
  <2>7. replyWire' # <<>> => (replyWire'[1].of \in 1 .. Followed' =>
           ModeFits(AnswersTo[replyWire[1].of], replyWire[1].of, v[1])')
    BY <1>3, <2>5 DEF ModeFits
  <2> QED BY <1>3, <2>4, <2>6, <2>7 DEF MysqlReads
<1>17. RepliesRead(v)'
  BY <1>8, <1>15, <1>16 DEF RepliesRead
<1>18. RepliesPlaced(v)'
  BY <1>3, <1>9, <1>10, <1>17 DEF RepliesPlaced
<1> QED BY <1>13, <1>14, <1>18 DEF RepliesSafe

LEMMA AnswerSafe == ASSUME RepliesSafe, R!Answer PROVE RepliesSafe'
<1>1. RepliesTyped
  BY DEF RepliesSafe
<1> DEFINE n == answered + 1
           b == AnswersTo[n]
<1>2. n \in 1 .. Len(issued) /\ n \in Nat /\ n # 0
  BY <1>1 DEF R!Answer, RepliesTyped
<1>3. b = R!Answers[issued[n]] /\ b \in Seq(ReplyKinds)
  BY <1>1, <1>2, AnswersAre
<1>4. /\ replyWire' = replyWire \o R!Msgs(b, n) /\ answered' = n
      /\ UNCHANGED <<replyProto, dialect, issued, fifo, mode, replyPairs>>
  BY <1>3 DEF R!Answer
<1> HIDE DEF b
<1> QED BY <1>2, <1>3, <1>4, WireMore DEF b

LEMMA PublishSafe == ASSUME RepliesSafe, R!Publish PROVE RepliesSafe'
<1> DEFINE b == <<IF dialect = "resp3" THEN "push" ELSE "message">>
<1>1. b \in Seq(ReplyKinds) /\ \A i \in 1 .. Len(b) : b[i] \in {"push", "message"}
  <2>1. (IF dialect = "resp3" THEN "push" ELSE "message") \in ReplyKinds
    BY DEF ReplyKinds
  <2> QED BY <2>1
<1>2. /\ replyProto = "redis" /\ replyWire' = replyWire \o R!Msgs(b, 0)
      /\ UNCHANGED <<replyProto, dialect, issued, answered, fifo, mode, replyPairs>>
  BY DEF R!Publish
<1> HIDE DEF b
<1> QED BY <1>1, <1>2, WireMore

LEMMA RowsMode ==
  ASSUME NEW x \in ReplyModes, NEW m \in {"rows", x.m}
  PROVE  [x EXCEPT !.left = @ - 1, !.m = m] \in ReplyModes
<1>1. x.left - 1 \in Int /\ m \in {"first", "idle", "handshake", "columns", "rows", "stopped"}
  BY DEF ReplyModes
<1>2. [x EXCEPT !.left = @ - 1] \in ReplyModes
  BY <1>1 DEF ReplyModes
<1>3. [[x EXCEPT !.left = @ - 1] EXCEPT !.m = m] \in ReplyModes
  BY <1>1, <1>2 DEF ReplyModes
<1> QED BY <1>3

LEMMA MysqlReply ==
  ASSUME NEW b \in {<<"OK">>, <<"ERR">>, <<"cols", "def", "EOF", "row", "EOF">>,
                    <<"cols", "def", "row", "END">>},
         NEW n \in Nat, NEW j \in 1 .. Len(b), NEW msg, msg.k = b[j], msg.of = n,
         mode \in ReplyModes, ModeFits(b, n, j), R!mysqlResponses(msg)
  PROVE  IF j = Len(b) THEN R!completeResponse(n, n) /\ mode' = R!Ready
         ELSE /\ UNCHANGED <<fifo, replyPairs>> /\ mode' \in ReplyModes
              /\ ModeFits(b, n, j + 1)'
<1>1. CASE b = <<"OK">> \/ b = <<"ERR">>
  <2>1. j = 1 /\ Len(b) = 1 /\ msg.k \in {"OK", "ERR"}
    BY <1>1
  <2>2. mode.m \in {"first", "idle"}
    BY <2>1 DEF ModeFits
  <2> QED BY <2>1, <2>2 DEF R!mysqlResponses, R!readMySQLResultSet
<1>2. CASE b = <<"cols", "def", "EOF", "row", "EOF">> \/ b = <<"cols", "def", "row", "END">>
  <2>1. /\ b = <<"cols", "def", "EOF", "row", "EOF">> => Len(b) = 5
        /\ b = <<"cols", "def", "row", "END">> => Len(b) = 4
    OBVIOUS
  <2>2. CASE j = 1
    <3>1. msg.k = "cols" /\ mode.m \in {"first", "idle"} /\ R!mysqlLenEncInt(msg.k) = 1
      BY <1>2, <2>2 DEF ModeFits, R!mysqlLenEncInt
    <3>2. mode' = [m |-> "columns", left |-> 1, eof |-> FALSE, first |-> n]
          /\ UNCHANGED <<fifo, replyPairs>>
      BY <3>1 DEF R!mysqlResponses, R!readMySQLResultSet, R!NoReply
    <3>3. mode' \in ReplyModes
      BY <3>2 DEF ReplyModes
    <3>4. j # Len(b) /\ j + 1 = 2
      BY <1>2, <2>1, <2>2
    <3>5. mode'.m = "columns" /\ mode'.left = 1 /\ mode'.first = n /\ ~ mode'.eof
      BY <3>2
    <3>6. ModeFits(b, n, j + 1)'
      BY <3>4, <3>5 DEF ModeFits
    <3> QED BY <3>2, <3>3, <3>4, <3>6
  <2>3. CASE j = 2
    <3>1. mode.m = "columns" /\ mode.left = 1 /\ mode.first = n /\ ~ mode.eof
      BY <2>3 DEF ModeFits
    <3>2. mode' = [mode EXCEPT !.left = @ - 1, !.m = "rows"] /\ UNCHANGED <<fifo, replyPairs>>
      BY <3>1 DEF R!mysqlResponses, R!readMySQLResultSet, R!NoReply
    <3>3. mode' \in ReplyModes
      BY <3>2, RowsMode
    <3>4. mode'.m = "rows" /\ mode'.first = n /\ ~ mode'.eof
      BY <3>1, <3>2 DEF ReplyModes
    <3>5. j # Len(b) /\ j + 1 = 3
      <4>1. Len(b) \in {4, 5}
        BY <1>2, <2>1
      <4> QED BY <2>3, <4>1
    <3>6. ModeFits(b, n, j + 1)'
      BY <3>4, <3>5 DEF ModeFits
    <3> QED BY <3>2, <3>3, <3>5, <3>6
  <2>4. CASE j >= 3
    <3>1. mode.m = "rows" /\ mode.first = n /\ (mode.eof <=> Len(b) = 5 /\ j >= 4)
      BY <2>4 DEF ModeFits
    <3>2. \/ msg.k = "EOF" /\ ~mode.eof /\ R!NoReply([mode EXCEPT !.eof = TRUE])
          \/ /\ msg.k = "END" \/ (msg.k = "EOF" /\ mode.eof)
             /\ R!completeResponse(n, n) /\ mode' = R!Ready
          \/ msg.k \notin {"EOF", "END"} /\ R!NoReply(mode)
      BY <3>1 DEF R!mysqlResponses, R!readMySQLResultSet
    <3>3. CASE b = <<"cols", "def", "EOF", "row", "EOF">> /\ j = 3
      <4>1. msg.k = "EOF" /\ Len(b) = 5 /\ ~ mode.eof
        BY <2>1, <3>1, <3>3
      <4>2. mode' = [mode EXCEPT !.eof = TRUE] /\ UNCHANGED <<fifo, replyPairs>>
        BY <3>2, <4>1 DEF R!NoReply
      <4>3. mode' \in ReplyModes /\ mode'.m = "rows" /\ mode'.first = n /\ mode'.eof = TRUE
        BY <3>1, <4>2 DEF ReplyModes
      <4> QED BY <3>3, <4>1, <4>2, <4>3 DEF ModeFits
    <3>4. CASE b = <<"cols", "def", "EOF", "row", "EOF">> /\ j = 4
      <4>1. msg.k = "row" /\ Len(b) = 5 /\ mode.eof
        BY <2>1, <3>1, <3>4
      <4>2. UNCHANGED <<mode, fifo, replyPairs>>
        BY <3>2, <4>1 DEF R!NoReply
      <4> QED BY <3>1, <3>4, <4>1, <4>2 DEF ModeFits
    <3>5. CASE b = <<"cols", "def", "EOF", "row", "EOF">> /\ j = 5
      <4>1. msg.k = "EOF" /\ Len(b) = 5 /\ mode.eof
        BY <2>1, <3>1, <3>5
      <4> QED BY <3>2, <3>5, <4>1
    <3>6. CASE b = <<"cols", "def", "row", "END">> /\ j = 3
      <4>1. msg.k = "row" /\ Len(b) = 4 /\ ~ mode.eof
        BY <2>1, <3>1, <3>6
      <4>2. UNCHANGED <<mode, fifo, replyPairs>>
        BY <3>2, <4>1 DEF R!NoReply
      <4> QED BY <3>1, <3>6, <4>1, <4>2 DEF ModeFits
    <3>7. CASE b = <<"cols", "def", "row", "END">> /\ j = 4
      <4>1. msg.k = "END" /\ Len(b) = 4
        BY <3>7
      <4> QED BY <3>2, <3>7, <4>1
    <3> QED BY <1>2, <2>1, <2>4, <3>3, <3>4, <3>5, <3>6, <3>7
  <2> QED BY <2>1, <2>2, <2>3, <2>4
<1> QED BY <1>1, <1>2

LEMMA MysqlOpens ==
  ASSUME NEW r \in 1 .. 3, OpeningLeft(r), mode \in ReplyModes, replyWire \in Seq(Messages),
         R!mysqlResponses(Head(replyWire))
  PROVE  /\ UNCHANGED <<fifo, replyPairs>> /\ mode' \in ReplyModes
         /\ mode'.m = IF r = 1 THEN "idle" ELSE "handshake"
<1>1. replyWire # <<>> /\ Head(replyWire) = replyWire[1]
  BY DEF OpeningLeft
<1>2. Head(replyWire).k = <<"greeting", "more", "OK">>[3 - r + 1]
  <2>1. replyWire[1] = [k |-> <<"greeting", "more", "OK">>[3 - r + 1], of |-> 0]
    BY DEF OpeningLeft
  <2> QED BY <1>1, <2>1
<1>3. CASE r = 3
  <2>1. Head(replyWire).k = "greeting" /\ mode.m = "first"
    BY <1>2, <1>3 DEF OpeningLeft
  <2>2. mode' = [mode EXCEPT !.m = "handshake"] /\ UNCHANGED <<fifo, replyPairs>>
    BY <2>1 DEF R!mysqlResponses, R!readMySQLResultSet, R!NoReply
  <2> QED BY <1>3, <2>2 DEF ReplyModes
<1>4. CASE r = 2
  <2>1. Head(replyWire).k = "more" /\ mode.m = "handshake"
    BY <1>2, <1>4 DEF OpeningLeft
  <2>2. UNCHANGED <<mode, fifo, replyPairs>>
    BY <2>1 DEF R!mysqlResponses, R!readMySQLResultSet, R!NoReply
  <2> QED BY <1>4, <2>1, <2>2
<1>5. CASE r = 1
  <2>1. Head(replyWire).k = "OK" /\ mode.m = "handshake"
    BY <1>2, <1>5 DEF OpeningLeft
  <2>2. mode' = R!Ready /\ UNCHANGED <<fifo, replyPairs>>
    BY <2>1 DEF R!mysqlResponses, R!readMySQLResultSet, R!NoReply
  <2> QED BY <1>5, <2>2 DEF R!Ready, ReplyModes
<1> QED BY <1>3, <1>4, <1>5

\* Whatever is read, a reply takes the head of the queue or nothing does.
MaybeReply == \/ UNCHANGED <<fifo, replyPairs>>
              \/ \E x, y \in Nat : R!completeResponse(x, y)

LEMMA ReadyMode == R!Ready \in ReplyModes /\ R!Ready.m = "idle"
BY DEF R!Ready, ReplyModes

LEMMA AnyReply ==
  ASSUME NEW msg \in Messages, mode \in ReplyModes,
         R!mysqlResponses(msg) \/ R!pgResponses(msg) \/ R!redisReplies(msg)
  PROVE  mode' \in ReplyModes /\ MaybeReply
<1>1. msg.of \in Nat /\ mode.first \in Nat
  BY DEF Messages, ReplyModes
<1>2. ASSUME NEW m \in ReplyModes, R!NoReply(m) PROVE mode' \in ReplyModes /\ MaybeReply
  BY <1>2 DEF R!NoReply, MaybeReply
<1>3. ASSUME NEW x \in Nat, NEW y \in Nat, R!completeResponse(x, y), mode' = R!Ready
      PROVE  mode' \in ReplyModes /\ MaybeReply
  BY <1>3, ReadyMode DEF MaybeReply
<1>4. \A m \in {"handshake", "stopped"} :
        [mode EXCEPT !.m = m] \in ReplyModes /\ [R!Ready EXCEPT !.m = m] \in ReplyModes
  BY ReadyMode DEF ReplyModes
<1>5. /\ [mode EXCEPT !.eof = TRUE] \in ReplyModes
      /\ [mode EXCEPT !.left = @ - 1, !.m = IF mode.left = 1 THEN "rows" ELSE @] \in ReplyModes
  <2>1. [mode EXCEPT !.eof = TRUE] \in ReplyModes
    BY DEF ReplyModes
  <2>2. (IF mode.left = 1 THEN "rows" ELSE mode.m) \in {"rows", mode.m}
    OBVIOUS
  <2> QED BY <2>1, <2>2, RowsMode
<1>6. [m |-> "columns", left |-> R!mysqlLenEncInt(msg.k), eof |-> FALSE, first |-> msg.of] \in ReplyModes
  <2>1. R!mysqlLenEncInt(msg.k) \in Int
    BY CaptureAssumption DEF R!mysqlLenEncInt, R!ReplyAssumption
  <2> QED BY <1>1, <2>1 DEF ReplyModes
<1>7. CASE R!mysqlResponses(msg)
  <2>1. CASE R!readMySQLResultSet(msg)
    BY <1>1, <1>2, <1>3, <1>5, <2>1 DEF R!readMySQLResultSet
  <2>2. CASE mode.m = "first" /\ msg.k = "greeting" /\ R!NoReply([mode EXCEPT !.m = "handshake"])
    BY <1>2, <1>4, <2>2
  <2>3. CASE R!NoReply(IF msg.k \in {"OK", "ERR"} THEN R!Ready ELSE mode)
    BY <1>2, <2>3, ReadyMode
  <2>4. CASE IF msg.k \in {"OK", "ERR"} \/ R!mysqlLenEncInt(msg.k) = 0
             THEN R!completeResponse(msg.of, msg.of) /\ mode' = R!Ready
             ELSE R!NoReply([m |-> "columns", left |-> R!mysqlLenEncInt(msg.k), eof |-> FALSE,
                      first |-> msg.of])
    BY <1>1, <1>2, <1>3, <1>6, <2>4
  <2> QED BY <1>7, <2>1, <2>2, <2>3, <2>4 DEF R!mysqlResponses
<1>8. CASE R!pgResponses(msg)
  BY <1>1, <1>2, <1>3, <1>4, <1>8, ReadyMode DEF R!pgResponses
<1>9. CASE R!redisReplies(msg)
  BY <1>1, <1>2, <1>3, <1>9, ReadyMode DEF R!redisReplies
<1> QED BY <1>7, <1>8, <1>9

\* What a message does, by what it answers.
ReadDoes(n, j, b) ==
  /\ n \in 1 .. Followed => IF j = KeyOf(b) THEN R!completeResponse(n, n)
                            ELSE UNCHANGED <<fifo, replyPairs>>
  /\ n = 0 => UNCHANGED <<fifo, replyPairs>>

LEMMA PgReply ==
  ASSUME NEW b \in {<<"T", "D", "C", "Z">>, <<"I", "Z">>, <<"E", "Z">>}, NEW j \in 1 .. Len(b)
  PROVE  b[j] \in {"C", "E", "I"} <=> j = KeyOf(b)
<1>1. CASE b = <<"T", "D", "C", "Z">>
  <2>1. KeyOf(b) = 3 /\ Len(b) = 4
    BY <1>1 DEF KeyOf
  <2>2. j \in {1, 2, 3, 4}
    BY <2>1
  <2>3. b[1] = "T" /\ b[2] = "D" /\ b[3] = "C" /\ b[4] = "Z"
    BY <1>1
  <2> QED BY <2>1, <2>2, <2>3
<1>2. CASE b = <<"I", "Z">> \/ b = <<"E", "Z">>
  <2>1. Len(b) = 2 /\ b[2] = "Z" /\ b[1] \in {"I", "E"}
    BY <1>2
  <2>2. b # <<"T", "D", "C", "Z">>
    BY <2>1
  <2>3. KeyOf(b) = 1
    BY <1>2, <2>2 DEF KeyOf
  <2>4. j \in {1, 2}
    BY <2>1
  <2> QED BY <2>1, <2>3, <2>4
<1> QED BY <1>1, <1>2

\* The places of a wire whose head is read.
HeadAt(u, b, n, j) ==
  /\ j \in 1 .. Len(b) /\ Len(b) \in Nat /\ b # <<>> /\ b \in FollowedAnswers
  /\ Head(replyWire).k = b[j]
  /\ j < Len(b) => Tail(replyWire) # <<>> /\ Tail(replyWire)[1].of = n /\ Later(u)[1] = j + 1
  /\ j = Len(b) /\ Tail(replyWire) # <<>> /\ Tail(replyWire)[1].of \in 1 .. Followed =>
       Later(u)[1] = 1

LEMMA HeadPlace ==
  ASSUME RepliesTyped, replyWire # <<>>, NEW u, InPlaces(replyWire, u, AnswersTo, Followed),
         replyWire[1].of \in 1 .. Followed
  PROVE  HeadAt(u, AnswersTo[replyWire[1].of], replyWire[1].of, u[1])
<1> DEFINE n == replyWire[1].of
           b == AnswersTo[n]
           d == Len(replyWire)
           t == Tail(replyWire)
<1>1. /\ replyWire \in Seq(Messages) /\ d \in Nat /\ d >= 1 /\ Head(replyWire) = replyWire[1]
      /\ Len(t) = d - 1 /\ \A i \in 1 .. d - 1 : t[i] = replyWire[i + 1]
      /\ 1 \in 1 .. d
  BY DEF RepliesTyped
<1>2. OnPlace(replyWire, u, AnswersTo, 1)
  BY <1>1 DEF InPlaces
<1>3. b \in FollowedAnswers /\ b \in Seq(ReplyKinds)
  BY AnswersAre
<1>4. u[1] \in 1 .. Len(b) /\ Len(b) \in Nat /\ b # <<>> /\ Head(replyWire).k = b[u[1]]
  BY <1>1, <1>2, <1>3 DEF OnPlace
<1>5. Later(u)[1] = u[2]
  BY DEF Later
<1>6. d >= 2 => t # <<>> /\ t[1] = replyWire[2] /\ 2 \in 1 .. d /\ 1 \in 1 .. d - 1
  <2> SUFFICES ASSUME d >= 2 PROVE t # <<>> /\ t[1] = replyWire[2] /\ 2 \in 1 .. d /\ 1 \in 1 .. d - 1
    OBVIOUS
  <2>1. 2 \in 1 .. d /\ 1 \in 1 .. d - 1 /\ 1 + 1 = 2
    BY <1>1
  <2>2. t[1] = replyWire[1 + 1]
    BY <1>1, <2>1
  <2>3. Len(t) # 0
    BY <1>1
  <2> HIDE DEF t
  <2>4. t # <<>>
    BY <2>3
  <2> QED BY <2>1, <2>2, <2>4
<1>7. ASSUME u[1] < Len(b) PROVE t # <<>> /\ t[1].of = n /\ Later(u)[1] = u[1] + 1
  <2>1. 1 + 1 \in 1 .. d /\ replyWire[1 + 1].of = n /\ u[1 + 1] = u[1] + 1
    BY <1>2, <1>7 DEF OnPlace
  <2> QED BY <1>1, <1>5, <1>6, <2>1
<1>8. ASSUME u[1] = Len(b), t # <<>>, t[1].of \in 1 .. Followed PROVE Later(u)[1] = 1
  <2>1. d >= 2
    BY <1>1, <1>8
  <2>2. replyWire[2].of \in 1 .. Followed /\ 2 \in 1 .. d /\ 1 \in 1 .. d - 1
    BY <1>6, <1>8, <2>1
  <2>3. replyWire[2].of # n
    <3> SUFFICES ASSUME replyWire[2].of = n PROVE FALSE
      OBVIOUS
    <3>1. u[1] < u[2]
      BY <1>1, <2>2 DEF InPlaces
    <3>2. u[2] \in 1 .. Len(b)
      BY <2>2 DEF InPlaces, OnPlace
    <3> QED BY <1>4, <1>8, <3>1, <3>2
  <2>4. replyWire[1 + 1].of \in 1 .. Followed /\ replyWire[1].of # replyWire[1 + 1].of
    BY <2>2, <2>3
  <2>5. u[1 + 1] = 1
    BY <2>2, <2>4 DEF InPlaces
  <2> QED BY <1>5, <2>5
<1> QED BY <1>3, <1>4, <1>7, <1>8 DEF HeadAt

LEMMA MysqlReads1 ==
  ASSUME RepliesTyped, replyProto = "mysql", replyWire # <<>>, NEW u, MysqlReads(u),
         InPlaces(replyWire, u, AnswersTo, Followed), R!mysqlResponses(Head(replyWire)),
         replyWire' = Tail(replyWire), AnswersTo' = AnswersTo, Followed' = Followed,
         answered' = answered
  PROVE  /\ ReadDoes(replyWire[1].of, u[1], AnswersTo[replyWire[1].of])
         /\ MysqlReads(Later(u))'
<1> DEFINE d == Len(replyWire)
           v == Later(u)
           greets == <<"greeting", "more", "OK">>
<1>0. PICK n, b, j, t : n = replyWire[1].of /\ b = AnswersTo[n] /\ j = u[1] /\ t = Tail(replyWire)
  OBVIOUS
<1>1. /\ replyWire \in Seq(Messages) /\ d \in Nat /\ d >= 1 /\ Head(replyWire) = replyWire[1]
      /\ Len(t) = d - 1 /\ \A i \in 1 .. d - 1 : t[i] = replyWire[i + 1]
      /\ 1 \in 1 .. d
  BY <1>0 DEF RepliesTyped
<1>2. replyWire[1] \in Messages /\ n \in Nat /\ mode \in ReplyModes /\ answered \in Nat /\ n <= answered
  <2>1. replyWire[1] \in Messages /\ mode \in ReplyModes /\ replyWire[1].of <= answered
    BY <1>1 DEF RepliesTyped
  <2>2. answered \in Nat
    BY DEF RepliesTyped
  <2> QED BY <1>0, <2>1, <2>2 DEF Messages
<1>3. PICK r \in 0 .. 3 : OpeningLeft(r)
  BY DEF MysqlReads
<1>4. Followed \in Nat
  BY AnswersAre
<1>5. n = 0 <=> r # 0
  <2>1. ASSUME r = 0 PROVE n # 0
    <3>1. 1 \in r + 1 .. d
      BY <1>1, <2>1
    <3> QED BY <1>0, <1>3, <3>1 DEF OpeningLeft
  <2>2. ASSUME r # 0 PROVE n = 0
    <3>1. 1 \in 1 .. r
      BY <2>2
    <3>2. replyWire[1] = [k |-> greets[3 - r + 1], of |-> 0]
      BY <1>3, <3>1 DEF OpeningLeft
    <3> QED BY <1>0, <3>2
  <2> QED BY <2>1, <2>2
<1>6. ASSUME NEW q \in 0 .. 3, q = IF r = 0 THEN 0 ELSE r - 1,
             q = 0 \/ mode'.m = "handshake"
      PROVE  OpeningLeft(q)'
  <2>1. q <= d - 1 /\ q # 3
    BY <1>1, <1>3, <1>6 DEF OpeningLeft
  <2>2. \A i \in 1 .. q : t[i] = [k |-> greets[3 - q + i], of |-> 0]
    <3> TAKE i \in 1 .. q
    <3>1. i + 1 \in 1 .. r /\ i \in 1 .. d - 1 /\ 3 - r + (i + 1) = 3 - q + i
      BY <1>1, <1>6, <2>1
    <3>2. replyWire[i + 1] = [k |-> greets[3 - r + (i + 1)], of |-> 0]
      BY <1>3, <3>1 DEF OpeningLeft
    <3>3. t[i] = replyWire[i + 1]
      BY <1>1, <3>1
    <3> HIDE DEF greets
    <3> QED BY <3>1, <3>2, <3>3
  <2>3. \A i \in q + 1 .. d - 1 : t[i].of # 0
    <3> TAKE i \in q + 1 .. d - 1
    <3>1. i + 1 \in r + 1 .. d /\ i \in 1 .. d - 1
      BY <1>1, <1>6
    <3> QED BY <1>1, <1>3, <3>1 DEF OpeningLeft
  <2> QED BY <1>0, <1>1, <1>6, <2>1, <2>2, <2>3 DEF OpeningLeft
<1>7. CASE n \in 1 .. Followed
  <2>1. HeadAt(u, b, n, j)
    BY <1>0, <1>7, HeadPlace
  <2>2. b \in {<<"OK">>, <<"ERR">>, <<"cols", "def", "EOF", "row", "EOF">>,
               <<"cols", "def", "row", "END">>}
    BY <2>1 DEF HeadAt, FollowedAnswers
  <2>3. ModeFits(b, n, j)
    BY <1>0, <1>7 DEF MysqlReads
  <2>4. j \in 1 .. Len(b) /\ Len(b) \in Nat /\ Head(replyWire).k = b[j] /\ Head(replyWire).of = n
    BY <1>0, <1>1, <2>1 DEF HeadAt
  <2>5. IF j = Len(b) THEN R!completeResponse(n, n) /\ mode' = R!Ready
        ELSE /\ UNCHANGED <<fifo, replyPairs>> /\ ModeFits(b, n, j + 1)'
    BY <1>2, <2>2, <2>3, <2>4, MysqlReply
  <2>6. KeyOf(b) = Len(b)
    <3>1. b[1] \notin {"T", "I", "E"}
      BY <2>2
    <3>2. b # <<"T", "D", "C", "Z">> /\ b # <<"I", "Z">> /\ b # <<"E", "Z">>
      BY <3>1
    <3> QED BY <3>2 DEF KeyOf
  <2>7. n # 0 /\ r = 0
    BY <1>5, <1>7
  <2>8. ReadDoes(n, j, b)
    BY <2>5, <2>6, <2>7 DEF ReadDoes
  <2>9. OpeningLeft(0)'
    BY <1>6, <2>7
  <2>10. j = Len(b) => mode'.m = "idle"
    BY <2>5, ReadyMode
  <2>11. t = <<>> => mode'.m \in {"first", "idle"}
    <3> SUFFICES ASSUME t = <<>> PROVE mode'.m \in {"first", "idle"}
      OBVIOUS
    <3>1. j = Len(b)
      BY <1>0, <2>1, <2>4 DEF HeadAt
    <3> QED BY <2>10, <3>1
  <2>12. ASSUME t # <<>>, t[1].of \in 1 .. Followed
         PROVE  \E c : c = AnswersTo[t[1].of] /\ ModeFits(c, t[1].of, v[1])'
    <3>1. CASE j = Len(b)
      <4>1. v[1] = 1
        BY <1>0, <2>1, <2>12, <3>1 DEF HeadAt
      <4>2. \A c, z : ModeFits(c, z, v[1])'
        <5> HIDE DEF v
        <5> QED BY <2>10, <3>1, <4>1 DEF ModeFits
      <4> QED BY <4>2
    <3>2. CASE j # Len(b)
      <4>1. j < Len(b)
        BY <2>4, <3>2
      <4>2. t[1].of = n /\ v[1] = j + 1
        BY <1>0, <2>1, <4>1 DEF HeadAt
      <4>3. ModeFits(b, n, j + 1)'
        BY <2>5, <3>2
      <4> HIDE DEF v
      <4>4. ModeFits(b, t[1].of, v[1])'
        BY <4>2, <4>3 DEF ModeFits
      <4> QED BY <1>0, <4>2, <4>4
    <3> QED BY <3>1, <3>2
  <2> HIDE DEF v
  <2>13. (\E q \in 0 .. 3 : OpeningLeft(q))'
    BY <2>9
  <2>14. MysqlReads(v)'
    <3>1. replyWire' # <<>> => (replyWire'[1].of \in 1 .. Followed' =>
            ModeFits(AnswersTo[replyWire[1].of], replyWire[1].of, v[1])')
      BY <1>0, <2>12 DEF ModeFits
    <3> QED BY <1>0, <2>11, <2>13, <3>1 DEF MysqlReads
  <2> QED BY <1>0, <2>8, <2>14 DEF v
<1>8. CASE n = 0
  <2>1. r \in 1 .. 3
    BY <1>5, <1>8
  <2>2. UNCHANGED <<fifo, replyPairs>> /\ mode'.m = IF r = 1 THEN "idle" ELSE "handshake"
    BY <1>1, <1>2, <1>3, <2>1, MysqlOpens
  <2>3. ReadDoes(n, j, b)
    BY <1>4, <1>8, <2>2 DEF ReadDoes
  <2>4. OpeningLeft(r - 1)'
    <3>1. r - 1 \in 0 .. 3 /\ (r - 1 = 0 \/ mode'.m = "handshake")
      BY <2>1, <2>2
    <3> QED BY <1>6, <2>1, <3>1
  <2>5. ASSUME r # 1 PROVE t # <<>> /\ t[1].of = 0
    <3>1. 2 \in 1 .. r /\ 2 <= d /\ 1 \in 1 .. d - 1 /\ 1 + 1 = 2
      BY <1>1, <1>3, <2>1, <2>5 DEF OpeningLeft
    <3>2. replyWire[2] = [k |-> greets[3 - r + 2], of |-> 0]
      BY <1>3, <3>1 DEF OpeningLeft
    <3>3. t[1] = replyWire[1 + 1]
      BY <1>1, <3>1
    <3> HIDE DEF greets
    <3>4. t[1] = [k |-> greets[3 - r + 2], of |-> 0]
      BY <3>1, <3>2, <3>3
    <3>5. t[1].of = 0
      BY <3>4
    <3>6. Len(t) # 0
      BY <1>1, <3>1
    <3> QED BY <3>5, <3>6
  <2>6. ASSUME r = 1, t # <<>>, t[1].of \in 1 .. Followed
        PROVE  \A c, z : ModeFits(c, z, v[1])'
    <3>1. mode'.m = "idle"
      BY <2>2, <2>6
    <3>2. d # 1
      <4> SUFFICES ASSUME d = 1 PROVE FALSE
        OBVIOUS
      <4>1. t \in Seq(Messages)
        BY <1>0, <1>1
      <4> QED BY <1>1, <2>6, <4>1
    <3>3. 1 \in 1 .. d - 1 /\ t[1] = replyWire[1 + 1]
      BY <1>1, <3>2
    <3>4. u[1 + 1] = 1
      <4>1. replyWire[1 + 1].of \in 1 .. Followed /\ replyWire[1].of = 0
        BY <1>0, <1>8, <2>6, <3>3
      <4>2. replyWire[1].of # replyWire[1 + 1].of
        BY <1>4, <4>1
      <4> QED BY <3>3, <4>1, <4>2 DEF InPlaces
    <3>5. v[1] = 1
      BY <3>4 DEF Later
    <3> HIDE DEF v
    <3> QED BY <3>1, <3>5 DEF ModeFits
  <2> HIDE DEF v
  <2>7. (\E q \in 0 .. 3 : OpeningLeft(q))'
    <3>1. r - 1 \in 0 .. 3
      BY <2>1
    <3> QED BY <2>4, <3>1
  <2>8. MysqlReads(v)'
    <3>1. t[1].of = 0 => t[1].of \notin 1 .. Followed
      BY <1>4
    <3>2. replyWire' # <<>> => (replyWire'[1].of \in 1 .. Followed' =>
            ModeFits(AnswersTo[replyWire[1].of], replyWire[1].of, v[1])')
      BY <1>0, <2>5, <2>6, <3>1 DEF ModeFits
    <3>3. t = <<>> => mode'.m \in {"first", "idle"}
      BY <2>2, <2>5
    <3> QED BY <1>0, <2>7, <3>2, <3>3 DEF MysqlReads
  <2> QED BY <1>0, <2>3, <2>8 DEF v
<1>9. CASE n > Followed
  <2>1. ReadDoes(n, j, b)
    BY <1>2, <1>4, <1>9 DEF ReadDoes
  <2>2. r = 0
    BY <1>4, <1>5, <1>9
  <2>3. (\E q \in 0 .. 3 : OpeningLeft(q))'
    <3>1. OpeningLeft(0)'
      BY <1>6, <2>2
    <3> QED BY <3>1
  <2>4. ~ (answered <= Followed)
    BY <1>2, <1>4, <1>9
  <2>5. ~ (t # <<>> /\ t[1].of \in 1 .. Followed)
    <3> SUFFICES ASSUME t # <<>>, t[1].of \in 1 .. Followed PROVE FALSE
      OBVIOUS
    <3>1. d # 1
      <4> SUFFICES ASSUME d = 1 PROVE FALSE
        OBVIOUS
      <4>1. t \in Seq(Messages)
        BY <1>0, <1>1
      <4> QED BY <1>1, <4>1
    <3>2. 2 \in 1 .. d /\ 1 \in 1 .. d - 1 /\ 1 + 1 = 2
      BY <1>1, <3>1
    <3>3. t[1] = replyWire[2]
      BY <1>1, <3>2
    <3>4. n <= replyWire[2].of
      <4>1. n # 0 /\ replyWire[2].of # 0
        BY <1>2, <1>4, <1>9, <3>3
      <4>2. 1 < 2 /\ 1 \in 1 .. d
        BY <1>1
      <4> QED BY <1>0, <3>2, <4>1, <4>2 DEF InPlaces
    <3>5. n <= t[1].of
      BY <3>3, <3>4
    <3> QED BY <1>2, <1>4, <1>9, <3>5
  <2> HIDE DEF v
  <2>6. MysqlReads(v)'
    BY <1>0, <2>3, <2>4, <2>5 DEF MysqlReads
  <2> QED BY <1>0, <2>1, <2>6 DEF v
<1> QED BY <1>2, <1>4, <1>7, <1>8, <1>9

\* The other two read no message of theirs wrongly either.
LEMMA OtherReads1 ==
  ASSUME RepliesTyped, replyProto # "mysql", replyWire # <<>>, NEW u, RepliesRead(u),
         InPlaces(replyWire, u, AnswersTo, Followed), replyWire' = Tail(replyWire),
         replyProto' = replyProto,
         \/ replyProto = "postgres" /\ R!pgResponses(Head(replyWire))
         \/ replyProto = "redis" /\ R!redisReplies(Head(replyWire))
  PROVE  /\ ReadDoes(replyWire[1].of, u[1], AnswersTo[replyWire[1].of])
         /\ RepliesRead(Later(u))'
<1>0. PICK n, b, j, t : n = replyWire[1].of /\ b = AnswersTo[n] /\ j = u[1] /\ t = Tail(replyWire)
  OBVIOUS
<1> DEFINE d == Len(replyWire)
           v == Later(u)
           msg == Head(replyWire)
<1>1. /\ replyWire \in Seq(Messages) /\ d \in Nat /\ d >= 1 /\ msg = replyWire[1]
      /\ Len(t) = d - 1 /\ \A i \in 1 .. d - 1 : t[i] = replyWire[i + 1]
      /\ 1 \in 1 .. d
  BY <1>0 DEF RepliesTyped
<1>2. replyWire[1] \in Messages /\ n \in Nat /\ msg.of = n /\ msg.k \in ReplyKinds
  <2>1. replyWire[1] \in Messages
    BY <1>1
  <2> QED BY <1>0, <1>1, <2>1 DEF Messages
<1>3. ASSUME NEW s, Unasked(s) PROVE Unasked(s)'
  <2> SUFFICES ASSUME NEW i \in 1 .. Len(t), t[i].of = 0 PROVE t[i].k \in s
    BY <1>0 DEF Unasked
  <2>1. i + 1 \in 1 .. d /\ t[i] = replyWire[i + 1]
    BY <1>1
  <2> QED BY <1>3, <2>1 DEF Unasked
<1>4. Followed \in Nat
  BY AnswersAre
<1>5. n \in 1 .. Followed => HeadAt(u, b, n, j)
  BY <1>0, HeadPlace
<1> HIDE DEF d, v, msg
<1>6. CASE replyProto = "postgres"
  <2>1. mode.m # "stopped" /\ Unasked({"R", "Z"})
    BY <1>6 DEF RepliesRead
  <2>2. IF msg.k \in {"C", "E", "I"} THEN R!completeResponse(n, n) /\ mode' = R!Ready
        ELSE R!NoReply(R!Ready)
    <3>1. msg.k # "N1"
      BY <1>2 DEF ReplyKinds
    <3> QED BY <1>2, <1>6, <2>1, <3>1 DEF R!pgResponses, msg
  <2>3. mode'.m # "stopped"
    BY <2>2, ReadyMode DEF R!NoReply
  <2>4. RepliesRead(v)'
    BY <1>3, <1>6, <2>1, <2>3 DEF RepliesRead
  <2>5. ASSUME n \in 1 .. Followed
        PROVE  IF j = KeyOf(b) THEN R!completeResponse(n, n) ELSE UNCHANGED <<fifo, replyPairs>>
    <3>1. b \in {<<"T", "D", "C", "Z">>, <<"I", "Z">>, <<"E", "Z">>} /\ j \in 1 .. Len(b) /\ msg.k = b[j]
      BY <1>5, <1>6, <2>5 DEF HeadAt, FollowedAnswers, msg
    <3>2. msg.k \in {"C", "E", "I"} <=> j = KeyOf(b)
      BY <3>1, PgReply
    <3> QED BY <2>2, <3>2 DEF R!NoReply
  <2>6. n = 0 => UNCHANGED <<fifo, replyPairs>>
    <3> SUFFICES ASSUME n = 0 PROVE UNCHANGED <<fifo, replyPairs>>
      OBVIOUS
    <3>1. msg.k \in {"R", "Z"}
      BY <1>0, <1>1, <2>1 DEF Unasked, d
    <3> QED BY <2>2, <3>1 DEF R!NoReply
  <2> QED BY <1>0, <2>4, <2>5, <2>6 DEF ReadDoes, v
<1>7. CASE replyProto = "redis"
  <2>1. Unasked({"push", "message"})
    BY <1>7 DEF RepliesRead
  <2>2. IF msg.k \in {"push", "message"} THEN R!NoReply(R!Ready)
        ELSE R!completeResponse(n, n) /\ mode' = R!Ready
    BY <1>2, <1>7 DEF R!redisReplies, R!isRedisPush, msg
  <2>3. RepliesRead(v)'
    BY <1>3, <1>7, <2>1 DEF RepliesRead
  <2>4. ASSUME n \in 1 .. Followed
        PROVE  IF j = KeyOf(b) THEN R!completeResponse(n, n) ELSE UNCHANGED <<fifo, replyPairs>>
    <3>1. b \in {<<"bulk">>, <<"array">>} /\ j \in 1 .. Len(b) /\ msg.k = b[j]
      BY <1>5, <1>7, <2>4 DEF HeadAt, FollowedAnswers, msg
    <3>2. Len(b) = 1 /\ j = 1 /\ msg.k \in {"bulk", "array"}
      BY <3>1
    <3>3. b # <<"T", "D", "C", "Z">> /\ b # <<"I", "Z">> /\ b # <<"E", "Z">>
      <4>1. b[1] \in {"bulk", "array"}
        BY <3>1
      <4> QED BY <4>1
    <3>4. KeyOf(b) = 1
      BY <3>2, <3>3 DEF KeyOf
    <3> QED BY <2>2, <3>2, <3>4
  <2>5. n = 0 => UNCHANGED <<fifo, replyPairs>>
    <3> SUFFICES ASSUME n = 0 PROVE UNCHANGED <<fifo, replyPairs>>
      OBVIOUS
    <3>1. msg.k \in {"push", "message"}
      BY <1>0, <1>1, <2>1 DEF Unasked, d
    <3> QED BY <2>2, <3>1 DEF R!NoReply
  <2> QED BY <1>0, <2>3, <2>4, <2>5 DEF ReadDoes, v
<1> QED BY <1>6, <1>7 DEF RepliesTyped

LEMMA ReadSafe == ASSUME RepliesSafe, R!ReadReply PROVE RepliesSafe'
<1>1. RepliesTyped /\ RepliesShown
  BY DEF RepliesSafe
<1>2. PICK u : RepliesPlaced(u)
  BY DEF RepliesSafe
<1>3. PICK n, v, w : n = replyWire[1].of /\ v = Later(u) /\ w = replyWire
  OBVIOUS
<1>4. /\ w # <<>> /\ replyWire' = Tail(w)
      /\ UNCHANGED <<replyProto, dialect, issued, answered, pushes>>
  BY <1>3 DEF R!ReadReply
<1>5. AnswersTo' = AnswersTo /\ Followed' = Followed /\ R!Answers' = R!Answers
  BY <1>4 DEF AnswersTo, Followed, R!FirstAwkward, R!SelectInSeq, R!Awkward, R!Answers
<1>6. Followed \in Nat /\ Followed <= Len(issued) /\ Len(issued) \in Nat
  BY <1>1, AnswersAre
<1>7. /\ InPlaces(w, u, AnswersTo, Followed)
      /\ Waits(fifo, w, u, AnswersTo, Followed, answered) /\ RepliesRead(u)
  BY <1>2, <1>3 DEF RepliesPlaced
<1>8. /\ w \in Seq(Messages) /\ answered \in Nat /\ \A i \in 1 .. Len(w) : w[i].of <= answered
      /\ w[1] \in Messages /\ Head(w) = w[1] /\ n \in Nat
  <2>1. w \in Seq(Messages) /\ answered \in Nat /\ \A i \in 1 .. Len(w) : w[i].of <= answered
    BY <1>1, <1>3 DEF RepliesTyped
  <2>2. w[1] \in Messages /\ Head(w) = w[1]
    BY <1>4, <2>1
  <2> QED BY <1>3, <2>1, <2>2 DEF Messages
<1> HIDE DEF AnswersTo, Followed
<1>9. /\ Tail(w) \in Seq(Messages) /\ Len(Tail(w)) = Len(w) - 1
      /\ \A i \in 1 .. Len(w) - 1 : Tail(w)[i] = w[i + 1]
      /\ InPlaces(Tail(w), v, AnswersTo, Followed)
  BY <1>3, <1>4, <1>6, <1>7, <1>8, TailPlaces
<1>10. ReadDoes(n, u[1], AnswersTo[n]) /\ RepliesRead(v)'
  <2>1. CASE replyProto = "mysql"
    <3>1. R!mysqlResponses(Head(replyWire))
      BY <2>1 DEF R!ReadReply
    <3>2. MysqlReads(u)
      BY <1>7, <2>1 DEF RepliesRead
    <3>3. ReadDoes(n, u[1], AnswersTo[n]) /\ MysqlReads(v)'
      BY <1>1, <1>3, <1>4, <1>5, <1>7, <2>1, <3>1, <3>2, MysqlReads1
    <3> QED BY <1>4, <2>1, <3>3 DEF RepliesRead
  <2>2. CASE replyProto # "mysql"
    <3>1. \/ replyProto = "postgres" /\ R!pgResponses(Head(replyWire))
          \/ replyProto = "redis" /\ R!redisReplies(Head(replyWire))
      BY <2>2 DEF R!ReadReply
    <3> QED BY <1>1, <1>3, <1>4, <1>7, <2>2, <3>1, OtherReads1
  <2> QED BY <2>1, <2>2
<1>11. mode' \in ReplyModes /\ MaybeReply
  <2>1. R!mysqlResponses(w[1]) \/ R!pgResponses(w[1]) \/ R!redisReplies(w[1])
    BY <1>3, <1>8 DEF R!ReadReply
  <2> QED BY <1>1, <1>8, <2>1, AnyReply DEF RepliesTyped
<1>12. fifo \in Seq(Nat \ {0}) /\ fifo \in Seq(1 .. Len(issued))
       /\ (fifo # <<>> => Head(fifo) = fifo[1] /\ fifo[1] \in 1 .. Len(issued)
                          /\ Tail(fifo) \in Seq(1 .. Len(issued)))
  <2>1. fifo \in Seq(1 .. Len(issued))
    BY <1>1 DEF RepliesTyped
  <2>2. 1 .. Len(issued) \subseteq Nat \ {0}
    OBVIOUS
  <2>3. fifo \in Seq(Nat \ {0})
    BY <2>1, <2>2
  <2> QED BY <2>1, <2>3
<1>13. /\ n \in 1 .. Followed /\ u[1] = KeyOf(AnswersTo[n]) =>
            fifo # <<>> /\ fifo[1] = n /\ Waits(Tail(fifo), Tail(w), v, AnswersTo, Followed, answered)
       /\ n \in 1 .. Followed /\ u[1] # KeyOf(AnswersTo[n]) =>
            Waits(fifo, Tail(w), v, AnswersTo, Followed, answered)
       /\ n = 0 => Waits(fifo, Tail(w), v, AnswersTo, Followed, answered)
       /\ n > Followed =>
            /\ Waits(fifo, Tail(w), v, AnswersTo, Followed, answered)
            /\ fifo # <<>> => fifo[1] > Followed
                              /\ Waits(Tail(fifo), Tail(w), v, AnswersTo, Followed, answered)
  BY <1>3, <1>4, <1>6, <1>7, <1>8, <1>12, ReadWaits
<1>14. CASE UNCHANGED <<fifo, replyPairs>> /\ Waits(fifo, Tail(w), v, AnswersTo, Followed, answered)
  <2>1. RepliesTyped'
    <3>1. \A i \in 1 .. Len(Tail(w)) : Tail(w)[i].of <= answered
      BY <1>8, <1>9
    <3> QED BY <1>1, <1>4, <1>5, <1>9, <1>11, <1>14, <3>1 DEF RepliesTyped
  <2>2. RepliesShown'
    BY <1>1, <1>4, <1>5, <1>14 DEF RepliesShown
  <2>3. RepliesPlaced(v)'
    BY <1>4, <1>5, <1>9, <1>10, <1>14 DEF RepliesPlaced
  <2> QED BY <2>1, <2>2, <2>3 DEF RepliesSafe
<1>15. ASSUME NEW x \in Nat, NEW y \in Nat, fifo # <<>>, R!completeResponse(x, y),
              fifo[1] <= Followed => x = fifo[1] /\ y = fifo[1],
              Waits(Tail(fifo), Tail(w), v, AnswersTo, Followed, answered)
       PROVE  RepliesSafe'
  <2>1. fifo' = Tail(fifo) /\ replyPairs' = Append(replyPairs, <<fifo[1], x, y>>)
    BY <1>12, <1>15 DEF R!completeResponse
  <2>2. <<fifo[1], x, y>> \in Nat \X Nat \X Nat
    BY <1>12, <1>15
  <2>3. RepliesTyped'
    <3>1. \A i \in 1 .. Len(Tail(w)) : Tail(w)[i].of <= answered
      BY <1>8, <1>9
    <3>2. replyPairs' \in Seq(Nat \X Nat \X Nat)
      BY <1>1, <2>1, <2>2 DEF RepliesTyped
    <3>3. fifo' \in Seq(1 .. Len(issued))
      BY <1>12, <1>15, <2>1
    <3> QED BY <1>1, <1>4, <1>5, <1>9, <1>11, <3>1, <3>2, <3>3 DEF RepliesTyped
  <2>4. RepliesShown'
    <3>1. /\ replyPairs \in Seq(Nat \X Nat \X Nat) /\ Len(replyPairs) \in Nat
          /\ Len(replyPairs') = Len(replyPairs) + 1
          /\ \A i \in 1 .. Len(replyPairs) : replyPairs'[i] = replyPairs[i]
          /\ replyPairs'[Len(replyPairs) + 1] = <<fifo[1], x, y>>
      BY <1>1, <2>1, <2>2 DEF RepliesTyped
    <3> SUFFICES ASSUME NEW i \in 1 .. Len(replyPairs) + 1
                 PROVE  /\ replyPairs'[i][1] \in 1 .. Len(issued)
                        /\ replyPairs'[i][1] <= Followed =>
                             replyPairs'[i][2] = replyPairs'[i][1] /\ replyPairs'[i][3] = replyPairs'[i][1]
      BY <1>4, <1>5, <3>1 DEF RepliesShown
    <3>2. CASE i \in 1 .. Len(replyPairs)
      BY <1>1, <3>1, <3>2 DEF RepliesShown
    <3>3. CASE i = Len(replyPairs) + 1
      <4>1. replyPairs'[i] = <<fifo[1], x, y>>
        BY <3>1, <3>3
      <4>2. replyPairs'[i][1] = fifo[1] /\ replyPairs'[i][2] = x /\ replyPairs'[i][3] = y
        BY <4>1
      <4> QED BY <1>12, <1>15, <4>2
    <3> QED BY <3>1, <3>2, <3>3
  <2>5. RepliesPlaced(v)'
    BY <1>4, <1>5, <1>9, <1>10, <1>15, <2>1 DEF RepliesPlaced
  <2> QED BY <2>3, <2>4, <2>5 DEF RepliesSafe
<1>16. CASE n \in 1 .. Followed
  <2>1. CASE u[1] = KeyOf(AnswersTo[n])
    <3>1. R!completeResponse(n, n)
      BY <1>10, <1>16, <2>1 DEF ReadDoes
    <3> QED BY <1>8, <1>13, <1>15, <1>16, <2>1, <3>1
  <2>2. CASE u[1] # KeyOf(AnswersTo[n])
    BY <1>10, <1>13, <1>14, <1>16, <2>2 DEF ReadDoes
  <2> QED BY <2>1, <2>2
<1>17. CASE n = 0
  BY <1>10, <1>13, <1>14, <1>17 DEF ReadDoes
<1>18. CASE n > Followed
  <2>1. CASE UNCHANGED <<fifo, replyPairs>>
    BY <1>13, <1>14, <1>18, <2>1
  <2>2. ASSUME NEW x \in Nat, NEW y \in Nat, R!completeResponse(x, y) PROVE RepliesSafe'
    <3>1. CASE fifo = <<>>
      <4>1. UNCHANGED <<fifo, replyPairs>>
        BY <2>2, <3>1 DEF R!completeResponse
      <4> QED BY <2>1, <4>1
    <3>2. CASE fifo # <<>>
      <4>1. ~ (fifo[1] <= Followed)
        BY <1>6, <1>12, <1>13, <1>18, <3>2
      <4> QED BY <1>13, <1>15, <1>18, <2>2, <3>2, <4>1
    <3> QED BY <3>1, <3>2
  <2> QED BY <1>11, <2>1, <2>2 DEF MaybeReply
<1> QED BY <1>6, <1>8, <1>16, <1>17, <1>18

LEMMA RepliesNext ==
  ASSUME RepliesSafe, R!Next \/ UNCHANGED replyVars PROVE RepliesSafe'
<1>1. RepliesTyped
  BY DEF RepliesSafe
<1>2. ASSUME NEW k \in DOMAIN R!Answers, R!Command(k) PROVE RepliesSafe'
  BY <1>2, CommandSafe
<1>3. CASE R!Answer
  BY <1>3, AnswerSafe
<1>4. CASE R!Publish
  BY <1>4, PublishSafe
<1>5. CASE R!ReadReply
  BY <1>5, ReadSafe
<1>6. CASE UNCHANGED replyVars
  <2>1. PICK u : RepliesPlaced(u)
    BY DEF RepliesSafe
  <2>2. /\ UNCHANGED <<replyProto, dialect, issued, answered, replyWire, fifo, mode, replyPairs>>
        /\ R!Answers' = R!Answers
    BY <1>6 DEF replyVars, R!Answers
  <2>3. AnswersTo' = AnswersTo /\ Followed' = Followed
    BY <2>2 DEF AnswersTo, Followed, R!FirstAwkward, R!SelectInSeq, R!Awkward
  <2>4. RepliesTyped' /\ RepliesShown'
    BY <2>2, <2>3 DEF RepliesSafe, RepliesTyped, RepliesShown
  <2>5. RepliesRead(u)'
    <3>1. RepliesRead(u)
      BY <2>1 DEF RepliesPlaced
    <3> QED BY <2>2, <2>3, <3>1 DEF RepliesRead, MysqlReads, OpeningLeft, ModeFits, Unasked
  <2>6. RepliesPlaced(u)'
    BY <2>1, <2>2, <2>3, <2>5 DEF RepliesPlaced
  <2> QED BY <2>4, <2>6 DEF RepliesSafe
<1> QED BY <1>2, <1>3, <1>4, <1>5, <1>6 DEF R!Next

LEMMA RepliesImply == RepliesSafe => R!RepliesInStep
<1> SUFFICES ASSUME RepliesSafe PROVE R!RepliesInStep
  OBVIOUS
<1>1. RepliesTyped /\ RepliesShown
  BY DEF RepliesSafe
<1>2. PICK u : RepliesPlaced(u)
  BY DEF RepliesSafe
<1>3. Followed = (IF R!FirstAwkward = 0 THEN Len(issued) ELSE R!FirstAwkward - 1)
  BY DEF Followed
<1>4. \A i \in 1 .. Len(replyPairs) : replyPairs[i][1] <= Followed =>
        replyPairs[i][2] = replyPairs[i][1] /\ replyPairs[i][3] = replyPairs[i][1]
  BY <1>1 DEF RepliesShown
<1>5. ASSUME R!FirstAwkward = 0, replyWire = <<>>, answered = Len(issued), fifo # <<>> PROVE FALSE
  <2>1. Followed = Len(issued) /\ Len(issued) \in Nat
    BY <1>1, <1>5, AnswersAre
  <2>2. fifo[1] \in 1 .. Followed /\ 1 \in 1 .. Len(fifo)
    BY <1>1, <1>5, <2>1 DEF RepliesTyped
  <2>3. InQueue(fifo, fifo[1])
    BY <2>2 DEF InQueue
  <2>4. Comes(replyWire, u, AnswersTo, fifo[1])
    <3>1. ~ (fifo[1] > answered)
      BY <1>5, <2>1, <2>2
    <3> QED BY <1>2, <2>2, <2>3, <3>1 DEF RepliesPlaced, Waits
  <2>5. Len(replyWire) = 0
    BY <1>5
  <2> QED BY <2>4, <2>5 DEF Comes
<1> QED BY <1>3, <1>4, <1>5 DEF R!RepliesInStep

\* Up to the first command the dissectors of MySQL, PostgreSQL and Redis do not
\* follow, every entry shows a command with its own whole reply, and once all
\* replies have been read no command waits, however many commands, pushes and
\* columns there are (dissect_mysql.go:128-290, dissect_postgres.go:64-171,
\* dissect_redis.go:43-122).
THEOREM RepliesCorrect == MCSpec => []RepliesInStep
<1> DEFINE Safe == part = "replies" => dialect = "sslPrefer" \/ RepliesSafe
<1>1. MCInit => Safe
  <2>1. ASSUME MCInit, part = "replies" PROVE R!Init
    BY <2>1 DEF MCInit
  <2> QED BY <2>1, RepliesInit
<1>2. Safe /\ [MCNext]_captureVars => Safe'
  <2> SUFFICES ASSUME Safe, [MCNext]_captureVars,
                      part' = "replies", dialect' # "sslPrefer"
               PROVE  RepliesSafe'
    OBVIOUS
  <2>1. part = "replies"
    BY DEF MCNext, captureVars
  <2>2. R!Next \/ UNCHANGED replyVars
    BY <2>1 DEF MCNext, captureVars, dissectorVars
  <2>3. dialect' = dialect
    BY <2>2 DEF R!Next, R!Command, R!Answer, R!Publish, R!ReadReply, replyVars
  <2>4. RepliesSafe
    BY <2>1, <2>3
  <2> QED BY <2>2, <2>4, RepliesNext
<1>3. Safe => RepliesInStep
  <2> SUFFICES ASSUME Safe, part = "replies" PROVE R!RepliesInStep
    BY DEF RepliesInStep
  <2>1. CASE dialect = "sslPrefer"
    BY <2>1 DEF R!RepliesInStep
  <2>2. CASE dialect # "sslPrefer"
    BY <2>2, RepliesImply
  <2> QED BY <2>1, <2>2
<1> QED BY <1>1, <1>2, <1>3, PTL DEF MCSpec, captureVars

-----------------------------------------------------------------------------
(* The property list of a content header (AMQPContent).                    *)

ContentNames == {"contentType", "contentEncoding", "headers", "deliveryMode", "priority",
                 "correlationId", "replyTo", "expiration", "messageId"}

\* What the parser has after some of the properties.
ParsedValues == UNION {[d -> ContentNames \cup {""}] : d \in SUBSET ContentNames}
Parsed == [off : Nat, vals : ParsedValues]

\* a is the beginning of b.
Begins(a, b) == Len(a) <= Len(b) /\ \A i \in 1 .. Len(a) : a[i] = b[i]

Shown == Len(BasicProperties)

LEMMA PropertiesAre ==
  /\ BasicProperties \in Seq(ContentNames) /\ Shown \in Nat /\ DOMAIN BasicProperties = 1 .. Shown
  /\ \A i \in 1 .. Shown : BasicProperties[i] \in ContentNames
<1>1. DOMAIN BasicProperties = 1 .. 9 /\ Len(BasicProperties) = 9
  BY DEF BasicProperties
<1>2. \A i \in 1 .. 9 : BasicProperties[i] \in ContentNames
  <2>1. \A i \in 1 .. 9 : i \in {1, 2, 3, 4, 5, 6, 7, 8, 9}
    OBVIOUS
  <2> QED BY <2>1 DEF BasicProperties, ContentNames
<1>3. BasicProperties = [i \in 1 .. 9 |-> BasicProperties[i]]
  BY DEF BasicProperties
<1> HIDE DEF BasicProperties
<1>4. BasicProperties \in [1 .. 9 -> ContentNames]
  BY <1>2, <1>3
<1>5. BasicProperties \in Seq(ContentNames)
  <2>1. 9 \in Nat
    OBVIOUS
  <2> QED BY <1>4, <2>1, SeqDef
<1> QED BY <1>1, <1>2, <1>5 DEF Shown

\* What the encoder adds for a property, and what the parser does with it.
ListStep(flags, b, p) == IF p \in flags THEN b \o C!Cells(p) ELSE b

PropStep(b, flags, sound, acc, p) ==
  IF p \notin flags THEN acc
  ELSE IF p \in {"deliveryMode", "priority"}
  THEN [acc EXCEPT !.off = C!amqpSkipBits(b, acc.off)]
  ELSE IF p = "headers"
  THEN [acc EXCEPT !.off = C!amqpSkipFieldTable(b, acc.off, sound)]
  ELSE LET s == C!amqpShortStr(b, acc.off) IN
       [off |-> s.off, vals |-> C!Put(acc.vals, p, s.val)]

\* A property takes one cell or two, the first of which is its value.
LEMMA ListStepIs ==
  ASSUME NEW flags, NEW b \in Seq(ContentNames), NEW p \in ContentNames
  PROVE  LET c == ListStep(flags, b, p) IN
         /\ c \in Seq(ContentNames) /\ Begins(b, c)
         /\ p \notin flags => c = b
         /\ p \in flags => /\ Len(c) = Len(b) + (IF p \in {"deliveryMode", "priority"} THEN 1 ELSE 2)
                           /\ c[Len(b) + 1] = p
<1> DEFINE t == C!Cells(p)
           c == ListStep(flags, b, p)
<1>1. /\ t \in Seq(ContentNames) /\ t[1] = p /\ Len(t) \in {1, 2}
      /\ Len(t) = IF p \in {"deliveryMode", "priority"} THEN 1 ELSE 2
  BY DEF C!Cells
<1> HIDE DEF t
<1>2. CASE p \notin flags
  <2>1. c = b
    BY <1>2 DEF ListStep
  <2> QED BY <1>2, <2>1 DEF Begins
<1>3. CASE p \in flags
  <2>1. c = b \o t
    BY <1>3 DEF ListStep, t
  <2> HIDE DEF c
  <2>2. /\ c \in Seq(ContentNames) /\ Len(c) = Len(b) + Len(t) /\ Len(b) \in Nat
        /\ \A i \in 1 .. Len(b) + Len(t) : c[i] = IF i <= Len(b) THEN b[i] ELSE t[i - Len(b)]
    <3>1. b \in Seq(ContentNames) /\ t \in Seq(ContentNames)
      BY <1>1
    <3>2. /\ b \o t \in Seq(ContentNames) /\ Len(b \o t) = Len(b) + Len(t)
          /\ \A i \in 1 .. Len(b) + Len(t) : (b \o t)[i] = IF i <= Len(b) THEN b[i] ELSE t[i - Len(b)]
      BY <3>1, ConcatProperties
    <3>3. Len(b) \in Nat
      OBVIOUS
    <3> QED BY <2>1, <3>2, <3>3
  <2>3. c[Len(b) + 1] = t[1]
    <3>1. Len(b) + 1 \in 1 .. Len(b) + Len(t) /\ ~ (Len(b) + 1 <= Len(b)) /\ Len(b) + 1 - Len(b) = 1
      BY <1>1, <2>2
    <3> QED BY <2>2, <3>1
  <2>4. Begins(b, c)
    <3>1. \A i \in 1 .. Len(b) : i \in 1 .. Len(b) + Len(t) /\ i <= Len(b)
      BY <1>1, <2>2
    <3>2. Len(b) <= Len(c)
      BY <1>1, <2>2
    <3> QED BY <2>2, <3>1, <3>2 DEF Begins
  <2> QED BY <1>1, <1>3, <2>2, <2>3, <2>4 DEF c
<1> QED BY <1>2, <1>3

LEMMA PropStepTyped ==
  ASSUME NEW b \in Seq(ContentNames), NEW flags, NEW sound, NEW acc \in Parsed, NEW p \in ContentNames
  PROVE  PropStep(b, flags, sound, acc, p) \in Parsed
<1>0. acc.off \in Nat /\ Len(b) \in Nat
  BY DEF Parsed
<1>1. /\ DOMAIN acc.vals \in SUBSET ContentNames
      /\ \A q \in DOMAIN acc.vals : acc.vals[q] \in ContentNames \cup {""}
  <2>1. acc.vals \in ParsedValues
    BY DEF Parsed
  <2>2. PICK d \in SUBSET ContentNames : acc.vals \in [d -> ContentNames \cup {""}]
    BY <2>1 DEF ParsedValues
  <2> QED BY <2>2
<1>2. ASSUME NEW o \in Nat PROVE [acc EXCEPT !.off = o] \in Parsed
  BY DEF Parsed
<1>3. C!amqpSkipBits(b, acc.off) \in Nat /\ C!amqpSkipFieldTable(b, acc.off, sound) \in Nat
  BY <1>0 DEF C!amqpSkipBits, C!amqpSkipFieldTable
<1>4. CASE p \notin flags \/ p \in {"deliveryMode", "priority"} \/ p = "headers"
  BY <1>2, <1>3, <1>4 DEF PropStep
<1>5. CASE ~ (p \notin flags \/ p \in {"deliveryMode", "priority"} \/ p = "headers")
  <2>1. PICK s : s = C!amqpShortStr(b, acc.off)
    OBVIOUS
  <2>2. s.off \in Nat /\ s.val \in ContentNames \cup {""}
    <3>1. CASE acc.off + 2 > Len(b)
      BY <1>0, <2>1, <3>1 DEF C!amqpShortStr
    <3>2. CASE ~ (acc.off + 2 > Len(b))
      <4>1. acc.off + 1 \in 1 .. Len(b)
        BY <1>0, <3>2
      <4>2. b[acc.off + 1] \in ContentNames
        BY <4>1
      <4>3. s.val = b[acc.off + 1] /\ s.off = acc.off + 2
        BY <2>1, <3>2 DEF C!amqpShortStr
      <4>4. acc.off + 2 \in Nat
        BY <1>0
      <4> QED BY <4>2, <4>3, <4>4
    <3> QED BY <3>1, <3>2
  <2>3. C!Put(acc.vals, p, s.val) \in [DOMAIN acc.vals \cup {p} -> ContentNames \cup {""}]
    BY <1>1, <2>2 DEF C!Put
  <2>4. DOMAIN acc.vals \cup {p} \in SUBSET ContentNames
    BY <1>1
  <2>5. PropStep(b, flags, sound, acc, p) = [off |-> s.off, vals |-> C!Put(acc.vals, p, s.val)]
    BY <1>5, <2>1 DEF PropStep
  <2>6. C!Put(acc.vals, p, s.val) \in ParsedValues
    BY <2>3, <2>4 DEF ParsedValues
  <2>7. \A o \in Nat, x \in ParsedValues : [off |-> o, vals |-> x] \in Parsed
    BY DEF Parsed
  <2> QED BY <2>2, <2>5, <2>6, <2>7
<1> QED BY <1>4, <1>5

\* The encoder runs through the properties.
LEMMA ListRuns ==
  ASSUME NEW flags
  PROVE  \E it : /\ C!PropertyList(flags) = it[1 .. Shown] /\ it[1 .. 0] = <<>>
                 /\ \A k \in 0 .. Shown - 1 :
                      it[1 .. k + 1] = ListStep(flags, it[1 .. k], BasicProperties[k + 1])
<1> DEFINE seq == BasicProperties
           n == Shown
           Q(h) == h = [s \in SUBSET (DOMAIN seq) |->
                          IF s = {} THEN <<>>
                          ELSE IF seq[Max(s)] \in flags THEN h[s \ {Max(s)}] \o C!Cells(seq[Max(s)])
                               ELSE h[s \ {Max(s)}]]
           it == CHOOSE h : Q(h)
           V == Seq(ContentNames)
           G == [a \in V \X (1 .. n) |-> ListStep(flags, a[1], seq[a[2]])]
<1>1. C!PropertyList(flags) = it[DOMAIN seq]
  BY DEF C!PropertyList, C!FoldLeft, C!MapThenFoldSet, C!Max, Max
<1>2. n \in Nat /\ DOMAIN seq = 1 .. n /\ \A i \in 1 .. n : seq[i] \in ContentNames
  BY PropertiesAre
<1> HIDE DEF n, seq
<1>3. \A a \in V, i \in 1 .. n : ListStep(flags, a, seq[i]) \in V
  BY <1>2, ListStepIs
<1>4. G \in [V \X (1 .. n) -> V] /\ \A a \in V, i \in 1 .. n : G[a, i] = ListStep(flags, a, seq[i])
  BY <1>3
<1>5. <<>> \in V
  OBVIOUS
<1> HIDE DEF G, V
<1>6. PICK h \in [SUBSET (1 .. n) -> V] :
        \A s \in SUBSET (1 .. n) : h[s] = IF s = {} THEN <<>> ELSE G[h[s \ {Max(s)}], Max(s)]
  <2>1. n \in Nat
    BY <1>2
  <2>2. G \in [V \X (1 .. n) -> V]
    BY <1>4
  <2>3. \E h \in [SUBSET (1 .. n) -> V] : Recurs(n, <<>>, G, h)
    BY <1>5, <2>1, <2>2, FoldExists
  <2> QED BY <2>3 DEF Recurs
<1>7. ASSUME NEW s \in SUBSET (1 .. n)
      PROVE  h[s] = IF s = {} THEN <<>> ELSE ListStep(flags, h[s \ {Max(s)}], seq[Max(s)])
  <2>1. CASE s = {}
    BY <1>6, <2>1
  <2>2. CASE s # {}
    <3>1. Max(s) \in 1 .. n
      BY <1>2, <2>2, MaxIn
    <3>2. h[s \ {Max(s)}] \in V
      BY <1>6
    <3>3. h[s] = G[h[s \ {Max(s)}], Max(s)]
      BY <1>6, <2>2
    <3> QED BY <1>4, <2>2, <3>1, <3>2, <3>3
  <2> QED BY <2>1, <2>2
<1>8. Q(h)
  BY <1>2, <1>6, <1>7 DEF ListStep
<1> HIDE DEF it
<1>9. Q(it)
  <2> HIDE DEF Q
  <2> QED BY <1>8 DEF it
<1>10. ASSUME NEW s \in SUBSET (1 .. n)
       PROVE  it[s] = IF s = {} THEN <<>> ELSE ListStep(flags, it[s \ {Max(s)}], seq[Max(s)])
  BY <1>2, <1>9 DEF ListStep
<1>11. it[1 .. 0] = <<>>
  <2>1. {} \in SUBSET (1 .. n) /\ 1 .. 0 = {}
    OBVIOUS
  <2> QED BY <1>10, <2>1
<1>12. ASSUME NEW k \in 0 .. n - 1
       PROVE  it[1 .. k + 1] = ListStep(flags, it[1 .. k], seq[k + 1])
  <2>1. k \in Nat /\ 1 .. k + 1 \in SUBSET (1 .. n)
    BY <1>2
  <2> DEFINE s == 1 .. k + 1
  <2>2. s # {} /\ Max(s) = k + 1 /\ s \ {k + 1} = 1 .. k /\ s \in SUBSET (1 .. n)
    BY <2>1, MaxUpTo
  <2> HIDE DEF s
  <2>3. it[s] = ListStep(flags, it[s \ {Max(s)}], seq[Max(s)])
    BY <1>10, <2>2
  <2> QED BY <2>2, <2>3 DEF s
<1> QED BY <1>1, <1>2, <1>11, <1>12 DEF n, seq

\* So does the parser.
LEMMA ParseRuns ==
  ASSUME NEW b \in Seq(ContentNames), NEW flags, NEW sound
  PROVE  \E it : /\ C!parseAMQPBasicProps(b, flags, sound) = it[1 .. Shown].vals
                 /\ it[1 .. 0] = [off |-> 0, vals |-> <<>>]
                 /\ \A k \in 0 .. Shown - 1 : it[1 .. k] \in Parsed /\
                      it[1 .. k + 1] = PropStep(b, flags, sound, it[1 .. k], BasicProperties[k + 1])
<1> DEFINE seq == BasicProperties
           n == Shown
           begin == [off |-> 0, vals |-> <<>>]
           Q(h) == h = [s \in SUBSET (DOMAIN seq) |->
                          IF s = {} THEN begin
                          ELSE IF seq[Max(s)] \notin flags THEN h[s \ {Max(s)}]
             ELSE IF seq[Max(s)] \in {"deliveryMode", "priority"}
             THEN [h[s \ {Max(s)}] EXCEPT !.off = C!amqpSkipBits(b, h[s \ {Max(s)}].off)]
             ELSE IF seq[Max(s)] = "headers"
             THEN [h[s \ {Max(s)}] EXCEPT !.off = C!amqpSkipFieldTable(b, h[s \ {Max(s)}].off, sound)]
             ELSE LET r == C!amqpShortStr(b, h[s \ {Max(s)}].off) IN
                  [off |-> r.off, vals |-> C!Put(h[s \ {Max(s)}].vals, seq[Max(s)], r.val)]]
           it == CHOOSE h : Q(h)
           V == Parsed
           G == [a \in V \X (1 .. n) |-> PropStep(b, flags, sound, a[1], seq[a[2]])]
<1>1. C!parseAMQPBasicProps(b, flags, sound) = it[DOMAIN seq].vals
  BY DEF C!parseAMQPBasicProps, C!FoldLeft, C!MapThenFoldSet, C!Max, Max
<1>2. n \in Nat /\ DOMAIN seq = 1 .. n /\ \A i \in 1 .. n : seq[i] \in ContentNames
  BY PropertiesAre
<1> HIDE DEF n, seq
<1>3. \A a \in V, i \in 1 .. n : PropStep(b, flags, sound, a, seq[i]) \in V
  BY <1>2, PropStepTyped
<1>4. G \in [V \X (1 .. n) -> V] /\ \A a \in V, i \in 1 .. n : G[a, i] = PropStep(b, flags, sound, a, seq[i])
  BY <1>3
<1>5. begin \in V
  <2>1. <<>> \in [{} -> ContentNames \cup {""}]
    OBVIOUS
  <2>2. <<>> \in ParsedValues
    BY <2>1 DEF ParsedValues
  <2> QED BY <2>2 DEF Parsed
<1> HIDE DEF G, V, begin
<1>6. PICK h \in [SUBSET (1 .. n) -> V] :
        \A s \in SUBSET (1 .. n) : h[s] = IF s = {} THEN begin ELSE G[h[s \ {Max(s)}], Max(s)]
  <2>1. n \in Nat
    BY <1>2
  <2>2. G \in [V \X (1 .. n) -> V]
    BY <1>4
  <2>3. \E h \in [SUBSET (1 .. n) -> V] : Recurs(n, begin, G, h)
    BY <1>5, <2>1, <2>2, FoldExists
  <2> QED BY <2>3 DEF Recurs
<1>7. ASSUME NEW s \in SUBSET (1 .. n)
      PROVE  h[s] = IF s = {} THEN begin ELSE PropStep(b, flags, sound, h[s \ {Max(s)}], seq[Max(s)])
  <2>1. CASE s = {}
    BY <1>6, <2>1
  <2>2. CASE s # {}
    <3>1. Max(s) \in 1 .. n
      BY <1>2, <2>2, MaxIn
    <3>2. h[s \ {Max(s)}] \in V
      BY <1>6
    <3>3. h[s] = G[h[s \ {Max(s)}], Max(s)]
      BY <1>6, <2>2
    <3> QED BY <1>4, <2>2, <3>1, <3>2, <3>3
  <2> QED BY <2>1, <2>2
<1>8. Q(h)
  BY <1>2, <1>6, <1>7 DEF PropStep
<1> HIDE DEF it
<1>9. Q(it)
  <2> HIDE DEF Q
  <2> QED BY <1>8, SMTT(30) DEF it
<1>10. ASSUME NEW s \in SUBSET (1 .. n)
       PROVE  it[s] = IF s = {} THEN begin ELSE PropStep(b, flags, sound, it[s \ {Max(s)}], seq[Max(s)])
  BY <1>2, <1>9 DEF PropStep
<1>11. it[1 .. 0] = begin
  <2>1. {} \in SUBSET (1 .. n) /\ 1 .. 0 = {}
    OBVIOUS
  <2> QED BY <1>10, <2>1
<1>12. ASSUME NEW k \in 0 .. n - 1
       PROVE  it[1 .. k + 1] = PropStep(b, flags, sound, it[1 .. k], seq[k + 1])
  <2>1. k \in Nat /\ 1 .. k + 1 \in SUBSET (1 .. n)
    BY <1>2
  <2> DEFINE s == 1 .. k + 1
  <2>2. s # {} /\ Max(s) = k + 1 /\ s \ {k + 1} = 1 .. k /\ s \in SUBSET (1 .. n)
    BY <2>1, MaxUpTo
  <2> HIDE DEF s
  <2>3. it[s] = PropStep(b, flags, sound, it[s \ {Max(s)}], seq[Max(s)])
    BY <1>10, <2>2
  <2> QED BY <2>2, <2>3 DEF s
<1>13. \A k \in 0 .. n - 1 : it[1 .. k] \in Parsed
  <2> DEFINE U == {k \in Nat : k <= n - 1 => it[1 .. k] \in Parsed}
  <2>1. 0 \in U
    BY <1>5, <1>11 DEF V
  <2>2. ASSUME NEW k \in Nat, k \in U PROVE k + 1 \in U
    <3> SUFFICES ASSUME k + 1 <= n - 1 PROVE it[1 .. k + 1] \in Parsed
      OBVIOUS
    <3>1. k \in 0 .. n - 1 /\ k + 1 \in 1 .. n /\ it[1 .. k] \in Parsed
      BY <1>2, <2>2
    <3> QED BY <1>3, <1>12, <3>1 DEF V
  <2> HIDE DEF U
  <2>3. Nat \subseteq U
    BY <2>1, <2>2, SetInduction
  <2> QED BY <1>2, <2>3 DEF U
<1> QED BY <1>1, <1>2, <1>11, <1>12, <1>13 DEF n, seq, begin

\* Where the parser stands after the properties whose cells are l: behind
\* them, or at the end of what is left of the frame.
Fits(acc, l, b) ==
  /\ acc.off = Len(b) \/ (acc.off = Len(l) /\ Len(l) <= Len(b))
  /\ \A q \in DOMAIN acc.vals : acc.vals[q] \in {q, ""}

LEMMA PropStepFits ==
  ASSUME NEW flags, NEW sound, NEW b \in Seq(ContentNames), NEW whole \in Seq(ContentNames),
         NEW l \in Seq(ContentNames), NEW acc \in Parsed, NEW p \in ContentNames,
         Begins(b, whole), Begins(ListStep(flags, l, p), whole), Fits(acc, l, b)
  PROVE  Fits(PropStep(b, flags, sound, acc, p), ListStep(flags, l, p), b)
<1> DEFINE c == ListStep(flags, l, p)
           d == PropStep(b, flags, sound, acc, p)
<1>0. acc.off \in Nat /\ Len(b) \in Nat /\ Len(l) \in Nat /\ Len(whole) \in Nat
  BY DEF Parsed
<1>1. /\ c \in Seq(ContentNames)
      /\ p \notin flags => c = l
      /\ p \in flags => /\ Len(c) = Len(l) + (IF p \in {"deliveryMode", "priority"} THEN 1 ELSE 2)
                        /\ c[Len(l) + 1] = p
  BY ListStepIs
<1>2. ASSUME NEW o \in Nat, o = Len(b) \/ (o = Len(c) /\ Len(c) <= Len(b))
      PROVE  Fits([acc EXCEPT !.off = o], c, b)
  <2>1. [acc EXCEPT !.off = o].off = o /\ [acc EXCEPT !.off = o].vals = acc.vals
    BY DEF Parsed
  <2> HIDE DEF c
  <2> QED BY <1>2, <2>1 DEF Fits
<1>3. acc.off = Len(b) \/ (acc.off = Len(l) /\ Len(l) <= Len(b))
  BY DEF Fits
<1>4. CASE p \notin flags
  BY <1>1, <1>4 DEF PropStep
<1>5. CASE p \in flags /\ p \in {"deliveryMode", "priority"}
  <2>1. d = [acc EXCEPT !.off = C!amqpSkipBits(b, acc.off)] /\ Len(c) = Len(l) + 1
    BY <1>1, <1>5 DEF PropStep
  <2> HIDE DEF c, d
  <2>2. C!amqpSkipBits(b, acc.off) \in Nat
    BY <1>0 DEF C!amqpSkipBits
  <2>3. C!amqpSkipBits(b, acc.off) = Len(b) \/ (C!amqpSkipBits(b, acc.off) = Len(c) /\ Len(c) <= Len(b))
    BY <1>0, <1>3, <2>1 DEF C!amqpSkipBits
  <2>4. Fits(d, c, b)
    BY <1>2, <2>1, <2>2, <2>3
  <2> QED BY <2>4 DEF c, d
<1>6. CASE p \in flags /\ p = "headers"
  <2>1. d = [acc EXCEPT !.off = C!amqpSkipFieldTable(b, acc.off, sound)] /\ Len(c) = Len(l) + 2
    BY <1>1, <1>6 DEF PropStep
  <2> HIDE DEF c, d
  <2>2. C!amqpSkipFieldTable(b, acc.off, sound) \in Nat
    BY <1>0 DEF C!amqpSkipFieldTable
  <2>3. \/ C!amqpSkipFieldTable(b, acc.off, sound) = Len(b)
        \/ C!amqpSkipFieldTable(b, acc.off, sound) = Len(c) /\ Len(c) <= Len(b)
    BY <1>0, <1>3, <2>1 DEF C!amqpSkipFieldTable
  <2>4. Fits(d, c, b)
    BY <1>2, <2>1, <2>2, <2>3
  <2> QED BY <2>4 DEF c, d
<1>7. CASE p \in flags /\ p \notin {"deliveryMode", "priority"} /\ p # "headers"
  <2>1. PICK s : s = C!amqpShortStr(b, acc.off)
    OBVIOUS
  <2>2. d = [off |-> s.off, vals |-> C!Put(acc.vals, p, s.val)] /\ Len(c) = Len(l) + 2
    BY <1>1, <1>7, <2>1 DEF PropStep
  <2>3. c[Len(l) + 1] = p /\ Len(c) <= Len(whole) /\ \A i \in 1 .. Len(c) : c[i] = whole[i]
    BY <1>1, <1>7 DEF Begins
  <2>4. Len(b) <= Len(whole) /\ \A i \in 1 .. Len(b) : b[i] = whole[i]
    BY DEF Begins
  <2> HIDE DEF c, d
  <2>5. s.val \in {p, ""} /\ (s.off = Len(b) \/ (s.off = Len(c) /\ Len(c) <= Len(b)))
    <3>1. CASE acc.off + 2 > Len(b)
      BY <2>1, <3>1 DEF C!amqpShortStr
    <3>2. CASE ~ (acc.off + 2 > Len(b))
      <4>1. acc.off = Len(l) /\ Len(l) + 1 \in 1 .. Len(b) /\ Len(l) + 1 \in 1 .. Len(c)
            /\ Len(c) <= Len(b) /\ acc.off + 2 = Len(c)
        BY <1>0, <1>3, <2>2, <3>2
      <4>2. s.val = b[acc.off + 1] /\ s.off = acc.off + 2
        BY <2>1, <3>2 DEF C!amqpShortStr
      <4>3. b[Len(l) + 1] = p
        BY <2>3, <2>4, <4>1
      <4> QED BY <4>1, <4>2, <4>3
    <3> QED BY <3>1, <3>2
  <2>6. \A q \in DOMAIN C!Put(acc.vals, p, s.val) : C!Put(acc.vals, p, s.val)[q] \in {q, ""}
    <3>1. \A q \in DOMAIN acc.vals : acc.vals[q] \in {q, ""}
      BY DEF Fits
    <3> QED BY <2>5, <3>1 DEF C!Put
  <2>7. d.off = s.off /\ d.vals = C!Put(acc.vals, p, s.val)
    BY <2>2
  <2>8. Fits(d, c, b)
    BY <2>5, <2>6, <2>7 DEF Fits
  <2> QED BY <2>8 DEF c, d
<1> QED BY <1>4, <1>5, <1>6, <1>7

\* A property shown is that property, wherever the frame was cut.
LEMMA PropertiesShown ==
  ASSUME NEW flags, NEW sound, NEW cut \in Nat
  PROVE  LET b == C!PropertyList(flags)
             shown == C!parseAMQPBasicProps(SubSeq(b, 1, Len(b) - cut), flags, sound)
         IN  {p \in DOMAIN shown : shown[p] \notin {p, ""}} = {}
<1> DEFINE whole == C!PropertyList(flags)
           b == SubSeq(whole, 1, Len(whole) - cut)
           shown == C!parseAMQPBasicProps(b, flags, sound)
<1>0. Shown \in Nat /\ \A i \in 1 .. Shown : BasicProperties[i] \in ContentNames
  BY PropertiesAre
<1>1. PICK li : /\ whole = li[1 .. Shown] /\ li[1 .. 0] = <<>>
                /\ \A k \in 0 .. Shown - 1 : li[1 .. k + 1] = ListStep(flags, li[1 .. k], BasicProperties[k + 1])
  BY ListRuns
<1> HIDE DEF whole
<1>2. ASSUME NEW n \in Nat, n <= Shown
      PROVE  /\ li[1 .. n] \in Seq(ContentNames)
             /\ \A k \in 0 .. n : li[1 .. k] \in Seq(ContentNames) /\ Begins(li[1 .. k], li[1 .. n])
  <2> DEFINE l(k) == li[1 .. k]
             U == {m \in Nat : m <= Shown => l(m) \in Seq(ContentNames) /\
                     \A k \in 0 .. m : l(k) \in Seq(ContentNames) /\ Begins(l(k), l(m))}
  <2>0. \A s \in Seq(ContentNames) : Begins(s, s)
    BY DEF Begins
  <2>1. 0 \in U
    <3>1. l(0) \in Seq(ContentNames)
      BY <1>1
    <3>2. \A k \in 0 .. 0 : k = 0
      OBVIOUS
    <3> HIDE DEF l
    <3> QED BY <2>0, <3>1, <3>2
  <2>2. ASSUME NEW m \in Nat, m \in U PROVE m + 1 \in U
    <3> SUFFICES ASSUME m + 1 <= Shown
                 PROVE  l(m + 1) \in Seq(ContentNames) /\
                        \A k \in 0 .. m + 1 : l(k) \in Seq(ContentNames) /\ Begins(l(k), l(m + 1))
      OBVIOUS
    <3>1. m <= Shown /\ m \in 0 .. Shown - 1 /\ m + 1 \in 1 .. Shown /\ m \in 0 .. m
      BY <1>0
    <3>2. l(m + 1) = ListStep(flags, l(m), BasicProperties[m + 1])
      BY <1>1, <3>1
    <3>3. \A k \in 0 .. m : l(k) \in Seq(ContentNames) /\ Begins(l(k), l(m))
      BY <2>2, <3>1
    <3> HIDE DEF l
    <3>4. l(m + 1) \in Seq(ContentNames) /\ Begins(l(m), l(m + 1))
      BY <1>0, <3>1, <3>2, <3>3, ListStepIs
    <3>5. ASSUME NEW k \in 0 .. m + 1 PROVE l(k) \in Seq(ContentNames) /\ Begins(l(k), l(m + 1))
      <4>1. CASE k = m + 1
        BY <2>0, <3>4, <4>1
      <4>2. CASE k # m + 1
        <5>1. k \in 0 .. m
          BY <4>2
        <5>2. l(k) \in Seq(ContentNames) /\ Begins(l(k), l(m)) /\ l(m) \in Seq(ContentNames)
          BY <3>1, <3>3, <5>1
        <5>3. Begins(l(k), l(m + 1))
          BY <3>4, <5>2 DEF Begins
        <5> QED BY <5>2, <5>3
      <4> QED BY <4>1, <4>2
    <3> QED BY <3>4, <3>5
  <2> HIDE DEF U
  <2>3. Nat \subseteq U
    BY <2>1, <2>2, SetInduction
  <2>4. n \in U
    BY <2>3
  <2> QED BY <1>2, <2>4 DEF U
<1>3. whole \in Seq(ContentNames)
      /\ \A k \in 0 .. Shown : li[1 .. k] \in Seq(ContentNames) /\ Begins(li[1 .. k], whole)
  BY <1>0, <1>1, <1>2
<1>4. b \in Seq(ContentNames) /\ Begins(b, whole)
  <2>1. CASE cut <= Len(whole)
    <3>1. 1 \in 1 .. Len(whole) + 1 /\ Len(whole) - cut \in 1 - 1 .. Len(whole) /\ Len(whole) \in Nat
      BY <1>3, <2>1
    <3>2. /\ b \in Seq(ContentNames) /\ Len(b) = Len(whole) - cut - 1 + 1
          /\ \A i \in 1 .. Len(whole) - cut - 1 + 1 : b[i] = whole[1 + i - 1]
      BY <1>3, <3>1, SubSeqProperties
    <3> HIDE DEF b
    <3>3. Len(b) <= Len(whole) /\ \A i \in 1 .. Len(b) : b[i] = whole[i]
      BY <2>1, <3>1, <3>2
    <3> QED BY <3>2, <3>3 DEF Begins
  <2>2. CASE ~ (cut <= Len(whole))
    <3>1. b = <<>>
      BY <1>3, <2>2
    <3> QED BY <1>3, <3>1 DEF Begins
  <2> QED BY <2>1, <2>2
<1> HIDE DEF b
<1>5. PICK it : /\ shown = it[1 .. Shown].vals
                /\ it[1 .. 0] = [off |-> 0, vals |-> <<>>]
                /\ \A k \in 0 .. Shown - 1 : it[1 .. k] \in Parsed /\
                     it[1 .. k + 1] = PropStep(b, flags, sound, it[1 .. k], BasicProperties[k + 1])
  BY <1>4, ParseRuns
<1> HIDE DEF shown
<1>6. ASSUME NEW n \in Nat, n <= Shown PROVE Fits(it[1 .. n], li[1 .. n], b)
  <2> DEFINE U == {m \in Nat : m <= Shown => Fits(it[1 .. m], li[1 .. m], b)}
  <2>1. 0 \in U
    <3>1. Fits([off |-> 0, vals |-> <<>>], <<>>, b)
      <4>1. Len(b) \in Nat
        BY <1>4
      <4> QED BY <4>1 DEF Fits
    <3>2. Fits(it[1 .. 0], li[1 .. 0], b)
      BY <1>1, <1>5, <3>1
    <3> QED BY <3>2
  <2>2. ASSUME NEW m \in Nat, m \in U PROVE m + 1 \in U
    <3> SUFFICES ASSUME m + 1 <= Shown PROVE Fits(it[1 .. m + 1], li[1 .. m + 1], b)
      OBVIOUS
    <3>1. m <= Shown /\ m \in 0 .. Shown - 1 /\ m + 1 \in 1 .. Shown /\ m \in 0 .. Shown /\ m + 1 \in 0 .. Shown
      BY <1>0
    <3> DEFINE p == BasicProperties[m + 1]
               l == li[1 .. m]
               acc == it[1 .. m]
    <3>2. p \in ContentNames /\ l \in Seq(ContentNames) /\ acc \in Parsed
      BY <1>0, <1>3, <1>5, <3>1
    <3>3. li[1 .. m + 1] = ListStep(flags, l, p) /\ it[1 .. m + 1] = PropStep(b, flags, sound, acc, p)
      BY <1>1, <1>5, <3>1
    <3>4. Begins(ListStep(flags, l, p), whole)
      BY <1>3, <3>1, <3>3
    <3>5. Fits(acc, l, b)
      BY <2>2, <3>1
    <3> HIDE DEF p, l, acc
    <3> QED BY <1>3, <1>4, <3>2, <3>3, <3>4, <3>5, PropStepFits
  <2> HIDE DEF U
  <2>3. Nat \subseteq U
    BY <2>1, <2>2, SetInduction
  <2>4. n \in U
    BY <2>3
  <2> QED BY <1>6, <2>4 DEF U
<1>7. \A p \in DOMAIN shown : shown[p] \in {p, ""}
  <2>1. Fits(it[1 .. Shown], li[1 .. Shown], b)
    BY <1>0, <1>6
  <2> QED BY <1>5, <2>1 DEF Fits
<1> QED BY <1>7 DEF whole, b, shown

-----------------------------------------------------------------------------
(* The contents of an AMQP connection.                                     *)

ContentRecord ==
  [n : Nat, size : Nat, hdr : Nat, total : Nat, body : Seq(Nat \X Nat), misread : {{}},
   from : {"", "client"}]

\* The bytes are of the first k of message n, in their order, and whole at the
\* beginning.
OwnBody(b, n, k) ==
  /\ Len(b) >= C!Beginning(k) /\ Len(b) <= bodyCap /\ Len(b) <= k
  /\ \A j \in 1 .. Len(b) : b[j][1] = n /\ b[j][2] \in 1 .. k
  /\ \A j \in 1 .. Len(b) : j <= C!Beginning(k) => b[j][2] = j
  /\ \A i, j \in 1 .. Len(b) : i < j => b[i][2] < b[j][2]

\* Of message n, which is of this size, k bytes have passed, and what is kept is
\* its own.
OwnContent(e, n, size, k) ==
  /\ e.n = n /\ e.size = size /\ e.hdr = n /\ e.total = k
  /\ OwnBody(e.body, n, k)

\* Message n is to be reported.
Due(n) == seeing /\ n >= began /\ C!Finished(n)

ContentTyped ==
  /\ seeing \in BOOLEAN /\ published \in Seq([ch : Channels, size : Nat])
  /\ \A ch \in DOMAIN cur : cur[ch] \in [n : Nat, left : Nat, header : BOOLEAN]
  /\ \A ch \in DOMAIN channels : channels[ch] \in ContentRecord
  /\ contents \in Seq(ContentRecord)
  /\ began \in Nat /\ began <= Len(published) + 1
  /\ aborted \subseteq 1 .. Len(published)

\* A message is under way on one channel, and its header was sent if some of it
\* was and some is to come.
SendsWell ==
  /\ \A ch \in DOMAIN cur :
       /\ cur[ch].n \in 1 .. Len(published) /\ cur[ch].n \notin aborted
       /\ cur[ch].left <= published[cur[ch].n].size
       /\ cur[ch].header => cur[ch].left > 0
       /\ ~ cur[ch].header => cur[ch].left = published[cur[ch].n].size
  /\ \A a, b \in DOMAIN cur : cur[a].n = cur[b].n => a = b

\* The map has a message under way if its method frame was captured, with what
\* has been sent of it.
Assembles ==
  /\ ~ seeing => channels = <<>> /\ contents = <<>>
  /\ seeing => \A ch \in DOMAIN cur :
       /\ cur[ch].n < began => ch \notin DOMAIN channels
       /\ cur[ch].n >= began /\ cur[ch].header =>
            /\ ch \in DOMAIN channels
            /\ OwnContent(channels[ch], cur[ch].n, published[cur[ch].n].size,
                          published[cur[ch].n].size - cur[ch].left)
       /\ cur[ch].n >= began /\ ~ cur[ch].header =>
            /\ ch \in DOMAIN channels
            /\ channels[ch].n = cur[ch].n /\ channels[ch].total = 0 /\ channels[ch].body = <<>>

\* A content is whole, and is reported once, if it is due.
ReportsWhole ==
  /\ \A i \in 1 .. Len(contents) :
       /\ contents[i].from = "client"
       /\ \A n \in Nat : contents[i].n = n /\ n # 0 =>
            /\ n \in 1 .. Len(published) /\ Due(n)
            /\ OwnContent(contents[i], n, published[n].size, published[n].size)
  /\ \A i, j \in 1 .. Len(contents) : contents[i].n = contents[j].n /\ contents[i].n # 0 => i = j
  /\ \A n \in 1 .. Len(published) : Due(n) => \E i \in 1 .. Len(contents) : contents[i].n = n

ContentSafe == ContentTyped /\ SendsWell /\ Assembles /\ ReportsWhole

LEMMA ContentConstants == MaxBody \in Nat /\ bodyCap \in Nat /\ amqpMaxCapture \in Nat
BY CaptureAssumption DEF C!ContentAssumption

LEMMA ContentInit == C!Init => ContentSafe
<1> SUFFICES ASSUME C!Init PROVE ContentSafe
  OBVIOUS
<1>1. /\ published = <<>> /\ cur = <<>> /\ channels = <<>> /\ contents = <<>> /\ aborted = {}
      /\ seeing \in BOOLEAN /\ began = 1
  BY DEF C!Init
<1>2. Len(published) = 0 /\ Len(contents) = 0 /\ DOMAIN cur = {} /\ DOMAIN channels = {}
  BY <1>1
<1>3. published \in Seq([ch : Channels, size : Nat]) /\ contents \in Seq(ContentRecord)
  BY <1>1
<1>4. ContentTyped
  BY <1>1, <1>2, <1>3 DEF ContentTyped
<1>5. SendsWell /\ Assembles /\ ReportsWhole
  BY <1>1, <1>2 DEF SendsWell, Assembles, ReportsWhole
<1> QED BY <1>4, <1>5 DEF ContentSafe

LEMMA ContentSame == ContentSafe /\ UNCHANGED contentVars => ContentSafe'
<1> SUFFICES ASSUME ContentSafe, UNCHANGED contentVars PROVE ContentSafe'
  OBVIOUS
<1>1. /\ published' = published /\ cur' = cur /\ seeing' = seeing /\ began' = began
      /\ channels' = channels /\ aborted' = aborted /\ contents' = contents
  BY DEF contentVars
<1>2. ContentTyped' /\ SendsWell' /\ Assembles'
  BY <1>1 DEF ContentSafe, ContentTyped, SendsWell, Assembles
<1>3. ReportsWhole'
  BY <1>1 DEF ContentSafe, ReportsWhole, Due, C!Finished
<1> QED BY <1>2, <1>3 DEF ContentSafe

LEMMA ContentImply == ContentSafe => C!ContentIsWhole
<1> SUFFICES ASSUME ContentSafe PROVE C!ContentIsWhole
  OBVIOUS
<1>1. ASSUME NEW i \in 1 .. Len(contents), contents[i].n # 0
      PROVE  LET e == contents[i] IN
             /\ e.hdr = e.n /\ e.size = published[e.n].size
             /\ Len(e.body) >= C!Beginning(e.size) /\ Len(e.body) <= bodyCap
             /\ Len(e.body) <= e.size
             /\ \A j \in 1 .. Len(e.body) :
                  /\ e.body[j][1] = e.n /\ e.body[j][2] \in 1 .. e.size
                  /\ j <= C!Beginning(e.size) => e.body[j][2] = j
                  /\ \A k \in 1 .. Len(e.body) : j < k => e.body[j][2] < e.body[k][2]
             /\ e.misread = {} /\ e.from = "client"
  <2>1. contents[i].misread = {} /\ contents[i].n \in Nat
    <3>1. contents[i] \in ContentRecord
      BY DEF ContentSafe, ContentTyped
    <3> QED BY <3>1 DEF ContentRecord
  <2> DEFINE e == contents[i]
  <2>2. e.from = "client" /\ OwnContent(e, e.n, published[e.n].size, published[e.n].size)
    BY <1>1, <2>1 DEF ContentSafe, ReportsWhole
  <2> HIDE DEF e
  <2>3. e.size = published[e.n].size /\ e.hdr = e.n /\ OwnBody(e.body, e.n, e.size)
    BY <2>2 DEF OwnContent
  <2> QED BY <2>1, <2>2, <2>3 DEF OwnBody, e
<1>2. ASSUME NEW n \in 1 .. Len(published)
      PROVE  Cardinality({i \in 1 .. Len(contents) : contents[i].n = n})
               = IF seeing /\ n >= began /\ C!Finished(n) THEN 1 ELSE 0
  <2> DEFINE s == {i \in 1 .. Len(contents) : contents[i].n = n}
  <2>0. n # 0
    OBVIOUS
  <2>1. CASE Due(n)
    <3>1. PICK i \in 1 .. Len(contents) : contents[i].n = n
      BY <2>1 DEF ContentSafe, ReportsWhole
    <3>2. s = {i}
      BY <2>0, <3>1 DEF ContentSafe, ReportsWhole
    <3>3. Cardinality(s) = 1
      BY <3>2, FS_Singleton
    <3> QED BY <2>1, <3>3 DEF Due
  <2>2. CASE ~ Due(n)
    <3>1. s = {}
      BY <2>0, <2>2 DEF ContentSafe, ReportsWhole
    <3>2. Cardinality(s) = 0
      BY <3>1, FS_EmptySet
    <3> QED BY <2>2, <3>2 DEF Due
  <2> QED BY <2>1, <2>2
<1> QED BY <1>1, <1>2 DEF C!ContentIsWhole, C!Cardinality, Cardinality

\* What is reported goes to the end of the list, and is shown from the client.
LEMMA EmitIs ==
  ASSUME contents \in Seq(ContentRecord), NEW e \in ContentRecord
  PROVE  LET r == C!emitAMQP(e)
             x == r[Len(contents) + 1] IN
         /\ r \in Seq(ContentRecord) /\ Len(r) = Len(contents) + 1
         /\ \A i \in 1 .. Len(contents) : r[i] = contents[i]
         /\ x.n = e.n /\ x.size = e.size /\ x.hdr = e.hdr /\ x.total = e.total /\ x.body = e.body
         /\ x.from = "client"
<1> DEFINE y == [e EXCEPT !.from = "client"]
           r == C!emitAMQP(e)
<1>1. r = Append(contents, y)
  BY DEF C!emitAMQP, C!endpoints
<1>2. /\ y \in ContentRecord /\ y.from = "client" /\ y.n = e.n /\ y.size = e.size
      /\ y.hdr = e.hdr /\ y.total = e.total /\ y.body = e.body
  BY DEF ContentRecord
<1> HIDE DEF y, r
<1>3. /\ r \in Seq(ContentRecord) /\ Len(r) = Len(contents) + 1
      /\ \A i \in 1 .. Len(contents) : r[i] = contents[i]
      /\ r[Len(contents) + 1] = y
  BY <1>1, <1>2, AppendProperties
<1> QED BY <1>2, <1>3 DEF r

\* Nothing is reported, and nothing comes to be due.
LEMMA ReportsKept ==
  ASSUME ContentTyped, ReportsWhole, contents' = contents,
         Len(published)' \in Nat, Len(published) <= Len(published)',
         \A n \in 1 .. Len(published) : published'[n] = published[n],
         \A n \in 1 .. Len(published)' : Due(n)' <=> n \in 1 .. Len(published) /\ Due(n)
  PROVE  ReportsWhole'
<1>0. Len(published) \in Nat /\ Len(contents) \in Nat
  BY DEF ContentTyped
<1>1. ASSUME NEW i \in 1 .. Len(contents), NEW n \in Nat, contents[i].n = n, n # 0
      PROVE  /\ n \in 1 .. Len(published)' /\ Due(n)'
             /\ OwnContent(contents[i], n, published'[n].size, published'[n].size)
  <2>1. /\ n \in 1 .. Len(published) /\ Due(n)
        /\ OwnContent(contents[i], n, published[n].size, published[n].size)
    BY <1>1 DEF ReportsWhole
  <2> QED BY <1>0, <2>1
<1>4. \A i \in 1 .. Len(contents) : contents[i].from = "client"
  BY DEF ReportsWhole
<1>2. \A i, j \in 1 .. Len(contents) : contents[i].n = contents[j].n /\ contents[i].n # 0 => i = j
  BY DEF ReportsWhole
<1>3. ASSUME NEW n \in 1 .. Len(published)', Due(n)'
      PROVE  \E i \in 1 .. Len(contents) : contents[i].n = n
  BY <1>3 DEF ReportsWhole
<1> QED BY <1>1, <1>2, <1>3, <1>4 DEF ReportsWhole, OwnContent

\* One more is reported: it is whole and due now, or is no content.
LEMMA ReportsMore ==
  ASSUME ContentTyped, ReportsWhole, NEW e \in ContentRecord, contents' = C!emitAMQP(e),
         published' = published,
         e.n # 0 => /\ e.n \in 1 .. Len(published) /\ ~ Due(e.n)
                    /\ OwnContent(e, e.n, published[e.n].size, published[e.n].size),
         \A n \in 1 .. Len(published) : Due(n)' <=> Due(n) \/ n = e.n
  PROVE  ReportsWhole'
<1>0. Len(published) \in Nat /\ Len(contents) \in Nat /\ contents \in Seq(ContentRecord)
  BY DEF ContentTyped
<1> DEFINE l == Len(contents) + 1
           x == contents'[l]
<1>1. /\ Len(contents)' = l /\ \A i \in 1 .. Len(contents) : contents'[i] = contents[i]
      /\ x.n = e.n /\ x.size = e.size /\ x.hdr = e.hdr /\ x.total = e.total /\ x.body = e.body
      /\ x.from = "client"
  BY <1>0, EmitIs
<1>2. \A i \in 1 .. l : i \in 1 .. Len(contents) \/ i = l
  BY <1>0
<1> HIDE DEF l, x
<1>3. ASSUME NEW i \in 1 .. l, NEW n \in Nat, contents'[i].n = n, n # 0
      PROVE  /\ n \in 1 .. Len(published) /\ Due(n)'
             /\ OwnContent(contents'[i], n, published[n].size, published[n].size)
  <2>1. CASE i \in 1 .. Len(contents)
    <3>1. contents'[i] = contents[i]
      BY <1>1, <2>1
    <3>2. /\ n \in 1 .. Len(published) /\ Due(n)
          /\ OwnContent(contents[i], n, published[n].size, published[n].size)
      BY <1>3, <2>1, <3>1 DEF ReportsWhole
    <3> QED BY <3>1, <3>2
  <2>2. CASE i = l
    <3>1. contents'[i] = x
      BY <2>2 DEF x
    <3>2. e.n = n /\ n \in 1 .. Len(published) /\ OwnContent(e, n, published[n].size, published[n].size)
      BY <1>1, <1>3, <3>1
    <3>3. OwnContent(x, n, published[n].size, published[n].size)
      BY <1>1, <3>2 DEF OwnContent
    <3> QED BY <3>1, <3>2, <3>3
  <2> QED BY <1>2, <2>1, <2>2
<1>6. ASSUME NEW i \in 1 .. l PROVE contents'[i].from = "client"
  <2>1. CASE i \in 1 .. Len(contents)
    BY <1>1, <2>1 DEF ReportsWhole
  <2>2. CASE i = l
    BY <1>1, <2>2 DEF x
  <2> QED BY <1>2, <2>1, <2>2
<1>4. ASSUME NEW i \in 1 .. l, NEW j \in 1 .. l, contents'[i].n = contents'[j].n, contents'[i].n # 0
      PROVE  i = j
  <2>1. ASSUME NEW k \in 1 .. Len(contents), contents[k].n # 0 PROVE contents[k].n # e.n
    <3> SUFFICES ASSUME contents[k].n = e.n PROVE FALSE
      OBVIOUS
    <3>1. e.n \in Nat /\ e.n # 0
      BY <2>1 DEF ContentRecord
    <3>2. Due(e.n)
      BY <3>1 DEF ReportsWhole
    <3> QED BY <3>1, <3>2
  <2>2. contents'[l] = x
    BY DEF x
  <2>3. CASE i \in 1 .. Len(contents) /\ j \in 1 .. Len(contents)
    BY <1>1, <1>4, <2>3 DEF ReportsWhole
  <2>4. CASE i = l /\ j # l
    BY <1>1, <1>2, <1>4, <2>1, <2>2, <2>4
  <2>5. CASE i # l /\ j = l
    BY <1>1, <1>2, <1>4, <2>1, <2>2, <2>5
  <2> QED BY <1>2, <2>3, <2>4, <2>5
<1>5. ASSUME NEW n \in 1 .. Len(published), Due(n)' PROVE \E i \in 1 .. l : contents'[i].n = n
  <2>1. CASE Due(n)
    <3>1. PICK i \in 1 .. Len(contents) : contents[i].n = n
      BY <2>1 DEF ReportsWhole
    <3>2. i \in 1 .. l /\ contents'[i].n = n
      BY <1>0, <1>1, <3>1 DEF l
    <3> QED BY <3>2
  <2>2. CASE n = e.n
    <3>1. l \in 1 .. l /\ contents'[l].n = n
      BY <1>0, <1>1, <2>2 DEF l, x
    <3> QED BY <3>1
  <2> QED BY <1>5, <2>1, <2>2
<1> QED BY <1>1, <1>3, <1>4, <1>5, <1>6 DEF ReportsWhole, OwnContent

LEMMA ContentBegin ==
  ASSUME ContentSafe, C!BeginCapture
  PROVE  ContentSafe'
<1>1. /\ ~ seeing /\ seeing' = TRUE /\ began' = Len(published) + 1
      /\ published' = published /\ cur' = cur /\ channels' = channels /\ aborted' = aborted
      /\ contents' = contents
  BY DEF C!BeginCapture
<1>2. Len(published) \in Nat /\ channels = <<>> /\ contents = <<>>
  BY <1>1 DEF ContentSafe, ContentTyped, Assembles
<1>3. ContentTyped'
  BY <1>1, <1>2 DEF ContentSafe, ContentTyped
<1>4. SendsWell'
  BY <1>1 DEF ContentSafe, SendsWell
<1>5. Assembles'
  <2>1. \A ch \in DOMAIN cur : cur[ch].n < Len(published) + 1 /\ cur[ch].n \in Nat
    BY <1>2 DEF ContentSafe, SendsWell
  <2> QED BY <1>1, <1>2, <2>1 DEF Assembles
<1>6. ReportsWhole'
  <2>1. Len(contents) = 0
    BY <1>2
  <2>2. \A n \in 1 .. Len(published) : ~ (n >= Len(published) + 1)
    BY <1>2
  <2>3. \A n \in 1 .. Len(published) : ~ Due(n)'
    BY <1>1, <2>2 DEF Due
  <2> QED BY <1>1, <2>1, <2>3 DEF ReportsWhole
<1> QED BY <1>3, <1>4, <1>5, <1>6 DEF ContentSafe

\* What a new message is in the map.
FreshContent(n) ==
  [n |-> n, size |-> 0, hdr |-> 0, total |-> 0, body |-> <<>>, misread |-> {}, from |-> ""]

LEMMA FreshTyped == ASSUME NEW n \in Nat PROVE FreshContent(n) \in ContentRecord
<1>1. <<>> \in Seq(Nat)
  OBVIOUS
<1> QED BY <1>1 DEF FreshContent, ContentRecord

LEMMA ContentMethod ==
  ASSUME ContentSafe, NEW ch \in Channels, C!SendMethod(ch)
  PROVE  ContentSafe'
<1> DEFINE l == Len(published) + 1
<1>1. PICK size \in 0 .. MaxBody :
        /\ ch \notin DOMAIN cur
        /\ published' = Append(published, [ch |-> ch, size |-> size])
        /\ cur' = C!Put(cur, ch, [n |-> Len(published'), left |-> size, header |-> FALSE])
  BY DEF C!SendMethod
<1>2. seeing' = seeing /\ began' = began /\ aborted' = aborted
  BY DEF C!SendMethod
<1>3. Len(published) \in Nat /\ l \in Nat /\ size \in Nat /\ began \in Nat /\ began <= l /\ seeing \in BOOLEAN
      /\ aborted \subseteq 1 .. Len(published)
  BY ContentConstants DEF ContentSafe, ContentTyped
<1>4. /\ published' \in Seq([ch : Channels, size : Nat]) /\ Len(published') = l
      /\ \A n \in 1 .. Len(published) : published'[n] = published[n]
      /\ published'[l].size = size
  <2>1. published \in Seq([ch : Channels, size : Nat]) /\ [ch |-> ch, size |-> size] \in [ch : Channels, size : Nat]
    BY <1>3 DEF ContentSafe, ContentTyped
  <2> QED BY <1>1, <2>1, AppendProperties
<1> HIDE DEF l
<1>5. /\ DOMAIN cur' = DOMAIN cur \cup {ch} /\ \A c \in DOMAIN cur : cur'[c] = cur[c] /\ c # ch
      /\ cur'[ch] = [n |-> l, left |-> size, header |-> FALSE]
  BY <1>1, <1>4 DEF C!Put
<1>6. /\ contents' = contents
      /\ seeing => channels' = C!Put(channels, ch, FreshContent(l))
      /\ ~ seeing => channels' = channels
  <2>1. CASE seeing
    <3>1. C!amqpMethodFrame(ch, IF isClient THEN "Basic.Publish" ELSE "Basic.Deliver", l)
      BY <1>4, <2>1 DEF C!SendMethod
    <3> QED BY <2>1, <3>1 DEF C!amqpMethodFrame, C!amqpMethodName, C!parseAMQPArgs, FreshContent
  <2>2. CASE ~ seeing
    BY <2>2 DEF C!SendMethod
  <2> QED BY <2>1, <2>2
<1>7. \A n \in 1 .. Len(published) : n \in 1 .. l /\ n # l
  BY <1>3 DEF l
<1>8. ContentTyped'
  <2>1. ASSUME NEW c \in DOMAIN cur' PROVE cur'[c] \in [n : Nat, left : Nat, header : BOOLEAN]
    <3>1. CASE c \in DOMAIN cur
      BY <1>5, <3>1 DEF ContentSafe, ContentTyped
    <3>2. CASE c = ch
      <4>1. [n |-> l, left |-> size, header |-> FALSE] \in [n : Nat, left : Nat, header : BOOLEAN]
        BY <1>3
      <4>2. cur'[c] = [n |-> l, left |-> size, header |-> FALSE]
        BY <1>5, <3>2
      <4> QED BY <4>1, <4>2, Zenon
    <3> QED BY <1>5, <3>1, <3>2
  <2>2. ASSUME NEW c \in DOMAIN channels' PROVE channels'[c] \in ContentRecord
    BY <1>3, <1>6, FreshTyped DEF ContentSafe, ContentTyped, C!Put
  <2>3. contents' \in Seq(ContentRecord)
    BY <1>6 DEF ContentSafe, ContentTyped
  <2>4. began' <= Len(published') + 1 /\ aborted' \subseteq 1 .. Len(published')
    BY <1>2, <1>3, <1>4 DEF l
  <2> QED BY <1>2, <1>3, <1>4, <2>1, <2>2, <2>3, <2>4 DEF ContentTyped
<1>9. SendsWell'
  <2>1. ASSUME NEW c \in DOMAIN cur
        PROVE  /\ cur'[c].n \in 1 .. l /\ cur'[c].n # l /\ cur'[c].n \notin aborted'
               /\ cur'[c].left <= published'[cur'[c].n].size
               /\ cur'[c].header => cur'[c].left > 0
               /\ ~ cur'[c].header => cur'[c].left = published'[cur'[c].n].size
    <3>1. cur'[c] = cur[c] /\ cur[c].n \in 1 .. Len(published)
      BY <1>5, <2>1 DEF ContentSafe, SendsWell
    <3>2. published'[cur[c].n] = published[cur[c].n]
      BY <1>4, <3>1
    <3> QED BY <1>2, <1>7, <3>1, <3>2 DEF ContentSafe, SendsWell
  <2>2. cur'[ch].n = l /\ cur'[ch].left = size /\ ~ cur'[ch].header /\ l \in 1 .. l /\ l \notin aborted'
    BY <1>2, <1>3, <1>5 DEF l
  <2>3. ASSUME NEW a \in DOMAIN cur', NEW b \in DOMAIN cur', cur'[a].n = cur'[b].n PROVE a = b
    <3>1. CASE a \in DOMAIN cur /\ b \in DOMAIN cur
      BY <1>5, <2>3, <3>1 DEF ContentSafe, SendsWell
    <3>2. CASE ~ (a \in DOMAIN cur /\ b \in DOMAIN cur)
      BY <1>5, <2>1, <2>2, <2>3, <3>2
    <3> QED BY <3>1, <3>2
  <2>4. ASSUME NEW c \in DOMAIN cur'
        PROVE  /\ cur'[c].n \in 1 .. l /\ cur'[c].n \notin aborted'
               /\ cur'[c].left <= published'[cur'[c].n].size
               /\ cur'[c].header => cur'[c].left > 0
               /\ ~ cur'[c].header => cur'[c].left = published'[cur'[c].n].size
    <3>1. CASE c \in DOMAIN cur
      BY <2>1, <3>1
    <3>2. CASE c = ch
      BY <1>3, <1>4, <2>2, <3>2
    <3> QED BY <1>5, <3>1, <3>2
  <2> QED BY <1>4, <2>3, <2>4 DEF SendsWell
<1>10. Assembles'
  <2>1. CASE ~ seeing
    BY <1>2, <1>6, <2>1 DEF ContentSafe, Assembles
  <2>2. CASE seeing
    <3>1. /\ DOMAIN channels' = DOMAIN channels \cup {ch} /\ channels'[ch] = FreshContent(l)
          /\ \A c \in DOMAIN channels : c # ch => channels'[c] = channels[c]
      BY <1>6, <2>2 DEF C!Put
    <3>2. ASSUME NEW c \in DOMAIN cur'
          PROVE  /\ cur'[c].n < began => c \notin DOMAIN channels'
                 /\ cur'[c].n >= began /\ cur'[c].header =>
                      /\ c \in DOMAIN channels'
                      /\ OwnContent(channels'[c], cur'[c].n, published'[cur'[c].n].size,
                                    published'[cur'[c].n].size - cur'[c].left)
                 /\ cur'[c].n >= began /\ ~ cur'[c].header =>
                      /\ c \in DOMAIN channels'
                      /\ channels'[c].n = cur'[c].n /\ channels'[c].total = 0 /\ channels'[c].body = <<>>
      <4>1. CASE c \in DOMAIN cur
        <5>1. cur'[c] = cur[c] /\ c # ch /\ cur[c].n \in 1 .. Len(published)
          BY <1>5, <4>1 DEF ContentSafe, SendsWell
        <5>2. published'[cur[c].n] = published[cur[c].n]
          BY <1>4, <5>1
        <5>3. (c \in DOMAIN channels' <=> c \in DOMAIN channels) /\
              (c \in DOMAIN channels => channels'[c] = channels[c])
          BY <3>1, <5>1
        <5>4. /\ cur[c].n < began => c \notin DOMAIN channels
              /\ cur[c].n >= began /\ cur[c].header =>
                   /\ c \in DOMAIN channels
                   /\ OwnContent(channels[c], cur[c].n, published[cur[c].n].size,
                                 published[cur[c].n].size - cur[c].left)
              /\ cur[c].n >= began /\ ~ cur[c].header =>
                   /\ c \in DOMAIN channels
                   /\ channels[c].n = cur[c].n /\ channels[c].total = 0 /\ channels[c].body = <<>>
          BY <2>2, <4>1 DEF ContentSafe, Assembles
        <5> QED BY <5>1, <5>2, <5>3, <5>4
      <4>2. CASE c = ch
        <5>1. cur'[c].n = l /\ ~ cur'[c].header /\ ~ (l < began)
          BY <1>3, <1>5, <4>2
        <5>2. channels'[c].n = l /\ channels'[c].total = 0 /\ channels'[c].body = <<>>
          <6>1. FreshContent(l).n = l /\ FreshContent(l).total = 0 /\ FreshContent(l).body = <<>>
            BY DEF FreshContent
          <6>2. channels'[c] = FreshContent(l)
            BY <3>1, <4>2
          <6> QED BY <6>1, <6>2
        <5>3. ~ cur'[c].header /\ ~ (cur'[c].n < began) /\ c \in DOMAIN channels'
          BY <3>1, <4>2, <5>1
        <5>4. channels'[c].n = cur'[c].n
          BY <5>1, <5>2
        <5> QED BY <5>2, <5>3, <5>4, Zenon
      <4> QED BY <1>5, <4>1, <4>2
    <3> QED BY <1>2, <2>2, <3>2 DEF Assembles, OwnContent
  <2> QED BY <2>1, <2>2
<1>11. ReportsWhole'
  <2>1. ASSUME NEW n \in 1 .. l PROVE Due(n)' <=> n \in 1 .. Len(published) /\ Due(n)
    <3>1. CASE n = l
      <4>1. ~ C!Finished(n)' /\ n \notin 1 .. Len(published)
        BY <1>5, <1>7, <3>1 DEF C!Finished
      <4> QED BY <4>1 DEF Due
    <3>2. CASE n # l
      <4>1. C!Finished(n)' <=> C!Finished(n)
        BY <1>2, <1>5, <3>2 DEF C!Finished
      <4>2. n \in 1 .. Len(published)
        BY <1>3, <3>2 DEF l
      <4> QED BY <1>2, <4>1, <4>2 DEF Due
    <3> QED BY <3>1, <3>2
  <2>2. Len(published)' \in Nat /\ Len(published) <= Len(published)'
    BY <1>3, <1>4 DEF l
  <2> QED BY <1>4, <1>6, <2>1, <2>2, ReportsKept DEF ContentSafe
<1> QED BY <1>8, <1>9, <1>10, <1>11 DEF ContentSafe

\* What is under way on the other channels when the message of one ends.
LEMMA SendEnds ==
  ASSUME ContentSafe, NEW ch \in DOMAIN cur, cur' = C!Without(cur, ch),
         published' = published, seeing' = seeing, began' = began,
         aborted' \subseteq aborted \cup {cur[ch].n},
         channels' = channels \/ channels' = C!Without(channels, ch),
         ~ seeing => channels' = channels /\ contents' = contents
  PROVE  /\ SendsWell' /\ Assembles'
         /\ contents' \in Seq(ContentRecord) => ContentTyped'
<1>1. /\ DOMAIN cur' = DOMAIN cur \ {ch} /\ \A c \in DOMAIN cur' : cur'[c] = cur[c]
      /\ \A c \in DOMAIN channels : c # ch => c \in DOMAIN channels' /\ channels'[c] = channels[c]
      /\ DOMAIN channels' \subseteq DOMAIN channels /\ \A c \in DOMAIN channels' : channels'[c] = channels[c]
  BY DEF C!Without
<1>2. ASSUME NEW c \in DOMAIN cur'
      PROVE  c \in DOMAIN cur /\ c # ch /\ cur'[c] = cur[c] /\ cur[c].n \notin aborted'
  BY <1>1, <1>2 DEF ContentSafe, SendsWell
<1>3. SendsWell'
  <2>1. ASSUME NEW c \in DOMAIN cur'
        PROVE  /\ cur'[c].n \in 1 .. Len(published) /\ cur'[c].n \notin aborted'
               /\ cur'[c].left <= published[cur'[c].n].size
               /\ cur'[c].header => cur'[c].left > 0
               /\ ~ cur'[c].header => cur'[c].left = published[cur'[c].n].size
    BY <1>2 DEF ContentSafe, SendsWell
  <2>2. ASSUME NEW a \in DOMAIN cur', NEW b \in DOMAIN cur', cur'[a].n = cur'[b].n PROVE a = b
    BY <1>2, <2>2 DEF ContentSafe, SendsWell
  <2> QED BY <2>1, <2>2 DEF SendsWell
<1>4. Assembles'
  <2>1. CASE ~ seeing
    BY <2>1 DEF ContentSafe, Assembles
  <2>2. CASE seeing
    <3>1. ASSUME NEW c \in DOMAIN cur'
          PROVE  /\ cur'[c].n < began => c \notin DOMAIN channels'
                 /\ cur'[c].n >= began /\ cur'[c].header =>
                      /\ c \in DOMAIN channels'
                      /\ OwnContent(channels'[c], cur'[c].n, published[cur'[c].n].size,
                                    published[cur'[c].n].size - cur'[c].left)
                 /\ cur'[c].n >= began /\ ~ cur'[c].header =>
                      /\ c \in DOMAIN channels'
                      /\ channels'[c].n = cur'[c].n /\ channels'[c].total = 0 /\ channels'[c].body = <<>>
      <4>1. c \in DOMAIN cur /\ c # ch /\ cur'[c] = cur[c]
        BY <1>2
      <4>2. (c \in DOMAIN channels' <=> c \in DOMAIN channels) /\
            (c \in DOMAIN channels => channels'[c] = channels[c])
        BY <1>1, <4>1
      <4>3. /\ cur[c].n < began => c \notin DOMAIN channels
            /\ cur[c].n >= began /\ cur[c].header =>
                 /\ c \in DOMAIN channels
                 /\ OwnContent(channels[c], cur[c].n, published[cur[c].n].size,
                               published[cur[c].n].size - cur[c].left)
            /\ cur[c].n >= began /\ ~ cur[c].header =>
                 /\ c \in DOMAIN channels
                 /\ channels[c].n = cur[c].n /\ channels[c].total = 0 /\ channels[c].body = <<>>
        BY <2>2, <4>1 DEF ContentSafe, Assembles
      <4> QED BY <4>1, <4>2, <4>3
    <3> QED BY <2>2, <3>1 DEF Assembles, OwnContent
  <2> QED BY <2>1, <2>2
<1>5. ASSUME contents' \in Seq(ContentRecord) PROVE ContentTyped'
  <2>1. aborted' \subseteq 1 .. Len(published)
    BY DEF ContentSafe, ContentTyped, SendsWell
  <2>2. \A c \in DOMAIN cur' : cur'[c] \in [n : Nat, left : Nat, header : BOOLEAN]
    BY <1>2 DEF ContentSafe, ContentTyped
  <2>3. \A c \in DOMAIN channels' : channels'[c] \in ContentRecord
    BY <1>1 DEF ContentSafe, ContentTyped
  <2> QED BY <1>5, <2>1, <2>2, <2>3 DEF ContentSafe, ContentTyped
<1> QED BY <1>3, <1>4, <1>5

\* The last frame of a message.
LEMMA ContentComplete ==
  ASSUME ContentSafe, NEW ch \in DOMAIN cur, cur' = C!Without(cur, ch),
         published' = published, seeing' = seeing, began' = began, aborted' = aborted, NEW e,
         IF ~ seeing \/ ch \notin DOMAIN channels THEN channels' = channels /\ contents' = contents
         ELSE /\ e \in ContentRecord /\ contents' = C!emitAMQP(e)
              /\ channels' = C!Without(channels, ch)
              /\ OwnContent(e, cur[ch].n, published[cur[ch].n].size, published[cur[ch].n].size)
  PROVE  ContentSafe'
<1> DEFINE k == cur[ch].n
<1>1. SendsWell' /\ Assembles' /\ (contents' \in Seq(ContentRecord) => ContentTyped')
  BY SendEnds
<1>2. k \in 1 .. Len(published) /\ k \in Nat /\ k # 0 /\ k \notin aborted /\ ~ C!Finished(k)
  BY DEF ContentSafe, ContentTyped, SendsWell, C!Finished
<1>3. ASSUME NEW n PROVE C!Finished(n)' <=> C!Finished(n) \/ n = k
  <2>1. DOMAIN cur' = DOMAIN cur \ {ch} /\ \A c \in DOMAIN cur' : cur'[c] = cur[c]
    BY DEF C!Without
  <2>2. \A c \in DOMAIN cur : cur[c].n = k => c = ch
    BY DEF ContentSafe, SendsWell
  <2> QED BY <1>2, <2>1, <2>2 DEF C!Finished
<1>4. contents \in Seq(ContentRecord) /\ ContentTyped /\ ReportsWhole /\ seeing \in BOOLEAN
      /\ began \in Nat /\ Len(published) \in Nat
  BY DEF ContentSafe, ContentTyped
<1>5. CASE ~ seeing \/ ch \notin DOMAIN channels
  <2>1. ~ (seeing /\ k >= began)
    BY <1>2, <1>4, <1>5 DEF ContentSafe, Assembles, SendsWell
  <2> HIDE DEF k
  <2>2. \A n \in 1 .. Len(published) : Due(n)' <=> Due(n)
    BY <1>3, <2>1 DEF Due
  <2>3. ReportsWhole'
    BY <1>4, <1>5, <2>2, ReportsKept
  <2> QED BY <1>1, <1>4, <1>5, <2>3 DEF ContentSafe
<1>6. CASE ~ (~ seeing \/ ch \notin DOMAIN channels)
  <2>1. seeing /\ k >= began
    <3>1. ~ (k < began)
      BY <1>6 DEF ContentSafe, Assembles
    <3> QED BY <1>2, <1>4, <1>6, <3>1
  <2>2. e \in ContentRecord /\ contents' = C!emitAMQP(e) /\ e.n = k
        /\ OwnContent(e, e.n, published[e.n].size, published[e.n].size)
    BY <1>6 DEF OwnContent
  <2> HIDE DEF k
  <2>3. \A n \in 1 .. Len(published) : Due(n)' <=> Due(n) \/ n = e.n
    BY <1>3, <2>1, <2>2 DEF Due
  <2>4. ~ Due(e.n)
    BY <1>2, <2>2 DEF Due
  <2>5. ReportsWhole'
    BY <1>2, <1>4, <2>2, <2>3, <2>4, ReportsMore
  <2>6. contents' \in Seq(ContentRecord)
    BY <1>4, <2>2, EmitIs
  <2> QED BY <1>1, <2>5, <2>6 DEF ContentSafe
<1> QED BY <1>5, <1>6

LEMMA ContentClose ==
  ASSUME ContentSafe, NEW ch \in Channels, C!CloseChannel(ch)
  PROVE  ContentSafe'
<1> DEFINE k == cur[ch].n
<1>1. /\ ch \in DOMAIN cur /\ cur' = C!Without(cur, ch) /\ aborted' = aborted \cup {k}
      /\ published' = published /\ seeing' = seeing /\ began' = began
  BY DEF C!CloseChannel
<1>2. /\ channels' = channels
      /\ seeing => contents' = C!emitAMQP(FreshContent(0))
      /\ ~ seeing => contents' = contents
  <2>1. CASE seeing
    <3>1. C!amqpMethodFrame(ch, "Channel.Close", 0)
      BY <2>1 DEF C!CloseChannel
    <3> QED BY <2>1, <3>1 DEF C!amqpMethodFrame, C!amqpMethodName, C!parseAMQPArgs, FreshContent
  <2>2. CASE ~ seeing
    BY <2>2 DEF C!CloseChannel
  <2> QED BY <2>1, <2>2
<1>3. SendsWell' /\ Assembles' /\ (contents' \in Seq(ContentRecord) => ContentTyped')
  BY <1>1, <1>2, SendEnds
<1>4. contents \in Seq(ContentRecord) /\ ContentTyped /\ ReportsWhole /\ Len(published) \in Nat
  BY DEF ContentSafe, ContentTyped
<1>5. ASSUME NEW n PROVE C!Finished(n)' <=> C!Finished(n)
  <2>1. DOMAIN cur' = DOMAIN cur \ {ch} /\ \A c \in DOMAIN cur' : cur'[c] = cur[c]
    BY <1>1 DEF C!Without
  <2> QED BY <1>1, <2>1 DEF C!Finished
<1> HIDE DEF k
<1>6. \A n : Due(n)' <=> Due(n)
  BY <1>1, <1>5 DEF Due
<1>7. CASE seeing
  <2>1. FreshContent(0) \in ContentRecord /\ FreshContent(0).n = 0
    BY FreshTyped DEF FreshContent
  <2>2. \A n \in 1 .. Len(published) : n # 0
    BY <1>4
  <2> DEFINE e == FreshContent(0)
  <2>3. e \in ContentRecord /\ e.n = 0 /\ contents' = C!emitAMQP(e)
    BY <1>2, <1>7, <2>1
  <2> HIDE DEF e
  <2>4. \A n \in 1 .. Len(published) : Due(n)' <=> Due(n) \/ n = e.n
    BY <1>6, <2>2, <2>3
  <2>5. ReportsWhole'
    BY <1>1, <1>4, <2>3, <2>4, ReportsMore
  <2>6. contents' \in Seq(ContentRecord)
    BY <1>4, <2>3, EmitIs
  <2> QED BY <1>3, <2>5, <2>6 DEF ContentSafe
<1>8. CASE ~ seeing
  <2>1. ReportsWhole'
    BY <1>1, <1>2, <1>4, <1>6, <1>8, ReportsKept
  <2> QED BY <1>2, <1>3, <1>4, <1>8, <2>1 DEF ContentSafe
<1> QED BY <1>7, <1>8

\* A message goes on behind its header or a part of its body.
LEMMA ContentGoesOn ==
  ASSUME ContentSafe, NEW ch \in DOMAIN cur, NEW x \in [n : Nat, left : Nat, header : BOOLEAN],
         cur' = [cur EXCEPT ![ch] = x],
         x.n = cur[ch].n, x.header, x.left > 0, x.left <= published[cur[ch].n].size,
         published' = published, seeing' = seeing, began' = began, aborted' = aborted,
         contents' = contents, NEW e,
         IF ~ seeing \/ ch \notin DOMAIN channels THEN channels' = channels
         ELSE /\ e \in ContentRecord /\ channels' = C!Put(channels, ch, e)
              /\ OwnContent(e, cur[ch].n, published[cur[ch].n].size,
                            published[cur[ch].n].size - x.left)
  PROVE  ContentSafe'
<1>1. /\ DOMAIN cur' = DOMAIN cur /\ cur'[ch] = x
      /\ \A c \in DOMAIN cur : c # ch => cur'[c] = cur[c]
      /\ \A c \in DOMAIN cur : cur'[c].n = cur[c].n
  OBVIOUS
<1>2. ContentTyped'
  <2>1. \A c \in DOMAIN cur' : cur'[c] \in [n : Nat, left : Nat, header : BOOLEAN]
    BY <1>1 DEF ContentSafe, ContentTyped
  <2>2. \A c \in DOMAIN channels' : channels'[c] \in ContentRecord
    BY DEF ContentSafe, ContentTyped, C!Put
  <2> QED BY <2>1, <2>2 DEF ContentSafe, ContentTyped
<1>3. SendsWell'
  <2>1. ASSUME NEW c \in DOMAIN cur'
        PROVE  /\ cur'[c].n \in 1 .. Len(published) /\ cur'[c].n \notin aborted
               /\ cur'[c].left <= published[cur'[c].n].size
               /\ cur'[c].header => cur'[c].left > 0
               /\ ~ cur'[c].header => cur'[c].left = published[cur'[c].n].size
    <3>1. CASE c = ch
      BY <1>1, <3>1 DEF ContentSafe, SendsWell
    <3>2. CASE c # ch
      BY <1>1, <3>2 DEF ContentSafe, SendsWell
    <3> QED BY <3>1, <3>2
  <2>2. ASSUME NEW a \in DOMAIN cur', NEW b \in DOMAIN cur', cur'[a].n = cur'[b].n PROVE a = b
    BY <1>1, <2>2 DEF ContentSafe, SendsWell
  <2> QED BY <2>1, <2>2 DEF SendsWell
<1>4. Assembles'
  <2>1. CASE ~ seeing
    BY <2>1 DEF ContentSafe, Assembles
  <2>2. CASE seeing
    <3>0. /\ \A c \in DOMAIN channels : c # ch => channels'[c] = channels[c]
          /\ DOMAIN channels' = DOMAIN channels
          /\ ch \in DOMAIN channels => channels'[ch] = e
      BY <2>2 DEF C!Put
    <3>1. ASSUME NEW c \in DOMAIN cur'
          PROVE  /\ cur'[c].n < began => c \notin DOMAIN channels'
                 /\ cur'[c].n >= began /\ cur'[c].header =>
                      /\ c \in DOMAIN channels'
                      /\ OwnContent(channels'[c], cur'[c].n, published[cur'[c].n].size,
                                    published[cur'[c].n].size - cur'[c].left)
                 /\ cur'[c].n >= began /\ ~ cur'[c].header =>
                      /\ c \in DOMAIN channels'
                      /\ channels'[c].n = cur'[c].n /\ channels'[c].total = 0 /\ channels'[c].body = <<>>
      <4>1. /\ cur[c].n < began => c \notin DOMAIN channels
            /\ cur[c].n >= began /\ cur[c].header =>
                 /\ c \in DOMAIN channels
                 /\ OwnContent(channels[c], cur[c].n, published[cur[c].n].size,
                               published[cur[c].n].size - cur[c].left)
            /\ cur[c].n >= began /\ ~ cur[c].header =>
                 /\ c \in DOMAIN channels
                 /\ channels[c].n = cur[c].n /\ channels[c].total = 0 /\ channels[c].body = <<>>
        BY <1>1, <2>2 DEF ContentSafe, Assembles
      <4>2. CASE c # ch
        <5>1. cur'[c] = cur[c] /\ (c \in DOMAIN channels => channels'[c] = channels[c])
          BY <1>1, <3>0, <4>2
        <5> QED BY <3>0, <4>1, <5>1
      <4>3. CASE c = ch
        <5>1. c \in DOMAIN channels => /\ channels'[c] = e
                /\ OwnContent(e, cur[c].n, published[cur[c].n].size, published[cur[c].n].size - x.left)
          BY <2>2, <3>0, <4>3
        <5>2. cur'[c] = x /\ x.n = cur[c].n /\ x.header
          BY <1>1, <4>3
        <5>3. cur[c].n >= began => c \in DOMAIN channels
          BY <4>1
        <5> QED BY <3>0, <4>1, <5>1, <5>2, <5>3
      <4> QED BY <4>2, <4>3
    <3> QED BY <2>2, <3>1 DEF Assembles, OwnContent
  <2> QED BY <2>1, <2>2
<1>5. ReportsWhole'
  <2>1. \A n : C!Finished(n)' <=> C!Finished(n)
    BY <1>1 DEF C!Finished
  <2>2. \A n : Due(n)' <=> Due(n)
    BY <2>1 DEF Due
  <2>3. Len(published) \in Nat /\ ContentTyped /\ ReportsWhole
    BY DEF ContentSafe, ContentTyped
  <2> QED BY <2>2, <2>3, ReportsKept
<1> QED BY <1>2, <1>3, <1>4, <1>5 DEF ContentSafe

LEMMA ContentHeader ==
  ASSUME ContentSafe, NEW ch \in Channels, C!SendHeader(ch)
  PROVE  ContentSafe'
<1> DEFINE k == cur[ch].n
           size == published[k].size
<1>1. /\ ch \in DOMAIN cur /\ ~ cur[ch].header
      /\ published' = published /\ seeing' = seeing /\ began' = began /\ aborted' = aborted
      /\ cur' = IF cur[ch].left = 0 THEN C!Without(cur, ch) ELSE [cur EXCEPT ![ch].header = TRUE]
  BY SMTT(30) DEF C!SendHeader
<1>2. PICK flags \in {{}, C!ToSet(BasicProperties), {"headers", "replyTo"}, {"priority", "messageId"}},
           sound \in BOOLEAN, cut \in {0, 1, 3} :
        LET b == C!PropertyList(flags)
            shown == C!parseAMQPBasicProps(SubSeq(b, 1, Len(b) - cut), flags, sound)
            y == [channels[ch] EXCEPT
                       !.size = size, !.hdr = k,
                       !.misread = {p \in DOMAIN shown : shown[p] \notin {p, ""}}]
        IN  IF ~ seeing \/ ch \notin DOMAIN channels THEN UNCHANGED <<channels, contents>>
            ELSE IF size = 0
            THEN contents' = C!emitAMQP(y) /\ channels' = C!Without(channels, ch)
            ELSE channels' = C!Put(channels, ch, y) /\ UNCHANGED contents
  BY DEF C!SendHeader
<1> DEFINE y == [channels[ch] EXCEPT !.size = size, !.hdr = k, !.misread = {}]
<1>3. IF ~ seeing \/ ch \notin DOMAIN channels THEN UNCHANGED <<channels, contents>>
      ELSE IF size = 0
      THEN contents' = C!emitAMQP(y) /\ channels' = C!Without(channels, ch)
      ELSE channels' = C!Put(channels, ch, y) /\ UNCHANGED contents
  <2>1. cut \in Nat
    OBVIOUS
  <2>2. LET b == C!PropertyList(flags)
            shown == C!parseAMQPBasicProps(SubSeq(b, 1, Len(b) - cut), flags, sound)
        IN  {p \in DOMAIN shown : shown[p] \notin {p, ""}} = {}
    BY <2>1, PropertiesShown
  <2> QED BY <1>2, <2>2
<1>4. k \in Nat /\ k \in 1 .. Len(published) /\ size \in Nat /\ cur[ch].left = size
      /\ cur[ch] \in [n : Nat, left : Nat, header : BOOLEAN]
  <2>1. /\ cur[ch] \in [n : Nat, left : Nat, header : BOOLEAN] /\ k \in 1 .. Len(published)
        /\ cur[ch].left = size
    BY <1>1 DEF ContentSafe, ContentTyped, SendsWell
  <2> QED BY <2>1
<1>5. ASSUME seeing, ch \in DOMAIN channels
      PROVE  y \in ContentRecord /\ OwnContent(y, k, size, 0)
  <2>1. channels[ch] \in ContentRecord
    BY <1>5 DEF ContentSafe, ContentTyped
  <2>2. k >= began /\ channels[ch].n = k /\ channels[ch].total = 0 /\ channels[ch].body = <<>>
    <3>1. began \in Nat
      BY DEF ContentSafe, ContentTyped
    <3> QED BY <1>1, <1>4, <1>5, <3>1 DEF ContentSafe, Assembles
  <2> HIDE DEF size, k
  <2>3. /\ y \in ContentRecord /\ y.n = channels[ch].n /\ y.size = size /\ y.hdr = k
        /\ y.total = channels[ch].total /\ y.body = channels[ch].body
    BY <1>4, <2>1 DEF ContentRecord
  <2> HIDE DEF y
  <2>4. Len(y.body) = 0 /\ C!Beginning(0) = 0 /\ bodyCap \in Nat
    BY <2>2, <2>3, ContentConstants DEF C!Beginning
  <2>5. OwnBody(y.body, k, 0)
    BY <2>4 DEF OwnBody
  <2> QED BY <2>2, <2>3, <2>5 DEF OwnContent
<1>6. CASE size = 0
  <2>1. cur' = C!Without(cur, ch)
    BY <1>1, <1>4, <1>6
  <2>2. IF ~ seeing \/ ch \notin DOMAIN channels THEN channels' = channels /\ contents' = contents
        ELSE /\ y \in ContentRecord /\ contents' = C!emitAMQP(y)
             /\ channels' = C!Without(channels, ch)
             /\ OwnContent(y, k, size, size)
    BY <1>3, <1>5, <1>6
  <2> HIDE DEF y
  <2> QED BY <1>1, <2>1, <2>2, ContentComplete
<1>7. CASE size # 0
  <2> DEFINE x == [cur[ch] EXCEPT !.header = TRUE]
  <2>1. cur' = [cur EXCEPT ![ch] = x]
    BY <1>1, <1>4, <1>7
  <2>2. x \in [n : Nat, left : Nat, header : BOOLEAN] /\ x.n = k /\ x.header /\ x.left = size
    BY <1>4
  <2>3. size - x.left = 0 /\ x.left > 0 /\ x.left <= size
    BY <1>4, <1>7, <2>2
  <2>4. IF ~ seeing \/ ch \notin DOMAIN channels THEN channels' = channels
        ELSE /\ y \in ContentRecord /\ channels' = C!Put(channels, ch, y)
             /\ OwnContent(y, k, size, size - x.left)
    BY <1>3, <1>5, <1>7, <2>3
  <2>5. contents' = contents
    BY <1>3, <1>7
  <2> HIDE DEF y, x
  <2> QED BY <1>1, <2>1, <2>2, <2>3, <2>4, <2>5, ContentGoesOn
<1> QED BY <1>6, <1>7

\* A body frame adds bytes behind those that have passed.
LEMMA MoreBody ==
  ASSUME NEW b \in Seq(Nat \X Nat), NEW n \in Nat, NEW k \in Nat, OwnBody(b, n, k),
         NEW full \in Nat
  PROVE  LET room == bodyCap - Len(b)
             some == C!readAMQPFrame(full)
             take == IF some > room THEN room ELSE some
             w == b \o C!Bytes(n, k, take)
         IN  w \in Seq(Nat \X Nat) /\ OwnBody(w, n, k + full)
<1> DEFINE room == bodyCap - Len(b)
           some == C!readAMQPFrame(full)
           take == IF some > room THEN room ELSE some
           more == C!Bytes(n, k, take)
           w == b \o more
           l == Len(b)
<1>1. l \in Nat /\ bodyCap \in Nat /\ amqpMaxCapture \in Nat
  BY ContentConstants
<1>2. l >= C!Beginning(k) /\ l <= bodyCap /\ l <= k
  BY DEF OwnBody
<1> HIDE DEF l
<1>3. /\ take \in Nat /\ take <= full /\ l + take <= bodyCap /\ C!Beginning(k) \in Nat
      /\ l + take >= C!Beginning(k + full)
      /\ C!Beginning(k + full) = C!Beginning(k) \/ (C!Beginning(k) = k /\ l = k)
  BY <1>1, <1>2 DEF C!readAMQPFrame, C!Beginning, l
<1> HIDE DEF take
<1>4. more \in Seq(Nat \X Nat) /\ Len(more) = take /\ \A i \in 1 .. take : more[i] = <<n, k + i>>
  <2>1. more \in [1 .. take -> Nat \X Nat]
    BY <1>3 DEF C!Bytes
  <2>2. more \in Seq(Nat \X Nat)
    BY <1>3, <2>1, SeqDef
  <2> QED BY <1>3, <2>2 DEF C!Bytes
<1> HIDE DEF more
<1>5. /\ w \in Seq(Nat \X Nat) /\ Len(w) = l + take
      /\ \A i \in 1 .. l + take : w[i] = IF i <= l THEN b[i] ELSE more[i - l]
  BY <1>4, ConcatProperties DEF l
<1> HIDE DEF w
<1>6. ASSUME NEW i \in 1 .. l + take
      PROVE  \/ i \in 1 .. l /\ w[i] = b[i]
             \/ i > l /\ i - l \in 1 .. take /\ w[i][1] = n /\ w[i][2] = k + (i - l)
  <2>1. CASE i <= l
    BY <1>1, <1>3, <1>5, <2>1
  <2>2. CASE i > l
    <3>1. i - l \in 1 .. take
      BY <1>1, <1>3, <2>2
    <3>2. w[i] = more[i - l] /\ more[i - l] = <<n, k + (i - l)>>
      <4>1. ~(i <= l)
        BY <1>1, <1>3, <2>2
      <4>2. w[i] = more[i - l]
        BY <1>5, <4>1
      <4>3. more[i - l] = <<n, k + (i - l)>>
        BY <1>4, <3>1
      <4> QED BY <4>2, <4>3
    <3> QED BY <2>2, <3>1, <3>2
  <2> QED BY <1>1, <1>3, <2>1, <2>2
<1>7. /\ \A j \in 1 .. l : b[j][1] = n /\ b[j][2] \in 1 .. k
      /\ \A j \in 1 .. l : j <= C!Beginning(k) => b[j][2] = j
      /\ \A i, j \in 1 .. l : i < j => b[i][2] < b[j][2]
  BY DEF OwnBody, l
<1>8. ASSUME NEW j \in 1 .. l + take
      PROVE  /\ w[j][1] = n /\ w[j][2] \in 1 .. k + full
             /\ j <= C!Beginning(k + full) => w[j][2] = j
  <2>1. CASE j \in 1 .. l /\ w[j] = b[j]
    <3>1. w[j][1] = n /\ w[j][2] \in 1 .. k /\ (j <= C!Beginning(k) => w[j][2] = j)
      BY <1>7, <2>1
    <3>2. j <= C!Beginning(k + full) => j <= C!Beginning(k)
      <4>1. CASE C!Beginning(k + full) = C!Beginning(k)
        BY <4>1
      <4>2. CASE C!Beginning(k) = l
        BY <1>1, <2>1, <4>2
      <4> QED BY <1>3, <4>1, <4>2
    <3> QED BY <3>1, <3>2
  <2>2. CASE j > l /\ j - l \in 1 .. take /\ w[j][1] = n /\ w[j][2] = k + (j - l)
    <3>1. k + (j - l) \in 1 .. k + full
      BY <1>1, <1>3, <2>2
    <3>2. j <= C!Beginning(k + full) => k + (j - l) = j
      BY <1>1, <1>2, <1>3, <2>2
    <3> QED BY <2>2, <3>1, <3>2
  <2> QED BY <1>6, <2>1, <2>2
<1>9. ASSUME NEW i \in 1 .. l + take, NEW j \in 1 .. l + take, i < j PROVE w[i][2] < w[j][2]
  <2>1. CASE j \in 1 .. l /\ w[j] = b[j]
    <3>1. i \in 1 .. l
      BY <1>1, <1>3, <1>9, <2>1
    <3>2. w[i] = b[i]
      BY <1>1, <1>3, <1>5, <3>1
    <3> QED BY <3>2, <1>7, <1>9, <2>1, <3>1
  <2>2. CASE j > l /\ j - l \in 1 .. take /\ w[j][2] = k + (j - l)
    <3>1. CASE i \in 1 .. l /\ w[i] = b[i]
      <4>1. w[i][2] \in 1 .. k
        BY <1>7, <3>1
      <4> QED BY <1>1, <2>2, <4>1
    <3>2. CASE i > l /\ w[i][2] = k + (i - l)
      BY <1>1, <1>9, <2>2, <3>2
    <3> QED BY <1>6, <3>1, <3>2
  <2> QED BY <1>6, <2>1, <2>2
<1>10. OwnBody(w, n, k + full)
  BY <1>1, <1>3, <1>5, <1>2, <1>8, <1>9 DEF OwnBody
<1> QED BY <1>5, <1>10 DEF w, more, take, l

LEMMA ContentBody ==
  ASSUME ContentSafe, NEW ch \in Channels, C!SendBody(ch)
  PROVE  ContentSafe'
<1> DEFINE k == cur[ch].n
           size == published[k].size
<1>1. PICK full \in 1 .. cur[ch].left :
        LET y == C!amqpBodyFrame(channels[ch], k, size - cur[ch].left, full)
        IN  /\ cur' = IF full = cur[ch].left THEN C!Without(cur, ch)
                      ELSE [cur EXCEPT ![ch].left = @ - full]
            /\ IF ~ seeing \/ ch \notin DOMAIN channels THEN UNCHANGED <<channels, contents>>
               ELSE IF y.total >= y.size
               THEN contents' = C!emitAMQP(y) /\ channels' = C!Without(channels, ch)
               ELSE channels' = C!Put(channels, ch, y) /\ UNCHANGED contents
  BY DEF C!SendBody
<1>2. /\ ch \in DOMAIN cur /\ cur[ch].header
      /\ published' = published /\ seeing' = seeing /\ began' = began /\ aborted' = aborted
  BY DEF C!SendBody
<1> DEFINE y == C!amqpBodyFrame(channels[ch], k, size - cur[ch].left, full)
<1>3. /\ cur[ch] \in [n : Nat, left : Nat, header : BOOLEAN] /\ k \in 1 .. Len(published)
      /\ cur[ch].left <= size /\ published \in Seq([ch : Channels, size : Nat])
  BY <1>2 DEF ContentSafe, ContentTyped, SendsWell
<1>4. k \in Nat /\ size \in Nat /\ cur[ch].left \in Nat /\ full \in Nat /\ full > 0
      /\ full <= cur[ch].left
  <2>1. cur[ch].left \in Nat /\ k \in Nat /\ k \in 1 .. Len(published)
    BY <1>3
  <2>2. published[k] \in [ch : Channels, size : Nat]
    BY <1>3, <2>1, ElementOfSeq
  <2>3. size \in Nat
    BY <2>2
  <2>4. full \in Nat /\ full > 0 /\ full <= cur[ch].left
    BY <2>1
  <2> QED BY <2>1, <2>3, <2>4
<1>5. ASSUME seeing, ch \in DOMAIN channels
      PROVE  /\ y \in ContentRecord /\ y.size = size
             /\ OwnContent(y, k, size, size - cur[ch].left + full)
  <2>1. channels[ch] \in ContentRecord
    BY <1>5 DEF ContentSafe, ContentTyped
  <2>2. OwnContent(channels[ch], k, size, size - cur[ch].left)
    <3>1. began \in Nat /\ ~ (k < began)
      BY <1>2, <1>5 DEF ContentSafe, ContentTyped, Assembles
    <3>2. k >= began
      BY <1>4, <3>1
    <3> QED BY <1>2, <1>5, <3>2 DEF ContentSafe, Assembles
  <2> DEFINE z == channels[ch]
             t == size - cur[ch].left
             room == bodyCap - Len(z.body)
             some == C!readAMQPFrame(full)
             take == IF some > room THEN room ELSE some
             w == z.body \o C!Bytes(k, t, take)
  <2>3. y = [z EXCEPT !.total = z.total + full, !.body = w]
    BY DEF C!amqpBodyFrame
  <2>4. t \in Nat /\ z \in ContentRecord
    BY <1>3, <1>4, <2>1
  <2> HIDE DEF t, z, size, k, y
  <2>5. z.n = k /\ z.size = size /\ z.hdr = k /\ z.total = t /\ OwnBody(z.body, k, t)
    BY <2>2 DEF OwnContent, t, z
  <2>6. z.body \in Seq(Nat \X Nat)
    BY <2>4 DEF ContentRecord
  <2>11. w \in Seq(Nat \X Nat) /\ OwnBody(w, k, t + full)
    BY <1>4, <2>4, <2>5, <2>6, MoreBody DEF k
  <2> HIDE DEF w
  <2>12. z.total + full \in Nat
    BY <1>4, <2>4, <2>5
  <2>13. /\ y \in ContentRecord /\ y.n = z.n /\ y.size = z.size /\ y.hdr = z.hdr
         /\ y.total = z.total + full /\ y.body = w
    BY <2>3, <2>4, <2>11, <2>12 DEF ContentRecord
  <2>14. OwnContent(y, k, size, t + full)
    BY <2>5, <2>11, <2>13 DEF OwnContent
  <2> QED BY <2>5, <2>13, <2>14 DEF t
<1>6. CASE full = cur[ch].left
  <2>1. cur' = C!Without(cur, ch)
    BY <1>1, <1>6
  <2>2. size - cur[ch].left + full = size
    BY <1>4, <1>6
  <2>3. IF ~ seeing \/ ch \notin DOMAIN channels THEN channels' = channels /\ contents' = contents
        ELSE /\ y \in ContentRecord /\ contents' = C!emitAMQP(y)
             /\ channels' = C!Without(channels, ch)
             /\ OwnContent(y, k, size, size)
    <3>1. CASE ~ seeing \/ ch \notin DOMAIN channels
      BY <1>1, <3>1
    <3>2. CASE ~ (~ seeing \/ ch \notin DOMAIN channels)
      <4>1. y \in ContentRecord /\ y.size = size /\ OwnContent(y, k, size, size)
        BY <1>5, <2>2, <3>2
      <4>2. y.total >= y.size
        BY <1>4, <4>1 DEF OwnContent
      <4> QED BY <1>1, <3>2, <4>1, <4>2
    <3> QED BY <3>1, <3>2
  <2> HIDE DEF y
  <2> QED BY <1>2, <2>1, <2>3, ContentComplete
<1>7. CASE full # cur[ch].left
  <2> DEFINE x == [cur[ch] EXCEPT !.left = @ - full]
  <2>1. cur' = [cur EXCEPT ![ch] = x]
    BY <1>1, <1>7
  <2>2. cur[ch].left - full \in Nat /\ cur[ch].left - full > 0 /\ cur[ch].left - full <= size
        /\ size - cur[ch].left + full = size - (cur[ch].left - full)
        /\ ~ (size - (cur[ch].left - full) >= size)
    <3>1. \A a, b, c \in Nat : b > 0 /\ b <= a /\ b # a /\ a <= c
            => /\ a - b \in Nat /\ a - b > 0 /\ a - b <= c
               /\ c - a + b = c - (a - b) /\ ~ (c - (a - b) >= c)
      OBVIOUS
    <3>2. /\ cur[ch].left \in Nat /\ full \in Nat /\ size \in Nat
          /\ full > 0 /\ full <= cur[ch].left /\ full # cur[ch].left /\ cur[ch].left <= size
      <4> HIDE DEF k, size, y, x
      <4> QED BY <1>3, <1>4, <1>7
    <3> HIDE DEF k, size, y, x
    <3> QED BY <3>1, <3>2
  <2>3. /\ x \in [n : Nat, left : Nat, header : BOOLEAN] /\ x.n = k /\ x.header
        /\ x.left = cur[ch].left - full
    BY <1>2, <1>3, <2>2
  <2> HIDE DEF x
  <2>4. /\ contents' = contents
        /\ IF ~ seeing \/ ch \notin DOMAIN channels THEN channels' = channels
           ELSE /\ y \in ContentRecord /\ channels' = C!Put(channels, ch, y)
                /\ OwnContent(y, k, size, size - x.left)
    <3>1. CASE ~ seeing \/ ch \notin DOMAIN channels
      BY <1>1, <3>1
    <3>2. CASE ~ (~ seeing \/ ch \notin DOMAIN channels)
      <4>1. y \in ContentRecord /\ y.size = size /\ OwnContent(y, k, size, size - x.left)
        BY <1>5, <2>2, <2>3, <3>2
      <4>2. ~ (y.total >= y.size)
        BY <2>2, <2>3, <4>1 DEF OwnContent
      <4> QED BY <1>1, <3>2, <4>1, <4>2
    <3> QED BY <3>1, <3>2
  <2>5. x.left > 0 /\ x.left <= size
    BY <2>2, <2>3
  <2> HIDE DEF y
  <2> QED BY <1>2, <2>1, <2>3, <2>4, <2>5, ContentGoesOn
<1> QED BY <1>6, <1>7

LEMMA ContentNext == ContentSafe /\ (C!Next \/ UNCHANGED contentVars) => ContentSafe'
BY ContentSame, ContentBegin, ContentMethod, ContentHeader, ContentBody, ContentClose DEF C!Next

\* An AMQP message whose method frame was captured is reported once, when it is
\* complete, with its own header and bytes of its own body in their order, however
\* many channels alternate and wherever the capture began.  The beginning of the
\* body is whole, up to the lesser of what is kept of a body and what is read of a
\* frame (dissect_amqp.go:77-127, 160-191, 421-426, 489-560).
THEOREM ContentCorrect == MCSpec => []ContentIsWhole
<1> DEFINE Safe == part = "contents" => ContentSafe
<1>1. MCInit => Safe
  <2>1. ASSUME MCInit, part = "contents" PROVE C!Init
    BY <2>1 DEF MCInit
  <2> QED BY <2>1, ContentInit
<1>2. Safe /\ [MCNext]_captureVars => Safe'
  <2> SUFFICES ASSUME Safe, [MCNext]_captureVars, part' = "contents" PROVE ContentSafe'
    OBVIOUS
  <2>1. part = "contents"
    BY DEF MCNext, captureVars
  <2>2. C!Next \/ UNCHANGED contentVars
    BY <2>1 DEF MCNext, captureVars, dissectorVars
  <2> QED BY <2>1, <2>2, ContentNext
<1>3. Safe => ContentIsWhole
  BY ContentImply DEF ContentIsWhole
<1> QED BY <1>1, <1>2, <1>3, PTL DEF MCSpec, captureVars
================================================================================
