---------------------------- MODULE ReplyPairing ----------------------------
(***************************************************************************)
(* What the dissectors of the in-order protocols take for a command and    *)
(* for its reply: MySQL (dissect_mysql.go), PostgreSQL                     *)
(* (dissect_postgres.go) and Redis (dissect_redis.go).  One side appends   *)
(* to the connection's pending queue, the other pops it at every reply it  *)
(* recognises, so one reply too many or too few shifts every later entry.  *)
(* How the queue behaves when the two goroutines race is Pairing's         *)
(* subject; here a command is read before its reply.                       *)
(*                                                                         *)
(* A server message carries the number of the command it answers, which    *)
(* the dissector does not see.                                             *)
(***************************************************************************)
EXTENDS Integers, Sequences, SequencesExt

CONSTANTS
  MaxCommands,   \* bound on the commands
  MaxPushes,     \* bound on Redis pushes
  DefColumns     \* column count a definition's first byte reads as (3: "def")

ReplyAssumption == DefColumns \in Nat

VARIABLES
  proto,      \* mysql, postgres, redis
  dialect,    \* how the server ends result sets, opens, or pushes
  issued,     \* kinds of the commands so far
  answered,   \* how many the server has answered
  pushes,     \* pushes sent
  wire,       \* server messages not read yet: [k, of]
  fifo,       \* the pending queue: command numbers
  mode,       \* the response side: [m, left, eof, first]
  pairs       \* entries: <<command, first message's command, last one's>>

vars == <<proto, dialect, issued, answered, pushes, wire, fifo, mode, pairs>>

Ready == [m |-> "idle", left |-> 0, eof |-> FALSE, first |-> 0]
Msgs(ks, n) == [i \in 1 .. Len(ks) |-> [k |-> ks[i], of |-> n]]

-----------------------------------------------------------------------------
(* The protocols: what a server answers (external).                        *)

\* A result set of one column and one row.
ResultSet(d) == CASE d = "eof"     -> <<"cols", "def", "EOF", "row", "EOF">>
                  [] d = "okEnd"   -> <<"cols", "def", "row", "END">>
                  [] d = "longEnd" -> <<"cols", "def", "row", "LONGEND">>

mysqlAnswers(d) == [
  ok      |-> <<"OK">>,
  err     |-> <<"ERR">>,
  rows    |-> ResultSet(d),
  prepare |-> IF d = "eof" THEN <<"OK", "def", "EOF">> ELSE <<"OK", "def">>,
  close   |-> <<>>,
  reset   |-> <<"OK">>,
  multi   |-> <<"OK", "OK">>]

pgAnswers == [
  query |-> <<"T", "D", "C", "Z">>,
  empty |-> <<"I", "Z">>,
  error |-> <<"E", "Z">>,
  multi |-> <<"C", "C", "Z">>,       \* two statements in one Query
  failedBatch |-> <<"E", "Z">>,      \* two Executes, the first of which fails
  suspended |-> <<"D", "s", "Z">>]   \* an Execute with a row limit

redisAnswers(d) == [
  get |-> <<"bulk">>,
  subscribe |-> IF d = "resp3" THEN <<"push">> ELSE <<"array">>,
  subscribe2 |-> IF d = "resp3" THEN <<"push", "push">> ELSE <<"array", "array">>,
  range |-> <<"message">>]           \* an array that begins with "message"

Answers == CASE proto = "mysql" -> mysqlAnswers(dialect)
             [] proto = "postgres" -> pgAnswers
             [] proto = "redis" -> redisAnswers(dialect)

Dialects == [mysql |-> {"eof", "okEnd", "longEnd"}, postgres |-> {"plain", "sslPrefer"},
             redis |-> {"resp2", "resp3"}]

\* How the server opens, if the capture saw it: a MySQL greeting and the
\* exchange up to its OK; a PostgreSQL server asked for TLS refuses it with a
\* single byte, and goes on in the clear.
Opening == [mysql |-> {<<>>, <<"greeting", "more", "OK">>},
            postgres |-> IF dialect = "sslPrefer" THEN {<<"N1", "R", "Z">>}
                         ELSE {<<>>, <<"R", "Z">>},
            redis |-> {<<>>}]

Init ==
  /\ proto \in {"mysql", "postgres", "redis"}
  /\ dialect \in Dialects[proto]
  /\ issued = <<>> /\ answered = 0 /\ pushes = 0 /\ fifo = <<>> /\ pairs = <<>>
  /\ \E o \in Opening[proto] : wire = Msgs(o, 0)
  /\ mode = [Ready EXCEPT !.m = "first"]

-----------------------------------------------------------------------------
(* The request side: how often a command is put in the queue.              *)

\* Not those the server does not answer, nor those it does not know.
mysqlRequests(k) == IF k \in {"close", "reset"} THEN 0 ELSE 1

\* A Query or an Execute each.
pgRequests(k) == IF k = "failedBatch" THEN 2 ELSE 1

redisRequests(k) == 1

\* A MySQL client waits for the reply; the others may send ahead.
Command(k) ==
  /\ Len(issued) < MaxCommands
  /\ proto = "mysql" => answered = Len(issued)
  /\ issued' = Append(issued, k)
  /\ LET n == CASE proto = "mysql" -> mysqlRequests(k)
                [] proto = "postgres" -> pgRequests(k)
                [] proto = "redis" -> redisRequests(k)
     IN  fifo' = fifo \o [i \in 1 .. n |-> Len(issued')]
  /\ UNCHANGED <<proto, dialect, answered, pushes, wire, mode, pairs>>

\* The server answers the next command.
Answer ==
  /\ answered < Len(issued) /\ answered' = answered + 1
  /\ wire' = wire \o Msgs(Answers[issued[answered']], answered')
  /\ UNCHANGED <<proto, dialect, issued, pushes, fifo, mode, pairs>>

\* A published message, between replies.
Publish ==
  /\ proto = "redis" /\ pushes < MaxPushes /\ pushes' = pushes + 1
  /\ wire' = wire \o Msgs(<<IF dialect = "resp3" THEN "push" ELSE "message">>, 0)
  /\ UNCHANGED <<proto, dialect, issued, answered, fifo, mode, pairs>>

-----------------------------------------------------------------------------
(* The response side.                                                      *)

\* completeResponse pops the head, if there is one.
completeResponse(first, last) ==
  IF fifo = <<>> THEN UNCHANGED <<fifo, pairs>>
  ELSE fifo' = Tail(fifo) /\ pairs' = Append(pairs, <<Head(fifo), first, last>>)

\* Skipped, or the state changes without a reply.
NoReply(m) == mode' = m /\ UNCHANGED <<fifo, pairs>>

\* A count that is no column count: the packet is a reply with no rows.
mysqlLenEncInt(k) == CASE k = "cols" -> 1 [] k = "def" -> DefColumns [] OTHER -> 0

\* Mutant of readMySQLResultSet: the EOF after the columns ends the set.
readMySQLResultSetShort(msg) ==
  \/ /\ mode.m = "columns"
     /\ NoReply([mode EXCEPT !.left = @ - 1, !.m = IF mode.left = 1 THEN "rows" ELSE @])
  \/ /\ mode.m = "rows"
     /\ IF msg.k \in {"EOF", "END"}
        THEN completeResponse(mode.first, msg.of) /\ mode' = Ready
        ELSE NoReply(mode)

\* Column definitions are skipped, rows counted up to a short packet marked
\* 0xfe; one of five bytes before any other ends the columns only.
readMySQLResultSet(msg) ==
  \/ /\ mode.m = "columns"
     /\ NoReply([mode EXCEPT !.left = @ - 1, !.m = IF mode.left = 1 THEN "rows" ELSE @])
  \/ /\ mode.m = "rows"
     /\ \/ msg.k = "EOF" /\ ~mode.eof /\ NoReply([mode EXCEPT !.eof = TRUE])
        \/ /\ msg.k = "END" \/ (msg.k = "EOF" /\ mode.eof)
           /\ completeResponse(mode.first, msg.of) /\ mode' = Ready
        \/ msg.k \notin {"EOF", "END"} /\ NoReply(mode)

\* The greeting and what follows it up to OK or ERR are no replies.
mysqlResponses(msg) ==
  \/ mode.m = "first" /\ msg.k = "greeting" /\ NoReply([mode EXCEPT !.m = "handshake"])
  \/ /\ mode.m = "handshake"
     /\ NoReply(IF msg.k \in {"OK", "ERR"} THEN Ready ELSE mode)
  \/ /\ mode.m \in {"first", "idle"} /\ msg.k # "greeting"
     /\ IF msg.k \in {"OK", "ERR"} \/ mysqlLenEncInt(msg.k) = 0
        THEN completeResponse(msg.of, msg.of) /\ mode' = Ready
        ELSE NoReply([m |-> "columns", left |-> mysqlLenEncInt(msg.k), eof |-> FALSE,
                      first |-> msg.of])
  \/ readMySQLResultSet(msg)

\* CommandComplete, ErrorResponse and EmptyQueryResponse are replies.  The one
\* byte that refuses TLS is read as a type, with the next message for a length
\* beyond pgMaxFrame: the dissector stops, and the rest is discarded.
pgResponses(msg) ==
  \/ mode.m = "stopped" /\ NoReply(mode)
  \/ /\ mode.m # "stopped"
     /\ \/ msg.k = "N1" /\ NoReply([Ready EXCEPT !.m = "stopped"])
        \/ msg.k \in {"C", "E", "I"} /\ completeResponse(msg.of, msg.of) /\ mode' = Ready
        \/ msg.k \notin {"N1", "C", "E", "I"} /\ NoReply(Ready)

isRedisPush(msg) == msg.k \in {"push", "message"}

redisReplies(msg) ==
  IF isRedisPush(msg) THEN NoReply(Ready)
  ELSE completeResponse(msg.of, msg.of) /\ mode' = Ready

ReadReply ==
  /\ wire # <<>> /\ wire' = Tail(wire)
  /\ LET msg == Head(wire) IN
     \/ proto = "mysql" /\ mysqlResponses(msg)
     \/ proto = "postgres" /\ pgResponses(msg)
     \/ proto = "redis" /\ redisReplies(msg)
  /\ UNCHANGED <<proto, dialect, issued, answered, pushes>>

Next == (\E k \in DOMAIN Answers : Command(k)) \/ Answer \/ Publish \/ ReadReply

Spec == Init /\ [][Next]_vars

-----------------------------------------------------------------------------
(* Properties.                                                             *)

\* The commands whose replies the dissectors do not follow.  In order: the
\* definitions after a prepared statement with parameters read as a result
\* set; the OK of a command that is not queued, or a second one, may be read
\* when the next command is waiting; an end-of-rows packet of nine bytes or
\* more is a row; a reply for each statement of several, none for an Execute
\* that was skipped or suspended; a RESP3 subscription answered by pushes, one
\* confirmation per channel, and an array that looks like a published message.
Awkward(k) ==
  \/ proto = "mysql" /\ k \in {"prepare", "reset", "multi"}
  \/ proto = "mysql" /\ k = "rows" /\ dialect = "longEnd"
  \/ proto = "postgres" /\ k \in {"multi", "failedBatch", "suspended"}
  \/ proto = "redis" /\ k \in {"subscribe2", "range"}
  \/ proto = "redis" /\ k = "subscribe" /\ dialect = "resp3"

FirstAwkward == SelectInSeq(issued, Awkward)

\* Up to the first of those commands, every entry shows a command with its own
\* whole reply, and none is left waiting once its reply has been read; this
\* covers MySQL's two dialects and its handshake, commands without a reply, and
\* pushes between replies (dissect_mysql.go:128-290, dissect_postgres.go:64-171,
\* dissect_redis.go:43-122).
RepliesInStep ==
  dialect # "sslPrefer" =>
    LET last == IF FirstAwkward = 0 THEN Len(issued) ELSE FirstAwkward - 1 IN
    /\ \A i \in 1 .. Len(pairs) :
         pairs[i][1] <= last => pairs[i][2] = pairs[i][1] /\ pairs[i][3] = pairs[i][1]
    /\ FirstAwkward = 0 /\ wire = <<>> /\ answered = Len(issued) => fifo = <<>>

\* A client that prefers TLS and a server without it: "Both must be skipped",
\* after which the test expects the query to be paired (dissect_test.go:1019-1037,
\* dissect_postgres.go:67-69).  Once its replies have been read, no query waits.
PreferredTLSIsFollowed ==
  /\ dialect = "sslPrefer" /\ FirstAwkward = 0
  /\ wire = <<>> /\ answered = Len(issued)
  => fifo = <<>>
=============================================================================
