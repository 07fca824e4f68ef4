------------------------------- MODULE Framing -------------------------------
(***************************************************************************)
(* How the binary dissectors cut one direction of a connection into        *)
(* messages (internal/worker/dissect_*.go, pipeline.go).  They all read a  *)
(* header with a length, refuse lengths that make no sense, keep at most a *)
(* prefix of the payload, skip the rest, and some check a trailer.  A byte *)
(* too many or too few and everything after it is misread.                 *)
(*                                                                         *)
(* A cell is a whole header (with its declared length), a payload byte or  *)
(* a trailer.  The capture may begin at any header and end anywhere.       *)
(***************************************************************************)
EXTENDS Integers, Sequences, SequencesExt

CONSTANTS
  Base,      \* bytes of a header that a length counts, where it does
  Sane,      \* largest payload accepted (the scaled wire-sanity bounds)
  Scan,      \* payload bytes kept (the scaled scan caps)
  MaxSize,   \* largest payload a sender sends
  MaxMessages

FramingAssumption == Base \in Nat /\ Sane \in Nat /\ Scan \in Nat /\ MaxSize \in Nat

\* A protocol: what the length counts besides the payload, the bounds on the
\* payload, how much of it is kept, whether a trailer follows, and whether a
\* message is reported although the part that is not kept is cut off.
kafkaFrame   == [base |-> 0,    least |-> 0, most |-> Sane,    keep |-> Scan, tail |-> 0, early |-> FALSE]
mongoMessage == [base |-> Base, least |-> 0, most |-> Sane,    keep |-> Scan, tail |-> 0, early |-> FALSE]
pgMessage    == [base |-> Base, least |-> 0, most |-> Sane,    keep |-> Scan, tail |-> 0, early |-> FALSE]
pgUntyped    == [base |-> Base, least |-> 0, most |-> Sane,    keep |-> 0,    tail |-> 0, early |-> FALSE]
mysqlPacket  == [base |-> 0,    least |-> 0, most |-> MaxSize, keep |-> Scan, tail |-> 0, early |-> FALSE]
amqpFrame    == [base |-> 0,    least |-> 0, most |-> Sane,    keep |-> Scan, tail |-> 1, early |-> FALSE]
dnsTCP       == [base |-> 0,    least |-> 1, most |-> MaxSize, keep |-> MaxSize, tail |-> 0, early |-> FALSE]
wsFrame      == [base |-> 0,    least |-> 0, most |-> Sane,    keep |-> Scan, tail |-> 0, early |-> TRUE]
respBulk     == [base |-> 0,    least |-> 0, most |-> Sane,    keep |-> Scan, tail |-> 1, early |-> FALSE]

Protocols == {kafkaFrame, mongoMessage, pgMessage, pgUntyped, mysqlPacket,
              amqpFrame, dnsTCP, wsFrame, respBulk}

VARIABLES
  proto,
  sent,   \* payload sizes sent so far
  wire,   \* cells captured and not read yet
  open,   \* more cells may come
  got,    \* payload sizes of the messages the dissector took
  kept,   \* bytes it kept of the last one
  at      \* reading, or stopped

vars == <<proto, sent, wire, open, got, kept, at>>

\* A header is a cell that is its length.
Byte == -1
End == -2
Header(n) == <<n>>
Payload(n) == [i \in 1 .. n |-> Byte]
Trailer(n) == [i \in 1 .. n |-> End]

Init ==
  /\ proto \in Protocols
  /\ sent = <<>> /\ wire = <<>> /\ open = TRUE
  /\ got = <<>> /\ kept = 0 /\ at = "reading"

\* The sender sends a message.
SendMessage ==
  /\ open /\ Len(sent) < MaxMessages
  /\ \E n \in 0 .. MaxSize :
       /\ sent' = Append(sent, n)
       /\ wire' = wire \o Header(n + proto.base) \o Payload(n) \o Trailer(proto.tail)
  /\ UNCHANGED <<proto, open, got, kept, at>>

\* The capture of the direction ends, perhaps within a message.
CutOff ==
  /\ open
  /\ open' = FALSE
  /\ \E c \in 0 .. Len(wire) : wire' = SubSeq(wire, 1, c)
  /\ UNCHANGED <<proto, sent, got, kept, at>>

\* The payload size the header at the front declares.
Declared == wire[1] - proto.base

BadLength == ~ Declared \in proto.least .. proto.most

\* Mutant of ToSkip: the trailer is taken for part of the next message when
\* the payload was longer than what is kept.
ToSkipShort == Declared - kept' + (IF Declared > kept' THEN 0 ELSE proto.tail)

\* What is read after the part that is kept.
ToSkip == Declared - kept' + proto.tail

\* The reader asks for more than the direction will ever deliver.
Starved(n) == ~open /\ Len(wire) < n

\* One message: the header, the bounds, the part that is kept, the rest.  The
\* reads block while the direction is open.
ReadMessage ==
  /\ at = "reading" /\ wire # <<>>
  /\ ~BadLength
  /\ kept' = IF Declared > proto.keep THEN proto.keep ELSE Declared
  /\ LET all == 1 + kept' + ToSkip IN
     /\ Len(wire) >= all
     /\ got' = Append(got, Declared)
     /\ wire' = SubSeq(wire, all + 1, Len(wire))
  /\ UNCHANGED <<proto, sent, open, at>>

\* A misread header or trailer, a senseless length, the end of the direction:
\* the rest is discarded.  A WebSocket frame whose preview is complete is
\* still reported.
Stop ==
  /\ at = "reading"
  /\ \/ Starved(1)
     \/ wire # <<>> /\ BadLength
     \/ wire # <<>> /\ ~BadLength /\ Starved(1 + Declared + proto.tail)
  /\ at' = "stopped" /\ wire' = <<>> /\ kept' = 0
  /\ got' = IF /\ wire # <<>> /\ ~BadLength /\ proto.early
               /\ Declared > proto.keep /\ Len(wire) > proto.keep
            THEN Append(got, Declared) ELSE got
  /\ UNCHANGED <<proto, sent, open>>

-----------------------------------------------------------------------------
Next == SendMessage \/ CutOff \/ ReadMessage \/ Stop

Spec == Init /\ [][Next]_vars

-----------------------------------------------------------------------------
(* Properties.                                                             *)

\* The dissector never loses its place: what it takes are the messages sent,
\* in order, whatever their size and wherever the capture ends, and the next
\* thing it reads is a header (dissect_kafka.go:108-129, dissect_amqp.go:160-190,
\* dissect_postgres.go:180-215 and the others mapped).
StaysFramed ==
  /\ IsPrefix(got, sent)
  /\ at = "reading" /\ wire # <<>> => wire[1] \notin {Byte, End}

\* Nothing but a size no message may have stops a dissector before the end of
\* the direction.
StopsOnlyOnBadSize ==
  at = "stopped" /\ open => ~ sent[Len(got) + 1] \in proto.least .. proto.most
=============================================================================
