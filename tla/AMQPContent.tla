----------------------------- MODULE AMQPContent -----------------------------
(***************************************************************************)
(* One direction of an AMQP 0-9-1 connection (dissect_amqp.go).  Channels  *)
(* are multiplexed: a message is a method frame, a header frame with the   *)
(* body's size and its properties, and body frames, and the frames of      *)
(* several channels alternate.  consumeAMQPID assembles them in a map by   *)
(* channel, and reports other methods as they come.  The capture may begin *)
(* in the middle of a message.                                             *)
(***************************************************************************)
EXTENDS Integers, Sequences, FiniteSets, SequencesExt

CONSTANTS
  Channels, MaxMessages, MaxBody,
  bodyCap,         \* body bytes kept
  amqpMaxCapture,  \* payload bytes of a frame that are read
  Properties       \* the Basic properties, in flag order

\* Bytes of a body: sent, kept, and read of a frame.
ContentAssumption == MaxBody \in Nat /\ bodyCap \in Nat /\ amqpMaxCapture \in Nat

VARIABLES
  isClient,   \* the direction: client to broker, or back
  sent,       \* messages sent so far: [ch, size]
  cur,        \* channel -> message under way: [n, left, header (sent)]
  seeing,     \* the capture has begun
  began,      \* history: first message whose method frame it saw
  channels,   \* the map: channel -> [n, size, hdr, total, body, ...]
  aborted,    \* history: messages whose channel was closed under them
  entries     \* reported contents and methods, in order

vars == <<isClient, sent, cur, seeing, began, channels, aborted, entries>>

Init ==
  /\ isClient \in BOOLEAN
  /\ sent = <<>> /\ cur = <<>> /\ channels = <<>> /\ entries = <<>> /\ aborted = {}
  /\ seeing \in BOOLEAN /\ began = 1

Put(m, k, v) == [j \in DOMAIN m \cup {k} |-> IF j = k THEN v ELSE m[j]]
Without(m, k) == [j \in DOMAIN m \ {k} |-> m[j]]

-----------------------------------------------------------------------------
(* The property list of a header frame.  A payload is the properties it    *)
(* flags, in order, each as its cells; a cut frame ends early.             *)

Cells(p) == IF p \in {"deliveryMode", "priority"} THEN <<p>> ELSE <<p, p>>
PropertyList(flags) ==
  FoldLeft(LAMBDA b, p : IF p \in flags THEN b \o Cells(p) ELSE b, <<>>, Properties)

amqpShortStr(b, o) ==
  IF o + 2 > Len(b) THEN [val |-> "", off |-> Len(b)] ELSE [val |-> b[o + 1], off |-> o + 2]
amqpSkipBits(b, o) == IF o < Len(b) THEN o + 1 ELSE o

\* A table that contradicts its size ends the parse.
amqpSkipFieldTable(b, o, sound) == IF o + 2 > Len(b) \/ ~sound THEN Len(b) ELSE o + 2

\* Every flagged property is walked; four are shown.
parseAMQPBasicProps(b, flags, sound) ==
  FoldLeft(LAMBDA acc, p :
             IF p \notin flags THEN acc
             ELSE IF p \in {"deliveryMode", "priority"}
             THEN [acc EXCEPT !.off = amqpSkipBits(b, acc.off)]
             ELSE IF p = "headers"
             THEN [acc EXCEPT !.off = amqpSkipFieldTable(b, acc.off, sound)]
             ELSE LET s == amqpShortStr(b, acc.off) IN
                  [off |-> s.off, vals |-> Put(acc.vals, p, s.val)],
           [off |-> 0, vals |-> <<>>], Properties).vals

-----------------------------------------------------------------------------
(* The frames.                                                             *)

\* The methods that are reported at all, and those with content.
amqpMethodName == {"Connection.Open", "Connection.Close", "Channel.Open", "Channel.Close",
  "Exchange.Declare", "Queue.Declare", "Queue.Bind", "Basic.Consume", "Basic.Publish",
  "Basic.Return", "Basic.Deliver", "Basic.GetOk", "Basic.GetEmpty", "Basic.Ack", "Basic.Nack"}
parseAMQPArgs(m) ==
  [content |-> m \in {"Basic.Publish", "Basic.Deliver", "Basic.Return", "Basic.GetOk"}]

\* Source and destination of the direction's packets.
endpoints == IF isClient THEN <<"client", "broker">> ELSE <<"broker", "client">>

\* An entry and the side it is shown to come from: emitAMQP takes the source
\* for the client, and turns the two round for the other direction.
emitAMQP(e) == Append(entries, [e EXCEPT !.from = endpoints[IF isClient THEN 1 ELSE 2]])

\* What the dissector does with a method frame: content waits for its frames, a
\* new one in the place of what the channel had; the rest is reported.
amqpMethodFrame(ch, m, n) ==
  LET e == [n |-> n, size |-> 0, hdr |-> 0, total |-> 0, body |-> <<>>, misread |-> {}, from |-> ""]
  IN  IF m \notin amqpMethodName THEN UNCHANGED <<channels, entries>>
      ELSE IF parseAMQPArgs(m).content
      THEN channels' = Put(channels, ch, e) /\ UNCHANGED entries
      ELSE entries' = emitAMQP(e) /\ UNCHANGED channels

\* A message begins.
SendMethod(ch) ==
  /\ Len(sent) < MaxMessages /\ ch \notin DOMAIN cur
  /\ \E size \in 0 .. MaxBody :
       /\ sent' = Append(sent, [ch |-> ch, size |-> size])
       /\ cur' = Put(cur, ch, [n |-> Len(sent'), left |-> size, header |-> FALSE])
  /\ IF seeing
     THEN amqpMethodFrame(ch, IF isClient THEN "Basic.Publish" ELSE "Basic.Deliver", Len(sent'))
     ELSE UNCHANGED <<channels, entries>>
  /\ UNCHANGED <<isClient, seeing, began, aborted>>

\* The channel is closed in the middle of a message.
CloseChannel(ch) ==
  /\ ch \in DOMAIN cur
  /\ cur' = Without(cur, ch) /\ aborted' = aborted \cup {cur[ch].n}
  /\ IF seeing THEN amqpMethodFrame(ch, "Channel.Close", 0) ELSE UNCHANGED <<channels, entries>>
  /\ UNCHANGED <<isClient, sent, seeing, began>>

SendHeader(ch) ==
  /\ ch \in DOMAIN cur /\ ~cur[ch].header
  /\ cur' = IF cur[ch].left = 0 THEN Without(cur, ch) ELSE [cur EXCEPT ![ch].header = TRUE]
  /\ \E flags \in {{}, ToSet(Properties), {"headers", "replyTo"}, {"priority", "messageId"}},
        sound \in BOOLEAN, cut \in {0, 1, 3} :
       LET size == sent[cur[ch].n].size
           b == PropertyList(flags)
           shown == parseAMQPBasicProps(SubSeq(b, 1, Len(b) - cut), flags, sound)
           pend == [channels[ch] EXCEPT
                      !.size = size, !.hdr = cur[ch].n,
                      !.misread = {p \in DOMAIN shown : shown[p] \notin {p, ""}}]
       IN  IF ~seeing \/ ch \notin DOMAIN channels THEN UNCHANGED <<channels, entries>>
           ELSE IF size = 0
           THEN entries' = emitAMQP(pend) /\ channels' = Without(channels, ch)
           ELSE channels' = Put(channels, ch, pend) /\ UNCHANGED entries
  /\ UNCHANGED <<isClient, sent, seeing, began, aborted>>

\* What is read of a frame; the rest is passed over.
readAMQPFrame(full) == IF full > amqpMaxCapture THEN amqpMaxCapture ELSE full

\* A byte of a body: the message, and its place in the body.
Bytes(n, before, count) == [i \in 1 .. count |-> <<n, before + i>>]

\* Mutant of amqpBodyFrame: what is read decides when the body is complete.
amqpBodyFrameRead(pend, n, before, full) ==
  LET room == bodyCap - Len(pend.body)
      take == IF readAMQPFrame(full) > room THEN room ELSE readAMQPFrame(full)
  IN  [pend EXCEPT !.total = @ + readAMQPFrame(full), !.body = @ \o Bytes(n, before, take)]

\* The true size counts, whatever is read and kept.
amqpBodyFrame(pend, n, before, full) ==
  LET room == bodyCap - Len(pend.body)
      take == IF readAMQPFrame(full) > room THEN room ELSE readAMQPFrame(full)
  IN  [pend EXCEPT !.total = @ + full, !.body = @ \o Bytes(n, before, take)]

SendBody(ch) ==
  /\ ch \in DOMAIN cur /\ cur[ch].header
  /\ \E full \in 1 .. cur[ch].left :
       LET n == cur[ch].n
           pend == amqpBodyFrame(channels[ch], n, sent[n].size - cur[ch].left, full)
       IN  /\ cur' = IF full = cur[ch].left THEN Without(cur, ch)
                     ELSE [cur EXCEPT ![ch].left = @ - full]
           /\ IF ~seeing \/ ch \notin DOMAIN channels THEN UNCHANGED <<channels, entries>>
              ELSE IF pend.total >= pend.size
              THEN entries' = emitAMQP(pend) /\ channels' = Without(channels, ch)
              ELSE channels' = Put(channels, ch, pend) /\ UNCHANGED entries
  /\ UNCHANGED <<isClient, sent, seeing, began, aborted>>

\* The capture begins between two frames.
BeginCapture ==
  /\ ~seeing /\ seeing' = TRUE /\ began' = Len(sent) + 1
  /\ UNCHANGED <<isClient, sent, cur, channels, aborted, entries>>

Next == BeginCapture \/ \E ch \in Channels :
          SendMethod(ch) \/ SendHeader(ch) \/ SendBody(ch) \/ CloseChannel(ch)

Spec == Init /\ [][Next]_vars

-----------------------------------------------------------------------------
(* Properties.                                                             *)

Finished(n) == n \notin aborted /\ \A ch \in DOMAIN cur : cur[ch].n # n

\* The bytes of a body that are kept from its beginning, whatever its frames.
Beginning(size) ==
  LET cap == IF bodyCap < amqpMaxCapture THEN bodyCap ELSE amqpMaxCapture
  IN  IF size < cap THEN size ELSE cap

\* Every message whose method frame was captured is reported once, when it is
\* complete, with its own header and nothing but bytes of its own body, in their
\* order, however the channels alternate, wherever the capture began and also
\* behind a message that was broken off.  The beginning of the body is there
\* without a hole, up to what is kept of a body or what is read of a frame,
\* whichever is less: where --body-bytes is above the 64 KiB read of a frame, a
\* longer frame leaves a hole behind its first 64 KiB.  A property shown is that
\* property, also when the frame was cut or its table is garbled; and an entry is
\* shown from the client, whichever side sent it (dissect_amqp.go:77-127, 160-191,
\* 421-426, 489-560).
ContentIsWhole ==
  /\ \A i \in 1 .. Len(entries) :
       LET e == entries[i] IN e.n # 0 =>
       /\ e.hdr = e.n /\ e.size = sent[e.n].size
       /\ Len(e.body) >= Beginning(e.size) /\ Len(e.body) <= bodyCap /\ Len(e.body) <= e.size
       /\ \A j \in 1 .. Len(e.body) :
            /\ e.body[j][1] = e.n /\ e.body[j][2] \in 1 .. e.size
            /\ j <= Beginning(e.size) => e.body[j][2] = j
            /\ \A k \in 1 .. Len(e.body) : j < k => e.body[j][2] < e.body[k][2]
       /\ e.misread = {} /\ e.from = "client"
  /\ \A n \in 1 .. Len(sent) :
       Cardinality({i \in 1 .. Len(entries) : entries[i].n = n})
         = IF seeing /\ n >= began /\ Finished(n) THEN 1 ELSE 0
=============================================================================
