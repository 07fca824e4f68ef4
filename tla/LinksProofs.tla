------------------------------ MODULE LinksProofs ------------------------------
(***************************************************************************)
(* Proofs about the links of the system: the sink of a worker              *)
(* (WorkerSink), the send queue of a dashboard (FrontQueue), the registry  *)
(* of workers (WorkerRegistry), the export (Exporter) and the capture      *)
(* pause of a worker (CapturePause), for every capacity and limit and any  *)
(* number of goroutines, connections, nodes, slots, frames, files, entries *)
(* and failures.                                                           *)
(***************************************************************************)
EXTENDS MCLinks, SumProofs

-----------------------------------------------------------------------------
(* The sink of a worker.                                                   *)

\* The part of the state that the count depends on.
CountType ==
  /\ captured \in Nat /\ sent \in Nat /\ dropped \in Nat /\ skipped \in Nat
  /\ ch \in Seq(Entry) /\ batched \in Seq(Entry)
  /\ pump \in {"select", "dialing"} => batched = <<>>

\* A batch in hand stays with pump until it is written or requeued, so
\* select and dialing start with empty hands.
Counted == CountType /\ Accounted

LEMMA InitCounted == Init => Counted
BY DEF Init, Counted, CountType, Accounted

\* emit moves one entry into the channel or into the dropped count.
LEMMA EmitCounts ==
  ASSUME ch \in Seq(Entry), dropped \in Nat, NEW e \in Entry, emit(e)
  PROVE  /\ ch' \in Seq(Entry) /\ Len(ch') \in Nat /\ dropped' \in Nat
         /\ Len(ch') + dropped' = Len(ch) + dropped + 1
BY SMTT(30) DEF emit

LEMMA NextCounted == Counted /\ [Next]_vars => Counted'
<1> SUFFICES ASSUME Counted, [Next]_vars PROVE Counted'
  OBVIOUS
<1> USE DEF Counted, CountType, Accounted
<1>0. Len(ch) \in Nat /\ Len(batched) \in Nat
  OBVIOUS
<1>1. CASE Capture
  <2> HIDE DEF Counted, CountType, Accounted
  <2>1. PICK n \in Lens : emit([n |-> captured + 1, len |-> n])
    BY <1>1 DEF Capture
  <2>2. captured \in Nat /\ [n |-> captured + 1, len |-> n] \in Entry
    BY <1>1, <2>1, SinkAssumption DEF Capture, Entry, Numbers, Counted, CountType
  <2>3. /\ ch' \in Seq(Entry) /\ Len(ch') \in Nat /\ dropped' \in Nat
        /\ Len(ch') + dropped' = Len(ch) + dropped + 1
    BY <2>1, <2>2, EmitCounts DEF Counted, CountType
  <2>4. captured' = captured + 1 /\ UNCHANGED <<sent, skipped, pump, batched>>
    BY <1>1 DEF Capture
  <2>5. /\ sent \in Nat /\ dropped \in Nat /\ skipped \in Nat
        /\ captured = Len(ch) + Len(batched) + sent + dropped + skipped
    BY DEF Counted, CountType, Accounted
  <2>6. captured + 1 = Len(ch') + Len(batched) + sent + dropped' + skipped
    BY <1>0, <2>3, <2>5, SMTT(30)
  <2>7. Accounted'
    BY <2>4, <2>6 DEF Accounted
  <2>8. CountType'
    BY <2>2, <2>3, <2>4 DEF Counted, CountType
  <2> QED BY <2>7, <2>8 DEF Counted
<1>2. CASE Connect
  BY <1>2 DEF Connect, counters
<1>3. CASE Take
  <2>1. /\ Head(ch) \in Entry /\ Tail(ch) \in Seq(Entry)
        /\ Len(Tail(ch)) = Len(ch) - 1 /\ ch' = Tail(ch)
        /\ batched = <<>>
    BY <1>3 DEF Take
  <2>2. UNCHANGED <<captured, dropped, sent>>
    BY <1>3 DEF Take
  <2>3. CASE Head(ch).len = 0
    BY <1>0, <1>3, <2>1, <2>2, <2>3 DEF Take
  <2>4. CASE Head(ch).len # 0
    <3>1. batched' = <<Head(ch)>> /\ pump' = "draining" /\ skipped' = skipped
      BY <1>3, <2>4 DEF Take
    <3>2. batched' \in Seq(Entry) /\ Len(batched') = 1 /\ Len(batched) = 0
      BY <2>1, <3>1
    <3> QED BY <1>0, <2>1, <2>2, <3>1, <3>2
  <2> QED BY <2>3, <2>4
<1>4. CASE Drain
  <2>1. /\ Head(ch) \in Entry /\ Tail(ch) \in Seq(Entry)
        /\ Len(Tail(ch)) = Len(ch) - 1 /\ ch' = Tail(ch)
    BY <1>4 DEF Drain
  <2>2. UNCHANGED <<captured, dropped, sent, pump>> /\ pump = "draining"
    BY <1>4 DEF Drain
  <2>3. CASE Head(ch).len = 0
    BY <1>0, <1>4, <2>1, <2>2, <2>3 DEF Drain
  <2>4. CASE Head(ch).len # 0
    <3>1. batched' = Append(batched, Head(ch)) /\ skipped' = skipped
      BY <1>4, <2>4 DEF Drain
    <3>2. batched' \in Seq(Entry) /\ Len(batched') = Len(batched) + 1
      BY <2>1, <3>1
    <3> QED BY <1>0, <2>1, <2>2, <3>1, <3>2
  <2> QED BY <2>3, <2>4
<1>5. CASE DrainEnds
  BY <1>5 DEF DrainEnds, counters
<1>6. CASE WriteSucceeds
  BY <1>6 DEF WriteSucceeds
<1>7. CASE WriteFails
  BY <1>7 DEF WriteFails, counters
<1>8. CASE Requeue
  <2>1. Head(batched) \in Entry /\ Tail(batched) \in Seq(Entry)
        /\ Len(Tail(batched)) = Len(batched) - 1
    BY <1>8 DEF Requeue
  <2>2. /\ ch' \in Seq(Entry) /\ Len(ch') \in Nat /\ dropped' \in Nat
        /\ Len(ch') + dropped' = Len(ch) + dropped + 1
    BY <1>8, <2>1, EmitCounts DEF Requeue
  <2>3. batched' = Tail(batched) /\ UNCHANGED <<captured, sent, skipped, pump>>
    BY <1>8 DEF Requeue
  <2>4. pump = "requeueing"
    BY <1>8 DEF Requeue
  <2>5. Accounted'
    BY <1>0, <2>1, <2>2, <2>3, SMTT(30)
  <2> QED BY <2>1, <2>2, <2>3, <2>4, <2>5
<1>9. CASE RequeueEnds
  BY <1>9 DEF RequeueEnds, counters
<1>10. CASE StatsFails
  BY <1>10 DEF StatsFails, counters
<1>11. ASSUME NEW c \in Conns, HubReads(c) \/ ConnLost(c) PROVE Counted'
  BY <1>11 DEF HubReads, ConnLost, counters
<1>12. CASE UNCHANGED vars
  BY <1>12 DEF vars, counters
<1> QED
  BY <1>1, <1>2, <1>3, <1>4, <1>5, <1>6, <1>7, <1>8, <1>9, <1>10, <1>11, <1>12
  DEF Next, Pump

\* Every entry emit() was ever given is in the channel, in pump's hands, sent,
\* dropped and counted, or not marshallable, exactly once, for every
\* interleaving of capture with drains and requeues (sink.go:158-167,
\* 317-377).
THEOREM EveryEntryCounted == Spec => []Accounted
<1>1. Counted => Accounted
  BY DEF Counted
<1> QED BY InitCounted, NextCounted, <1>1, PTL DEF Spec

-----------------------------------------------------------------------------
(* Order.  A sequence of numbers rises, and a set of numbers is below      *)
(* another, when what failed is left out.                                  *)

Nums(entries) == {entries[i].n : i \in DOMAIN entries}

Rises(s, F) ==
  \A i, j \in DOMAIN s : i < j /\ s[i] \notin F /\ s[j] \notin F => s[i] < s[j]

Below(S, T, F) == \A m \in S, n \in T : m \notin F /\ n \notin F => m < n

LEMMA NumsSplit ==
  ASSUME NEW s \in Seq(Entry), s # <<>>
  PROVE  /\ Nums(s) = {Head(s).n} \cup Nums(Tail(s))
         /\ Head(s) \in Entry /\ Tail(s) \in Seq(Entry)
<1>1. /\ Head(s) \in Entry /\ Tail(s) \in Seq(Entry) /\ Len(s) \in Nat \ {0}
      /\ DOMAIN s = 1 .. Len(s) /\ DOMAIN Tail(s) = 1 .. Len(s) - 1
      /\ Head(s) = s[1] /\ \A i \in 1 .. Len(s) - 1 : Tail(s)[i] = s[i + 1]
  OBVIOUS
<1>2. ASSUME NEW i \in DOMAIN s PROVE s[i].n \in {Head(s).n} \cup Nums(Tail(s))
  <2>1. CASE i = 1
    BY <1>1, <2>1
  <2>2. CASE i # 1
    <3>1. i - 1 \in DOMAIN Tail(s) /\ Tail(s)[i - 1] = s[i]
      BY <1>1, <2>2
    <3> QED BY <3>1 DEF Nums
  <2> QED BY <2>1, <2>2
<1>3. ASSUME NEW i \in DOMAIN Tail(s) PROVE Tail(s)[i].n \in Nums(s)
  BY <1>1 DEF Nums
<1>4. Head(s).n \in Nums(s)
  BY <1>1 DEF Nums
<1>5. Nums(s) \subseteq {Head(s).n} \cup Nums(Tail(s))
  BY <1>2 DEF Nums
<1>6. Nums(Tail(s)) \subseteq Nums(s)
  BY <1>3 DEF Nums
<1> QED BY <1>1, <1>4, <1>5, <1>6

LEMMA NumsAppend ==
  ASSUME NEW s \in Seq(Entry), NEW e \in Entry
  PROVE  Nums(Append(s, e)) = Nums(s) \cup {e.n}
<1>1. /\ DOMAIN s = 1 .. Len(s) /\ DOMAIN Append(s, e) = 1 .. Len(s) + 1 /\ Len(s) \in Nat
      /\ Append(s, e)[Len(s) + 1] = e /\ \A i \in 1 .. Len(s) : Append(s, e)[i] = s[i]
  OBVIOUS
<1>2. ASSUME NEW i \in 1 .. Len(s) + 1 PROVE Append(s, e)[i].n \in Nums(s) \cup {e.n}
  BY <1>1 DEF Nums
<1>3. ASSUME NEW i \in 1 .. Len(s) PROVE s[i].n \in Nums(Append(s, e))
  <2>1. i \in DOMAIN Append(s, e) /\ Append(s, e)[i] = s[i]
    BY <1>1
  <2> QED BY <2>1 DEF Nums
<1>4. e.n \in Nums(Append(s, e))
  <2>1. Len(s) + 1 \in DOMAIN Append(s, e)
    BY <1>1
  <2> QED BY <1>1, <2>1 DEF Nums
<1>5. Nums(Append(s, e)) \subseteq Nums(s) \cup {e.n}
  BY <1>1, <1>2 DEF Nums
<1>6. Nums(s) \subseteq Nums(Append(s, e))
  BY <1>1, <1>3 DEF Nums
<1> QED BY <1>4, <1>5, <1>6

LEMMA EntryTyped == ASSUME NEW e \in Entry PROVE e.n \in Nat /\ e.len \in Lens /\ e.len \in Nat
<1>1. e.n \in Numbers /\ e.len \in Lens
  BY DEF Entry
<1>2. Lens \subseteq Nat /\ Numbers \subseteq Nat
  BY SinkAssumption DEF Numbers
<1> QED BY <1>1, <1>2

LEMMA NumsTyped ==
  ASSUME NEW s \in Seq(Entry)
  PROVE  /\ Nums(s) \in SUBSET Nat
         /\ NumbersOf(s) \in Seq(Nat) /\ Len(NumbersOf(s)) = Len(s)
         /\ \A i \in DOMAIN s : NumbersOf(s)[i] = s[i].n
         /\ Nums(s) = {NumbersOf(s)[i] : i \in DOMAIN s} /\ DOMAIN NumbersOf(s) = DOMAIN s
<1>1. \A i \in DOMAIN s : s[i] \in Entry /\ s[i].n \in Nat
  BY EntryTyped
<1>2. DOMAIN s = 1 .. Len(s) /\ Len(s) \in Nat
  OBVIOUS
<1>3. NumbersOf(s) = [i \in 1 .. Len(s) |-> s[i].n]
  BY <1>2 DEF NumbersOf
<1>4. NumbersOf(s) \in Seq(Nat) /\ Len(NumbersOf(s)) = Len(s)
  <2>1. \A i \in 1 .. Len(s) : s[i].n \in Nat
    BY <1>1, <1>2
  <2> HIDE DEF NumbersOf
  <2> QED BY <1>2, <1>3, <2>1
<1> QED BY <1>1, <1>2, <1>3, <1>4 DEF Nums

LEMMA RisesTail ==
  ASSUME NEW s \in Seq(Entry), s # <<>>, NEW F, Rises(NumbersOf(s), F)
  PROVE  /\ Rises(NumbersOf(Tail(s)), F)
         /\ Below({Head(s).n}, Nums(Tail(s)), F)
<1>1. /\ Tail(s) \in Seq(Entry) /\ Len(s) \in Nat \ {0}
      /\ DOMAIN s = 1 .. Len(s) /\ DOMAIN Tail(s) = 1 .. Len(s) - 1
      /\ Head(s) = s[1] /\ \A i \in 1 .. Len(s) - 1 : Tail(s)[i] = s[i + 1]
  OBVIOUS
<1>2. \A i, j \in DOMAIN s : i < j /\ s[i].n \notin F /\ s[j].n \notin F => s[i].n < s[j].n
  BY NumsTyped DEF Rises
<1>3. \A i, j \in DOMAIN Tail(s) : i < j /\ Tail(s)[i].n \notin F /\ Tail(s)[j].n \notin F
                                => Tail(s)[i].n < Tail(s)[j].n
  <2> TAKE i, j \in DOMAIN Tail(s)
  <2>1. i + 1 \in DOMAIN s /\ j + 1 \in DOMAIN s /\ (i < j => i + 1 < j + 1)
    BY <1>1
  <2> QED BY <1>1, <1>2, <2>1
<1>4. \A j \in DOMAIN Tail(s) : Head(s).n \notin F /\ Tail(s)[j].n \notin F
                             => Head(s).n < Tail(s)[j].n
  <2> TAKE j \in DOMAIN Tail(s)
  <2>1. j + 1 \in DOMAIN s /\ 1 \in DOMAIN s /\ 1 < j + 1
    BY <1>1
  <2> QED BY <1>1, <1>2, <2>1
<1>5. Rises(NumbersOf(Tail(s)), F)
  <2> DEFINE t == Tail(s)
  <2>1. DOMAIN NumbersOf(t) = DOMAIN t /\ \A i \in DOMAIN t : NumbersOf(t)[i] = t[i].n
    BY <1>1, NumsTyped
  <2> QED BY <1>3, <2>1 DEF Rises
<1> QED BY <1>4, <1>5 DEF Below, Nums

LEMMA RisesAppend ==
  ASSUME NEW s \in Seq(Entry), NEW e \in Entry, NEW F, Rises(NumbersOf(s), F),
         Below(Nums(s), {e.n}, F)
  PROVE  Rises(NumbersOf(Append(s, e)), F)
<1> DEFINE t == Append(s, e)
<1>1. /\ t \in Seq(Entry) /\ DOMAIN s = 1 .. Len(s) /\ DOMAIN t = 1 .. Len(s) + 1 /\ Len(s) \in Nat
      /\ t[Len(s) + 1] = e /\ \A i \in 1 .. Len(s) : t[i] = s[i]
  OBVIOUS
<1> HIDE DEF t
<1>2. \A i, j \in DOMAIN s : i < j /\ s[i].n \notin F /\ s[j].n \notin F => s[i].n < s[j].n
  BY NumsTyped DEF Rises
<1>3. \A i \in DOMAIN s : s[i].n \notin F /\ e.n \notin F => s[i].n < e.n
  BY DEF Below, Nums
<1>4. \A i, j \in DOMAIN t : i < j /\ t[i].n \notin F /\ t[j].n \notin F => t[i].n < t[j].n
  <2> TAKE i, j \in DOMAIN t
  <2> HAVE i < j /\ t[i].n \notin F /\ t[j].n \notin F
  <2>1. i \in DOMAIN s /\ t[i] = s[i]
    BY <1>1
  <2>2. CASE j = Len(s) + 1
    BY <1>1, <1>3, <2>1, <2>2
  <2>3. CASE j # Len(s) + 1
    <3>1. j \in DOMAIN s /\ t[j] = s[j]
      BY <1>1, <2>3
    <3> QED BY <1>2, <2>1, <3>1
  <2> QED BY <2>2, <2>3
<1>5. Rises(NumbersOf(t), F)
  <2>1. DOMAIN NumbersOf(t) = DOMAIN t /\ \A i \in DOMAIN t : NumbersOf(t)[i] = t[i].n
    BY <1>1, NumsTyped
  <2> QED BY <1>4, <2>1 DEF Rises
<1> QED BY <1>5 DEF t

\* What arrived, and the frame that arrives.
LEMMA RisesConcat ==
  ASSUME NEW s \in Seq(Nat), NEW f \in Seq(Entry), NEW F, Rises(s, F), Rises(NumbersOf(f), F),
         Below(ToSet(s), Nums(f), F)
  PROVE  /\ Rises(s \o NumbersOf(f), F)
         /\ s \o NumbersOf(f) \in Seq(Nat) /\ ToSet(s \o NumbersOf(f)) = ToSet(s) \cup Nums(f)
<1> DEFINE g == NumbersOf(f)
           t == s \o g
<1>0. g \in Seq(Nat) /\ Nums(f) = ToSet(g)
  BY NumsTyped DEF ToSet
<1> HIDE DEF g
<1>1. /\ t \in Seq(Nat) /\ Len(s) \in Nat /\ Len(g) \in Nat
      /\ DOMAIN s = 1 .. Len(s) /\ DOMAIN g = 1 .. Len(g) /\ DOMAIN t = 1 .. Len(s) + Len(g)
      /\ \A i \in 1 .. Len(s) : t[i] = s[i]
      /\ \A i \in 1 .. Len(g) : t[Len(s) + i] = g[i]
  BY <1>0
<1> HIDE DEF t
<1>2. ASSUME NEW i \in DOMAIN t, i \notin DOMAIN s PROVE i - Len(s) \in DOMAIN g /\ t[i] = g[i - Len(s)]
  <2>1. i - Len(s) \in 1 .. Len(g) /\ Len(s) + (i - Len(s)) = i
    BY <1>1, <1>2
  <2> QED BY <1>1, <2>1
<1>3. \A i \in DOMAIN s, j \in DOMAIN g : s[i] \notin F /\ g[j] \notin F => s[i] < g[j]
  BY <1>0 DEF Below, ToSet
<1>4. Rises(t, F)
  <2> SUFFICES ASSUME NEW i \in DOMAIN t, NEW j \in DOMAIN t, i < j, t[i] \notin F, t[j] \notin F
               PROVE  t[i] < t[j]
    BY DEF Rises
  <2>1. CASE j \in DOMAIN s
    BY <1>1, <2>1, SMTT(30) DEF Rises
  <2>2. CASE j \notin DOMAIN s /\ i \in DOMAIN s
    BY <1>1, <1>2, <1>3, <2>2
  <2>3. CASE j \notin DOMAIN s /\ i \notin DOMAIN s
    <3>1. i - Len(s) < j - Len(s)
      BY <1>1
    <3> QED BY <1>2, <2>3, <3>1 DEF Rises, g
  <2> QED BY <2>1, <2>2, <2>3
<1>5. ToSet(t) = ToSet(s) \cup ToSet(g)
  <2>1. ToSet(t) \subseteq ToSet(s) \cup ToSet(g)
    BY <1>1, <1>2 DEF ToSet
  <2>2. ASSUME NEW i \in DOMAIN g PROVE g[i] \in ToSet(t)
    <3>1. Len(s) + i \in DOMAIN t /\ t[Len(s) + i] = g[i]
      BY <1>1
    <3> QED BY <3>1 DEF ToSet
  <2>3. ToSet(s) \subseteq ToSet(t)
    BY <1>1 DEF ToSet
  <2> QED BY <2>1, <2>2, <2>3 DEF ToSet
<1> QED BY <1>0, <1>1, <1>4, <1>5 DEF t, g

\* One connection: what the hub got from it, then the frames on it.
LineUp(g, w, F) ==
  /\ Rises(g, F)
  /\ \A k \in DOMAIN w : Rises(NumbersOf(w[k]), F) /\ Below(ToSet(g), Nums(w[k]), F)
  /\ \A k, l \in DOMAIN w : k < l => Below(Nums(w[k]), Nums(w[l]), F)

WrittenOf(g, w) == ToSet(g) \cup UNION {Nums(w[k]) : k \in DOMAIN w}

LEMMA LineMore ==
  ASSUME NEW g, NEW w, NEW F, NEW G, F \subseteq G, LineUp(g, w, F)
  PROVE  LineUp(g, w, G)
BY DEF LineUp, Rises, Below

LEMMA LineSends ==
  ASSUME NEW g, NEW w \in Seq(Seq(Entry)), NEW b \in Seq(Entry), NEW F, LineUp(g, w, F),
         Rises(NumbersOf(b), F), Below(WrittenOf(g, w), Nums(b), F)
  PROVE  LineUp(g, Append(w, b), F) /\ WrittenOf(g, Append(w, b)) = WrittenOf(g, w) \cup Nums(b)
<1> DEFINE v == Append(w, b)
<1>1. /\ v \in Seq(Seq(Entry)) /\ DOMAIN w = 1 .. Len(w) /\ DOMAIN v = 1 .. Len(w) + 1 /\ Len(w) \in Nat
      /\ v[Len(w) + 1] = b /\ \A i \in 1 .. Len(w) : v[i] = w[i]
  OBVIOUS
<1> HIDE DEF v
<1>2. \A k \in DOMAIN w : Below(Nums(w[k]), Nums(b), F)
  BY DEF Below, WrittenOf
<1>3. Below(ToSet(g), Nums(b), F)
  BY DEF Below, WrittenOf
<1>4. \A k \in DOMAIN v : Rises(NumbersOf(v[k]), F) /\ Below(ToSet(g), Nums(v[k]), F)
  BY <1>1, <1>3 DEF LineUp
<1>5. \A k, l \in DOMAIN v : k < l => Below(Nums(v[k]), Nums(v[l]), F)
  <2> TAKE k, l \in DOMAIN v
  <2> HAVE k < l
  <2>1. k \in DOMAIN w /\ v[k] = w[k]
    BY <1>1
  <2>2. CASE l \in DOMAIN w
    BY <1>1, <2>1, <2>2 DEF LineUp
  <2>3. CASE l \notin DOMAIN w
    <3>1. v[l] = b
      BY <1>1, <2>3
    <3> QED BY <1>2, <2>1, <3>1
  <2> QED BY <2>2, <2>3
<1>6. WrittenOf(g, v) = WrittenOf(g, w) \cup Nums(b)
  <2>1. ASSUME NEW k \in DOMAIN v PROVE Nums(v[k]) \subseteq WrittenOf(g, w) \cup Nums(b)
    BY <1>1, SMTT(30) DEF WrittenOf
  <2>2. ASSUME NEW k \in DOMAIN w PROVE Nums(w[k]) \subseteq WrittenOf(g, v)
    <3>1. k \in DOMAIN v /\ v[k] = w[k]
      BY <1>1
    <3> QED BY <3>1 DEF WrittenOf
  <2>3. Nums(b) \subseteq WrittenOf(g, v)
    <3>1. Len(w) + 1 \in DOMAIN v /\ v[Len(w) + 1] = b
      BY <1>1
    <3> QED BY <3>1 DEF WrittenOf
  <2> QED BY <2>1, <2>2, <2>3 DEF WrittenOf
<1>7. LineUp(g, v, F)
  BY <1>4, <1>5 DEF LineUp
<1> QED BY <1>6, <1>7 DEF v

LEMMA LineReads ==
  ASSUME NEW g \in Seq(Nat), NEW w \in Seq(Seq(Entry)), w # <<>>, NEW F, LineUp(g, w, F)
  PROVE  /\ LineUp(g \o NumbersOf(Head(w)), Tail(w), F)
         /\ WrittenOf(g \o NumbersOf(Head(w)), Tail(w)) \subseteq WrittenOf(g, w)
         /\ g \o NumbersOf(Head(w)) \in Seq(Nat)
<1> DEFINE v == Tail(w)
           f == Head(w)
           h == g \o NumbersOf(f)
<1>1. /\ f \in Seq(Entry) /\ v \in Seq(Seq(Entry)) /\ Len(w) \in Nat \ {0}
      /\ DOMAIN w = 1 .. Len(w) /\ DOMAIN v = 1 .. Len(w) - 1
      /\ f = w[1] /\ \A i \in 1 .. Len(w) - 1 : v[i] = w[i + 1]
  OBVIOUS
<1>2. 1 \in DOMAIN w /\ Rises(NumbersOf(f), F) /\ Below(ToSet(g), Nums(f), F) /\ Rises(g, F)
  BY <1>1 DEF LineUp
<1>3. Rises(h, F) /\ h \in Seq(Nat) /\ ToSet(h) = ToSet(g) \cup Nums(f)
  BY <1>1, <1>2, RisesConcat
<1> HIDE DEF v, f, h
<1>4. ASSUME NEW k \in DOMAIN v
      PROVE  /\ k + 1 \in DOMAIN w /\ 1 < k + 1 /\ v[k] = w[k + 1]
             /\ Rises(NumbersOf(v[k]), F) /\ Below(ToSet(h), Nums(v[k]), F)
  <2>1. k + 1 \in DOMAIN w /\ 1 < k + 1 /\ v[k] = w[k + 1]
    BY <1>1, SMTT(30)
  <2>2. Below(Nums(f), Nums(v[k]), F) /\ Below(ToSet(g), Nums(v[k]), F) /\ Rises(NumbersOf(v[k]), F)
    BY <1>1, <1>2, <2>1 DEF LineUp
  <2>3. Below(ToSet(h), Nums(v[k]), F)
    BY <1>3, <2>2 DEF Below
  <2> QED BY <2>1, <2>2, <2>3
<1>5. ASSUME NEW k \in DOMAIN v, NEW l \in DOMAIN v, k < l PROVE Below(Nums(v[k]), Nums(v[l]), F)
  <2>1. k + 1 < l + 1
    BY <1>1, <1>5
  <2> QED BY <1>4, <2>1 DEF LineUp
<1>6. WrittenOf(h, v) \subseteq WrittenOf(g, w)
  <2>1. ASSUME NEW k \in DOMAIN v PROVE Nums(v[k]) \subseteq WrittenOf(g, w)
    BY <1>4 DEF WrittenOf
  <2>2. ToSet(h) \subseteq WrittenOf(g, w)
    BY <1>1, <1>2, <1>3 DEF WrittenOf
  <2> QED BY <2>1, <2>2 DEF WrittenOf
<1>7. LineUp(h, v, F)
  BY <1>3, <1>4, <1>5 DEF LineUp
<1> QED BY <1>3, <1>6, <1>7 DEF h, v, f

LEMMA LineLoses ==
  ASSUME NEW g, NEW w, NEW F, LineUp(g, w, F)
  PROVE  LineUp(g, <<>>, F) /\ WrittenOf(g, <<>>) \subseteq WrittenOf(g, w)
<1>1. DOMAIN <<>> = {}
  OBVIOUS
<1> QED BY <1>1 DEF LineUp, WrittenOf

-----------------------------------------------------------------------------
(* The inductive invariant: entries pass from the channel to the batch, to *)
(* the connection and to the hub in the order of capture, all that failed  *)
(* left out.                                                               *)

Written(c) == WrittenOf(got[c], wire[c])

LinkType ==
  /\ conn \in 0 .. MaxConns /\ (pump # "dialing" => conn \in Conns)
  /\ wire \in [Conns -> Seq(Seq(Entry))] /\ got \in [Conns -> Seq(Nat)]
  /\ \A c \in Conns : c > conn => wire[c] = <<>> /\ got[c] = <<>>

\* What is numbered so far was captured; what is put back had failed.
Past ==
  /\ \A n \in Nums(ch) \cup Nums(batched) : n <= captured
  /\ \A c \in Conns : \A n \in Written(c) : n <= captured
  /\ pump = "requeueing" => Nums(batched) \subseteq failed

HandsUp ==
  /\ Rises(NumbersOf(ch), failed) /\ Rises(NumbersOf(batched), failed)
  /\ Below(Nums(batched), Nums(ch), failed)

LinesUp ==
  /\ \A c \in Conns : LineUp(got[c], wire[c], failed)
  /\ \A c, d \in Conns : c < d => Below(Written(c), Written(d), failed)
  /\ \A c \in Conns : Below(Written(c), Nums(batched) \cup Nums(ch), failed)

Ordered == Counted /\ LinkType /\ Past /\ HandsUp /\ LinesUp

LEMMA WrittenNat == ASSUME LinkType, NEW c \in Conns PROVE Written(c) \in SUBSET Nat
<1>1. got[c] \in Seq(Nat) /\ wire[c] \in Seq(Seq(Entry))
  BY DEF LinkType
<1>2. ToSet(got[c]) \in SUBSET Nat
  BY <1>1 DEF ToSet
<1>3. ASSUME NEW k \in DOMAIN wire[c] PROVE Nums(wire[c][k]) \in SUBSET Nat
  <2>1. wire[c][k] \in Seq(Entry)
    BY <1>1
  <2> QED BY <2>1, NumsTyped
<1> QED BY <1>2, <1>3 DEF Written, WrittenOf

LEMMA EmptyUp ==
  ASSUME NEW F
  PROVE  /\ Nums(<<>>) = {} /\ NumbersOf(<<>>) = <<>> /\ Rises(<<>>, F)
         /\ LineUp(<<>>, <<>>, F) /\ WrittenOf(<<>>, <<>>) = {}
<1>1. DOMAIN <<>> = {}
  OBVIOUS
<1>2. NumbersOf(<<>>) = <<>>
  BY DEF NumbersOf
<1> QED BY <1>1, <1>2 DEF Nums, Rises, LineUp, WrittenOf, ToSet

LEMMA InitOrdered == Init => Ordered
<1> SUFFICES ASSUME Init PROVE Ordered
  OBVIOUS
<1>1. Counted
  BY InitCounted
<1>2. LinkType
  BY SinkAssumption DEF Init, LinkType, Conns
<1>3. \A c \in Conns : got[c] = <<>> /\ wire[c] = <<>> /\ Written(c) = {}
  BY EmptyUp DEF Init, Written
<1>4. Past
  BY <1>3, EmptyUp DEF Init, Past
<1>5. HandsUp
  BY EmptyUp DEF Init, HandsUp, Below
<1>6. LinesUp
  BY <1>3, EmptyUp DEF LinesUp, Below
<1> QED BY <1>1, <1>2, <1>4, <1>5, <1>6 DEF Ordered

\* A step that leaves the connections alone.
LEMMA HandsStep ==
  ASSUME Ordered, Counted', UNCHANGED <<wire, got, conn, failed>>,
         pump' # "dialing" => conn \in Conns,
         \A n \in Nums(ch') \cup Nums(batched') : n <= captured',
         captured <= captured',
         pump' = "requeueing" => Nums(batched') \subseteq failed,
         HandsUp',
         \A c \in Conns : Below(Written(c), Nums(batched') \cup Nums(ch'), failed)
  PROVE  Ordered'
<1> USE DEF Ordered
<1>1. LinkType'
  BY DEF LinkType
<1>2. \A c \in Conns : Written(c)' = Written(c)
  BY DEF Written
<1>3. Past'
  <2>1. ASSUME NEW c \in Conns, NEW n \in Written(c) PROVE n <= captured'
    <3>1. n \in Nat
      BY WrittenNat
    <3> QED BY <2>1, <3>1 DEF Past, Counted, CountType
  <2> QED BY <1>2, <2>1 DEF Past
<1>4. LinesUp'
  BY <1>2 DEF LinesUp
<1> QED BY <1>1, <1>3, <1>4

\* An entry moves from the channel to the batch, or could not be marshalled.
LEMMA TakesHead ==
  ASSUME Ordered, ch # <<>>, ch' = Tail(ch), failed' = failed,
         batched' = batched \/ batched' = Append(batched, Head(ch))
  PROVE  /\ HandsUp'
         /\ Nums(ch') \cup Nums(batched') \subseteq Nums(ch) \cup Nums(batched)
<1> USE DEF Ordered
<1>1. ch \in Seq(Entry) /\ batched \in Seq(Entry)
  BY DEF Counted, CountType
<1>2. /\ Nums(ch) = {Head(ch).n} \cup Nums(ch') /\ Head(ch) \in Entry /\ ch' \in Seq(Entry)
      /\ Rises(NumbersOf(ch'), failed) /\ Below({Head(ch).n}, Nums(ch'), failed)
  BY <1>1, NumsSplit, RisesTail DEF HandsUp
<1>3. CASE batched' = batched
  BY <1>2, <1>3 DEF HandsUp, Below
<1>4. CASE batched' = Append(batched, Head(ch))
  <2>1. Nums(batched') = Nums(batched) \cup {Head(ch).n}
    BY <1>1, <1>2, <1>4, NumsAppend
  <2>2. Below(Nums(batched), {Head(ch).n}, failed)
    BY <1>2 DEF HandsUp, Below
  <2>3. Rises(NumbersOf(batched'), failed)
    BY <1>1, <1>2, <1>4, <2>2, RisesAppend DEF HandsUp
  <2>4. Below(Nums(batched'), Nums(ch'), failed)
    BY <1>2, <2>1 DEF HandsUp, Below
  <2> QED BY <1>2, <2>1, <2>3, <2>4 DEF HandsUp
<1> QED BY <1>3, <1>4

LEMMA CaptureOrdered == ASSUME Ordered, Capture PROVE Ordered'
<1> USE DEF Ordered
<1>0. Counted'
  BY NextCounted DEF Next
<1>1. /\ captured' = captured + 1 /\ captured \in Nat
      /\ UNCHANGED <<pump, batched, wire, got, conn, failed>>
  BY DEF Capture, link, Counted, CountType
<1>2. ch \in Seq(Entry) /\ batched \in Seq(Entry)
  BY DEF Counted, CountType
<1>3. \A n \in Nums(ch) \cup Nums(batched) : n \in Nat /\ n <= captured /\ n < captured + 1
  BY <1>1, <1>2, NumsTyped DEF Past
<1>4. \A c \in Conns : \A n \in Written(c) : n < captured + 1
  <2>1. ASSUME NEW c \in Conns, NEW n \in Written(c) PROVE n < captured + 1
    <3>1. n \in Nat
      BY WrittenNat
    <3> QED BY <1>1, <3>1 DEF Past
  <2> QED BY <2>1
<1>5. CASE ch' = ch
  <2>1. \A n \in Nums(ch') \cup Nums(batched') : n <= captured'
    BY <1>1, <1>3, <1>5
  <2>2. HandsUp' /\ captured <= captured'
    BY <1>1, <1>5 DEF HandsUp
  <2> QED BY <1>0, <1>1, <1>5, <2>1, <2>2, HandsStep DEF LinkType, Past, LinesUp
<1>6. ASSUME NEW l \in Lens, ch' = Append(ch, [n |-> captured + 1, len |-> l]) PROVE Ordered'
  <2> DEFINE e == [n |-> captured + 1, len |-> l]
  <2>1. e \in Entry /\ e.n = captured + 1
    BY <1>1, SinkAssumption DEF Capture, Entry, Numbers
  <2> HIDE DEF e
  <2>2. ch' = Append(ch, e)
    BY <1>6 DEF e
  <2>3. Nums(ch') = Nums(ch) \cup {captured + 1}
    BY <1>2, <2>1, <2>2, NumsAppend
  <2>4. Below(Nums(ch) \cup Nums(batched), {captured + 1}, failed)
    BY <1>3 DEF Below
  <2>5. Rises(NumbersOf(ch'), failed)
    <3>1. Below(Nums(ch), {e.n}, failed)
      BY <2>1, <2>4 DEF Below
    <3> QED BY <1>2, <2>1, <2>2, <3>1, RisesAppend DEF HandsUp
  <2>6. HandsUp'
    BY <1>1, <2>3, <2>4, <2>5 DEF HandsUp, Below
  <2>7. \A n \in Nums(ch') \cup Nums(batched') : n <= captured'
    BY <1>1, <1>3, <2>3
  <2>8. \A c \in Conns : Below(Written(c), Nums(batched') \cup Nums(ch'), failed)
    BY <1>1, <1>4, <2>3 DEF LinesUp, Below
  <2>9. captured <= captured'
    BY <1>1
  <2> QED BY <1>0, <1>1, <2>6, <2>7, <2>8, <2>9, HandsStep DEF LinkType, Past
<1> QED BY <1>5, <1>6 DEF Capture, emit

LEMMA TakeOrdered == ASSUME Ordered, Take \/ Drain PROVE Ordered'
<1> USE DEF Ordered
<1>0. Counted'
  BY NextCounted DEF Next, Pump
<1>1. /\ ch # <<>> /\ ch' = Tail(ch) /\ UNCHANGED <<captured, wire, got, conn, failed>>
      /\ pump \in {"select", "draining"} /\ pump' \in {"select", "draining"}
      /\ (pump = "select" => batched = <<>>)
  BY DEF Take, Drain, link, Counted, CountType
<1>2. batched' = batched \/ batched' = Append(batched, Head(ch))
  <2>1. CASE Take
    <3>1. batched = <<>>
      BY <2>1 DEF Take, Counted, CountType
    <3>2. Append(<<>>, Head(ch)) = <<Head(ch)>>
      OBVIOUS
    <3> QED BY <2>1, <3>1, <3>2 DEF Take
  <2>2. CASE Drain
    BY <2>2 DEF Drain
  <2> QED BY <2>1, <2>2
<1>3. HandsUp' /\ Nums(ch') \cup Nums(batched') \subseteq Nums(ch) \cup Nums(batched)
  BY <1>1, <1>2, TakesHead
<1>4. \A c \in Conns : Below(Written(c), Nums(batched') \cup Nums(ch'), failed)
  BY <1>3 DEF LinesUp, Below
<1>5. \A n \in Nums(ch') \cup Nums(batched') : n <= captured'
  BY <1>1, <1>3 DEF Past
<1>6. captured <= captured'
  BY <1>1 DEF Counted, CountType
<1> QED BY <1>0, <1>1, <1>3, <1>4, <1>5, <1>6, HandsStep DEF LinkType

\* A failed entry goes back to the end of the channel, or is dropped.
LEMMA RequeueOrdered == ASSUME Ordered, Requeue PROVE Ordered'
<1> USE DEF Ordered
<1>0. Counted'
  BY NextCounted DEF Next, Pump
<1>1. /\ batched # <<>> /\ batched' = Tail(batched) /\ pump = "requeueing"
      /\ UNCHANGED <<captured, pump, wire, got, conn, failed>>
      /\ ch' = ch \/ ch' = Append(ch, Head(batched))
  BY DEF Requeue, link, emit
<1>2. ch \in Seq(Entry) /\ batched \in Seq(Entry)
  BY DEF Counted, CountType
<1>3. /\ Nums(batched) = {Head(batched).n} \cup Nums(batched') /\ Head(batched) \in Entry
      /\ Rises(NumbersOf(batched'), failed)
  BY <1>1, <1>2, NumsSplit, RisesTail DEF HandsUp
<1>4. Nums(batched) \subseteq failed /\ Nums(batched') \subseteq failed /\ Head(batched).n \in failed
  BY <1>1, <1>3 DEF Past
<1>5. /\ Rises(NumbersOf(ch'), failed)
      /\ Nums(ch') \subseteq Nums(ch) \cup {Head(batched).n}
  <2>1. CASE ch' = ch
    BY <2>1 DEF HandsUp
  <2>2. CASE ch' = Append(ch, Head(batched))
    <3>1. Below(Nums(ch), {Head(batched).n}, failed)
      BY <1>4 DEF Below
    <3> QED BY <1>2, <1>3, <2>2, <3>1, RisesAppend, NumsAppend DEF HandsUp
  <2> QED BY <1>1, <2>1, <2>2
<1>6. HandsUp'
  BY <1>1, <1>3, <1>4, <1>5 DEF HandsUp, Below
<1>7. \A n \in Nums(ch') \cup Nums(batched') : n <= captured'
  BY <1>1, <1>3, <1>5 DEF Past
<1>8. \A c \in Conns : Below(Written(c), Nums(batched') \cup Nums(ch'), failed)
  BY <1>3, <1>5 DEF LinesUp, Below
<1>9. captured <= captured'
  BY <1>1 DEF Counted, CountType
<1> QED BY <1>0, <1>1, <1>4, <1>6, <1>7, <1>8, <1>9, HandsStep DEF LinkType

LEMMA QuietOrdered ==
  ASSUME Ordered, DrainEnds \/ RequeueEnds \/ StatsFails \/ UNCHANGED vars PROVE Ordered'
<1> USE DEF Ordered
<1>0. Counted'
  BY NextCounted DEF Next, Pump
<1>1. /\ UNCHANGED <<captured, ch, batched, wire, got, conn, failed>>
      /\ pump' # "dialing" => pump # "dialing"
      /\ pump' = "requeueing" => pump = "requeueing"
  BY DEF DrainEnds, RequeueEnds, StatsFails, link, vars
<1>2. HandsUp' /\ captured <= captured'
  BY <1>1 DEF HandsUp, Counted, CountType
<1> QED BY <1>0, <1>1, <1>2, HandsStep DEF LinkType, Past, LinesUp

LEMMA ConnectOrdered == ASSUME Ordered, Connect PROVE Ordered'
<1> USE DEF Ordered
<1>0. Counted'
  BY NextCounted DEF Next
<1>1. /\ conn < MaxConns /\ conn' = conn + 1 /\ pump' = "select"
      /\ UNCHANGED <<captured, ch, batched, wire, got, failed>>
  BY DEF Connect
<1>2. LinkType'
  BY <1>1, SinkAssumption, SMTT(30) DEF LinkType, Conns
<1>3. Past' /\ HandsUp' /\ LinesUp'
  BY <1>1 DEF Past, HandsUp, LinesUp, Written
<1> QED BY <1>0, <1>2, <1>3

\* More entries count as failed, and the batch may reach the connection.
LEMMA TransmitOrdered ==
  ASSUME Ordered, conn \in Conns, failed \subseteq failed', Transmit(batched) \/ UNCHANGED wire,
         UNCHANGED <<got, conn>>
  PROVE  /\ wire' \in [Conns -> Seq(Seq(Entry))]
         /\ \A c \in Conns : c > conn => wire'[c] = wire[c]
         /\ \A c \in Conns : LineUp(got[c], wire'[c], failed')
         /\ \A c, d \in Conns : c < d => Below(Written(c)', Written(d)', failed')
         /\ \A c \in Conns : Written(c)' = Written(c) \/ Written(c)' = Written(c) \cup Nums(batched)
         /\ \A c \in Conns : Below(Written(c)', Nums(ch), failed')
<1> USE DEF Ordered
<1>0. batched \in Seq(Entry) /\ wire \in [Conns -> Seq(Seq(Entry))] /\ got \in [Conns -> Seq(Nat)]
  BY DEF LinkType, Counted, CountType
<1>1. /\ \A c \in Conns : LineUp(got[c], wire[c], failed')
      /\ \A c, d \in Conns : c < d => Below(Written(c), Written(d), failed')
      /\ \A c \in Conns : Below(Written(c), Nums(batched), failed') /\ Below(Written(c), Nums(ch), failed')
      /\ Rises(NumbersOf(batched), failed') /\ Below(Nums(batched), Nums(ch), failed')
  <2>1. \A c \in Conns : LineUp(got[c], wire[c], failed')
    BY LineMore DEF LinesUp
  <2> QED BY <2>1 DEF LinesUp, HandsUp, Below, Rises
<1>2. CASE wire' = wire
  <2>1. \A c \in Conns : Written(c)' = Written(c)
    BY <1>2 DEF Written
  <2> QED BY <1>0, <1>1, <1>2, <2>1
<1>3. CASE wire' = [wire EXCEPT ![conn] = Append(@, batched)]
  <2>1. /\ wire'[conn] = Append(wire[conn], batched) /\ \A c \in Conns \ {conn} : wire'[c] = wire[c]
        /\ wire' \in [Conns -> Seq(Seq(Entry))]
    BY <1>0, <1>3
  <2>2. /\ LineUp(got[conn], wire'[conn], failed')
        /\ Written(conn)' = Written(conn) \cup Nums(batched)
    <3>1. wire[conn] \in Seq(Seq(Entry)) /\ Below(WrittenOf(got[conn], wire[conn]), Nums(batched), failed')
      BY <1>0, <1>1 DEF Written
    <3>2. /\ LineUp(got[conn], Append(wire[conn], batched), failed')
          /\ WrittenOf(got[conn], Append(wire[conn], batched)) = WrittenOf(got[conn], wire[conn]) \cup Nums(batched)
      BY <1>0, <1>1, <3>1, LineSends
    <3> QED BY <2>1, <3>2 DEF Written
  <2>3. \A c \in Conns \ {conn} : Written(c)' = Written(c)
    BY <2>1 DEF Written
  <2>4. \A c \in Conns : c > conn => Written(c) = {}
    BY EmptyUp DEF LinkType, Written
  <2>5. ASSUME NEW c \in Conns, NEW d \in Conns, c < d PROVE Below(Written(c)', Written(d)', failed')
    <3>1. CASE d = conn
      <4>1. c # conn /\ Written(c)' = Written(c)
        BY <2>3, <2>5, <3>1 DEF Conns
      <4> QED BY <1>1, <2>2, <2>5, <3>1, <4>1 DEF Below
    <3>2. CASE c = conn
      <4>1. Written(d)' = {}
        BY <2>3, <2>4, <2>5, <3>2 DEF Conns
      <4> QED BY <4>1 DEF Below
    <3>3. CASE c # conn /\ d # conn
      BY <1>1, <2>3, <2>5, <3>3
    <3> QED BY <3>1, <3>2, <3>3
  <2>6. \A c \in Conns : Below(Written(c)', Nums(ch), failed')
    BY <1>1, <2>2, <2>3 DEF Below
  <2>7. \A c \in Conns : c > conn => wire'[c] = wire[c]
    BY <2>1 DEF Conns
  <2> QED BY <1>1, <2>1, <2>2, <2>3, <2>5, <2>6, <2>7
<1>4. wire' = wire \/ wire' = [wire EXCEPT ![conn] = Append(@, batched)]
  BY <1>0 DEF Transmit
<1> QED BY <1>2, <1>3, <1>4

LEMMA WriteOrdered == ASSUME Ordered, WriteSucceeds \/ WriteFails PROVE Ordered'
<1> USE DEF Ordered
<1>0. Counted'
  BY NextCounted DEF Next, Pump
<1>1. batched \in Seq(Entry) /\ captured \in Nat /\ ch \in Seq(Entry)
  BY DEF Counted, CountType
<1>2. ToSet(NumbersOf(batched)) = Nums(batched)
  BY <1>1, NumsTyped DEF ToSet
<1>3. /\ UNCHANGED <<captured, ch, got, conn>> /\ pump = "writing"
      /\ Transmit(batched) \/ UNCHANGED wire
      /\ \/ failed' = failed /\ batched' = <<>> /\ pump' = "select"
         \/ failed' = failed \cup Nums(batched) /\ batched' = batched /\ pump' = "requeueing"
  BY <1>2 DEF WriteSucceeds, WriteFails
<1>4. conn \in Conns /\ failed \subseteq failed'
  BY <1>3 DEF LinkType
<1>5. /\ wire' \in [Conns -> Seq(Seq(Entry))]
      /\ \A c \in Conns : c > conn => wire'[c] = wire[c]
      /\ \A c \in Conns : LineUp(got[c], wire'[c], failed')
      /\ \A c, d \in Conns : c < d => Below(Written(c)', Written(d)', failed')
      /\ \A c \in Conns : Written(c)' = Written(c) \/ Written(c)' = Written(c) \cup Nums(batched)
      /\ \A c \in Conns : Below(Written(c)', Nums(ch), failed')
  BY <1>3, <1>4, TransmitOrdered
<1>6. LinkType'
  BY <1>3, <1>4, <1>5 DEF LinkType
<1>7. Nums(batched') \subseteq Nums(batched)
      /\ (pump' = "requeueing" => Nums(batched') \subseteq failed')
      /\ \A n \in Nums(batched') : n \in failed'
  BY <1>3, EmptyUp
<1>8. Past'
  <2>1. \A c \in Conns : \A n \in Written(c)' : n <= captured
    BY <1>5 DEF Past
  <2> QED BY <1>3, <1>7, <2>1 DEF Past
<1>9. HandsUp'
  <2>1. Rises(NumbersOf(ch), failed')
    BY <1>4 DEF HandsUp, Rises
  <2>2. Rises(NumbersOf(batched'), failed')
    BY <1>3, <1>4, EmptyUp DEF HandsUp, Rises
  <2>3. Below(Nums(batched'), Nums(ch), failed')
    BY <1>7 DEF Below
  <2> QED BY <1>3, <2>1, <2>2, <2>3 DEF HandsUp
<1>10. LinesUp'
  <2>1. \A c \in Conns : Below(Written(c)', Nums(batched') \cup Nums(ch), failed')
    BY <1>5, <1>7 DEF Below
  <2> QED BY <1>3, <1>5, <2>1 DEF LinesUp
<1> QED BY <1>0, <1>6, <1>8, <1>9, <1>10

LEMMA HubOrdered == ASSUME Ordered, NEW c \in Conns, HubReads(c) \/ ConnLost(c) PROVE Ordered'
<1> USE DEF Ordered
<1>0. Counted'
  BY NextCounted DEF Next
<1>1. UNCHANGED <<captured, ch, pump, batched, conn, failed>>
  BY DEF HubReads, ConnLost
<1>2. wire \in [Conns -> Seq(Seq(Entry))] /\ got \in [Conns -> Seq(Nat)]
  BY DEF LinkType
<1>3. /\ wire' \in [Conns -> Seq(Seq(Entry))] /\ got' \in [Conns -> Seq(Nat)]
      /\ \A d \in Conns \ {c} : wire'[d] = wire[d] /\ got'[d] = got[d]
      /\ LineUp(got'[c], wire'[c], failed)
      /\ Written(c)' \subseteq Written(c)
      /\ c > conn => wire'[c] = <<>> /\ got'[c] = <<>>
  <2>0. LineUp(got[c], wire[c], failed)
    BY DEF LinesUp
  <2>1. CASE wire' = [wire EXCEPT ![c] = <<>>] /\ got' = got
    <3>1. LineUp(got[c], <<>>, failed) /\ WrittenOf(got[c], <<>>) \subseteq WrittenOf(got[c], wire[c])
      BY <2>0, LineLoses
    <3>2. wire'[c] = <<>> /\ wire' \in [Conns -> Seq(Seq(Entry))]
          /\ \A d \in Conns \ {c} : wire'[d] = wire[d]
      BY <1>2, <2>1
    <3> QED BY <1>2, <2>1, <3>1, <3>2 DEF Written, LinkType
  <2>2. CASE /\ wire[c] # <<>> /\ wire' = [wire EXCEPT ![c] = Tail(@)]
             /\ got' = [got EXCEPT ![c] = @ \o NumbersOf(Head(wire[c]))]
    <3>1. wire[c] \in Seq(Seq(Entry)) /\ got[c] \in Seq(Nat) /\ Tail(wire[c]) \in Seq(Seq(Entry))
      BY <1>2, <2>2
    <3>2. /\ LineUp(got[c] \o NumbersOf(Head(wire[c])), Tail(wire[c]), failed)
          /\ WrittenOf(got[c] \o NumbersOf(Head(wire[c])), Tail(wire[c])) \subseteq WrittenOf(got[c], wire[c])
          /\ got[c] \o NumbersOf(Head(wire[c])) \in Seq(Nat)
      BY <2>0, <2>2, <3>1, LineReads
    <3>3. wire'[c] = Tail(wire[c]) /\ got'[c] = got[c] \o NumbersOf(Head(wire[c]))
          /\ \A d \in Conns \ {c} : wire'[d] = wire[d] /\ got'[d] = got[d]
      BY <1>2, <2>2
    <3>4. wire' \in [Conns -> Seq(Seq(Entry))] /\ got' \in [Conns -> Seq(Nat)]
      BY <1>2, <2>2, <3>1, <3>2
    <3>5. ~(c > conn)
      BY <2>2 DEF LinkType
    <3> QED BY <3>2, <3>3, <3>4, <3>5 DEF Written
  <2> QED BY <2>1, <2>2 DEF HubReads, ConnLost
<1>4. \A d \in Conns : Written(d)' \subseteq Written(d)
  BY <1>3 DEF Written
<1>5. LinkType'
  BY <1>1, <1>3 DEF LinkType
<1>6. Past' /\ HandsUp'
  BY <1>1, <1>4 DEF Past, HandsUp
<1>7. LinesUp'
  BY <1>1, <1>3, <1>4 DEF LinesUp, Below
<1> QED BY <1>0, <1>5, <1>6, <1>7

LEMMA NextOrdered == Ordered /\ [Next]_vars => Ordered'
BY CaptureOrdered, ConnectOrdered, TakeOrdered, RequeueOrdered, QuietOrdered, WriteOrdered,
   HubOrdered DEF Next, Pump

LEMMA OrderedDelivers == Ordered => OnceInOrder
<1> SUFFICES ASSUME Ordered, NEW c \in Conns, NEW d \in Conns,
                    NEW i \in DOMAIN got[c], NEW j \in DOMAIN got[d], <<c, i>> # <<d, j>>,
                    got[c][i] \notin failed, got[d][j] \notin failed
             PROVE  got[c][i] # got[d][j] /\ (c = d /\ i < j => got[c][i] < got[d][j])
  BY DEF OnceInOrder
<1>1. c \in Nat /\ d \in Nat /\ i \in Nat /\ j \in Nat /\ got[c][i] \in Nat /\ got[d][j] \in Nat
  <2>1. got[c] \in Seq(Nat) /\ got[d] \in Seq(Nat)
    BY DEF Ordered, LinkType
  <2>2. \A s \in Seq(Nat) : \A k \in DOMAIN s : k \in Nat /\ s[k] \in Nat
    OBVIOUS
  <2>3. c \in Nat /\ d \in Nat
    BY SinkAssumption DEF Conns
  <2> QED BY <2>1, <2>2, <2>3
<1>2. got[c][i] \in Written(c) /\ got[d][j] \in Written(d)
  BY DEF Written, WrittenOf, ToSet
<1>3. CASE c = d
  BY <1>1, <1>3 DEF Ordered, LinesUp, LineUp, Rises
<1>4. CASE c < d
  <2>1. got[c][i] < got[d][j]
    BY <1>2, <1>4 DEF Ordered, LinesUp, Below
  <2> QED BY <1>1, <1>4, <2>1
<1>5. CASE d < c
  <2>1. got[d][j] < got[c][i]
    BY <1>2, <1>5 DEF Ordered, LinesUp, Below
  <2> QED BY <1>1, <1>5, <2>1
<1> QED BY <1>1, <1>3, <1>4, <1>5

\* An entry whose write succeeded is read by the hub once, and the entries of one
\* connection in the order of capture, however capture fills the channel between
\* the drains of pump and the emits of a requeue, and however late the hub reads
\* the frames of a connection that pump has left (sink.go:252-254, 317-377).
THEOREM DeliveredInOrder == Spec => []OnceInOrder
BY InitOrdered, NextOrdered, OrderedDelivers, PTL DEF Spec

-----------------------------------------------------------------------------
(* Frames.                                                                 *)

LensOf(entries) == [i \in DOMAIN entries |-> entries[i].len]

LEMMA LensTyped ==
  ASSUME NEW s \in Seq(Entry)
  PROVE  /\ LensOf(s) \in Seq(Nat) /\ DOMAIN LensOf(s) = DOMAIN s /\ IsFiniteSet(DOMAIN s)
         /\ Len(LensOf(s)) = Len(s)
<1>1. \A i \in DOMAIN s : s[i] \in Entry /\ s[i].len \in Nat
  BY EntryTyped
<1>2. DOMAIN s = 1 .. Len(s) /\ Len(s) \in Nat
  OBVIOUS
<1> QED BY <1>1, <1>2, FS_Interval DEF LensOf

\* The fold that Size is defined by is the sum of the lengths.
LEMMA SizeIsSum == ASSUME NEW s \in Seq(Entry) PROVE Size(s) = SumSeq(LensOf(s))
<1> DEFINE D == DOMAIN s
           g == LensOf(s)
           Fix(h) == h = [t \in SUBSET D |->
                           IF t = {} THEN 0
                           ELSE s[CHOOSE x \in t : TRUE].len + h[t \ {CHOOSE x \in t : TRUE}]]
           it == CHOOSE h : Fix(h)
<1>1. Size(s) = it[D]
  BY DEF Size, FoldSeq, FoldFunction, FoldFunctionOnSet, MapThenFoldSet
<1>2. IsFiniteSet(D) /\ \A x \in D : g[x] \in Nat
  BY LensTyped
<1>3. PICK h : IsSum(g, D, h) /\ SumOver(g, D) = h[D]
  <2> HIDE DEF g, D
  <2> QED BY <1>2, SumOverIs
<1>4. ASSUME NEW t \in SUBSET D, t # {} PROVE s[Chosen(t)].len = g[Chosen(t)]
  BY <1>4, ChosenIn DEF LensOf
<1>5. Fix(h)
  <2>1. h = [t \in SUBSET D |-> h[t]]
    BY <1>3 DEF IsSum
  <2>2. ASSUME NEW t \in SUBSET D
        PROVE  h[t] = IF t = {} THEN 0
                      ELSE s[CHOOSE x \in t : TRUE].len + h[t \ {CHOOSE x \in t : TRUE}]
    BY <1>3, <1>4 DEF IsSum, Folds, SumStep, Chosen
  <2> QED BY <2>1, <2>2
<1> HIDE DEF it
<1>6. Fix(it)
  BY <1>5 DEF it
<1>7. Folds(g, D, it)
  <2>1. ASSUME NEW t \in SUBSET D PROVE it[t] = SumStep(g, it, t)
    <3>1. it[t] = IF t = {} THEN 0 ELSE s[Chosen(t)].len + it[t \ {Chosen(t)}]
      BY <1>6 DEF Chosen
    <3> QED BY <1>4, <3>1 DEF SumStep
  <2> QED BY <2>1 DEF Folds
<1>8. h[D] = it[D]
  <2>1. D \in SUBSET (D \cap D)
    OBVIOUS
  <2> HIDE DEF D, g
  <2> QED BY <1>2, <1>3, <1>7, <2>1, SumUnique DEF IsSum
<1>9. DOMAIN g = D
  BY DEF LensOf
<1> QED BY <1>1, <1>3, <1>8, <1>9 DEF SumSeq

LEMMA SizeEmpty == Size(<<>>) = 0
<1>1. LensOf(<<>>) = <<>> /\ <<>> \in Seq(Entry)
  BY DEF LensOf
<1> QED BY <1>1, SizeIsSum, SumSeqEmpty

LEMMA SizeType == ASSUME NEW s \in Seq(Entry) PROVE Size(s) \in Nat
BY LensTyped, SizeIsSum, SumSeqType

LEMMA SizeAppend ==
  ASSUME NEW s \in Seq(Entry), NEW e \in Entry
  PROVE  Size(Append(s, e)) = Size(s) + e.len
<1> DEFINE a == Append(s, e)
           l == LensOf(s)
           m == LensOf(a)
           b == Append(l, e.len)
<1>1. l \in Seq(Nat) /\ Len(l) = Len(s) /\ e.len \in Nat
  BY LensTyped, EntryTyped
<1>2. /\ a \in Seq(Entry) /\ Len(a) = Len(s) + 1 /\ Len(s) \in Nat
      /\ a[Len(s) + 1] = e /\ \A i \in 1 .. Len(s) : a[i] = s[i]
  OBVIOUS
<1> HIDE DEF a
<1>3. m \in Seq(Nat) /\ Len(m) = Len(s) + 1
  BY <1>2, LensTyped
<1>4. /\ \A i \in 1 .. Len(s) : l[i] = s[i].len
      /\ \A i \in 1 .. Len(s) + 1 : m[i] = a[i].len
  BY <1>2 DEF LensOf
<1> HIDE DEF l, m
<1>5. /\ b \in Seq(Nat) /\ Len(b) = Len(s) + 1
      /\ b[Len(s) + 1] = e.len /\ \A i \in 1 .. Len(s) : b[i] = l[i]
  BY <1>1
<1> HIDE DEF b
<1>6. \A i \in 1 .. Len(s) + 1 : m[i] = b[i]
  BY <1>2, <1>4, <1>5
<1>7. m = b
  BY <1>3, <1>5, <1>6
<1>8. SumSeq(b) = SumSeq(l) + e.len
  BY <1>1, SumSeqAppend DEF b
<1>9. Size(a) = SumSeq(m) /\ Size(s) = SumSeq(l)
  BY <1>2, SizeIsSum DEF m, l
<1> QED BY <1>7, <1>8, <1>9 DEF a

LEMMA SizeTail ==
  ASSUME NEW s \in Seq(Entry), s # <<>>
  PROVE  Tail(s) \in Seq(Entry) /\ Size(Tail(s)) <= Size(s)
<1> DEFINE t == Tail(s)
           l == LensOf(s)
           m == LensOf(t)
           b == Tail(l)
<1>1. l \in Seq(Nat) /\ Len(l) = Len(s)
  BY LensTyped
<1>2. /\ t \in Seq(Entry) /\ Len(t) = Len(s) - 1 /\ Len(s) \in Nat \ {0}
      /\ \A i \in 1 .. Len(s) - 1 : t[i] = s[i + 1] /\ i + 1 \in 1 .. Len(s)
  OBVIOUS
<1> HIDE DEF t
<1>3. m \in Seq(Nat) /\ Len(m) = Len(s) - 1
  BY <1>2, LensTyped
<1>4. /\ \A i \in 1 .. Len(s) : l[i] = s[i].len
      /\ \A i \in 1 .. Len(s) - 1 : m[i] = t[i].len
  BY <1>2 DEF LensOf
<1> HIDE DEF l, m
<1>5. /\ l # <<>> /\ b \in Seq(Nat) /\ Len(b) = Len(s) - 1 /\ Head(l) \in Nat
      /\ \A i \in 1 .. Len(s) - 1 : b[i] = l[i + 1]
  BY <1>1, <1>2
<1> HIDE DEF b
<1>6. \A i \in 1 .. Len(s) - 1 : m[i] = b[i]
  BY <1>2, <1>4, <1>5
<1>7. m = b
  <2>1. Len(m) = Len(b) /\ \A i \in 1 .. Len(m) : m[i] = b[i]
    BY <1>3, <1>5, <1>6
  <2> QED BY <1>3, <1>5, <2>1, SeqEqual
<1>8. SumSeq(l) = Head(l) + SumSeq(b)
  BY <1>1, <1>5, SumSeqTail DEF b
<1>9. SumSeq(b) \in Nat
  BY <1>5, SumSeqType
<1>10. Size(t) = SumSeq(m) /\ Size(s) = SumSeq(l)
  BY <1>2, SizeIsSum DEF m, l
<1>11. Size(t) <= Size(s)
  BY <1>5, <1>7, <1>8, <1>9, <1>10
<1> QED BY <1>2, <1>11 DEF t

LEMMA Limits ==
  /\ workerReadLimit \in Nat /\ sinkBatchMaxBytes \in Nat /\ sinkBatchMaxEntries \in Nat
  /\ entryEnvelope \in Nat /\ batchEnvelope \in Nat
  /\ sinkBatchMaxEntries > 0 /\ entryEnvelope <= batchEnvelope
  /\ sinkBatchMaxBytes + batchEnvelope + sinkBatchMaxEntries <= workerReadLimit
BY SinkAssumption

\* The length of a frame from the number of its records and theirs.
LEMMA FrameOf ==
  ASSUME NEW s \in Seq(Entry), NEW n \in Nat, NEW z \in Nat, Len(s) = n, Size(s) = z
  PROVE  FrameSize(s) = IF n = 1 THEN entryEnvelope + z ELSE batchEnvelope + z + n - 1
BY DEF FrameSize

FrameFits(s) == FrameSize(s) > workerReadLimit => s # <<>> /\ Last(s).len > Room

LEMMA FitsEmpty == FrameFits(<<>>)
<1>1. FrameSize(<<>>) = batchEnvelope - 1
  <2>1. <<>> \in Seq(Entry) /\ Len(<<>>) = 0
    OBVIOUS
  <2>2. FrameSize(<<>>) = IF 0 = 1 THEN entryEnvelope + 0 ELSE batchEnvelope + 0 + 0 - 1
    BY <2>1, FrameOf, SizeEmpty
  <2> QED BY <2>2, Limits
<1> QED BY <1>1, Limits DEF FrameFits

\* A record is added to a batch that has room, or begins one.
LEMMA FitsAppend ==
  ASSUME NEW s \in Seq(Entry), NEW e \in Entry,
         s = <<>> \/ (Len(s) < sinkBatchMaxEntries /\ Size(s) < sinkBatchMaxBytes)
  PROVE  FrameFits(Append(s, e))
<1> DEFINE a == Append(s, e)
<1>1. a \in Seq(Entry) /\ Len(a) = Len(s) + 1 /\ a[Len(s) + 1] = e /\ Len(s) \in Nat
  OBVIOUS
<1>2. Size(a) = Size(s) + e.len /\ Size(s) \in Nat /\ e.len \in Nat
  BY SizeAppend, SizeType, EntryTyped
<1>3. a # <<>> /\ Last(a) = e
  <2>1. Last(a) = e
    BY <1>1 DEF Last
  <2> QED BY <1>1, <2>1
<1> HIDE DEF a
<1>4. CASE s = <<>>
  <2>1. Size(a) = e.len /\ Len(a) = 1
    BY <1>1, <1>2, <1>4, SizeEmpty
  <2>2. FrameSize(a) = entryEnvelope + e.len
    BY <1>1, <1>2, <2>1, FrameOf
  <2>3. FrameSize(a) > workerReadLimit => e.len > Room
    BY <1>2, <2>2, Limits DEF Room
  <2> QED BY <1>3, <2>3 DEF FrameFits, a
<1>5. CASE s # <<>> /\ Len(s) < sinkBatchMaxEntries /\ Size(s) < sinkBatchMaxBytes
  <2>1. Len(s) > 0
    BY <1>5
  <2> DEFINE n == Len(s)
             z == Size(s)
             l == e.len
  <2>2. n + 1 \in Nat /\ z + l \in Nat /\ Len(a) = n + 1 /\ Size(a) = z + l /\ n + 1 # 1
    BY <1>1, <1>2, <2>1
  <2>3. FrameSize(a) = batchEnvelope + (z + l) + (n + 1) - 1
    BY <1>1, <2>2, FrameOf
  <2>4. n \in Nat /\ z \in Nat /\ l \in Nat /\ n < sinkBatchMaxEntries /\ z < sinkBatchMaxBytes
    BY <1>1, <1>2, <1>5
  <2> HIDE DEF n, z, l
  <2>5. FrameSize(a) > workerReadLimit => l > Room
    BY <2>3, <2>4, Limits DEF Room
  <2> QED BY <1>3, <2>5 DEF FrameFits, a, l
<1> QED BY <1>4, <1>5

\* What is left of a failed batch ends with the same record.
LEMMA FitsTail ==
  ASSUME NEW s \in Seq(Entry), s # <<>>, FrameFits(s) PROVE FrameFits(Tail(s))
<1> DEFINE t == Tail(s)
<1>1. /\ t \in Seq(Entry) /\ Len(t) = Len(s) - 1 /\ Len(s) \in Nat \ {0}
      /\ \A i \in 1 .. Len(s) - 1 : t[i] = s[i + 1]
  OBVIOUS
<1>2. Size(t) <= Size(s) /\ Size(s) \in Nat /\ Size(t) \in Nat
  BY <1>1, SizeTail, SizeType
<1> HIDE DEF t
<1>3. CASE t = <<>>
  BY <1>3, FitsEmpty DEF t
<1>4. CASE t # <<>>
  <2>1. Len(s) > 1 /\ Len(s) - 1 \in 1 .. Len(s) - 1
    BY <1>1, <1>4
  <2>2. Last(t) = Last(s)
    <3>1. t[Len(s) - 1] = s[Len(s) - 1 + 1] /\ Len(s) - 1 + 1 = Len(s)
      BY <1>1, <2>1
    <3> QED BY <1>1, <3>1 DEF Last
  <2> DEFINE n == Len(s)
             z == Size(s)
             m == Len(t)
             y == Size(t)
  <2>3. n \in Nat /\ m \in Nat /\ m = n - 1 /\ n > 1 /\ z \in Nat /\ y \in Nat /\ y <= z
    BY <1>1, <1>2, <2>1
  <2>4. /\ FrameSize(s) = IF n = 1 THEN entryEnvelope + z ELSE batchEnvelope + z + n - 1
        /\ FrameSize(t) = IF m = 1 THEN entryEnvelope + y ELSE batchEnvelope + y + m - 1
    BY <1>1, <2>3, FrameOf
  <2> HIDE DEF n, z, m, y
  <2>5. FrameSize(t) > workerReadLimit => FrameSize(s) > workerReadLimit
    BY <2>3, <2>4, Limits
  <2> QED BY <1>4, <2>2, <2>5 DEF FrameFits, t
<1> QED BY <1>3, <1>4

LEMMA FitsBatched == (FramesFit <=> FrameFits(batched)) /\ (FramesFit' <=> FrameFits(batched'))
BY DEF FramesFit, FrameFits

LEMMA InitFits == Init => FramesFit
BY FitsEmpty, FitsBatched DEF Init

LEMMA NextFits == ASSUME Counted, FramesFit, [Next]_vars PROVE FramesFit'
<1>0. batched \in Seq(Entry) /\ ch \in Seq(Entry) /\ FrameFits(batched)
  BY FitsBatched DEF Counted, CountType
<1>1. CASE Take \/ Drain
  <2>1. ch # <<>> /\ Head(ch) \in Entry
    BY <1>0, <1>1 DEF Take, Drain
  <2>2. CASE batched' = batched
    BY <1>0, <2>2, FitsBatched
  <2>3. CASE batched' = Append(<<>>, Head(ch))
    <3>1. <<>> \in Seq(Entry)
      OBVIOUS
    <3>2. FrameFits(Append(<<>>, Head(ch)))
      BY <2>1, <3>1, FitsAppend
    <3> QED BY <2>3, <3>2, FitsBatched
  <2>4. CASE batched' = Append(batched, Head(ch)) /\ BatchHasRoom
    <3>1. FrameFits(Append(batched, Head(ch)))
      BY <1>0, <2>1, <2>4, FitsAppend DEF BatchHasRoom
    <3> QED BY <2>4, <3>1, FitsBatched
  <2>5. <<Head(ch)>> = Append(<<>>, Head(ch))
    OBVIOUS
  <2> QED BY <1>1, <2>2, <2>3, <2>4, <2>5 DEF Take, Drain
<1>2. CASE Requeue
  <2>1. batched # <<>> /\ batched' = Tail(batched)
    BY <1>2 DEF Requeue
  <2>2. FrameFits(Tail(batched))
    BY <1>0, <2>1, FitsTail
  <2> QED BY <2>1, <2>2, FitsBatched
<1>3. CASE WriteSucceeds
  BY <1>3, FitsEmpty, FitsBatched DEF WriteSucceeds
<1>4. CASE batched' = batched
  BY <1>0, <1>4, FitsBatched
<1> QED BY <1>1, <1>2, <1>3, <1>4
  DEF Next, Pump, Capture, Connect, DrainEnds, WriteFails, RequeueEnds, StatsFails, HubReads,
      ConnLost, vars

\* A frame is over the hub's read limit, which ends the connection instead of
\* delivering it, only when its last record is longer than the limit leaves next
\* to a full batch, envelope and commas: the batching by itself never makes one,
\* whatever the lengths of the records, which nothing bounds (sink.go:41-49,
\* 252-312, server.go:193-202).
THEOREM FramesWithinLimit == Spec => []FramesFit
<1>1. Init => Counted /\ FramesFit
  BY InitCounted, InitFits
<1>2. Counted /\ FramesFit /\ [Next]_vars => (Counted /\ FramesFit)'
  BY NextCounted, NextFits
<1> QED BY <1>1, <1>2, PTL DEF Spec

-----------------------------------------------------------------------------
allVars == <<part, vars, pauseVars, registryVars, queueVars, exportVars>>

-----------------------------------------------------------------------------
(* The send queue of a dashboard.                                          *)

\* A broadcaster is inside trySend only while the client is in the map, the
\* reader only before it leaves it, and the channel is closed after that.
QueueSafe ==
  /\ spc \in [Q!Senders -> {"idle", "calling", "reserved", "refused"}]
  /\ handler \in {"joining", "reading", "unlinked", "gone"}
  /\ open \in BOOLEAN /\ registered \in BOOLEAN /\ panic \in BOOLEAN
  /\ ~open => handler = "gone"
  /\ handler \in {"joining", "unlinked", "gone"} => ~registered
  /\ ~registered => \A b \in Broadcasters : spc[b] = "idle"
  /\ handler \in {"unlinked", "gone"} => spc[Handler] = "idle"
  /\ ~panic

LEMMA QueueInit == Q!Init => QueueSafe
BY DEF Q!Init, QueueSafe, Q!Senders

LEMMA QueueNext == ASSUME QueueSafe, Q!Next \/ UNCHANGED queueVars PROVE QueueSafe'
<1> USE DEF QueueSafe
<1>0. /\ Handler \in Q!Senders /\ Broadcasters \subseteq Q!Senders
      /\ \A s \in Q!Senders : s = Handler \/ s \in Broadcasters
      /\ Handler \notin Broadcasters
  BY LinksAssumption DEF Q!Senders, Q!QueueAssumption
<1>1. ASSUME NEW s \in Q!Senders, Q!SendStart(s) PROVE QueueSafe'
  <2>1. spc' = [spc EXCEPT ![s] = "calling"] /\ UNCHANGED <<open, registered, handler, panic>>
    BY <1>1 DEF Q!SendStart
  <2>2. CASE s = Handler
    BY <1>0, <1>1, <2>1, <2>2 DEF Q!SendStart
  <2>3. CASE s # Handler
    <3>1. registered /\ s \in Broadcasters
      BY <1>0, <1>1, <2>3 DEF Q!SendStart
    <3> QED BY <1>0, <2>1, <2>3, <3>1
  <2> QED BY <2>2, <2>3
<1>2. ASSUME NEW s \in Q!Senders, Q!Reserve(s) \/ Q!SlotsFull(s) PROVE QueueSafe'
  BY <1>0, <1>2 DEF Q!Reserve, Q!ReserveIf, Q!SlotsFull
<1>3. ASSUME NEW s \in Q!Senders, Q!Enqueue(s) PROVE QueueSafe'
  <2>1. open
    BY <1>0, <1>3 DEF Q!Enqueue
  <2> QED BY <1>0, <1>3, <2>1 DEF Q!Enqueue, Q!Return
<1>4. ASSUME NEW s \in Q!Senders, Q!Release(s) PROVE QueueSafe'
  BY <1>0, <1>4 DEF Q!Release, Q!Return
<1>5. CASE Q!FrontRegister \/ Q!FrontUnlink \/ Q!FrontClose
  <2>1. CASE Q!FrontRegister
    BY <2>1 DEF Q!FrontRegister
  <2>2. CASE Q!FrontUnlink
    BY <2>2 DEF Q!FrontUnlink, Q!CanLock
  <2>3. CASE Q!FrontClose
    BY <2>3 DEF Q!FrontClose
  <2> QED BY <1>5, <2>1, <2>2, <2>3
<1>6. CASE Q!WriterReceive \/ Q!WriterRelease \/ Q!WriterExit \/ Q!PeerStalls
  BY <1>6 DEF Q!WriterReceive, Q!WriterRelease, Q!WriterExit, Q!PeerStalls
<1>7. CASE UNCHANGED queueVars
  BY <1>7 DEF queueVars
<1> QED BY <1>1, <1>2, <1>3, <1>4, <1>5, <1>6, <1>7 DEF Q!Next, Q!trySend

\* The frames a sender, the channel and the writer hold: all that is counted is
\* positive, and the writer's hand is empty unless it writes.
QueueTyped ==
  /\ spc \in [Q!Senders -> {"idle", "calling", "reserved", "refused"}]
  /\ send \in Seq(FrameSizes)
  /\ frame \in [Q!Senders -> FrameSizes \cup {0}]
  /\ hand \in FrameSizes \cup {0}
  /\ \A s \in Q!Senders : spc[s] # "idle" => frame[s] \in FrameSizes
  /\ writer # "writing" => hand = 0
  /\ handler = "joining" => writer = "off"

\* Calls past the test on the bytes, with a frame for the channel.
Admitted == {s \in Q!Senders : spc[s] = "reserved"}

\* What is in the channel or admitted to it fits, or is a single frame.
AdmittedFits ==
  \/ SumSeq(send) + SumOver(frame, Admitted) <= frontQueueBytes
  \/ send = <<>> /\ \E s \in Q!Senders : Admitted = {s}
  \/ Len(send) = 1 /\ Admitted = {}

QueueCounted ==
  /\ QueueTyped /\ AdmittedFits
  /\ queuedBytes = SumSeq(send) + hand + SumOver(frame, Q!Reserved)

LEMMA SizesAre == \A s : Q!SumSizes(s) = SumSeq(s)
BY DEF Q!SumSizes, SumSeq, SumOver, Q!FoldSeq, Q!FoldFunction, Q!FoldFunctionOnSet,
       Q!MapThenFoldSet, MapThenSumSet, MapThenFoldSet

LEMMA QueueConstants ==
  /\ IsFiniteSet(Q!Senders) /\ FrameSizes \subseteq Nat \ {0} /\ frontQueueBytes \in Nat
<1>1. IsFiniteSet(Broadcasters) /\ FrameSizes \subseteq Nat \ {0} /\ frontQueueBytes \in Nat
  BY LinksAssumption DEF Q!QueueAssumption, Q!IsFiniteSet, IsFiniteSet
<1>3. IsFiniteSet(Broadcasters \cup {Handler})
  BY <1>1, FS_AddElement
<1> QED BY <1>1, <1>3 DEF Q!Senders

LEMMA CounterDef ==
  Q!CounterExact <=> queuedBytes = SumSeq(send) + hand + SumOver(frame, Q!Reserved)
BY SizesAre DEF Q!CounterExact, SumOver, Q!MapThenSumSet, Q!MapThenFoldSet, MapThenSumSet,
                MapThenFoldSet

LEMMA QueueCountedInit == Q!Init => QueueCounted
<1> SUFFICES ASSUME Q!Init PROVE QueueCounted
  OBVIOUS
<1>1. QueueTyped
  BY DEF Q!Init, QueueTyped
<1>2. Admitted = {} /\ Q!Reserved = {} /\ send = <<>> /\ hand = 0 /\ queuedBytes = 0
  BY DEF Q!Init, Admitted, Q!Reserved
<1>3. SumSeq(send) = 0 /\ SumOver(frame, Admitted) = 0 /\ SumOver(frame, Q!Reserved) = 0
  BY <1>2, SumSeqEmpty, SumOverEmpty
<1> QED BY <1>1, <1>2, <1>3, QueueConstants DEF QueueCounted, AdmittedFits

LEMMA SizesTyped ==
  ASSUME QueueTyped
  PROVE  (\A s \in Q!Senders : frame[s] \in Nat) /\ send \in Seq(Nat) /\ hand \in Nat
<1>1. FrameSizes \cup {0} \subseteq Nat /\ FrameSizes \subseteq Nat
  BY QueueConstants
<1>2. \A s \in Q!Senders : frame[s] \in FrameSizes \cup {0}
  BY DEF QueueTyped
<1>3. hand \in FrameSizes \cup {0} /\ send \in Seq(FrameSizes)
  BY DEF QueueTyped
<1>4. send \in Seq(Nat)
  BY <1>1, <1>3, SeqMonotonic
<1> QED BY <1>1, <1>2, <1>3, <1>4

\* Sums of the frames of some senders.
LEMMA FramesSum ==
  ASSUME QueueTyped, NEW A \in SUBSET Q!Senders
  PROVE  /\ SumOver(frame, A) \in Nat
         /\ \A s \in A : /\ frame[s] \in Nat
                         /\ SumOver(frame, A) = frame[s] + SumOver(frame, A \ {s})
                         /\ SumOver(frame, A \ {s}) \in Nat
         /\ \A s \in Q!Senders \ A : /\ frame[s] \in Nat
                                     /\ SumOver(frame, A \cup {s}) = frame[s] + SumOver(frame, A)
<1>1. \A s \in Q!Senders : frame[s] \in Nat
  BY SizesTyped
<1>2. \A B \in SUBSET Q!Senders : IsFiniteSet(B) /\ SumOver(frame, B) \in Nat
  BY <1>1, QueueConstants, FS_Subset, SumOverType
<1>3. ASSUME NEW s \in A PROVE SumOver(frame, A) = frame[s] + SumOver(frame, A \ {s})
  BY <1>1, <1>2, SumOverSplit
<1>4. ASSUME NEW s \in Q!Senders \ A
      PROVE  SumOver(frame, A \cup {s}) = frame[s] + SumOver(frame, A)
  <2> DEFINE B == A \cup {s}
  <2>1. B \in SUBSET Q!Senders /\ s \in B /\ B \ {s} = A
    OBVIOUS
  <2> HIDE DEF B
  <2>2. SumOver(frame, B) = frame[s] + SumOver(frame, B \ {s})
    BY <1>1, <1>2, <2>1, SumOverSplit
  <2> QED BY <2>1, <2>2 DEF B
<1> QED BY <1>1, <1>2, <1>3, <1>4

LEMMA FramesKept ==
  ASSUME QueueTyped, NEW A \in SUBSET Q!Senders, NEW f, \A s \in A : f[s] = frame[s]
  PROVE  SumOver(f, A) = SumOver(frame, A)
<1>1. \A s \in A : frame[s] \in Nat
  BY SizesTyped
<1>2. IsFiniteSet(A)
  BY QueueConstants, FS_Subset
<1> QED BY <1>1, <1>2, SumOverSame

\* The channel as a sequence of naturals; a positive sum comes from a frame.
LEMMA SendSum ==
  ASSUME QueueTyped
  PROVE  /\ send \in Seq(Nat) /\ SumSeq(send) \in Nat /\ hand \in Nat
         /\ send = <<>> => SumSeq(send) = 0
         /\ send # <<>> => SumSeq(send) > 0
<1>1. send \in Seq(Nat) /\ hand \in Nat
  BY SizesTyped
<1>2. SumSeq(send) \in Nat
  BY <1>1, SumSeqType
<1>3. ASSUME send # <<>> PROVE SumSeq(send) > 0
  <2>1. Head(send) \in FrameSizes /\ Tail(send) \in Seq(Nat)
    BY <1>1, <1>3 DEF QueueTyped
  <2>2. Head(send) \in Nat \ {0} /\ SumSeq(Tail(send)) \in Nat
    BY <2>1, QueueConstants, SumSeqType
  <2>3. SumSeq(send) = Head(send) + SumSeq(Tail(send))
    BY <1>1, <1>3, SumSeqTail
  <2> QED BY <2>2, <2>3
<1> QED BY <1>1, <1>2, <1>3, SumSeqEmpty

LEMMA QueueTypedNext == ASSUME QueueTyped, Q!Next \/ UNCHANGED queueVars PROVE QueueTyped'
<1> USE DEF QueueTyped
<1>1. ASSUME NEW s \in Q!Senders, Q!SendStart(s) PROVE QueueTyped'
  BY <1>1 DEF Q!SendStart
<1>2. ASSUME NEW s \in Q!Senders, Q!Reserve(s) \/ Q!SlotsFull(s) PROVE QueueTyped'
  BY <1>2 DEF Q!Reserve, Q!ReserveIf, Q!SlotsFull
<1>3. ASSUME NEW s \in Q!Senders, Q!Enqueue(s) PROVE QueueTyped'
  <2>1. frame[s] \in FrameSizes
    BY <1>3 DEF Q!Enqueue
  <2>2. send' \in Seq(FrameSizes)
    BY <1>3, <2>1 DEF Q!Enqueue
  <2> QED BY <1>3, <2>2 DEF Q!Enqueue, Q!Return
<1>4. ASSUME NEW s \in Q!Senders, Q!Release(s) PROVE QueueTyped'
  BY <1>4 DEF Q!Release, Q!Return
<1>5. CASE Q!FrontRegister \/ Q!FrontUnlink \/ Q!FrontClose
  <2>1. CASE Q!FrontRegister
    BY <2>1 DEF Q!FrontRegister
  <2>2. CASE Q!FrontUnlink
    BY <2>2 DEF Q!FrontUnlink
  <2>3. CASE Q!FrontClose
    BY <2>3 DEF Q!FrontClose
  <2> QED BY <1>5, <2>1, <2>2, <2>3
<1>6. CASE Q!WriterReceive \/ Q!WriterRelease \/ Q!WriterExit \/ Q!PeerStalls
  <2>1. CASE Q!WriterReceive
    <3>1. Head(send) \in FrameSizes /\ Tail(send) \in Seq(FrameSizes)
      BY <2>1 DEF Q!WriterReceive
    <3> QED BY <2>1, <3>1 DEF Q!WriterReceive
  <2>2. CASE Q!WriterRelease
    BY <2>2 DEF Q!WriterRelease
  <2>3. CASE Q!WriterExit \/ Q!PeerStalls
    BY <2>3 DEF Q!WriterExit, Q!PeerStalls
  <2> QED BY <1>6, <2>1, <2>2, <2>3
<1>7. CASE UNCHANGED queueVars
  BY <1>7 DEF queueVars
<1> QED BY <1>1, <1>2, <1>3, <1>4, <1>5, <1>6, <1>7 DEF Q!Next, Q!trySend

\* The admitted frames are part of the reserved ones, and none is empty.
LEMMA AdmittedSum ==
  ASSUME QueueTyped
  PROVE  /\ SumOver(frame, Admitted) <= SumOver(frame, Q!Reserved)
         /\ SumOver(frame, Q!Reserved) = 0 => Q!Reserved = {} /\ Admitted = {}
<1>0. Q!Reserved \in SUBSET Q!Senders /\ Admitted \in SUBSET Q!Reserved
  BY DEF Q!Reserved, Admitted
<1>1. IsFiniteSet(Q!Reserved) /\ \A s \in Q!Reserved : frame[s] \in Nat
  BY <1>0, QueueConstants, FS_Subset, SizesTyped
<1>2. SumOver(frame, Admitted) <= SumOver(frame, Q!Reserved)
  BY <1>0, <1>1, SumOverMono
<1>3. ASSUME NEW s \in Q!Reserved PROVE SumOver(frame, Q!Reserved) # 0
  <2>1. frame[s] \in Nat \ {0}
    BY <1>0, QueueConstants DEF QueueTyped, Q!Reserved
  <2>2. SumOver(frame, Q!Reserved) = frame[s] + SumOver(frame, Q!Reserved \ {s})
        /\ SumOver(frame, Q!Reserved \ {s}) \in Nat
    BY <1>0, FramesSum
  <2> QED BY <2>1, <2>2
<1> QED BY <1>0, <1>2, <1>3

LEMMA ReserveCounts ==
  ASSUME QueueCounted, NEW s \in Q!Senders, Q!Reserve(s) PROVE QueueCounted'
<1> USE DEF QueueCounted
<1>0. Q!Reserved \in SUBSET Q!Senders /\ Admitted \in SUBSET Q!Senders
      /\ Admitted \in SUBSET Q!Reserved
  BY DEF Q!Reserved, Admitted
<1> DEFINE over == Q!TooMany(frame[s]) /\ queuedBytes + frame[s] # frame[s]
<1>1. /\ spc[s] = "calling" /\ queuedBytes' = queuedBytes + frame[s]
      /\ spc' = [spc EXCEPT ![s] = IF over THEN "refused" ELSE "reserved"]
      /\ UNCHANGED <<send, frame, hand, writer>>
  BY DEF Q!Reserve, Q!ReserveIf
<1>2. s \notin Q!Reserved /\ s \notin Admitted
  BY <1>1 DEF Q!Reserved, Admitted
<1>3. Q!Reserved' = Q!Reserved \cup {s}
  BY <1>1 DEF Q!Reserved, QueueTyped
<1>4. Admitted' = IF over THEN Admitted ELSE Admitted \cup {s}
  BY <1>1 DEF Admitted, QueueTyped
<1>5. SumOver(frame, Q!Reserved \cup {s}) = frame[s] + SumOver(frame, Q!Reserved)
      /\ SumOver(frame, Q!Reserved) \in Nat /\ frame[s] \in Nat
  BY <1>0, <1>2, FramesSum
<1>6. SumOver(frame, Admitted \cup {s}) = frame[s] + SumOver(frame, Admitted)
      /\ SumOver(frame, Admitted) \in Nat
  BY <1>0, <1>2, FramesSum
<1>a. SumSeq(send) \in Nat /\ hand \in Nat
  BY SendSum
<1>b. queuedBytes = SumSeq(send) + hand + SumOver(frame, Q!Reserved)
  OBVIOUS
<1>7. queuedBytes' = SumSeq(send') + hand' + SumOver(frame', Q!Reserved')
  <2>1. queuedBytes + frame[s] = SumSeq(send) + hand + SumOver(frame, Q!Reserved \cup {s})
    BY ONLY <1>5, <1>a, <1>b
  <2> QED BY <1>1, <1>3, <2>1
<1>8. AdmittedFits'
  <2>1. CASE over
    BY <1>1, <1>4, <2>1 DEF AdmittedFits
  <2>2. CASE ~over
    <3>1. Admitted' = Admitted \cup {s}
      BY <1>4, <2>2
    <3>2. CASE queuedBytes + frame[s] <= frontQueueBytes
      <4>1. SumOver(frame, Admitted) <= SumOver(frame, Q!Reserved)
        BY <1>0, AdmittedSum
      <4>2. SumSeq(send) + SumOver(frame, Admitted \cup {s}) <= frontQueueBytes
        <5>1. frontQueueBytes \in Nat
          BY QueueConstants
        <5> QED BY ONLY <1>5, <1>6, <1>a, <1>b, <3>2, <4>1, <5>1
      <4> QED BY <1>1, <3>1, <4>2 DEF AdmittedFits
    <3>3. CASE queuedBytes = 0
      <4>1. SumSeq(send) = 0 /\ SumOver(frame, Q!Reserved) = 0
        BY ONLY <1>5, <1>a, <1>b, <3>3
      <4>2. send = <<>>
        BY <4>1, SendSum
      <4>3. Admitted = {}
        BY <4>1, AdmittedSum
      <4> QED BY <1>1, <3>1, <4>2, <4>3 DEF AdmittedFits
    <3>4. queuedBytes \in Nat
      BY <1>5, SendSum
    <3> QED BY <1>5, <2>2, <3>2, <3>3, <3>4, QueueConstants DEF Q!TooMany
  <2> QED BY <2>1, <2>2
<1>9. QueueTyped'
  BY QueueTypedNext DEF Q!Next, Q!trySend
<1> QED BY <1>7, <1>8, <1>9

\* Steps that leave the frames counted as they were.
LEMMA SameCounts ==
  ASSUME QueueCounted, QueueTyped', UNCHANGED <<send, hand, queuedBytes>>,
         Q!Reserved' = Q!Reserved, Admitted' \in SUBSET Admitted,
         \A s \in Q!Reserved : frame'[s] = frame[s]
  PROVE  QueueCounted'
<1> USE DEF QueueCounted
<1>0. Q!Reserved \in SUBSET Q!Senders /\ Admitted \in SUBSET Q!Reserved
      /\ Admitted \in SUBSET Q!Senders /\ Admitted' \in SUBSET Q!Senders
  BY DEF Q!Reserved, Admitted
<1>1. SumOver(frame', Q!Reserved) = SumOver(frame, Q!Reserved)
  BY <1>0, FramesKept
<1>2. SumOver(frame', Admitted') = SumOver(frame, Admitted')
  BY <1>0, FramesKept
<1>3. SumOver(frame, Admitted') <= SumOver(frame, Admitted)
      /\ SumOver(frame, Admitted') \in Nat /\ SumOver(frame, Admitted) \in Nat
  <2>1. IsFiniteSet(Admitted) /\ \A s \in Admitted : frame[s] \in Nat
    BY <1>0, QueueConstants, FS_Subset, SizesTyped
  <2> QED BY <1>0, <2>1, SumOverMono, FramesSum
<1>4. AdmittedFits'
  <2>1. CASE SumSeq(send) + SumOver(frame, Admitted) <= frontQueueBytes
    <3>1. SumSeq(send) + SumOver(frame, Admitted') <= frontQueueBytes
      BY <1>3, <2>1, SendSum, QueueConstants
    <3> QED BY <1>2, <3>1 DEF AdmittedFits
  <2>2. CASE send = <<>> /\ \E s \in Q!Senders : Admitted = {s}
    <3>1. CASE Admitted' = Admitted
      BY <2>2, <3>1 DEF AdmittedFits
    <3>2. CASE Admitted' # Admitted
      <4>1. Admitted' = {}
        BY <2>2, <3>2
      <4>2. SumSeq(send) + SumOver(frame, Admitted') <= frontQueueBytes
        BY <2>2, <4>1, SendSum, SumOverEmpty, QueueConstants
      <4> QED BY <1>2, <4>2 DEF AdmittedFits
    <3> QED BY <3>1, <3>2
  <2>3. CASE Len(send) = 1 /\ Admitted = {}
    BY <2>3 DEF AdmittedFits
  <2> QED BY <2>1, <2>2, <2>3 DEF AdmittedFits
<1> QED BY <1>1, <1>4

\* A frame moves from a sender to the channel.
LEMMA EnqueueCounts ==
  ASSUME QueueCounted, QueueSafe, NEW s \in Q!Senders, Q!Enqueue(s) PROVE QueueCounted'
<1> USE DEF QueueCounted
<1>0. Q!Reserved \in SUBSET Q!Senders /\ Admitted \in SUBSET Q!Senders
  BY DEF Q!Reserved, Admitted
<1>1. spc[s] = "reserved" /\ open
  <2>1. Handler \notin Broadcasters /\ (s = Handler \/ s \in Broadcasters)
    BY LinksAssumption DEF Q!QueueAssumption, Q!Senders
  <2> QED BY <2>1 DEF Q!Enqueue, QueueSafe
<1>2. /\ send' = Append(send, frame[s]) /\ UNCHANGED <<queuedBytes, hand>>
      /\ spc' = [spc EXCEPT ![s] = "idle"] /\ frame' = [frame EXCEPT ![s] = 0]
  BY <1>1 DEF Q!Enqueue, Q!Return
<1>3. s \in Q!Reserved /\ s \in Admitted
  BY <1>1 DEF Q!Reserved, Admitted
<1>4. Q!Reserved' = Q!Reserved \ {s} /\ Admitted' = Admitted \ {s}
  BY <1>2 DEF Q!Reserved, Admitted, QueueTyped
<1>5. /\ SumOver(frame, Q!Reserved) = frame[s] + SumOver(frame, Q!Reserved \ {s})
      /\ SumOver(frame, Q!Reserved \ {s}) \in Nat /\ frame[s] \in Nat
      /\ SumOver(frame, Admitted) = frame[s] + SumOver(frame, Admitted \ {s})
      /\ SumOver(frame, Admitted \ {s}) \in Nat
  BY <1>0, <1>3, FramesSum
<1>6. SumOver(frame', Q!Reserved') = SumOver(frame, Q!Reserved \ {s})
      /\ SumOver(frame', Admitted') = SumOver(frame, Admitted \ {s})
  <2>1. \A r \in Q!Senders \ {s} : frame'[r] = frame[r]
    BY <1>2 DEF QueueTyped
  <2>2. Q!Reserved \ {s} \in SUBSET Q!Senders /\ Admitted \ {s} \in SUBSET Q!Senders
        /\ (\A r \in Q!Reserved \ {s} : frame'[r] = frame[r])
        /\ (\A r \in Admitted \ {s} : frame'[r] = frame[r])
    BY <1>0, <2>1
  <2> QED BY <1>4, <2>2, FramesKept
<1>7. SumSeq(send') = SumSeq(send) + frame[s] /\ SumSeq(send) \in Nat /\ hand \in Nat
  BY <1>2, <1>5, SendSum, SumSeqAppend
<1>8. queuedBytes' = SumSeq(send') + hand' + SumOver(frame', Q!Reserved')
  BY <1>2, <1>5, <1>6, <1>7
<1>9. AdmittedFits'
  <2>1. CASE SumSeq(send) + SumOver(frame, Admitted) <= frontQueueBytes
    BY <1>5, <1>6, <1>7, <2>1, QueueConstants DEF AdmittedFits
  <2>2. CASE send = <<>> /\ \E r \in Q!Senders : Admitted = {r}
    <3>1. Admitted' = {}
      BY <1>3, <1>4, <2>2
    <3>2. Len(send') = 1
      BY <1>2, <2>2
    <3> QED BY <3>1, <3>2 DEF AdmittedFits
  <2> QED BY <1>3, <2>1, <2>2 DEF AdmittedFits
<1>10. QueueTyped'
  BY QueueTypedNext DEF Q!Next, Q!trySend
<1> QED BY <1>8, <1>9, <1>10

\* A refused call gives its bytes back.
LEMMA ReleaseCounts ==
  ASSUME QueueCounted, NEW s \in Q!Senders, Q!Release(s) PROVE QueueCounted'
<1> USE DEF QueueCounted
<1>0. Q!Reserved \in SUBSET Q!Senders /\ Admitted \in SUBSET Q!Senders
  BY DEF Q!Reserved, Admitted
<1>2. /\ spc[s] = "refused" /\ queuedBytes' = queuedBytes - frame[s] /\ UNCHANGED <<send, hand>>
      /\ spc' = [spc EXCEPT ![s] = "idle"] /\ frame' = [frame EXCEPT ![s] = 0]
  BY DEF Q!Release, Q!Return
<1>3. s \in Q!Reserved /\ s \notin Admitted
  BY <1>2 DEF Q!Reserved, Admitted
<1>4. Q!Reserved' = Q!Reserved \ {s} /\ Admitted' = Admitted
  BY <1>2 DEF Q!Reserved, Admitted, QueueTyped
<1>5. /\ SumOver(frame, Q!Reserved) = frame[s] + SumOver(frame, Q!Reserved \ {s})
      /\ SumOver(frame, Q!Reserved \ {s}) \in Nat /\ frame[s] \in Nat
  BY <1>0, <1>3, FramesSum
<1>6. SumOver(frame', Q!Reserved') = SumOver(frame, Q!Reserved \ {s})
      /\ SumOver(frame', Admitted') = SumOver(frame, Admitted)
  <2>1. \A r \in Q!Senders \ {s} : frame'[r] = frame[r]
    BY <1>2 DEF QueueTyped
  <2>2. Q!Reserved \ {s} \in SUBSET Q!Senders
        /\ (\A r \in Q!Reserved \ {s} : frame'[r] = frame[r])
        /\ (\A r \in Admitted : frame'[r] = frame[r])
    BY <1>0, <1>3, <2>1
  <2> QED BY <1>0, <1>4, <2>2, FramesKept
<1>7. SumSeq(send) \in Nat /\ hand \in Nat
  BY SendSum
<1>8. queuedBytes' = SumSeq(send') + hand' + SumOver(frame', Q!Reserved')
  BY <1>2, <1>5, <1>6, <1>7
<1>9. AdmittedFits'
  BY <1>2, <1>4, <1>6 DEF AdmittedFits
<1>10. QueueTyped'
  BY QueueTypedNext DEF Q!Next, Q!trySend
<1> QED BY <1>8, <1>9, <1>10

\* A frame moves from the channel to the writer.
LEMMA ReceiveCounts == ASSUME QueueCounted, Q!WriterReceive PROVE QueueCounted'
<1> USE DEF QueueCounted
<1>1. /\ writer # "writing" /\ send # <<>> /\ hand' = Head(send) /\ send' = Tail(send)
      /\ UNCHANGED <<queuedBytes, spc, frame>>
  BY DEF Q!WriterReceive
<1>2. hand = 0 /\ send \in Seq(Nat)
  BY <1>1, SizesTyped DEF QueueTyped
<1>3. SumSeq(send) = hand' + SumSeq(send')
  BY <1>1, <1>2, SumSeqTail
<1>4. Head(send) \in Nat /\ Tail(send) \in Seq(Nat)
  BY <1>1, <1>2
<1>5. hand' \in Nat /\ SumSeq(send') \in Nat
  BY <1>1, <1>4, SumSeqType
<1>6. Q!Reserved' = Q!Reserved /\ Admitted' = Admitted
  BY <1>1 DEF Q!Reserved, Admitted
<1>7. SumOver(frame, Q!Reserved) \in Nat /\ SumOver(frame, Admitted) \in Nat
  <2>1. Q!Reserved \in SUBSET Q!Senders /\ Admitted \in SUBSET Q!Senders
    BY DEF Q!Reserved, Admitted
  <2> QED BY <2>1, FramesSum
<1>8. queuedBytes' = SumSeq(send') + hand' + SumOver(frame', Q!Reserved')
  BY <1>1, <1>2, <1>3, <1>5, <1>6, <1>7
<1>9. AdmittedFits'
  <2>1. CASE SumSeq(send) + SumOver(frame, Admitted) <= frontQueueBytes
    <3>1. SumSeq(send') + SumOver(frame, Admitted) <= frontQueueBytes
      BY <1>3, <1>5, <1>7, <2>1, QueueConstants
    <3> QED BY <1>1, <1>6, <3>1 DEF AdmittedFits
  <2>2. CASE Len(send) = 1 /\ Admitted = {}
    <3>1. send' = <<>>
      BY <1>1, <1>2, <2>2
    <3>2. SumSeq(<<>>) + SumOver(frame', {}) <= frontQueueBytes
      BY SumSeqEmpty, SumOverEmpty, QueueConstants
    <3>3. Admitted' = {}
      BY <1>6, <2>2
    <3>4. (SumSeq(send) + SumOver(frame, Admitted) <= frontQueueBytes)'
      BY <3>1, <3>2, <3>3
    <3> QED BY <3>4 DEF AdmittedFits
  <2> QED BY <1>1, <2>1, <2>2 DEF AdmittedFits
<1>10. QueueTyped'
  BY QueueTypedNext DEF Q!Next
<1> QED BY <1>8, <1>9, <1>10

LEMMA QueueCountedNext ==
  ASSUME QueueCounted, QueueSafe, Q!Next \/ UNCHANGED queueVars PROVE QueueCounted'
<1>0. QueueTyped'
  BY QueueTypedNext DEF QueueCounted
<1>1. ASSUME NEW s \in Q!Senders, Q!SendStart(s) PROVE QueueCounted'
  <2>1. spc[s] = "idle" /\ spc' = [spc EXCEPT ![s] = "calling"] /\ UNCHANGED <<send, hand, queuedBytes>>
        /\ \A r \in Q!Senders \ {s} : frame'[r] = frame[r]
    BY <1>1 DEF Q!SendStart, QueueCounted, QueueTyped
  <2>2. Q!Reserved' = Q!Reserved /\ Admitted' = Admitted
    BY <2>1 DEF Q!Reserved, Admitted, QueueCounted, QueueTyped
  <2>3. \A r \in Q!Reserved : frame'[r] = frame[r]
    BY <2>1 DEF Q!Reserved
  <2> QED BY <1>0, <2>1, <2>2, <2>3, SameCounts
<1>2. ASSUME NEW s \in Q!Senders, Q!SlotsFull(s) PROVE QueueCounted'
  <2>1. spc[s] = "reserved" /\ spc' = [spc EXCEPT ![s] = "refused"]
        /\ UNCHANGED <<send, hand, queuedBytes, frame>>
    BY <1>2 DEF Q!SlotsFull
  <2>2. Q!Reserved' = Q!Reserved /\ Admitted' \in SUBSET Admitted
    BY <2>1 DEF Q!Reserved, Admitted, QueueCounted, QueueTyped
  <2> QED BY <1>0, <2>1, <2>2, SameCounts
<1>3. CASE UNCHANGED <<send, hand, queuedBytes, spc, frame>>
  <2>1. Q!Reserved' = Q!Reserved /\ Admitted' \in SUBSET Admitted
    BY <1>3 DEF Q!Reserved, Admitted
  <2> QED BY <1>0, <1>3, <2>1, SameCounts
<1>4. CASE Q!WriterRelease
  <2>1. UNCHANGED <<send, spc, frame>> /\ hand' = 0 /\ queuedBytes' = queuedBytes - hand
    BY <1>4 DEF Q!WriterRelease
  <2>2. Q!Reserved' = Q!Reserved /\ Admitted' = Admitted
    BY <2>1 DEF Q!Reserved, Admitted
  <2>3. SumSeq(send) \in Nat /\ hand \in Nat /\ SumOver(frame, Q!Reserved) \in Nat
    <3>1. Q!Reserved \in SUBSET Q!Senders
      BY DEF Q!Reserved
    <3> QED BY <3>1, FramesSum, SendSum DEF QueueCounted
  <2>4. queuedBytes' = SumSeq(send') + hand' + SumOver(frame', Q!Reserved')
    BY <2>1, <2>2, <2>3 DEF QueueCounted
  <2> QED BY <1>0, <2>1, <2>2, <2>4 DEF QueueCounted, AdmittedFits
<1>5. CASE Q!FrontRegister \/ Q!FrontUnlink \/ Q!FrontClose
  BY <1>3, <1>5 DEF Q!FrontRegister, Q!FrontUnlink, Q!FrontClose
<1>6. CASE Q!WriterExit \/ Q!PeerStalls \/ UNCHANGED queueVars
  BY <1>3, <1>6 DEF Q!WriterExit, Q!PeerStalls, queueVars
<1> QED BY <1>1, <1>2, <1>4, <1>5, <1>6, ReserveCounts, EnqueueCounts, ReleaseCounts,
           ReceiveCounts DEF Q!Next, Q!trySend

\* What the channel holds fits in the budget, or is a single frame.
LEMMA QueueCountedBounds == QueueCounted => Q!CounterExact /\ Q!QueueBounded
<1> SUFFICES ASSUME QueueCounted PROVE Q!CounterExact /\ Q!QueueBounded
  OBVIOUS
<1>1. Q!CounterExact
  BY CounterDef DEF QueueCounted
<1>2. SumSeq(send) \in Nat /\ SumOver(frame, Admitted) \in Nat
  <2>1. Admitted \in SUBSET Q!Senders
    BY DEF Admitted
  <2> QED BY <2>1, FramesSum, SendSum DEF QueueCounted
<1>3. send = <<>> => SumSeq(send) <= frontQueueBytes
  BY SendSum, QueueConstants DEF QueueCounted
<1>4. SumSeq(send) <= frontQueueBytes \/ Len(send) = 1
  BY <1>2, <1>3, QueueConstants DEF QueueCounted, AdmittedFits
<1> QED BY <1>1, <1>4, SizesAre DEF Q!QueueBounded

\* A call is refused for its bytes only when others are counted already.
LEMMA RefusedBehind ==
  ASSUME QueueCounted, Q!Next \/ UNCHANGED queueVars, NEW s \in Q!Senders,
         spc[s] = "calling", spc'[s] = "refused"
  PROVE  send # <<>> \/ hand # 0 \/ Q!Reserved # {}
<1>1. Q!Reserve(s)
  <2>1. ASSUME NEW r \in Q!Senders, Q!trySend(r) PROVE Q!Reserve(s)
    <3>1. r = s
      BY <2>1 DEF Q!trySend, Q!SendStart, Q!Reserve, Q!ReserveIf, Q!Enqueue, Q!SlotsFull,
                  Q!Release, Q!Return, QueueCounted, QueueTyped
    <3> QED BY <2>1, <3>1 DEF Q!trySend, Q!SendStart, Q!Enqueue, Q!SlotsFull, Q!Release
  <2>2. ~UNCHANGED spc
    OBVIOUS
  <2> QED BY <2>1, <2>2 DEF Q!Next, Q!FrontRegister, Q!FrontUnlink, Q!FrontClose,
              Q!WriterReceive, Q!WriterRelease, Q!WriterExit, Q!PeerStalls, queueVars
<1>2. queuedBytes + frame[s] # frame[s]
  BY <1>1 DEF Q!Reserve, Q!ReserveIf, QueueCounted, QueueTyped
<1>3. frame[s] \in Nat
  BY SizesTyped DEF QueueCounted
<1>4. ASSUME send = <<>>, hand = 0, Q!Reserved = {} PROVE queuedBytes = 0
  BY <1>4, SumSeqEmpty, SumOverEmpty DEF QueueCounted
<1> QED BY <1>2, <1>3, <1>4

-----------------------------------------------------------------------------
(* The command channels of the workers.                                    *)

Registered == {"serving", "stats", "gone", "unconnect", "unregister"}

\* A registered channel belongs to a handler between its hello and the end of
\* its teardown, and the handler whose hello was last keeps its registration
\* for as long.
ChannelsSafe ==
  /\ hpc \in [WorkerConns -> R!Stages]
  /\ workerConns \in [Nodes -> WorkerConns \cup {None}]
  /\ latest \in [Nodes -> WorkerConns \cup {None}]
  /\ commandPanic = FALSE
  /\ \A n \in Nodes : workerConns[n] # None =>
       hpc[workerConns[n]] \in Registered /\ NodeOfConn[workerConns[n]] = n
  /\ \A n \in Nodes : latest[n] # None =>
       /\ NodeOfConn[latest[n]] = n
       /\ hpc[latest[n]] \in Registered => workerConns[n] = latest[n]

LEMMA RegistryConstants ==
  /\ NodeOfConn \in [WorkerConns -> Nodes]
  /\ None \notin WorkerConns /\ None \notin Nat /\ MaxRows \in Nat
BY LinksAssumption DEF R!RegistryAssumption

LEMMA ChannelsInit == R!Init => ChannelsSafe
BY DEF R!Init, ChannelsSafe, R!Stages

\* A handler moves on before its registration or after it, or within it.
LEMMA ChannelsGoto ==
  ASSUME ChannelsSafe, NEW k \in WorkerConns, NEW stage \in R!Stages, R!Goto(k, stage),
         UNCHANGED <<workerConns, latest, commandPanic>>,
         hpc[k] \in Registered <=> stage \in Registered
  PROVE  ChannelsSafe'
<1>1. hpc' = [hpc EXCEPT ![k] = stage]
  BY DEF R!Goto
<1>2. hpc' \in [WorkerConns -> R!Stages]
      /\ \A j \in WorkerConns : hpc'[j] \in Registered <=> hpc[j] \in Registered
  BY <1>1 DEF ChannelsSafe
<1> QED BY <1>2, RegistryConstants DEF ChannelsSafe

LEMMA ChannelsNext == ASSUME ChannelsSafe, R!Next \/ UNCHANGED registryVars PROVE ChannelsSafe'
<1> USE DEF Registered, R!Stages
<1>1. ASSUME NEW k \in WorkerConns,
             \/ R!Accept(k) \/ R!HelloHold(k) \/ R!HelloRow(k) \/ R!HelloUpdate(k)
             \/ R!StatsRow(k) \/ R!StatsUpdate(k) \/ R!Disconnect(k) \/ R!TeardownRow(k)
             \/ R!TeardownUpdate(k) \/ R!TeardownClose(k)
      PROVE  ChannelsSafe'
  <2>1. \E stage \in R!Stages : /\ R!Goto(k, stage)
                                /\ hpc[k] \in Registered <=> stage \in Registered
    BY <1>1 DEF R!Accept, R!HelloHold, R!HelloRow, R!HelloUpdate, R!StatsRow, R!StatsUpdate,
                R!Disconnect, R!TeardownRow, R!TeardownUpdate, R!TeardownClose
  <2>2. UNCHANGED <<workerConns, latest, commandPanic>>
    BY <1>1 DEF R!Accept, R!HelloHold, R!HelloRow, R!HelloUpdate, R!StatsRow, R!StatsUpdate,
                R!Disconnect, R!TeardownRow, R!TeardownUpdate, R!TeardownClose, R!channels
  <2> QED BY <2>1, <2>2, ChannelsGoto
<1>2. ASSUME NEW k \in WorkerConns, R!HelloRegister(k) PROVE ChannelsSafe'
  <2> DEFINE N == NodeOfConn[k]
  <2>1. /\ hpc[k] = "register" /\ hpc' = [hpc EXCEPT ![k] = "serving"]
        /\ workerConns' = [workerConns EXCEPT ![N] = k] /\ latest' = [latest EXCEPT ![N] = k]
        /\ commandPanic' = commandPanic
    BY <1>2 DEF R!HelloRegister, R!Goto
  <2>2. N \in Nodes /\ k # None
    BY RegistryConstants
  <2>3. ASSUME NEW n \in Nodes, n # N
        PROVE  /\ workerConns'[n] = workerConns[n] /\ latest'[n] = latest[n]
               /\ workerConns[n] # k /\ latest[n] # k
    BY <2>1, <2>2, <2>3 DEF ChannelsSafe
  <2>4. hpc'[k] = "serving" /\ \A j \in WorkerConns : j # k => hpc'[j] = hpc[j]
    BY <2>1 DEF ChannelsSafe
  <2>5. workerConns'[N] = k /\ latest'[N] = k /\ NodeOfConn[k] = N
    BY <2>1, <2>2 DEF ChannelsSafe
  <2>6. /\ hpc' \in [WorkerConns -> R!Stages]
        /\ workerConns' \in [Nodes -> WorkerConns \cup {None}]
        /\ latest' \in [Nodes -> WorkerConns \cup {None}] /\ commandPanic' = FALSE
    BY <2>1, <2>2 DEF ChannelsSafe
  <2> HIDE DEF N
  <2> QED BY <2>2, <2>3, <2>4, <2>5, <2>6 DEF ChannelsSafe
<1>3. ASSUME NEW k \in WorkerConns, R!TeardownUnregister(k) PROVE ChannelsSafe'
  <2> DEFINE N == NodeOfConn[k]
  <2>1. /\ hpc[k] = "unregister" /\ hpc' = [hpc EXCEPT ![k] = "close"]
        /\ workerConns' = [workerConns EXCEPT ![N] = IF @ = k THEN None ELSE @]
        /\ latest' = latest /\ commandPanic' = commandPanic
    BY <1>3 DEF R!TeardownUnregister, R!Goto
  <2>2. N \in Nodes /\ k # None
    BY RegistryConstants
  <2>3. \A n \in Nodes : /\ workerConns[n] = k => workerConns'[n] = None
                         /\ workerConns[n] # k => workerConns'[n] = workerConns[n]
    BY <2>1, <2>2 DEF ChannelsSafe
  <2>4. hpc'[k] = "close" /\ \A j \in WorkerConns : j # k => hpc'[j] = hpc[j]
    BY <2>1 DEF ChannelsSafe
  <2>5. /\ hpc' \in [WorkerConns -> R!Stages] /\ commandPanic' = FALSE
        /\ workerConns' \in [Nodes -> WorkerConns \cup {None}]
    BY <2>1, <2>3 DEF ChannelsSafe
  <2> HIDE DEF N
  <2> QED BY <2>1, <2>3, <2>4, <2>5, RegistryConstants DEF ChannelsSafe
<1>4. ASSUME NEW k \in WorkerConns, R!Entries(k) \/ R!WriterSend(k) \/ R!WriterExit(k)
      PROVE  ChannelsSafe'
  BY <1>4 DEF R!Entries, R!WriterSend, R!WriterExit, R!channels, ChannelsSafe
<1>5. CASE R!sendWorkerCommand
  <2>1. PICK targets \in {{n} : n \in Nodes} \cup {Nodes} :
          commandPanic' = (commandPanic \/ \E k \in {workerConns[n] : n \in targets} \ {None} :
                                             hpc[k] = "closed")
    BY <1>5 DEF R!sendWorkerCommand
  <2>2. targets \subseteq Nodes
    OBVIOUS
  <2>3. \A k \in {workerConns[n] : n \in targets} \ {None} : hpc[k] # "closed"
    BY <2>2 DEF ChannelsSafe
  <2>4. commandPanic' = FALSE
    BY <2>1, <2>3 DEF ChannelsSafe
  <2>5. UNCHANGED <<hpc, workerConns, latest>>
    BY <1>5 DEF R!sendWorkerCommand
  <2> QED BY <2>4, <2>5 DEF ChannelsSafe
<1>6. CASE R!TimePasses \/ R!gcWorkers
  BY <1>6 DEF R!TimePasses, R!gcWorkers, R!channels, ChannelsSafe
<1>7. CASE UNCHANGED registryVars
  BY <1>7 DEF registryVars, ChannelsSafe
<1> QED BY <1>1, <1>2, <1>3, <1>4, <1>5, <1>6, <1>7 DEF R!Next, R!handleWorker

-----------------------------------------------------------------------------
(* The rows of the registry.                                               *)

Row == [connected : BOOLEAN, recent : BOOLEAN]

RowsTyped ==
  /\ hpc \in [WorkerConns -> R!Stages]
  /\ rows \in Seq(Row)
  /\ workers \in [Nodes -> (1 .. Len(rows)) \cup {None}]
  /\ row \in [WorkerConns -> (1 .. Len(rows)) \cup {None}]
  /\ held \in [WorkerConns -> (1 .. Len(rows)) \cup {None}]

\* A row is listed for one node only, and a handler has looked up rows of its
\* own node only.
RowsOwned ==
  /\ \A m, n \in Nodes : workers[m] # None /\ workers[m] = workers[n] => m = n
  /\ \A k \in WorkerConns, n \in Nodes : row[k] # None /\ row[k] = workers[n] =>
       NodeOfConn[k] = n

\* A handler inside workerUpdate has a row, and one past its hello holds one.
RowsInHand ==
  \A k \in WorkerConns : /\ hpc[k] \in {"row", "stats", "unconnect"} => row[k] # None
                         /\ hpc[k] \in {"hello", "row", "register", "serving", "stats"} =>
                              held[k] # None

\* Handler k will still mark the listed row of its node as not connected.
WillUnconnect(k, n) ==
  /\ NodeOfConn[k] = n
  /\ \/ hpc[k] \in {"register", "serving", "stats", "gone"}
     \/ hpc[k] = "unconnect" /\ row[k] = workers[n]

RowsUnconnected ==
  \A n \in Nodes : workers[n] # None /\ rows[workers[n]].connected =>
    \E k \in WorkerConns : WillUnconnect(k, n)

RowsSafe == RowsTyped /\ RowsOwned /\ RowsInHand /\ RowsUnconnected

LEMMA RowsInit == R!Init => RowsSafe
BY DEF R!Init, RowsSafe, RowsTyped, RowsOwned, RowsInHand, RowsUnconnected, R!Stages

\* What workerRow does, v being its result.
LookUp(n, v) ==
  \/ workers[n] # None /\ v = workers[n] /\ UNCHANGED <<workers, rows>>
  \/ /\ workers[n] = None /\ v = Len(rows) + 1
     /\ rows' = Append(rows, [connected |-> FALSE, recent |-> FALSE])
     /\ workers' = [workers EXCEPT ![n] = Len(rows) + 1]

LEMMA LookUpRow ==
  ASSUME RowsSafe, NEW n \in Nodes, NEW v, LookUp(n, v)
  PROVE  /\ rows' \in Seq(Row) /\ Len(rows) \in Nat /\ Len(rows') \in Nat /\ Len(rows) <= Len(rows')
         /\ v \in 1 .. Len(rows') /\ v # None
         /\ workers' \in [Nodes -> (1 .. Len(rows')) \cup {None}]
         /\ workers'[n] = v /\ \A m \in Nodes : m # n => workers'[m] = workers[m]
         /\ \A i \in 1 .. Len(rows) : rows'[i] = rows[i]
         /\ workers[n] = None => v = Len(rows) + 1 /\ rows'[v].connected = FALSE
         /\ workers[n] # None => v = workers[n]
<1> USE RegistryConstants DEF RowsSafe, RowsTyped
<1>0. Len(rows) \in Nat
  OBVIOUS
<1>1. CASE workers[n] # None /\ v = workers[n] /\ UNCHANGED <<workers, rows>>
  BY <1>0, <1>1
<1>2. CASE /\ workers[n] = None /\ v = Len(rows) + 1
           /\ rows' = Append(rows, [connected |-> FALSE, recent |-> FALSE])
           /\ workers' = [workers EXCEPT ![n] = Len(rows) + 1]
  <2> DEFINE e == [connected |-> FALSE, recent |-> FALSE]
  <2>1. e \in Row /\ e.connected = FALSE
    BY DEF Row
  <2>2. rows' = Append(rows, e)
    BY <1>2
  <2> HIDE DEF e
  <2>3. /\ rows' \in Seq(Row) /\ Len(rows') = Len(rows) + 1 /\ rows'[Len(rows) + 1] = e
        /\ \A i \in 1 .. Len(rows) : rows'[i] = rows[i]
    BY <2>1, <2>2
  <2>4. workers' \in [Nodes -> (1 .. Len(rows')) \cup {None}]
    BY <1>0, <1>2, <2>3
  <2> QED BY <1>0, <1>2, <2>1, <2>3, <2>4
<1> QED BY <1>1, <1>2 DEF LookUp

\* A step that looks up a row and notes it in the handler's variable.
LEMMA LookUpStep ==
  ASSUME RowsSafe, NEW k \in WorkerConns, NEW v, LookUp(NodeOfConn[k], v),
         NEW stage \in R!Stages, R!Goto(k, stage),
         \/ /\ hpc[k] = "open" /\ stage = "hello"
            /\ held' = [held EXCEPT ![k] = v] /\ row' = row
         \/ /\ \/ hpc[k] = "hello" /\ stage = "row"
               \/ hpc[k] = "serving" /\ stage = "stats"
               \/ hpc[k] = "gone" /\ stage = "unconnect"
            /\ row' = [row EXCEPT ![k] = v] /\ held' = held
  PROVE  RowsSafe'
<1> DEFINE N == NodeOfConn[k]
<1>0. N \in Nodes /\ None \notin Nat
  BY RegistryConstants
<1>1. /\ rows' \in Seq(Row) /\ Len(rows) \in Nat /\ Len(rows') \in Nat /\ Len(rows) <= Len(rows')
      /\ v \in 1 .. Len(rows') /\ v # None
      /\ workers' \in [Nodes -> (1 .. Len(rows')) \cup {None}]
      /\ workers'[N] = v /\ \A m \in Nodes : m # N => workers'[m] = workers[m]
      /\ \A i \in 1 .. Len(rows) : rows'[i] = rows[i]
      /\ workers[N] = None => v = Len(rows) + 1 /\ rows'[v].connected = FALSE
      /\ workers[N] # None => v = workers[N]
  BY <1>0, LookUpRow
<1>2. hpc' = [hpc EXCEPT ![k] = stage]
  BY DEF R!Goto
<1> HIDE DEF N
<1>3. RowsTyped'
  <2>1. /\ hpc' \in [WorkerConns -> R!Stages]
        /\ 1 .. Len(rows) \subseteq 1 .. Len(rows')
    BY <1>1, <1>2 DEF RowsSafe, RowsTyped
  <2>2. /\ row' \in [WorkerConns -> (1 .. Len(rows')) \cup {None}]
        /\ held' \in [WorkerConns -> (1 .. Len(rows')) \cup {None}]
    BY <1>1, <2>1 DEF RowsSafe, RowsTyped
  <2> QED BY <1>1, <2>1, <2>2 DEF RowsTyped
<1>4. RowsOwned'
  <2>1. \A m \in Nodes : m # N => workers'[m] # v
    BY <1>0, <1>1 DEF RowsSafe, RowsTyped, RowsOwned
  <2>2. \A m, n \in Nodes : workers'[m] # None /\ workers'[m] = workers'[n] => m = n
    BY <1>0, <1>1, <2>1 DEF RowsSafe, RowsOwned
  <2>3. ASSUME NEW j \in WorkerConns, NEW n \in Nodes, row'[j] # None, row'[j] = workers'[n]
        PROVE  NodeOfConn[j] = n
    <3>1. CASE row'[j] = v /\ j = k
      BY <2>1, <2>3, <3>1 DEF N
    <3>2. CASE row'[j] = row[j]
      <4>1. row[j] \in 1 .. Len(rows)
        BY <2>3, <3>2 DEF RowsSafe, RowsTyped
      <4>2. CASE n = N
        <5>1. workers[N] # None
          <6>1. row[j] = v
            BY <1>1, <2>3, <3>2, <4>2
          <6> QED BY <1>1, <4>1, <6>1
        <5>2. row[j] # None /\ row[j] = workers[N]
          BY <1>1, <2>3, <3>2, <4>2, <5>1
        <5> QED BY <1>0, <4>2, <5>2 DEF RowsSafe, RowsOwned
      <4>3. CASE n # N
        <5>1. row[j] # None /\ row[j] = workers[n]
          BY <1>1, <2>3, <3>2, <4>3
        <5> QED BY <5>1 DEF RowsSafe, RowsOwned
      <4> QED BY <4>2, <4>3
    <3> QED BY <3>1, <3>2 DEF RowsSafe, RowsTyped
  <2> QED BY <2>2, <2>3 DEF RowsOwned
<1>5. RowsInHand'
  <2>1. \A j \in WorkerConns : j # k => /\ hpc'[j] = hpc[j] /\ row'[j] = row[j]
                                        /\ held'[j] = held[j]
    BY <1>2 DEF RowsSafe, RowsTyped
  <2>2. hpc'[k] = stage
    BY <1>2 DEF RowsSafe, RowsTyped
  <2>3. CASE row' = [row EXCEPT ![k] = v] /\ held' = held /\ stage # "hello"
    <3>1. row'[k] = v /\ held'[k] = held[k]
      BY <2>3 DEF RowsSafe, RowsTyped
    <3> QED BY <1>1, <2>1, <2>2, <2>3, <3>1 DEF RowsSafe, RowsInHand
  <2>4. CASE held' = [held EXCEPT ![k] = v] /\ stage = "hello"
    <3>1. held'[k] = v
      BY <2>4 DEF RowsSafe, RowsTyped
    <3> QED BY <1>1, <2>1, <2>2, <2>4, <3>1 DEF RowsSafe, RowsInHand
  <2> QED BY <2>3, <2>4
<1>6. RowsUnconnected'
  <2> SUFFICES ASSUME NEW n \in Nodes, workers'[n] # None, rows'[workers'[n]].connected
               PROVE  \E j \in WorkerConns : WillUnconnect(j, n)'
    BY DEF RowsUnconnected
  <2>1. workers[n] # None /\ workers'[n] = workers[n]
    BY <1>1
  <2>2. workers[n] \in 1 .. Len(rows)
    BY <2>1 DEF RowsSafe, RowsTyped
  <2>3. rows[workers[n]].connected
    BY <1>1, <2>1, <2>2
  <2>4. PICK j \in WorkerConns : WillUnconnect(j, n)
    BY <2>1, <2>3 DEF RowsSafe, RowsUnconnected
  <2>5. CASE j # k
    <3>1. hpc'[j] = hpc[j] /\ row'[j] = row[j]
      BY <1>2, <2>5 DEF RowsSafe, RowsTyped
    <3> QED BY <2>1, <2>4, <3>1 DEF WillUnconnect
  <2>6. CASE j = k
    <3>1. n = N
      BY <2>4, <2>6 DEF WillUnconnect, N
    <3>2. hpc[k] \in {"serving", "gone"} /\ row'[k] = v
      BY <2>4, <2>6 DEF WillUnconnect, RowsSafe, RowsTyped
    <3>3. hpc'[k] = stage /\ stage \in {"stats", "unconnect"}
      BY <1>2, <3>2 DEF RowsSafe, RowsTyped
    <3> QED BY <1>1, <3>1, <3>2, <3>3 DEF WillUnconnect, N
  <2> QED BY <2>5, <2>6
<1> QED BY <1>3, <1>4, <1>5, <1>6 DEF RowsSafe

\* fn(&we.info) writes to a row that exists.
LEMMA WriteRow ==
  ASSUME RowsSafe, NEW i \in 1 .. Len(rows), NEW e \in Row, rows' = [rows EXCEPT ![i] = e]
  PROVE  /\ rows' \in Seq(Row) /\ Len(rows') = Len(rows) /\ rows'[i] = e
         /\ \A j \in 1 .. Len(rows) : j # i => rows'[j] = rows[j]
<1>1. rows \in Seq(Row)
  BY DEF RowsSafe, RowsTyped
<1> QED BY <1>1, ExceptSeq

\* A step that only writes to rows, and moves at most one handler.
LEMMA RowsKept ==
  ASSUME RowsSafe, rows' \in Seq(Row), Len(rows') = Len(rows), UNCHANGED <<workers, row, held>>,
         hpc' \in [WorkerConns -> R!Stages], RowsInHand', RowsUnconnected'
  PROVE  RowsSafe'
BY DEF RowsSafe, RowsTyped, RowsOwned

\* Nobody but the handlers of a node says whether it is connected.
LEMMA RefreshStep ==
  ASSUME RowsSafe, rows' \in Seq(Row), Len(rows') = Len(rows),
         \A i \in 1 .. Len(rows) : rows'[i].connected = rows[i].connected,
         UNCHANGED <<workers, row, held>>, hpc' \in [WorkerConns -> R!Stages],
         \A k \in WorkerConns :
           \/ hpc'[k] = hpc[k]
           \/ /\ hpc'[k] \in {"serving", "gone", "unregister", "open", "close", "closed"}
              /\ hpc'[k] = "serving" => hpc[k] \in {"stats", "register"}
              /\ hpc[k] \in {"register", "serving", "stats", "gone"} => hpc'[k] \in {"serving", "gone"}
              /\ hpc[k] # "unconnect"
  PROVE  RowsSafe'
<1>1. RowsInHand'
  BY DEF RowsSafe, RowsInHand
<1>2. RowsUnconnected'
  <2> SUFFICES ASSUME NEW n \in Nodes, workers[n] # None, rows'[workers[n]].connected
               PROVE  \E j \in WorkerConns : WillUnconnect(j, n)'
    BY DEF RowsUnconnected
  <2>1. workers[n] \in 1 .. Len(rows)
    BY DEF RowsSafe, RowsTyped
  <2>2. PICK j \in WorkerConns : WillUnconnect(j, n)
    BY <2>1 DEF RowsSafe, RowsUnconnected
  <2> QED BY <2>2 DEF WillUnconnect
<1> QED BY <1>1, <1>2, RowsKept

LEMMA HelloUpdateStep == ASSUME RowsSafe, NEW k \in WorkerConns, R!HelloUpdate(k) PROVE RowsSafe'
<1> DEFINE e == [connected |-> TRUE, recent |-> TRUE]
<1>1. /\ hpc[k] = "row" /\ hpc' = [hpc EXCEPT ![k] = "register"]
      /\ rows' = [rows EXCEPT ![row[k]] = e] /\ UNCHANGED <<workers, row, held>>
  BY DEF R!HelloUpdate, R!workerUpdate, R!Goto
<1>2. row[k] \in 1 .. Len(rows) /\ e \in Row
  BY <1>1 DEF RowsSafe, RowsTyped, RowsInHand, Row
<1> HIDE DEF e
<1>3. /\ rows' \in Seq(Row) /\ Len(rows') = Len(rows)
      /\ \A j \in 1 .. Len(rows) : j # row[k] => rows'[j] = rows[j]
  BY <1>1, <1>2, WriteRow
<1>4. /\ hpc' \in [WorkerConns -> R!Stages] /\ hpc'[k] = "register"
      /\ \A j \in WorkerConns : j # k => hpc'[j] = hpc[j]
  BY <1>1 DEF RowsSafe, RowsTyped, R!Stages
<1>5. RowsInHand'
  BY <1>1, <1>4 DEF RowsSafe, RowsInHand
<1>6. RowsUnconnected'
  <2> SUFFICES ASSUME NEW n \in Nodes, workers[n] # None, rows'[workers[n]].connected
               PROVE  \E j \in WorkerConns : WillUnconnect(j, n)'
    BY <1>1 DEF RowsUnconnected
  <2>1. workers[n] \in 1 .. Len(rows)
    BY DEF RowsSafe, RowsTyped
  <2>2. CASE workers[n] = row[k]
    <3>1. NodeOfConn[k] = n
      BY <2>2 DEF RowsSafe, RowsOwned
    <3> QED BY <1>4, <3>1 DEF WillUnconnect
  <2>3. CASE workers[n] # row[k]
    <3>1. PICK j \in WorkerConns : WillUnconnect(j, n)
      BY <1>3, <2>1, <2>3 DEF RowsSafe, RowsUnconnected
    <3>2. j # k
      BY <1>1, <3>1 DEF WillUnconnect
    <3> QED BY <1>1, <1>4, <3>1, <3>2 DEF WillUnconnect
  <2> QED BY <2>2, <2>3
<1> QED BY <1>1, <1>3, <1>4, <1>5, <1>6, RowsKept

LEMMA TeardownUpdateStep ==
  ASSUME RowsSafe, NEW k \in WorkerConns, R!TeardownUpdate(k) PROVE RowsSafe'
<1> DEFINE e == [connected |-> FALSE, recent |-> rows[row[k]].recent]
<1>1. /\ hpc[k] = "unconnect" /\ hpc' = [hpc EXCEPT ![k] = "unregister"]
      /\ rows' = [rows EXCEPT ![row[k]] = e] /\ UNCHANGED <<workers, row, held>>
  BY DEF R!TeardownUpdate, R!workerUpdate, R!Goto
<1>2. row[k] \in 1 .. Len(rows)
  BY <1>1 DEF RowsSafe, RowsTyped, RowsInHand
<1>3. e \in Row /\ e.connected = FALSE
  <2>1. rows[row[k]] \in Row
    BY <1>2 DEF RowsSafe, RowsTyped
  <2> QED BY <2>1 DEF Row
<1> HIDE DEF e
<1>4. /\ rows' \in Seq(Row) /\ Len(rows') = Len(rows) /\ rows'[row[k]] = e
      /\ \A j \in 1 .. Len(rows) : j # row[k] => rows'[j] = rows[j]
  BY <1>1, <1>2, <1>3, WriteRow
<1>5. /\ hpc' \in [WorkerConns -> R!Stages] /\ hpc'[k] = "unregister"
      /\ \A j \in WorkerConns : j # k => hpc'[j] = hpc[j]
  BY <1>1 DEF RowsSafe, RowsTyped, R!Stages
<1>6. RowsInHand'
  BY <1>1, <1>5 DEF RowsSafe, RowsInHand
<1>7. RowsUnconnected'
  <2> SUFFICES ASSUME NEW n \in Nodes, workers[n] # None, rows'[workers[n]].connected
               PROVE  \E j \in WorkerConns : WillUnconnect(j, n)'
    BY <1>1 DEF RowsUnconnected
  <2>1. workers[n] \in 1 .. Len(rows)
    BY DEF RowsSafe, RowsTyped
  <2>2. workers[n] # row[k]
    BY <1>3, <1>4
  <2>3. PICK j \in WorkerConns : WillUnconnect(j, n)
    BY <1>4, <2>1, <2>2 DEF RowsSafe, RowsUnconnected
  <2>4. j # k
    BY <1>1, <2>2, <2>3 DEF WillUnconnect
  <2> QED BY <1>1, <1>5, <2>3, <2>4 DEF WillUnconnect
<1> QED BY <1>1, <1>4, <1>5, <1>6, <1>7, RowsKept

LEMMA RowsNext == ASSUME RowsSafe, R!Next \/ UNCHANGED registryVars PROVE RowsSafe'
<1>0. hpc \in [WorkerConns -> R!Stages] /\ rows \in Seq(Row) /\ Len(rows) \in Nat
      /\ \A i \in 1 .. Len(rows) : rows[i] \in Row
  BY DEF RowsSafe, RowsTyped
<1>1. ASSUME NEW k \in WorkerConns,
             \/ R!Accept(k) \/ R!HelloRegister(k) \/ R!Disconnect(k)
             \/ R!TeardownUnregister(k) \/ R!TeardownClose(k)
      PROVE  RowsSafe'
  <2>1. UNCHANGED <<workers, rows, row, held>>
    BY <1>1 DEF R!Accept, R!HelloRegister, R!Disconnect, R!TeardownUnregister,
                R!TeardownClose, R!registry
  <2>2. \/ hpc[k] = "none" /\ R!Goto(k, "open")
        \/ hpc[k] = "register" /\ R!Goto(k, "serving")
        \/ hpc[k] = "open" /\ R!Goto(k, "close")
        \/ hpc[k] = "serving" /\ R!Goto(k, "gone")
        \/ hpc[k] = "unregister" /\ R!Goto(k, "close")
        \/ hpc[k] = "close" /\ R!Goto(k, "closed")
    <3>1. CASE R!Disconnect(k)
      <4>1. CASE hpc[k] = "open"
        BY <3>1, <4>1 DEF R!Disconnect
      <4>2. CASE hpc[k] # "open"
        BY <3>1, <4>2 DEF R!Disconnect
      <4> QED BY <4>1, <4>2
    <3>2. CASE R!Accept(k) \/ R!HelloRegister(k) \/ R!TeardownUnregister(k) \/ R!TeardownClose(k)
      BY <3>2 DEF R!Accept, R!HelloRegister, R!TeardownUnregister, R!TeardownClose
    <3> QED BY <1>1, <3>1, <3>2
  <2>3. \A j \in WorkerConns : j # k => hpc'[j] = hpc[j]
    BY <1>0, <2>2 DEF R!Goto
  <2>4. \/ hpc[k] = "none" /\ hpc'[k] = "open"
        \/ hpc[k] = "register" /\ hpc'[k] = "serving"
        \/ hpc[k] = "open" /\ hpc'[k] = "close"
        \/ hpc[k] = "serving" /\ hpc'[k] = "gone"
        \/ hpc[k] = "unregister" /\ hpc'[k] = "close"
        \/ hpc[k] = "close" /\ hpc'[k] = "closed"
    BY <1>0, <2>2 DEF R!Goto
  <2>5. hpc' \in [WorkerConns -> R!Stages]
    BY <1>0, <2>2 DEF R!Goto, R!Stages
  <2> QED BY <1>0, <2>1, <2>3, <2>4, <2>5, RefreshStep
<1>2. ASSUME NEW k \in WorkerConns, R!HelloHold(k) PROVE RowsSafe'
  <2>1. \E v : /\ LookUp(NodeOfConn[k], v) /\ held' = [held EXCEPT ![k] = v] /\ row' = row
    BY <1>2 DEF R!HelloHold, R!workerRow, LookUp
  <2>2. hpc[k] = "open" /\ R!Goto(k, "hello") /\ "hello" \in R!Stages
    BY <1>2 DEF R!HelloHold, R!Stages
  <2> QED BY <2>1, <2>2, LookUpStep
<1>3. ASSUME NEW k \in WorkerConns, R!HelloRow(k) \/ R!StatsRow(k) \/ R!TeardownRow(k)
      PROVE  RowsSafe'
  <2>1. \E v : /\ LookUp(NodeOfConn[k], v) /\ row' = [row EXCEPT ![k] = v] /\ held' = held
    BY <1>3 DEF R!HelloRow, R!StatsRow, R!TeardownRow, R!workerRow, LookUp
  <2>2. \E stage \in R!Stages :
          /\ R!Goto(k, stage)
          /\ \/ hpc[k] = "hello" /\ stage = "row"
             \/ hpc[k] = "serving" /\ stage = "stats"
             \/ hpc[k] = "gone" /\ stage = "unconnect"
    BY <1>3 DEF R!HelloRow, R!StatsRow, R!TeardownRow, R!Stages
  <2> QED BY <2>1, <2>2, LookUpStep
<1>4. ASSUME NEW k \in WorkerConns, R!Entries(k) PROVE RowsSafe'
  <2>1. held[k] \in 1 .. Len(rows)
    BY <1>4 DEF R!Entries, RowsSafe, RowsTyped, RowsInHand
  <2> DEFINE e == [rows[held[k]] EXCEPT !.recent = TRUE]
  <2>2. rows' = [rows EXCEPT ![held[k]] = e]
    BY <1>4 DEF R!Entries
  <2>3. e \in Row /\ e.connected = rows[held[k]].connected
    BY <1>0, <2>1 DEF Row
  <2> HIDE DEF e
  <2>4. /\ rows' \in Seq(Row) /\ Len(rows') = Len(rows) /\ rows'[held[k]] = e
        /\ \A j \in 1 .. Len(rows) : j # held[k] => rows'[j] = rows[j]
    BY <2>1, <2>2, <2>3, WriteRow
  <2>5. \A i \in 1 .. Len(rows) : rows'[i].connected = rows[i].connected
    BY <2>3, <2>4
  <2>6. UNCHANGED <<hpc, workers, row, held>>
    BY <1>4 DEF R!Entries
  <2> QED BY <1>0, <2>4, <2>5, <2>6, RefreshStep
<1>5. ASSUME NEW k \in WorkerConns, R!StatsUpdate(k) PROVE RowsSafe'
  <2>1. row[k] \in 1 .. Len(rows)
    BY <1>5 DEF R!StatsUpdate, RowsSafe, RowsTyped, RowsInHand
  <2> DEFINE e == [connected |-> rows[row[k]].connected, recent |-> TRUE]
  <2>2. rows' = [rows EXCEPT ![row[k]] = e] /\ UNCHANGED <<workers, row, held>>
    BY <1>5 DEF R!StatsUpdate, R!workerUpdate
  <2>3. e \in Row /\ e.connected = rows[row[k]].connected
    BY <1>0, <2>1 DEF Row
  <2> HIDE DEF e
  <2>4. /\ rows' \in Seq(Row) /\ Len(rows') = Len(rows) /\ rows'[row[k]] = e
        /\ \A j \in 1 .. Len(rows) : j # row[k] => rows'[j] = rows[j]
    BY <2>1, <2>2, <2>3, WriteRow
  <2>5. \A i \in 1 .. Len(rows) : rows'[i].connected = rows[i].connected
    BY <2>3, <2>4
  <2>6. /\ hpc[k] = "stats" /\ hpc' \in [WorkerConns -> R!Stages] /\ hpc'[k] = "serving"
        /\ \A j \in WorkerConns : j # k => hpc'[j] = hpc[j]
    BY <1>0, <1>5 DEF R!StatsUpdate, R!Goto, R!Stages
  <2> QED BY <1>0, <2>2, <2>4, <2>5, <2>6, RefreshStep
<1>6. CASE R!TimePasses
  <2>1. rows' = [i \in 1 .. Len(rows) |-> [rows[i] EXCEPT !.recent = FALSE]]
        /\ UNCHANGED <<hpc, workers, row, held>>
    BY <1>0, <1>6 DEF R!TimePasses
  <2>2. \A i \in 1 .. Len(rows) : /\ [rows[i] EXCEPT !.recent = FALSE] \in Row
                                  /\ [rows[i] EXCEPT !.recent = FALSE].connected = rows[i].connected
    BY <1>0 DEF Row
  <2>3. rows' \in Seq(Row) /\ Len(rows') = Len(rows)
        /\ \A i \in 1 .. Len(rows) : rows'[i].connected = rows[i].connected
    <3>1. rows' \in [1 .. Len(rows) -> Row]
      BY <2>1, <2>2
    <3>2. rows' \in Seq(Row)
      BY <1>0, <3>1, SeqDef
    <3>3. DOMAIN rows' = 1 .. Len(rows') /\ Len(rows') \in Nat /\ DOMAIN rows' = 1 .. Len(rows)
      BY <3>1, <3>2
    <3>4. Len(rows') = Len(rows)
      BY <1>0, <3>3
    <3> QED BY <2>1, <2>2, <3>2, <3>4
  <2> QED BY <1>0, <2>1, <2>3, RefreshStep
<1>7. CASE R!gcWorkers
  <2>1. UNCHANGED <<hpc, rows, row, held>> /\ workers' \in [Nodes -> (1 .. Len(rows)) \cup {None}]
        /\ \A n \in Nodes : workers'[n] = None \/ workers'[n] = workers[n]
    BY <1>7 DEF R!gcWorkers, RowsSafe, RowsTyped
  <2>2. RowsTyped' /\ RowsOwned' /\ RowsInHand'
    BY <2>1 DEF RowsSafe, RowsTyped, RowsOwned, RowsInHand
  <2>3. RowsUnconnected'
    BY <2>1 DEF RowsSafe, RowsUnconnected, WillUnconnect
  <2> QED BY <2>2, <2>3 DEF RowsSafe
<1>8. ASSUME UNCHANGED <<hpc, workers, rows, row, held>> PROVE RowsSafe'
  BY <1>8 DEF RowsSafe, RowsTyped, RowsOwned, RowsInHand, RowsUnconnected, WillUnconnect
<1>9. ASSUME NEW k \in WorkerConns, R!WriterSend(k) \/ R!WriterExit(k) PROVE RowsSafe'
  BY <1>8, <1>9 DEF R!WriterSend, R!WriterExit, R!registry
<1>10. CASE R!sendWorkerCommand \/ UNCHANGED registryVars
  BY <1>8, <1>10 DEF R!sendWorkerCommand, R!registry, registryVars
<1> QED BY <1>1, <1>2, <1>3, <1>4, <1>5, <1>6, <1>7, <1>9, <1>10, HelloUpdateStep,
           TeardownUpdateStep DEF R!Next, R!handleWorker

-----------------------------------------------------------------------------
(* The export: increasing sequences.                                       *)

Rising(s) == s \in Seq(Nat) /\ \A i, j \in 1 .. Len(s) : i < j => s[i] < s[j]
Before(S, T) == \A x \in S, y \in T : x < y

LEMMA RisingEmpty == Rising(<<>>) /\ ToSet(<<>>) = {}
BY DEF Rising, ToSet

LEMMA RisingAppend ==
  ASSUME NEW s, NEW e \in Nat, Rising(s), Before(ToSet(s), {e})
  PROVE  Rising(Append(s, e)) /\ ToSet(Append(s, e)) = ToSet(s) \cup {e}
<1> DEFINE t == Append(s, e)
<1>1. /\ t \in Seq(Nat) /\ DOMAIN s = 1 .. Len(s) /\ DOMAIN t = 1 .. Len(s) + 1 /\ Len(s) \in Nat
      /\ Len(t) = Len(s) + 1 /\ t[Len(s) + 1] = e /\ \A i \in 1 .. Len(s) : t[i] = s[i]
  BY DEF Rising
<1>2. \A i \in 1 .. Len(s) : s[i] \in ToSet(s)
  BY <1>1 DEF ToSet
<1> HIDE DEF t
<1>3. \A i \in 1 .. Len(s) + 1 : i = Len(s) + 1 \/ i \in 1 .. Len(s)
  BY <1>1
<1>4. Rising(t)
  <2> SUFFICES ASSUME NEW i \in 1 .. Len(t), NEW j \in 1 .. Len(t), i < j PROVE t[i] < t[j]
    BY <1>1 DEF Rising
  <2>1. i \in 1 .. Len(s) /\ t[i] = s[i]
    BY <1>1
  <2>2. CASE j \in 1 .. Len(s)
    BY <1>1, <2>1, <2>2 DEF Rising
  <2>3. CASE j = Len(s) + 1
    BY <1>1, <1>2, <2>1, <2>3 DEF Before
  <2> QED BY <1>1, <1>3, <2>2, <2>3
<1>5. ToSet(t) = ToSet(s) \cup {e}
  <2>1. ToSet(t) = {t[i] : i \in 1 .. Len(s) + 1} /\ ToSet(s) = {s[i] : i \in 1 .. Len(s)}
    BY <1>1 DEF ToSet
  <2>2. Len(s) + 1 \in 1 .. Len(s) + 1 /\ \A i \in 1 .. Len(s) : i \in 1 .. Len(s) + 1
    BY <1>1
  <2> QED BY <1>1, <1>3, <2>1, <2>2
<1> QED BY <1>4, <1>5 DEF t

LEMMA RisingTail ==
  ASSUME NEW s, Rising(s), s # <<>>
  PROVE  /\ Rising(Tail(s)) /\ ToSet(s) = {Head(s)} \cup ToSet(Tail(s)) /\ Head(s) \in Nat
         /\ Before({Head(s)}, ToSet(Tail(s)))
<1> DEFINE t == Tail(s)
<1>1. /\ t \in Seq(Nat) /\ Len(s) \in Nat \ {0} /\ Len(t) = Len(s) - 1 /\ Head(s) = s[1]
      /\ DOMAIN s = 1 .. Len(s) /\ DOMAIN t = 1 .. Len(s) - 1
      /\ \A i \in 1 .. Len(s) - 1 : t[i] = s[i + 1]
  BY DEF Rising
<1>2. s[1] \in Nat /\ \A i, j \in 1 .. Len(s) : i < j => s[i] < s[j]
  BY <1>1 DEF Rising
<1> HIDE DEF t
<1>3. Rising(t)
  <2> SUFFICES ASSUME NEW i \in 1 .. Len(t), NEW j \in 1 .. Len(t), i < j PROVE t[i] < t[j]
    BY <1>1 DEF Rising
  <2>1. /\ i \in 1 .. Len(s) - 1 /\ j \in 1 .. Len(s) - 1
        /\ i + 1 \in 1 .. Len(s) /\ j + 1 \in 1 .. Len(s) /\ i + 1 < j + 1
    BY <1>1
  <2> QED BY <1>1, <1>2, <2>1
<1>4. ToSet(t) = {t[i] : i \in 1 .. Len(s) - 1} /\ ToSet(s) = {s[i] : i \in 1 .. Len(s)}
  BY <1>1 DEF ToSet
<1>5. /\ \A i \in 1 .. Len(s) - 1 : i + 1 \in 1 .. Len(s) /\ 1 < i + 1
      /\ \A i \in 1 .. Len(s) : i = 1 \/ (i - 1 \in 1 .. Len(s) - 1 /\ (i - 1) + 1 = i)
      /\ 1 \in 1 .. Len(s)
  BY <1>1
<1>6. \A x \in ToSet(s) : x = s[1] \/ x \in ToSet(t)
  <2> SUFFICES ASSUME NEW i \in 1 .. Len(s) PROVE s[i] = s[1] \/ s[i] \in ToSet(t)
    BY <1>4
  <2>1. CASE i # 1
    <3>1. t[i - 1] = s[i] /\ i - 1 \in 1 .. Len(s) - 1
      BY <1>1, <1>5, <2>1
    <3> QED BY <1>4, <3>1
  <2> QED BY <2>1
<1>7. \A y \in ToSet(t) : y \in ToSet(s) /\ s[1] < y
  <2> SUFFICES ASSUME NEW i \in 1 .. Len(s) - 1 PROVE t[i] \in ToSet(s) /\ s[1] < t[i]
    BY <1>4
  <2>1. t[i] = s[i + 1] /\ i + 1 \in 1 .. Len(s) /\ 1 \in 1 .. Len(s) /\ 1 < i + 1
    BY <1>1, <1>5
  <2>2. s[1] < s[i + 1]
    BY <1>2, <2>1
  <2> QED BY <1>4, <2>1, <2>2
<1>8. ToSet(s) = {s[1]} \cup ToSet(t)
  BY <1>4, <1>5, <1>6, <1>7
<1> QED BY <1>1, <1>2, <1>3, <1>7, <1>8 DEF Before, t

LEMMA RisingConcat ==
  ASSUME NEW s, NEW t, Rising(s), Rising(t), Before(ToSet(s), ToSet(t))
  PROVE  Rising(s \o t) /\ ToSet(s \o t) = ToSet(s) \cup ToSet(t)
<1> DEFINE u == s \o t
           m == Len(s)
           l == Len(t)
<1>1. /\ u \in Seq(Nat) /\ m \in Nat /\ l \in Nat /\ Len(u) = m + l
      /\ DOMAIN s = 1 .. m /\ DOMAIN t = 1 .. l /\ DOMAIN u = 1 .. m + l
      /\ \A i \in 1 .. m : u[i] = s[i]
      /\ \A i \in 1 .. m + l : i > m => u[i] = t[i - m]
  BY DEF Rising
<1>2. /\ \A i \in 1 .. m : s[i] \in ToSet(s)
      /\ \A i \in 1 .. l : t[i] \in ToSet(t)
  BY <1>1 DEF ToSet
<1>3. /\ \A i, j \in 1 .. m : i < j => s[i] < s[j]
      /\ \A i, j \in 1 .. l : i < j => t[i] < t[j]
  BY DEF Rising
<1> HIDE DEF u, m, l
<1>4. Rising(u)
  <2> SUFFICES ASSUME NEW i \in 1 .. m + l, NEW j \in 1 .. m + l, i < j PROVE u[i] < u[j]
    BY <1>1 DEF Rising
  <2>1. CASE j <= m
    <3>1. i \in 1 .. m /\ j \in 1 .. m
      BY <1>1, <2>1
    <3> QED BY <1>1, <1>3, <3>1
  <2>2. CASE i <= m /\ j > m
    <3>1. i \in 1 .. m /\ j - m \in 1 .. l
      BY <1>1, <2>2
    <3>2. s[i] \in ToSet(s) /\ t[j - m] \in ToSet(t) /\ u[i] = s[i] /\ u[j] = t[j - m]
      BY <1>1, <1>2, <2>2, <3>1
    <3> QED BY <3>2 DEF Before
  <2>3. CASE i > m
    <3>1. i - m \in 1 .. l /\ j - m \in 1 .. l /\ i - m < j - m /\ j > m
      BY <1>1, <2>3
    <3>2. u[i] = t[i - m] /\ u[j] = t[j - m]
      BY <1>1, <2>3, <3>1
    <3> QED BY <1>3, <3>1, <3>2
  <2> QED BY <1>1, <2>1, <2>2, <2>3
<1>5. \A i \in 1 .. m + l : u[i] \in ToSet(s) \cup ToSet(t)
  <2> TAKE i \in 1 .. m + l
  <2>1. CASE i <= m
    <3>1. i \in 1 .. m
      BY <1>1, <2>1
    <3> QED BY <1>1, <1>2, <3>1
  <2>2. CASE i > m
    <3>1. i - m \in 1 .. l /\ u[i] = t[i - m]
      BY <1>1, <2>2
    <3> QED BY <1>2, <3>1
  <2> QED BY <1>1, <2>1, <2>2
<1>6. /\ ToSet(u) = {u[i] : i \in 1 .. m + l} /\ ToSet(s) = {s[i] : i \in 1 .. m}
      /\ ToSet(t) = {t[i] : i \in 1 .. l}
  BY <1>1 DEF ToSet
<1>7. \A i \in 1 .. m : s[i] \in ToSet(u)
  <2>1. \A i \in 1 .. m : i \in 1 .. m + l
    BY <1>1
  <2> QED BY <1>1, <1>6, <2>1
<1>8. \A i \in 1 .. l : t[i] \in ToSet(u)
  <2> TAKE i \in 1 .. l
  <2>1. m + i \in 1 .. m + l /\ m + i > m /\ (m + i) - m = i
    BY <1>1
  <2>2. u[m + i] = t[i]
    BY <1>1, <2>1
  <2> QED BY <1>6, <2>1, <2>2
<1>9. ToSet(u) = ToSet(s) \cup ToSet(t)
  BY <1>5, <1>6, <1>7, <1>8
<1> QED BY <1>4, <1>9 DEF u

-----------------------------------------------------------------------------
(* The export: the queue and the webhook.                                  *)

\* Entries are posted, batched and queued in the order they were ingested, and
\* of those for the webhook none is missing from the account.
HookSafe ==
  /\ exported \in Nat /\ Rising(buffered) /\ Rising(batch) /\ Rising(posted)
  /\ ToSet(buffered) \subseteq 1 .. exported /\ ToSet(batch) \subseteq 1 .. exported
  /\ ToSet(posted) \subseteq 1 .. exported
  /\ counted \subseteq 1 .. exported /\ crashed \subseteq 1 .. exported
  /\ Before(ToSet(posted), ToSet(batch)) /\ Before(ToSet(posted), ToSet(buffered))
  /\ Before(ToSet(batch), ToSet(buffered))
  /\ counted \cap (ToSet(buffered) \cup ToSet(batch)) = {}
  /\ webhook => 1 .. exported \subseteq
                  ToSet(posted) \cup ToSet(buffered) \cup ToSet(batch) \cup counted \cup crashed

\* The instance's operators on sequences are those of the modules extended here.
LEMMA SameToSet == \A s : X!ToSet(s) = ToSet(s)
BY DEF X!ToSet, ToSet

LEMMA HookInit == X!Init => HookSafe
BY RisingEmpty DEF X!Init, HookSafe, Before

LEMMA HookKept ==
  ASSUME HookSafe, UNCHANGED <<webhook, exported, buffered, batch, posted, counted, crashed>>
  PROVE  HookSafe'
BY DEF HookSafe

\* An entry is queued, or dropped and counted.
LEMMA ExportHook == ASSUME HookSafe, X!export PROVE HookSafe'
<1> DEFINE e == exported + 1
<1>1. /\ exported' = e /\ UNCHANGED <<webhook, batch, posted, crashed>>
      /\ \/ buffered' = Append(buffered, e) /\ UNCHANGED counted
         \/ counted' = counted \cup {e} /\ UNCHANGED buffered
  BY DEF X!export, X!hook
<1>2. e \in Nat /\ 1 .. e = (1 .. exported) \cup {e} /\ \A x \in 1 .. exported : x < e
  BY DEF HookSafe
<1> HIDE DEF e
<1>3. CASE buffered' = Append(buffered, e) /\ UNCHANGED counted
  <2>1. Rising(buffered') /\ ToSet(buffered') = ToSet(buffered) \cup {e}
    BY <1>2, <1>3, RisingAppend DEF HookSafe, Before
  <2>2. Before(ToSet(posted), ToSet(buffered')) /\ Before(ToSet(batch), ToSet(buffered'))
    BY <1>2, <2>1 DEF HookSafe, Before
  <2>3. e \notin counted
    BY <1>2 DEF HookSafe
  <2>4. counted' \cap (ToSet(buffered') \cup ToSet(batch')) = {}
    BY <1>1, <1>3, <2>1, <2>3 DEF HookSafe
  <2>5. /\ ToSet(buffered') \subseteq 1 .. exported' /\ ToSet(batch') \subseteq 1 .. exported'
        /\ ToSet(posted') \subseteq 1 .. exported'
        /\ counted' \subseteq 1 .. exported' /\ crashed' \subseteq 1 .. exported'
    BY <1>1, <1>2, <1>3, <2>1 DEF HookSafe
  <2>6. webhook => 1 .. e \subseteq ToSet(posted) \cup ToSet(buffered') \cup ToSet(batch)
                                   \cup counted \cup crashed
    BY <1>2, <2>1 DEF HookSafe
  <2> QED BY <1>1, <1>2, <1>3, <2>1, <2>2, <2>4, <2>5, <2>6 DEF HookSafe
<1>4. CASE counted' = counted \cup {e} /\ UNCHANGED buffered
  <2>1. e \notin ToSet(buffered) \cup ToSet(batch)
    BY <1>2 DEF HookSafe
  <2> QED BY <1>1, <1>2, <1>4, <2>1 DEF HookSafe
<1> QED BY <1>1, <1>3, <1>4

\* An entry moves from the queue to the batch.
LEMMA ConsumeHook == ASSUME HookSafe, X!consume PROVE HookSafe'
<1> DEFINE h == Head(buffered)
<1>1. /\ buffered # <<>> /\ buffered' = Tail(buffered)
      /\ batch' = IF webhook THEN Append(batch, h) ELSE batch
      /\ UNCHANGED <<webhook, exported, posted, counted, crashed>>
  BY DEF X!consume
<1>2. /\ Rising(buffered') /\ ToSet(buffered) = {h} \cup ToSet(buffered') /\ h \in Nat
      /\ Before({h}, ToSet(buffered'))
  BY <1>1, RisingTail DEF HookSafe
<1> HIDE DEF h
<1>3. CASE webhook
  <2>1. Rising(batch') /\ ToSet(batch') = ToSet(batch) \cup {h}
    BY <1>1, <1>2, <1>3, RisingAppend DEF HookSafe, Before
  <2>2. Before(ToSet(posted), ToSet(batch')) /\ Before(ToSet(posted), ToSet(buffered'))
        /\ Before(ToSet(batch'), ToSet(buffered'))
    BY <1>2, <2>1 DEF HookSafe, Before
  <2> QED BY <1>1, <1>2, <1>3, <2>1, <2>2 DEF HookSafe
<1>4. CASE ~webhook
  <2>1. Before(ToSet(posted), ToSet(buffered')) /\ Before(ToSet(batch), ToSet(buffered'))
    BY <1>2 DEF HookSafe, Before
  <2> QED BY <1>1, <1>2, <1>4, <2>1 DEF HookSafe
<1> QED BY <1>3, <1>4

\* The batch is posted, or counted, or both.
LEMMA FlushHook ==
  ASSUME HookSafe, X!flushWebhook(batch), UNCHANGED <<webhook, exported, buffered, crashed>>
  PROVE  HookSafe'
<1>1. /\ batch' = <<>> /\ posted' \in {posted, posted \o batch}
      /\ \/ posted' = posted \o batch /\ UNCHANGED counted
         \/ counted' = counted \cup ToSet(batch)
  BY SameToSet DEF X!flushWebhook, X!countDrops
<1>2. Rising(batch') /\ ToSet(batch') = {}
  BY <1>1, RisingEmpty
<1>3. Rising(posted \o batch) /\ ToSet(posted \o batch) = ToSet(posted) \cup ToSet(batch)
  BY RisingConcat DEF HookSafe
<1>4. /\ Rising(posted') /\ ToSet(posted) \subseteq ToSet(posted')
      /\ ToSet(posted') \subseteq ToSet(posted) \cup ToSet(batch)
      /\ posted' = posted \o batch => ToSet(batch) \subseteq ToSet(posted')
  BY <1>1, <1>3 DEF HookSafe
<1>5. Before(ToSet(posted'), ToSet(batch')) /\ Before(ToSet(batch'), ToSet(buffered))
  BY <1>2 DEF Before
<1>6. Before(ToSet(posted'), ToSet(buffered))
  BY <1>4 DEF HookSafe, Before
<1>7. ToSet(batch) \cap ToSet(buffered) = {}
  BY DEF HookSafe, Before
<1>8. counted' \subseteq 1 .. exported /\ counted' \cap (ToSet(buffered) \cup ToSet(batch')) = {}
      /\ counted \subseteq counted'
  BY <1>1, <1>2, <1>7 DEF HookSafe
<1>9. ToSet(posted) \cup ToSet(batch) \cup counted \subseteq ToSet(posted') \cup counted'
  BY <1>1, <1>4, <1>8
<1> QED BY <1>2, <1>4, <1>5, <1>6, <1>8, <1>9 DEF HookSafe

LEMMA CrashHook == ASSUME HookSafe, X!Crash PROVE HookSafe'
<1>1. /\ buffered' = <<>> /\ batch' = <<>>
      /\ crashed' = crashed \cup ToSet(buffered) \cup ToSet(batch)
      /\ UNCHANGED <<webhook, exported, posted, counted>>
  BY SameToSet DEF X!Crash
<1>2. Rising(<<>>) /\ ToSet(<<>>) = {}
  BY RisingEmpty
<1> QED BY <1>1, <1>2 DEF HookSafe, Before

LEMMA HookNext == ASSUME HookSafe, X!Next \/ UNCHANGED exportVars PROVE HookSafe'
<1>1. CASE X!Start \/ X!rotate \/ X!Stop \/ UNCHANGED exportVars
  BY <1>1, HookKept DEF X!Start, X!rotate, X!Stop, X!hook, exportVars
<1>2. CASE X!FlushFull \/ X!FlushTick
  BY <1>2, FlushHook DEF X!FlushFull, X!FlushTick
<1>3. CASE X!Finish
  <2>1. CASE batch = <<>>
    BY <1>3, <2>1, HookKept DEF X!Finish, X!hook
  <2>2. CASE batch # <<>>
    BY <1>3, <2>2, FlushHook DEF X!Finish
  <2> QED BY <2>1, <2>2
<1> QED BY <1>1, <1>2, <1>3, ExportHook, ConsumeHook, CrashHook DEF X!Next

\* Every entry that was to be posted is accounted for.
LEMMA HookAccounts == HookSafe => X!NoSilentDrop
<1> SUFFICES ASSUME HookSafe, webhook PROVE X!NoSilentDrop
  BY DEF X!NoSilentDrop
<1>1. \A i \in 1 .. Len(posted) - 1 : posted[i] < posted[i + 1]
  <2>1. Rising(posted) /\ Len(posted) \in Nat
    BY DEF HookSafe, Rising
  <2>2. \A i \in 1 .. Len(posted) - 1 : i \in 1 .. Len(posted) /\ i + 1 \in 1 .. Len(posted) /\ i < i + 1
    BY <2>1
  <2> QED BY <2>1, <2>2 DEF Rising
<1>2. 1 .. exported = ToSet(posted) \cup ToSet(buffered) \cup ToSet(batch) \cup counted \cup crashed
  BY DEF HookSafe
<1> QED BY <1>1, <1>2, SameToSet DEF HookSafe, X!NoSilentDrop

-----------------------------------------------------------------------------
(* The export: the files.                                                  *)

Backups == 1 .. exportFileRotations
File == Seq(Nat) \cup {X!Absent}
Lines(f) == ToSet(X!Content(f))

\* The files o, from the newest on, and the live file l hold entries up to m in
\* order, all of them before those of B.
InOrder(o, l, B, m) ==
  /\ o \in [Backups -> File] /\ l \in File
  /\ Rising(X!Content(l)) /\ Lines(l) \subseteq 1 .. m /\ Before(Lines(l), B)
  /\ \A i \in Backups : /\ Rising(X!Content(o[i])) /\ Lines(o[i]) \subseteq 1 .. m
                        /\ Before(Lines(o[i]), B) /\ Before(Lines(o[i]), Lines(l))
  /\ \A i, j \in Backups : i < j => Before(Lines(o[j]), Lines(o[i]))

\* A file is over the limit only by as many entries as there were faults: one
\* more is written only after a restart.
Bounded(o, l, x) ==
  /\ \A i \in Backups : o[i] # X!Absent => Len(o[i]) <= FileMax + x
  /\ l # X!Absent => Len(l) <= FileMax + x

Steady ==
  /\ faults \in Nat /\ rot \in -1 .. exportFileRotations
  /\ file = "open" \/ rot # 0 => live # X!Absent
  /\ rot # 0 => file # "open" /\ run # "starting"
  /\ rot = 0 /\ live # X!Absent /\ (file = "open" \/ run = "starting") => Len(live) < FileMax + faults

FilesSafe == InOrder(old, live, ToSet(buffered), exported) /\ Bounded(old, live, faults) /\ Steady

LEMMA ExportConstants ==
  exportFileRotations \in Nat \ {0} /\ FileMax \in Nat \ {0} /\ 1 \in Backups
BY LinksAssumption DEF X!ExportAssumption, Backups

LEMMA ContentIs ==
  /\ X!Content(X!Absent) = <<>> /\ Rising(X!Content(X!Absent)) /\ Lines(X!Absent) = {}
  /\ X!Absent \in File
  /\ \A f \in Seq(Nat) : f # X!Absent /\ X!Content(f) = f /\ Lines(f) = ToSet(f) /\ f \in File
  /\ <<>> \in Seq(Nat) /\ Rising(X!Content(<<>>)) /\ Lines(<<>>) = {}
<1>1. \A f \in Seq(Nat) : f # X!Absent
  <2> SUFFICES ASSUME X!Absent \in Seq(Nat) PROVE FALSE
    OBVIOUS
  <2>1. X!Absent[1] = -1 /\ Len(X!Absent) = 1
    BY DEF X!Absent
  <2>2. X!Absent[1] \in Nat
    BY <2>1
  <2> QED BY <2>1, <2>2
<1>2. X!Content(X!Absent) = <<>> /\ \A f \in Seq(Nat) : X!Content(f) = f
  BY <1>1 DEF X!Content
<1>3. <<>> \in Seq(Nat)
  OBVIOUS
<1> QED BY <1>1, <1>2, <1>3, RisingEmpty DEF Lines, File

LEMMA FilesInit == X!Init => FilesSafe
<1> SUFFICES ASSUME X!Init PROVE FilesSafe
  OBVIOUS
<1>1. /\ live = X!Absent /\ old \in [Backups -> File] /\ \A i \in Backups : old[i] = X!Absent
      /\ faults = 0 /\ rot = 0 /\ file = "closed"
  BY ContentIs DEF X!Init, Backups
<1>2. InOrder(old, live, ToSet(buffered), exported)
  BY <1>1, ContentIs DEF InOrder, Before
<1>3. Bounded(old, live, faults) /\ Steady
  BY <1>1, ExportConstants DEF Bounded, Steady
<1> QED BY <1>2, <1>3 DEF FilesSafe

\* Fewer entries wait, or a new one does.
LEMMA ShelfFewer ==
  ASSUME NEW o, NEW l, NEW B, NEW m, InOrder(o, l, B, m), NEW D \in SUBSET B
  PROVE  InOrder(o, l, D, m)
BY DEF InOrder, Before

LEMMA ShelfMore ==
  ASSUME NEW o, NEW l, NEW B, NEW m \in Nat, InOrder(o, l, B, m)
  PROVE  InOrder(o, l, B \cup {m + 1}, m + 1) /\ InOrder(o, l, B, m + 1)
<1>1. \A x \in 1 .. m : x \in 1 .. m + 1 /\ x < m + 1
  OBVIOUS
<1>2. ASSUME NEW S \in SUBSET (1 .. m), Before(S, B)
      PROVE  S \subseteq 1 .. m + 1 /\ Before(S, B \cup {m + 1})
  BY <1>1, <1>2 DEF Before
<1> HIDE DEF Before
<1> QED BY <1>2 DEF InOrder

\* The oldest file is removed.
LEMMA ShelfRemove ==
  ASSUME NEW o, NEW l, NEW B, NEW m, InOrder(o, l, B, m), NEW i \in Backups
  PROVE  InOrder([o EXCEPT ![i] = X!Absent], l, B, m)
<1> DEFINE p == [o EXCEPT ![i] = X!Absent]
<1>1. p \in [Backups -> File] /\ p[i] = X!Absent /\ \A j \in Backups \ {i} : p[j] = o[j]
  BY ContentIs DEF InOrder
<1> HIDE DEF p
<1>2. Lines(p[i]) = {} /\ Rising(X!Content(p[i]))
  BY <1>1, ContentIs
<1>3. \A j \in Backups : /\ Rising(X!Content(p[j])) /\ Lines(p[j]) \subseteq 1 .. m
                         /\ Before(Lines(p[j]), B) /\ Before(Lines(p[j]), Lines(l))
  BY <1>1, <1>2 DEF InOrder, Before
<1>4. \A j, k \in Backups : j < k => Before(Lines(p[k]), Lines(p[j]))
  BY <1>1, <1>2 DEF InOrder, Before
<1> QED BY <1>1, <1>3, <1>4 DEF InOrder, p

\* A file takes the place of the next older one.
LEMMA ShelfShift ==
  ASSUME NEW o, NEW l, NEW B, NEW m, InOrder(o, l, B, m), NEW i \in Backups, i + 1 \in Backups
  PROVE  InOrder([o EXCEPT ![i + 1] = o[i], ![i] = X!Absent], l, B, m)
<1> DEFINE p == [o EXCEPT ![i + 1] = o[i], ![i] = X!Absent]
<1>0. i \in Nat /\ i # i + 1 /\ o \in [Backups -> File]
  BY DEF Backups, InOrder
<1>1. /\ p \in [Backups -> File] /\ p[i] = X!Absent /\ p[i + 1] = o[i]
      /\ \A j \in Backups \ {i, i + 1} : p[j] = o[j]
  BY <1>0, ContentIs
<1> HIDE DEF p
<1>2. Lines(p[i]) = {} /\ Rising(X!Content(p[i]))
  BY <1>1, ContentIs
<1>3. ASSUME NEW j \in Backups
      PROVE  /\ Rising(X!Content(p[j])) /\ Lines(p[j]) \subseteq 1 .. m
             /\ Before(Lines(p[j]), B) /\ Before(Lines(p[j]), Lines(l))
  <2>1. CASE j = i
    BY <1>2, <2>1 DEF Before
  <2>2. CASE j = i + 1
    BY <1>1, <2>2 DEF InOrder
  <2>3. CASE j \notin {i, i + 1}
    BY <1>1, <2>3 DEF InOrder
  <2> QED BY <2>1, <2>2, <2>3
<1>4. ASSUME NEW j \in Backups, NEW k \in Backups, j < k PROVE Before(Lines(p[k]), Lines(p[j]))
  <2>1. CASE j = i \/ k = i
    BY <1>2, <2>1 DEF Before
  <2>2. CASE j \notin {i, i + 1} /\ k \notin {i, i + 1}
    BY <1>1, <1>4, <2>2 DEF InOrder
  <2>3. CASE j # i /\ k = i + 1
    <3>1. j < i /\ p[k] = o[i] /\ p[j] = o[j]
      BY <1>0, <1>1, <1>4, <2>3 DEF Backups
    <3> QED BY <3>1 DEF InOrder
  <2>4. CASE j = i + 1 /\ k # i
    <3>1. i < k /\ k # i + 1 /\ p[j] = o[i] /\ p[k] = o[k]
      BY <1>0, <1>1, <1>4, <2>4 DEF Backups
    <3> QED BY <3>1 DEF InOrder
  <2> QED BY <1>4, <2>1, <2>2, <2>3, <2>4
<1>5. InOrder(p, l, B, m)
  BY <1>1, <1>3, <1>4 DEF InOrder
<1> QED BY <1>5 DEF p

\* The live file becomes the newest backup.
LEMMA ShelfLive ==
  ASSUME NEW o, NEW l, NEW B, NEW m, InOrder(o, l, B, m), NEW e \in {<<>>, X!Absent}
  PROVE  InOrder([o EXCEPT ![1] = l], e, B, m)
<1> DEFINE p == [o EXCEPT ![1] = l]
<1>0. 1 \in Backups /\ \A j \in Backups : j \in Nat \ {0}
  BY ExportConstants DEF Backups
<1>1. /\ p \in [Backups -> File] /\ p[1] = l /\ \A j \in Backups \ {1} : p[j] = o[j]
  BY <1>0 DEF InOrder
<1>2. Lines(e) = {} /\ Rising(X!Content(e)) /\ e \in File
  BY ContentIs
<1> HIDE DEF p
<1>3. ASSUME NEW j \in Backups
      PROVE  /\ Rising(X!Content(p[j])) /\ Lines(p[j]) \subseteq 1 .. m
             /\ Before(Lines(p[j]), B)
  BY <1>1 DEF InOrder
<1>4. ASSUME NEW j \in Backups, NEW k \in Backups, j < k PROVE Before(Lines(p[k]), Lines(p[j]))
  <2>1. k # 1 /\ p[k] = o[k]
    BY <1>0, <1>1, <1>4
  <2> QED BY <1>1, <1>4, <2>1 DEF InOrder
<1>5. \A S : Before(S, Lines(e)) /\ Before(Lines(e), S)
  BY <1>2 DEF Before
<1>6. InOrder(p, e, B, m)
  BY <1>1, <1>2, <1>3, <1>4, <1>5 DEF InOrder
<1> QED BY <1>6 DEF p

\* The live file takes the oldest entry that waits.
LEMMA ShelfWrite ==
  ASSUME NEW o, NEW l \in Seq(Nat), NEW D, NEW m, NEW h \in 1 .. m,
         InOrder(o, l, D \cup {h}, m), Before({h}, D)
  PROVE  InOrder(o, Append(l, h), D, m)
<1> DEFINE k == Append(l, h)
<1>1. Lines(l) = ToSet(l) /\ X!Content(l) = l /\ Rising(l) /\ h \in Nat
  BY ContentIs DEF InOrder
<1>2. Before(ToSet(l), {h})
  BY <1>1 DEF InOrder, Before
<1>3. Rising(k) /\ ToSet(k) = ToSet(l) \cup {h} /\ k \in Seq(Nat)
  BY <1>1, <1>2, RisingAppend
<1> HIDE DEF k
<1>4. Lines(k) = Lines(l) \cup {h} /\ X!Content(k) = k /\ k \in File
  BY <1>1, <1>3, ContentIs
<1>5. ASSUME NEW S, Before(S, Lines(l)), Before(S, D \cup {h})
      PROVE  Before(S, Lines(k)) /\ Before(S, D)
  BY <1>4, <1>5 DEF Before
<1>6. Before(Lines(k), D) /\ Lines(k) \subseteq 1 .. m
  BY <1>4 DEF InOrder, Before
<1>7. InOrder(o, k, D, m)
  BY <1>3, <1>4, <1>5, <1>6 DEF InOrder
<1> QED BY <1>7 DEF k

\* What the file goroutine does not touch.
LEMMA FilesKept ==
  ASSUME FilesSafe, UNCHANGED <<live, old, file, rot, exported>>, ToSet(buffered') \subseteq ToSet(buffered),
         faults' \in Nat, faults' >= faults, run' = "starting" => run = "starting"
  PROVE  FilesSafe'
<1>1. InOrder(old, live, ToSet(buffered'), exported)
  BY ShelfFewer DEF FilesSafe
<1>2. \A f \in Seq(Nat) : Len(f) \in Nat
  OBVIOUS
<1>3. Bounded(old, live, faults') /\ Steady'
  <2>1. live \in File /\ \A i \in Backups : old[i] \in File
    BY DEF FilesSafe, InOrder
  <2>2. faults \in Nat /\ FileMax \in Nat
    BY ExportConstants DEF FilesSafe, Steady
  <2>3. Bounded(old, live, faults')
    BY <1>2, <2>1, <2>2 DEF FilesSafe, Bounded, File
  <2>4. Steady'
    BY <1>2, <2>1, <2>2 DEF FilesSafe, Steady, File
  <2> QED BY <2>3, <2>4
<1> QED BY <1>1, <1>3 DEF FilesSafe

LEMMA ExportFiles == ASSUME HookSafe, FilesSafe, X!export PROVE FilesSafe'
<1>1. /\ exported' = exported + 1 /\ UNCHANGED <<live, old, file, rot, run, faults>>
      /\ \/ buffered' = Append(buffered, exported + 1)
         \/ UNCHANGED buffered
  BY DEF X!export, X!disk
<1>2. exported \in Nat /\ Rising(buffered) /\ Before(ToSet(buffered), {exported + 1})
  BY DEF HookSafe, Before
<1>3. ToSet(buffered') = ToSet(buffered) \cup {exported + 1} \/ UNCHANGED buffered
  <2>1. exported + 1 \in Nat
    BY <1>2
  <2>2. ToSet(Append(buffered, exported + 1)) = ToSet(buffered) \cup {exported + 1}
    BY <1>2, <2>1, RisingAppend
  <2> QED BY <1>1, <2>2
<1>4. InOrder(old, live, ToSet(buffered'), exported')
  BY <1>1, <1>2, <1>3, ShelfMore DEF FilesSafe
<1> QED BY <1>1, <1>4 DEF FilesSafe, Bounded, Steady

\* A call works, or it fails and is counted.
LEMMA FaultsGrow ==
  ASSUME faults \in Nat, X!Works \/ X!Fails
  PROVE  faults' \in Nat /\ faults' >= faults
BY DEF X!Works, X!Fails

LEMMA StartFiles == ASSUME HookSafe, FilesSafe, X!Start PROVE FilesSafe'
<1>1. /\ run = "starting" /\ run' = "running" /\ UNCHANGED <<exported, buffered, old, rot>>
      /\ \/ /\ UNCHANGED faults /\ file' = "open"
            /\ live' = IF live = X!Absent THEN <<>> ELSE live
         \/ /\ faults' = faults + 1 /\ file' = "closed" /\ UNCHANGED live
  BY DEF X!Start, X!openFile, X!Works, X!Fails
<1>2. rot = 0 /\ faults \in Nat /\ FileMax \in Nat \ {0}
  BY <1>1, ExportConstants DEF FilesSafe, Steady
<1>3. CASE UNCHANGED live
  <2>1. CASE file' = "open" /\ UNCHANGED faults
    <3>1. live # X!Absent
      <4>1. live = X!Absent => live' = <<>>
        BY <1>1, <2>1
      <4> QED BY <1>3, <4>1, ContentIs
    <3> QED BY <1>1, <1>2, <1>3, <2>1, <3>1 DEF FilesSafe, Steady
  <2>2. CASE file' = "closed" /\ faults' = faults + 1
    <3>1. live \in File /\ \A i \in Backups : old[i] \in File
      BY DEF FilesSafe, InOrder
    <3>2. \A f \in Seq(Nat) : Len(f) \in Nat
      OBVIOUS
    <3>3. Bounded(old, live, faults')
      BY <1>2, <2>2, <3>1, <3>2 DEF FilesSafe, Bounded, File
    <3>4. Steady'
      BY <1>1, <1>2, <1>3, <2>2 DEF FilesSafe, Steady
    <3> QED BY <1>1, <1>3, <3>3, <3>4 DEF FilesSafe
  <2> QED BY <1>1, <2>1, <2>2
<1>4. CASE live = X!Absent /\ live' = <<>> /\ file' = "open" /\ UNCHANGED faults
  <2>1. InOrder(old, <<>>, ToSet(buffered), exported)
    BY <1>4, ContentIs DEF FilesSafe, InOrder
  <2>2. Len(<<>>) = 0 /\ <<>> # X!Absent
    BY ContentIs
  <2>3. Bounded(old, <<>>, faults) /\ Steady'
    BY <1>1, <1>2, <1>4, <2>2 DEF FilesSafe, Bounded, Steady
  <2> QED BY <1>1, <1>4, <2>1, <2>3 DEF FilesSafe
<1> QED BY <1>1, <1>3, <1>4

LEMMA ConsumeFiles == ASSUME HookSafe, FilesSafe, X!consume PROVE FilesSafe'
<1> DEFINE h == Head(buffered)
<1>1. /\ buffered # <<>> /\ buffered' = Tail(buffered) /\ X!writeFile(h) /\ rot = 0
      /\ run \in {"running", "stopping"} /\ UNCHANGED <<exported, old, run>>
  BY DEF X!consume
<1>2. /\ ToSet(buffered) = ToSet(buffered') \cup {h} /\ h \in 1 .. exported
      /\ Before({h}, ToSet(buffered'))
  <2>1. Rising(buffered) /\ ToSet(buffered) \subseteq 1 .. exported
    BY DEF HookSafe
  <2>2. ToSet(buffered) = {h} \cup ToSet(buffered') /\ Before({h}, ToSet(buffered'))
    BY <1>1, <2>1, RisingTail
  <2> HIDE DEF h
  <2> QED BY <2>1, <2>2
<1>3. X!Works \/ X!Fails
  BY <1>1 DEF X!writeFile
<1>4. faults \in Nat /\ faults' \in Nat /\ faults' >= faults
  BY <1>3, FaultsGrow DEF FilesSafe, Steady
<1> HIDE DEF h
<1>5. CASE UNCHANGED <<live, file, rot>>
  BY <1>1, <1>2, <1>4, <1>5, FilesKept
<1>6. CASE file' = "closed" /\ UNCHANGED <<live, rot>>
  <2>1. live \in File /\ \A i \in Backups : old[i] \in File
    BY DEF FilesSafe, InOrder
  <2>2. \A f \in Seq(Nat) : Len(f) \in Nat
    OBVIOUS
  <2>3. Bounded(old, live, faults')
    BY <1>4, <2>1, <2>2, ExportConstants DEF FilesSafe, Bounded, File
  <2>4. InOrder(old, live, ToSet(buffered'), exported)
    BY <1>2, ShelfFewer DEF FilesSafe
  <2>5. Steady'
    BY <1>1, <1>4, <1>6 DEF FilesSafe, Steady
  <2> QED BY <1>1, <1>6, <2>3, <2>4, <2>5 DEF FilesSafe
<1>7. CASE /\ file = "open" /\ X!Works /\ live' = Append(live, h)
           /\ IF Len(live') >= FileMax THEN file' = "closed" /\ rot' = exportFileRotations
              ELSE UNCHANGED <<file, rot>>
  <2>1. live # X!Absent /\ live \in Seq(Nat) /\ Len(live) < FileMax + faults /\ UNCHANGED faults
    BY <1>1, <1>7 DEF FilesSafe, Steady, InOrder, File, X!Works
  <2>2. live' \in Seq(Nat) /\ Len(live') = Len(live) + 1 /\ Len(live) \in Nat
    BY <1>2, <1>7, <2>1
  <2>3. InOrder(old, live', ToSet(buffered'), exported)
    <3>1. InOrder(old, live, ToSet(buffered') \cup {h}, exported)
      BY <1>2 DEF FilesSafe
    <3> QED BY <1>2, <1>7, <2>1, <3>1, ShelfWrite
  <2>4. Bounded(old, live', faults)
    BY <1>4, <2>1, <2>2, ExportConstants DEF FilesSafe, Bounded
  <2>5. live' # X!Absent
    BY <2>2, ContentIs
  <2>6. Steady'
    <3>1. CASE Len(live') >= FileMax
      BY <1>1, <1>4, <1>7, <2>1, <2>5, <3>1, ExportConstants DEF Steady
    <3>2. CASE ~(Len(live') >= FileMax)
      <4>1. UNCHANGED <<file, rot>> /\ Len(live') < FileMax + faults
        BY <1>4, <1>7, <2>2, <3>2, ExportConstants
      <4> QED BY <1>1, <1>4, <2>1, <2>5, <4>1, ExportConstants DEF Steady
    <3> QED BY <3>1, <3>2
  <2> QED BY <1>1, <2>1, <2>3, <2>4, <2>6 DEF FilesSafe
<1> QED BY <1>1, <1>5, <1>6, <1>7 DEF X!writeFile

\* The files while a rotation goes on.
\* What a step of a rotation makes of the files keeps to the limit.
Movable(o, l, x) ==
  /\ \A i \in Backups : Bounded([o EXCEPT ![i] = X!Absent], l, x)
  /\ \A i \in Backups : i + 1 \in Backups =>
       Bounded([o EXCEPT ![i + 1] = o[i], ![i] = X!Absent], l, x)
  /\ \A e \in {<<>>, X!Absent} : Bounded([o EXCEPT ![1] = l], e, x)

LEMMA ShelfBounded ==
  ASSUME NEW o \in [Backups -> File], NEW l \in File, NEW x \in Nat, Bounded(o, l, x),
         NEW y \in Nat, y >= x
  PROVE  Bounded(o, l, y) /\ Movable(o, l, y)
<1>0. FileMax \in Nat /\ 1 \in Backups
  BY ExportConstants
<1>1. \A f \in Seq(Nat) : Len(f) \in Nat
  OBVIOUS
<1> DEFINE Fits(f) == f # X!Absent => Len(f) <= FileMax + y
<1>2. Fits(l) /\ \A i \in Backups : Fits(o[i])
  BY <1>0, <1>1 DEF Bounded, File
<1>3. Fits(X!Absent) /\ Fits(<<>>)
  BY <1>0
<1>4. \A p, e : Fits(e) /\ (\A j \in Backups : Fits(p[j])) => Bounded(p, e, y)
  BY DEF Bounded
<1> HIDE DEF Fits
<1>5. \A i \in Backups : Bounded([o EXCEPT ![i] = X!Absent], l, y)
  <2> TAKE i \in Backups
  <2> DEFINE p == [o EXCEPT ![i] = X!Absent]
  <2>1. \A j \in Backups : p[j] = X!Absent \/ p[j] = o[j]
    OBVIOUS
  <2> HIDE DEF p
  <2>2. \A j \in Backups : Fits(p[j])
    BY <1>2, <1>3, <2>1
  <2>3. Bounded(p, l, y)
    BY <1>2, <1>4, <2>2
  <2> QED BY <2>3 DEF p
<1>6. ASSUME NEW i \in Backups, i + 1 \in Backups
      PROVE  Bounded([o EXCEPT ![i + 1] = o[i], ![i] = X!Absent], l, y)
  <2> DEFINE p == [o EXCEPT ![i + 1] = o[i], ![i] = X!Absent]
  <2>1. \A j \in Backups : p[j] = X!Absent \/ p[j] = o[j] \/ p[j] = o[i]
    OBVIOUS
  <2> HIDE DEF p
  <2>2. \A j \in Backups : Fits(p[j])
    BY <1>2, <1>3, <2>1
  <2>3. Bounded(p, l, y)
    BY <1>2, <1>4, <2>2
  <2> QED BY <2>3 DEF p
<1>7. ASSUME NEW e \in {<<>>, X!Absent} PROVE Bounded([o EXCEPT ![1] = l], e, y)
  <2> DEFINE p == [o EXCEPT ![1] = l]
  <2>1. \A j \in Backups : p[j] = l \/ p[j] = o[j]
    OBVIOUS
  <2> HIDE DEF p
  <2>2. \A j \in Backups : Fits(p[j])
    BY <1>2, <2>1
  <2>3. Bounded(p, e, y)
    BY <1>3, <1>4, <2>2
  <2> QED BY <2>3 DEF p
<1>8. Bounded(o, l, y)
  BY <1>2, <1>4
<1> QED BY <1>5, <1>6, <1>7, <1>8 DEF Movable

LEMMA RotateFiles == ASSUME HookSafe, FilesSafe, X!rotate PROVE FilesSafe'
<1>1. rot # 0 /\ UNCHANGED <<exported, buffered, run>>
  BY DEF X!rotate
<1>2. /\ live \in Seq(Nat) /\ live # X!Absent /\ file # "open" /\ run # "starting" /\ faults \in Nat
      /\ old \in [Backups -> File] /\ live \in File
  BY <1>1 DEF FilesSafe, Steady, InOrder, File
<1>3. X!Works \/ X!Fails
  BY DEF X!rotate, X!shift
<1>4. faults' \in Nat /\ faults' >= faults
  BY <1>2, <1>3, FaultsGrow
<1>5. /\ exportFileRotations \in Nat \ {0} /\ Backups = 1 .. exportFileRotations
      /\ rot \in -1 .. exportFileRotations /\ FileMax \in Nat \ {0}
  BY ExportConstants DEF Backups, FilesSafe, Steady
<1>6. Bounded(old, live, faults') /\ Movable(old, live, faults')
  <2>1. Bounded(old, live, faults)
    BY DEF FilesSafe
  <2> QED BY ONLY <1>2, <1>4, <2>1, ShelfBounded
<1>7. CASE /\ rot \in Backups /\ rot' = IF rot = 1 THEN -1 ELSE rot - 1
           /\ UNCHANGED <<live, file>>
           /\ \/ old' = [old EXCEPT ![rot] = X!Absent]
              \/ rot + 1 \in Backups /\ old' = [old EXCEPT ![rot + 1] = old[rot], ![rot] = X!Absent]
              \/ UNCHANGED old
  <2>1. rot' \in -1 .. exportFileRotations /\ rot' # 0
    BY <1>5, <1>7
  <2>2. Steady'
    BY <1>1, <1>2, <1>4, <1>7, <2>1 DEF Steady
  <2>3. InOrder(old', live, ToSet(buffered), exported)
    BY <1>7, ShelfRemove, ShelfShift DEF FilesSafe
  <2>4. Bounded(old', live, faults')
    BY <1>6, <1>7 DEF Movable
  <2> QED BY <1>1, <1>7, <2>2, <2>3, <2>4 DEF FilesSafe
<1>8. CASE rot = -1 /\ rot' = 0 /\ UNCHANGED <<live, old, file>>
  <2>1. Steady'
    BY <1>1, <1>2, <1>4, <1>5, <1>8 DEF Steady
  <2>2. Bounded(old, live, faults')
    BY <1>6
  <2> QED BY <1>1, <1>8, <2>1, <2>2 DEF FilesSafe
<1>9. CASE /\ rot = -1 /\ rot' = 0 /\ old' = [old EXCEPT ![1] = live]
           /\ \/ live' = <<>> /\ file' = "open"
              \/ live' = X!Absent /\ UNCHANGED file
  <2>1. live' \in {<<>>, X!Absent}
    BY <1>9
  <2>2. Len(<<>>) = 0 /\ <<>> # X!Absent
    BY ContentIs
  <2>3. Steady'
    BY <1>1, <1>2, <1>4, <1>5, <1>9, <2>2 DEF Steady
  <2>4. InOrder(old', live', ToSet(buffered), exported)
    <3>1. InOrder(old, live, ToSet(buffered), exported)
      BY DEF FilesSafe
    <3>2. InOrder([old EXCEPT ![1] = live], live', ToSet(buffered), exported)
      BY ONLY <2>1, <3>1, ShelfLive
    <3> QED BY <1>9, <3>2
  <2>5. Bounded(old', live', faults')
    BY <1>6, <1>9, <2>1 DEF Movable
  <2> QED BY <1>1, <2>3, <2>4, <2>5 DEF FilesSafe
<1>10. rot = exportFileRotations => rot \in Backups
  BY <1>5
<1>11. rot \in 1 .. exportFileRotations - 1 => rot \in Backups /\ rot + 1 \in Backups
  BY <1>5
<1> QED BY <1>7, <1>8, <1>9, <1>10, <1>11 DEF X!rotate, X!shift

\* A restart finds the files as they were.
LEMMA CrashFiles == ASSUME HookSafe, FilesSafe, X!Crash PROVE FilesSafe'
<1>1. /\ faults' = faults + 1 /\ buffered' = <<>> /\ rot' = 0 /\ file' = "closed"
      /\ UNCHANGED <<exported, live, old>>
  BY DEF X!Crash
<1>2. faults \in Nat /\ faults' \in Nat /\ faults' >= faults /\ live \in File /\ old \in [Backups -> File]
  BY <1>1 DEF FilesSafe, Steady, InOrder
<1>3. ToSet(buffered') = {}
  BY <1>1, RisingEmpty
<1>4. InOrder(old, live, {}, exported)
  BY ShelfFewer DEF FilesSafe
<1>5. Bounded(old, live, faults')
  BY <1>2, ShelfBounded DEF FilesSafe
<1>6. Steady'
  <2>1. live # X!Absent => live \in Seq(Nat) /\ Len(live) <= FileMax + faults
    BY <1>2 DEF FilesSafe, Bounded, File
  <2>2. live \in Seq(Nat) => Len(live) \in Nat
    OBVIOUS
  <2> QED BY <1>1, <1>2, <2>1, <2>2, ExportConstants DEF Steady
<1> QED BY <1>1, <1>3, <1>4, <1>5, <1>6 DEF FilesSafe

LEMMA FinishFiles == ASSUME HookSafe, FilesSafe, X!Finish PROVE FilesSafe'
<1>1. /\ run' = "done" /\ file' = "closed" /\ rot = 0
      /\ UNCHANGED <<exported, buffered, live, old, rot>>
      /\ UNCHANGED faults \/ X!Works \/ X!Fails
  BY DEF X!Finish, X!flushWebhook
<1>2. faults' \in Nat /\ faults' >= faults /\ faults \in Nat
  BY <1>1, FaultsGrow DEF FilesSafe, Steady
<1>3. Bounded(old, live, faults')
  BY <1>2, ShelfBounded DEF FilesSafe, InOrder
<1>4. Steady'
  BY <1>1, <1>2, ExportConstants DEF FilesSafe, Steady
<1> QED BY <1>1, <1>3, <1>4 DEF FilesSafe

LEMMA FilesNext == ASSUME HookSafe, FilesSafe, X!Next \/ UNCHANGED exportVars PROVE FilesSafe'
<1>1. faults \in Nat
  BY DEF FilesSafe, Steady
<1>2. CASE X!FlushFull \/ X!FlushTick
  <2>1. /\ UNCHANGED <<live, old, file, rot, exported, buffered, run>>
        /\ X!Works \/ X!Fails
    BY <1>2 DEF X!FlushFull, X!FlushTick, X!flushWebhook, X!disk
  <2> QED BY <1>1, <2>1, FaultsGrow, FilesKept
<1>3. CASE X!Stop \/ UNCHANGED exportVars
  <2>1. /\ UNCHANGED <<live, old, file, rot, exported, buffered, faults>>
        /\ run' = "starting" => run = "starting"
    BY <1>3 DEF X!Stop, X!disk, exportVars
  <2> QED BY <1>1, <2>1, FilesKept
<1> QED BY <1>2, <1>3, ExportFiles, StartFiles, ConsumeFiles, RotateFiles, CrashFiles, FinishFiles
        DEF X!Next

-----------------------------------------------------------------------------
(* The export: the files read one after the other.                         *)

\* h[i] is the newest i files of g, and f.
Reading(h, n, f, g) == h = [i \in 0 .. n |-> IF i = 0 THEN f ELSE g[i] \o h[i - 1]]

LEMMA ReadingExists == ASSUME NEW N \in Nat, NEW f, NEW g PROVE \E h : Reading(h, N, f, g)
<1> DEFINE Reads(h, n) == h = [i \in 0 .. n |-> IF i = 0 THEN f ELSE g[i] \o h[i - 1]]
           T == {n \in Nat : \E h : Reads(h, n)}
<1>1. 0 \in T
  <2> DEFINE h == [i \in 0 .. 0 |-> f]
  <2>1. \A i \in 0 .. 0 : i = 0
    OBVIOUS
  <2>2. Reads(h, 0)
    BY <2>1
  <2> HIDE DEF Reads, h
  <2> QED BY <2>2
<1>2. ASSUME NEW n \in Nat, n \in T PROVE n + 1 \in T
  <2>1. PICK h : Reads(h, n)
    BY <1>2
  <2> DEFINE k == [i \in 0 .. n + 1 |-> IF i = n + 1 THEN g[n + 1] \o h[n] ELSE h[i]]
  <2>2. \A i \in 0 .. n : k[i] = h[i]
    <3>1. \A i \in 0 .. n : i \in 0 .. n + 1 /\ i # n + 1
      OBVIOUS
    <3> QED BY <3>1
  <2>3. k[n + 1] = g[n + 1] \o h[n] /\ n + 1 # 0 /\ (n + 1) - 1 = n /\ n \in 0 .. n
    <3>1. n + 1 \in 0 .. n + 1 /\ n + 1 # 0 /\ (n + 1) - 1 = n /\ n \in 0 .. n
      OBVIOUS
    <3> QED BY <3>1
  <2>4. \A i \in 0 .. n : h[i] = IF i = 0 THEN f ELSE g[i] \o h[i - 1]
    BY <2>1
  <2>5. \A i \in 0 .. n : i # 0 => i - 1 \in 0 .. n
    OBVIOUS
  <2>6. \A i \in 0 .. n + 1 : i = n + 1 \/ i \in 0 .. n
    OBVIOUS
  <2>7. k = [i \in 0 .. n + 1 |-> k[i]]
    OBVIOUS
  <2> HIDE DEF k, Reads
  <2>8. \A i \in 0 .. n + 1 : k[i] = IF i = 0 THEN f ELSE g[i] \o k[i - 1]
    <3> TAKE i \in 0 .. n + 1
    <3>1. CASE i = n + 1
      BY <2>2, <2>3, <3>1
    <3>2. CASE i \in 0 .. n
      BY <2>2, <2>4, <2>5, <3>2
    <3> QED BY <2>6, <3>1, <3>2
  <2>9. Reads(k, n + 1)
    BY <2>7, <2>8 DEF Reads
  <2> QED BY <2>9
<1> HIDE DEF T
<1>3. Nat \subseteq T
  BY <1>1, <1>2, SetInduction
<1> QED BY <1>3 DEF T, Reading

\* From the oldest file to the live one, entries are in order.
LEMMA FilesRead == FilesSafe => X!FilesInOrder
<1> SUFFICES ASSUME FilesSafe PROVE X!FilesInOrder
  OBVIOUS
<1> DEFINE N == exportFileRotations
           L == X!Content(live)
           g == [i \in Backups |-> X!Content(old[i])]
           Reads(h) == h = [i \in 0 .. N |-> IF i = 0 THEN X!Content(live)
                                             ELSE X!Content(old[i]) \o h[i - 1]]
           it == CHOOSE h : Reads(h)
<1>1. X!Chronicle = it[N]
  BY DEF X!Chronicle
<1>2. N \in Nat \ {0} /\ Backups = 1 .. N /\ \A i \in 0 .. N : i = 0 \/ i \in Backups
  BY ExportConstants DEF Backups
<1>3. \A i \in Backups : g[i] = X!Content(old[i])
  OBVIOUS
<1> HIDE DEF g
<1>4. \E h : Reads(h)
  <2>1. PICK h : Reading(h, N, L, g)
    BY <1>2, ReadingExists
  <2>2. \A i \in 0 .. N : h[i] = IF i = 0 THEN L ELSE X!Content(old[i]) \o h[i - 1]
    <3>1. \A i \in 0 .. N : h[i] = IF i = 0 THEN L ELSE g[i] \o h[i - 1]
      BY <2>1 DEF Reading
    <3> HIDE DEF L
    <3> TAKE i \in 0 .. N
    <3>2. CASE i = 0
      BY <3>1, <3>2
    <3>3. CASE i \in Backups
      <4>1. i # 0 /\ g[i] = X!Content(old[i])
        BY <1>2, <1>3, <3>3
      <4> HIDE DEF N
      <4> QED BY <3>1, <4>1
    <3> QED BY <1>2, <3>2, <3>3
  <2>3. h = [i \in 0 .. N |-> h[i]]
    BY <2>1 DEF Reading
  <2>4. Reads(h)
    BY <2>2, <2>3
  <2> QED BY <2>4
<1> HIDE DEF it, Reads
<1>5. Reads(it)
  BY <1>4 DEF it
<1>6. it[0] = L /\ \A i \in 0 .. N - 1 : it[i + 1] = X!Content(old[i + 1]) \o it[i]
  <2>1. \A i \in 0 .. N : it[i] = IF i = 0 THEN L ELSE X!Content(old[i]) \o it[i - 1]
    BY <1>5 DEF Reads
  <2>2. 0 \in 0 .. N /\ \A i \in 0 .. N - 1 : i + 1 \in 0 .. N /\ i + 1 # 0 /\ (i + 1) - 1 = i
    BY <1>2
  <2> HIDE DEF L, N
  <2> QED BY <2>1, <2>2
<1> DEFINE Upto(i) == /\ Rising(it[i])
                      /\ \A j \in Backups : i < j => Before(Lines(old[j]), ToSet(it[i]))
           T == {i \in Nat : i <= N => Upto(i)}
<1>7. Upto(0)
  BY <1>6 DEF FilesSafe, InOrder, Lines
<1>8. ASSUME NEW i \in 0 .. N - 1, Upto(i) PROVE Upto(i + 1)
  <2> DEFINE c == X!Content(old[i + 1])
  <2>1. i + 1 \in Backups /\ i < i + 1 /\ \A j \in Backups : i + 1 < j => i < j
    BY <1>2
  <2>2. Rising(c) /\ Lines(old[i + 1]) = ToSet(c) /\ it[i + 1] = c \o it[i]
    BY <1>6, <2>1 DEF FilesSafe, InOrder, Lines
  <2> HIDE DEF c
  <2>3. Before(ToSet(c), ToSet(it[i])) /\ Rising(it[i])
    BY <1>8, <2>1, <2>2
  <2>4. Rising(it[i + 1]) /\ ToSet(it[i + 1]) = ToSet(c) \cup ToSet(it[i])
    BY <2>2, <2>3, RisingConcat
  <2>5. ASSUME NEW j \in Backups, i + 1 < j PROVE Before(Lines(old[j]), ToSet(it[i + 1]))
    <3>1. Before(Lines(old[j]), ToSet(c))
      BY <2>1, <2>2, <2>5 DEF FilesSafe, InOrder
    <3>2. Before(Lines(old[j]), ToSet(it[i]))
      BY <1>8, <2>1, <2>5
    <3> QED BY <2>4, <3>1, <3>2 DEF Before
  <2> QED BY <2>4, <2>5
<1> HIDE DEF Upto
<1>9. Upto(N)
  <2>1. 0 \in T
    BY <1>7
  <2>2. ASSUME NEW i \in Nat, i \in T PROVE i + 1 \in T
    <3>1. CASE i + 1 <= N
      <4>1. i \in 0 .. N - 1 /\ Upto(i)
        BY <1>2, <2>2, <3>1
      <4> QED BY <1>8, <4>1
    <3> QED BY <3>1
  <2> HIDE DEF T
  <2>3. Nat \subseteq T
    BY <2>1, <2>2, SetInduction
  <2> QED BY <1>2, <2>3 DEF T
<1>10. \A i \in 1 .. Len(X!Chronicle) - 1 : X!Chronicle[i] < X!Chronicle[i + 1]
  <2>1. Rising(X!Chronicle)
    BY <1>1, <1>9 DEF Upto
  <2>2. Len(X!Chronicle) \in Nat
    BY <2>1 DEF Rising
  <2>3. \A i \in 1 .. Len(X!Chronicle) - 1 :
          i \in 1 .. Len(X!Chronicle) /\ i + 1 \in 1 .. Len(X!Chronicle) /\ i < i + 1
    BY <2>2
  <2> QED BY <2>1, <2>3 DEF Rising
<1>11. \A i \in 1 .. N : old[i] # X!Absent => Len(old[i]) <= FileMax + faults
  BY <1>2 DEF FilesSafe, Bounded
<1> QED BY <1>10, <1>11 DEF X!FilesInOrder

-----------------------------------------------------------------------------
(* The theorems, about the composition.                                    *)

Inv == /\ QueueSafe /\ QueueCounted /\ ChannelsSafe /\ RowsSafe /\ Ordered /\ FramesFit
       /\ HookSafe /\ FilesSafe

LEMMA InitInv == MCInit => Inv
BY QueueInit, QueueCountedInit, ChannelsInit, RowsInit, InitOrdered, InitFits, HookInit, FilesInit
   DEF MCInit, Inv

LEMMA NextInv == Inv /\ [MCNext]_allVars => Inv'
<1> SUFFICES ASSUME Inv, [MCNext]_allVars PROVE Inv'
  OBVIOUS
<1>1. Q!Next \/ UNCHANGED queueVars
  BY DEF MCNext, allVars
<1>2. R!Next \/ UNCHANGED registryVars
  BY DEF MCNext, allVars
<1>3. [Next]_vars
  BY DEF MCNext, allVars
<1>4. Ordered' /\ FramesFit'
  BY <1>3, NextOrdered, NextFits DEF Inv, Ordered
<1>5. X!Next \/ UNCHANGED exportVars
  BY DEF MCNext, allVars
<1>6. HookSafe' /\ FilesSafe'
  BY <1>5, HookNext, FilesNext DEF Inv
<1> QED BY <1>1, <1>2, <1>4, <1>6, QueueNext, QueueCountedNext, ChannelsNext, RowsNext DEF Inv

\* No goroutine of the hub ever sends a frame on the closed channel of a
\* dashboard, nor a command on the closed channel of a worker, either of which
\* would crash the hub, however connects, hellos, teardowns and sends interleave
\* (server.go:475-485, 569-597, 869-875).
THEOREM ChannelsStayOpen == MCSpec => []NoSendOnClosed
<1>1. Inv => NoSendOnClosed
  BY DEF Inv, QueueSafe, ChannelsSafe, NoSendOnClosed, Q!NoPanic, R!NoPanic
<1> QED BY <1>1, InitInv, NextInv, PTL DEF MCSpec, allVars

\* The connection of a node that said hello last is the one commands go to for as
\* long as it is served, whatever older connections of the node are torn down in
\* the meantime; and a node with no handler left is not marked as connected, also
\* when its row was collected and created again (server.go:476-482, 746-755).
THEOREM LatestStaysRegistered == MCSpec => []RegistryFollowsLatest
<1>1. Inv => RegistryFollowsLatest
  <2> SUFFICES ASSUME Inv PROVE R!LiveStaysReachable /\ R!GoneIsNotConnected
    BY DEF RegistryFollowsLatest
  <2>1. R!LiveStaysReachable
    BY DEF Inv, ChannelsSafe, R!LiveStaysReachable, Registered
  <2>2. R!GoneIsNotConnected
    BY DEF Inv, RowsSafe, RowsUnconnected, WillUnconnect, R!GoneIsNotConnected
  <2> QED BY <2>1, <2>2
<1> QED BY <1>1, InitInv, NextInv, PTL DEF MCSpec, allVars

\* The byte counter of a dashboard's queue is the bytes in the channel, in the
\* writer's hand and reserved by calls of trySend in progress, whatever path a
\* frame leaves by; and the channel never holds more than frontQueueBytes except
\* for a single larger frame (server.go:968-1018).
THEOREM QueueIsAccounted == MCSpec => []QueueAccount
<1>1. Inv => QueueAccount
  BY QueueCountedBounds DEF Inv, QueueAccount
<1> QED BY <1>1, InitInv, NextInv, PTL DEF MCSpec, allVars

\* trySend refuses a frame for its bytes only while another is queued, being
\* written or reserved: a dashboard that keeps up gets every frame, also one
\* larger than the whole budget (server.go:1003-1007).
THEOREM NoStarvation == MCSpec => RefusedOnlyWhenBehind
<1> DEFINE Step == \A s \in Q!Senders : spc[s] = "calling" /\ spc'[s] = "refused" =>
                     send # <<>> \/ hand # 0 \/ Q!Reserved # {}
<1>1. Inv /\ [MCNext]_allVars => [Step]_queueVars
  <2> SUFFICES ASSUME Inv, [MCNext]_allVars PROVE Step
    OBVIOUS
  <2>1. Q!Next \/ UNCHANGED queueVars
    BY DEF MCNext, allVars
  <2> QED BY <2>1, RefusedBehind DEF Inv
<1>2. MCSpec => [][Step]_queueVars
  BY <1>1, InitInv, NextInv, PTL DEF MCSpec, allVars
<1> QED BY <1>2 DEF RefusedOnlyWhenBehind, Q!RefusedOnlyWhenBehind, queueVars, Q!vars

\* Entries whose writes succeeded reach the hub at most once and those of one
\* connection in the order of capture, and a frame is over the hub's read limit
\* only for the length of its last record (sink.go:41-49, 252-254, 365-373).
THEOREM EntriesDelivered == MCSpec => []DeliveredOnceInOrder
<1>1. Inv => DeliveredOnceInOrder
  BY OrderedDelivers DEF Inv, DeliveredOnceInOrder
<1> QED BY <1>1, InitInv, NextInv, PTL DEF MCSpec, allVars

\* Whatever calls fail and wherever a crash cuts a rotation in two, the webhook
\* gets entries in order and none twice, and each it does not get is queued,
\* counted as dropped or lost in a crash; the rotated files read in order from the
\* oldest to the live one, and only a failure lets one grow past the limit
\* (export.go:133-144, 228-316).
THEOREM ExportIsAccounted == MCSpec => []ExportAccount
<1>1. Inv => ExportAccount
  BY HookAccounts, FilesRead DEF Inv, ExportAccount
<1> QED BY <1>1, InitInv, NextInv, PTL DEF MCSpec, allVars

-----------------------------------------------------------------------------
(* The pause of a worker's capture.                                        *)

\* No signal is in the slot and none is about to be put there.
NoSignal == ~pauseChanged /\ \A r \in Readers : rpc[r] = "idle"

\* Without a signal, what the loop is doing agrees with the flag: the flag it
\* looked at has not changed since, or a signal would be on its way.
PauseSafe ==
  /\ P!TypeOK
  /\ captureLive = src
  /\ loop = "closing" => src
  /\ loop = "opening" => ~src
  /\ NoSignal /\ loop = "closing" => capturePaused
  /\ NoSignal /\ loop = "opening" => ~capturePaused
  /\ NoSignal /\ loop = "select" => /\ capturePaused => ~src
                                    /\ ~capturePaused => src \/ sourceBroken # "no"

LEMMA InitPause == P!Init => PauseSafe
BY DEF P!Init, PauseSafe, P!TypeOK, NoSignal

LEMMA NextPause == PauseSafe /\ [P!Next]_P!vars => PauseSafe'
<1> SUFFICES ASSUME PauseSafe, [P!Next]_P!vars PROVE PauseSafe'
  OBVIOUS
<1> USE DEF PauseSafe, P!TypeOK, NoSignal
<1>1. ASSUME NEW r \in Readers, P!Command(r) PROVE PauseSafe'
  <2>1. PICK paused \in BOOLEAN :
          /\ capturePaused' = paused
          /\ rpc' = [rpc EXCEPT ![r] = IF paused # capturePaused THEN "signalling" ELSE "idle"]
    BY <1>1 DEF P!Command
  <2>2. UNCHANGED <<pauseChanged, loop, src, captureLive, sourceBroken>> /\ rpc[r] = "idle"
    BY <1>1 DEF P!Command
  <2>3. CASE paused # capturePaused
    <3>1. rpc' \in [Readers -> {"idle", "signalling"}] /\ rpc'[r] = "signalling"
      BY <2>1, <2>3
    <3> QED BY <2>1, <2>2, <3>1
  <2>4. CASE paused = capturePaused
    <3>1. rpc' = rpc /\ capturePaused' = capturePaused
      BY <2>1, <2>2, <2>4
    <3> QED BY <2>2, <3>1
  <2> QED BY <2>3, <2>4
<1>2. ASSUME NEW r \in Readers, P!Signal(r) PROVE PauseSafe'
  BY <1>2 DEF P!Signal
<1>3. CASE P!Wake
  BY <1>3 DEF P!Wake
<1>4. CASE P!CheckPaused
  BY <1>4 DEF P!CheckPaused
<1>5. CASE P!CloseSource
  BY <1>5 DEF P!CloseSource
<1>6. CASE P!Reopen
  BY <1>6 DEF P!Reopen
<1>7. CASE P!ReopenFails
  BY <1>7 DEF P!ReopenFails
<1>8. CASE P!StreamEnds
  BY <1>8 DEF P!StreamEnds
<1>9. CASE UNCHANGED P!vars
  BY <1>9 DEF P!vars
<1> QED BY <1>1, <1>2, <1>3, <1>4, <1>5, <1>6, <1>7, <1>8, <1>9 DEF P!Next, P!captureLoop

\* Once no command, signal or wake-up is under way, the AF_PACKET source is
\* as the hub's last command says, or broken, however many readers of old
\* connections interleave with the loop (sink.go:241-247, worker.go:225-253).
THEOREM WakeupsAreNotLost == P!Spec => []P!NoLostWakeup
<1>1. PauseSafe => P!NoLostWakeup
  BY DEF PauseSafe, NoSignal, P!NoLostWakeup, P!AtRest
<1> QED BY InitPause, NextPause, <1>1, PTL DEF P!Spec
=============================================================================
