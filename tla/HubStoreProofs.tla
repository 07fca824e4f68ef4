---------------------------- MODULE HubStoreProofs ----------------------------
(***************************************************************************)
(* Proofs about HubStore, its refinement of HubHistory and its readers     *)
(* (HubQueries), for every number of goroutines, every capacity and every  *)
(* byte budget.  The inductive invariants are IInv for the store, QInv for *)
(* the shares of /api/stats and WInv for the walks.                        *)
(***************************************************************************)
EXTENDS HubStoreRefinement, HubQueries, SumProofs

USE CapacityAssumption

\* SlotOfAge without the modulus, for a cursor n.
Slot(n, i) == IF i < n THEN n - 1 - i ELSE n - 1 - i + Capacity

\* Reduction modulo the capacity of a number below twice the capacity.
LEMMA ModCapacity ==
  ASSUME NEW x \in Nat, x < 2 * Capacity
  PROVE  x % Capacity = IF x < Capacity THEN x ELSE x - Capacity
<1>1. CASE x < Capacity
  BY <1>1
<1>2. CASE x >= Capacity
  <2>1. x = 1 * Capacity + (x - Capacity) /\ x - Capacity \in 0 .. Capacity - 1
    BY <1>2
  <2> QED BY <2>1, <1>2
<1> QED BY <1>1, <1>2

\* The slot arithmetic of snapshotEntries and of the budget loop.
LEMMA SlotArithmetic ==
  ASSUME NEW n \in Slots, NEW i \in Slots
  PROVE  /\ (n - 1 - i + Capacity) % Capacity = Slot(n, i)
         /\ Slot(n, i) \in Slots
<1>1. n - 1 - i + Capacity \in Nat /\ n - 1 - i + Capacity < 2 * Capacity
  BY DEF Slots
<1> QED BY <1>1, ModCapacity DEF Slot, Slots

\* Moving the cursor by one makes every slot one older; the slot under the
\* cursor is the oldest one.
LEMMA CursorAdvance ==
  ASSUME NEW n \in Slots
  PROVE  /\ (n + 1) % Capacity \in Slots
         /\ Slot((n + 1) % Capacity, 0) = n
         /\ Slot(n, Capacity - 1) = n
         /\ \A i \in Slots \ {0} : Slot((n + 1) % Capacity, i) = Slot(n, i - 1)
         /\ \A i, j \in Slots : Slot(n, i) = Slot(n, j) => i = j
<1>1. n + 1 \in Nat /\ n + 1 < 2 * Capacity
  BY DEF Slots
<1>2. (n + 1) % Capacity = IF n + 1 < Capacity THEN n + 1 ELSE 0
  BY <1>1, ModCapacity DEF Slots
<1> QED BY <1>2 DEF Slot, Slots

\* Every slot has an age.
LEMMA EverySlotHasAge ==
  ASSUME NEW n \in Slots, NEW s \in Slots
  PROVE  \E i \in Slots : Slot(n, i) = s
<1>1. CASE s < n
  <2>1. n - 1 - s \in Slots /\ Slot(n, n - 1 - s) = s
    BY <1>1 DEF Slot, Slots
  <2> QED BY <2>1
<1>2. CASE s >= n
  <2>1. n - 1 - s + Capacity \in Slots /\ Slot(n, n - 1 - s + Capacity) = s
    BY <1>2 DEF Slot, Slots
  <2> QED BY <2>1
<1> QED BY <1>1, <1>2 DEF Slots

-----------------------------------------------------------------------------
(* Type correctness needs to know that a goroutine inside add() has an     *)
(* entry in hand, and that an empty slot under the cursor means that the   *)
(* ring is not full: without the latter live could exceed the capacity.    *)

TInv == TypeOK /\ LockInv /\ RingContiguous

LEMMA InitTInv == Init => TInv
<1> SUFFICES ASSUME Init PROVE TInv
  OBVIOUS
<1>1. TypeOK
  BY DEF Init, TypeOK, Slots
<1>2. LockInv
  BY NilAssumption DEF Init, LockInv
<1>3. RingContiguous
  <2>1. 0 \in Slots
    BY DEF Slots
  <2>2. ASSUME NEW i \in Slots PROVE SlotOfAge(i) \in Slots /\ ~(i < live)
    BY <2>1, SlotArithmetic DEF Init, SlotOfAge, Slots
  <2> QED BY <2>2 DEF Init, RingContiguous
<1> QED BY <1>1, <1>2, <1>3 DEF TInv

\* RingContiguous in terms of Slot.
LEMMA Contiguous ==
  ASSUME TInv
  PROVE  /\ next \in Slots
         /\ \A i \in Slots : SlotOfAge(i) = Slot(next, i) /\ Slot(next, i) \in Slots
         /\ \A i \in Slots : buf[Slot(next, i)] # Nil <=> i < live
         /\ buf[next] = Nil <=> live < Capacity
<1>1. next \in Slots
  BY DEF TInv, TypeOK
<1>2. \A i \in Slots : SlotOfAge(i) = Slot(next, i) /\ Slot(next, i) \in Slots
  BY <1>1, SlotArithmetic DEF SlotOfAge
<1>3. \A i \in Slots : buf[Slot(next, i)] # Nil <=> i < live
  BY <1>2 DEF TInv, RingContiguous
<1>4. buf[next] = Nil <=> live < Capacity
  <2>1. Capacity - 1 \in Slots /\ (Capacity - 1 < live <=> ~(live < Capacity))
    BY DEF TInv, TypeOK, Slots
  <2>2. Slot(next, Capacity - 1) = next
    BY <1>1, CursorAdvance
  <2> QED BY <1>3, <2>1, <2>2
<1> QED BY <1>1, <1>2, <1>3, <1>4

\* What a goroutine in the middle of add() holds.
LEMMA InHand ==
  ASSUME TInv, NEW a \in Adders, pc[a] # "idle"
  PROVE  cur[a] \in Entry /\ cur[a] # Nil
BY DEF TInv, TypeOK, LockInv

LEMMA RawTyped ==
  ASSUME NEW e \in Entry
  PROVE  /\ RawOf(e) \in [of : Nat, len : Nat] \cup {NoRaw}
         /\ e.len \in Nat /\ e.id \in IDs /\ e.seq \in Nat
BY LensAssumption DEF RawOf, Entry

LEMMA RawLenTyped ==
  ASSUME NEW r \in [of : Nat, len : Nat] \cup {NoRaw}
  PROVE  RawLen(r) \in Nat
BY DEF RawLen

LEMMA CountTyped ==
  ASSUME TInv, NEW e \in Entry, CountEntry(e)
  PROVE  byProtocol' \in [Protocols -> Nat] /\ byStatus' \in [Statuses -> Nat]
<1>1. e.proto \in Protocols /\ e.status \in Statuses \cup {NoStatus}
  BY DEF Entry
<1>2. byProtocol' \in [Protocols -> Nat]
  BY <1>1 DEF TInv, TypeOK, CountEntry
<1>3. CASE e.status = NoStatus
  BY <1>1, <1>2, <1>3 DEF TInv, TypeOK, CountEntry
<1>4. CASE e.status # NoStatus
  BY <1>1, <1>2, <1>4 DEF TInv, TypeOK, CountEntry
<1> QED BY <1>3, <1>4

LEMMA UnindexTyped ==
  ASSUME NEW index \in [IDs -> Entry \cup {Nil}], NEW old \in Entry
  PROVE  Unindex(index, old) \in [IDs -> Entry \cup {Nil}]
BY DEF Unindex, Entry

LEMMA NextTInv == TInv /\ [Next]_vars => TInv'
<1> SUFFICES ASSUME TInv, [Next]_vars PROVE TInv'
  OBVIOUS
<1> USE DEF TInv
<1>1. ASSUME NEW a \in Adders, AddSeq(a) PROVE TInv'
  <2>1. PICK id \in IDs, n \in Lens, p \in Protocols, st \in Statuses \cup {NoStatus} :
          cur' = [cur EXCEPT ![a] = [id |-> id, seq |-> total + 1, len |-> n,
                                     proto |-> p, status |-> st]]
    BY <1>1 DEF AddSeq
  <2>2. [id |-> id, seq |-> total + 1, len |-> n, proto |-> p, status |-> st] \in Entry
    BY DEF TypeOK, Entry
  <2>3. TypeOK'
    BY <1>1, <2>1, <2>2 DEF AddSeq, TypeOK, ringVars, countVars
  <2>4. LockInv'
    BY <1>1, <2>1, <2>2, NilAssumption DEF AddSeq, TypeOK, LockInv
  <2>5. RingContiguous'
    BY <1>1 DEF AddSeq, ringVars, RingContiguous, SlotOfAge
  <2> QED BY <2>3, <2>4, <2>5
<1>2. ASSUME NEW a \in Adders, AddOversize(a) PROVE TInv'
  <2>1. cur[a] \in Entry
    BY <1>2, InHand DEF AddOversize
  <2>2. TypeOK'
    BY <1>2, <2>1, CountTyped DEF AddOversize, TypeOK, ringVars
  <2>3. LockInv'
    BY <1>2, NilAssumption DEF AddOversize, TypeOK, LockInv
  <2>4. RingContiguous'
    BY <1>2 DEF AddOversize, ringVars, RingContiguous, SlotOfAge
  <2> QED BY <2>2, <2>3, <2>4
<1>3. ASSUME NEW a \in Adders, AddPlace(a) PROVE TInv'
  <2>1. cur[a] \in Entry /\ RawOf(cur[a]) \in [of : Nat, len : Nat] \cup {NoRaw}
        /\ cur[a].len \in Nat /\ cur[a].id \in IDs
    BY <1>3, InHand, RawTyped DEF AddPlace
  <2>2. next' \in Slots
    BY <1>3, CursorAdvance DEF AddPlace, TypeOK
  <2>3. retainedBytes' \in Int
    BY <1>3, <2>1, RawLenTyped DEF AddPlace, PlacedBytes, TypeOK
  <2>4. byID' \in [IDs -> Entry \cup {Nil}]
    <3>1. CASE buf[next] = Nil
      BY <1>3, <2>1, <3>1 DEF AddPlace, TypeOK
    <3>2. CASE buf[next] # Nil
      <4>1. Unindex(byID, buf[next]) \in [IDs -> Entry \cup {Nil}]
        BY <3>2, UnindexTyped DEF TypeOK
      <4> QED BY <1>3, <2>1, <3>2, <4>1 DEF AddPlace
    <3> QED BY <3>1, <3>2
  <2>5. live' \in 0 .. Capacity
    BY <1>3, Contiguous DEF AddPlace, TypeOK
  <2>6. TypeOK'
    BY <1>3, <2>1, <2>2, <2>3, <2>4, <2>5 DEF AddPlace, TypeOK, countVars
  <2>7. LockInv'
    BY <1>3, NilAssumption DEF AddPlace, TypeOK, LockInv
  <2>8. ASSUME NEW i \in Slots PROVE (buf[SlotOfAge(i)] # Nil <=> i < live)'
    <3>1. SlotOfAge(i)' = Slot(next', i)
      BY <2>2, SlotArithmetic DEF SlotOfAge
    <3>2. CASE i = 0
      <4>1. buf'[Slot(next', i)] = cur[a]
        BY <1>3, <3>2, CursorAdvance, Contiguous DEF AddPlace, TypeOK
      <4>2. live' > 0
        BY <1>3, Contiguous DEF AddPlace, TypeOK
      <4> QED BY <1>3, <3>1, <3>2, <4>1, <4>2, InHand DEF AddPlace
    <3>3. CASE i # 0
      <4>1. i - 1 \in Slots /\ Slot(next', i) = Slot(next, i - 1)
            /\ Slot(next, i - 1) # next
        <5>1. i - 1 \in Slots /\ Capacity - 1 \in Slots /\ i - 1 # Capacity - 1
          BY <3>3 DEF Slots
        <5>2. Slot(next', i) = Slot(next, i - 1)
          BY <1>3, <3>3, CursorAdvance, Contiguous DEF AddPlace
        <5> QED BY <5>1, <5>2, CursorAdvance, Contiguous
      <4>2. buf'[Slot(next', i)] = buf[Slot(next, i - 1)]
        BY <1>3, <4>1, Contiguous DEF AddPlace, TypeOK
      <4>3. i - 1 < live <=> i < live'
        BY <1>3, Contiguous DEF AddPlace, TypeOK, Slots
      <4> QED BY <3>1, <4>1, <4>2, <4>3, Contiguous
    <3> QED BY <3>2, <3>3
  <2> QED BY <2>6, <2>7, <2>8 DEF RingContiguous
<1>4. ASSUME NEW a \in Adders, AddEvict(a) PROVE TInv'
  <2>1. live \in 1 .. Capacity /\ live - 1 \in Slots
    BY <1>4 DEF AddEvict, OverBudget, TypeOK, Slots
  <2>2. (next - live + Capacity) % Capacity = Slot(next, live - 1)
    <3>1. next - live + Capacity = next - 1 - (live - 1) + Capacity
      BY <2>1, Contiguous DEF Slots
    <3> QED BY <2>1, <3>1, Contiguous, SlotArithmetic
  <2>3. /\ Slot(next, live - 1) \in Slots
        /\ buf[Slot(next, live - 1)] \in Entry
    BY <2>1, Contiguous DEF TypeOK
  <2>4. RawLen(raw[Slot(next, live - 1)]) \in Nat
    BY <2>3, RawLenTyped DEF TypeOK
  <2>5. byID' \in [IDs -> Entry \cup {Nil}]
    BY <1>4, <2>2, <2>3, UnindexTyped DEF AddEvict, TypeOK
  <2>6. TypeOK'
    BY <1>4, <2>1, <2>2, <2>3, <2>4, <2>5 DEF AddEvict, TypeOK, countVars
  <2>7. LockInv'
    BY <1>4 DEF AddEvict, LockInv
  <2>8. ASSUME NEW i \in Slots PROVE (buf[SlotOfAge(i)] # Nil <=> i < live)'
    <3>1. SlotOfAge(i)' = Slot(next, i) /\ Slot(next, i) \in Slots
      BY <1>4, Contiguous DEF AddEvict, SlotOfAge
    <3>2. CASE i = live - 1
      BY <1>4, <2>1, <2>2, <2>3, <3>1, <3>2 DEF AddEvict, TypeOK
    <3>3. CASE i # live - 1
      <4>1. Slot(next, i) # Slot(next, live - 1)
        BY <2>1, <3>3, Contiguous, CursorAdvance
      <4>2. buf'[Slot(next, i)] = buf[Slot(next, i)]
        BY <1>4, <2>2, <2>3, <3>1, <4>1 DEF AddEvict, TypeOK
      <4>3. i < live <=> i < live'
        BY <1>4, <2>1, <3>3 DEF AddEvict, Slots
      <4> QED BY <3>1, <4>2, <4>3, Contiguous
    <3> QED BY <3>2, <3>3
  <2> QED BY <2>6, <2>7, <2>8 DEF RingContiguous
<1>5. ASSUME NEW a \in Adders, AddDone(a) PROVE TInv'
  <2>1. cur[a] \in Entry
    BY <1>5, InHand DEF AddDone
  <2>2. TypeOK'
    BY <1>5, <2>1, CountTyped DEF AddDone, TypeOK, ringVars
  <2>3. LockInv'
    BY <1>5, NilAssumption DEF AddDone, TypeOK, LockInv
  <2>4. RingContiguous'
    BY <1>5 DEF AddDone, ringVars, RingContiguous, SlotOfAge
  <2> QED BY <2>2, <2>3, <2>4
<1>6. CASE UNCHANGED vars
  BY <1>6 DEF vars, ringVars, countVars, TypeOK, LockInv, RingContiguous, SlotOfAge
<1> QED BY <1>1, <1>2, <1>3, <1>4, <1>5, <1>6 DEF Next, Add

\* The store's variables keep their types: in particular the cursor stays in
\* the ring and live within the capacity through any mix of overwrites and
\* budget evictions (store.go:105-181).
THEOREM TypeCorrect == Spec => []TypeOK
<1>1. TInv => TypeOK
  BY DEF TInv
<1> QED BY InitTInv, NextTInv, <1>1, PTL DEF Spec

-----------------------------------------------------------------------------
(* The id index.  When a slot is overwritten or evicted, the guard         *)
(* byID[old.ID] == old compares entries; that it removes the row exactly   *)
(* when no live entry of that id is left needs two more facts: no two      *)
(* entries are equal (SeqUnique), and the row names the newest one.        *)

SInv == TInv /\ SeqUnique

LEMMA InitSInv == Init => SInv
<1> SUFFICES ASSUME Init PROVE SInv
  OBVIOUS
<1>1. SeqUnique
  BY DEF Init, SeqUnique, LiveSlots
<1> QED BY <1>1, InitTInv DEF SInv

LEMMA SeqTyped ==
  ASSUME TInv
  PROVE  /\ total \in Nat
         /\ \A i \in LiveSlots : buf[i] \in Entry /\ buf[i].seq \in Nat
         /\ \A a \in Adders : cur[a] # Nil => cur[a] \in Entry /\ cur[a].seq \in Nat
BY RawTyped DEF TInv, TypeOK, LiveSlots

LEMMA NextSInv == SInv /\ [Next]_vars => SInv'
<1> SUFFICES ASSUME SInv, [Next]_vars PROVE SInv'
  OBVIOUS
<1>0. TInv /\ TInv' /\ SeqUnique
  BY NextTInv DEF SInv
<1>1. ASSUME NEW a \in Adders, AddSeq(a) PROVE SeqUnique'
  <2>1. cur' = [cur EXCEPT ![a] = cur'[a]] /\ cur'[a].seq = total + 1
    BY <1>0, <1>1 DEF AddSeq, TInv, TypeOK
  <2>2. LiveSlots' = LiveSlots /\ buf' = buf /\ total' = total + 1
    BY <1>1 DEF AddSeq, ringVars, LiveSlots
  <2>3. pc' = [pc EXCEPT ![a] = "marshaled"]
    BY <1>1 DEF AddSeq
  <2> QED BY <1>0, <2>1, <2>2, <2>3, SeqTyped, SMTT(30) DEF SeqUnique, TInv, TypeOK
<1>2. ASSUME NEW a \in Adders, AddOversize(a) PROVE SeqUnique'
  <2>1. cur' = [cur EXCEPT ![a] = Nil] /\ pc' = [pc EXCEPT ![a] = "idle"]
    BY <1>2 DEF AddOversize
  <2>2. LiveSlots' = LiveSlots /\ buf' = buf /\ total' = total
    BY <1>2 DEF AddOversize, ringVars, LiveSlots
  <2> QED BY <1>0, <2>1, <2>2 DEF SeqUnique, TInv, TypeOK
<1>3. ASSUME NEW a \in Adders, AddPlace(a) PROVE SeqUnique'
  <2>1. buf' = [buf EXCEPT ![next] = cur[a]] /\ next \in Slots /\ cur[a] # Nil
    BY <1>0, <1>3, InHand DEF AddPlace, TInv, TypeOK
  <2>2. LiveSlots' = LiveSlots \cup {next}
    BY <1>0, <2>1 DEF LiveSlots, TInv, TypeOK
  <2>3. cur' = cur /\ total' = total /\ pc[a] = "marshaled"
        /\ pc' = [pc EXCEPT ![a] = "evicting"]
    BY <1>3 DEF AddPlace
  <2>4. /\ buf'[next] = cur[a]
        /\ \A i \in LiveSlots \ {next} : buf'[i] = buf[i]
    BY <1>0, <2>1 DEF LiveSlots, TInv, TypeOK
  <2>5. \A i \in LiveSlots' : buf'[i].seq <= total'
    BY <1>0, <2>1, <2>2, <2>3, <2>4 DEF SeqUnique
  <2>6. \A i, j \in LiveSlots' : buf'[i].seq = buf'[j].seq => i = j
    BY <1>0, <2>2, <2>3, <2>4 DEF SeqUnique
  <2>7. \A b \in Adders, i \in LiveSlots' :
          pc'[b] = "marshaled" => cur'[b].seq # buf'[i].seq
    <3> TAKE b \in Adders, i \in LiveSlots'
    <3> HAVE pc'[b] = "marshaled"
    <3>1. b # a /\ pc[b] = "marshaled" /\ cur[b] # Nil
      BY <1>0, <2>3 DEF TInv, TypeOK, LockInv
    <3>2. CASE i = next
      BY <1>0, <2>1, <2>3, <2>4, <3>1, <3>2 DEF SeqUnique
    <3>3. CASE i # next
      BY <1>0, <2>2, <2>3, <2>4, <3>1, <3>3 DEF SeqUnique
    <3> QED BY <3>2, <3>3
  <2> QED BY <1>0, <2>3, <2>5, <2>6, <2>7 DEF SeqUnique
<1>4. ASSUME NEW a \in Adders, AddEvict(a) PROVE SeqUnique'
  <2>1. PICK k : buf' = [buf EXCEPT ![k] = Nil]
    BY <1>4 DEF AddEvict
  <2>2. \A i \in LiveSlots' : i \in LiveSlots /\ buf'[i] = buf[i]
    BY <1>0, <2>1 DEF LiveSlots, TInv, TypeOK
  <2>3. cur' = cur /\ pc' = pc /\ total' = total
    BY <1>4 DEF AddEvict
  <2> QED BY <1>0, <2>2, <2>3 DEF SeqUnique
<1>5. ASSUME NEW a \in Adders, AddDone(a) PROVE SeqUnique'
  <2>1. cur' = [cur EXCEPT ![a] = Nil] /\ pc' = [pc EXCEPT ![a] = "idle"]
    BY <1>5 DEF AddDone
  <2>2. LiveSlots' = LiveSlots /\ buf' = buf /\ total' = total
    BY <1>5 DEF AddDone, ringVars, LiveSlots
  <2> QED BY <1>0, <2>1, <2>2 DEF SeqUnique, TInv, TypeOK
<1>6. ASSUME UNCHANGED vars PROVE SeqUnique'
  BY <1>0, <1>6 DEF vars, ringVars, SeqUnique, LiveSlots
<1>7. SeqUnique'
  BY <1>1, <1>2, <1>3, <1>4, <1>5, <1>6 DEF Next, Add
<1> QED BY <1>0, <1>7 DEF SInv

\* The row of id names the entry of age k, the newest with that id.
Newest(id, k) ==
  /\ k \in 0 .. live - 1
  /\ buf[Slot(next, k)] = byID[id]
  /\ byID[id].id = id
  /\ \A j \in 0 .. k - 1 : buf[Slot(next, j)].id # id

\* IndexIsNewest in terms of Slot.
IndexByAge ==
  \A id \in IDs :
    /\ byID[id] = Nil => \A i \in 0 .. live - 1 : buf[Slot(next, i)].id # id
    /\ byID[id] # Nil => \E k \in Slots : Newest(id, k)

LEMMA IndexByAgeIff == TInv => (IndexIsNewest <=> IndexByAge)
<1> SUFFICES ASSUME TInv PROVE IndexIsNewest <=> IndexByAge
  OBVIOUS
<1>1. \A i \in 0 .. live - 1 : i \in Slots /\ SlotOfAge(i) = Slot(next, i)
  BY Contiguous DEF TInv, TypeOK, Slots
<1>2. ASSUME NEW i \in 0 .. live - 1, NEW j \in 0 .. i - 1 PROVE j \in 0 .. live - 1
  BY DEF TInv, TypeOK
<1> QED BY <1>1, <1>2 DEF IndexIsNewest, IndexByAge, Newest

IInv == SInv /\ IndexByAge

LEMMA InitIInv == Init => IInv
<1> SUFFICES ASSUME Init PROVE IInv
  OBVIOUS
<1>1. IndexByAge
  BY DEF Init, IndexByAge
<1> QED BY <1>1, InitSInv DEF IInv

\* Two ages that hold the same live entry are the same age.
LEMMA AgeOfEntry ==
  ASSUME SInv, NEW i \in 0 .. live - 1, NEW j \in 0 .. live - 1,
         buf[Slot(next, i)] = buf[Slot(next, j)]
  PROVE  i = j
<1>1. i \in Slots /\ j \in Slots /\ i < live /\ j < live
  BY DEF SInv, TInv, TypeOK, Slots
<1>2. Slot(next, i) \in LiveSlots /\ Slot(next, j) \in LiveSlots
  BY <1>1, Contiguous DEF SInv, LiveSlots
<1>3. Slot(next, i) = Slot(next, j)
  BY <1>2 DEF SInv, SeqUnique
<1>4. next \in Slots
  BY Contiguous DEF SInv
<1>5. \A k, l \in Slots : Slot(next, k) = Slot(next, l) => k = l
  BY <1>4, CursorAdvance
<1> QED BY <1>1, <1>3, <1>5

\* AddPlace shifts every age by one, drops the oldest entry of a full ring,
\* and puts the new entry in front.
LEMMA PlaceShifts ==
  ASSUME TInv, NEW a \in Adders, AddPlace(a)
  PROVE  /\ buf'[Slot(next', 0)] = cur[a]
         /\ \A i \in Slots \ {0} : buf'[Slot(next', i)] = buf[Slot(next, i - 1)]
         /\ live' = IF live < Capacity THEN live + 1 ELSE live
         /\ Slot(next, Capacity - 1) = next
         /\ live \in 0 .. Capacity
<1>1. next \in Slots /\ next' = (next + 1) % Capacity /\ buf' = [buf EXCEPT ![next] = cur[a]]
      /\ buf \in [Slots -> Entry \cup {Nil}]
  BY Contiguous DEF AddPlace, TInv, TypeOK
<1>2. buf'[Slot(next', 0)] = cur[a]
  BY <1>1, CursorAdvance
<1>3. ASSUME NEW i \in Slots \ {0} PROVE buf'[Slot(next', i)] = buf[Slot(next, i - 1)]
  <2>1. i - 1 \in Slots /\ Capacity - 1 \in Slots /\ i - 1 # Capacity - 1
    BY DEF Slots
  <2>2. Slot(next', i) = Slot(next, i - 1) /\ Slot(next, i - 1) # next
    BY <1>1, <2>1, CursorAdvance
  <2>3. Slot(next, i - 1) \in Slots
    BY <2>1, Contiguous
  <2> QED BY <1>1, <2>2, <2>3
<1>4. live' = (IF live < Capacity THEN live + 1 ELSE live) /\ live \in 0 .. Capacity
  BY Contiguous DEF AddPlace, TInv, TypeOK
<1> QED BY <1>1, <1>2, <1>3, <1>4, CursorAdvance

LEMMA PlaceIndex ==
  ASSUME IInv, NEW a \in Adders, AddPlace(a)
  PROVE  IndexByAge'
<1> DEFINE e == cur[a]
           old == buf[next]
           kept == IF old = Nil THEN byID ELSE Unindex(byID, old)
<1>1. TInv /\ SInv
  BY DEF IInv, SInv
<1>2. e \in Entry /\ e # Nil /\ e.id \in IDs
  BY <1>1, InHand, RawTyped DEF AddPlace
<1>3. byID \in [IDs -> Entry \cup {Nil}] /\ (old = Nil <=> live < Capacity)
      /\ (old # Nil => old \in Entry /\ old.id \in IDs)
  BY <1>1, Contiguous, RawTyped DEF TInv, TypeOK
<1>4. kept \in [IDs -> Entry \cup {Nil}] /\ byID' = [kept EXCEPT ![e.id] = e]
  BY <1>3, UnindexTyped DEF AddPlace
<1>5. /\ buf'[Slot(next', 0)] = e
      /\ \A i \in Slots \ {0} : buf'[Slot(next', i)] = buf[Slot(next, i - 1)]
      /\ live' = (IF live < Capacity THEN live + 1 ELSE live)
      /\ live \in 0 .. Capacity
      /\ Slot(next, Capacity - 1) = next
  BY <1>1, PlaceShifts
<1>6. ASSUME NEW id \in IDs, byID'[id] = Nil, NEW i \in 0 .. live' - 1
      PROVE  buf'[Slot(next', i)].id # id
  <2>1. id # e.id /\ kept[id] = Nil
    BY <1>2, <1>4, <1>6
  <2>2. CASE i = 0
    BY <1>5, <2>1, <2>2
  <2>3. CASE i # 0
    <3>1. i \in Slots \ {0} /\ i - 1 \in 0 .. live - 1 /\ i - 1 < Capacity - 1
      BY <1>5, <2>3 DEF Slots
    <3>2. CASE byID[id] = Nil
      BY <1>5, <3>1, <3>2 DEF IInv, IndexByAge
    <3>3. CASE byID[id] # Nil
      <4>1. old # Nil /\ id = old.id /\ byID[id] = old /\ live = Capacity
        BY <1>3, <1>5, <2>1, <3>3 DEF Unindex
      <4>2. PICK k \in Slots : Newest(id, k)
        BY <3>3 DEF IInv, IndexByAge
      <4>3. k = Capacity - 1
        BY <1>1, <1>5, <4>1, <4>2, AgeOfEntry DEF Newest
      <4> QED BY <1>5, <3>1, <4>2, <4>3 DEF Newest
    <3> QED BY <3>2, <3>3
  <2> QED BY <2>2, <2>3
<1>7. ASSUME NEW id \in IDs, byID'[id] # Nil
      PROVE  \E k \in Slots : Newest(id, k)'
  <2>1. CASE id = e.id
    <3>1. Newest(id, 0)' /\ 0 \in Slots
      BY <1>2, <1>4, <1>5, <2>1 DEF Newest, Slots
    <3> QED BY <3>1
  <2>2. CASE id # e.id
    <3>1. byID'[id] = byID[id] /\ byID[id] # Nil /\ (old # Nil => byID[id] # old)
      <4>1. PICK k \in Slots : byID[id] # Nil => Newest(id, k)
        BY DEF IInv, IndexByAge, Slots
      <4> QED BY <1>3, <1>4, <1>7, <2>2, <4>1 DEF Unindex, Newest
    <3>2. PICK k \in Slots : Newest(id, k)
      BY <3>1 DEF IInv, IndexByAge
    <3>3. k + 1 \in 0 .. live' - 1 /\ k + 1 \in Slots \ {0}
      BY <1>3, <1>5, <3>1, <3>2 DEF Newest, Slots
    <3>4. ASSUME NEW j \in 0 .. k PROVE buf'[Slot(next', j)].id # id
      <4>1. CASE j = 0
        BY <1>5, <2>2, <4>1
      <4>2. CASE j # 0
        <5>1. j \in Slots \ {0} /\ j - 1 \in 0 .. k - 1
          BY <4>2 DEF Slots
        <5> QED BY <1>5, <3>2, <5>1 DEF Newest
      <4> QED BY <4>1, <4>2
    <3>5. Newest(id, k + 1)'
      BY <1>5, <3>1, <3>2, <3>3, <3>4 DEF Newest
    <3> QED BY <3>3, <3>5
  <2> QED BY <2>1, <2>2
<1> QED BY <1>6, <1>7 DEF IndexByAge

\* AddEvict clears the slot of the oldest entry and leaves the ages of the
\* others alone.
LEMMA EvictShifts ==
  ASSUME TInv, NEW a \in Adders, AddEvict(a)
  PROVE  /\ live \in 1 .. Capacity /\ live - 1 \in Slots /\ live' = live - 1 /\ next' = next
         /\ (next - live + Capacity) % Capacity = Slot(next, live - 1)
         /\ Slot(next, live - 1) \in Slots
         /\ \A i \in 0 .. live - 2 : i \in Slots /\ buf'[Slot(next', i)] = buf[Slot(next, i)]
<1> DEFINE s == Slot(next, live - 1)
<1>1. live \in 1 .. Capacity /\ live - 1 \in Slots /\ live' = live - 1 /\ next' = next
  BY DEF AddEvict, OverBudget, TInv, TypeOK, Slots
<1>2. next \in Slots /\ s \in Slots
  BY <1>1, Contiguous
<1>3. (next - live + Capacity) % Capacity = s
  <2>1. next - live + Capacity = next - 1 - (live - 1) + Capacity
    BY <1>1, <1>2 DEF Slots
  <2> QED BY <1>1, <1>2, <2>1, SlotArithmetic
<1>4. \A i \in 0 .. live - 2 : i \in Slots /\ buf'[Slot(next', i)] = buf[Slot(next, i)]
  <2> TAKE i \in 0 .. live - 2
  <2>1. i \in Slots /\ i # live - 1
    BY <1>1 DEF Slots
  <2>2. Slot(next, i) \in Slots /\ \A j, k \in Slots : Slot(next, j) = Slot(next, k) => j = k
    BY <1>2, <2>1, Contiguous, CursorAdvance
  <2>3. Slot(next, i) # s
    BY <1>1, <2>1, <2>2
  <2> QED BY <1>1, <1>3, <2>1, <2>2, <2>3 DEF AddEvict, TInv, TypeOK
<1> QED BY <1>1, <1>2, <1>3, <1>4

LEMMA EvictIndex ==
  ASSUME IInv, NEW a \in Adders, AddEvict(a)
  PROVE  IndexByAge'
<1> DEFINE s == Slot(next, live - 1)
           old == buf[s]
<1>1. TInv /\ SInv
  BY DEF IInv, SInv
<1>2. live \in 1 .. Capacity /\ live - 1 \in Slots /\ live' = live - 1 /\ next' = next
      /\ (next - live + Capacity) % Capacity = s
  BY <1>1, EvictShifts
<1>3. s \in Slots /\ old \in Entry /\ old # Nil /\ old.id \in IDs
      /\ byID \in [IDs -> Entry \cup {Nil}]
  BY <1>1, <1>2, Contiguous, RawTyped DEF TInv, TypeOK
<1>4. byID' = Unindex(byID, old)
  BY <1>2, <1>3 DEF AddEvict
<1>5. \A i \in 0 .. live - 2 : i \in Slots /\ buf'[Slot(next', i)] = buf[Slot(next, i)]
  BY <1>1, EvictShifts
<1>6. ASSUME NEW id \in IDs, byID'[id] = Nil, NEW i \in 0 .. live' - 1
      PROVE  buf'[Slot(next', i)].id # id
  <2>1. i \in 0 .. live - 2 /\ i \in 0 .. live - 1
    BY <1>2
  <2>2. CASE byID[id] = Nil
    BY <1>5, <2>1, <2>2 DEF IInv, IndexByAge
  <2>3. CASE byID[id] # Nil
    <3>1. byID[id] = old
      BY <1>3, <1>4, <1>6, <2>3 DEF Unindex
    <3>2. PICK k \in Slots : Newest(id, k)
      BY <2>3 DEF IInv, IndexByAge
    <3>3. k = live - 1
      BY <1>1, <1>2, <3>1, <3>2, AgeOfEntry DEF Newest
    <3>4. i \in 0 .. k - 1
      BY <1>2, <2>1, <3>3
    <3> QED BY <1>5, <2>1, <3>2, <3>4 DEF Newest
  <2> QED BY <2>2, <2>3
<1>7. ASSUME NEW id \in IDs, byID'[id] # Nil
      PROVE  \E k \in Slots : Newest(id, k)'
  <2>1. byID'[id] = byID[id] /\ byID[id] # Nil /\ byID[id] # old
    <3>1. PICK k \in Slots : byID[id] # Nil => Newest(id, k)
      BY <1>2 DEF IInv, IndexByAge
    <3> QED BY <1>3, <1>4, <1>7, <3>1 DEF Unindex, Newest
  <2>2. PICK k \in Slots : Newest(id, k)
    BY <2>1 DEF IInv, IndexByAge
  <2>3. k \in 0 .. live - 2
    BY <1>2, <2>1, <2>2 DEF Newest
  <2>4. Newest(id, k)'
    BY <1>2, <1>5, <2>1, <2>2, <2>3 DEF Newest
  <2> QED BY <2>4
<1> QED BY <1>6, <1>7 DEF IndexByAge

LEMMA NextIInv == IInv /\ [Next]_vars => IInv'
<1> SUFFICES ASSUME IInv, [Next]_vars PROVE IInv'
  OBVIOUS
<1>1. SInv'
  BY NextSInv DEF IInv
<1>2. ASSUME UNCHANGED ringVars PROVE IndexByAge'
  BY <1>2 DEF ringVars, IInv, IndexByAge, Newest
<1>3. ASSUME NEW a \in Adders, Add(a) PROVE IndexByAge'
  BY <1>2, <1>3, PlaceIndex, EvictIndex DEF Add, AddSeq, AddOversize, AddDone
<1>4. IndexByAge'
  BY <1>2, <1>3 DEF Next, vars
<1> QED BY <1>1, <1>4 DEF IInv

\* GET /api/entries/{id} answers with the newest retained entry of that id,
\* and with 404 only when none is retained, for any interleaving of adds,
\* any capacity and any byte budget (store.go:140-146, 159-162, 409-413).
THEOREM IndexCorrect == Spec => []IndexIsNewest
<1>1. IInv => IndexIsNewest
  BY IndexByAgeIff DEF IInv, SInv
<1> QED BY InitIInv, NextIInv, <1>1, PTL DEF Spec

-----------------------------------------------------------------------------
(* The byte counter.  It is the sum over the slots of what each caches; an *)
(* empty slot must cache nothing, since AddPlace gives bytes back only for *)
(* a slot that holds an entry.                                             *)

lens == [i \in Slots |-> RawLen(raw[i])]

BInv == TInv /\ MirrorsAgree /\ retainedBytes = SumOver(lens, Slots)

LEMMA LensTyped ==
  ASSUME TInv
  PROVE  IsFiniteSet(Slots) /\ \A i \in Slots : lens[i] = RawLen(raw[i]) /\ lens[i] \in Nat
<1>1. IsFiniteSet(Slots)
  BY FS_Interval DEF Slots
<1>2. ASSUME NEW i \in Slots PROVE lens[i] = RawLen(raw[i]) /\ lens[i] \in Nat
  BY RawLenTyped DEF TInv, TypeOK, lens
<1> QED BY <1>1, <1>2

\* The length of what is cached for an entry is the length of its JSON.
LEMMA RawLenOf == ASSUME NEW e \in Entry PROVE RawLen(RawOf(e)) = e.len
<1>1. e.len \in Nat /\ e.seq \in Nat
  BY RawTyped
<1>2. [of |-> e.seq, len |-> e.len] # NoRaw
  BY <1>1, NoRawAssumption
<1> QED BY <1>2 DEF RawLen, RawOf

\* What BytesAreSum folds is lens.
LEMMA FoldIsSum ==
  ASSUME TInv
  PROVE  FoldSet(LAMBDA i, acc : RawLen(raw[i]) + acc, 0, Slots) = SumOver(lens, Slots)
<1> DEFINE Fix(h) == h = [s \in SUBSET Slots |->
                           IF s = {} THEN 0
                           ELSE RawLen(raw[CHOOSE x \in s : TRUE]) + h[s \ {CHOOSE x \in s : TRUE}]]
           it == CHOOSE h : Fix(h)
<1>1. FoldSet(LAMBDA i, acc : RawLen(raw[i]) + acc, 0, Slots) = it[Slots]
  BY DEF FoldSet, MapThenFoldSet
<1>2. PICK h : IsSum(lens, Slots, h) /\ SumOver(lens, Slots) = h[Slots]
  BY LensTyped, SumOverIs
<1>3. ASSUME NEW s \in SUBSET Slots, s # {} PROVE RawLen(raw[Chosen(s)]) = lens[Chosen(s)]
  BY <1>3, ChosenIn, LensTyped
<1>4. Fix(h)
  <2>1. h = [s \in SUBSET Slots |-> h[s]]
    BY <1>2 DEF IsSum
  <2>2. ASSUME NEW s \in SUBSET Slots
        PROVE  h[s] = IF s = {} THEN 0
                      ELSE RawLen(raw[CHOOSE x \in s : TRUE]) + h[s \ {CHOOSE x \in s : TRUE}]
    BY <1>2, <1>3 DEF IsSum, Folds, SumStep, Chosen
  <2> QED BY <2>1, <2>2
<1> HIDE DEF it
<1>5. Fix(it)
  BY <1>4 DEF it
<1>6. Folds(lens, Slots, it)
  <2>1. ASSUME NEW s \in SUBSET Slots PROVE it[s] = SumStep(lens, it, s)
    <3>1. it[s] = IF s = {} THEN 0 ELSE RawLen(raw[Chosen(s)]) + it[s \ {Chosen(s)}]
      BY <1>5 DEF Chosen
    <3> QED BY <1>3, <3>1 DEF SumStep
  <2> QED BY <2>1 DEF Folds
<1>7. h[Slots] = it[Slots]
  <2>1. Slots \in SUBSET (Slots \cap Slots)
    OBVIOUS
  <2> QED BY <1>2, <1>6, <2>1, LensTyped, SumUnique DEF IsSum
<1> QED BY <1>1, <1>2, <1>7

\* One slot caches something else.
LEMMA OneSlot ==
  ASSUME TInv, TInv', NEW k \in Slots, NEW r, raw' = [raw EXCEPT ![k] = r]
  PROVE  /\ SumOver(lens', Slots) = SumOver(lens, Slots) - RawLen(raw[k]) + RawLen(r)
         /\ SumOver(lens, Slots) \in Nat /\ RawLen(raw[k]) \in Nat /\ RawLen(r) \in Nat
<1>1. raw'[k] = r /\ \A i \in Slots \ {k} : raw'[i] = raw[i]
  BY DEF TInv, TypeOK
<1>2. raw'[k] \in [of : Nat, len : Nat] \cup {NoRaw}
  BY DEF TInv, TypeOK
<1>3. RawLen(r) \in Nat
  BY <1>1, <1>2, RawLenTyped
<1>4. lens'[k] = RawLen(r) /\ \A i \in Slots \ {k} : lens'[i] = lens[i]
  BY <1>1 DEF lens
<1> QED BY <1>3, <1>4, LensTyped, SumOverExcept, SumOverType

LEMMA InitBInv == Init => BInv
<1> SUFFICES ASSUME Init PROVE BInv
  OBVIOUS
<1>1. MirrorsAgree
  BY DEF Init, MirrorsAgree
<1>2. \A i \in Slots : lens[i] = 0
  BY DEF Init, lens, RawLen
<1>3. TInv
  BY InitTInv
<1>4. SumOver(lens, Slots) = 0
  BY <1>2, <1>3, LensTyped, SumOverZero
<1> QED BY <1>1, <1>3, <1>4 DEF BInv, Init

LEMMA NextBInv == BInv /\ [Next]_vars => BInv'
<1> SUFFICES ASSUME BInv, [Next]_vars PROVE BInv'
  OBVIOUS
<1>0. TInv /\ TInv' /\ MirrorsAgree /\ retainedBytes = SumOver(lens, Slots)
  BY NextTInv DEF BInv
<1>1. ASSUME UNCHANGED <<buf, raw, retainedBytes>> PROVE BInv'
  BY <1>0, <1>1 DEF BInv, MirrorsAgree, lens
<1>2. ASSUME NEW a \in Adders, AddPlace(a) PROVE BInv'
  <2>1. /\ next \in Slots /\ raw' = [raw EXCEPT ![next] = RawOf(cur[a])]
        /\ buf' = [buf EXCEPT ![next] = cur[a]] /\ retainedBytes' = PlacedBytes(cur[a])
        /\ cur[a] \in Entry /\ cur[a] # Nil
    BY <1>0, <1>2, InHand DEF AddPlace, TInv, TypeOK
  <2>2. RawLen(RawOf(cur[a])) = cur[a].len
    BY <2>1, RawLenOf
  <2>3. buf[next] = Nil => RawLen(raw[next]) = 0
    BY <1>0, <2>1 DEF MirrorsAgree, RawLen
  <2>4. /\ SumOver(lens', Slots) = SumOver(lens, Slots) - RawLen(raw[next]) + cur[a].len
        /\ SumOver(lens, Slots) \in Nat /\ RawLen(raw[next]) \in Nat /\ cur[a].len \in Nat
    BY <1>0, <2>1, <2>2, OneSlot
  <2>5. retainedBytes' = SumOver(lens', Slots)
    BY <1>0, <2>1, <2>3, <2>4 DEF PlacedBytes
  <2>6. MirrorsAgree'
    BY <1>0, <2>1 DEF MirrorsAgree, TInv, TypeOK
  <2> QED BY <1>0, <2>5, <2>6 DEF BInv
<1>3. ASSUME NEW a \in Adders, AddEvict(a) PROVE BInv'
  <2> DEFINE k == (next - live + Capacity) % Capacity
  <2>1. /\ raw' = [raw EXCEPT ![k] = NoRaw] /\ buf' = [buf EXCEPT ![k] = Nil]
        /\ retainedBytes' = retainedBytes - RawLen(raw[k])
    BY <1>3 DEF AddEvict
  <2>2. k \in Slots
    <3>1. next \in Slots /\ live - 1 \in Slots /\ next - live + Capacity = next - 1 - (live - 1) + Capacity
      BY <1>0, <1>3 DEF AddEvict, OverBudget, TInv, TypeOK, Slots
    <3> QED BY <3>1, SlotArithmetic
  <2> HIDE DEF k
  <2>3. RawLen(NoRaw) = 0
    BY DEF RawLen
  <2>4. /\ SumOver(lens', Slots) = SumOver(lens, Slots) - RawLen(raw[k]) + 0
        /\ SumOver(lens, Slots) \in Nat /\ RawLen(raw[k]) \in Nat
    BY <1>0, <2>1, <2>2, <2>3, OneSlot
  <2>5. retainedBytes' = SumOver(lens', Slots)
    BY <1>0, <2>1, <2>4
  <2>6. MirrorsAgree'
    BY <1>0, <2>1, <2>2 DEF MirrorsAgree, TInv, TypeOK
  <2> QED BY <1>0, <2>5, <2>6 DEF BInv
<1> QED BY <1>1, <1>2, <1>3 DEF Next, Add, AddSeq, AddOversize, AddDone, vars, ringVars

\* The byte counter that the budget is compared with is the sum of the lengths
\* of the cached JSON, at every point of the critical section: no path gives
\* bytes back twice or forgets to (store.go:147, 153, 163).
THEOREM BytesCorrect == Spec => []BytesAreSum
<1>1. BInv => BytesAreSum
  BY FoldIsSum DEF BInv, BytesAreSum
<1> QED BY InitBInv, NextBInv, <1>1, PTL DEF Spec

\* The two mirrors of the ring agree slot by slot, also in the middle of an add:
\* the JSON served for a slot is that of the entry in it (store.go:135-152,
\* 164-165).
THEOREM MirrorsCorrect == Spec => []MirrorsAgree
<1>1. BInv => MirrorsAgree
  BY DEF BInv
<1> QED BY InitBInv, NextBInv, <1>1, PTL DEF Spec

-----------------------------------------------------------------------------
(* The refinement of HubHistory.  A recursive function of a sequence is    *)
(* first shown to be the only one of its kind, so that CHOOSE names it;    *)
(* then what Append and Tail do to it carries the counter and the trimmed  *)
(* ring through every step.                                                *)

\* f holds the bytes of the suffixes of s.
IsSuffixBytes(s, f) ==
  f = [i \in 1 .. Len(s) + 1 |-> IF i = Len(s) + 1 THEN 0 ELSE s[i].len + f[i + 1]]

Bytes(s) == CHOOSE f : IsSuffixBytes(s, f)

LEMMA SuffixUnique ==
  ASSUME NEW s, Len(s) \in Nat, NEW f, IsSuffixBytes(s, f), NEW g, IsSuffixBytes(s, g)
  PROVE  f = g
<1> DEFINE N == Len(s)
           T == {k \in Nat : \A i \in 1 .. N + 1 : i + k = N + 1 => f[i] = g[i]}
<1>1. /\ f = [i \in 1 .. N + 1 |-> f[i]] /\ g = [i \in 1 .. N + 1 |-> g[i]]
      /\ f[N + 1] = 0 /\ g[N + 1] = 0
      /\ \A i \in 1 .. N : f[i] = s[i].len + f[i + 1] /\ g[i] = s[i].len + g[i + 1]
  <2>1. /\ DOMAIN f = 1 .. N + 1 /\ DOMAIN g = 1 .. N + 1
        /\ f = [i \in DOMAIN f |-> f[i]] /\ g = [i \in DOMAIN g |-> g[i]]
    BY DEF IsSuffixBytes
  <2>2. \A i \in 1 .. N + 1 :
          /\ f[i] = IF i = N + 1 THEN 0 ELSE s[i].len + f[i + 1]
          /\ g[i] = IF i = N + 1 THEN 0 ELSE s[i].len + g[i + 1]
    BY DEF IsSuffixBytes
  <2>3. N \in Nat /\ N + 1 \in 1 .. N + 1 /\ \A i \in 1 .. N : i \in 1 .. N + 1 /\ i # N + 1
    OBVIOUS
  <2> HIDE DEF N
  <2> QED BY <2>1, <2>2, <2>3
<1> HIDE DEF N
<1>2. N \in Nat
  BY DEF N
<1>3. 0 \in T
  BY <1>1, <1>2
<1>4. ASSUME NEW k \in Nat, k \in T PROVE k + 1 \in T
  <2>1. ASSUME NEW i \in 1 .. N + 1, i + (k + 1) = N + 1 PROVE f[i] = g[i]
    <3>1. i \in 1 .. N /\ i + 1 \in 1 .. N + 1 /\ (i + 1) + k = N + 1
      BY <1>2, <2>1
    <3>2. f[i + 1] = g[i + 1]
      BY <1>4, <3>1
    <3> QED BY <1>1, <3>1, <3>2
  <2> QED BY <2>1
<1>5. Nat \subseteq T
  <2> HIDE DEF T
  <2> QED BY <1>3, <1>4, SetInduction
<1>6. ASSUME NEW i \in 1 .. N + 1 PROVE f[i] = g[i]
  <2> DEFINE k == N + 1 - i
  <2>1. k \in Nat /\ i + k = N + 1
    BY <1>2
  <2> HIDE DEF k
  <2> QED BY <1>5, <2>1
<1> QED BY <1>1, <1>6

LEMMA LenIsNat == ASSUME NEW e \in Entry PROVE e.len \in Nat
BY LensAssumption DEF Entry

LEMMA SuffixExists ==
  ASSUME NEW s \in Seq(Entry)
  PROVE  \E f \in [1 .. Len(s) + 1 -> Nat] : IsSuffixBytes(s, f)
<1> DEFINE N == Len(s)
           l == [i \in 1 .. N |-> s[i].len]
           f == [i \in 1 .. N + 1 |-> SumOver(l, i .. N)]
<1>1. N \in Nat /\ \A i \in 1 .. N : l[i] = s[i].len /\ l[i] \in Nat
  BY LenIsNat
<1> HIDE DEF N
<1>2. ASSUME NEW i \in 1 .. N + 1
      PROVE  IsFiniteSet(i .. N) /\ (\A j \in i .. N : l[j] \in Nat) /\ f[i] \in Nat
  <2>1. i \in Int /\ N \in Int
    BY <1>1
  <2>2. IsFiniteSet(i .. N)
    BY <2>1, FS_Interval
  <2>3. \A j \in i .. N : j \in 1 .. N
    BY <1>1
  <2>4. \A j \in i .. N : l[j] \in Nat
    BY <1>1, <2>3
  <2> HIDE DEF l
  <2>5. SumOver(l, i .. N) \in Nat
    BY <2>2, <2>4, SumOverType
  <2> QED BY <2>2, <2>4, <2>5
<1>3. f[N + 1] = 0
  <2>1. N + 1 .. N = {} /\ N + 1 \in 1 .. N + 1
    BY <1>1
  <2> QED BY <2>1, SumOverEmpty
<1>4. ASSUME NEW i \in 1 .. N PROVE f[i] = s[i].len + f[i + 1]
  <2>1. i \in i .. N /\ (i .. N) \ {i} = i + 1 .. N /\ i \in 1 .. N + 1 /\ i + 1 \in 1 .. N + 1
    BY <1>1
  <2>2. SumOver(l, i .. N) = l[i] + SumOver(l, (i .. N) \ {i})
    <3> HIDE DEF l
    <3> QED BY <1>2, <2>1, SumOverSplit
  <2> QED BY <1>1, <2>1, <2>2
<1>5. f \in [1 .. N + 1 -> Nat]
  BY <1>2
<1>6. DOMAIN f = 1 .. N + 1
  OBVIOUS
<1> HIDE DEF f
<1>7. \A i \in 1 .. N + 1 : f[i] = IF i = N + 1 THEN 0 ELSE s[i].len + f[i + 1]
  <2>1. \A i \in 1 .. N + 1 : i = N + 1 \/ i \in 1 .. N
    BY <1>1
  <2> QED BY <1>3, <1>4, <2>1
<1>8. f = [i \in 1 .. N + 1 |-> IF i = N + 1 THEN 0 ELSE s[i].len + f[i + 1]]
  BY <1>5, <1>7
<1>9. IsSuffixBytes(s, f)
  BY <1>8 DEF IsSuffixBytes, N
<1> QED BY <1>5, <1>9 DEF N

LEMMA BytesAre ==
  ASSUME NEW s \in Seq(Entry)
  PROVE  /\ IsSuffixBytes(s, Bytes(s)) /\ Len(s) \in Nat
         /\ \A i \in 1 .. Len(s) + 1 : Bytes(s)[i] \in Nat
         /\ Bytes(s)[Len(s) + 1] = 0
         /\ \A i \in 1 .. Len(s) : Bytes(s)[i] = s[i].len + Bytes(s)[i + 1]
<1> DEFINE b == Bytes(s)
           N == Len(s)
<1>1. PICK f \in [1 .. N + 1 -> Nat] : IsSuffixBytes(s, f)
  BY SuffixExists
<1>2. IsSuffixBytes(s, b)
  BY <1>1 DEF Bytes
<1>3. N \in Nat
  OBVIOUS
<1> HIDE DEF b
<1>4. b = f
  BY <1>1, <1>2, <1>3, SuffixUnique
<1>5. \A i \in 1 .. N + 1 : b[i] = IF i = N + 1 THEN 0 ELSE s[i].len + b[i + 1]
  BY <1>2 DEF IsSuffixBytes
<1>6. N + 1 \in 1 .. N + 1 /\ \A i \in 1 .. N : i \in 1 .. N + 1 /\ i # N + 1
  BY <1>3
<1> HIDE DEF N
<1>7. b[N + 1] = 0 /\ \A i \in 1 .. N : b[i] = s[i].len + b[i + 1]
  BY <1>5, <1>6
<1>8. \A i \in 1 .. N + 1 : b[i] \in Nat
  BY <1>1, <1>4
<1> QED BY <1>2, <1>3, <1>7, <1>8 DEF b, N

LEMMA BytesAreThose ==
  ASSUME NEW s \in Seq(Entry), NEW f, DOMAIN f = 1 .. Len(s) + 1, f = [i \in DOMAIN f |-> f[i]],
         f[Len(s) + 1] = 0, \A i \in 1 .. Len(s) : f[i] = s[i].len + f[i + 1]
  PROVE  f = Bytes(s)
<1> DEFINE N == Len(s)
<1>1. N \in Nat /\ \A i \in 1 .. N + 1 : i = N + 1 \/ i \in 1 .. N
  OBVIOUS
<1> HIDE DEF N
<1>2. f = [i \in 1 .. N + 1 |-> f[i]] /\ f[N + 1] = 0 /\ \A i \in 1 .. N : f[i] = s[i].len + f[i + 1]
  BY DEF N
<1>3. f = [i \in 1 .. N + 1 |-> IF i = N + 1 THEN 0 ELSE s[i].len + f[i + 1]]
  <2>1. \A i \in 1 .. N + 1 : f[i] = IF i = N + 1 THEN 0 ELSE s[i].len + f[i + 1]
    BY <1>1, <1>2
  <2> QED BY <1>2, <2>1
<1>4. IsSuffixBytes(s, f)
  BY <1>3 DEF IsSuffixBytes, N
<1> QED BY <1>1, <1>4, BytesAre, SuffixUnique DEF N

LEMMA BytesTail ==
  ASSUME NEW s \in Seq(Entry), s # <<>>
  PROVE  \A i \in 1 .. Len(s) : Bytes(Tail(s))[i] = Bytes(s)[i + 1]
<1> DEFINE N == Len(s)
           t == Tail(s)
           b == Bytes(s)
           f == [i \in 1 .. N |-> b[i + 1]]
<1>1. /\ N \in Nat \ {0} /\ t \in Seq(Entry) /\ Len(t) = N - 1
      /\ \A i \in 1 .. N - 1 : t[i] = s[i + 1]
  OBVIOUS
<1>2. b[N + 1] = 0 /\ \A i \in 1 .. N : b[i] = s[i].len + b[i + 1]
  BY BytesAre
<1> HIDE DEF N, t, b
<1>3. /\ Len(t) + 1 = N /\ N \in 1 .. N
      /\ \A i \in 1 .. N - 1 : i \in 1 .. N /\ i + 1 \in 1 .. N
  BY <1>1
<1>4. f[Len(t) + 1] = 0 /\ DOMAIN f = 1 .. Len(t) + 1 /\ f = [i \in DOMAIN f |-> f[i]]
  BY <1>2, <1>3
<1>5. \A i \in 1 .. Len(t) : f[i] = t[i].len + f[i + 1]
  BY <1>1, <1>2, <1>3
<1>6. \A i \in 1 .. N : f[i] = b[i + 1]
  OBVIOUS
<1> HIDE DEF f
<1>7. f = Bytes(t)
  <2>1. t \in Seq(Entry)
    BY <1>1
  <2> QED BY <1>4, <1>5, <2>1, BytesAreThose
<1> QED BY <1>6, <1>7 DEF N, t, b

LEMMA BytesAppend ==
  ASSUME NEW s \in Seq(Entry), NEW e \in Entry
  PROVE  /\ Bytes(Append(s, e))[1] = Bytes(s)[1] + e.len
         /\ Bytes(Append(s, e))[Len(s) + 1] = e.len
<1> DEFINE N == Len(s)
           t == Append(s, e)
           b == Bytes(s)
           f == [i \in 1 .. N + 2 |-> IF i = N + 2 THEN 0 ELSE b[i] + e.len]
<1>1. /\ N \in Nat /\ t \in Seq(Entry) /\ Len(t) = N + 1 /\ t[N + 1] = e
      /\ \A i \in 1 .. N : t[i] = s[i]
  OBVIOUS
<1>2. /\ b[N + 1] = 0 /\ \A i \in 1 .. N : b[i] = s[i].len + b[i + 1] /\ s[i].len \in Nat
      /\ \A i \in 1 .. N + 1 : b[i] \in Nat
  BY BytesAre, LenIsNat
<1>3. e.len \in Nat
  BY LenIsNat
<1> HIDE DEF N, t, b
<1>4. /\ Len(t) + 1 = N + 2 /\ N + 2 \in 1 .. N + 2 /\ N + 1 \in 1 .. N + 2 /\ N + 1 # N + 2
      /\ \A i \in 1 .. N + 1 : i \in 1 .. N + 2 /\ i # N + 2 /\ (i = N + 1 \/ i \in 1 .. N)
      /\ \A i \in 1 .. N : i + 1 \in 1 .. N + 1
      /\ 1 \in 1 .. N + 1 /\ N + 1 + 1 = N + 2 /\ N + 1 \in 1 .. N + 1
  BY <1>1
<1>5. f[Len(t) + 1] = 0 /\ DOMAIN f = 1 .. Len(t) + 1 /\ f = [i \in DOMAIN f |-> f[i]]
  BY <1>4
<1>6. f[N + 2] = 0 /\ \A i \in 1 .. N + 1 : f[i] = b[i] + e.len
  BY <1>4
<1> HIDE DEF f
<1>7. ASSUME NEW i \in 1 .. N + 1 PROVE f[i] = t[i].len + f[i + 1]
  <2>1. CASE i = N + 1
    <3>1. f[i] = 0 + e.len /\ f[i + 1] = 0 /\ t[i] = e
      BY <1>1, <1>2, <1>4, <1>6, <2>1
    <3> QED BY <1>3, <3>1
  <2>2. CASE i \in 1 .. N
    <3>1. /\ f[i] = b[i] + e.len /\ f[i + 1] = b[i + 1] + e.len /\ t[i] = s[i]
          /\ b[i] = s[i].len + b[i + 1] /\ b[i + 1] \in Nat /\ s[i].len \in Nat
      BY <1>1, <1>2, <1>4, <1>6, <2>2
    <3> QED BY <1>3, <3>1
  <2> QED BY <1>4, <2>1, <2>2
<1>8. f = Bytes(t)
  <2>1. t \in Seq(Entry)
    BY <1>1
  <2>2. \A i \in 1 .. Len(t) : f[i] = t[i].len + f[i + 1]
    BY <1>1, <1>7
  <2> QED BY <1>5, <2>1, <2>2, BytesAreThose
<1>9. f[N + 1] = e.len /\ f[1] = b[1] + e.len
  BY <1>2, <1>3, <1>4, <1>6
<1> QED BY <1>8, <1>9 DEF N, t, b

-----------------------------------------------------------------------------
(* The longest suffix that fits.                                           *)

FitsFrom(s, i) == Len(s) - i < Capacity /\ Bytes(s)[i] <= ByteBudget
FirstFit(s, i) == FitsFrom(s, i) /\ \A j \in 1 .. i - 1 : ~FitsFrom(s, j)
Longest(s) == SubSeq(s, CHOOSE i \in 1 .. Len(s) + 1 : FirstFit(s, i), Len(s))

LEMMA TrimIsLongest == \A s : Trimmer!Trim(s) = Longest(s) /\ History!Trim(s) = Longest(s)
BY DEF Trimmer!Trim, History!Trim, Trimmer!SuffixBytes, History!SuffixBytes, Longest, FirstFit,
       FitsFrom, Bytes, IsSuffixBytes

LEMMA LongestFrom ==
  ASSUME NEW s \in Seq(Entry)
  PROVE  /\ \E i \in 1 .. Len(s) + 1 : FirstFit(s, i) /\ Longest(s) = SubSeq(s, i, Len(s))
         /\ \A i \in 1 .. Len(s) + 1 : FirstFit(s, i) => Longest(s) = SubSeq(s, i, Len(s))
<1> DEFINE N == Len(s)
           P == \E i \in 1 .. N + 1 : FirstFit(s, i)
           T == {n \in Nat : n <= N + 1 /\ (\E i \in 1 .. n : FitsFrom(s, i)) => P}
<1>1. N \in Nat
  OBVIOUS
<1>2. FitsFrom(s, N + 1)
  <2>1. Bytes(s)[N + 1] = 0
    BY BytesAre
  <2>2. N - (N + 1) < Capacity /\ 0 <= ByteBudget
    BY <1>1, BudgetAssumption
  <2> QED BY <2>1, <2>2 DEF FitsFrom
<1> HIDE DEF N
<1>3. 0 \in T
  OBVIOUS
<1>4. ASSUME NEW n \in Nat, n \in T PROVE n + 1 \in T
  <2> SUFFICES ASSUME n + 1 <= N + 1, NEW i \in 1 .. n + 1, FitsFrom(s, i) PROVE P
    OBVIOUS
  <2>1. CASE \E j \in 1 .. n : FitsFrom(s, j)
    <3>1. n <= N + 1
      BY <1>1
    <3> QED BY <1>4, <2>1, <3>1
  <2>2. CASE ~\E j \in 1 .. n : FitsFrom(s, j)
    <3>1. i = n + 1 /\ n + 1 \in 1 .. N + 1 /\ (n + 1) - 1 = n
      BY <1>1, <2>2
    <3> QED BY <2>2, <3>1 DEF FirstFit
  <2> QED BY <2>1, <2>2
<1>5. Nat \subseteq T
  <2> HIDE DEF T
  <2> QED BY <1>3, <1>4, SetInduction
<1>6. P
  <2>1. N + 1 \in Nat /\ N + 1 \in 1 .. N + 1
    BY <1>1
  <2> QED BY <1>2, <1>5, <2>1
<1>7. ASSUME NEW i \in 1 .. N + 1, FirstFit(s, i), NEW j \in 1 .. N + 1, FirstFit(s, j)
      PROVE  i = j
  <2>1. i \in 1 .. j - 1 \/ j \in 1 .. i - 1 \/ i = j
    BY <1>1
  <2> QED BY <1>7, <2>1 DEF FirstFit
<1> DEFINE c == CHOOSE i \in 1 .. N + 1 : FirstFit(s, i)
<1>8. c \in 1 .. N + 1 /\ FirstFit(s, c)
  BY <1>6
<1>9. Longest(s) = SubSeq(s, c, N)
  BY DEF Longest, N
<1> HIDE DEF c
<1>10. \A i \in 1 .. N + 1 : FirstFit(s, i) => i = c
  BY <1>7, <1>8
<1> QED BY <1>8, <1>9, <1>10 DEF N

\* A sequence that fits is left as it is.
LEMMA LongestWhole ==
  ASSUME NEW s \in Seq(Entry), FitsFrom(s, 1)
  PROVE  Longest(s) = s
<1>1. FirstFit(s, 1) /\ 1 \in 1 .. Len(s) + 1
  BY DEF FirstFit
<1>2. Longest(s) = SubSeq(s, 1, Len(s))
  BY <1>1, LongestFrom
<1> QED BY <1>2

\* One that does not loses its oldest entry.
LEMMA LongestTail ==
  ASSUME NEW s \in Seq(Entry), s # <<>>, ~FitsFrom(s, 1)
  PROVE  Longest(s) = Longest(Tail(s))
<1> DEFINE t == Tail(s)
           N == Len(s)
<1>1. N \in Nat \ {0} /\ t \in Seq(Entry) /\ Len(t) = N - 1
  OBVIOUS
<1>2. \A i \in 1 .. N : Bytes(t)[i] = Bytes(s)[i + 1]
  BY BytesTail
<1>3. PICK i \in 1 .. Len(t) + 1 : FirstFit(t, i) /\ Longest(t) = SubSeq(t, i, Len(t))
  BY <1>1, LongestFrom
<1>4. \A j \in 1 .. N : FitsFrom(t, j) <=> FitsFrom(s, j + 1)
  <2> TAKE j \in 1 .. N
  <2>1. Len(t) - j = Len(s) - (j + 1)
    BY <1>1
  <2> QED BY <1>2, <2>1 DEF FitsFrom
<1>5. SubSeq(s, i + 1, N) = SubSeq(t, i, N - 1)
  <2>1. i \in 1 .. N
    BY <1>1, <1>3
  <2>2. /\ SubSeq(s, i + 1, N) = [k \in 1 .. (1 + N - (i + 1)) |-> s[k + (i + 1) - 1]]
        /\ SubSeq(t, i, N - 1) = [k \in 1 .. (1 + (N - 1) - i) |-> t[k + i - 1]]
    BY <1>1, <2>1
  <2>3. 1 + N - (i + 1) = N - i /\ 1 + (N - 1) - i = N - i
    BY <1>1, <2>1
  <2>4. \A k \in 1 .. N - i : s[k + (i + 1) - 1] = t[k + i - 1]
    <3> TAKE k \in 1 .. N - i
    <3>1. k + i - 1 \in 1 .. N - 1 /\ k + (i + 1) - 1 = (k + i - 1) + 1
      BY <1>1, <2>1
    <3>2. \A x \in 1 .. N - 1 : t[x] = s[x + 1]
      BY <1>1
    <3> QED BY <3>1, <3>2
  <2> QED BY <2>2, <2>3, <2>4
<1> HIDE DEF t, N
<1>6. FirstFit(s, i + 1) /\ i + 1 \in 1 .. N + 1
  <2>1. i \in 1 .. N /\ i + 1 \in 1 .. N + 1 /\ (i + 1) - 1 = i
    BY <1>1, <1>3
  <2>2. FitsFrom(s, i + 1) /\ \A j \in 1 .. i - 1 : ~FitsFrom(t, j)
    BY <1>3, <1>4, <2>1 DEF FirstFit
  <2>3. ASSUME NEW j \in 1 .. i PROVE ~FitsFrom(s, j)
    <3>1. CASE j = 1
      BY <3>1
    <3>2. CASE j # 1
      <4>1. j - 1 \in 1 .. i - 1 /\ j - 1 \in 1 .. N /\ (j - 1) + 1 = j
        BY <1>1, <2>1, <3>2
      <4> QED BY <1>4, <2>2, <4>1
    <3> QED BY <3>1, <3>2
  <2> QED BY <2>1, <2>2, <2>3 DEF FirstFit
<1>7. Longest(s) = SubSeq(s, i + 1, N)
  BY <1>6, LongestFrom DEF N
<1> QED BY <1>1, <1>3, <1>5, <1>7 DEF t

\* An entry that fits on its own is kept.
LEMMA LongestLast ==
  ASSUME NEW s \in Seq(Entry), NEW e \in Entry, e.len <= ByteBudget
  PROVE  LET t == Longest(Append(s, e)) IN t # <<>> /\ t[Len(t)] = e
<1> DEFINE u == Append(s, e)
           N == Len(s) + 1
<1>1. N \in Nat \ {0} /\ u \in Seq(Entry) /\ Len(u) = N /\ u[N] = e
  OBVIOUS
<1>2. Bytes(u)[N] = e.len
  BY BytesAppend
<1> HIDE DEF u, N
<1>3. FitsFrom(u, N)
  <2>1. N - N < Capacity
    BY <1>1
  <2> QED BY <1>1, <1>2, <2>1 DEF FitsFrom
<1>4. PICK i \in 1 .. N + 1 : FirstFit(u, i) /\ Longest(u) = SubSeq(u, i, N)
  BY <1>1, LongestFrom
<1>5. i \in 1 .. N
  <2>1. N \in 1 .. N /\ (N + 1) - 1 = N
    BY <1>1
  <2>2. i # N + 1
    BY <1>3, <1>4, <2>1 DEF FirstFit
  <2> QED BY <1>1, <2>2
<1>6. /\ SubSeq(u, i, N) = [k \in 1 .. (1 + N - i) |-> u[k + i - 1]]
      /\ SubSeq(u, i, N) \in Seq(Entry) /\ Len(SubSeq(u, i, N)) = 1 + N - i
  BY <1>1, <1>5
<1>7. 1 + N - i \in 1 .. (1 + N - i) /\ (1 + N - i) + i - 1 = N /\ 1 + N - i # 0
  BY <1>1, <1>5
<1>8. SubSeq(u, i, N)[1 + N - i] = u[N]
  BY <1>6, <1>7
<1>9. SubSeq(u, i, N) # <<>>
  BY <1>6, <1>7
<1> QED BY <1>1, <1>4, <1>6, <1>8, <1>9 DEF u

-----------------------------------------------------------------------------
(* The ring as a sequence, and what a step does to it.                     *)

LEMMA AgeIsSlot ==
  ASSUME NEW l \in 0 .. Capacity, NEW i \in 1 .. l
  PROVE  l - i \in Slots /\ l - i < l
BY DEF Slots

LEMMA RingIs ==
  ASSUME TInv
  PROVE  /\ ringContents \in Seq(Entry) /\ Len(ringContents) = live /\ live \in 0 .. Capacity
         /\ \A i \in 1 .. live : ringContents[i] = buf[Slot(next, live - i)]
<1>1. live \in 0 .. Capacity
  BY DEF TInv, TypeOK
<1>2. ASSUME NEW i \in 1 .. live
      PROVE  SlotOfAge(live - i) = Slot(next, live - i) /\ buf[Slot(next, live - i)] \in Entry
  <2>1. live - i \in Slots /\ live - i < live
    BY <1>1, AgeIsSlot
  <2>2. Slot(next, live - i) \in Slots /\ buf[Slot(next, live - i)] # Nil
    BY <2>1, Contiguous
  <2> QED BY <2>1, <2>2, Contiguous DEF TInv, TypeOK
<1>3. ringContents = [i \in 1 .. live |-> buf[Slot(next, live - i)]]
  BY <1>2 DEF ringContents
<1>4. ringContents \in [1 .. live -> Entry] /\ live \in Nat
  BY <1>1, <1>2, <1>3
<1>5. ringContents \in Seq(Entry) /\ Len(ringContents) = live
  BY <1>4
<1> QED BY <1>1, <1>3, <1>5

\* The same of the next state.
LEMMA RingNext ==
  ASSUME TInv'
  PROVE  /\ ringContents' = [i \in 1 .. live' |-> buf'[Slot(next', live' - i)]]
         /\ live' \in 0 .. Capacity
<1>1. live' \in 0 .. Capacity /\ next' \in Slots
  BY DEF TInv, TypeOK
<1>2. ASSUME NEW i \in 1 .. live' PROVE SlotOfAge(live - i)' = Slot(next', live' - i)
  <2>1. live' - i \in Slots
    BY <1>1, AgeIsSlot
  <2> QED BY <1>1, <2>1, SlotArithmetic DEF SlotOfAge
<1> QED BY <1>1, <1>2 DEF ringContents

\* The place of an entry in a ring of n, counted from the other end.
LEMMA OlderAge ==
  ASSUME NEW n \in 1 .. Capacity, NEW i \in 1 .. n, i # n
  PROVE  n - i \in Slots \ {0} /\ i \in 1 .. n - 1
BY DEF Slots

\* An add puts its entry at the end, in the place of the oldest one if the ring
\* is full.
LEMMA PlaceRing ==
  ASSUME TInv, TInv', NEW a \in Adders, AddPlace(a)
  PROVE  ringContents' =
           Append(IF live < Capacity THEN ringContents ELSE Tail(ringContents), cur[a])
<1> DEFINE c == ringContents
           k == IF live < Capacity THEN c ELSE Tail(c)
<1>1. /\ c \in Seq(Entry) /\ Len(c) = live /\ live \in 0 .. Capacity
      /\ \A i \in 1 .. live : c[i] = buf[Slot(next, live - i)]
  BY RingIs
<1>2. /\ buf'[Slot(next', 0)] = cur[a]
      /\ \A i \in Slots \ {0} : buf'[Slot(next', i)] = buf[Slot(next, i - 1)]
      /\ live' = IF live < Capacity THEN live + 1 ELSE live
  BY PlaceShifts
<1>3. ringContents' = [i \in 1 .. live' |-> buf'[Slot(next', live' - i)]]
  BY RingNext
<1> HIDE DEF c
<1>4. /\ Append(k, cur[a]) = [i \in 1 .. Len(k) + 1 |-> IF i = Len(k) + 1 THEN cur[a] ELSE k[i]]
      /\ Len(k) + 1 = live' /\ Len(k) = live' - 1 /\ live' \in 1 .. Capacity
      /\ \A i \in 1 .. live' - 1 : k[i] = buf[Slot(next, live' - i - 1)]
  <2>1. CASE live < Capacity
    BY <1>1, <1>2, <2>1
  <2>2. CASE ~(live < Capacity)
    <3>1. live = Capacity /\ live' = live /\ k = Tail(c) /\ c # <<>>
      BY <1>1, <1>2, <2>2
    <3>2. /\ Tail(c) \in Seq(Entry) /\ Len(Tail(c)) = live - 1
          /\ \A i \in 1 .. live - 1 : Tail(c)[i] = c[i + 1]
      BY <1>1, <3>1
    <3>3. \A i \in 1 .. live - 1 : i + 1 \in 1 .. live /\ live - (i + 1) = live' - i - 1
      BY <1>1, <3>1
    <3> HIDE DEF k
    <3> QED BY <1>1, <3>1, <3>2, <3>3
  <2> QED BY <2>1, <2>2
<1> HIDE DEF k
<1>5. ASSUME NEW i \in 1 .. live'
      PROVE  buf'[Slot(next', live' - i)] = IF i = live' THEN cur[a] ELSE k[i]
  <2>1. CASE i = live'
    BY <1>2, <1>4, <2>1
  <2>2. CASE i # live'
    <3>1. live' - i \in Slots \ {0} /\ i \in 1 .. live' - 1
      <4>1. live' \in 1 .. Capacity
        BY <1>4
      <4> QED BY <2>2, <4>1, OlderAge
    <3>2. buf'[Slot(next', live' - i)] = buf[Slot(next, live' - i - 1)]
      BY <1>2, <3>1
    <3>3. k[i] = buf[Slot(next, live' - i - 1)]
      BY <1>4, <3>1
    <3> QED BY <2>2, <3>2, <3>3
  <2> QED BY <2>1, <2>2
<1> QED BY <1>3, <1>4, <1>5 DEF k, c

\* An eviction takes the oldest entry off.
LEMMA EvictRing ==
  ASSUME TInv, TInv', NEW a \in Adders, AddEvict(a)
  PROVE  /\ ringContents # <<>> /\ ringContents' = Tail(ringContents)
         /\ RawLen(raw[(next - live + Capacity) % Capacity]) = RawLen(raw[Slot(next, live - 1)])
         /\ ringContents[1] = buf[Slot(next, live - 1)] /\ Slot(next, live - 1) \in Slots
<1> DEFINE c == ringContents
           s == Slot(next, live - 1)
<1>1. /\ c \in Seq(Entry) /\ Len(c) = live /\ live \in 0 .. Capacity
      /\ \A i \in 1 .. live : c[i] = buf[Slot(next, live - i)]
  BY RingIs
<1>2. live \in 1 .. Capacity /\ live' = live - 1 /\ next' = next /\ s \in Slots
      /\ (next - live + Capacity) % Capacity = s
      /\ \A i \in 0 .. live - 2 : buf'[Slot(next', i)] = buf[Slot(next, i)]
  <2> HIDE DEF c
  <2> QED BY EvictShifts
<1>3. ringContents' = [i \in 1 .. live - 1 |-> buf'[Slot(next', live - 1 - i)]]
  BY <1>2, RingNext
<1> HIDE DEF c
<1>4. /\ c # <<>> /\ Tail(c) = [i \in 1 .. live - 1 |-> c[i + 1]]
  <2>1. c # <<>>
    BY <1>1, <1>2
  <2>2. Tail(c) \in Seq(Entry) /\ Len(Tail(c)) = live - 1
    BY <1>1, <1>2, <2>1
  <2>3. \A i \in 1 .. live - 1 : Tail(c)[i] = c[i + 1]
    BY <1>1, <1>2, <2>1
  <2> DEFINE t == Tail(c)
  <2> HIDE DEF t
  <2>4. t = [i \in 1 .. live - 1 |-> t[i]]
    <3>1. t \in Seq(Entry) /\ Len(t) = live - 1
      BY <2>2 DEF t
    <3>2. t = [i \in 1 .. Len(t) |-> t[i]]
      BY <3>1
    <3> QED BY <3>1, <3>2
  <2>5. t = [i \in 1 .. live - 1 |-> c[i + 1]]
    BY <2>3, <2>4 DEF t
  <2> QED BY <2>1, <2>5 DEF t
<1>5. ASSUME NEW i \in 1 .. live - 1 PROVE buf'[Slot(next', live - 1 - i)] = c[i + 1]
  <2>1. live - 1 - i \in 0 .. live - 2 /\ i + 1 \in 1 .. live /\ live - (i + 1) = live - 1 - i
    BY <1>2
  <2> QED BY <1>1, <1>2, <2>1
<1>6. 1 \in 1 .. live
  BY <1>2
<1> QED BY <1>1, <1>2, <1>3, <1>4, <1>5, <1>6 DEF c

-----------------------------------------------------------------------------
(* The counter is the bytes of the ring, and outside the critical section  *)
(* the ring is within its budget.                                          *)

HInv ==
  /\ BInv
  /\ retainedBytes = Bytes(ringContents)[1]
  /\ mu = Nil => retainedBytes <= ByteBudget

LEMMA EmptyBytes == Bytes(<<>>)[1] = 0
<1>1. <<>> \in Seq(Entry) /\ Len(<<>>) + 1 = 1
  OBVIOUS
<1>2. Bytes(<<>>)[Len(<<>>) + 1] = 0
  BY <1>1, BytesAre
<1> QED BY <1>1, <1>2

LEMMA InitRing == Init => ringContents = <<>>
<1> SUFFICES ASSUME Init PROVE ringContents = <<>>
  OBVIOUS
<1>1. TInv /\ live = 0
  BY InitTInv DEF Init
<1>2. ringContents \in Seq(Entry) /\ Len(ringContents) = 0
  BY <1>1, RingIs
<1> QED BY <1>2

LEMMA InitHInv == Init => HInv
<1> SUFFICES ASSUME Init PROVE HInv
  OBVIOUS
<1>1. BInv /\ retainedBytes = 0
  BY InitBInv DEF Init
<1>2. Bytes(ringContents)[1] = 0
  <2>1. ringContents = <<>>
    BY InitRing
  <2> QED BY <2>1, EmptyBytes
<1> QED BY <1>1, <1>2, BudgetAssumption DEF HInv

\* What AddPlace does to the abstract history and to the counter.
LEMMA PlaceHistory ==
  ASSUME HInv, TInv', NEW a \in Adders, AddPlace(a)
  PROVE  /\ retainedBytes' = Bytes(ringContents)'[1]
         /\ Longest(ringContents)' = Longest(Append(Longest(ringContents), cur[a]))
         /\ Longest(ringContents)' # <<>>
         /\ Longest(ringContents)'[Len(Longest(ringContents)')] = cur[a]
<1> DEFINE c == ringContents
           e == cur[a]
           d == ringContents'
<1>1. /\ TInv /\ retainedBytes = Bytes(c)[1] /\ retainedBytes <= ByteBudget
      /\ c \in Seq(Entry) /\ Len(c) = live /\ live \in 0 .. Capacity
      /\ \A i \in 1 .. live : c[i] = buf[Slot(next, live - i)]
  BY RingIs DEF HInv, BInv, AddPlace
<1>2. e \in Entry /\ e.len <= ByteBudget /\ e.len \in Nat
  BY <1>1, InHand, LenIsNat DEF AddPlace
<1>3. d = Append(IF live < Capacity THEN c ELSE Tail(c), e)
  BY <1>1, PlaceRing
<1>4. /\ buf[next] = Nil <=> live < Capacity
      /\ retainedBytes' =
           (IF buf[next] = Nil THEN retainedBytes ELSE retainedBytes - RawLen(raw[next])) + e.len
  BY <1>1, Contiguous DEF AddPlace, PlacedBytes
<1>5. Longest(c) = c
  <2>1. FitsFrom(c, 1)
    BY <1>1 DEF FitsFrom
  <2> QED BY <1>1, <2>1, LongestWhole
<1>6. ~(live < Capacity) => c # <<>> /\ Tail(c) \in Seq(Entry) /\ RawLen(raw[next]) = c[1].len
  <2> SUFFICES ASSUME ~(live < Capacity)
               PROVE  c # <<>> /\ Tail(c) \in Seq(Entry) /\ RawLen(raw[next]) = c[1].len
    OBVIOUS
  <2>1. live = Capacity /\ 1 \in 1 .. live /\ next \in Slots /\ buf[next] # Nil
    BY <1>1, <1>4, Contiguous
  <2>2. c # <<>> /\ Tail(c) \in Seq(Entry) /\ c[1] \in Entry
    BY <1>1, <2>1
  <2>3. c[1] = buf[next]
    <3>1. c[1] = buf[Slot(next, live - 1)]
      BY <1>1, <2>1
    <3> QED BY <2>1, <3>1, CursorAdvance
  <2>4. raw[next] = RawOf(c[1])
    BY <2>1, <2>3 DEF HInv, BInv, MirrorsAgree
  <2> QED BY <2>2, <2>4, RawLenOf
<1> HIDE DEF c, e, d
<1>7. retainedBytes' = Bytes(d)[1]
  <2>1. CASE live < Capacity
    BY <1>1, <1>2, <1>3, <1>4, <2>1, BytesAppend
  <2>2. CASE ~(live < Capacity)
    <3>1. Bytes(d)[1] = Bytes(Tail(c))[1] + e.len /\ 1 \in 1 .. Len(c)
      <4>1. d = Append(Tail(c), e) /\ Tail(c) \in Seq(Entry)
        BY <1>3, <1>6, <2>2
      <4>2. 1 \in 1 .. Len(c)
        BY <1>1, <2>2
      <4> QED BY <1>2, <4>1, <4>2, BytesAppend
    <3>2. Bytes(Tail(c))[1] = Bytes(c)[2]
      BY <1>1, <1>6, <2>2, <3>1, BytesTail
    <3>3. Bytes(c)[1] = c[1].len + Bytes(c)[2] /\ Bytes(c)[2] \in Nat /\ c[1].len \in Nat
      <4>1. 1 + 1 = 2 /\ 2 \in 1 .. Len(c) + 1 /\ c[1] \in Entry
        BY <1>1, <3>1
      <4> QED BY <1>1, <3>1, <4>1, BytesAre, LenIsNat
    <3> QED BY <1>1, <1>2, <1>4, <1>6, <2>2, <3>1, <3>2, <3>3
  <2> QED BY <2>1, <2>2
<1>8. Longest(d) = Longest(Append(c, e))
  <2>1. CASE live < Capacity
    BY <1>3, <2>1
  <2>2. CASE ~(live < Capacity)
    <3> DEFINE u == Append(c, e)
    <3>1. /\ u \in Seq(Entry) /\ u # <<>> /\ Len(u) = live + 1
      BY <1>1, <1>2
    <3>2. Tail(u) = Append(Tail(c), e)
      BY <1>1, <1>6, <2>2, HeadTailAppend
    <3> HIDE DEF u
    <3>3. ~FitsFrom(u, 1)
      BY <1>1, <2>2, <3>1 DEF FitsFrom
    <3>4. Longest(u) = Longest(Tail(u))
      BY <3>1, <3>3, LongestTail
    <3> QED BY <1>3, <2>2, <3>2, <3>4 DEF u
  <2> QED BY <2>1, <2>2
<1>9. LET t == Longest(Append(c, e)) IN t # <<>> /\ t[Len(t)] = e
  BY <1>1, <1>2, LongestLast
<1> QED BY <1>5, <1>7, <1>8, <1>9 DEF c, d, e

\* What AddEvict does to them.
LEMMA EvictHistory ==
  ASSUME HInv, TInv', NEW a \in Adders, AddEvict(a)
  PROVE  /\ retainedBytes' = Bytes(ringContents)'[1]
         /\ Longest(ringContents)' = Longest(ringContents)
<1> DEFINE c == ringContents
           s == Slot(next, live - 1)
<1>1. /\ TInv /\ retainedBytes = Bytes(c)[1] /\ retainedBytes > ByteBudget
      /\ c \in Seq(Entry) /\ Len(c) = live /\ live \in 0 .. Capacity
  BY RingIs DEF HInv, BInv, AddEvict, OverBudget
<1>2. /\ c # <<>> /\ ringContents' = Tail(c) /\ c[1] = buf[s] /\ s \in Slots
      /\ retainedBytes' = retainedBytes - RawLen(raw[s])
  BY <1>1, EvictRing DEF AddEvict
<1>3. 1 \in 1 .. Len(c) /\ c[1] \in Entry /\ c[1] # Nil
  BY <1>1, <1>2, NilAssumption
<1>4. RawLen(raw[s]) = c[1].len
  <2>1. raw[s] = RawOf(c[1])
    BY <1>2, <1>3 DEF HInv, BInv, MirrorsAgree
  <2> QED BY <1>3, <2>1, RawLenOf
<1> HIDE DEF c, s
<1>5. retainedBytes' = Bytes(Tail(c))[1]
  <2>1. 1 + 1 = 2 /\ 2 \in 1 .. Len(c) + 1
    BY <1>1, <1>3
  <2>2. Bytes(c)[1] = c[1].len + Bytes(c)[2] /\ Bytes(c)[2] \in Nat /\ c[1].len \in Nat
    BY <1>1, <1>3, <2>1, BytesAre, LenIsNat
  <2>3. Bytes(Tail(c))[1] = Bytes(c)[2]
    BY <1>1, <1>2, <1>3, <2>1, BytesTail
  <2> QED BY <1>1, <1>2, <1>4, <2>2, <2>3
<1>6. Longest(c) = Longest(Tail(c))
  <2>1. Bytes(c)[1] \in Nat
    BY <1>1, <1>3, BytesAre
  <2>2. ~FitsFrom(c, 1)
    BY <1>1, <2>1, BudgetAssumption DEF FitsFrom
  <2> QED BY <1>1, <1>2, <2>2, LongestTail
<1> QED BY <1>2, <1>5, <1>6 DEF c

LEMMA NextHInv == HInv /\ [Next]_vars => HInv'
<1> SUFFICES ASSUME HInv, [Next]_vars PROVE HInv'
  OBVIOUS
<1>1. BInv' /\ TInv /\ TInv'
  BY NextBInv DEF HInv, BInv
<1>2. ASSUME UNCHANGED <<buf, next, live, retainedBytes>>
      PROVE  retainedBytes' = Bytes(ringContents)'[1]
  <2>1. ringContents' = ringContents
    BY <1>2 DEF ringContents, SlotOfAge
  <2> QED BY <1>2, <2>1 DEF HInv
<1>3. ASSUME NEW a \in Adders, AddSeq(a) PROVE HInv'
  BY <1>1, <1>2, <1>3 DEF AddSeq, ringVars, HInv
<1>4. ASSUME NEW a \in Adders, AddOversize(a) PROVE HInv'
  BY <1>1, <1>2, <1>4 DEF AddOversize, ringVars, HInv
<1>5. ASSUME NEW a \in Adders, AddPlace(a) PROVE HInv'
  <2>1. mu' # Nil
    BY <1>5, NilAssumption DEF AddPlace
  <2> QED BY <1>1, <1>5, <2>1, PlaceHistory DEF HInv
<1>6. ASSUME NEW a \in Adders, AddEvict(a) PROVE HInv'
  <2>1. mu' # Nil
    BY <1>1, <1>6, NilAssumption DEF AddEvict, TInv, LockInv
  <2> QED BY <1>1, <1>6, <2>1, EvictHistory DEF HInv
<1>7. ASSUME NEW a \in Adders, AddDone(a) PROVE HInv'
  <2>1. live \in 0 .. Capacity /\ retainedBytes \in Int
    BY <1>1 DEF TInv, TypeOK
  <2>2. retainedBytes <= ByteBudget
    <3>1. CASE live > 0
      BY <1>7, <2>1, <3>1, BudgetAssumption DEF AddDone, OverBudget
    <3>2. CASE ~(live > 0)
      <4>1. ringContents = <<>>
        BY <1>1, <2>1, <3>2, RingIs
      <4> QED BY <4>1, EmptyBytes, BudgetAssumption DEF HInv
    <3> QED BY <3>1, <3>2
  <2> QED BY <1>1, <1>2, <1>7, <2>2 DEF AddDone, ringVars, HInv
<1>8. CASE UNCHANGED vars
  BY <1>1, <1>2, <1>8 DEF vars, ringVars, HInv
<1> QED BY <1>3, <1>4, <1>5, <1>6, <1>7, <1>8 DEF Next, Add

-----------------------------------------------------------------------------
(* The refinement.                                                         *)

LEMMA InitHistory == Init => History!Init
<1> SUFFICES ASSUME Init PROVE trimmed = <<>>
  BY DEF History!Init
<1>1. ringContents = <<>> /\ <<>> \in Seq(Entry) /\ Len(<<>>) = 0
  BY InitRing
<1>2. FitsFrom(<<>>, 1)
  BY <1>1, EmptyBytes, BudgetAssumption DEF FitsFrom
<1> QED BY <1>1, <1>2, LongestWhole, TrimIsLongest DEF trimmed

LEMMA NextHistory == HInv /\ [Next]_vars => [History!Record]_trimmed
<1> SUFFICES ASSUME HInv, [Next]_vars PROVE History!Record \/ trimmed' = trimmed
  OBVIOUS
<1>1. TInv'
  BY NextHInv DEF HInv, BInv
<1>2. trimmed = Longest(ringContents) /\ trimmed' = Longest(ringContents)'
  BY TrimIsLongest DEF trimmed
<1>3. ASSUME UNCHANGED ringVars PROVE trimmed' = trimmed
  BY <1>3 DEF ringVars, trimmed, ringContents, SlotOfAge
<1>4. ASSUME NEW a \in Adders, AddPlace(a) PROVE History!Record
  <2>1. /\ trimmed' = Longest(Append(trimmed, cur[a]))
        /\ trimmed' # <<>> /\ trimmed'[Len(trimmed')] = cur[a]
    BY <1>1, <1>2, <1>4, PlaceHistory
  <2>2. History!Trim(Append(trimmed, cur[a])) = Longest(Append(trimmed, cur[a]))
    BY TrimIsLongest
  <2> QED BY <2>1, <2>2 DEF History!Record
<1>5. ASSUME NEW a \in Adders, AddEvict(a) PROVE trimmed' = trimmed
  BY <1>1, <1>2, <1>5, EvictHistory
<1> QED BY <1>3, <1>4, <1>5 DEF Next, Add, AddSeq, AddOversize, AddDone, vars

\* The store implements the abstract bounded history: what readers see of the
\* ring is, after every add, the longest run of most recent entries that fits
\* the capacity and the byte budget, with the new entry in it, for any
\* interleaving of adds (store.go:123-175, 230-244).
THEOREM StoreImplementsHistory == Spec => ImplementsHistory
<1>1. History!Spec <=> History!Init /\ [][History!Record]_trimmed
  BY DEF History!Spec
<1> QED BY InitHInv, NextHInv, InitHistory, NextHistory, <1>1, PTL DEF Spec, ImplementsHistory

-----------------------------------------------------------------------------
(* The readers (HubQueries).  An add is counted by protocol when it leaves *)
(* add() and in total when it enters: the difference is the goroutines in  *)
(* between.                                                                *)

Samples == [at : {"idle", "called", "answered"}, before : Nat, total : Nat,
            byProtocol : [Protocols -> Nat]]

Busy == {a \in Adders : pc[a] # "idle"}

QInv ==
  /\ TInv
  /\ IsFiniteSet(Busy)
  /\ SumOver(byProtocol, Protocols) + Cardinality(Busy) = total
  /\ sample \in [Pollers -> Samples]
  /\ \A q \in Pollers : sample[q].at = "answered" =>
       SumOver(sample[q].byProtocol, Protocols) <= sample[q].total

\* One more entry of a protocol, one more in the sum.
LEMMA CountAddsOne ==
  ASSUME TInv, NEW e \in Entry, CountEntry(e)
  PROVE  SumOver(byProtocol', Protocols) = SumOver(byProtocol, Protocols) + 1
<1>1. byProtocol \in [Protocols -> Nat] /\ e.proto \in Protocols
  BY DEF TInv, TypeOK, Entry
<1>2. byProtocol' = [byProtocol EXCEPT ![e.proto] = @ + 1]
  BY DEF CountEntry
<1>3. /\ byProtocol'[e.proto] = byProtocol[e.proto] + 1
      /\ \A y \in Protocols \ {e.proto} : byProtocol'[y] = byProtocol[y]
      /\ \A y \in Protocols : byProtocol[y] \in Nat
  BY <1>1, <1>2
<1>4. SumOver(byProtocol', Protocols)
        = SumOver(byProtocol, Protocols) - byProtocol[e.proto] + byProtocol'[e.proto]
  BY <1>1, <1>3, ProtocolsAssumption, SumOverExcept
<1>5. SumOver(byProtocol, Protocols) \in Nat
  BY <1>3, ProtocolsAssumption, SumOverType
<1> QED BY <1>1, <1>3, <1>4, <1>5

LEMMA InitQInv == QueryInit => QInv
<1> SUFFICES ASSUME QueryInit PROVE QInv
  OBVIOUS
<1>1. TInv
  BY InitTInv DEF QueryInit
<1>2. Busy = {} /\ total = 0 /\ byProtocol = [p \in Protocols |-> 0]
  BY DEF QueryInit, Init, Busy
<1>3. SumOver(byProtocol, Protocols) = 0
  BY <1>2, ProtocolsAssumption, SumOverZero
<1>4. IsFiniteSet(Busy) /\ Cardinality(Busy) = 0
  BY <1>2, FS_EmptySet
<1> QED BY <1>1, <1>2, <1>3, <1>4 DEF QueryInit, QInv, Samples, NoSample

LEMMA NextQInv == QInv /\ [QueryNext]_allVars => QInv'
<1> SUFFICES ASSUME QInv, [QueryNext]_allVars PROVE QInv'
  OBVIOUS
<1>1. TInv /\ TInv'
  BY NextTInv DEF QInv, QueryNext, allVars, StoreStep, WalkFirst, WalkBySeq, WalkByID, WalkEnd,
                  StatsCall, StatsAnswer
<1>2. /\ total \in Nat /\ byProtocol \in [Protocols -> Nat] /\ Cardinality(Busy) \in Nat
      /\ SumOver(byProtocol, Protocols) \in Nat
  <2>1. total \in Nat /\ byProtocol \in [Protocols -> Nat] /\ Cardinality(Busy) \in Nat
    BY <1>1, FS_CardinalityType DEF QInv, TInv, TypeOK
  <2>2. \A p \in Protocols : byProtocol[p] \in Nat
    BY <2>1
  <2> QED BY <2>1, <2>2, ProtocolsAssumption, SumOverType
<1>3. ASSUME NEW a \in Adders, Add(a), UNCHANGED sample PROVE QInv'
  <2>1. ASSUME pc[a] = "idle", pc' = [pc EXCEPT ![a] = "marshaled"]
        PROVE  IsFiniteSet(Busy)' /\ Cardinality(Busy)' = Cardinality(Busy) + 1
    <3>1. Busy' = Busy \cup {a} /\ a \notin Busy
      BY <1>1, <2>1 DEF Busy, TInv, TypeOK
    <3> QED BY <3>1, FS_AddElement DEF QInv
  <2>2. ASSUME pc[a] # "idle", pc' = [pc EXCEPT ![a] = "idle"]
        PROVE  IsFiniteSet(Busy)' /\ Cardinality(Busy)' = Cardinality(Busy) - 1
    <3>1. Busy' = Busy \ {a} /\ a \in Busy
      BY <1>1, <2>2 DEF Busy, TInv, TypeOK
    <3> QED BY <3>1, FS_RemoveElement DEF QInv
  <2>3. ASSUME pc[a] # "idle", pc' = [pc EXCEPT ![a] = "evicting"]
        PROVE  Busy' = Busy
    BY <1>1, <2>3 DEF Busy, TInv, TypeOK
  <2>4. CASE AddSeq(a)
    <3>1. IsFiniteSet(Busy)' /\ Cardinality(Busy)' = Cardinality(Busy) + 1
          /\ total' = total + 1 /\ byProtocol' = byProtocol
      BY <2>1, <2>4 DEF AddSeq, countVars
    <3> QED BY <1>1, <1>2, <1>3, <3>1 DEF QInv
  <2>5. CASE AddOversize(a) \/ AddDone(a)
    <3>1. IsFiniteSet(Busy)' /\ Cardinality(Busy)' = Cardinality(Busy) - 1
          /\ total' = total
      BY <2>2, <2>5 DEF AddOversize, AddDone
    <3>2. cur[a] \in Entry /\ CountEntry(cur[a])
      BY <1>1, <2>5, InHand DEF AddOversize, AddDone
    <3>3. SumOver(byProtocol', Protocols) = SumOver(byProtocol, Protocols) + 1
      BY <1>1, <3>2, CountAddsOne
    <3> QED BY <1>1, <1>2, <1>3, <3>1, <3>3 DEF QInv
  <2>6. CASE AddPlace(a) \/ AddEvict(a)
    <3>1. Busy' = Busy /\ total' = total /\ byProtocol' = byProtocol
      BY <2>3, <2>6 DEF AddPlace, AddEvict, countVars, Busy
    <3> QED BY <1>1, <1>3, <3>1 DEF QInv
  <2> QED BY <1>3, <2>4, <2>5, <2>6 DEF Add
<1>4. ASSUME UNCHANGED vars PROVE UNCHANGED <<Busy, total, byProtocol>>
  BY <1>4 DEF vars, countVars, Busy
<1>5. ASSUME NEW q \in Pollers, StatsCall(q) PROVE QInv'
  <2> DEFINE asked == [sample[q] EXCEPT !.at = "called", !.before = total]
  <2>1. sample' = [sample EXCEPT ![q] = asked]
    BY <1>5 DEF StatsCall, QInv
  <2>2. asked \in Samples /\ asked.at = "called"
    <3>1. sample[q] \in Samples
      BY DEF QInv
    <3> QED BY <1>2, <3>1 DEF Samples
  <2> HIDE DEF asked
  <2> QED BY <1>1, <1>2, <1>4, <1>5, <2>1, <2>2 DEF QInv, StatsCall
<1>6. ASSUME NEW q \in Pollers, StatsAnswer(q) PROVE QInv'
  <2> DEFINE told == [at |-> "answered", before |-> 0, total |-> total, byProtocol |-> byProtocol]
  <2>1. sample' = [sample EXCEPT ![q] = told] /\ UNCHANGED <<Busy, total, byProtocol>>
    BY <1>4, <1>6 DEF StatsAnswer
  <2>2. SumOver(byProtocol, Protocols) <= total
    BY <1>2 DEF QInv
  <2>3. told \in Samples /\ told.total = total /\ told.byProtocol = byProtocol
    BY <1>2 DEF Samples
  <2> HIDE DEF told
  <2>4. /\ sample' \in [Pollers -> Samples] /\ sample'[q] = told
        /\ \A p \in Pollers \ {q} : sample'[p] = sample[p]
    BY <2>1, <2>3 DEF QInv
  <2>5. \A p \in Pollers : sample'[p].at = "answered" =>
          SumOver(sample'[p].byProtocol, Protocols) <= sample'[p].total
    BY <2>2, <2>3, <2>4 DEF QInv
  <2> QED BY <1>1, <2>1, <2>4, <2>5 DEF QInv
<1>7. ASSUME UNCHANGED vars, UNCHANGED sample PROVE QInv'
  BY <1>1, <1>4, <1>7 DEF QInv
<1> QED BY <1>3, <1>5, <1>6, <1>7
        DEF QueryNext, allVars, queryVars, StoreStep, Next, WalkFirst, WalkBySeq, WalkByID, WalkEnd

\* The entries counted by protocol in an answer of /api/stats are never more
\* than its total, so no share exceeds 100%, for any number of ingest
\* goroutines and pollers: total counts an add from its first step on and
\* byProtocol at its last (store.go:106, 176-180, 430-439).
THEOREM SharesCorrect == QuerySpec => []SharesWithinTotal
<1>1. QInv => SharesWithinTotal
  <2> SUFFICES ASSUME QInv, NEW q \in Pollers, sample[q].at = "answered"
               PROVE  sample[q].total >= Counted(sample[q].byProtocol)
    BY DEF SharesWithinTotal
  <2>1. sample[q].byProtocol \in [Protocols -> Nat] /\ sample[q].total \in Nat
        /\ SumOver(sample[q].byProtocol, Protocols) <= sample[q].total
    BY DEF QInv, Samples
  <2>2. \A p \in Protocols : sample[q].byProtocol[p] \in Nat
    BY <2>1
  <2>3. SumOver(sample[q].byProtocol, Protocols) \in Nat
    BY <2>2, ProtocolsAssumption, SumOverType
  <2>4. Counted(sample[q].byProtocol) = SumOver(sample[q].byProtocol, Protocols)
    BY <2>1 DEF Counted, SumOver
  <2> QED BY <2>1, <2>3, <2>4
<1> QED BY InitQInv, NextQInv, <1>1, PTL DEF QuerySpec

-----------------------------------------------------------------------------
(* Walks.  A walk is related to the set S of the numbers that have reached *)
(* the ring, their positions p in the order they did, and the set R of the *)
(* entries in it.                                                          *)

Ring == {buf[Slot(next, i)] : i \in 0 .. live - 1}
Seqs == {arrivals[i] : i \in 1 .. Len(arrivals)}
IndexIn(s, n) == CHOOSE i \in DOMAIN s : s[i] = n
pos == [n \in Seqs |-> IndexIn(arrivals, n)]

Walks ==
  [at : {"idle", "paging", "done"}, by : {"seq", "id"}, cursor : Nat, anchor : IDs \cup {Nil},
   page : SUBSET Nat, seen : SUBSET Nat, start : SUBSET Nat, lost : BOOLEAN]

Before(p, m, n) == m > n /\ p[m] < p[n]

Kept(e) == e.len # 0 /\ matches(e)

Shown(w) == w.seen \cup w.page

\* A walk by number: an entry below the cursor that was shown will be shown
\* again only behind its inverted partner, and one above it that was not shown
\* was skipped over for its partner.
BySeqOK(w, p, R) ==
  /\ \A n \in w.page \cap w.seen : \E m \in w.seen : Before(p, m, n)
  /\ \A n \in Shown(w) : n < w.cursor => \E m \in Shown(w) : Before(p, m, n)
  /\ \A e \in R :
       e.seq \in w.start \ Shown(w) /\ (w.at = "done" \/ e.seq >= w.cursor) =>
         \E m \in Shown(w) : Before(p, e.seq, m)

\* The cursor and the anchor are of one entry; a walk by id has shown all that
\* is not behind it.
AnchorOK(w, S, p, R) ==
  /\ w.cursor \in S
  /\ \A e \in R : e.seq = w.cursor => e.id = w.anchor /\ e.len # 0
  /\ w.by = "id" => \A e \in R : e.seq \in w.start /\ p[e.seq] >= p[w.cursor] => e.seq \in Shown(w)

WalkOK(w, S, p, R) ==
  /\ w \in Walks
  /\ Shown(w) \subseteq S /\ w.start \subseteq S
  /\ w.at = "idle" => Shown(w) = {}
  /\ w.at = "done" => w.page = {}
  /\ \A e \in R : e.seq \in w.start => Kept(e)
  /\ w.at # "idle" /\ w.by = "seq" => BySeqOK(w, p, R)
  /\ w.at = "paging" => AnchorOK(w, S, p, R)
  /\ w.at = "done" /\ w.by = "id" /\ ~w.lost => \A e \in R : e.seq \in w.start => e.seq \in w.seen

\* The ring is the last arrivals.
RingInv ==
  /\ SInv /\ BInv
  /\ arrivals \in Seq(Nat) /\ live <= Len(arrivals)
  /\ \A i \in 0 .. live - 1 : buf[Slot(next, i)].seq = arrivals[Len(arrivals) - i]
  /\ \A i \in 1 .. Len(arrivals) : arrivals[i] <= total
  /\ \A i, j \in 1 .. Len(arrivals) : arrivals[i] = arrivals[j] => i = j
  /\ \A a \in Adders, i \in 1 .. Len(arrivals) : pc[a] = "marshaled" => cur[a].seq # arrivals[i]

WInv ==
  /\ RingInv
  /\ walk \in [Walkers -> Walks]
  /\ \A r \in Walkers : WalkOK(walk[r], Seqs, pos, Ring)


\* What the steps below need of positions and of the ring.
Placed(S, p, R) ==
  /\ \A n \in S : n \in Nat /\ p[n] \in Nat
  /\ \A m, n \in S : p[m] = p[n] => m = n
  /\ \A e \in R : e.seq \in S /\ e \in Entry
  /\ \A e, f \in R : e.seq = f.seq => e = f
  /\ \A n \in S, e \in R : p[n] >= p[e.seq] => \E f \in R : f.seq = n

\* A walk stands still while entries arrive and leave.
LEMMA WalkStable ==
  ASSUME NEW w, NEW S, NEW p, NEW R, NEW S2, NEW p2, NEW R2,
         WalkOK(w, S, p, R), S \subseteq S2, \A n \in S : p2[n] = p[n],
         \A e \in R2 : e.seq \in S => e \in R
  PROVE  WalkOK(w, S2, p2, R2)
<1>1. Shown(w) \subseteq S /\ w.start \subseteq S /\ w.seen \subseteq S
  BY DEF WalkOK, Shown
<1>2. \A e \in R2 : e.seq \in w.start => e \in R
  BY <1>1
<1>3. \A m, n \in S : Before(p2, m, n) <=> Before(p, m, n)
  BY DEF Before
<1>4. ASSUME BySeqOK(w, p, R) PROVE BySeqOK(w, p2, R2)
  <2>1. \A n \in w.page \cap w.seen : \E m \in w.seen : Before(p2, m, n)
    BY <1>1, <1>3, <1>4 DEF BySeqOK
  <2>2. \A n \in Shown(w) : n < w.cursor => \E m \in Shown(w) : Before(p2, m, n)
    BY <1>1, <1>3, <1>4 DEF BySeqOK
  <2>3. \A e \in R2 : e.seq \in w.start \ Shown(w) /\ (w.at = "done" \/ e.seq >= w.cursor) =>
          \E m \in Shown(w) : Before(p2, e.seq, m)
    BY <1>1, <1>2, <1>3, <1>4 DEF BySeqOK
  <2> QED BY <2>1, <2>2, <2>3 DEF BySeqOK
<1>5. ASSUME AnchorOK(w, S, p, R) PROVE AnchorOK(w, S2, p2, R2)
  <2>1. \A e \in R2 : e.seq = w.cursor => e.id = w.anchor /\ e.len # 0
    BY <1>5 DEF AnchorOK
  <2>2. w.cursor \in S /\ p2[w.cursor] = p[w.cursor]
    BY <1>5 DEF AnchorOK
  <2>3. w.by = "id" =>
          \A e \in R2 : e.seq \in w.start /\ p2[e.seq] >= p2[w.cursor] => e.seq \in Shown(w)
    BY <1>1, <1>2, <1>5, <2>2 DEF AnchorOK
  <2> QED BY <2>1, <2>2, <2>3 DEF AnchorOK
<1> QED BY <1>1, <1>2, <1>4, <1>5 DEF WalkOK

\* P is a page of the candidates Q, and o its oldest entry: it holds all of
\* them that are not behind o.
PageOf(P, o, Q, p) ==
  /\ o \in Q /\ o.seq \in P
  /\ \A n \in P : \E e \in Q : e.seq = n /\ p[n] >= p[o.seq]
  /\ \A e \in Q : p[e.seq] >= p[o.seq] => e.seq \in P

\* What an answer makes of a walk.
Answered(w, v, P, o, Q, p) ==
  /\ v \in Walks
  /\ v.page = P /\ v.seen = Shown(w)
  /\ \/ Q = {} /\ P = {} /\ v.at = "done" /\ v.cursor = w.cursor
     \/ PageOf(P, o, Q, p) /\ v.at = "paging" /\ v.cursor = o.seq /\ v.anchor = o.id

LEMMA FirstOK ==
  ASSUME NEW w, NEW S, NEW p, NEW R, NEW v, NEW P, NEW o, NEW Q,
         Placed(S, p, R), WalkOK(w, S, p, R), w.at = "idle",
         Q = {e \in R : Kept(e)}, Answered(w, v, P, o, Q, p), v.start = {e.seq : e \in Q}
  PROVE  WalkOK(v, S, p, R)
<1>a. \A n \in S : n \in Nat /\ p[n] \in Nat
  BY DEF Placed
<1>b. \A m, n \in S : p[m] = p[n] => m = n
  BY DEF Placed
<1>1. v \in Walks /\ v.page = P /\ v.seen = {} /\ Shown(v) = P
  BY DEF WalkOK, Answered, Shown
<1>2. P \subseteq S /\ v.start \subseteq S
  BY DEF Answered, PageOf, Placed
<1>3. \A e \in R : e.seq \in v.start => Kept(e) /\ e \in Q
  BY DEF Placed
<1>4. CASE Q = {} /\ P = {} /\ v.at = "done"
  <2>1. v.start = {}
    BY <1>4
  <2>2. BySeqOK(v, p, R)
    BY <1>1, <1>4, <2>1 DEF BySeqOK
  <2> QED BY <1>1, <1>2, <1>4, <2>1, <2>2 DEF WalkOK
<1>5. CASE PageOf(P, o, Q, p) /\ v.at = "paging" /\ v.cursor = o.seq /\ v.anchor = o.id
  <2>1. o \in R /\ o.seq \in S /\ Kept(o) /\ o.seq \in P
    BY <1>5 DEF PageOf, Placed
  <2>2. ASSUME NEW n \in P, n # o.seq PROVE p[o.seq] < p[n]
    <3>1. n \in S /\ p[n] >= p[o.seq]
      BY <1>2, <1>5 DEF PageOf
    <3>2. p[n] # p[o.seq] /\ p[n] \in Nat /\ p[o.seq] \in Nat
      BY <1>a, <1>b, <2>1, <2>2, <3>1
    <3> QED BY <3>1, <3>2
  <2>3. ASSUME NEW e \in R, e.seq \in v.start \ P PROVE p[e.seq] < p[o.seq] /\ e.seq # o.seq
    <3>1. e \in Q /\ e.seq \in S /\ e.seq \notin P
      BY <1>2, <1>3, <2>3
    <3>2. ~(p[e.seq] >= p[o.seq])
      BY <1>5, <3>1 DEF PageOf
    <3>3. p[e.seq] \in Nat /\ p[o.seq] \in Nat
      BY <1>a, <2>1, <3>1
    <3> QED BY <2>1, <3>1, <3>2, <3>3
  <2>4. BySeqOK(v, p, R)
    <3>1. \A n \in P : n < o.seq => Before(p, o.seq, n)
      <4> TAKE n \in P
      <4> HAVE n < o.seq
      <4>1. n \in Nat /\ o.seq \in Nat
        BY <1>a, <1>2, <2>1
      <4> QED BY <2>2, <4>1 DEF Before
    <3>2. \A e \in R : e.seq \in v.start \ P /\ e.seq >= o.seq => Before(p, e.seq, o.seq)
      <4> TAKE e \in R
      <4> HAVE e.seq \in v.start \ P /\ e.seq >= o.seq
      <4>1. e.seq \in Nat /\ o.seq \in Nat
        BY <1>a, <1>2, <2>1
      <4> QED BY <2>3, <4>1 DEF Before
    <3> QED BY <1>1, <1>5, <2>1, <3>1, <3>2 DEF BySeqOK
  <2>5. AnchorOK(v, S, p, R)
    <3>1. \A e \in R : e.seq = o.seq => e = o
      BY <2>1 DEF Placed
    <3>2. \A e \in R : e.seq \in v.start /\ p[e.seq] >= p[o.seq] => e.seq \in P
      BY <1>3, <1>5 DEF PageOf
    <3> QED BY <1>1, <1>5, <2>1, <3>1, <3>2 DEF AnchorOK, Kept
  <2> QED BY <1>1, <1>2, <1>3, <1>5, <2>4, <2>5 DEF WalkOK
<1> QED BY <1>4, <1>5 DEF Answered

LEMMA BySeqStep ==
  ASSUME NEW w, NEW S, NEW p, NEW R, NEW v, NEW P, NEW o, NEW Q,
         Placed(S, p, R), WalkOK(w, S, p, R), w.at = "paging", w.by = "seq",
         Q = {e \in R : Kept(e) /\ e.seq < w.cursor}, Answered(w, v, P, o, Q, p),
         v.start = w.start, v.by = w.by
  PROVE  WalkOK(v, S, p, R)
<1>a. \A n \in S : n \in Nat /\ p[n] \in Nat
  BY DEF Placed
<1>b. \A m, n \in S : p[m] = p[n] => m = n
  BY DEF Placed
<1>1. /\ v \in Walks /\ v.page = P /\ v.seen = Shown(w) /\ Shown(v) = Shown(w) \cup P
      /\ w.cursor \in Nat /\ Shown(w) \subseteq S
  BY DEF WalkOK, Answered, Shown, Walks
<1>2. P \subseteq S /\ v.start \subseteq S
  BY DEF Answered, PageOf, Placed, WalkOK
<1>3. \A e \in R : e.seq \in v.start => Kept(e) /\ e \in Entry /\ e.seq \in S
  BY DEF Placed, WalkOK
<1>4. BySeqOK(w, p, R)
  BY DEF WalkOK
<1>5. CASE Q = {} /\ P = {} /\ v.at = "done" /\ v.cursor = w.cursor
  <2>1. ASSUME NEW e \in R, e.seq \in v.start \ Shown(w) PROVE e.seq >= w.cursor
    <3>1. e \notin Q /\ Kept(e) /\ e.seq \in Nat
      BY <1>3, <1>5, <2>1 DEF Placed
    <3> QED BY <1>1, <3>1
  <2>2. BySeqOK(v, p, R)
    BY <1>1, <1>4, <1>5, <2>1 DEF BySeqOK
  <2> QED BY <1>1, <1>2, <1>3, <1>5, <2>2 DEF WalkOK
<1>6. CASE PageOf(P, o, Q, p) /\ v.at = "paging" /\ v.cursor = o.seq /\ v.anchor = o.id
  <2>1. /\ o \in R /\ o.seq \in S /\ Kept(o) /\ o.seq \in P /\ o.seq < w.cursor /\ o.seq \in Nat
        /\ \A n \in P : n < w.cursor /\ n \in Nat
    <3>1. o \in R /\ Kept(o) /\ o.seq \in P /\ o.seq < w.cursor
      BY <1>6 DEF PageOf
    <3>2. o.seq \in S
      BY <1>2, <3>1
    <3>3. \A n \in P : n < w.cursor
      BY <1>6 DEF PageOf
    <3> QED BY <1>a, <1>2, <3>1, <3>2, <3>3
  <2>2. ASSUME NEW n \in P, n # o.seq PROVE p[o.seq] < p[n]
    <3>1. n \in S /\ p[n] >= p[o.seq]
      BY <1>2, <1>6 DEF PageOf
    <3>2. p[n] # p[o.seq] /\ p[n] \in Nat /\ p[o.seq] \in Nat
      BY <1>a, <1>b, <2>1, <2>2, <3>1
    <3> QED BY <3>1, <3>2
  <2>3. ASSUME NEW n \in P \cap Shown(w) PROVE \E m \in Shown(w) : Before(p, m, n)
    BY <1>4, <2>1 DEF BySeqOK
  <2>4. ASSUME NEW n \in Shown(w) \cup P, n < o.seq
        PROVE  \E m \in Shown(w) \cup P : Before(p, m, n)
    <3>1. CASE n \in P
      <4>1. n \in Nat /\ n # o.seq
        BY <2>1, <2>4, <3>1
      <4> QED BY <2>1, <2>2, <2>4, <3>1, <4>1 DEF Before
    <3>2. CASE n \in Shown(w)
      <4>1. n < w.cursor
        <5>1. n \in Nat
          BY <1>a, <1>1, <3>2
        <5> QED BY <1>1, <2>1, <2>4, <5>1
      <4> QED BY <1>4, <3>2, <4>1 DEF BySeqOK
    <3> QED BY <2>4, <3>1, <3>2
  <2>5. ASSUME NEW e \in R, e.seq \in v.start \ (Shown(w) \cup P), e.seq >= o.seq
        PROVE  \E m \in Shown(w) \cup P : Before(p, e.seq, m)
    <3>1. CASE e.seq >= w.cursor
      BY <1>4, <2>5, <3>1 DEF BySeqOK
    <3>2. CASE ~(e.seq >= w.cursor)
      <4>1. e \in Q
        <5>1. e.seq \in Nat /\ Kept(e)
          BY <1>a, <1>3, <2>5
        <5> QED BY <1>1, <3>2, <5>1
      <4>2. ~(p[e.seq] >= p[o.seq]) /\ e.seq # o.seq /\ e.seq \in S
        BY <1>3, <1>6, <2>1, <2>5, <4>1 DEF PageOf
      <4>3. e.seq > o.seq /\ p[e.seq] < p[o.seq]
        <5>1. e.seq \in Nat /\ p[e.seq] \in Nat /\ p[o.seq] \in Nat
          BY <1>a, <2>1, <4>2
        <5> QED BY <2>1, <2>5, <4>2, <5>1
      <4> QED BY <2>1, <4>3 DEF Before
    <3> QED BY <3>1, <3>2
  <2>6. BySeqOK(v, p, R)
    BY <1>1, <1>6, <2>3, <2>4, <2>5 DEF BySeqOK
  <2>7. AnchorOK(v, S, p, R)
    <3>1. \A e \in R : e.seq = o.seq => e = o
      BY <2>1 DEF Placed
    <3> QED BY <1>1, <1>6, <2>1, <3>1 DEF AnchorOK, Kept
  <2> QED BY <1>1, <1>2, <1>3, <1>6, <2>6, <2>7 DEF WalkOK
<1> QED BY <1>5, <1>6 DEF Answered

LEMMA ByIDStep ==
  ASSUME NEW w, NEW S, NEW p, NEW R, NEW v, NEW P, NEW o, NEW Q,
         Placed(S, p, R), WalkOK(w, S, p, R), w.at = "paging", w.by = "id",
         Q = {e \in R : Kept(e) /\ \E h \in R : h.len # 0 /\ h.id = w.anchor /\ p[e.seq] < p[h.seq]},
         Answered(w, v, P, o, Q, p), v.start = w.start, v.by = w.by,
         v.lost = \A h \in R : h.len # 0 => h.id # w.anchor
  PROVE  WalkOK(v, S, p, R)
<1>a. \A n \in S : n \in Nat /\ p[n] \in Nat
  BY DEF Placed
<1>b. \A m, n \in S : p[m] = p[n] => m = n
  BY DEF Placed
<1>1. /\ v \in Walks /\ v.page = P /\ v.seen = Shown(w) /\ Shown(v) = Shown(w) \cup P
      /\ Shown(w) \subseteq S
  BY DEF WalkOK, Answered, Shown
<1>2. P \subseteq S /\ v.start \subseteq S
  BY DEF Answered, PageOf, Placed, WalkOK
<1>3. \A e \in R : e.seq \in v.start => Kept(e) /\ e.seq \in S
  BY DEF Placed, WalkOK
<1>4. AnchorOK(w, S, p, R) /\ w.cursor \in S /\ p[w.cursor] \in Nat
  BY DEF WalkOK, AnchorOK, Placed
\* What is not behind a hit has been shown.
<1>5. ASSUME NEW e \in R, e.seq \in v.start, e \notin Q, NEW g \in R, g.len # 0, g.id = w.anchor
      PROVE  e.seq \in Shown(w)
  <2>1. e.seq \in S /\ p[e.seq] \in Nat
    BY <1>3, <1>5 DEF Placed
  <2>2. \A h \in R : h.len # 0 /\ h.id = w.anchor => ~(p[e.seq] < p[h.seq])
    BY <1>3, <1>5
  <2>3. p[e.seq] >= p[w.cursor]
    <3> SUFFICES ASSUME p[w.cursor] > p[e.seq] PROVE FALSE
      BY <1>4, <2>1
    <3>1. PICK f \in R : f.seq = w.cursor
      <4>1. p[w.cursor] >= p[e.seq]
        BY <1>4, <2>1
      <4>2. \A n \in S, x \in R : p[n] >= p[x.seq] => \E f \in R : f.seq = n
        BY DEF Placed
      <4> QED BY <1>4, <4>1, <4>2
    <3>2. f.id = w.anchor /\ f.len # 0
      BY <1>4, <3>1 DEF AnchorOK
    <3> QED BY <1>4, <2>1, <2>2, <3>1, <3>2
  <2> QED BY <1>4, <1>5, <2>3 DEF AnchorOK
<1>6. CASE Q = {} /\ P = {} /\ v.at = "done"
  <2>1. ~v.lost => \A e \in R : e.seq \in v.start => e.seq \in v.seen
    BY <1>1, <1>5, <1>6
  <2> QED BY <1>1, <1>2, <1>3, <1>6, <2>1 DEF WalkOK
<1>7. CASE PageOf(P, o, Q, p) /\ v.at = "paging" /\ v.cursor = o.seq /\ v.anchor = o.id
  <2>1. o \in R /\ o.seq \in S /\ Kept(o) /\ o.seq \in P
    BY <1>7 DEF PageOf, Placed
  <2>2. PICK g \in R : g.len # 0 /\ g.id = w.anchor
    BY <1>7 DEF PageOf
  <2>3. ASSUME NEW e \in R, e.seq \in v.start, p[e.seq] >= p[o.seq] PROVE e.seq \in Shown(v)
    BY <1>1, <1>5, <1>7, <2>2, <2>3 DEF PageOf
  <2>4. \A e \in R : e.seq = o.seq => e = o
    BY <2>1 DEF Placed
  <2>5. AnchorOK(v, S, p, R)
    BY <1>7, <2>1, <2>3, <2>4 DEF AnchorOK, Kept
  <2> QED BY <1>1, <1>2, <1>3, <1>7, <2>5 DEF WalkOK
<1> QED BY <1>6, <1>7 DEF Answered


-----------------------------------------------------------------------------
(* The ring is the last arrivals.                                          *)

LEMMA IndexInIs ==
  ASSUME NEW s, NEW i \in DOMAIN s, \A j, k \in DOMAIN s : s[j] = s[k] => j = k
  PROVE  IndexIn(s, s[i]) = i
BY DEF IndexIn

LEMMA PosIs ==
  ASSUME RingInv
  PROVE  /\ Len(arrivals) \in Nat
         /\ \A i \in 1 .. Len(arrivals) : arrivals[i] \in Seqs /\ pos[arrivals[i]] = i
         /\ \A n \in Seqs : pos[n] \in 1 .. Len(arrivals) /\ arrivals[pos[n]] = n /\ n \in Nat
<1>1. /\ arrivals \in Seq(Nat) /\ Len(arrivals) \in Nat /\ DOMAIN arrivals = 1 .. Len(arrivals)
      /\ \A i \in 1 .. Len(arrivals) : arrivals[i] \in Nat
      /\ \A j, k \in DOMAIN arrivals : arrivals[j] = arrivals[k] => j = k
  BY DEF RingInv
<1>2. ASSUME NEW i \in 1 .. Len(arrivals) PROVE arrivals[i] \in Seqs /\ pos[arrivals[i]] = i
  <2>1. arrivals[i] \in Seqs
    BY DEF Seqs
  <2>2. IndexIn(arrivals, arrivals[i]) = i
    BY <1>1, IndexInIs
  <2> QED BY <2>1, <2>2 DEF pos
<1>3. ASSUME NEW n \in Seqs
      PROVE  pos[n] \in 1 .. Len(arrivals) /\ arrivals[pos[n]] = n /\ n \in Nat
  <2>1. PICK i \in 1 .. Len(arrivals) : n = arrivals[i]
    BY DEF Seqs
  <2> QED BY <1>1, <1>2, <2>1
<1> QED BY <1>1, <1>2, <1>3

\* The age of an entry and the position of its number.
LEMMA AgeAndPos ==
  ASSUME RingInv, NEW i \in 0 .. live - 1
  PROVE  LET e == buf[Slot(next, i)] IN
         /\ e \in Ring /\ e \in Entry /\ e # Nil /\ e.seq \in Seqs /\ pos[e.seq] = Len(arrivals) - i
         /\ i \in Slots /\ Slot(next, i) \in Slots /\ EntryOfAge(i) = e
<1> DEFINE e == buf[Slot(next, i)]
<1>1. TInv /\ live \in 0 .. Capacity /\ live <= Len(arrivals) /\ Len(arrivals) \in Nat
  BY PosIs DEF RingInv, BInv, TInv, TypeOK
<1>2. i \in Slots /\ i < live
  BY <1>1 DEF Slots
<1>3. Slot(next, i) \in Slots /\ e # Nil /\ EntryOfAge(i) = e
  BY <1>1, <1>2, Contiguous DEF EntryOfAge
<1>4. e \in Entry /\ e \in Ring
  BY <1>1, <1>3 DEF TInv, TypeOK, Ring
<1>5. e.seq = arrivals[Len(arrivals) - i] /\ Len(arrivals) - i \in 1 .. Len(arrivals)
  BY <1>1 DEF RingInv
<1>6. e.seq \in Seqs /\ pos[e.seq] = Len(arrivals) - i
  BY <1>5, PosIs
<1> QED BY <1>2, <1>3, <1>4, <1>6

LEMMA PlacedIs == ASSUME RingInv PROVE Placed(Seqs, pos, Ring)
<1>1. \A e \in Ring : \E i \in 0 .. live - 1 : e = buf[Slot(next, i)]
  BY DEF Ring
<1>2. Len(arrivals) \in Nat /\ live \in Nat /\ live <= Len(arrivals)
  BY PosIs DEF RingInv, BInv, TInv, TypeOK
<1>3. \A n \in Seqs : n \in Nat /\ pos[n] \in Nat
  BY <1>2, PosIs
<1>4. \A m, n \in Seqs : pos[m] = pos[n] => m = n
  BY PosIs
<1>5. \A e \in Ring : e.seq \in Seqs /\ e \in Entry
  BY <1>1, AgeAndPos
<1>6. ASSUME NEW e \in Ring, NEW f \in Ring, e.seq = f.seq PROVE e = f
  <2>1. PICK i \in 0 .. live - 1 : e = buf[Slot(next, i)]
    BY <1>1
  <2>2. PICK j \in 0 .. live - 1 : f = buf[Slot(next, j)]
    BY <1>1
  <2>3. pos[e.seq] = Len(arrivals) - i /\ pos[f.seq] = Len(arrivals) - j
    BY <2>1, <2>2, AgeAndPos
  <2>4. i = j
    BY <1>2, <1>6, <2>3
  <2> QED BY <2>1, <2>2, <2>4
<1>7. ASSUME NEW n \in Seqs, NEW e \in Ring, pos[n] >= pos[e.seq] PROVE \E f \in Ring : f.seq = n
  <2>1. PICK i \in 0 .. live - 1 : e = buf[Slot(next, i)]
    BY <1>1
  <2>2. pos[e.seq] = Len(arrivals) - i /\ pos[n] \in 1 .. Len(arrivals)
    BY <2>1, AgeAndPos, PosIs
  <2> DEFINE j == Len(arrivals) - pos[n]
  <2>3. j \in 0 .. live - 1 /\ Len(arrivals) - j = pos[n]
    BY <1>2, <1>7, <2>2
  <2> HIDE DEF j
  <2>4. buf[Slot(next, j)] \in Ring /\ buf[Slot(next, j)].seq = arrivals[Len(arrivals) - j]
    BY <2>3 DEF Ring, RingInv
  <2>5. arrivals[pos[n]] = n
    BY PosIs
  <2> QED BY <2>3, <2>4, <2>5
<1> QED BY <1>3, <1>4, <1>5, <1>6, <1>7 DEF Placed

\* What entries that come and go do to the three.
Drift ==
  /\ Seqs \subseteq Seqs'
  /\ \A n \in Seqs : pos'[n] = pos[n]
  /\ \A e \in Ring' : e.seq \in Seqs => e \in Ring

LEMMA NoDrift == ASSUME UNCHANGED <<buf, next, live, arrivals>> PROVE Drift
BY DEF Drift, Seqs, pos, Ring

LEMMA EvictDrift ==
  ASSUME RingInv, NEW a \in Adders, AddEvict(a), UNCHANGED arrivals
  PROVE  /\ Drift /\ live' <= Len(arrivals')
         /\ \A i \in 0 .. live' - 1 : buf'[Slot(next', i)].seq = arrivals'[Len(arrivals') - i]
<1>1. /\ live \in 1 .. Capacity /\ live' = live - 1 /\ next' = next
      /\ \A i \in 0 .. live - 2 : buf'[Slot(next', i)] = buf[Slot(next, i)]
  BY EvictShifts DEF RingInv, BInv
<1>2. \A i \in 0 .. live' - 1 : i \in 0 .. live - 2 /\ i \in 0 .. live - 1
  BY <1>1
<1>3. Ring' \subseteq Ring
  BY <1>1, <1>2 DEF Ring
<1>4. Drift
  BY <1>3 DEF Drift, Seqs, pos
<1>5. live' <= Len(arrivals')
  BY <1>1, PosIs DEF RingInv
<1> QED BY <1>1, <1>2, <1>4, <1>5 DEF RingInv

LEMMA PlaceDrift ==
  ASSUME RingInv, RingInv', NEW a \in Adders, AddPlace(a), arrivals' = Append(arrivals, cur[a].seq)
  PROVE  Drift
<1>1. /\ buf'[Slot(next', 0)] = cur[a]
      /\ \A i \in Slots \ {0} : buf'[Slot(next', i)] = buf[Slot(next, i - 1)]
      /\ live' = IF live < Capacity THEN live + 1 ELSE live
      /\ live \in 0 .. Capacity
  BY PlaceShifts DEF RingInv, BInv
<1>2. /\ Len(arrivals) \in Nat /\ Len(arrivals') = Len(arrivals) + 1
      /\ \A i \in 1 .. Len(arrivals) : arrivals'[i] = arrivals[i]
      /\ arrivals'[Len(arrivals) + 1] = cur[a].seq
  BY DEF RingInv
<1>3. \A i \in 1 .. Len(arrivals) : i \in 1 .. Len(arrivals')
  BY <1>2
<1>4. Seqs \subseteq Seqs'
  BY <1>2, <1>3 DEF Seqs
<1>5. /\ DOMAIN arrivals' = 1 .. Len(arrivals')
      /\ \A j, k \in DOMAIN arrivals' : arrivals'[j] = arrivals'[k] => j = k
  BY DEF RingInv
<1>6. ASSUME NEW n \in Seqs PROVE pos'[n] = pos[n]
  <2>1. pos[n] \in DOMAIN arrivals' /\ arrivals'[pos[n]] = n /\ n \in Seqs'
    BY <1>2, <1>3, <1>4, <1>5, PosIs
  <2>2. IndexIn(arrivals', n) = pos[n]
    BY <1>5, <2>1, IndexInIs
  <2> QED BY <2>1, <2>2 DEF pos
<1>7. ASSUME NEW e \in Ring', e.seq \in Seqs PROVE e \in Ring
  <2>1. PICK i \in 0 .. live' - 1 : e = buf'[Slot(next', i)]
    BY DEF Ring
  <2>2. CASE i = 0
    <3>1. e = cur[a] /\ pc[a] = "marshaled"
      BY <1>1, <2>1, <2>2 DEF AddPlace
    <3>2. cur[a].seq \notin Seqs
      BY <3>1 DEF Seqs, RingInv
    <3> QED BY <1>7, <3>1, <3>2
  <2>3. CASE i # 0
    <3>1. i \in Slots \ {0} /\ i - 1 \in 0 .. live - 1
      BY <1>1, <2>3 DEF Slots
    <3> QED BY <1>1, <2>1, <3>1 DEF Ring
  <2> QED BY <2>2, <2>3
<1> QED BY <1>4, <1>6, <1>7 DEF Drift


\* A step of the store keeps the ring the last arrivals.
LEMMA StoreRing ==
  ASSUME RingInv, StoreStep
  PROVE  RingInv' /\ Drift
<1>1. SInv /\ BInv /\ TInv /\ SInv' /\ BInv' /\ TInv' /\ SeqUnique
  BY NextSInv, NextBInv DEF StoreStep, RingInv, SInv
<1>2. /\ arrivals \in Seq(Nat) /\ Len(arrivals) \in Nat /\ total \in Nat /\ total' \in Nat
      /\ \A i \in 1 .. Len(arrivals) : arrivals[i] \in Nat
  BY <1>1 DEF RingInv, TInv, TypeOK
<1>3. PICK a \in Adders : Add(a)
  BY DEF StoreStep, Next
<1>4. ASSUME UNCHANGED <<buf, next, live>>, mu' = mu \/ mu' = Nil, total' >= total,
             \A b \in Adders : pc'[b] = "marshaled" =>
               (pc[b] = "marshaled" /\ cur'[b] = cur[b]) \/ cur'[b].seq = total + 1
      PROVE  RingInv' /\ Drift
  <2>1. arrivals' = arrivals
    BY <1>4, NilAssumption DEF StoreStep
  <2>2. \A b \in Adders, i \in 1 .. Len(arrivals) :
          pc'[b] = "marshaled" => cur'[b].seq # arrivals[i]
    BY <1>2, <1>4 DEF RingInv
  <2>3. \A i \in 1 .. Len(arrivals) : arrivals[i] <= total'
    <3>1. \A i \in 1 .. Len(arrivals) : arrivals[i] <= total
      BY DEF RingInv
    <3> QED BY <1>2, <1>4, <3>1
  <2> QED BY <1>1, <1>4, <2>1, <2>2, <2>3, NoDrift DEF RingInv
<1>5. CASE AddSeq(a)
  <2>1. \A b \in Adders : pc'[b] = "marshaled" =>
          (pc[b] = "marshaled" /\ cur'[b] = cur[b]) \/ cur'[b].seq = total + 1
    BY <1>1, <1>5 DEF AddSeq, TInv, TypeOK
  <2> QED BY <1>2, <1>4, <1>5, <2>1 DEF AddSeq, ringVars
<1>6. CASE AddOversize(a) \/ AddDone(a)
  <2>1. \A b \in Adders : pc'[b] = "marshaled" => pc[b] = "marshaled" /\ cur'[b] = cur[b]
    BY <1>1, <1>6 DEF AddOversize, AddDone, TInv, TypeOK
  <2>2. UNCHANGED <<buf, next, live, total>> /\ (mu' = mu \/ mu' = Nil)
    BY <1>6 DEF AddOversize, AddDone, ringVars
  <2> QED BY <1>2, <1>4, <2>1, <2>2
<1>7. CASE AddEvict(a)
  <2>1. UNCHANGED <<arrivals, total, pc, cur>>
    BY <1>7, NilAssumption DEF StoreStep, AddEvict
  <2>2. /\ Drift /\ live' <= Len(arrivals')
        /\ \A i \in 0 .. live' - 1 : buf'[Slot(next', i)].seq = arrivals'[Len(arrivals') - i]
    BY <1>7, <2>1, EvictDrift
  <2> QED BY <1>1, <2>1, <2>2 DEF RingInv
<1>8. CASE AddPlace(a)
  <2> DEFINE n == Len(arrivals)
  <2>1. /\ pc[a] = "marshaled" /\ cur[a] # Nil /\ cur[a] \in Entry /\ cur[a].seq \in Nat
        /\ cur[a].seq <= total /\ \A i \in 1 .. n : cur[a].seq # arrivals[i]
    BY <1>1, <1>8, InHand, SeqTyped DEF AddPlace, SeqUnique, RingInv
  <2>2. arrivals' = Append(arrivals, cur[a].seq)
    <3>1. mu = Nil /\ mu' = a /\ buf' = [buf EXCEPT ![next] = cur[a]]
      BY <1>8 DEF AddPlace
    <3>2. buf'[next] = cur[a]
      BY <1>1, <3>1 DEF TInv, TypeOK
    <3> QED BY <3>1, <3>2 DEF StoreStep
  <2>3. /\ arrivals' \in Seq(Nat) /\ Len(arrivals') = n + 1 /\ arrivals'[n + 1] = cur[a].seq
        /\ \A i \in 1 .. n : arrivals'[i] = arrivals[i]
    BY <1>2, <2>1, <2>2
  <2>4. /\ buf'[Slot(next', 0)] = cur[a]
        /\ \A i \in Slots \ {0} : buf'[Slot(next', i)] = buf[Slot(next, i - 1)]
        /\ live' = IF live < Capacity THEN live + 1 ELSE live
        /\ live \in 0 .. Capacity
    BY <1>1, <1>8, PlaceShifts
  <2>5. total' = total /\ cur' = cur /\ pc' = [pc EXCEPT ![a] = "evicting"]
    BY <1>8 DEF AddPlace
  <2>6. live <= n /\ live' <= n + 1 /\ n \in Nat
    BY <1>2, <2>4 DEF RingInv
  <2> HIDE DEF n
  <2>7. ASSUME NEW i \in 0 .. live' - 1
        PROVE  buf'[Slot(next', i)].seq = arrivals'[Len(arrivals') - i]
    <3>1. CASE i = 0
      BY <2>3, <2>4, <2>6, <3>1
    <3>2. CASE i # 0
      <4>1. i \in Slots \ {0} /\ i - 1 \in 0 .. live - 1
        BY <2>4, <3>2 DEF Slots
      <4>2. buf[Slot(next, i - 1)].seq = arrivals[n - (i - 1)]
        BY <4>1 DEF RingInv, n
      <4>3. n - (i - 1) \in 1 .. n /\ (n + 1) - i = n - (i - 1)
        BY <2>4, <2>6, <4>1
      <4> QED BY <2>3, <2>4, <4>1, <4>2, <4>3
    <3> QED BY <3>1, <3>2
  <2>8. ASSUME NEW i \in 1 .. n + 1
        PROVE  /\ arrivals'[i] <= total'
               /\ \A j \in 1 .. n + 1 : arrivals'[i] = arrivals'[j] => i = j
    <3>1. \A j \in 1 .. n : arrivals[j] <= total /\ \A k \in 1 .. n : arrivals[j] = arrivals[k] => j = k
      BY DEF RingInv, n
    <3>2. \A j \in 1 .. n + 1 : j \in 1 .. n \/ j = n + 1
      BY <2>6
    <3> QED BY <2>1, <2>3, <2>5, <3>1, <3>2
  <2>9. ASSUME NEW b \in Adders, pc'[b] = "marshaled", NEW i \in 1 .. n + 1
        PROVE  cur'[b].seq # arrivals'[i]
    <3>1. b # a /\ pc[b] = "marshaled"
      BY <1>1, <2>5, <2>9 DEF TInv, TypeOK
    <3>2. cur[b] # Nil
      BY <1>1, <3>1 DEF TInv, LockInv
    <3>3. cur[b].seq # cur[a].seq
      BY <1>1, <2>1, <3>1, <3>2 DEF SeqUnique
    <3>4. \A j \in 1 .. n : cur[b].seq # arrivals[j]
      BY <3>1 DEF RingInv, n
    <3>5. i \in 1 .. n \/ i = n + 1
      BY <2>6
    <3> QED BY <2>3, <2>5, <3>3, <3>4, <3>5
  <2>10. RingInv'
    BY <1>1, <2>3, <2>6, <2>7, <2>8, <2>9 DEF RingInv
  <2> QED BY <1>8, <2>2, <2>10, PlaceDrift
<1> QED BY <1>3, <1>5, <1>6, <1>7, <1>8 DEF Add

LEMMA StillRing == ASSUME RingInv, UNCHANGED <<vars, arrivals>> PROVE RingInv' /\ Drift
<1>1. SInv' /\ BInv'
  BY NextSInv, NextBInv DEF RingInv
<1>2. UNCHANGED <<buf, next, live, total, pc, cur, arrivals>>
  BY DEF vars, ringVars
<1> QED BY <1>1, <1>2, NoDrift DEF RingInv


-----------------------------------------------------------------------------
(* Pages.                                                                  *)

LEMMA Extremes ==
  ASSUME NEW n \in Nat, NEW C \in SUBSET (0 .. n), C # {}
  PROVE  /\ \E m \in C : \A x \in C : m <= x
         /\ \E m \in C : \A x \in C : x <= m
<1> DEFINE Both(D) == (\E m \in D : \A x \in D : m <= x) /\ (\E m \in D : \A x \in D : x <= m)
           T == {k \in Nat : \A D \in SUBSET (0 .. k) : D # {} => Both(D)}
<1>1. 0 \in T
  <2> SUFFICES ASSUME NEW D \in SUBSET (0 .. 0), D # {} PROVE Both(D)
    OBVIOUS
  <2>1. 0 .. 0 = {0}
    OBVIOUS
  <2>2. D = {0}
    BY <2>1
  <2> QED BY <2>2
<1>2. ASSUME NEW k \in Nat, k \in T PROVE k + 1 \in T
  <2> SUFFICES ASSUME NEW D \in SUBSET (0 .. k + 1), D # {} PROVE Both(D)
    OBVIOUS
  <2> DEFINE E == D \ {k + 1}
  <2>1. E \in SUBSET (0 .. k) /\ \A x \in D : x \in E \/ x = k + 1
    OBVIOUS
  <2>2. E # {} => Both(E)
    BY <1>2, <2>1
  <2>3. CASE k + 1 \notin D
    <3>1. E = D
      BY <2>3
    <3> QED BY <2>2, <3>1
  <2>4. CASE k + 1 \in D /\ E = {}
    <3>1. D = {k + 1}
      BY <2>1, <2>4
    <3> QED BY <3>1
  <2>5. CASE k + 1 \in D /\ E # {}
    <3>1. \A x \in E : x <= k + 1
      BY <2>1
    <3>2. PICK m \in E : \A x \in E : m <= x
      BY <2>2, <2>5
    <3>3. m \in D /\ \A x \in D : m <= x
      BY <2>1, <3>1, <3>2
    <3>4. \A x \in D : x <= k + 1
      BY <2>1, <3>1
    <3> QED BY <2>5, <3>3, <3>4
  <2> QED BY <2>3, <2>4, <2>5
<1>3. Nat \subseteq T
  <2> HIDE DEF T
  <2> QED BY <1>1, <1>2, SetInduction
<1> QED BY <1>3

\* The first Limit of some ages are all those up to one of them.
LEMMA CappedIs ==
  ASSUME NEW n \in Nat, NEW K \in SUBSET (0 .. n), K # {}
  PROVE  \E o \in Capped(K) : /\ \A i \in Capped(K) : i <= o
                              /\ \A i \in K : i <= o => i \in Capped(K)
<1> DEFINE Under(i) == {j \in K : j < i}
<1>0. \A j \in K : j \in 0 .. n /\ j \in Int
  <2>1. \A j \in 0 .. n : j \in Int
    OBVIOUS
  <2> QED BY <2>1
<1>1. Capped(K) = {i \in K : Cardinality(Under(i)) < Limit}
  BY DEF Capped
<1>2. PICK m \in K : \A x \in K : m <= x
  BY Extremes
<1>3. m \in Capped(K)
  <2>1. \A j \in K : ~(j < m)
    BY <1>0, <1>2
  <2>2. Under(m) = {}
    BY <2>1
  <2>3. Cardinality(Under(m)) = 0
    BY <2>2, FS_EmptySet
  <2> QED BY <1>1, <2>3, LimitAssumption
<1>4. PICK o \in Capped(K) : \A i \in Capped(K) : i <= o
  <2>1. Capped(K) \in SUBSET (0 .. n) /\ Capped(K) # {}
    BY <1>1, <1>3
  <2> QED BY <2>1, Extremes
<1>5. ASSUME NEW i \in K, i <= o PROVE i \in Capped(K)
  <2>1. IsFiniteSet(Under(o))
    <3>1. IsFiniteSet(0 .. n)
      BY FS_Interval
    <3>2. Under(o) \in SUBSET (0 .. n)
      BY <1>0
    <3> QED BY <3>1, <3>2, FS_Subset
  <2>2. Under(i) \in SUBSET Under(o)
    <3>1. o \in Int /\ i \in Int
      BY <1>0, <1>1
    <3>2. \A j \in K : j < i => j < o
      BY <1>0, <1>5, <3>1
    <3> QED BY <3>2
  <2>3. /\ Cardinality(Under(i)) <= Cardinality(Under(o)) /\ Cardinality(Under(o)) < Limit
        /\ Cardinality(Under(i)) \in Nat /\ Cardinality(Under(o)) \in Nat
    BY <1>1, <2>1, <2>2, FS_Subset, FS_CardinalityType
  <2>4. Cardinality(Under(i)) < Limit
    BY <2>3, LimitAssumption
  <2> QED BY <1>1, <2>4
<1> QED BY <1>4, <1>5

AgesOf(Q) == {i \in 0 .. live - 1 : EntryOfAge(i) \in Q}

\* A page of the ages of the candidates Q.
LEMMA PageIs ==
  ASSUME RingInv, NEW Q \in SUBSET Ring
  PROVE  \/ Q = {} /\ Capped(AgesOf(Q)) = {} /\ SeqsOf(Capped(AgesOf(Q))) = {}
         \/ /\ Capped(AgesOf(Q)) # {} /\ PageOf(SeqsOf(Capped(AgesOf(Q))), Oldest(Capped(AgesOf(Q))), Q, pos)
            /\ Oldest(Capped(AgesOf(Q))) \in Entry
<1> DEFINE K == AgesOf(Q)
           pg == Capped(K)
<1>1. live \in Nat /\ Len(arrivals) \in Nat
  BY PosIs DEF RingInv, BInv, TInv, TypeOK
<1>2. ASSUME NEW i \in K
      PROVE  /\ EntryOfAge(i) \in Q /\ EntryOfAge(i) \in Entry /\ i \in 0 .. live - 1
             /\ pos[EntryOfAge(i).seq] = Len(arrivals) - i
  BY AgeAndPos DEF AgesOf
<1>3. ASSUME NEW e \in Q PROVE \E i \in K : EntryOfAge(i) = e
  <2>1. PICK i \in 0 .. live - 1 : e = buf[Slot(next, i)]
    BY DEF Ring
  <2>2. EntryOfAge(i) = e
    BY <2>1, AgeAndPos
  <2> QED BY <2>2 DEF AgesOf
<1>4. CASE K = {}
  <2>1. Q = {}
    BY <1>3, <1>4
  <2>2. pg = {} /\ SeqsOf(pg) = {}
    BY <1>4 DEF Capped, SeqsOf
  <2> QED BY <2>1, <2>2
<1>5. CASE K # {}
  <2>1. K \in SUBSET (0 .. live)
    BY <1>1 DEF AgesOf
  <2>2. PICK o \in pg : (\A i \in pg : i <= o) /\ (\A i \in K : i <= o => i \in pg)
    BY <1>1, <1>5, <2>1, CappedIs
  <2>3. pg \subseteq K
    BY DEF Capped
  <2> DEFINE c == CHOOSE i \in pg : \A j \in pg : j <= i
  <2>4. c \in pg /\ \A j \in pg : j <= c
    BY <2>2
  <2>5. c = o
    <3>1. c <= o /\ o <= c
      BY <2>2, <2>4
    <3>2. c \in K /\ o \in K
      BY <2>2, <2>3, <2>4
    <3>3. c \in Int /\ o \in Int
      BY <1>1, <1>2, <3>2
    <3> QED BY <3>1, <3>3
  <2>6. Oldest(pg) = EntryOfAge(o)
    BY <2>5 DEF Oldest
  <2> HIDE DEF c, pg
  <2>7. o \in K /\ EntryOfAge(o) \in Q /\ EntryOfAge(o) \in Entry
        /\ pos[EntryOfAge(o).seq] = Len(arrivals) - o
    BY <1>2, <2>2, <2>3
  <2>8. EntryOfAge(o).seq \in SeqsOf(pg)
    BY <2>2 DEF SeqsOf
  <2>9. ASSUME NEW x \in SeqsOf(pg)
        PROVE  \E e \in Q : e.seq = x /\ pos[x] >= pos[EntryOfAge(o).seq]
    <3>1. PICK i \in pg : x = EntryOfAge(i).seq
      BY <2>9 DEF SeqsOf
    <3>2. i \in K /\ i <= o /\ i \in Int /\ o \in Int
      BY <2>1, <2>2, <2>3, <2>7, <3>1
    <3>3. EntryOfAge(i) \in Q /\ pos[x] = Len(arrivals) - i
      BY <1>2, <3>1, <3>2
    <3> QED BY <1>1, <2>7, <3>1, <3>2, <3>3
  <2>10. ASSUME NEW e \in Q, pos[e.seq] >= pos[EntryOfAge(o).seq] PROVE e.seq \in SeqsOf(pg)
    <3>1. PICK i \in K : EntryOfAge(i) = e
      BY <1>3
    <3>2. pos[e.seq] = Len(arrivals) - i /\ i \in Int /\ o \in Int
      BY <1>2, <2>1, <2>7, <3>1
    <3>3. i <= o
      BY <1>1, <2>7, <2>10, <3>2
    <3>4. i \in pg
      BY <2>2, <3>3
    <3> QED BY <3>1, <3>4 DEF SeqsOf
  <2> QED BY <2>2, <2>6, <2>7, <2>8, <2>9, <2>10 DEF PageOf, pg
<1> QED BY <1>4, <1>5

\* What TakePage writes.
LEMMA TakeTyped ==
  ASSUME NEW w \in Walks, NEW pg, SeqsOf(pg) \in SUBSET Nat,
         pg = {} \/ (Oldest(pg).seq \in Nat /\ Oldest(pg).id \in IDs)
  PROVE  LET v == TakePage(w, pg) IN
         /\ v \in Walks /\ v.page = SeqsOf(pg) /\ v.seen = Shown(w)
         /\ v.by = w.by /\ v.start = w.start /\ v.lost = w.lost
         /\ pg = {} => v.at = "done" /\ v.cursor = w.cursor
         /\ pg # {} => v.at = "paging" /\ v.cursor = Oldest(pg).seq /\ v.anchor = Oldest(pg).id
<1> DEFINE P == SeqsOf(pg)
           at == IF pg = {} THEN "done" ELSE "paging"
           c == IF pg = {} THEN w.cursor ELSE Oldest(pg).seq
           a == IF pg = {} THEN w.anchor ELSE Oldest(pg).id
           seen == Shown(w)
           v == TakePage(w, pg)
<1>1. v = [w EXCEPT !.page = P, !.seen = seen, !.at = at, !.cursor = c, !.anchor = a]
  BY DEF TakePage, Shown
<1>2. /\ P \in SUBSET Nat /\ seen \in SUBSET Nat /\ at \in {"idle", "paging", "done"} /\ c \in Nat
      /\ a \in IDs \cup {Nil}
  BY DEF Shown, Walks
<1>3. /\ pg = {} => at = "done" /\ c = w.cursor
      /\ pg # {} => at = "paging" /\ c = Oldest(pg).seq /\ a = Oldest(pg).id
  OBVIOUS
<1> HIDE DEF P, at, c, a, seen, v
<1>4. w = [at |-> w.at, by |-> w.by, cursor |-> w.cursor, anchor |-> w.anchor, page |-> w.page,
           seen |-> w.seen, start |-> w.start, lost |-> w.lost]
  BY DEF Walks
<1>5. v = [at |-> at, by |-> w.by, cursor |-> c, anchor |-> a, page |-> P, seen |-> seen,
           start |-> w.start, lost |-> w.lost]
  BY <1>1, <1>4
<1>6. w.by \in {"seq", "id"} /\ w.start \in SUBSET Nat /\ w.lost \in BOOLEAN
  BY DEF Walks
<1>7. v \in Walks
  BY <1>2, <1>5, <1>6 DEF Walks
<1> QED BY <1>3, <1>5, <1>7 DEF P, seen, v

LEMMA TakeIs ==
  ASSUME RingInv, NEW Q \in SUBSET Ring, NEW w \in Walks
  PROVE  LET pg == Capped(AgesOf(Q))
             v == TakePage(w, pg)
         IN /\ Answered(w, v, SeqsOf(pg), Oldest(pg), Q, pos)
            /\ v.by = w.by /\ v.start = w.start /\ v.lost = w.lost
<1> DEFINE pg == Capped(AgesOf(Q))
           v == TakePage(w, pg)
<1>1. \/ Q = {} /\ pg = {} /\ SeqsOf(pg) = {}
      \/ pg # {} /\ PageOf(SeqsOf(pg), Oldest(pg), Q, pos) /\ Oldest(pg) \in Entry
  BY PageIs
<1> HIDE DEF pg
<1>2. SeqsOf(pg) \in SUBSET Nat
  <2>1. \A e \in Ring : e.seq \in Nat
    BY PlacedIs DEF Placed
  <2> QED BY <1>1, <2>1 DEF PageOf
<1>3. pg = {} \/ (Oldest(pg).seq \in Nat /\ Oldest(pg).id \in IDs)
  BY <1>1 DEF Entry
<1>4. /\ v \in Walks /\ v.page = SeqsOf(pg) /\ v.seen = Shown(w)
      /\ v.by = w.by /\ v.start = w.start /\ v.lost = w.lost
      /\ pg = {} => v.at = "done" /\ v.cursor = w.cursor
      /\ pg # {} => v.at = "paging" /\ v.cursor = Oldest(pg).seq /\ v.anchor = Oldest(pg).id
  BY <1>2, <1>3, TakeTyped
<1> HIDE DEF v
<1>5. Answered(w, v, SeqsOf(pg), Oldest(pg), Q, pos)
  BY <1>1, <1>4 DEF Answered
<1> QED BY <1>4, <1>5 DEF pg, v


\* What a reader copies.
LEMMA SnapshotIs ==
  ASSUME RingInv
  PROVE  /\ snapshotEntries = 0 .. live - 1
         /\ snapshotRaw = {i \in 0 .. live - 1 : EntryOfAge(i).len # 0}
<1>1. MirrorsAgree /\ TInv
  BY DEF RingInv, BInv
<1>2. ASSUME NEW i \in 0 .. live - 1
      PROVE  EntryOfAge(i) # Nil /\ (raw[SlotOfAge(i)] # NoRaw <=> EntryOfAge(i).len # 0)
  <2> DEFINE e == EntryOfAge(i)
  <2>1. e \in Entry /\ e # Nil /\ i \in Slots /\ Slot(next, i) \in Slots /\ e = buf[Slot(next, i)]
    BY AgeAndPos
  <2>2. SlotOfAge(i) = Slot(next, i)
    BY <1>1, <2>1, Contiguous
  <2> HIDE DEF e
  <2>3. raw[SlotOfAge(i)] = RawOf(e)
    BY <1>1, <2>1, <2>2 DEF MirrorsAgree
  <2>4. e.len # 0 => RawOf(e) # NoRaw
    <3>1. e.seq \in Nat /\ e.len \in Nat
      BY <2>1, LensAssumption DEF Entry
    <3>2. [of |-> e.seq, len |-> e.len] \in [of : Nat, len : Nat]
      BY <3>1
    <3> QED BY <3>2, NoRawAssumption DEF RawOf
  <2>5. e.len = 0 => RawOf(e) = NoRaw
    BY DEF RawOf
  <2> QED BY <2>1, <2>3, <2>4, <2>5 DEF e
<1> QED BY <1>2 DEF snapshotEntries, snapshotRaw

LEMMA FirstPage ==
  ASSUME RingInv
  PROVE  LET Q == {e \in Ring : Kept(e)} IN
         /\ recentRaw = Capped(AgesOf(Q))
         /\ SeqsOf({i \in snapshotRaw : matches(EntryOfAge(i))}) = {e.seq : e \in Q}
<1> DEFINE Q == {e \in Ring : Kept(e)}
           K == {i \in snapshotRaw : matches(EntryOfAge(i))}
<1>1. \A i \in 0 .. live - 1 : EntryOfAge(i) \in Ring
  BY AgeAndPos
<1>2. K = AgesOf(Q)
  BY <1>1, SnapshotIs DEF AgesOf, Kept
<1>3. recentRaw = Capped(K)
  <2>1. K = {i \in snapshotRaw : (FALSE => EntryOfAge(i).seq < 0) /\ matches(EntryOfAge(i))}
    OBVIOUS
  <2> QED BY <2>1 DEF recentRaw, page
<1>4. \A e \in Q : \E i \in AgesOf(Q) : e = EntryOfAge(i)
  <2> TAKE e \in Q
  <2>1. PICK i \in 0 .. live - 1 : e = buf[Slot(next, i)]
    BY DEF Ring
  <2>2. EntryOfAge(i) = e
    BY <2>1, AgeAndPos
  <2> QED BY <2>2 DEF AgesOf
<1>5. \A i \in AgesOf(Q) : EntryOfAge(i) \in Q
  BY DEF AgesOf
<1> HIDE DEF Q, K
<1>6. SeqsOf(K) = {e.seq : e \in Q}
  BY <1>2, <1>4, <1>5 DEF SeqsOf
<1> QED BY <1>2, <1>3, <1>6 DEF Q, K

LEMMA NextPageBySeq ==
  ASSUME RingInv, NEW c
  PROVE  recentBeforeSeqRaw(c) = Capped(AgesOf({e \in Ring : Kept(e) /\ e.seq < c}))
<1> DEFINE Q == {e \in Ring : Kept(e) /\ e.seq < c}
           K == {i \in snapshotRaw : (TRUE => EntryOfAge(i).seq < c) /\ matches(EntryOfAge(i))}
<1>1. \A i \in 0 .. live - 1 : EntryOfAge(i) \in Ring
  BY AgeAndPos
<1>2. K = AgesOf(Q)
  BY <1>1, SnapshotIs DEF AgesOf, Kept
<1> QED BY <1>2 DEF recentBeforeSeqRaw, page

LEMMA NextPageByID ==
  ASSUME RingInv, NEW id
  PROVE  /\ recentBeforeRaw(id) = Capped(AgesOf(
              {e \in Ring : Kept(e) /\ \E h \in Ring : h.len # 0 /\ h.id = id /\ pos[e.seq] < pos[h.seq]}))
         /\ (\A i \in snapshotRaw : EntryOfAge(i).id # id) <=> \A h \in Ring : h.len # 0 => h.id # id
<1> DEFINE Q == {e \in Ring :
                   Kept(e) /\ \E h \in Ring : h.len # 0 /\ h.id = id /\ pos[e.seq] < pos[h.seq]}
           K == {i \in AfterAnchor(snapshotRaw, id) :
                   (FALSE => EntryOfAge(i).seq < 0) /\ matches(EntryOfAge(i))}
<1>1. \A i \in 0 .. live - 1 :
        EntryOfAge(i) \in Ring /\ pos[EntryOfAge(i).seq] = Len(arrivals) - i /\ i \in Int
  BY AgeAndPos
<1>2. \A h \in Ring : \E j \in 0 .. live - 1 : EntryOfAge(j) = h
  <2> TAKE h \in Ring
  <2>1. PICK j \in 0 .. live - 1 : h = buf[Slot(next, j)]
    BY DEF Ring
  <2>2. EntryOfAge(j) = h
    BY <2>1, AgeAndPos
  <2> QED BY <2>2
<1>3. Len(arrivals) \in Int
  BY PosIs
<1>4. snapshotRaw = {i \in 0 .. live - 1 : EntryOfAge(i).len # 0}
  BY SnapshotIs
<1>5. ASSUME NEW i \in 0 .. live - 1
      PROVE  (\E j \in snapshotRaw : j < i /\ EntryOfAge(j).id = id)
               <=> \E h \in Ring : h.len # 0 /\ h.id = id /\ pos[EntryOfAge(i).seq] < pos[h.seq]
  <2>1. ASSUME NEW j \in snapshotRaw, j < i, EntryOfAge(j).id = id
        PROVE  \E h \in Ring : h.len # 0 /\ h.id = id /\ pos[EntryOfAge(i).seq] < pos[h.seq]
    <3>1. j \in 0 .. live - 1 /\ EntryOfAge(j).len # 0
      BY <1>4
    <3>2. pos[EntryOfAge(i).seq] < pos[EntryOfAge(j).seq]
      BY <1>1, <1>3, <2>1, <3>1
    <3> QED BY <1>1, <2>1, <3>1, <3>2
  <2>2. ASSUME NEW h \in Ring, h.len # 0, h.id = id, pos[EntryOfAge(i).seq] < pos[h.seq]
        PROVE  \E j \in snapshotRaw : j < i /\ EntryOfAge(j).id = id
    <3>1. PICK j \in 0 .. live - 1 : EntryOfAge(j) = h
      BY <1>2
    <3>2. j < i
      BY <1>1, <1>3, <2>2, <3>1
    <3> QED BY <1>4, <2>2, <3>1, <3>2
  <2> QED BY <2>1, <2>2
<1>6. \A i : i \in K <=> i \in AgesOf(Q)
  <2> TAKE i
  <2>1. i \in K <=> /\ i \in snapshotRaw /\ matches(EntryOfAge(i))
                    /\ \E j \in snapshotRaw : j < i /\ EntryOfAge(j).id = id
    BY DEF AfterAnchor
  <2>2. i \in AgesOf(Q) <=>
          /\ i \in 0 .. live - 1 /\ EntryOfAge(i) \in Ring /\ Kept(EntryOfAge(i))
          /\ \E h \in Ring : h.len # 0 /\ h.id = id /\ pos[EntryOfAge(i).seq] < pos[h.seq]
    BY DEF AgesOf
  <2>3. i \in snapshotRaw <=> i \in 0 .. live - 1 /\ EntryOfAge(i).len # 0
    BY <1>4
  <2>4. Kept(EntryOfAge(i)) <=> EntryOfAge(i).len # 0 /\ matches(EntryOfAge(i))
    BY DEF Kept
  <2> QED BY <1>1, <1>5, <2>1, <2>2, <2>3, <2>4
<1>7. K \subseteq snapshotRaw /\ AgesOf(Q) \subseteq 0 .. live - 1
  BY DEF AfterAnchor, AgesOf
<1>8. K = AgesOf(Q)
  <2> HIDE DEF K, Q
  <2> QED BY <1>6
<1>9. recentBeforeRaw(id) = Capped(AgesOf(Q))
  BY <1>8 DEF recentBeforeRaw, page
<1>10. (\A i \in snapshotRaw : EntryOfAge(i).id # id) <=> \A h \in Ring : h.len # 0 => h.id # id
  <2>1. ASSUME \A i \in snapshotRaw : EntryOfAge(i).id # id, NEW h \in Ring, h.len # 0
        PROVE  h.id # id
    BY <1>2, <1>4, <2>1
  <2>2. ASSUME \A h \in Ring : h.len # 0 => h.id # id, NEW i \in snapshotRaw
        PROVE  EntryOfAge(i).id # id
    BY <1>1, <1>4, <2>2
  <2> QED BY <2>1, <2>2
<1> QED BY <1>9, <1>10


-----------------------------------------------------------------------------
LEMMA InitWInv == QueryInit => WInv
<1> SUFFICES ASSUME QueryInit PROVE WInv
  OBVIOUS
<1>1. SInv /\ BInv /\ arrivals = <<>> /\ live = 0 /\ Init /\ walk = [r \in Walkers |-> NoWalk]
  BY InitSInv, InitBInv DEF QueryInit, Init
<1>2. RingInv
  BY <1>1 DEF RingInv
<1>3. NoWalk \in Walks
  BY DEF NoWalk, Walks
<1>4. WalkOK(NoWalk, Seqs, pos, Ring)
  BY <1>3 DEF WalkOK, NoWalk, Shown
<1> QED BY <1>1, <1>2, <1>3, <1>4 DEF WInv

\* One walker moves and the ring does not.
LEMMA WalkMoves ==
  ASSUME WInv, UNCHANGED <<vars, arrivals>>, NEW r \in Walkers, NEW v,
         walk' = [walk EXCEPT ![r] = v], WalkOK(v, Seqs, pos, Ring)
  PROVE  WInv'
<1>1. RingInv' /\ Drift
  BY StillRing DEF WInv
<1>2. v \in Walks
  BY DEF WalkOK
<1>3. /\ walk' \in [Walkers -> Walks] /\ walk'[r] = v
      /\ \A x \in Walkers \ {r} : walk'[x] = walk[x]
  BY <1>2 DEF WInv
<1>4. ASSUME NEW x \in Walkers PROVE WalkOK(walk'[x], Seqs', pos', Ring')
  <2>1. WalkOK(walk'[x], Seqs, pos, Ring)
    BY <1>3 DEF WInv
  <2> QED BY <1>1, <2>1, WalkStable DEF Drift
<1> QED BY <1>1, <1>3, <1>4 DEF WInv

LEMMA FirstKeeps == ASSUME WInv, NEW r \in Walkers, WalkFirst(r) PROVE WInv'
<1> DEFINE w == walk[r]
           Q == {e \in Ring : Kept(e)}
           pg == Capped(AgesOf(Q))
           S == {e.seq : e \in Q}
<1>0. RingInv /\ w \in Walks /\ WalkOK(w, Seqs, pos, Ring) /\ w.at = "idle" /\ Q \in SUBSET Ring
  BY DEF WInv, WalkFirst
<1>1. PICK by \in {"seq", "id"} :
        walk' = [walk EXCEPT ![r] =
          [TakePage(w, recentRaw) EXCEPT
             !.by = by, !.start = SeqsOf({i \in snapshotRaw : matches(EntryOfAge(i))})]]
  BY DEF WalkFirst, WInv
<1>2. recentRaw = pg /\ SeqsOf({i \in snapshotRaw : matches(EntryOfAge(i))}) = S
  BY <1>0, FirstPage
<1> DEFINE t == TakePage(w, pg)
           v == [t EXCEPT !.by = by, !.start = S]
<1>3. walk' = [walk EXCEPT ![r] = v]
  BY <1>1, <1>2
<1>4. Answered(w, t, SeqsOf(pg), Oldest(pg), Q, pos)
  BY <1>0, TakeIs
<1>5. Placed(Seqs, pos, Ring)
  BY <1>0, PlacedIs
<1>6. S \in SUBSET Nat
  BY <1>5 DEF Placed
<1> HIDE DEF t, pg, S, Q
<1>7. t \in Walks
  BY <1>4 DEF Answered
<1>8. /\ v \in Walks /\ v.start = S /\ v.page = t.page /\ v.seen = t.seen /\ v.at = t.at
      /\ v.cursor = t.cursor /\ v.anchor = t.anchor
  BY <1>1, <1>6, <1>7 DEF Walks
<1> HIDE DEF v
<1>9. Answered(w, v, SeqsOf(pg), Oldest(pg), Q, pos)
  BY <1>4, <1>8 DEF Answered
<1>10. WalkOK(v, Seqs, pos, Ring)
  BY <1>0, <1>5, <1>8, <1>9, FirstOK DEF Q, S
<1> QED BY <1>3, <1>10, WalkMoves DEF WalkFirst

LEMMA BySeqKeeps == ASSUME WInv, NEW r \in Walkers, WalkBySeq(r) PROVE WInv'
<1> DEFINE w == walk[r]
           Q == {e \in Ring : Kept(e) /\ e.seq < w.cursor}
           pg == Capped(AgesOf(Q))
           v == TakePage(w, pg)
<1>0. /\ RingInv /\ w \in Walks /\ WalkOK(w, Seqs, pos, Ring) /\ w.at = "paging" /\ w.by = "seq"
      /\ Q \in SUBSET Ring
  BY DEF WInv, WalkBySeq
<1>1. walk' = [walk EXCEPT ![r] = TakePage(w, recentBeforeSeqRaw(w.cursor))]
  BY DEF WalkBySeq, WInv
<1>2. recentBeforeSeqRaw(w.cursor) = pg
  BY <1>0, NextPageBySeq
<1>3. walk' = [walk EXCEPT ![r] = v]
  BY <1>1, <1>2
<1>4. Answered(w, v, SeqsOf(pg), Oldest(pg), Q, pos) /\ v.by = w.by /\ v.start = w.start
  BY <1>0, TakeIs
<1>5. Placed(Seqs, pos, Ring)
  BY <1>0, PlacedIs
<1> HIDE DEF v, pg
<1>6. WalkOK(v, Seqs, pos, Ring)
  BY <1>0, <1>4, <1>5, BySeqStep
<1> QED BY <1>3, <1>6, WalkMoves DEF WalkBySeq

LEMMA ByIDKeeps == ASSUME WInv, NEW r \in Walkers, WalkByID(r) PROVE WInv'
<1> DEFINE w == walk[r]
           Q == {e \in Ring : Kept(e) /\
                   \E h \in Ring : h.len # 0 /\ h.id = w.anchor /\ pos[e.seq] < pos[h.seq]}
           pg == Capped(AgesOf(Q))
           t == TakePage(w, pg)
           gone == \A h \in Ring : h.len # 0 => h.id # w.anchor
           v == [t EXCEPT !.lost = gone]
<1>0. /\ RingInv /\ w \in Walks /\ WalkOK(w, Seqs, pos, Ring) /\ w.at = "paging" /\ w.by = "id"
      /\ Q \in SUBSET Ring
  BY DEF WInv, WalkByID
<1>1. walk' = [walk EXCEPT ![r] =
        [TakePage(w, recentBeforeRaw(w.anchor)) EXCEPT
           !.lost = \A i \in snapshotRaw : EntryOfAge(i).id # walk[r].anchor]]
  BY DEF WalkByID, WInv
<1>2. recentBeforeRaw(w.anchor) = pg
      /\ (\A i \in snapshotRaw : EntryOfAge(i).id # w.anchor) = gone
  BY <1>0, NextPageByID
<1>3. walk' = [walk EXCEPT ![r] = v]
  BY <1>1, <1>2
<1>4. Answered(w, t, SeqsOf(pg), Oldest(pg), Q, pos) /\ t.by = w.by /\ t.start = w.start
  BY <1>0, TakeIs
<1>5. Placed(Seqs, pos, Ring)
  BY <1>0, PlacedIs
<1>6. gone \in BOOLEAN
  OBVIOUS
<1> HIDE DEF t, pg, gone
<1>7. t \in Walks
  BY <1>4 DEF Answered
<1>8. /\ v \in Walks /\ v.start = w.start /\ v.by = w.by /\ v.page = t.page /\ v.seen = t.seen
      /\ v.at = t.at /\ v.cursor = t.cursor /\ v.anchor = t.anchor /\ v.lost = gone
  BY <1>4, <1>6, <1>7 DEF Walks
<1> HIDE DEF v
<1>9. Answered(w, v, SeqsOf(pg), Oldest(pg), Q, pos)
  BY <1>4, <1>8 DEF Answered
<1>10. WalkOK(v, Seqs, pos, Ring)
  BY <1>0, <1>5, <1>8, <1>9, ByIDStep DEF gone
<1> QED BY <1>3, <1>10, WalkMoves DEF WalkByID

LEMMA NextWInv == WInv /\ [QueryNext]_allVars => WInv'
<1> SUFFICES ASSUME WInv, [QueryNext]_allVars PROVE WInv'
  OBVIOUS
<1>1. ASSUME RingInv', Drift, UNCHANGED walk PROVE WInv'
  <2>1. ASSUME NEW x \in Walkers PROVE WalkOK(walk[x], Seqs', pos', Ring')
    <3>1. WalkOK(walk[x], Seqs, pos, Ring)
      BY DEF WInv
    <3> QED BY <1>1, <3>1, WalkStable DEF Drift
  <2> QED BY <1>1, <2>1 DEF WInv
<1>2. CASE StoreStep
  <2>1. RingInv' /\ Drift
    BY <1>2, StoreRing DEF WInv
  <2> QED BY <1>1, <1>2, <2>1 DEF StoreStep
<1>3. ASSUME NEW r \in Walkers, WalkEnd(r) PROVE WInv'
  <2>1. NoWalk \in Walks
    BY DEF NoWalk, Walks
  <2>2. WalkOK(NoWalk, Seqs, pos, Ring)
    BY <2>1 DEF WalkOK, NoWalk, Shown
  <2> QED BY <1>3, <2>2, WalkMoves DEF WalkEnd
<1>4. ASSUME UNCHANGED <<vars, walk, arrivals>> PROVE WInv'
  <2>1. RingInv' /\ Drift
    BY <1>4, StillRing DEF WInv
  <2> QED BY <1>1, <1>4, <2>1
<1>5. ASSUME NEW q \in Pollers, StatsCall(q) \/ StatsAnswer(q) PROVE UNCHANGED <<vars, walk, arrivals>>
  BY <1>5 DEF StatsCall, StatsAnswer
<1>6. UNCHANGED allVars => UNCHANGED <<vars, walk, arrivals>>
  BY DEF allVars, queryVars
<1> QED BY <1>2, <1>3, <1>4, <1>5, <1>6, FirstKeeps, BySeqKeeps, ByIDKeeps DEF QueryNext

\* A walk back through history is exact but for pairs of entries that reached
\* the ring in the opposite order of their numbers, whatever arrives and is
\* evicted between two pages, for every page size and filter; a walk by id is
\* complete while its anchors stay (store.go:112-117, 284-293, 367-406).
THEOREM WalksCorrect == QuerySpec => []WalksAccountFor
<1>1. WInv => WalksAccountFor
  <2> SUFFICES ASSUME WInv, NEW r \in Walkers
      PROVE  /\ walk[r].by = "seq" =>
                /\ \A n \in walk[r].page \cap walk[r].seen : \E m \in walk[r].seen : Inverted(m, n)
                /\ walk[r].at = "done" =>
                     \A n \in (walk[r].start \cap SeqsOf(snapshotEntries)) \ walk[r].seen :
                       \E m \in walk[r].seen : Inverted(n, m)
             /\ walk[r].at = "done" /\ walk[r].by = "id" /\ ~walk[r].lost =>
                  walk[r].start \cap SeqsOf(snapshotEntries) \subseteq walk[r].seen
    BY DEF WalksAccountFor, WalkExactButInverted, IdWalkComplete
  <2> DEFINE w == walk[r]
  <2>1. RingInv /\ WalkOK(w, Seqs, pos, Ring)
    BY DEF WInv
  <2>2. ASSUME NEW n \in SeqsOf(snapshotEntries) PROVE \E e \in Ring : e.seq = n
    <3>1. PICK i \in 0 .. live - 1 : n = EntryOfAge(i).seq
      BY <2>1, SnapshotIs DEF SeqsOf
    <3> QED BY <2>1, <3>1, AgeAndPos
  <2>3. ASSUME NEW m \in Seqs, NEW n \in Seqs, Before(pos, m, n) PROVE Inverted(m, n)
    BY <2>3 DEF Before, Inverted, pos, IndexIn, ArrivalIndex
  <2>4. w.page \subseteq Shown(w) /\ w.seen \subseteq Shown(w) /\ Shown(w) \subseteq Seqs
        /\ w.start \subseteq Seqs
    BY <2>1 DEF WalkOK, Shown
  <2> HIDE DEF w
  <2>5. CASE w.at = "idle"
    <3>1. w.page = {} /\ w.seen = {}
      BY <2>1, <2>4, <2>5 DEF WalkOK
    <3> QED BY <2>5, <3>1 DEF w
  <2>6. ASSUME w.at # "idle", w.by = "seq"
        PROVE  /\ \A n \in w.page \cap w.seen : \E m \in w.seen : Inverted(m, n)
               /\ w.at = "done" =>
                    \A n \in (w.start \cap SeqsOf(snapshotEntries)) \ w.seen :
                      \E m \in w.seen : Inverted(n, m)
    <3>1. BySeqOK(w, pos, Ring)
      BY <2>1, <2>6 DEF WalkOK
    <3>2. \A n \in w.page \cap w.seen : \E m \in w.seen : Inverted(m, n)
      BY <2>3, <2>4, <3>1 DEF BySeqOK
    <3>3. ASSUME w.at = "done", NEW n \in (w.start \cap SeqsOf(snapshotEntries)) \ w.seen
          PROVE  \E m \in w.seen : Inverted(n, m)
      <4>1. PICK e \in Ring : e.seq = n
        BY <2>2, <3>3
      <4>2. Shown(w) = w.seen
        BY <2>1, <3>3 DEF WalkOK, Shown
      <4>3. \E m \in w.seen : Before(pos, n, m)
        BY <3>1, <3>3, <4>1, <4>2 DEF BySeqOK
      <4> QED BY <2>3, <2>4, <3>3, <4>3
    <3> QED BY <3>2, <3>3
  <2>7. ASSUME w.at = "done", w.by = "id", ~w.lost
        PROVE  w.start \cap SeqsOf(snapshotEntries) \subseteq w.seen
    BY <2>1, <2>2, <2>7 DEF WalkOK
  <2> QED BY <2>5, <2>6, <2>7 DEF w
<1> QED BY InitWInv, NextWInv, <1>1, PTL DEF QuerySpec
=============================================================================
