------------------------------- MODULE HubStore -------------------------------
(***************************************************************************)
(* The hub's in-memory entry store (internal/hub/store.go): a ring of      *)
(* Capacity slots, also bounded by the bytes of the entries' cached JSON,  *)
(* an id index over the live entries, and the ingest counters.             *)
(*                                                                         *)
(* Every worker connection has an ingest goroutine that calls add().  An   *)
(* add takes its sequence number from an atomic counter and marshals the   *)
(* entry BEFORE it takes the store's lock, so two adds may reach the ring  *)
(* in the opposite order of their numbers.  What happens under the lock is *)
(* modelled one loop iteration at a time; mu says who holds it.            *)
(*                                                                         *)
(* An entry is identified with its sequence number (the code compares      *)
(* pointers); its JSON is abstracted to its length, and 0 stands for the   *)
(* nil that a failed json.Marshal returns.  The rate buckets (observeRate) *)
(* and the facet index, which add() also feeds, share no state with the    *)
(* ring and are components of their own.                                   *)
(***************************************************************************)
EXTENDS Integers, Sequences, FiniteSets

CONSTANTS
  Adders,      \* ingest goroutines, one per worker connection
  IDs,         \* entry ids; a worker's requeue can send the same id twice
  Lens,        \* lengths json.Marshal can return, 0 when it fails
  Protocols,   \* values of Entry.Protocol
  Statuses,    \* values of Entry.Status other than ""
  NoStatus,    \* Status == ""
  Capacity,    \* ring slots
  ByteBudget,  \* --buffer-bytes
  MaxTotal,    \* bound on the number of adds
  Nil,         \* an empty slot, a missing index row, no goroutine
  NoRaw        \* a nil []byte

ASSUME CapacityAssumption == Capacity \in Nat \ {0}
ASSUME BudgetAssumption == ByteBudget \in Nat \ {0}
ASSUME LensAssumption == Lens \subseteq Nat

VARIABLES
  total,          \* atomic: adds so far, and the source of Seq
  mu,             \* holder of the write lock, or Nil
  pc,             \* pc[a]: where goroutine a is inside add()
  cur,            \* cur[a]: the entry goroutine a is adding
  buf, raw,       \* the two mirrors of the ring
  next, live,     \* write cursor, number of filled slots
  retainedBytes,
  byID,
  byProtocol, byStatus

ringVars == <<buf, raw, next, live, retainedBytes, byID>>
countVars == <<byProtocol, byStatus>>
vars == <<total, mu, pc, cur, ringVars, countVars>>

Slots == 0 .. Capacity - 1

Entry == [id : IDs, seq : Nat \ {0}, len : Lens,
          proto : Protocols, status : Statuses \cup {NoStatus}]

ASSUME NilAssumption == Nil \notin Adders /\ Nil \notin Entry
ASSUME NoRawAssumption == NoRaw \notin [of : Nat, len : Nat]

\* The cached JSON of an entry: whose it is and how long, nil if marshal failed.
RawOf(e) == IF e.len = 0 THEN NoRaw ELSE [of |-> e.seq, len |-> e.len]
RawLen(r) == IF r = NoRaw THEN 0 ELSE r.len

TypeOK ==
  /\ total \in Nat
  /\ mu \in Adders \cup {Nil}
  /\ pc \in [Adders -> {"idle", "marshaled", "evicting"}]
  /\ cur \in [Adders -> Entry \cup {Nil}]
  /\ buf \in [Slots -> Entry \cup {Nil}]
  /\ raw \in [Slots -> [of : Nat, len : Nat] \cup {NoRaw}]
  /\ next \in Slots
  /\ live \in 0 .. Capacity
  /\ retainedBytes \in Int
  /\ byID \in [IDs -> Entry \cup {Nil}]
  /\ byProtocol \in [Protocols -> Nat]
  /\ byStatus \in [Statuses -> Nat]

Init ==
  /\ total = 0
  /\ mu = Nil
  /\ pc = [a \in Adders |-> "idle"]
  /\ cur = [a \in Adders |-> Nil]
  /\ buf = [i \in Slots |-> Nil]
  /\ raw = [i \in Slots |-> NoRaw]
  /\ next = 0
  /\ live = 0
  /\ retainedBytes = 0
  /\ byID = [i \in IDs |-> Nil]
  /\ byProtocol = [p \in Protocols |-> 0]
  /\ byStatus = [s \in Statuses |-> 0]

-----------------------------------------------------------------------------
(* add(), in the steps other goroutines can tell apart.                    *)

\* s.total.Add(1) and json.Marshal, outside the lock.
AddSeq(a) ==
  /\ pc[a] = "idle"
  /\ total < MaxTotal
  /\ \E id \in IDs, n \in Lens, p \in Protocols, st \in Statuses \cup {NoStatus} :
       cur' = [cur EXCEPT ![a] = [id |-> id, seq |-> total + 1, len |-> n,
                                  proto |-> p, status |-> st]]
  /\ total' = total + 1
  /\ pc' = [pc EXCEPT ![a] = "marshaled"]
  /\ UNCHANGED <<mu, ringVars, countVars>>

\* Mutant of CountEntry: the test for an empty status is gone.
CountEmptyStatus(e) ==
  /\ byProtocol' = [byProtocol EXCEPT ![e.proto] = @ + 1]
  /\ byStatus' = [s \in DOMAIN byStatus \cup {e.status} |->
       (IF s \in DOMAIN byStatus THEN byStatus[s] ELSE 0)
       + (IF s = e.status THEN 1 ELSE 0)]

\* byProtocol[...]++ and, for a non-empty status, byStatus[...]++.
CountEntry(e) ==
  /\ byProtocol' = [byProtocol EXCEPT ![e.proto] = @ + 1]
  /\ byStatus' = IF e.status = NoStatus THEN byStatus
                 ELSE [byStatus EXCEPT ![e.status] = @ + 1]

\* An entry larger than the whole budget is counted but never retained.
AddOversize(a) ==
  /\ pc[a] = "marshaled"
  /\ mu = Nil
  /\ cur[a].len > ByteBudget
  /\ CountEntry(cur[a])
  /\ pc' = [pc EXCEPT ![a] = "idle"]
  /\ cur' = [cur EXCEPT ![a] = Nil]
  /\ UNCHANGED <<total, mu, ringVars>>

\* Mutant of Unindex: the row goes even if it belongs to a re-add.
UnindexAlways(index, old) == [index EXCEPT ![old.id] = Nil]

\* byID without the row of old, unless a same-id re-add has replaced it.
Unindex(index, old) ==
  IF index[old.id] = old THEN [index EXCEPT ![old.id] = Nil] ELSE index

\* Mutant of PlacedBytes: the overwritten entry's bytes are not given back.
PlacedBytesLeak(e) == retainedBytes + e.len

\* The bytes retained once e has replaced what is under the cursor.
PlacedBytes(e) ==
  (IF buf[next] = Nil THEN retainedBytes ELSE retainedBytes - RawLen(raw[next])) + e.len

\* Lock, overwrite the slot under the cursor in both mirrors, advance it.
AddPlace(a) ==
  LET e == cur[a]
      old == buf[next]
  IN
  /\ pc[a] = "marshaled"
  /\ mu = Nil
  /\ e.len <= ByteBudget
  /\ mu' = a
  /\ pc' = [pc EXCEPT ![a] = "evicting"]
  /\ buf' = [buf EXCEPT ![next] = e]
  /\ raw' = [raw EXCEPT ![next] = RawOf(e)]
  /\ live' = IF old = Nil THEN live + 1 ELSE live
  /\ retainedBytes' = PlacedBytes(e)
  /\ byID' = [(IF old = Nil THEN byID ELSE Unindex(byID, old)) EXCEPT ![e.id] = e]
  /\ next' = (next + 1) % Capacity
  /\ UNCHANGED <<total, cur, countVars>>

\* Mutant of OverBudget: a ring that is exactly full is over budget.
AtBudget == retainedBytes >= ByteBudget /\ live > 0

OverBudget == retainedBytes > ByteBudget /\ live > 0

\* One iteration of the byte-budget loop: drop the oldest live entry.
AddEvict(a) ==
  LET oldest == (next - live + Capacity) % Capacity
      old == buf[oldest]
  IN
  /\ pc[a] = "evicting"
  /\ OverBudget
  /\ byID' = IF old = Nil THEN byID ELSE Unindex(byID, old)
  /\ retainedBytes' = retainedBytes - RawLen(raw[oldest])
  /\ buf' = [buf EXCEPT ![oldest] = Nil]
  /\ raw' = [raw EXCEPT ![oldest] = NoRaw]
  /\ live' = live - 1
  /\ UNCHANGED <<total, mu, pc, cur, next, countVars>>

\* The loop is done: count the entry and unlock.
AddDone(a) ==
  /\ pc[a] = "evicting"
  /\ ~OverBudget
  /\ CountEntry(cur[a])
  /\ mu' = Nil
  /\ pc' = [pc EXCEPT ![a] = "idle"]
  /\ cur' = [cur EXCEPT ![a] = Nil]
  /\ UNCHANGED <<total, ringVars>>

Add(a) == AddSeq(a) \/ AddOversize(a) \/ AddPlace(a) \/ AddEvict(a) \/ AddDone(a)

Next == \E a \in Adders : Add(a)

Spec == Init /\ [][Next]_vars

-----------------------------------------------------------------------------
(* Reading the ring: snapshotEntries and snapshotRaw, newest first.  Both  *)
(* are the ages of what they return.                                       *)

\* The slot that holds the entry of age i (0 is the newest).
SlotOfAge(i) == (next - 1 - i + Capacity) % Capacity

EntryOfAge(i) == buf[SlotOfAge(i)]

\* All of the live ring; a query's depth is min(depth, liveLen()).
snapshotEntries == {i \in 0 .. live - 1 : EntryOfAge(i) # Nil}

\* The entries whose JSON is missing are skipped.
snapshotRaw == {i \in snapshotEntries : raw[SlotOfAge(i)] # NoRaw}

Locked == mu # Nil

-----------------------------------------------------------------------------
(* Invariants.                                                             *)

LiveSlots == {i \in Slots : buf[i] # Nil}

\* Only the goroutine inside the critical section holds the lock, and a
\* goroutine between its AddSeq and its last step has an entry in hand.
LockInv ==
  \A a \in Adders : /\ pc[a] = "evicting" <=> mu = a
                    /\ pc[a] # "idle" <=> cur[a] # Nil

\* The live entries are the `live` slots just behind the cursor: what
\* snapshotEntries walks, and what the budget loop calls the oldest, are
\* the filled slots and nothing else (store.go:158, 239).
RingContiguous ==
  \A i \in Slots : buf[SlotOfAge(i)] # Nil <=> i < live

\* The two mirrors agree slot by slot, so cached JSON is never served for
\* another entry (the comment at store.go:135).
MirrorsAgree ==
  \A i \in Slots : raw[i] = IF buf[i] = Nil THEN NoRaw ELSE RawOf(buf[i])

\* No two entries in the ring or on their way to it share a number.
SeqUnique ==
  /\ \A i \in LiveSlots : buf[i].seq <= total
  /\ \A i, j \in LiveSlots : buf[i].seq = buf[j].seq => i = j
  /\ \A a \in Adders : cur[a] # Nil => cur[a].seq <= total
  /\ \A a, b \in Adders :
       cur[a] # Nil /\ cur[b] # Nil /\ cur[a].seq = cur[b].seq => a = b
  /\ \A a \in Adders, i \in LiveSlots :
       pc[a] = "marshaled" => cur[a].seq # buf[i].seq

\* get(id) answers with the newest live entry of that id, and with nothing
\* once every entry of that id has left the ring, also when a worker's
\* requeue delivered the same id twice (store.go:140-146, 159-162).
IndexIsNewest ==
  \A id \in IDs :
    /\ byID[id] = Nil => \A i \in 0 .. live - 1 : buf[SlotOfAge(i)].id # id
    /\ byID[id] # Nil =>
         \E i \in 0 .. live - 1 :
           /\ buf[SlotOfAge(i)] = byID[id]
           /\ byID[id].id = id
           /\ \A j \in 0 .. i - 1 : buf[SlotOfAge(j)].id # id
=============================================================================
