---------------------------- MODULE HubFanoutProofs ----------------------------
(***************************************************************************)
(* Proofs about the live fan-out, for any number of ingest goroutines,     *)
(* flushes, dashboards, filters and entries.                               *)
(***************************************************************************)
EXTENDS HubFanout, FiniteSetTheorems, SequenceTheorems, TLAPS

\* What a flush still has to send: a predicate for each of some clients.
Plans == UNION {[D -> SUBSET Classes] : D \in SUBSET Clients}

Typed ==
  /\ stored \in Seq(Classes)
  /\ ipc \in [Ingesters -> {"idle", "stored", "queueing", "arming"}]
  /\ icur \in [Ingesters -> Nat]
  /\ pending \in Seq(Nat)
  /\ fpc \in [Flushers -> {"idle", "taken", "grouping", "sending"}]
  /\ fbatch \in [Flushers -> Seq(Nat)]
  /\ fkeys = [f \in Flushers |-> fkeys[f]]
  /\ fplan \in [Flushers -> Plans]
  /\ conn \in [Clients -> {"off", "replaying", "live", "swapping", "unlinked", "closed"}]
  /\ pred \in [Clients -> SUBSET Classes] /\ swap \in [Clients -> SUBSET Classes]
  /\ key \in [Clients -> SUBSET Classes]
  /\ sent = [c \in Clients |-> sent[c]] /\ lost = [c \in Clients |-> lost[c]]
  /\ since \in [Clients -> Nat]

LEMMA WindowOf ==
  /\ ToSet(<<>>) = {}
  /\ \A s \in Seq(Nat), n \in Nat : ToSet(Append(s, n)) = ToSet(s) \cup {n}
  /\ \A s \in Seq(Nat) : ToSet(s) \in SUBSET Nat
<1>1. \A s \in Seq(Nat), n \in Nat : ToSet(Append(s, n)) = ToSet(s) \cup {n}
  <2> TAKE s \in Seq(Nat), n \in Nat
  <2>1. DOMAIN s = 1 .. Len(s) /\ DOMAIN Append(s, n) = 1 .. Len(s) + 1 /\ Len(s) \in Nat
        /\ Append(s, n)[Len(s) + 1] = n /\ \A i \in 1 .. Len(s) : Append(s, n)[i] = s[i]
    OBVIOUS
  <2>2. ASSUME NEW i \in 1 .. Len(s) + 1 PROVE Append(s, n)[i] \in ToSet(s) \cup {n}
    BY <2>1 DEF ToSet
  <2>3. ASSUME NEW i \in 1 .. Len(s) PROVE s[i] \in ToSet(Append(s, n))
    BY <2>1 DEF ToSet
  <2>4. n \in ToSet(Append(s, n))
    BY <2>1 DEF ToSet
  <2>5. ToSet(Append(s, n)) \subseteq ToSet(s) \cup {n}
    BY <2>1, <2>2 DEF ToSet
  <2>6. ToSet(s) \subseteq ToSet(Append(s, n))
    BY <2>1, <2>3 DEF ToSet
  <2> QED BY <2>4, <2>5, <2>6
<1>2. \A s \in Seq(Nat) : ToSet(s) \in SUBSET Nat
  BY DEF ToSet
<1>3. ToSet(<<>>) = {}
  BY DEF ToSet
<1> QED BY <1>1, <1>2, <1>3

\* A flush has a plan only while it holds the lock.
PlansHeld == \A f \in Flushers : fpc[f] \in {"idle", "taken"} => DOMAIN fplan[f] = {}

\* The entries on their way were stored before.
Stored ==
  /\ \A i \in Ingesters : icur[i] <= Len(stored)
  /\ \A n \in ToSet(pending) : n <= Len(stored)
  /\ \A f \in Flushers : \A n \in ToSet(fbatch[f]) : n <= Len(stored)

\* The key and the predicate of a client are those of one filter.
KeysAgree == \A c \in Clients : key[c] = pred[c]

\* And so are those of a group, whichever client it was formed for.
GroupsAgree == \A f \in Flushers : \A k \in DOMAIN fkeys[f] : fkeys[f][k] = k

\* The predicate a flush holds for a client matches what the client is owed of
\* the flush's window, although the client may have changed its filter since.
PlansMatch ==
  \A f \in Flushers : \A c \in DOMAIN fplan[f] : c \in frontClients =>
    \A n \in ToSet(fbatch[f]) : n \in Owed(c) => stored[n] \in fplan[f][c]

Inv == Typed /\ PlansHeld /\ Stored /\ KeysAgree /\ GroupsAgree /\ PlansMatch /\ NoSilentLoss

LEMMA InitInv == Init => Inv
<1> SUFFICES ASSUME Init PROVE Inv
  OBVIOUS
<1>1. <<>> \in Plans /\ DOMAIN <<>> = {}
  <2>1. <<>> \in [{} -> SUBSET Classes]
    OBVIOUS
  <2> QED BY <2>1 DEF Plans
<1>2. Typed
  BY <1>1 DEF Init, Typed, Reject
<1>3. Stored
  BY WindowOf DEF Init, Stored
<1>4. frontClients = {}
  BY DEF Init, frontClients
<1>5. PlansHeld
  BY <1>1 DEF Init, PlansHeld
<1> QED BY <1>1, <1>2, <1>3, <1>4, <1>5 DEF Init, Inv, KeysAgree, GroupsAgree, PlansMatch, NoSilentLoss

-----------------------------------------------------------------------------
(* ingest().                                                               *)

LEMMA IngestStoreInv == ASSUME Inv, NEW i \in Ingesters, IngestStore(i) PROVE Inv'
<1> USE DEF Inv
<1> DEFINE m == Len(stored) + 1
<1>1. /\ ipc' = [ipc EXCEPT ![i] = "stored"] /\ icur' = [icur EXCEPT ![i] = m]
      /\ UNCHANGED <<pending, fpc, fbatch, fkeys, fplan, conn, pred, key, swap, since, sent, lost>>
      /\ ipc[i] = "idle"
  BY DEF IngestStore, flushVars, connVars, queueVars
<1>2. /\ Len(stored) \in Nat /\ stored' \in Seq(Classes) /\ Len(stored') = m
      /\ \A n \in 1 .. Len(stored) : stored'[n] = stored[n]
  <2>1. PICK k \in Classes : stored' = Append(stored, k)
    BY DEF IngestStore
  <2>2. stored \in Seq(Classes)
    BY DEF Typed
  <2> QED BY <2>1, <2>2
<1>3. Typed'
  BY <1>1, <1>2 DEF Typed
<1>4. Stored'
  <2>1. ASSUME NEW x \in Nat, x <= Len(stored) PROVE x <= Len(stored')
    BY <1>2, <2>1
  <2>2. pending \in Seq(Nat) /\ fbatch \in [Flushers -> Seq(Nat)] /\ icur \in [Ingesters -> Nat]
    BY DEF Typed
  <2>3. \A j \in Ingesters : icur'[j] <= Len(stored')
    BY <1>1, <1>2, <2>1, <2>2 DEF Stored
  <2>4. \A n \in ToSet(pending) : n \in Nat /\ n <= Len(stored')
    BY <2>1, <2>2, WindowOf DEF Stored
  <2>5. \A f \in Flushers : \A n \in ToSet(fbatch[f]) : n \in Nat /\ n <= Len(stored')
    BY <2>1, <2>2, WindowOf DEF Stored
  <2> QED BY <1>1, <2>3, <2>4, <2>5 DEF Stored
<1>5. \A c \in Clients : \A n \in Owed(c)' : n = m \/ n \in Owed(c)
  BY <1>1, <1>2 DEF Owed, Typed
<1>6. frontClients' = frontClients
  BY <1>1 DEF frontClients
<1>7. PlansMatch'
  <2> SUFFICES ASSUME NEW f \in Flushers, NEW c \in DOMAIN fplan[f], c \in frontClients,
                      NEW n \in ToSet(fbatch[f]), n \in Owed(c)'
               PROVE  stored'[n] \in fplan[f][c]
    BY <1>1, <1>6 DEF PlansMatch
  <2>1. n <= Len(stored) /\ n # m /\ n \in Nat
    <3>1. ToSet(fbatch[f]) \in SUBSET Nat
      BY WindowOf DEF Typed
    <3> QED BY <1>2, <3>1 DEF Stored
  <2>2. n \in Owed(c)
    BY <1>5, <2>1 DEF frontClients
  <2>3. stored'[n] = stored[n]
    BY <1>2, <2>1, <2>2 DEF Owed, Typed, frontClients
  <2> QED BY <2>2, <2>3 DEF PlansMatch
<1>8. NoSilentLoss'
  <2> SUFFICES ASSUME NEW c \in frontClients, NEW n, n \in Owed(c)'
               PROVE  (Settled(c, n) \/ OnItsWay(c, n))'
    BY <1>6 DEF NoSilentLoss
  <2>1. CASE n = m
    <3>1. ipc'[i] = "stored" /\ icur'[i] = n
      BY <1>1, <2>1 DEF Typed
    <3> QED BY <3>1 DEF OnItsWay
  <2>2. CASE n \in Owed(c)
    <3>1. Settled(c, n) \/ OnItsWay(c, n)
      BY <2>2 DEF NoSilentLoss
    <3> QED BY <1>1, <3>1 DEF Settled, OnItsWay, Typed
  <2> QED BY <1>5, <2>1, <2>2 DEF frontClients
<1>9. PlansHeld' /\ KeysAgree' /\ GroupsAgree'
  BY <1>1 DEF PlansHeld, KeysAgree, GroupsAgree
<1> QED BY <1>3, <1>4, <1>7, <1>8, <1>9

LEMMA BroadcastInv ==
  ASSUME Inv, NEW i \in Ingesters, BroadcastCheck(i) \/ BroadcastQueue(i) \/ BroadcastArm(i)
  PROVE  Inv'
<1> USE DEF Inv
<1>1. UNCHANGED <<stored, fpc, fbatch, fkeys, fplan, conn, pred, key, swap, since, sent, lost>>
  BY DEF BroadcastCheck, BroadcastQueue, QueueEntry, BroadcastArm, flushVars, connVars, queueVars
<1>2. /\ \A j \in Ingesters \ {i} : ipc'[j] = ipc[j] /\ icur'[j] = icur[j]
      /\ ipc' \in [Ingesters -> {"idle", "stored", "queueing", "arming"}]
      /\ icur' \in [Ingesters -> Nat] /\ icur'[i] \in {0, icur[i]}
  <2>1. \/ ipc' = [ipc EXCEPT ![i] = "idle"] /\ icur' = [icur EXCEPT ![i] = 0]
        \/ ipc' = [ipc EXCEPT ![i] = "queueing"] /\ icur' = icur
        \/ ipc' = [ipc EXCEPT ![i] = "arming"] /\ icur' = icur
    BY DEF BroadcastCheck, BroadcastQueue, QueueEntry, BroadcastArm, Return
  <2>2. ipc \in [Ingesters -> {"idle", "stored", "queueing", "arming"}]
        /\ icur \in [Ingesters -> Nat]
    BY DEF Typed
  <2> QED BY <2>1, <2>2
<1>3. pending' \in Seq(Nat) /\ ToSet(pending) \in SUBSET ToSet(pending')
      /\ ToSet(pending') \in SUBSET (ToSet(pending) \cup {icur[i]})
  <2>1. pending \in Seq(Nat) /\ icur[i] \in Nat
    BY DEF Typed
  <2>2. CASE pending' = pending
    BY <2>1, <2>2
  <2>3. CASE pending' = Append(pending, icur[i])
    BY <2>1, <2>3, WindowOf
  <2> QED BY <2>2, <2>3 DEF BroadcastCheck, BroadcastQueue, QueueEntry, BroadcastArm, flushVars
<1>4. \A n : ipc[i] \in {"stored", "queueing"} /\ icur[i] = n /\ frontClients # {} =>
        \/ n \in ToSet(pending')
        \/ ipc'[i] \in {"stored", "queueing"} /\ icur'[i] = n
  <2>1. CASE BroadcastCheck(i)
    BY <2>1 DEF BroadcastCheck, Typed
  <2>2. CASE BroadcastQueue(i)
    <3>1. pending' = Append(pending, icur[i]) /\ pending \in Seq(Nat) /\ icur[i] \in Nat
      BY <2>2 DEF BroadcastQueue, QueueEntry, Typed
    <3>2. icur[i] \in ToSet(pending')
      BY <3>1, WindowOf
    <3> QED BY <3>2
  <2>3. CASE BroadcastArm(i)
    BY <2>3 DEF BroadcastArm
  <2> QED BY <2>1, <2>2, <2>3
<1>5. Typed'
  BY <1>1, <1>2, <1>3 DEF Typed
<1>6. Stored'
  <2>1. Len(stored) \in Nat /\ icur[i] <= Len(stored)
    BY DEF Typed, Stored
  <2> QED BY <1>1, <1>2, <1>3, <2>1, SMTT(30) DEF Stored
<1>7. NoSilentLoss'
  <2> SUFFICES ASSUME NEW c \in frontClients, NEW n \in Owed(c)
               PROVE  (Settled(c, n) \/ OnItsWay(c, n))'
    BY <1>1 DEF NoSilentLoss, frontClients, Owed
  <2>1. Settled(c, n) \/ OnItsWay(c, n)
    BY DEF NoSilentLoss
  <2>2. ASSUME NEW j \in Ingesters, ipc[j] \in {"stored", "queueing"}, icur[j] = n
        PROVE  OnItsWay(c, n)'
    <3>1. CASE j = i
      BY <1>4, <2>2, <3>1 DEF OnItsWay
    <3>2. CASE j # i
      BY <1>2, <2>2, <3>2 DEF OnItsWay
    <3> QED BY <3>1, <3>2
  <2> QED BY <1>1, <1>3, <2>1, <2>2 DEF Settled, OnItsWay
<1>8. PlansMatch' /\ PlansHeld' /\ KeysAgree' /\ GroupsAgree'
  BY <1>1 DEF PlansHeld, KeysAgree, GroupsAgree, PlansMatch, frontClients, Owed
<1> QED BY <1>5, <1>6, <1>7, <1>8

-----------------------------------------------------------------------------
(* flushBroadcast().                                                       *)

LEMMA FlushTakeInv == ASSUME Inv, NEW f \in Flushers, FlushTake(f) PROVE Inv'
<1> USE DEF Inv
<1>1. /\ fpc[f] = "idle" /\ fbatch' = [fbatch EXCEPT ![f] = pending] /\ pending' = <<>>
      /\ fpc' = [fpc EXCEPT ![f] = IF pending = <<>> THEN "idle" ELSE "taken"]
      /\ UNCHANGED <<stored, ipc, icur, fkeys, fplan, conn, pred, key, swap, since, sent, lost>>
  BY DEF FlushTake, ingestVars, connVars, queueVars
<1>2. Typed'
  BY <1>1 DEF Typed
<1>3. Stored'
  BY <1>1, WindowOf DEF Stored, Typed
<1>4. PlansHeld' /\ KeysAgree' /\ GroupsAgree'
  BY <1>1 DEF PlansHeld, KeysAgree, GroupsAgree, Typed
<1>5. frontClients' = frontClients /\ \A c \in Clients : Owed(c)' = Owed(c)
  BY <1>1 DEF frontClients, Owed
<1>6. PlansMatch'
  <2> SUFFICES ASSUME NEW g \in Flushers, NEW c \in DOMAIN fplan[g], c \in frontClients,
                      NEW n \in ToSet(fbatch'[g]), n \in Owed(c)
               PROVE  stored[n] \in fplan[g][c]
    BY <1>1, <1>5 DEF PlansMatch, frontClients
  <2>1. g # f
    BY <1>1 DEF PlansHeld
  <2>2. fbatch'[g] = fbatch[g]
    BY <1>1, <2>1 DEF Typed
  <2> QED BY <2>2 DEF PlansMatch
<1>7. NoSilentLoss'
  <2> SUFFICES ASSUME NEW c \in frontClients, NEW n \in Owed(c)
               PROVE  (Settled(c, n) \/ OnItsWay(c, n))'
    BY <1>5 DEF NoSilentLoss, frontClients
  <2>1. Settled(c, n) \/ OnItsWay(c, n)
    BY DEF NoSilentLoss
  <2>2. ASSUME n \in ToSet(pending) PROVE OnItsWay(c, n)'
    <3>1. pending # <<>>
      BY <2>2, WindowOf
    <3>2. fpc'[f] = "taken" /\ fbatch'[f] = pending
      BY <1>1, <3>1 DEF Typed
    <3> QED BY <2>2, <3>2 DEF OnItsWay
  <2>3. ASSUME NEW g \in Flushers, n \in ToSet(fbatch[g]),
               fpc[g] \in {"taken", "grouping"} \/ (fpc[g] = "sending" /\ c \in DOMAIN fplan[g])
        PROVE  OnItsWay(c, n)'
    <3>1. g # f
      BY <1>1, <2>3
    <3>2. fpc'[g] = fpc[g] /\ fbatch'[g] = fbatch[g] /\ fplan'[g] = fplan[g]
      BY <1>1, <3>1 DEF Typed
    <3> QED BY <2>3, <3>2 DEF OnItsWay
  <2>4. ASSUME NEW i \in Ingesters, ipc[i] \in {"stored", "queueing"}, icur[i] = n
        PROVE  OnItsWay(c, n)'
    BY <1>1, <2>4 DEF OnItsWay
  <2>5. Settled(c, n) => Settled(c, n)'
    BY <1>1 DEF Settled
  <2> QED BY <2>1, <2>2, <2>3, <2>4, <2>5 DEF OnItsWay
<1> QED BY <1>2, <1>3, <1>4, <1>6, <1>7

\* The lock is taken before the grouping, and the grouping is over when every
\* client of the map has its predicate.
LEMMA FlushLockInv ==
  ASSUME Inv, NEW f \in Flushers, FlushLock(f) \/ FlushGrouped(f) PROVE Inv'
<1> USE DEF Inv
<1>1. /\ fpc[f] \in {"taken", "grouping"}
      /\ fpc' = [fpc EXCEPT ![f] = "grouping"]
         \/ (fpc' = [fpc EXCEPT ![f] = "sending"] /\ DOMAIN fplan[f] = frontClients)
      /\ fkeys' = fkeys \/ fkeys' = [fkeys EXCEPT ![f] = <<>>]
      /\ UNCHANGED <<stored, ipc, icur, pending, fbatch, fplan, conn, pred, key, swap, since,
                     sent, lost>>
  BY DEF FlushLock, FlushGrouped, ingestVars, connVars, queueVars
<1>2. Typed'
  <2>1. fkeys' = [g \in Flushers |-> fkeys'[g]]
    BY <1>1 DEF Typed
  <2>2. fpc' \in [Flushers -> {"idle", "taken", "grouping", "sending"}]
    BY <1>1 DEF Typed
  <2> QED BY <1>1, <2>1, <2>2 DEF Typed
<1>3. GroupsAgree'
  <2>1. CASE fkeys' = fkeys
    BY <2>1 DEF GroupsAgree
  <2>2. CASE fkeys' = [fkeys EXCEPT ![f] = <<>>]
    <3>1. \A g \in Flushers : fkeys'[g] = IF g = f THEN <<>> ELSE fkeys[g]
      BY <2>2 DEF Typed
    <3> QED BY <3>1 DEF GroupsAgree
  <2> QED BY <1>1, <2>1, <2>2
<1>4. PlansHeld' /\ Stored' /\ KeysAgree' /\ PlansMatch'
  <2>1. PlansHeld'
    BY <1>1 DEF PlansHeld, Typed
  <2> QED BY <1>1, <2>1 DEF Stored, KeysAgree, PlansMatch, frontClients, Owed
<1>5. NoSilentLoss'
  <2> SUFFICES ASSUME NEW c \in frontClients, NEW n \in Owed(c)
               PROVE  (Settled(c, n) \/ OnItsWay(c, n))'
    BY <1>1 DEF NoSilentLoss, frontClients, Owed
  <2>1. Settled(c, n) \/ OnItsWay(c, n)
    BY DEF NoSilentLoss
  <2>2. ASSUME NEW g \in Flushers, n \in ToSet(fbatch[g]),
               fpc[g] \in {"taken", "grouping"} \/ (fpc[g] = "sending" /\ c \in DOMAIN fplan[g])
        PROVE  OnItsWay(c, n)'
    <3>1. CASE g = f
      BY <1>1, <2>2, <3>1 DEF OnItsWay, Typed
    <3>2. CASE g # f
      BY <1>1, <2>2, <3>2 DEF OnItsWay, Typed
    <3> QED BY <3>1, <3>2
  <2> QED BY <1>1, <2>1, <2>2 DEF Settled, OnItsWay
<1> QED BY <1>2, <1>3, <1>4, <1>5

\* Whichever group it joins, a client gets the predicate it has now.
LEMMA SnapshotExact ==
  ASSUME Inv, NEW f \in Flushers, FlushSnapshot(f)
  PROVE  \E c \in frontClients \ DOMAIN fplan[f] :
           /\ fplan' = [fplan EXCEPT ![f] = With(fplan[f], c, pred[c])]
           /\ fkeys' = [fkeys EXCEPT ![f] = With(fkeys[f], pred[c], pred[c])]
<1>1. PICK c \in frontClients \ DOMAIN fplan[f] :
        LET group == IF key[c] \in DOMAIN fkeys[f] THEN fkeys[f][key[c]] ELSE pred[c] IN
        /\ fplan' = [fplan EXCEPT ![f] = With(@, c, group)]
        /\ fkeys' = [fkeys EXCEPT ![f] = With(@, key[c], group)]
  BY DEF FlushSnapshot
<1>2. c \in Clients /\ key[c] = pred[c]
  BY DEF frontClients, Inv, KeysAgree
<1>3. (IF key[c] \in DOMAIN fkeys[f] THEN fkeys[f][key[c]] ELSE pred[c]) = pred[c]
  BY <1>2 DEF Inv, GroupsAgree
<1>4. /\ fplan = [g \in Flushers |-> fplan[g]]
      /\ fkeys = [g \in Flushers |-> fkeys[g]]
  BY DEF Inv, Typed
<1>5. /\ fplan' = [fplan EXCEPT ![f] = With(fplan[f], c, pred[c])]
      /\ fkeys' = [fkeys EXCEPT ![f] = With(fkeys[f], pred[c], pred[c])]
  BY <1>1, <1>2, <1>3, <1>4
<1> QED BY <1>5

LEMMA FlushSnapshotInv == ASSUME Inv, NEW f \in Flushers, FlushSnapshot(f) PROVE Inv'
<1> USE DEF Inv
<1>1. PICK c \in frontClients \ DOMAIN fplan[f] :
        /\ fplan' = [fplan EXCEPT ![f] = With(fplan[f], c, pred[c])]
        /\ fkeys' = [fkeys EXCEPT ![f] = With(fkeys[f], pred[c], pred[c])]
  BY SnapshotExact
<1> DEFINE plan == With(fplan[f], c, pred[c])
           keys == With(fkeys[f], pred[c], pred[c])
<1>2. /\ fpc[f] = "grouping"
      /\ UNCHANGED <<stored, ipc, icur, pending, fpc, fbatch, conn, pred, key, swap, since, sent, lost>>
  BY DEF FlushSnapshot, ingestVars, connVars, queueVars
<1>3. /\ DOMAIN plan = DOMAIN fplan[f] \cup {c} /\ plan[c] = pred[c]
      /\ \A d \in DOMAIN fplan[f] : plan[d] = fplan[f][d]
  BY <1>1 DEF With
<1>4. \A k \in DOMAIN keys : \/ k = pred[c] /\ keys[k] = pred[c]
                             \/ k \in DOMAIN fkeys[f] /\ keys[k] = fkeys[f][k]
  BY DEF With
<1>5. c \in Clients /\ pred[c] \in SUBSET Classes
  BY DEF frontClients, Typed
<1>6. plan \in Plans
  <2>1. PICK D \in SUBSET Clients : fplan[f] \in [D -> SUBSET Classes]
    BY DEF Typed, Plans
  <2>2. plan = [d \in D \cup {c} |-> plan[d]]
    BY <2>1 DEF With
  <2>3. \A d \in D \cup {c} : plan[d] \in SUBSET Classes
    BY <1>3, <1>5, <2>1
  <2> HIDE DEF plan
  <2>4. plan \in [D \cup {c} -> SUBSET Classes] /\ D \cup {c} \in SUBSET Clients
    BY <1>5, <2>2, <2>3
  <2> QED BY <2>4 DEF Plans
<1> HIDE DEF plan, keys
<1>7. fplan' = [fplan EXCEPT ![f] = plan] /\ fkeys' = [fkeys EXCEPT ![f] = keys]
  BY <1>1 DEF plan, keys
<1>8. Typed'
  BY <1>2, <1>6, <1>7 DEF Typed
<1>9. Stored' /\ KeysAgree'
  BY <1>2 DEF Stored, KeysAgree
<1>10. PlansHeld'
  BY <1>2, <1>7 DEF PlansHeld, Typed
<1>11. GroupsAgree'
  BY <1>4, <1>7 DEF GroupsAgree, Typed
<1>12. frontClients' = frontClients /\ \A d \in Clients : Owed(d)' = Owed(d)
  BY <1>2 DEF frontClients, Owed
<1>13. PlansMatch'
  <2> SUFFICES ASSUME NEW g \in Flushers, NEW d \in DOMAIN fplan'[g], d \in frontClients,
                      NEW n \in ToSet(fbatch[g]), n \in Owed(d)
               PROVE  stored[n] \in fplan'[g][d]
    BY <1>2, <1>12 DEF PlansMatch, frontClients
  <2>1. CASE g = f /\ d = c
    <3>1. fplan'[g][d] = pred[d]
      BY <1>3, <1>7, <2>1 DEF Typed
    <3> QED BY <3>1 DEF Owed
  <2>2. CASE g = f /\ d # c
    <3>1. d \in DOMAIN fplan[g] /\ fplan'[g][d] = fplan[g][d]
      BY <1>3, <1>7, <2>2 DEF Typed
    <3> QED BY <3>1 DEF PlansMatch
  <2>3. CASE g # f
    BY <1>7, <2>3 DEF PlansMatch, Typed
  <2> QED BY <2>1, <2>2, <2>3
<1>14. NoSilentLoss'
  <2> SUFFICES ASSUME NEW d \in frontClients, NEW n \in Owed(d)
               PROVE  (Settled(d, n) \/ OnItsWay(d, n))'
    BY <1>12 DEF NoSilentLoss, frontClients
  <2>1. Settled(d, n) \/ OnItsWay(d, n)
    BY DEF NoSilentLoss
  <2>2. ASSUME NEW g \in Flushers, fpc[g] = "sending" PROVE fplan'[g] = fplan[g]
    BY <1>2, <1>7, <2>2 DEF Typed
  <2> QED BY <1>2, <2>1, <2>2 DEF Settled, OnItsWay
<1> QED BY <1>8, <1>9, <1>10, <1>11, <1>13, <1>14

LEMMA FlushSendInv == ASSUME Inv, NEW f \in Flushers, FlushSend(f) PROVE Inv'
<1> USE DEF Inv
<1>1. PICK c \in DOMAIN fplan[f] :
        LET raws == Matching(fbatch[f], fplan[f][c]) IN
        /\ fplan' = [fplan EXCEPT ![f] = [d \in DOMAIN @ \ {c} |-> @[d]]]
        /\ \/ sent' = [sent EXCEPT ![c] = @ \cup raws] /\ UNCHANGED lost
           \/ lost' = [lost EXCEPT ![c] = @ \cup raws] /\ UNCHANGED sent
        /\ UNCHANGED <<stored, ipc, icur, pending, fpc, fbatch, fkeys, conn, pred, key, swap, since>>
  BY DEF FlushSend, Queue, ingestVars, connVars
<1> DEFINE raws == Matching(fbatch[f], fplan[f][c])
           rest == [d \in DOMAIN fplan[f] \ {c} |-> fplan[f][d]]
<1>2. c \in Clients /\ rest \in Plans /\ DOMAIN fplan[f] \in SUBSET Clients
  <2>1. PICK D \in SUBSET Clients : fplan[f] \in [D -> SUBSET Classes]
    BY DEF Typed, Plans
  <2>2. rest \in [D \ {c} -> SUBSET Classes] /\ D \ {c} \in SUBSET Clients
    BY <2>1
  <2> QED BY <2>1, <2>2 DEF Plans
<1>4. fplan' = [fplan EXCEPT ![f] = rest]
  BY <1>1 DEF Typed
<1> HIDE DEF rest
<1>5. Typed'
  <2>1. fplan' \in [Flushers -> Plans]
    BY <1>2, <1>4 DEF Typed
  <2>2. sent' = [d \in Clients |-> sent'[d]] /\ lost' = [d \in Clients |-> lost'[d]]
    BY <1>1, <1>2 DEF Typed
  <2> QED BY <1>1, <2>1, <2>2 DEF Typed
<1>6. Stored' /\ KeysAgree' /\ GroupsAgree'
  BY <1>1 DEF Stored, KeysAgree, GroupsAgree
<1>7. PlansHeld'
  BY <1>1, <1>4 DEF PlansHeld, Typed
<1>8. frontClients' = frontClients /\ \A d \in Clients : Owed(d)' = Owed(d)
  BY <1>1 DEF frontClients, Owed
<1>9. PlansMatch'
  <2> SUFFICES ASSUME NEW g \in Flushers, NEW d \in DOMAIN fplan'[g], d \in frontClients,
                      NEW n \in ToSet(fbatch[g]), n \in Owed(d)
               PROVE  stored[n] \in fplan'[g][d]
    BY <1>1, <1>8 DEF PlansMatch, frontClients
  <2>1. d \in DOMAIN fplan[g] /\ fplan'[g][d] = fplan[g][d]
    <3>1. CASE g = f
      BY <1>4, <3>1 DEF Typed, rest
    <3>2. CASE g # f
      BY <1>4, <3>2 DEF Typed
    <3> QED BY <3>1, <3>2
  <2> QED BY <2>1 DEF PlansMatch
<1>10. NoSilentLoss'
  <2> SUFFICES ASSUME NEW d \in frontClients, NEW n \in Owed(d)
               PROVE  (Settled(d, n) \/ OnItsWay(d, n))'
    BY <1>8 DEF NoSilentLoss, frontClients
  <2>1. Settled(d, n) \/ OnItsWay(d, n)
    BY DEF NoSilentLoss
  <2>2. sent[d] \subseteq sent'[d] /\ lost[d] \subseteq lost'[d]
    BY <1>1, <1>2, ZenonT(60) DEF Typed, frontClients
  <2>3. ASSUME NEW g \in Flushers, n \in ToSet(fbatch[g]),
               fpc[g] \in {"taken", "grouping"} \/ (fpc[g] = "sending" /\ d \in DOMAIN fplan[g])
        PROVE  (Settled(d, n) \/ OnItsWay(d, n))'
    <3>1. CASE g = f /\ d = c
      <4>1. stored[n] \in fplan[f][c]
        BY <1>1, <2>3, <3>1 DEF PlansMatch
      <4>2. n \in raws
        BY <2>3, <3>1, <4>1 DEF Matching
      <4>3. n \in sent'[c] \cup lost'[c]
        BY <1>1, <1>2, <4>2 DEF Typed
      <4> QED BY <3>1, <4>3 DEF Settled
    <3>2. CASE g = f /\ d # c
      <4>1. fpc[f] = "sending"
        BY DEF FlushSend
      <4>2. d \in DOMAIN fplan'[f]
        BY <1>4, <2>3, <3>2, <4>1 DEF Typed, rest
      <4> QED BY <1>1, <2>3, <3>2, <4>1, <4>2 DEF OnItsWay
    <3>3. CASE g # f
      <4>1. fplan'[g] = fplan[g]
        BY <1>4, <3>3 DEF Typed
      <4> QED BY <1>1, <2>3, <4>1 DEF OnItsWay
    <3> QED BY <3>1, <3>2, <3>3
  <2> QED BY <1>1, <2>1, <2>2, <2>3 DEF Settled, OnItsWay
<1> QED BY <1>5, <1>6, <1>7, <1>9, <1>10

LEMMA FlushDoneInv == ASSUME Inv, NEW f \in Flushers, FlushDone(f) PROVE Inv'
<1> USE DEF Inv
<1>1. /\ fpc[f] = "sending" /\ DOMAIN fplan[f] = {}
      /\ fpc' = [fpc EXCEPT ![f] = "idle"] /\ fbatch' = [fbatch EXCEPT ![f] = <<>>]
      /\ UNCHANGED <<stored, ipc, icur, pending, fkeys, fplan, conn, pred, key, swap, since, sent, lost>>
  BY DEF FlushDone, ingestVars, connVars, queueVars
<1>2. Typed' /\ KeysAgree' /\ GroupsAgree' /\ PlansHeld'
  BY <1>1 DEF Typed, KeysAgree, GroupsAgree, PlansHeld
<1>3. \A g \in Flushers : ToSet(fbatch'[g]) \subseteq ToSet(fbatch[g])
  BY <1>1, WindowOf DEF Typed
<1>4. Stored' /\ PlansMatch'
  BY <1>1, <1>3 DEF Stored, PlansMatch, frontClients, Owed
<1>5. NoSilentLoss'
  <2> SUFFICES ASSUME NEW c \in frontClients, NEW n \in Owed(c)
               PROVE  (Settled(c, n) \/ OnItsWay(c, n))'
    BY <1>1 DEF NoSilentLoss, frontClients, Owed
  <2>1. Settled(c, n) \/ OnItsWay(c, n)
    BY DEF NoSilentLoss
  <2>2. ASSUME NEW g \in Flushers, n \in ToSet(fbatch[g]),
               fpc[g] \in {"taken", "grouping"} \/ (fpc[g] = "sending" /\ c \in DOMAIN fplan[g])
        PROVE  OnItsWay(c, n)'
    <3>1. g # f
      BY <1>1, <2>2
    <3>2. fpc'[g] = fpc[g] /\ fbatch'[g] = fbatch[g]
      BY <1>1, <3>1 DEF Typed
    <3> QED BY <1>1, <2>2, <3>2 DEF OnItsWay
  <2> QED BY <1>1, <2>1, <2>2 DEF Settled, OnItsWay
<1> QED BY <1>2, <1>4, <1>5

-----------------------------------------------------------------------------
(* handleFront, frontReader and replayHistory.                             *)

\* A step of a connection changes what is owed to that client only, and to that
\* client it owes what it did, or starts anew.
LEMMA FrontEndInv == ASSUME Inv, NEW c \in Clients, FrontEnd(c) PROVE Inv'
<1> USE DEF Inv
<1>1. /\ UNCHANGED <<stored, ipc, icur, pending, fpc, fbatch, fkeys, fplan>>
      /\ Typed' /\ KeysAgree'
      /\ \A d \in Clients \ {c} : /\ conn'[d] = conn[d] /\ pred'[d] = pred[d]
                                 /\ since'[d] = since[d] /\ sent'[d] = sent[d] /\ lost'[d] = lost[d]
      /\ \/ conn'[c] \notin {"live", "swapping"}
         \/ /\ conn[c] \in {"live", "swapping"} /\ pred'[c] = pred[c] /\ since'[c] = since[c]
            /\ sent[c] \subseteq sent'[c] /\ lost'[c] = lost[c]
         \/ since'[c] = Len(stored)
  <2>1. CASE FrontConnect(c)
    <3>1. PICK p \in Filters \cup {Reject} : pred' = [pred EXCEPT ![c] = p] /\ key' = [key EXCEPT ![c] = p]
      BY <2>1 DEF FrontConnect
    <3>2. p \in SUBSET Classes
      BY FanoutAssumption DEF Reject
    <3> QED BY <2>1, <3>1, <3>2 DEF FrontConnect, Typed, KeysAgree, ingestVars, flushVars, queueVars
  <2>2. CASE ReplayChunk(c)
    <3>1. PICK chunk : sent' = sent \/ sent' = [sent EXCEPT ![c] = @ \cup chunk]
      BY <2>2 DEF ReplayChunk, Queue
    <3>2. /\ sent' = [d \in Clients |-> sent'[d]] /\ sent[c] \subseteq sent'[c]
          /\ \A d \in Clients \ {c} : sent'[d] = sent[d]
      BY <3>1 DEF Typed
    <3>3. UNCHANGED <<stored, ipc, icur, pending, fpc, fbatch, fkeys, fplan, conn, pred, key, swap, since, lost>>
      BY <2>2 DEF ReplayChunk, ingestVars, flushVars
    <3>4. Typed' /\ KeysAgree'
      BY <3>2, <3>3 DEF Typed, KeysAgree
    <3> QED BY <3>2, <3>3, <3>4
  <2>3. CASE FrontRegister(c)
    BY <2>3 DEF FrontRegister, Typed, KeysAgree, ingestVars, flushVars, queueVars
  <2>4. CASE FilterFrame(c)
    <3>1. PICK p \in Filters : swap' = [swap EXCEPT ![c] = p]
      BY <2>4 DEF FilterFrame
    <3>2. p \in SUBSET Classes
      BY FanoutAssumption
    <3> QED BY <2>4, <3>1, <3>2 DEF FilterFrame, Typed, KeysAgree, ingestVars, flushVars, queueVars
  <2>5. CASE FilterSwap(c)
    BY <2>5 DEF FilterSwap, Typed, KeysAgree, ingestVars, flushVars, queueVars, Reject
  <2>6. CASE FrontUnlink(c)
    BY <2>6 DEF FrontUnlink, Typed, KeysAgree, ingestVars, flushVars, queueVars
  <2>7. CASE FrontClose(c)
    BY <2>7 DEF FrontClose, Typed, KeysAgree, ingestVars, flushVars, Reject
  <2> QED BY <2>1, <2>2, <2>3, <2>4, <2>5, <2>6, <2>7 DEF FrontEnd
<1>2. ASSUME NEW d \in Clients, d \in frontClients', NEW n, n \in Owed(d)'
      PROVE  d \in frontClients /\ n \in Owed(d) /\ (Settled(d, n) => Settled(d, n)')
  <2>1. n \in since'[d] + 1 .. Len(stored) /\ stored[n] \in pred'[d] /\ Len(stored) \in Nat
    BY <1>1, <1>2 DEF Owed, Typed
  <2>2. since'[d] # Len(stored)
    BY <2>1
  <2>3. conn'[d] \in {"live", "swapping"}
    BY <1>2 DEF frontClients
  <2> QED BY <1>1, <2>1, <2>2, <2>3 DEF frontClients, Owed, Settled
<1>3. PlansHeld' /\ Stored' /\ GroupsAgree'
  BY <1>1 DEF PlansHeld, Stored, GroupsAgree
<1>4. PlansMatch'
  <2>1. \A f \in Flushers : DOMAIN fplan[f] \in SUBSET Clients
    BY DEF Typed, Plans
  <2> QED BY <1>1, <1>2, <2>1 DEF PlansMatch
<1>5. NoSilentLoss'
  <2> SUFFICES ASSUME NEW d \in Clients, d \in frontClients', NEW n, n \in Owed(d)'
               PROVE  (Settled(d, n) \/ OnItsWay(d, n))'
    BY DEF NoSilentLoss, frontClients
  <2>1. Settled(d, n) \/ OnItsWay(d, n)
    BY <1>2 DEF NoSilentLoss
  <2> QED BY <1>1, <1>2, <2>1 DEF OnItsWay
<1> QED BY <1>1, <1>3, <1>4, <1>5

LEMMA NextInv == Inv /\ [Next]_vars => Inv'
<1> SUFFICES ASSUME Inv, [Next]_vars PROVE Inv'
  OBVIOUS
<1>1. ASSUME UNCHANGED vars PROVE Inv'
  BY <1>1 DEF vars, ingestVars, flushVars, connVars, queueVars, Inv, Typed, PlansHeld, Stored,
              KeysAgree, GroupsAgree, PlansMatch, NoSilentLoss, frontClients, Owed, Settled, OnItsWay
<1> QED BY <1>1, IngestStoreInv, BroadcastInv, FlushTakeInv, FlushLockInv,
           FlushSnapshotInv, FlushSendInv, FlushDoneInv, FrontEndInv DEF Next, Ingest, Flush

\* Every entry stored since a dashboard registered, or swapped its filter, that
\* matches its filter is queued to it, counted as dropped, or still on its way,
\* for any number of workers, dashboards and overlapping flushes, whatever swaps,
\* connects and disconnects meanwhile (server.go:433-438, 858-865, 1048-1153).
THEOREM NothingLostSilently == Spec => []NoSilentLoss
<1>1. Inv => NoSilentLoss
  BY DEF Inv
<1> QED BY <1>1, InitInv, NextInv, PTL DEF Spec

\* A flush matches every dashboard with the filter it has when the flush comes to
\* it, although it matches once for each group of clients with the same key, and
\* any of them may swap its filter while the groups are formed (server.go:778-791,
\* 1115-1133).
THEOREM GroupsShareOneFilter == Spec => GroupsRespectFilters
<1> DEFINE Step == \A f \in Flushers : \A c \in DOMAIN fplan'[f] \ DOMAIN fplan[f] :
                     fplan'[f][c] = pred[c]
<1>1. Inv /\ [Next]_vars => [Step]_vars
  <2> SUFFICES ASSUME Inv, Next, NEW f \in Flushers, NEW c \in DOMAIN fplan'[f] \ DOMAIN fplan[f]
               PROVE  fplan'[f][c] = pred[c]
    OBVIOUS
  <2>1. CASE UNCHANGED fplan
    BY <2>1
  <2>2. ASSUME NEW g \in Flushers, Flush(g), fplan' # fplan
        PROVE  FlushSnapshot(g) \/ FlushSend(g)
    BY <2>2 DEF Flush, FlushTake, FlushLock, FlushGrouped, FlushDone
  <2>3. ASSUME NEW g \in Flushers, FlushSend(g) PROVE DOMAIN fplan'[f] \subseteq DOMAIN fplan[f]
    BY <2>3 DEF FlushSend, Inv, Typed
  <2>4. ASSUME NEW g \in Flushers, FlushSnapshot(g) PROVE fplan'[f][c] = pred[c]
    <3>1. PICK d \in frontClients : fplan' = [fplan EXCEPT ![g] = With(fplan[g], d, pred[d])]
      BY <2>4, SnapshotExact
    <3>2. g = f
      <4>1. g # f => fplan'[f] = fplan[f]
        BY <3>1 DEF Inv, Typed
      <4> QED BY <4>1
    <3>3. fplan'[f] = With(fplan[f], d, pred[d])
      BY <3>1, <3>2 DEF Inv, Typed
    <3>4. c = d
      BY <3>3 DEF With
    <3> QED BY <3>3, <3>4 DEF With
  <2>5. ASSUME NEW i \in Ingesters, Ingest(i) PROVE UNCHANGED fplan
    BY <2>5 DEF Ingest, IngestStore, BroadcastCheck, BroadcastQueue, QueueEntry, BroadcastArm,
                flushVars
  <2>6. ASSUME NEW d \in Clients, FrontEnd(d) PROVE UNCHANGED fplan
    BY <2>6 DEF FrontEnd, FrontConnect, ReplayChunk, FrontRegister, FilterFrame, FilterSwap,
                FrontUnlink, FrontClose, flushVars
  <2> QED BY <2>1, <2>2, <2>3, <2>4, <2>5, <2>6 DEF Next
<1>2. Spec => [][Step]_vars
  BY <1>1, InitInv, NextInv, PTL DEF Spec
<1> QED BY <1>2 DEF GroupsRespectFilters

-----------------------------------------------------------------------------
(* The timer of a window.                                                  *)

Arming == {i \in Ingesters : ipc[i] = "arming"}

TimerInv ==
  /\ ipc \in [Ingesters -> {"idle", "stored", "queueing", "arming"}]
  /\ timers \in Nat /\ WindowHasTimer

LEMMA ArmingChange ==
  /\ IsFiniteSet(Arming) /\ Cardinality(Arming) \in Nat
  /\ \A A : A \in SUBSET Ingesters => IsFiniteSet(A) /\ Cardinality(A) \in Nat
  /\ \A i \in Arming : Cardinality(Arming \ {i}) = Cardinality(Arming) - 1
  /\ \A i \in Ingesters \ Arming : Cardinality(Arming \cup {i}) = Cardinality(Arming) + 1
<1>1. \A A : A \in SUBSET Ingesters => IsFiniteSet(A) /\ Cardinality(A) \in Nat
  BY FanoutAssumption, FS_Subset, FS_CardinalityType
<1>2. Arming \in SUBSET Ingesters
  BY DEF Arming
<1> QED BY <1>1, <1>2, FS_AddElement, FS_RemoveElement

LEMMA TimerInit == Init => TimerInv
<1> SUFFICES ASSUME Init PROVE TimerInv
  OBVIOUS
<1>1. Arming = {}
  BY DEF Init, Arming
<1>2. Cardinality(Arming) = 0
  BY <1>1, FS_EmptySet
<1> QED BY <1>2 DEF Init, TimerInv, WindowHasTimer, Arming

LEMMA TimerNext == TimerInv /\ [Next]_vars => TimerInv'
<1> SUFFICES ASSUME TimerInv, [Next]_vars PROVE TimerInv'
  OBVIOUS
<1>0. /\ ipc \in [Ingesters -> {"idle", "stored", "queueing", "arming"}] /\ timers \in Nat
      /\ timers + Cardinality(Arming) = IF pending = <<>> THEN 0 ELSE 1
  BY DEF TimerInv, WindowHasTimer, Arming
<1>1. SUFFICES /\ ipc' \in [Ingesters -> {"idle", "stored", "queueing", "arming"}] /\ timers' \in Nat
               /\ timers' + Cardinality(Arming') = IF pending' = <<>> THEN 0 ELSE 1
  BY DEF TimerInv, WindowHasTimer, Arming
<1>2. ASSUME NEW i \in Ingesters, IngestStore(i) \/ BroadcastCheck(i)
      PROVE  /\ ipc' \in [Ingesters -> {"idle", "stored", "queueing", "arming"}]
             /\ Arming' = Arming /\ UNCHANGED <<timers, pending>>
  BY <1>0, <1>2 DEF IngestStore, BroadcastCheck, Return, Arming, flushVars
<1>3. ASSUME NEW i \in Ingesters, BroadcastQueue(i), pending = <<>>
      PROVE  /\ ipc' \in [Ingesters -> {"idle", "stored", "queueing", "arming"}]
             /\ Arming' = Arming \cup {i} /\ i \notin Arming /\ timers' = timers /\ pending' # <<>>
  BY <1>0, <1>3 DEF BroadcastQueue, QueueEntry, Arming
<1>4. ASSUME NEW i \in Ingesters, BroadcastQueue(i), pending # <<>>
      PROVE  /\ ipc' \in [Ingesters -> {"idle", "stored", "queueing", "arming"}]
             /\ Arming' = Arming /\ timers' = timers /\ pending' # <<>>
  BY <1>0, <1>4 DEF BroadcastQueue, QueueEntry, Return, Arming
<1>5. ASSUME NEW i \in Ingesters, BroadcastArm(i)
      PROVE  /\ ipc' \in [Ingesters -> {"idle", "stored", "queueing", "arming"}]
             /\ Arming' = Arming \ {i} /\ i \in Arming /\ timers' = timers + 1 /\ pending' = pending
  BY <1>0, <1>5 DEF BroadcastArm, Return, Arming
<1>6. ASSUME NEW f \in Flushers, FlushTake(f)
      PROVE  ipc' = ipc /\ Arming' = Arming /\ timers > 0 /\ timers' = timers - 1 /\ pending' = <<>>
  BY <1>0, <1>6 DEF FlushTake, Arming, ingestVars
<1>7. ASSUME UNCHANGED <<ipc, timers, pending>> PROVE Arming' = Arming
  BY <1>7 DEF Arming
<1>8. ASSUME NEW f \in Flushers, FlushLock(f) \/ FlushSnapshot(f) \/ FlushGrouped(f) \/ FlushSend(f)
                                     \/ FlushDone(f)
      PROVE  UNCHANGED <<ipc, timers, pending>>
  BY <1>8 DEF FlushLock, FlushSnapshot, FlushGrouped, FlushSend, FlushDone, ingestVars
<1>9. ASSUME NEW c \in Clients, FrontEnd(c) PROVE UNCHANGED <<ipc, timers, pending>>
  BY <1>9 DEF FrontEnd, FrontConnect, ReplayChunk, FrontRegister, FilterFrame, FilterSwap,
              FrontUnlink, FrontClose, ingestVars, flushVars
<1>10. ASSUME UNCHANGED vars PROVE UNCHANGED <<ipc, timers, pending>>
  BY <1>10 DEF vars, ingestVars, flushVars
<1>11. ASSUME NEW i \in Ingesters, Ingest(i)
       PROVE  /\ ipc' \in [Ingesters -> {"idle", "stored", "queueing", "arming"}] /\ timers' \in Nat
              /\ timers' + Cardinality(Arming') = IF pending' = <<>> THEN 0 ELSE 1
  BY <1>0, <1>2, <1>3, <1>4, <1>5, <1>11, ArmingChange DEF Ingest
<1>12. ASSUME NEW f \in Flushers, FlushTake(f)
       PROVE  /\ timers' \in Nat
              /\ timers' + Cardinality(Arming') = IF pending' = <<>> THEN 0 ELSE 1
  BY <1>0, <1>6, <1>12, ArmingChange
<1> QED BY <1>0, <1>6, <1>7, <1>8, <1>9, <1>10, <1>11, <1>12 DEF Next, Flush

\* A window that holds entries has exactly one timer, armed or about to be, and
\* an empty one has none: no entry waits for a flush that nobody scheduled, and no
\* window is flushed twice (server.go:1069-1078, 1099-1106).
THEOREM WindowsAreFlushed == Spec => []WindowHasTimer
<1>1. TimerInv => WindowHasTimer
  BY DEF TimerInv
<1> QED BY <1>1, TimerInit, TimerNext, PTL DEF Spec
================================================================================
