--------------------------- MODULE HubPartsProofs ---------------------------
(***************************************************************************)
(* Proofs about what the hub computes beside its ring: the cache of        *)
(* aggregate answers (AggCache), the names of addresses (Resolver), the    *)
(* rates (RateWindows), the facet counts (Facets) and the timeline         *)
(* (Aggregates), for any number of goroutines, entries, pods, requests and *)
(* sizes, any window, limits and failures.  The invariants of the first    *)
(* four parts come first, each with the steps that keep it, then the       *)
(* theorems about HubParts, and the timeline last.                         *)
(***************************************************************************)
EXTENDS HubParts, SumProofs

-----------------------------------------------------------------------------
(* The cache of aggregate answers (AggCache).                              *)

\* The cardinality that an instance of FiniteSets means.
LEMMA CacheCard == \A S : C!Cardinality(S) = Cardinality(S)
BY DEF C!Cardinality, Cardinality

SizesOf(c) == [k \in DOMAIN c |-> c[k].size]

LEMMA BytesAre == \A c : C!BytesOf(c) = SumOver(SizesOf(c), DOMAIN c)
<1> TAKE c
<1>1. DOMAIN SizesOf(c) = DOMAIN c
  BY DEF SizesOf
<1>2. C!BytesOf(c) = SumOver(SizesOf(c), DOMAIN SizesOf(c))
  BY DEF C!BytesOf, SizesOf, C!SumFunction, C!SumFunctionOnSet, C!FoldFunctionOnSet,
         C!MapThenFoldSet, SumOver, MapThenSumSet, MapThenFoldSet
<1> QED BY <1>1, <1>2

\* A function with a finite domain and natural sizes.
Sized(c) ==
  /\ c = [k \in DOMAIN c |-> c[k]] /\ IsFiniteSet(DOMAIN c)
  /\ \A k \in DOMAIN c : c[k].size \in Nat

\* What taking keys away and setting one does to the bytes.
LEMMA BytesOfPart ==
  ASSUME NEW c, Sized(c), NEW K \in SUBSET DOMAIN c
  PROVE  /\ C!BytesOf(C!Restrict(c, K)) = SumOver(SizesOf(c), K)
         /\ SumOver(SizesOf(c), K) \in Nat
         /\ Sized(C!Restrict(c, K)) /\ DOMAIN C!Restrict(c, K) = K
         /\ \A k \in K : C!Restrict(c, K)[k] = c[k]
<1> DEFINE r == C!Restrict(c, K)
<1>1. DOMAIN r = K /\ r = [k \in DOMAIN r |-> r[k]] /\ \A k \in K : r[k] = c[k]
  BY DEF C!Restrict
<1>2. IsFiniteSet(K) /\ \A k \in K : SizesOf(c)[k] = c[k].size /\ c[k].size \in Nat
  BY FS_Subset DEF Sized, SizesOf
<1> HIDE DEF r
<1>3. \A k \in K : SizesOf(r)[k] = SizesOf(c)[k]
  BY <1>1, <1>2 DEF SizesOf
<1>4. SumOver(SizesOf(r), K) = SumOver(SizesOf(c), K)
  BY <1>2, <1>3, SumOverSame
<1>5. SumOver(SizesOf(c), K) \in Nat
  BY <1>2, SumOverType
<1>6. C!BytesOf(r) = SumOver(SizesOf(c), K)
  BY <1>1, <1>4, BytesAre
<1>7. Sized(r)
  BY <1>1, <1>2 DEF Sized
<1> QED BY <1>1, <1>5, <1>6, <1>7 DEF r

LEMMA BytesOfPut ==
  ASSUME NEW c, NEW k, NEW body, Sized(c), k \notin DOMAIN c, body.size \in Nat
  PROVE  /\ C!BytesOf(C!Put(c, k, body)) = C!BytesOf(c) + body.size
         /\ Sized(C!Put(c, k, body))
<1> DEFINE p == C!Put(c, k, body)
           D == DOMAIN c \cup {k}
<1>1. DOMAIN p = D /\ p = [j \in DOMAIN p |-> p[j]] /\ p[k] = body
      /\ \A j \in DOMAIN c : p[j] = c[j]
  BY DEF C!Put
<1> HIDE DEF p
<1>2. IsFiniteSet(D) /\ \A j \in D : p[j].size \in Nat
  BY <1>1, FS_AddElement DEF Sized
<1>3. /\ \A j \in D : SizesOf(p)[j] = p[j].size
      /\ \A j \in DOMAIN c : SizesOf(c)[j] = c[j].size /\ SizesOf(c)[j] \in Nat
  BY <1>1 DEF SizesOf, Sized
<1>4. D \ {k} = DOMAIN c /\ k \in D /\ IsFiniteSet(DOMAIN c)
  BY DEF Sized
<1>5. SumOver(SizesOf(p), D) = SizesOf(p)[k] + SumOver(SizesOf(p), D \ {k})
  BY <1>2, <1>3, <1>4, SumOverSplit
<1>6. \A j \in DOMAIN c : SizesOf(p)[j] = SizesOf(c)[j]
  BY <1>1, <1>3
<1>7. SumOver(SizesOf(p), DOMAIN c) = SumOver(SizesOf(c), DOMAIN c)
  BY <1>3, <1>4, <1>6, SumOverSame
<1>8. SumOver(SizesOf(c), DOMAIN c) \in Nat
  BY <1>3, <1>4, SumOverType
<1>9. C!BytesOf(p) = SumOver(SizesOf(p), D) /\ C!BytesOf(c) = SumOver(SizesOf(c), DOMAIN c)
  BY <1>1, BytesAre
<1>10. C!BytesOf(p) = C!BytesOf(c) + body.size
  <2>1. SizesOf(p)[k] = body.size
    BY <1>1, <1>3
  <2> QED BY <1>4, <1>5, <1>7, <1>8, <1>9, <2>1
<1>11. Sized(p)
  BY <1>1, <1>2 DEF Sized
<1> QED BY <1>10, <1>11 DEF p

\* A body was built from the store as it was between its stamp and now.
CacheSafe ==
  /\ cacheClock \in Nat
  /\ Sized(aggCache)
  /\ \A k \in DOMAIN aggCache :
       /\ aggCache[k].at \in Nat /\ aggCache[k].data \in Nat
       /\ aggCache[k].at <= aggCache[k].data /\ aggCache[k].data <= cacheClock
  /\ aggCacheBytes = C!BytesOf(aggCache) /\ aggCacheBytes <= maxCacheBytes
  /\ Cardinality(DOMAIN aggCache) <= maxCacheEntries
  /\ build # Nil =>
       /\ build.now \in Nat /\ build.data \in Nat /\ build.now <= cacheClock
       /\ build = [key |-> build.key, now |-> build.now, data |-> build.data]
       /\ build.data # 0 => build.now <= build.data /\ build.data <= cacheClock
  /\ C!ServedFresh

LEMMA CacheConstants ==
  /\ aggCacheTTL \in Nat /\ maxCacheEntries \in Nat \ {0} /\ maxCacheBytes \in Nat
  /\ BodySizes \subseteq Nat
BY PartsAssumption DEF C!CacheAssumption

LEMMA InitCache == C!Init => CacheSafe
<1> SUFFICES ASSUME C!Init PROVE CacheSafe
  OBVIOUS
<1>1. /\ aggCache = <<>> /\ aggCacheBytes = 0 /\ build = Nil /\ answer = Nil /\ cacheClock = 1
      /\ DOMAIN aggCache = {}
  BY DEF C!Init
<1>2. aggCache = [k \in DOMAIN aggCache |-> aggCache[k]]
  BY <1>1
<1>3. SumOver(SizesOf(aggCache), DOMAIN aggCache) = 0
  BY <1>1, SumOverEmpty
<1>4. C!BytesOf(aggCache) = 0
  BY <1>3, BytesAre
<1> QED BY <1>1, <1>2, <1>4, FS_EmptySet, CacheConstants DEF CacheSafe, Sized, C!ServedFresh

\* A body goes in for its key after others were evicted.
LEMMA InsertCache == ASSUME CacheSafe, NEW size \in BodySizes, C!Insert(size) PROVE CacheSafe'
<1> DEFINE k == build.key
           kept == C!Without(aggCache, k)
           body == [at |-> C!Stamp(build), data |-> build.data, size |-> size]
<1>1. PICK c \in C!Evicted(kept, size) :
        /\ aggCache' = C!Put(c, k, body)
        /\ aggCacheBytes' = aggCacheBytes - C!ReplacedBytes(k)
                            - (C!BytesOf(kept) - C!BytesOf(c)) + size
  BY DEF C!Insert
<1>2. /\ build # Nil /\ build.data # 0 /\ size <= maxCacheBytes /\ build' = Nil
      /\ UNCHANGED <<cacheClock, answer>>
  BY DEF C!Insert
<1>3. /\ size \in Nat /\ body.size = size /\ body.at = build.now /\ body.data = build.data
      /\ build.now \in Nat /\ build.data \in Nat
      /\ build.now <= build.data /\ build.data <= cacheClock /\ cacheClock \in Nat
  BY <1>2, CacheConstants DEF CacheSafe, C!Stamp
<1>4. /\ Sized(kept) /\ DOMAIN kept = DOMAIN aggCache \ {k}
      /\ C!BytesOf(kept) = SumOver(SizesOf(aggCache), DOMAIN aggCache \ {k})
      /\ C!BytesOf(kept) \in Nat
      /\ \A j \in DOMAIN kept : kept[j] = aggCache[j]
  BY BytesOfPart DEF CacheSafe, C!Without
<1>5. aggCacheBytes = C!ReplacedBytes(k) + C!BytesOf(kept) /\ C!ReplacedBytes(k) \in Nat
  <2>1. /\ IsFiniteSet(DOMAIN aggCache)
        /\ \A j \in DOMAIN aggCache : SizesOf(aggCache)[j] = aggCache[j].size
                                      /\ SizesOf(aggCache)[j] \in Nat
    BY DEF CacheSafe, Sized, SizesOf
  <2>2. aggCacheBytes = SumOver(SizesOf(aggCache), DOMAIN aggCache)
    BY BytesAre DEF CacheSafe
  <2>3. CASE k \in DOMAIN aggCache
    <3>1. aggCacheBytes = SizesOf(aggCache)[k] + SumOver(SizesOf(aggCache), DOMAIN aggCache \ {k})
      BY <2>1, <2>2, <2>3, SumOverSplit
    <3> QED BY <1>4, <2>1, <2>3, <3>1 DEF C!ReplacedBytes
  <2>4. CASE k \notin DOMAIN aggCache
    <3>1. DOMAIN aggCache \ {k} = DOMAIN aggCache
      BY <2>4
    <3> QED BY <1>4, <2>2, <2>4, <3>1 DEF C!ReplacedBytes
  <2> QED BY <2>3, <2>4
<1> HIDE DEF kept, body
<1>6. PICK K \in SUBSET DOMAIN kept : c = C!Restrict(kept, K) /\ ~C!Full(c, size)
  BY <1>1 DEF C!Evicted
<1>7. /\ Sized(c) /\ DOMAIN c = K /\ C!BytesOf(c) \in Nat
      /\ \A j \in K : c[j] = kept[j]
  BY <1>4, <1>6, BytesOfPart
<1>8. k \notin DOMAIN c /\ IsFiniteSet(DOMAIN c) /\ Cardinality(DOMAIN c) \in Nat
  BY <1>4, <1>7, FS_CardinalityType DEF Sized
<1>9. /\ C!BytesOf(aggCache') = C!BytesOf(c) + size /\ Sized(aggCache')
      /\ DOMAIN aggCache' = DOMAIN c \cup {k} /\ aggCache'[k] = body
      /\ \A j \in DOMAIN c : aggCache'[j] = c[j]
  <2>1. Sized(c) /\ k \notin DOMAIN c /\ body.size \in Nat
    BY <1>3, <1>7, <1>8
  <2>2. C!BytesOf(aggCache') = C!BytesOf(c) + body.size /\ Sized(aggCache')
    BY <1>1, <2>1, BytesOfPut
  <2>3. /\ DOMAIN aggCache' = DOMAIN c \cup {k} /\ aggCache'[k] = body
        /\ \A j \in DOMAIN c : aggCache'[j] = c[j]
    BY <1>1, <2>1 DEF C!Put
  <2> QED BY <1>3, <2>2, <2>3
<1>10. Cardinality(DOMAIN aggCache') = Cardinality(DOMAIN c) + 1
  BY <1>8, <1>9, FS_AddElement
<1>11. aggCacheBytes' = C!BytesOf(aggCache')
  BY <1>1, <1>3, <1>4, <1>5, <1>7, <1>9
<1>12. C!BytesOf(c) + size <= maxCacheBytes /\ Cardinality(DOMAIN c) + 1 <= maxCacheEntries
  <2>1. CASE DOMAIN c = {}
    <3>1. C!BytesOf(c) = 0 /\ Cardinality(DOMAIN c) = 0
      BY <2>1, BytesAre, SumOverEmpty, FS_EmptySet
    <3> QED BY <1>2, <1>3, <3>1, CacheConstants
  <2>2. CASE DOMAIN c # {}
    BY <1>3, <1>6, <1>7, <1>8, <2>2, CacheCard, CacheConstants DEF C!Full
  <2> QED BY <2>1, <2>2
<1>13. ASSUME NEW j \in DOMAIN aggCache'
       PROVE  /\ aggCache'[j].at \in Nat /\ aggCache'[j].data \in Nat
              /\ aggCache'[j].at <= aggCache'[j].data /\ aggCache'[j].data <= cacheClock
  <2>1. CASE j = k
    BY <1>3, <1>9, <2>1
  <2>2. CASE j # k
    <3>1. j \in DOMAIN aggCache /\ aggCache'[j] = aggCache[j]
      BY <1>4, <1>7, <1>9, <2>2
    <3> QED BY <3>1 DEF CacheSafe
  <2> QED BY <2>1, <2>2
<1> HIDE DEF k
<1>14. C!ServedFresh'
  BY <1>2 DEF CacheSafe, C!ServedFresh
<1> QED BY <1>2, <1>3, <1>9, <1>10, <1>11, <1>12, <1>13, <1>14 DEF CacheSafe

LEMMA NextCache == ASSUME CacheSafe, C!Next \/ UNCHANGED cacheVars PROVE CacheSafe'
<1>1. CASE C!Tick
  BY <1>1 DEF CacheSafe, C!Tick, C!ServedFresh
<1>2. ASSUME NEW k \in Requests, C!Hit(k) PROVE CacheSafe'
  <2>1. /\ k \in DOMAIN aggCache /\ cacheClock - aggCache[k].at < aggCacheTTL
        /\ answer' = cacheClock - aggCache[k].data
        /\ UNCHANGED <<cacheClock, aggCache, aggCacheBytes, build>>
    BY <1>2 DEF C!Hit, C!Fresh
  <2>2. answer' < aggCacheTTL
    BY <2>1, CacheConstants DEF CacheSafe
  <2> QED BY <2>1, <2>2 DEF CacheSafe, C!ServedFresh
<1>3. ASSUME NEW k \in Requests, C!Miss(k) PROVE CacheSafe'
  BY <1>3 DEF CacheSafe, C!Miss, C!ServedFresh
<1>4. CASE C!Snapshot
  <2>1. /\ build # Nil /\ build' = [build EXCEPT !.data = cacheClock]
        /\ UNCHANGED <<cacheClock, aggCache, aggCacheBytes, answer>>
    BY <1>4 DEF C!Snapshot
  <2>2. build' = [key |-> build.key, now |-> build.now, data |-> cacheClock]
    BY <2>1 DEF CacheSafe
  <2> QED BY <2>1, <2>2 DEF CacheSafe, C!ServedFresh
<1>5. CASE C!NotKept
  BY <1>5 DEF CacheSafe, C!NotKept, C!ServedFresh
<1>6. ASSUME NEW size \in BodySizes, C!Insert(size) PROVE CacheSafe'
  BY <1>6, InsertCache
<1>7. CASE UNCHANGED cacheVars
  BY <1>7 DEF cacheVars, CacheSafe, C!ServedFresh
<1> QED BY <1>1, <1>2, <1>3, <1>4, <1>5, <1>6, <1>7 DEF C!Next

-----------------------------------------------------------------------------
(* The names of addresses (Resolver).                                      *)

LEMMA NamesCard == \A S : N!Cardinality(S) = Cardinality(S)
BY DEF N!Cardinality, Cardinality

LEMMA NamesConstants ==
  maxPendingResolve \in Nat /\ maxResolveAttempts \in Nat \ {0} /\ PodIP # SvcIP
BY PartsAssumption DEF N!ResolverAssumption

Names == Pods \cup {"svc", ""}

\* A map from addresses: whatever list failed, the pod is of one workload.
RefsOK(f) ==
  /\ \A ip \in DOMAIN f : f[ip].name \in Names
  /\ PodIP \in DOMAIN f => f[PodIP].name \in Pods /\ f[PodIP].workload = <<"deployment">>

\* What an entry needs to be dropped for: its attempts, or both its names.
GivenUp(i) ==
  \/ passes[i] = maxResolveAttempts
  \/ \A e \in N!Ends : entry[i].name[e] # "" \/ <<i, e>> \in corrected

EntryStates == [stage : {"source", "destination", "track", "stored"}, name : [N!Ends -> Names]]

MapsSafe ==
  /\ running \in Pods \cup {Nil} /\ rsOwners \in BOOLEAN
  /\ RefsOK(m) /\ RefsOK(byIP)

\* The registry and its copy: what is still to be retried has not been dropped,
\* what was dropped has been dealt with, and only the last two states of the
\* refresh have a copy.
RegistrySafe ==
  /\ entry \in [Ids -> EntryStates] /\ passes \in [Ids -> 0 .. maxResolveAttempts]
  /\ pending = [i \in DOMAIN pending |-> pending[i]] /\ IsFiniteSet(DOMAIN pending)
  /\ Cardinality(DOMAIN pending) <= maxPendingResolve
  /\ DOMAIN pending \subseteq Ids
  /\ drop \subseteq DOMAIN pending /\ pend \subseteq DOMAIN pending \ drop
  /\ drop # {} => rpc \in {"retry", "drop"}
  /\ pend # {} => rpc = "retry"
  /\ \A i \in DOMAIN pending : entry[i].stage = "stored"
  /\ \A i \in Ids : entry[i].stage # "stored" => passes[i] = 0
  /\ \A i \in DOMAIN pending \ drop : pending[i] = passes[i] /\ passes[i] < maxResolveAttempts
  /\ \A i \in drop : GivenUp(i)
  /\ \A i \in Ids : entry[i].stage = "stored" /\ N!hasUnresolvedEntry(entry[i].name) =>
       i \in DOMAIN pending \cup refused \/ GivenUp(i)

NamesSafe == MapsSafe /\ RegistrySafe

LEMMA InitNames == N!Init => NamesSafe
<1> SUFFICES ASSUME N!Init PROVE NamesSafe
  OBVIOUS
<1>1. /\ DOMAIN byIP = {} /\ DOMAIN m = {} /\ DOMAIN pending = {} /\ pend = {} /\ drop = {}
      /\ pending = [i \in DOMAIN pending |-> pending[i]]
  BY DEF N!Init
<1>2. MapsSafe
  BY <1>1 DEF N!Init, MapsSafe, RefsOK
<1>3. entry \in [Ids -> EntryStates] /\ \A i \in Ids : entry[i].stage = "source"
  BY DEF N!Init, EntryStates, Names, N!Bare, N!Ends
<1>4. passes \in [Ids -> 0 .. maxResolveAttempts] /\ \A i \in Ids : passes[i] = 0
  BY NamesConstants DEF N!Init
<1> QED BY <1>1, <1>2, <1>3, <1>4, FS_EmptySet, NamesConstants DEF NamesSafe, RegistrySafe

\* The workload of a pod, from the lists or from its ReplicaSet's name.
LEMMA PodsNamed == ASSUME MapsSafe PROVE RefsOK(N!podRefs(rsOwners))
<1> DEFINE f == N!podRefs(rsOwners)
           known == IF running = Nil \/ OwnerOf[running].kind = "hostNetwork" THEN {} ELSE {PodIP}
<1>1. f = [ip \in known |-> [name |-> running, workload |-> N!workloadOf(running, rsOwners)]]
  BY DEF N!podRefs, N!ref
<1>2. ASSUME running # Nil PROVE running \in Pods /\ N!workloadOf(running, rsOwners) = <<"deployment">>
  <2>1. running \in Pods /\ rsOwners \in BOOLEAN
    BY <1>2 DEF MapsSafe
  <2>2. OwnerOf[running] = [kind |-> "ReplicaSet", name |-> <<"deployment", "hash">>]
    BY <2>1 DEF OwnerOf
  <2>3. Head(<<"deployment", "hash">>) = "deployment" /\ Len(<<"deployment", "hash">>) = 2
    OBVIOUS
  <2>4. SubSeq(<<"deployment", "hash">>, 1, 1) = <<"deployment">>
    <3> DEFINE s == <<"deployment", "hash">>
               t == SubSeq(s, 1, 1)
    <3>1. s \in Seq({"deployment", "hash"}) /\ Len(s) = 2 /\ s[1] = "deployment"
      OBVIOUS
    <3>2. t \in Seq({"deployment", "hash"}) /\ Len(t) = 1 /\ t[1] = s[1]
      <4> HIDE DEF s
      <4>1. 1 \in 1 .. Len(s) + 1 /\ 1 \in 1 - 1 .. Len(s) /\ 1 \in 1 .. 1 - 1 + 1
        BY <3>1
      <4> QED BY <3>1, <4>1, SubSeqProperties
    <3> HIDE DEF t
    <3>3. t = <<t[1]>>
      BY <3>2
    <3> QED BY <3>1, <3>2, <3>3 DEF t
  <2>5. CASE rsOwners = TRUE
    BY <2>1, <2>2, <2>3, <2>5 DEF N!workloadOf
  <2>6. CASE rsOwners = FALSE
    BY <2>1, <2>2, <2>3, <2>4, <2>6 DEF N!workloadOf
  <2> QED BY <2>1, <2>5, <2>6
<1>3. \A ip \in known : running # Nil /\ ip = PodIP
  OBVIOUS
<1> HIDE DEF f, known
<1>4. DOMAIN f = known /\ \A ip \in known : f[ip].name = running
                            /\ f[ip].workload = N!workloadOf(running, rsOwners)
  BY <1>1
<1>5. RefsOK(f)
  BY <1>2, <1>3, <1>4 DEF RefsOK, Names
<1> QED BY <1>5 DEF f

LEMMA ServicesNamed == ASSUME NEW f, RefsOK(f) PROVE RefsOK(N!svcRefs(f))
<1> DEFINE g == N!svcRefs(f)
<1>1. /\ DOMAIN g = DOMAIN f \cup {SvcIP}
      /\ \A ip \in DOMAIN f : g[ip] = f[ip]
      /\ \A ip \in DOMAIN g \ DOMAIN f : g[ip].name = "svc" /\ ip = SvcIP
  BY DEF N!svcRefs, N!ref
<1> HIDE DEF g
<1>2. RefsOK(g)
  BY <1>1, NamesConstants DEF RefsOK, Names
<1> QED BY <1>2 DEF g

LEMMA NextMaps == ASSUME MapsSafe, N!Next \/ UNCHANGED namesVars PROVE MapsSafe'
<1>1. ASSUME UNCHANGED <<running, rsOwners, m, byIP>> PROVE MapsSafe'
  BY <1>1 DEF MapsSafe, RefsOK
<1>2. CASE N!listReplicaSetOwners
  BY <1>2 DEF MapsSafe, RefsOK, N!listReplicaSetOwners, N!LeaveEntries
<1>3. CASE N!listPods
  <2>1. RefsOK(m)' /\ UNCHANGED <<running, byIP>> /\ rsOwners' = FALSE
    <3>1. m' = N!podRefs(rsOwners) \/ m' = m
      BY <1>3 DEF N!listPods
    <3>2. RefsOK(m')
      BY <3>1, PodsNamed DEF MapsSafe
    <3> QED BY <1>3, <3>2 DEF N!listPods, N!LeaveEntries, RefsOK
  <2> QED BY <2>1 DEF MapsSafe, RefsOK
<1>4. CASE N!listServices
  <2>1. RefsOK(m') /\ UNCHANGED <<running, byIP, rsOwners>>
    <3>1. m' = N!svcRefs(m) \/ m' = m
      BY <1>4 DEF N!listServices
    <3>2. RefsOK(m')
      BY <3>1, ServicesNamed DEF MapsSafe
    <3> QED BY <1>4, <3>2 DEF N!listServices, N!LeaveEntries
  <2> QED BY <2>1 DEF MapsSafe, RefsOK
<1>5. CASE N!setByIP
  BY <1>5 DEF MapsSafe, RefsOK, N!setByIP, N!LeaveEntries
<1>6. CASE N!PodMoves
  BY <1>6 DEF MapsSafe, RefsOK, N!PodMoves
<1>7. CASE N!retryCopy \/ (\E i \in Ids : N!retryOne(i)) \/ N!retryDrop
  BY <1>1, <1>7 DEF N!retryCopy, N!retryOne, N!retryDrop, N!LeaveEntries
<1>8. CASE \E i \in Ids : N!Ingest(i)
  BY <1>1, <1>8 DEF N!Ingest, N!enrich, N!trackPending
<1>9. CASE UNCHANGED namesVars
  BY <1>1, <1>9 DEF namesVars
<1> QED BY <1>2, <1>3, <1>4, <1>5, <1>6, <1>7, <1>8, <1>9 DEF N!Next, N!refresh

LEMMA EntryIs ==
  ASSUME RegistrySafe, NEW i \in Ids
  PROVE  /\ entry[i].stage \in {"source", "destination", "track", "stored"}
         /\ entry[i].name \in [N!Ends -> Names]
         /\ entry[i] = [stage |-> entry[i].stage, name |-> entry[i].name]
         /\ passes[i] \in 0 .. maxResolveAttempts
<1>1. entry[i] \in EntryStates /\ passes[i] \in 0 .. maxResolveAttempts
  BY DEF RegistrySafe
<1> QED BY <1>1 DEF EntryStates

\* While an entry is not stored nothing of it is in the registry; a step that
\* stores it says what becomes of it.
LEMMA EnrichKeeps ==
  ASSUME RegistrySafe, MapsSafe, NEW i \in Ids, NEW e \in N!Ends, N!enrich(i, e)
  PROVE  RegistrySafe'
<1> DEFINE named == [stage |-> IF e = "source" THEN "destination" ELSE "track",
                     name |-> [entry[i].name EXCEPT ![e] = N!enrichEndpoint(entry[i].name[e], AddressOf[i][e])]]
<1>1. /\ entry[i].stage = e /\ e \in {"source", "destination"} /\ UNCHANGED <<pend, drop, pending, corrected, passes, refused, rpc>>
  BY DEF N!enrich, N!Ends
<1>2. entry' = [entry EXCEPT ![i] = named]
  <2>1. /\ entry[i] = [stage |-> entry[i].stage, name |-> entry[i].name]
        /\ entry \in [Ids -> EntryStates]
    BY EntryIs DEF RegistrySafe
  <2> DEFINE s == IF e = "source" THEN "destination" ELSE "track"
             n == [entry[i].name EXCEPT ![e] = N!enrichEndpoint(entry[i].name[e], AddressOf[i][e])]
             once == [entry EXCEPT ![i] = [entry[i] EXCEPT !.name = n]]
  <2>2. entry' = [once EXCEPT ![i] = [once[i] EXCEPT !.stage = s]]
    BY DEF N!enrich
  <2>3. [entry[i] EXCEPT !.name = n] = [stage |-> entry[i].stage, name |-> n]
    <3> HIDE DEF n
    <3> QED BY <2>1
  <2> HIDE DEF s, n
  <2>4. once[i] = [stage |-> entry[i].stage, name |-> n]
    BY <2>1, <2>3
  <2>5. [once[i] EXCEPT !.stage = s] = [stage |-> s, name |-> n]
    BY <2>4
  <2>6. entry' = [entry EXCEPT ![i] = [stage |-> s, name |-> n]]
    BY <2>1, <2>2, <2>5
  <2> QED BY <2>6 DEF s, n
<1>3. N!enrichEndpoint(entry[i].name[e], AddressOf[i][e]) \in Names
  <2>1. entry[i].name[e] \in Names
    BY EntryIs
  <2>2. N!ipRef(AddressOf[i][e]) \in Names
    BY DEF N!ipRef, MapsSafe, RefsOK, Names
  <2> QED BY <2>1, <2>2 DEF N!enrichEndpoint
<1>4. named \in EntryStates /\ named.stage # "stored"
  BY <1>1, <1>3, EntryIs DEF EntryStates
<1> HIDE DEF named
<1>5. /\ entry' \in [Ids -> EntryStates] /\ entry'[i].stage # "stored"
      /\ \A j \in Ids \ {i} : entry'[j] = entry[j]
      /\ entry[i].stage # "stored"
  BY <1>1, <1>2, <1>4 DEF RegistrySafe
<1>6. i \notin DOMAIN pending /\ passes[i] = 0
  BY <1>5 DEF RegistrySafe
<1>7. \A j \in Ids \ {i} : GivenUp(j)' <=> GivenUp(j)
  BY <1>1, <1>5 DEF GivenUp
<1>8. \A j \in drop : GivenUp(j)'
  BY <1>6, <1>7 DEF RegistrySafe
<1>9. ASSUME NEW j \in Ids, entry'[j].stage = "stored", N!hasUnresolvedEntry(entry'[j].name)
      PROVE  j \in DOMAIN pending \cup refused \/ GivenUp(j)'
  BY <1>5, <1>7, <1>9 DEF RegistrySafe
<1>10. \A j \in DOMAIN pending : entry'[j].stage = "stored"
  BY <1>5, <1>6 DEF RegistrySafe
<1> QED BY <1>1, <1>5, <1>6, <1>8, <1>9, <1>10 DEF RegistrySafe

LEMMA TrackKeeps == ASSUME RegistrySafe, NEW i \in Ids, N!trackPending(i) PROVE RegistrySafe'
<1> DEFINE bare == N!hasUnresolvedEntry(entry[i].name)
           grown == [j \in DOMAIN pending \cup {i} |-> IF j \in DOMAIN pending THEN pending[j] ELSE 0]
           stored == [stage |-> "stored", name |-> entry[i].name]
<1>1. /\ entry[i].stage = "track" /\ UNCHANGED <<pend, drop, corrected, passes, rpc>>
      /\ IF bare /\ Cardinality(DOMAIN pending) < maxPendingResolve
           THEN pending' = grown ELSE pending' = pending
      /\ refused' = IF bare /\ Cardinality(DOMAIN pending) >= maxPendingResolve
                      THEN refused \cup {i} ELSE refused
  BY NamesCard DEF N!trackPending
<1>2. entry' = [entry EXCEPT ![i] = stored] /\ stored \in EntryStates
  <2>1. /\ entry[i] = [stage |-> entry[i].stage, name |-> entry[i].name]
        /\ entry[i].name \in [N!Ends -> Names]
    BY EntryIs
  <2>2. entry' = [entry EXCEPT ![i] = [entry[i] EXCEPT !.stage = "stored"]]
    BY DEF N!trackPending
  <2>3. [entry[i] EXCEPT !.stage = "stored"] = stored
    BY <2>1
  <2> QED BY <2>1, <2>2, <2>3 DEF EntryStates
<1>3. /\ entry' \in [Ids -> EntryStates] /\ entry'[i].stage = "stored"
      /\ \A j \in Ids : entry'[j].name = entry[j].name
      /\ \A j \in Ids \ {i} : entry'[j] = entry[j]
  BY <1>2 DEF RegistrySafe
<1>4. i \notin DOMAIN pending /\ passes[i] = 0 /\ i \notin drop
  BY <1>1 DEF RegistrySafe
<1>5. \A j \in Ids : GivenUp(j)' <=> GivenUp(j)
  BY <1>1, <1>3 DEF GivenUp
<1>6. Cardinality(DOMAIN pending) \in Nat /\ IsFiniteSet(DOMAIN pending)
  BY FS_CardinalityType DEF RegistrySafe
<1>7. /\ DOMAIN pending' = IF bare /\ Cardinality(DOMAIN pending) < maxPendingResolve
                             THEN DOMAIN pending \cup {i} ELSE DOMAIN pending
      /\ \A j \in DOMAIN pending : pending'[j] = pending[j]
      /\ i \in DOMAIN pending' => pending'[i] = 0
      /\ pending' = [j \in DOMAIN pending' |-> pending'[j]]
  BY <1>1, <1>4 DEF RegistrySafe
<1>8. /\ IsFiniteSet(DOMAIN pending') /\ Cardinality(DOMAIN pending') <= maxPendingResolve
      /\ DOMAIN pending' \subseteq Ids
  <2>1. CASE bare /\ Cardinality(DOMAIN pending) < maxPendingResolve
    <3>1. DOMAIN pending' = DOMAIN pending \cup {i}
      BY <1>7, <2>1
    <3>2. IsFiniteSet(DOMAIN pending \cup {i})
          /\ Cardinality(DOMAIN pending \cup {i}) = Cardinality(DOMAIN pending) + 1
      BY <1>4, <1>6, FS_AddElement
    <3> QED BY <1>6, <2>1, <3>1, <3>2, NamesConstants DEF RegistrySafe
  <2>2. CASE ~(bare /\ Cardinality(DOMAIN pending) < maxPendingResolve)
    BY <1>7, <2>2 DEF RegistrySafe
  <2> QED BY <2>1, <2>2
<1>9. bare => i \in DOMAIN pending' \cup refused'
  BY <1>1, <1>6, <1>7, NamesConstants
<1>10. ASSUME NEW j \in Ids, entry'[j].stage = "stored", N!hasUnresolvedEntry(entry'[j].name)
       PROVE  j \in DOMAIN pending' \cup refused' \/ GivenUp(j)'
  <2>1. CASE j = i
    BY <1>3, <1>9, <1>10, <2>1
  <2>2. CASE j # i
    <3>1. j \in DOMAIN pending \cup refused \/ GivenUp(j)
      BY <1>3, <1>10, <2>2 DEF RegistrySafe
    <3> QED BY <1>1, <1>5, <1>7, <3>1
  <2> QED BY <2>1, <2>2
<1> HIDE DEF bare, grown, stored
<1>11. /\ drop' \subseteq DOMAIN pending' /\ pend' \subseteq DOMAIN pending' \ drop'
       /\ drop' # {} => rpc' \in {"retry", "drop"}
       /\ pend' # {} => rpc' = "retry"
  BY <1>1, <1>7 DEF RegistrySafe
<1>12. \A j \in DOMAIN pending' : entry'[j].stage = "stored"
  BY <1>3, <1>7 DEF RegistrySafe
<1>13. \A j \in Ids : entry'[j].stage # "stored" => passes'[j] = 0
  BY <1>1, <1>3 DEF RegistrySafe
<1>14. \A j \in DOMAIN pending' \ drop' : pending'[j] = passes'[j] /\ passes'[j] < maxResolveAttempts
  BY <1>1, <1>4, <1>7, NamesConstants DEF RegistrySafe
<1>15. \A j \in drop' : GivenUp(j)'
  BY <1>1, <1>5 DEF RegistrySafe
<1>16. passes' \in [Ids -> 0 .. maxResolveAttempts]
  BY <1>1 DEF RegistrySafe
<1> QED BY <1>3, <1>7, <1>8, <1>10, <1>11, <1>12, <1>13, <1>14, <1>15, <1>16 DEF RegistrySafe

\* An attempt ends an entry's stay when it has both names or no attempt left.
LEMMA RetryKeeps == ASSUME RegistrySafe, NEW i \in Ids, N!retryOne(i) PROVE RegistrySafe'
<1> DEFINE new == {e \in N!Ends : entry[i].name[e] = "" /\ N!Retried(i)[e] # ""}
<1>1. /\ i \in pend /\ pend' = pend \ {i} /\ rpc = "retry"
      /\ rpc' = IF pend' = {} THEN "drop" ELSE "retry"
      /\ corrected' = corrected \cup ({i} \X new)
      /\ pending' = [pending EXCEPT ![i] = @ + N!Attempt(i)]
      /\ drop' = IF N!DropNow(i) THEN drop \cup {i} ELSE drop
      /\ passes' = [passes EXCEPT ![i] = IF @ < maxResolveAttempts THEN @ + 1 ELSE @]
      /\ UNCHANGED <<entry, refused>>
  BY DEF N!retryOne, N!LeaveEntries
<1>2. /\ i \in DOMAIN pending /\ i \notin drop /\ pending[i] = passes[i]
      /\ passes[i] < maxResolveAttempts /\ passes[i] \in Nat
  <2>1. i \in DOMAIN pending /\ i \notin drop
    BY <1>1 DEF RegistrySafe
  <2>2. i \in Ids /\ pending[i] = passes[i] /\ passes[i] < maxResolveAttempts
    BY <2>1 DEF RegistrySafe
  <2>3. passes[i] \in 0 .. maxResolveAttempts
    BY <2>2, EntryIs
  <2> QED BY <2>1, <2>2, <2>3
<1>3. passes' = [passes EXCEPT ![i] = passes[i] + 1]
  BY <1>1, <1>2
<1>4. /\ passes' \in [Ids -> 0 .. maxResolveAttempts] /\ passes'[i] = passes[i] + 1
      /\ \A j \in Ids \ {i} : passes'[j] = passes[j]
  <2>1. passes[i] + 1 \in 0 .. maxResolveAttempts
    BY <1>2, NamesConstants
  <2> QED BY <1>3, <2>1 DEF RegistrySafe
<1>5. /\ DOMAIN pending' = DOMAIN pending /\ pending' = [j \in DOMAIN pending' |-> pending'[j]]
      /\ pending'[i] = pending[i] + N!Attempt(i)
      /\ \A j \in DOMAIN pending \ {i} : pending'[j] = pending[j]
  BY <1>1, <1>2 DEF RegistrySafe
<1>6. \A j \in Ids : GivenUp(j) => GivenUp(j)'
  <2> SUFFICES ASSUME NEW j \in Ids, GivenUp(j) PROVE GivenUp(j)'
    OBVIOUS
  <2>1. corrected \subseteq corrected'
    BY <1>1
  <2>2. CASE passes[j] = maxResolveAttempts
    <3>1. j # i
      BY <1>2, <2>2, NamesConstants
    <3> QED BY <1>4, <2>2, <3>1 DEF GivenUp
  <2>3. CASE \A e \in N!Ends : entry[j].name[e] # "" \/ <<j, e>> \in corrected
    BY <1>1, <2>1, <2>3 DEF GivenUp
  <2> QED BY <2>2, <2>3 DEF GivenUp
<1>7. ASSUME N!DropNow(i) PROVE GivenUp(i)'
  <2>1. CASE N!hasUnresolvedEntry(N!Retried(i))
    <3>1. N!Attempt(i) = 1
      BY <2>1 DEF N!Attempt
    <3>2. passes[i] + 1 >= maxResolveAttempts
      <4>1. pending[i] + N!Attempt(i) >= maxResolveAttempts
        BY <1>7, <2>1 DEF N!DropNow
      <4> QED BY <1>2, <3>1, <4>1
    <3>3. passes'[i] = maxResolveAttempts
      BY <1>2, <1>4, <3>2, NamesConstants
    <3> QED BY <3>3 DEF GivenUp
  <2>2. CASE ~N!hasUnresolvedEntry(N!Retried(i))
    <3>1. \A e \in N!Ends : N!Retried(i)[e] # ""
      BY <2>2 DEF N!hasUnresolvedEntry
    <3>2. \A e \in N!Ends : entry[i].name[e] # "" \/ <<i, e>> \in corrected'
      BY <1>1, <3>1
    <3> QED BY <1>1, <3>2 DEF GivenUp
  <2> QED BY <2>1, <2>2
<1>8. ASSUME ~N!DropNow(i) PROVE pending'[i] = passes'[i] /\ passes'[i] < maxResolveAttempts
  <2>1. N!Attempt(i) = 1 /\ ~(pending[i] + 1 >= maxResolveAttempts)
    BY <1>8 DEF N!DropNow, N!Attempt
  <2> QED BY <1>2, <1>4, <1>5, <2>1, NamesConstants
<1> HIDE DEF new
<1>9. /\ drop' \subseteq DOMAIN pending' /\ pend' \subseteq DOMAIN pending' \ drop'
      /\ drop' # {} => rpc' \in {"retry", "drop"}
      /\ pend' # {} => rpc' = "retry"
  BY <1>1, <1>2, <1>5 DEF RegistrySafe
<1>10. \A j \in DOMAIN pending' \ drop' : pending'[j] = passes'[j] /\ passes'[j] < maxResolveAttempts
  BY <1>1, <1>4, <1>5, <1>8 DEF RegistrySafe
<1>11. \A j \in drop' : GivenUp(j)'
  <2> TAKE j \in drop'
  <2>1. j \in drop \/ (j = i /\ N!DropNow(i))
    BY <1>1
  <2>2. drop \subseteq Ids
    BY DEF RegistrySafe
  <2> QED BY <1>6, <1>7, <2>1, <2>2 DEF RegistrySafe
<1>12. \A j \in DOMAIN pending' : entry'[j].stage = "stored"
  BY <1>1, <1>5 DEF RegistrySafe
<1>13. \A j \in Ids : entry'[j].stage # "stored" => passes'[j] = 0
  <2>1. entry[i].stage = "stored"
    BY <1>2 DEF RegistrySafe
  <2> QED BY <1>1, <1>4, <2>1 DEF RegistrySafe
<1>14. ASSUME NEW j \in Ids, entry'[j].stage = "stored", N!hasUnresolvedEntry(entry'[j].name)
       PROVE  j \in DOMAIN pending' \cup refused' \/ GivenUp(j)'
  BY <1>1, <1>5, <1>6, <1>14 DEF RegistrySafe
<1>15. /\ entry' \in [Ids -> EntryStates] /\ IsFiniteSet(DOMAIN pending')
       /\ Cardinality(DOMAIN pending') <= maxPendingResolve /\ DOMAIN pending' \subseteq Ids
  BY <1>1, <1>5 DEF RegistrySafe
<1> QED BY <1>4, <1>5, <1>9, <1>10, <1>11, <1>12, <1>13, <1>14, <1>15 DEF RegistrySafe

LEMMA DropKeeps == ASSUME RegistrySafe, N!retryDrop PROVE RegistrySafe'
<1> DEFINE left == DOMAIN pending \ drop
<1>1. /\ rpc = "drop" /\ rpc' = "idle" /\ drop' = {}
      /\ pending' = N!Restrict(pending, left)
      /\ UNCHANGED <<pend, corrected, passes, entry, refused>>
  BY DEF N!retryDrop, N!LeaveEntries
<1>2. /\ DOMAIN pending' = left /\ pending' = [i \in DOMAIN pending' |-> pending'[i]]
      /\ \A i \in left : pending'[i] = pending[i]
  BY <1>1 DEF N!Restrict
<1>3. pend = {} /\ IsFiniteSet(DOMAIN pending)
  BY <1>1 DEF RegistrySafe
<1>4. /\ IsFiniteSet(left) /\ Cardinality(left) <= Cardinality(DOMAIN pending)
      /\ Cardinality(left) \in Nat /\ Cardinality(DOMAIN pending) \in Nat
  <2>1. left \subseteq DOMAIN pending
    OBVIOUS
  <2> HIDE DEF left
  <2> QED BY <1>3, <2>1, FS_Subset, FS_CardinalityType
<1>5. \A i \in Ids : GivenUp(i)' <=> GivenUp(i)
  BY <1>1 DEF GivenUp
<1>6. ASSUME NEW i \in Ids, entry'[i].stage = "stored", N!hasUnresolvedEntry(entry'[i].name)
      PROVE  i \in DOMAIN pending' \cup refused' \/ GivenUp(i)'
  <2>1. i \in DOMAIN pending \cup refused \/ GivenUp(i)
    BY <1>1, <1>6 DEF RegistrySafe
  <2>2. i \in drop => GivenUp(i)
    BY DEF RegistrySafe
  <2> QED BY <1>1, <1>2, <1>5, <2>1, <2>2
<1>7. Cardinality(DOMAIN pending') <= maxPendingResolve
  BY <1>2, <1>4, NamesConstants DEF RegistrySafe
<1> QED BY <1>1, <1>2, <1>3, <1>4, <1>6, <1>7 DEF RegistrySafe

LEMMA NextRegistry ==
  ASSUME RegistrySafe, MapsSafe, N!Next \/ UNCHANGED namesVars PROVE RegistrySafe'
<1>1. ASSUME UNCHANGED <<pend, drop, pending, corrected, passes, entry, refused>>,
             rpc \notin {"retry", "drop"} \/ rpc' = rpc
      PROVE  RegistrySafe'
  <2>1. \A i \in Ids : GivenUp(i)' <=> GivenUp(i)
    BY <1>1 DEF GivenUp
  <2>2. \A i \in drop : GivenUp(i)'
    BY <2>1 DEF RegistrySafe
  <2>3. \A i \in Ids : entry[i].stage = "stored" /\ N!hasUnresolvedEntry(entry[i].name) =>
          i \in DOMAIN pending \cup refused \/ GivenUp(i)'
    BY <2>1 DEF RegistrySafe
  <2> QED BY <1>1, <2>2, <2>3 DEF RegistrySafe
<1>2. CASE N!listReplicaSetOwners \/ N!listPods \/ N!listServices \/ N!setByIP
  BY <1>1, <1>2 DEF N!listReplicaSetOwners, N!listPods, N!listServices, N!setByIP,
                    N!LeaveRegistry, N!LeaveEntries
<1>3. CASE N!retryCopy
  <2>1. /\ rpc = "copy" /\ pend' = DOMAIN pending /\ UNCHANGED <<drop, pending, corrected, passes, entry, refused>>
        /\ rpc' = IF DOMAIN pending = {} THEN "idle" ELSE "retry"
    BY <1>3 DEF N!retryCopy, N!LeaveEntries
  <2>2. drop = {}
    BY <2>1 DEF RegistrySafe
  <2>3. \A i \in Ids : GivenUp(i)' <=> GivenUp(i)
    BY <2>1 DEF GivenUp
  <2>4. \A i \in Ids : entry[i].stage = "stored" /\ N!hasUnresolvedEntry(entry[i].name) =>
          i \in DOMAIN pending \cup refused \/ GivenUp(i)'
    BY <2>3 DEF RegistrySafe
  <2> QED BY <2>1, <2>2, <2>4 DEF RegistrySafe
<1>4. CASE \E i \in Ids : N!retryOne(i)
  BY <1>4, RetryKeeps
<1>5. CASE N!retryDrop
  BY <1>5, DropKeeps
<1>6. CASE N!PodMoves
  BY <1>1, <1>6 DEF N!PodMoves
<1>7. CASE \E i \in Ids : N!Ingest(i)
  BY <1>7, EnrichKeeps, TrackKeeps DEF N!Ingest
<1>8. CASE UNCHANGED namesVars
  BY <1>1, <1>8 DEF namesVars
<1> QED BY <1>2, <1>3, <1>4, <1>5, <1>6, <1>7, <1>8 DEF N!Next, N!refresh

\* What the two parts of the invariant say of the properties.
LEMMA NamesKept == NamesSafe => N!NoneForgotten /\ N!RegistryBounded /\ N!WorkloadStable
<1> SUFFICES ASSUME NamesSafe PROVE N!NoneForgotten /\ N!RegistryBounded /\ N!WorkloadStable
  OBVIOUS
<1>1. N!NoneForgotten
  BY DEF NamesSafe, RegistrySafe, N!NoneForgotten, GivenUp
<1>2. N!RegistryBounded
  BY NamesCard DEF NamesSafe, RegistrySafe, N!RegistryBounded
<1>3. ASSUME PodIP \in DOMAIN byIP
      PROVE  byIP[PodIP].workload = N!workloadOf(byIP[PodIP].name, TRUE)
  <2>1. byIP[PodIP].name \in Pods /\ byIP[PodIP].workload = <<"deployment">>
    BY <1>3 DEF NamesSafe, MapsSafe, RefsOK
  <2>2. OwnerOf[byIP[PodIP].name] = [kind |-> "ReplicaSet", name |-> <<"deployment", "hash">>]
    BY <2>1 DEF OwnerOf
  <2>3. Head(<<"deployment", "hash">>) = "deployment"
    OBVIOUS
  <2> QED BY <2>1, <2>2, <2>3 DEF N!workloadOf
<1> QED BY <1>1, <1>2, <1>3 DEF N!WorkloadStable

-----------------------------------------------------------------------------
(* Arithmetic of the buckets.                                              *)

LEMMA DivMod ==
  ASSUME NEW w \in Nat \ {0}, NEW a \in Nat
  PROVE  a % w \in 0 .. w - 1 /\ a \div w \in Int /\ a = (w * (a \div w)) + (a % w)
<1>1. a % w \in 0 .. w - 1
  OBVIOUS
<1>2. a \div w \in Int
  OBVIOUS
<1>3. a = (w * (a \div w)) + (a % w)
  OBVIOUS
<1> QED BY <1>1, <1>2, <1>3

\* Numbers of the same remainder are a whole divisor apart.
LEMMA SameRemainder ==
  ASSUME NEW w \in Nat \ {0}, NEW a \in Nat, NEW b \in Nat, a % w = b % w, a < b
  PROVE  a + w <= b
<1> DEFINE p == a \div w
           q == b \div w
<1>1. /\ p \in Int /\ q \in Int /\ a % w \in Int /\ a = (w * p) + (a % w) /\ b = (w * q) + (a % w)
  BY DivMod
<1> HIDE DEF p, q
<1>2. w * q - w * p = b - a /\ w * p \in Int /\ w * q \in Int
  <2> QED BY <1>1
<1>3. p < q
  <2>1. ASSUME NEW x \in Int, NEW y \in Int, x <= y PROVE w * x <= w * y
    BY <2>1
  <2> QED BY <1>1, <1>2, <2>1
<1>4. w * (p + 1) <= w * q
  <2>1. ASSUME NEW x \in Int, NEW y \in Int, x <= y PROVE w * x <= w * y
    BY <2>1
  <2> QED BY <1>1, <1>3, <2>1
<1>5. w * (p + 1) = w * p + w
  BY <1>1
<1> QED BY <1>2, <1>4, <1>5

-----------------------------------------------------------------------------
(* The rates (RateWindows).                                                *)

W == rateWindowSeconds

LEMMA RatesConstants ==
  W \in Nat \ {0} /\ liveRateSeconds \in 0 .. W /\ MaxSeconds \in Nat
BY PartsAssumption DEF R!RatesAssumption, W

\* The bucket of a second holds it or a later one, unless an entry was folded
\* in late; and if it holds it, it counts all of its entries.
Kept(s) ==
  LET b == rate[s % W] IN b.sec >= s /\ (b.sec = s => b.entries = added[s])

Buckets == 0 .. W - 1

RatesSafe ==
  /\ rateClock \in W .. W + MaxSeconds /\ late \in BOOLEAN
  /\ asked \in Nat /\ (asked # 0 => asked \in W .. rateClock)
  /\ adder \in [Adders -> Nat] /\ \A a \in Adders : adder[a] <= rateClock
  /\ rate \in [Buckets -> [sec : Nat, entries : Nat]] /\ added \in [R!Seconds -> Nat]
  /\ \A i \in Buckets :
       /\ rate[i].sec <= rateClock
       /\ rate[i].sec # 0 => /\ rate[i].sec % W = i /\ rate[i].entries <= added[rate[i].sec]
                             /\ added[rate[i].sec] > 0
  /\ \A s \in R!Seconds : added[s] > 0 => s <= rateClock
  /\ late = FALSE => \A s \in R!Seconds : added[s] > 0 => Kept(s)

LEMMA SecondsAre == R!Seconds = 1 .. W + MaxSeconds
BY DEF R!Seconds, R!Start, W

LEMMA InitRates == R!Init => RatesSafe
<1> SUFFICES ASSUME R!Init PROVE RatesSafe
  OBVIOUS
<1>1. rateClock \in W .. W + MaxSeconds /\ late = FALSE
  BY RatesConstants DEF R!Init, R!Start, W
<1>2. adder \in [Adders -> Nat] /\ \A a \in Adders : adder[a] <= rateClock
  BY RatesConstants DEF R!Init, R!Start, W
<1>3. /\ rate \in [Buckets -> [sec : Nat, entries : Nat]]
      /\ \A i \in Buckets : rate[i].sec = 0
  BY DEF R!Init, W, Buckets
<1>4. added \in [R!Seconds -> Nat] /\ \A s \in R!Seconds : added[s] = 0
  BY DEF R!Init
<1>5. \A i \in Buckets : rate[i].sec <= rateClock
  BY <1>1, <1>3, RatesConstants
<1>6. \A s \in R!Seconds : ~(added[s] > 0)
  BY <1>4
<1>7. late \in BOOLEAN /\ asked = 0
  BY <1>1 DEF R!Init
<1> QED BY <1>1, <1>2, <1>3, <1>4, <1>5, <1>6, <1>7 DEF RatesSafe

\* The fold: the entry's second takes its bucket or adds to it.
LEMMA FoldRates ==
  ASSUME RatesSafe, NEW a \in Adders, R!observeRate(a) PROVE RatesSafe'
<1> DEFINE sec == adder[a]
           i == sec % W
           b == rate[i]
           nb == [sec |-> sec, entries |-> IF b.sec = sec THEN b.entries + 1 ELSE 1]
<1>0. late \in BOOLEAN
  BY DEF RatesSafe
<1>1. /\ sec # 0 /\ rate' = [rate EXCEPT ![i] = nb]
      /\ added' = [added EXCEPT ![sec] = @ + 1]
      /\ late' = (late \/ rateClock - sec >= W)
      /\ adder' = [adder EXCEPT ![a] = 0] /\ rateClock' = rateClock /\ asked' = asked
  BY DEF R!observeRate, R!BucketOf, R!Folded, W
<1>2. /\ sec \in Nat /\ sec <= rateClock /\ rateClock \in Nat /\ W \in Nat \ {0}
      /\ sec \in R!Seconds /\ MaxSeconds \in Nat /\ R!Seconds \subseteq Nat
  BY <1>1, RatesConstants, SecondsAre DEF RatesSafe
<1>3. i \in Buckets
  BY <1>2, DivMod DEF Buckets
<1>4. b \in [sec : Nat, entries : Nat] /\ nb \in [sec : Nat, entries : Nat] /\ nb.sec = sec
  BY <1>2, <1>3 DEF RatesSafe
<1>5. ASSUME NEW s \in R!Seconds, s <= rateClock, s % W = i, rateClock - sec < W PROVE s <= sec
  BY <1>2, <1>5, SameRemainder
<1>6. ASSUME NEW x \in Nat, x % W = i, x <= rateClock, sec < x PROVE rateClock - sec >= W
  <2>1. sec + W <= x
    BY <1>2, <1>6, SameRemainder
  <2> QED BY <1>2, <1>6, <2>1
<1>7. /\ b.sec = sec => b.entries <= added[sec]
      /\ b.sec # 0 => b.sec % W = i
      /\ b.sec <= rateClock
  BY <1>1, <1>3 DEF RatesSafe
<1>8. added[sec] \in Nat /\ added'[sec] = added[sec] + 1 /\ added' \in [R!Seconds -> Nat]
      /\ \A s \in R!Seconds \ {sec} : added'[s] = added[s]
  BY <1>1, <1>2 DEF RatesSafe
<1> HIDE DEF sec
<1>9. nb.entries <= added'[sec] /\ rate' \in [Buckets -> [sec : Nat, entries : Nat]]
      /\ rate'[i] = nb /\ \A j \in Buckets \ {i} : rate'[j] = rate[j]
  BY <1>1, <1>3, <1>4, <1>7, <1>8 DEF RatesSafe
<1>10. ASSUME late' = FALSE PROVE nb.entries = added'[sec]
  <2>1. late = FALSE /\ ~(rateClock - sec >= W)
    BY <1>1, <1>0, <1>10
  <2>2. added[sec] > 0 => b.sec >= sec /\ (b.sec = sec => b.entries = added[sec])
    BY <1>2, <2>1 DEF RatesSafe, Kept
  <2>3. ~(b.sec > sec)
    BY <1>2, <1>4, <1>6, <1>7, <2>1
  <2>4. added[sec] > 0 => b.sec = sec /\ b.entries = added[sec]
    BY <1>2, <1>4, <2>2, <2>3
  <2>5. added[sec] = 0 => (b.sec = sec => b.entries = 0)
    BY <1>4, <1>7, <1>8
  <2> QED BY <1>4, <1>8, <2>4, <2>5
<1> HIDE DEF nb, b, i
<1>11. ASSUME late' = FALSE, NEW s \in R!Seconds, added'[s] > 0 PROVE Kept(s)'
  <2> DEFINE j == s % W
  <2>1. late = FALSE /\ ~(rateClock - sec >= W)
    BY <1>1, <1>0, <1>11
  <2>2. j \in Buckets
    BY <1>2, DivMod DEF Buckets
  <2>3. CASE s = sec
    <3>1. rate'[s % W] = nb /\ nb.sec = s /\ nb.entries = added'[s]
      BY <1>4, <1>9, <1>10, <1>11, <2>3 DEF i
    <3> QED BY <1>2, <2>3, <3>1 DEF Kept, W
  <2>4. CASE s # sec
    <3>1. added[s] > 0 /\ added'[s] = added[s] /\ s <= rateClock
      BY <1>8, <1>11, <2>4 DEF RatesSafe
    <3>2. CASE j = i
      <4>1. s <= sec
        BY <1>2, <1>5, <2>1, <3>1, <3>2
      <4> QED BY <1>2, <1>4, <1>9, <2>4, <3>2, <4>1 DEF Kept, W
    <3>3. CASE j # i
      <4>1. rate'[j] = rate[j] /\ Kept(s)
        BY <1>9, <2>1, <2>2, <3>1, <3>3 DEF RatesSafe
      <4> QED BY <3>1, <4>1 DEF Kept, W
    <3> QED BY <3>2, <3>3
  <2> QED BY <2>3, <2>4
<1>12. ASSUME NEW j \in Buckets
       PROVE  /\ rate'[j].sec <= rateClock
              /\ rate'[j].sec # 0 => /\ rate'[j].sec % W = j /\ rate'[j].entries <= added'[rate'[j].sec]
                                     /\ added'[rate'[j].sec] > 0
  <2>1. CASE j = i
    BY <1>2, <1>4, <1>8, <1>9, <2>1 DEF i
  <2>2. CASE j # i
    <3>1. /\ rate'[j] = rate[j] /\ rate[j] \in [sec : Nat, entries : Nat]
          /\ rate[j].sec <= rateClock
          /\ rate[j].sec # 0 => /\ rate[j].sec % W = j /\ rate[j].entries <= added[rate[j].sec]
                                /\ added[rate[j].sec] > 0
      BY <1>9, <2>2 DEF RatesSafe
    <3>2. rate[j].sec # 0 => rate[j].sec \in R!Seconds
      BY <1>2, <3>1, SecondsAre DEF RatesSafe
    <3>3. rate[j].sec # 0 => added[rate[j].sec] \in Nat /\ added[rate[j].sec] <= added'[rate[j].sec]
      BY <1>8, <3>2 DEF RatesSafe
    <3>4. rate[j].sec # 0 => rate[j].entries <= added'[rate[j].sec] /\ added'[rate[j].sec] > 0
      BY <1>8, <3>1, <3>2, <3>3
    <3> QED BY <3>1, <3>4
  <2> QED BY <2>1, <2>2
<1>13. \A s \in R!Seconds : added'[s] > 0 => s <= rateClock
  BY <1>2, <1>8 DEF RatesSafe
<1>14. adder' \in [Adders -> Nat] /\ \A c \in Adders : adder'[c] <= rateClock
  BY <1>1, <1>2 DEF RatesSafe
<1>15. /\ late' \in BOOLEAN /\ rateClock' \in W .. W + MaxSeconds
       /\ asked' \in Nat /\ (asked' # 0 => asked' \in W .. rateClock')
  BY <1>1 DEF RatesSafe
<1> QED
  BY <1>1, <1>8, <1>9, <1>11, <1>12, <1>13, <1>14, <1>15 DEF RatesSafe, Buckets, R!Seconds, R!Start, W

LEMMA NextRates == ASSUME RatesSafe, R!Next \/ UNCHANGED rateVars PROVE RatesSafe'
<1>1. CASE R!Tick
  <2>1. /\ rateClock' = rateClock + 1 /\ rateClock < W + MaxSeconds
        /\ UNCHANGED <<rate, adder, asked, added, late>>
    BY <1>1 DEF R!Tick, R!Start, W
  <2>2. rateClock' \in W .. W + MaxSeconds /\ rateClock <= rateClock' /\ rateClock \in Nat /\ rateClock' \in Nat
    BY <2>1, RatesConstants DEF RatesSafe
  <2>3. \A a \in Adders : adder[a] <= rateClock'
    BY <2>2 DEF RatesSafe
  <2>4. \A i \in Buckets : rate[i].sec <= rateClock'
    BY <2>2 DEF RatesSafe
  <2>5. \A s \in R!Seconds : added[s] > 0 => s <= rateClock'
    <3>1. R!Seconds \subseteq Nat
      BY SecondsAre
    <3> QED BY <2>2, <3>1 DEF RatesSafe
  <2>6. \A s \in R!Seconds : Kept(s)' <=> Kept(s)
    BY <2>1 DEF Kept, W
  <2>7. asked' \in Nat /\ (asked' # 0 => asked' \in W .. rateClock')
    BY <2>1, <2>2, RatesConstants DEF RatesSafe
  <2> QED BY <2>1, <2>2, <2>3, <2>4, <2>5, <2>6, <2>7 DEF RatesSafe, Buckets, R!Seconds, R!Start, W
<1>2. ASSUME NEW a \in Adders, R!ReadClock(a) PROVE RatesSafe'
  <2>1. PICK stamp \in rateClock - W .. rateClock + 1 :
          adder' = [adder EXCEPT ![a] = IF stamp > rateClock THEN rateClock ELSE stamp]
    BY <1>2 DEF R!ReadClock, W
  <2>2. UNCHANGED <<rateClock, rate, asked, added, late>>
    BY <1>2 DEF R!ReadClock
  <2>3. (IF stamp > rateClock THEN rateClock ELSE stamp) \in 0 .. rateClock
    BY RatesConstants DEF RatesSafe
  <2>4. adder' \in [Adders -> Nat] /\ \A c \in Adders : adder'[c] <= rateClock
    BY <2>1, <2>3, RatesConstants DEF RatesSafe
  <2>5. \A s \in R!Seconds : Kept(s)' <=> Kept(s)
    BY <2>2 DEF Kept, W
  <2> QED BY <2>2, <2>4, <2>5 DEF RatesSafe, Buckets, R!Seconds, R!Start, W
<1>3. CASE UNCHANGED rateVars
  <2>1. \A s \in R!Seconds : Kept(s)' <=> Kept(s)
    BY <1>3 DEF Kept, W, rateVars
  <2> QED BY <1>3, <2>1 DEF RatesSafe, Buckets, R!Seconds, R!Start, W, rateVars
<1>4. CASE R!StatsReadClock \/ R!StatsAnswer
  <2>1. UNCHANGED <<rateClock, rate, adder, added, late>>
    BY <1>4 DEF R!StatsReadClock, R!StatsAnswer
  <2>2. asked' \in Nat /\ (asked' # 0 => asked' \in W .. rateClock')
    BY <1>4, <2>1, RatesConstants DEF R!StatsReadClock, R!StatsAnswer, RatesSafe
  <2>3. \A s \in R!Seconds : Kept(s)' <=> Kept(s)
    BY <2>1 DEF Kept, W
  <2> QED BY <2>1, <2>2, <2>3 DEF RatesSafe, Buckets, R!Seconds, R!Start, W
<1> QED BY <1>1, <1>2, <1>3, <1>4, FoldRates DEF R!Next

-----------------------------------------------------------------------------
\* The sums behind a rate: over the buckets of the window, and over the seconds.
EntriesOf == [i \in Buckets |-> rate[i].entries]
BucketsOf(width) == {i \in Buckets : asked - rate[i].sec \in 0 .. width - 1}
SecondsOf(width) == R!Window(width)
LeftOf(width) == SecondsOf(width) \ R!Taken

LEMMA WindowIs ==
  ASSUME RatesSafe, NEW width \in Nat
  PROVE  R!windows(width, asked) = SumOver(EntriesOf, BucketsOf(width))
<1> DEFINE D == {i \in DOMAIN rate : asked - rate[i].sec >= 0 /\ asked - rate[i].sec < width}
           f == [i \in D |-> rate[i].entries]
<1>1. D = BucketsOf(width) /\ IsFiniteSet(D) /\ D \subseteq Buckets
  <2>1. rate \in [Buckets -> [sec : Nat, entries : Nat]] /\ asked \in Nat
    BY RatesConstants DEF RatesSafe
  <2>2. D = BucketsOf(width)
    BY <2>1 DEF BucketsOf
  <2>3. IsFiniteSet(Buckets) /\ D \subseteq Buckets
    BY <2>1, FS_Interval, RatesConstants DEF Buckets
  <2> QED BY <2>2, <2>3, FS_Subset
<1>2. R!windows(width, asked) = SumOver(f, DOMAIN f)
  BY DEF R!windows, R!SumFunction, R!SumFunctionOnSet, R!FoldFunctionOnSet,
         R!MapThenFoldSet, SumOver, MapThenSumSet, MapThenFoldSet
<1>3. DOMAIN f = D
  OBVIOUS
<1>4. \A i \in D : f[i] = EntriesOf[i] /\ EntriesOf[i] \in Nat
  BY <1>1 DEF EntriesOf, RatesSafe
<1> HIDE DEF D, f
<1>5. SumOver(f, D) = SumOver(EntriesOf, D)
  BY <1>1, <1>4, SumOverSame
<1> QED BY <1>1, <1>2, <1>3, <1>5

LEMMA CountIs == \A T : R!CountUpTo(T) = SumOver(added, T)
BY DEF R!CountUpTo, R!SumFunctionOnSet, R!FoldFunctionOnSet, R!MapThenFoldSet, SumOver,
       MapThenSumSet, MapThenFoldSet

\* A window a second wider has one second more, and at most one bucket.
LEMMA WiderWindow ==
  ASSUME RatesSafe, asked # 0, NEW width \in Nat, width < W
  PROVE  LET s == asked - width
             i == s % W
         IN /\ s \in R!Seconds /\ i \in Buckets
            /\ SecondsOf(width + 1) = SecondsOf(width) \cup {s} /\ s \notin SecondsOf(width)
            /\ rate[i].sec = s => BucketsOf(width + 1) = BucketsOf(width) \cup {i} /\ i \notin BucketsOf(width)
            /\ rate[i].sec # s => BucketsOf(width + 1) = BucketsOf(width)
<1> DEFINE s == asked - width
           i == s % W
<1>1. /\ W \in Nat \ {0} /\ MaxSeconds \in Nat /\ asked \in W .. W + MaxSeconds
      /\ asked \in Nat
      /\ R!Seconds = 1 .. W + MaxSeconds
  BY RatesConstants, SecondsAre DEF RatesSafe
<1>2. s \in R!Seconds /\ s \in Nat \ {0}
  BY <1>1
<1>3. i \in Buckets
  BY <1>1, <1>2, DivMod DEF Buckets
<1>4. ASSUME NEW x \in Int PROVE (asked - x \in 0 .. width + 1 - 1) <=> (asked - x \in 0 .. width - 1 \/ x = s)
  BY <1>1, <1>4
<1>5. ~(asked - s \in 0 .. width - 1)
  BY <1>1
<1> HIDE DEF s
<1>6. SecondsOf(width + 1) = SecondsOf(width) \cup {s} /\ s \notin SecondsOf(width)
  <2>1. R!Seconds \subseteq Int
    BY <1>1
  <2>2. \A x \in R!Seconds : x \in SecondsOf(width + 1) <=> (x \in SecondsOf(width) \/ x = s)
    BY <1>4, <2>1 DEF SecondsOf, R!Window
  <2>3. SecondsOf(width + 1) \subseteq R!Seconds /\ SecondsOf(width) \subseteq R!Seconds
    BY DEF SecondsOf, R!Window
  <2>4. s \notin SecondsOf(width)
    BY <1>5 DEF SecondsOf, R!Window
  <2> QED BY <1>2, <2>2, <2>3, <2>4
<1>7. ASSUME NEW j \in Buckets PROVE rate[j].sec \in Int /\ (rate[j].sec = s => j = i)
  BY <1>2 DEF RatesSafe
<1>8. \A j \in Buckets : j \in BucketsOf(width + 1) <=> (j \in BucketsOf(width) \/ rate[j].sec = s)
  BY <1>4, <1>7 DEF BucketsOf
<1>9. BucketsOf(width) \subseteq Buckets /\ BucketsOf(width + 1) \subseteq Buckets
  BY DEF BucketsOf
<1>10. rate[i].sec = s => i \notin BucketsOf(width)
  BY <1>5 DEF BucketsOf
<1> HIDE DEF i
<1>11. rate[i].sec = s => BucketsOf(width + 1) = BucketsOf(width) \cup {i}
  BY <1>3, <1>7, <1>8, <1>9
<1>12. rate[i].sec # s => BucketsOf(width + 1) = BucketsOf(width)
  BY <1>3, <1>7, <1>8, <1>9
<1> QED BY <1>2, <1>3, <1>6, <1>10, <1>11, <1>12 DEF s, i

\* By induction over the width, second by second.
LEMMA WindowsMatch ==
  ASSUME RatesSafe, asked # 0, NEW width \in 0 .. W
  PROVE  LET due == SumOver(added, SecondsOf(width))
             got == SumOver(EntriesOf, BucketsOf(width))
             left == SumOver(added, LeftOf(width))
         IN got <= due /\ (late = FALSE => got = left)
<1> DEFINE due(n) == SumOver(added, SecondsOf(n))
           got(n) == SumOver(EntriesOf, BucketsOf(n))
           left(n) == SumOver(added, LeftOf(n))
           T == {n \in Nat : n <= W => /\ due(n) \in Nat /\ got(n) \in Nat /\ got(n) <= due(n)
                                       /\ (late = FALSE => got(n) = left(n))}
<1>1. /\ IsFiniteSet(Buckets) /\ \A i \in Buckets : EntriesOf[i] \in Nat /\ EntriesOf[i] = rate[i].entries
      /\ IsFiniteSet(R!Seconds) /\ \A s \in R!Seconds : added[s] \in Nat
      /\ \A n : /\ BucketsOf(n) \in SUBSET Buckets /\ SecondsOf(n) \in SUBSET R!Seconds
                /\ LeftOf(n) \in SUBSET R!Seconds
      /\ W \in Nat
  <2>1. IsFiniteSet(Buckets) /\ IsFiniteSet(R!Seconds) /\ W \in Nat
    BY FS_Interval, RatesConstants, SecondsAre DEF Buckets
  <2>2. \A i \in Buckets : EntriesOf[i] \in Nat /\ EntriesOf[i] = rate[i].entries
    BY DEF EntriesOf, RatesSafe
  <2>3. \A n : /\ BucketsOf(n) \in SUBSET Buckets /\ SecondsOf(n) \in SUBSET R!Seconds
              /\ LeftOf(n) \in SUBSET R!Seconds
    BY DEF BucketsOf, SecondsOf, LeftOf, R!Window
  <2> QED BY <2>1, <2>2, <2>3 DEF RatesSafe
<1>2. \A n : IsFiniteSet(BucketsOf(n)) /\ IsFiniteSet(SecondsOf(n)) /\ IsFiniteSet(LeftOf(n))
  BY <1>1, FS_Subset
<1>3. \A n : due(n) \in Nat /\ got(n) \in Nat /\ left(n) \in Nat
  <2> TAKE n
  <2>1. due(n) \in Nat
    BY <1>1, <1>2, SumOverType
  <2>2. got(n) \in Nat
    BY <1>1, <1>2, SumOverType
  <2>3. left(n) \in Nat
    BY <1>1, <1>2, SumOverType
  <2> QED BY <2>1, <2>2, <2>3
<1>4. 0 \in T
  <2>1. BucketsOf(0) = {} /\ SecondsOf(0) = {} /\ LeftOf(0) = {}
    BY DEF BucketsOf, SecondsOf, LeftOf, R!Window
  <2>2. due(0) = 0 /\ got(0) = 0 /\ left(0) = 0
    BY <2>1, SumOverEmpty
  <2> HIDE DEF due, got, left
  <2> QED BY <2>2
<1>5. ASSUME NEW n \in Nat, n \in T PROVE n + 1 \in T
  <2> SUFFICES ASSUME n + 1 <= W PROVE got(n + 1) <= due(n + 1) /\ (late = FALSE => got(n + 1) = left(n + 1))
    <3>1. due(n + 1) \in Nat /\ got(n + 1) \in Nat /\ n + 1 \in Nat
      BY <1>3
    <3> HIDE DEF got, due, left
    <3> QED BY <3>1
  <2> DEFINE s == asked - n
             i == s % W
  <2>1. /\ s \in R!Seconds /\ i \in Buckets
        /\ SecondsOf(n + 1) = SecondsOf(n) \cup {s} /\ s \notin SecondsOf(n)
        /\ rate[i].sec = s => BucketsOf(n + 1) = BucketsOf(n) \cup {i} /\ i \notin BucketsOf(n)
        /\ rate[i].sec # s => BucketsOf(n + 1) = BucketsOf(n)
    <3>1. n < W
      BY <1>1
    <3> QED BY <3>1, WiderWindow
  <2>2. got(n) <= due(n) /\ (late = FALSE => got(n) = left(n))
    BY <1>1, <1>5
  <2>3. /\ rate[i].sec # 0 => /\ rate[i].entries <= added[rate[i].sec] /\ rate[i].sec % W = i
                            /\ added[rate[i].sec] > 0 /\ rate[i].sec \in R!Seconds
        /\ late = FALSE /\ added[s] > 0 => rate[i].sec >= s /\ (rate[i].sec = s => rate[i].entries = added[s])
        /\ rate[i].sec \in Nat /\ asked \in Nat /\ W \in Nat \ {0}
        /\ s \in Nat \ {0} /\ s + W > asked
    <3>1. rate[i].sec \in Nat /\ rate[i].sec <= rateClock /\ rateClock \in W .. W + MaxSeconds
      BY <2>1 DEF RatesSafe
    <3>2. rate[i].sec # 0 => rate[i].sec \in R!Seconds
      BY <3>1, SecondsAre, RatesConstants
    <3>3. late = FALSE /\ added[s] > 0 => rate[i].sec >= s /\ (rate[i].sec = s => rate[i].entries = added[s])
      BY <2>1 DEF RatesSafe, Kept
    <3>4. rate[i].sec # 0 => /\ rate[i].entries <= added[rate[i].sec] /\ rate[i].sec % W = i
                            /\ added[rate[i].sec] > 0
      BY <2>1 DEF RatesSafe
    <3>5. asked \in Nat /\ W \in Nat \ {0} /\ s \in Nat \ {0}
      BY <2>1, SecondsAre, RatesConstants DEF RatesSafe
    <3>6. s + W > asked
      BY <1>5, <3>5
    <3> QED BY <3>1, <3>2, <3>3, <3>4, <3>5, <3>6
  \* A second that a later one has taken from is not in its bucket, and one
  \* that is not in its bucket has been taken from.
  <2>4. late = FALSE /\ s \in R!Taken => rate[i].sec # s
    <3> SUFFICES ASSUME late = FALSE, s \in R!Taken PROVE rate[i].sec # s
      OBVIOUS
    <3>1. PICK t \in R!Seconds : t > asked /\ t % W = s % W /\ added[t] > 0
      BY DEF R!Taken, R!BucketOf, W
    <3>2. rate[i].sec >= t /\ t \in Nat
      BY <3>1, SecondsAre, RatesConstants DEF RatesSafe, Kept
    <3>3. s <= asked
      BY <1>5, <2>3
    <3> QED BY <2>3, <3>1, <3>2, <3>3
  <2>5. late = FALSE /\ added[s] > 0 /\ s \notin R!Taken => rate[i].sec = s /\ rate[i].entries = added[s]
    <3>1. ASSUME rate[i].sec > s PROVE s \in R!Taken
      <4>1. rate[i].sec \in R!Seconds /\ added[rate[i].sec] > 0 /\ rate[i].sec % W = s % W
        <5>1. i = s % W
          OBVIOUS
        <5> HIDE DEF s, i
        <5>2. rate[i].sec # 0
          BY <2>3, <3>1
        <5> QED BY <2>3, <5>1, <5>2
      <4>2. rate[i].sec > asked
        <5>1. s + W <= rate[i].sec
          BY <2>3, <3>1, <4>1, SameRemainder
        <5> QED BY <2>3, <5>1
      <4> QED BY <2>1, <4>1, <4>2 DEF R!Taken, R!BucketOf, W
    <3> HIDE DEF s, i
    <3>2. rate[i].sec > s \/ rate[i].sec = s \/ ~ (rate[i].sec >= s)
      BY <2>3
    <3> QED BY <2>3, <3>1, <3>2
  <2> HIDE DEF s, i
  <2>7. due(n + 1) = added[s] + due(n)
    <3>1. SecondsOf(n + 1) \ {s} = SecondsOf(n) /\ s \in SecondsOf(n + 1)
      BY <2>1
    <3>2. SumOver(added, SecondsOf(n + 1)) = added[s] + SumOver(added, SecondsOf(n + 1) \ {s})
      BY <1>1, <1>2, <3>1, SumOverSplit
    <3> QED BY <3>1, <3>2
  <2>8. got(n + 1) = (IF rate[i].sec = s THEN rate[i].entries ELSE 0) + got(n)
    <3>1. CASE rate[i].sec = s
      <4>1. BucketsOf(n + 1) \ {i} = BucketsOf(n) /\ i \in BucketsOf(n + 1)
        BY <2>1, <3>1
      <4>2. SumOver(EntriesOf, BucketsOf(n + 1)) = EntriesOf[i] + SumOver(EntriesOf, BucketsOf(n + 1) \ {i})
        BY <1>1, <1>2, <4>1, SumOverSplit
      <4> QED BY <1>1, <2>1, <3>1, <4>1, <4>2
    <3>2. CASE rate[i].sec # s
      <4>1. got(n + 1) = got(n) /\ got(n) \in Nat
        BY <1>3, <2>1, <3>2
      <4> HIDE DEF got
      <4> QED BY <3>2, <4>1
    <3> QED BY <3>1, <3>2
  <2>14. left(n + 1) = (IF s \in R!Taken THEN 0 ELSE added[s]) + left(n)
    <3>1. CASE s \in R!Taken
      <4>1. LeftOf(n + 1) = LeftOf(n)
        BY <2>1, <3>1 DEF LeftOf
      <4>2. left(n + 1) = left(n) /\ left(n) \in Nat
        BY <1>3, <4>1
      <4> HIDE DEF left
      <4> QED BY <3>1, <4>2
    <3>2. CASE s \notin R!Taken
      <4>1. LeftOf(n + 1) \ {s} = LeftOf(n) /\ s \in LeftOf(n + 1)
        BY <2>1, <3>2 DEF LeftOf
      <4>2. SumOver(added, LeftOf(n + 1)) = added[s] + SumOver(added, LeftOf(n + 1) \ {s})
        BY <1>1, <1>2, <4>1, SumOverSplit
      <4> QED BY <3>2, <4>1, <4>2
    <3> QED BY <3>1, <3>2
  <2>9. added[s] \in Nat /\ rate[i].entries \in Nat
    BY <1>1, <2>1
  <2>10. due(n) \in Nat /\ got(n) \in Nat /\ left(n) \in Nat
    BY <1>3
  <2> HIDE DEF due, got, left
  <2>11. (IF rate[i].sec = s THEN rate[i].entries ELSE 0) <= added[s]
    BY <2>3, <2>9
  <2>12. late = FALSE => (IF rate[i].sec = s THEN rate[i].entries ELSE 0)
                       = (IF s \in R!Taken THEN 0 ELSE added[s])
    <3> HIDE DEF due, got, left
    <3> QED BY <2>4, <2>5, <2>9, <2>11
  <2> DEFINE x == IF rate[i].sec = s THEN rate[i].entries ELSE 0
             y == IF s \in R!Taken THEN 0 ELSE added[s]
  <2>13. /\ x \in Nat /\ y \in Nat /\ x <= added[s] /\ (late = FALSE => x = y)
         /\ got(n + 1) = x + got(n) /\ left(n + 1) = y + left(n)
    BY <2>8, <2>9, <2>11, <2>12, <2>14
  <2> HIDE DEF x, y
  <2> QED BY <2>2, <2>7, <2>9, <2>10, <2>13
<1>6. Nat \subseteq T
  <2> HIDE DEF T
  <2> QED BY <1>4, <1>5, SetInduction
<1>7. width \in T /\ width <= W
  BY <1>6, RatesConstants
<1> QED BY <1>7

LEMMA RatesKept == RatesSafe => R!RatesAreExact
<1> SUFFICES ASSUME RatesSafe, asked # 0, NEW width \in {liveRateSeconds, W}
             PROVE  /\ R!windows(width, asked) <= R!CountUpTo(R!Window(width))
                    /\ late \/ R!windows(width, asked) = R!CountUpTo(R!Window(width) \ R!Taken)
  BY DEF R!RatesAreExact, W
<1> DEFINE due == SumOver(added, SecondsOf(width))
           got == SumOver(EntriesOf, BucketsOf(width))
           left == SumOver(added, LeftOf(width))
<1>1. width \in 0 .. W /\ width \in Nat
  BY RatesConstants
<1>2. got <= due /\ (late = FALSE => got = left)
  BY <1>1, WindowsMatch
<1>3. R!windows(width, asked) = got
  BY <1>1, WindowIs
<1>4. R!CountUpTo(R!Window(width)) = due /\ R!CountUpTo(R!Window(width) \ R!Taken) = left
  BY CountIs DEF SecondsOf, LeftOf
<1>5. late \in BOOLEAN
  BY DEF RatesSafe
<1> HIDE DEF due, got, left
<1> QED BY <1>2, <1>3, <1>4, <1>5

-----------------------------------------------------------------------------
(* The facets (Facets).                                                    *)

Watched == {"protocol", "dns.rcode"}

LEMMA FacetsCard == \A S : F!Cardinality(S) = Cardinality(S)
BY DEF F!Cardinality, Cardinality

\* A gate asks for fields of its own part only, and no getter of another part
\* reads them.
LEMMA GatesAre ==
  /\ F!Parts = {"requestHTTP", "responseHTTP", "requestDNS", "responseDNS", "requestRedis",
                "responseRedis", "requestPostgres", "responsePostgres", "requestMySQL",
                "responseMySQL", "requestMongo", "requestKafka", "L4"}
  /\ DOMAIN F!facetGates = {"requestHTTP", "requestDNS", "responseDNS", "requestRedis",
                "requestPostgres", "responsePostgres", "requestMySQL",
                "responseMySQL", "requestMongo", "requestKafka", "L4"}
BY DEF F!Parts, F!guardedGetter, F!facetGates

LEMMA GatesGuard ==
  \A g \in DOMAIN F!facetGates : F!facetGates[g] \subseteq F!guardedGetter[g] /\ g \in F!Parts
BY GatesAre DEF F!facetGates, F!guardedGetter

LEMMA GettersApart ==
  /\ \A p \in F!Parts : F!guardedGetter[p] \cap F!fieldGetter = {}
  /\ \A p, q \in F!Parts : p # q => F!guardedGetter[p] \cap F!guardedGetter[q] = {}
BY GatesAre DEF F!guardedGetter, F!fieldGetter

\* Skipping the gated fields of the parts that an entry does not have loses
\* nothing that it shows.
LEMMA GatesLoseNothing ==
  ASSUME NEW parts \in SUBSET F!Parts, NEW f \in F!Tracked, F!Shows(f, parts)
  PROVE  f \in F!newFacetIndex(parts)
<1> DEFINE gated == UNION {F!facetGates[g] : g \in DOMAIN F!facetGates}
<1>1. F!newFacetIndex(parts) =
        (F!Tracked \ gated) \cup
        UNION {F!facetGates[g] \cap F!Tracked : g \in DOMAIN F!facetGates \cap parts}
  BY DEF F!newFacetIndex
<1>2. CASE f \notin gated
  BY <1>1, <1>2
<1>3. ASSUME NEW g \in DOMAIN F!facetGates, f \in F!facetGates[g]
      PROVE  g \in parts
  <2>1. f \in F!guardedGetter[g] /\ g \in F!Parts
    BY <1>3, GatesGuard
  <2>2. PICK p \in parts : f \in F!guardedGetter[p]
    BY <2>1, GettersApart DEF F!Shows
  <2> QED BY <2>1, <2>2, GettersApart
<1>4. CASE f \in gated
  <2>1. PICK g \in DOMAIN F!facetGates : f \in F!facetGates[g]
    BY <1>4
  <2> QED BY <1>1, <1>3, <2>1
<1> QED BY <1>2, <1>4

LEMMA CatalogNumbers ==
  F!catalogNumbers \subseteq F!numericFieldGetter /\ F!numericFieldGetter \subseteq F!Getters
<1>1. F!catalogNumbers \subseteq F!numericFieldGetter
  BY DEF F!catalogNumbers, F!numericFieldGetter
<1>2. F!fieldGetter \subseteq F!Getters
      /\ \A p \in F!Parts : F!guardedGetter[p] \subseteq F!Getters
  BY DEF F!Getters
<1>3. F!guardedGetter["L4"] \cup F!guardedGetter["requestRedis"] \cup F!guardedGetter["responseMySQL"]
        \cup F!guardedGetter["responseHTTP"] \subseteq F!Getters
  BY <1>2, GatesAre
<1>4. F!numericFieldGetter \subseteq F!fieldGetter \cup
        F!guardedGetter["L4"] \cup F!guardedGetter["requestRedis"] \cup F!guardedGetter["responseMySQL"]
        \cup F!guardedGetter["responseHTTP"]
  BY DEF F!numericFieldGetter, F!fieldGetter, F!guardedGetter
<1> QED BY <1>1, <1>2, <1>3, <1>4

\* A table of counts.
Table(c) == /\ c = [v \in DOMAIN c |-> c[v]] /\ IsFiniteSet(DOMAIN c)
            /\ \A v \in DOMAIN c : c[v] \in Nat \ {0}

Fits(c) == Cardinality(DOMAIN c) <= facetTrackCap

\* c counts no more than d does.
NoMore(c, d) == DOMAIN c \subseteq DOMAIN d /\ \A v \in DOMAIN c : c[v] <= d[v]

LEMMA Bumped ==
  ASSUME NEW c, NEW v, Table(c)
  PROVE  /\ Table(F!Bump(c, v)) /\ DOMAIN F!Bump(c, v) = DOMAIN c \cup {v}
         /\ F!Bump(c, v)[v] = IF v \in DOMAIN c THEN c[v] + 1 ELSE 1
         /\ \A w \in DOMAIN c \ {v} : F!Bump(c, v)[w] = c[w]
<1> DEFINE b == F!Bump(c, v)
<1>1. /\ DOMAIN b = DOMAIN c \cup {v} /\ b = [w \in DOMAIN b |-> b[w]]
      /\ b[v] = IF v \in DOMAIN c THEN c[v] + 1 ELSE 1
      /\ \A w \in DOMAIN c \ {v} : b[w] = c[w]
  BY DEF F!Bump
<1> HIDE DEF b
<1>2. IsFiniteSet(DOMAIN b)
  BY <1>1, FS_AddElement DEF Table
<1>3. \A w \in DOMAIN b : b[w] \in Nat \ {0}
  BY <1>1 DEF Table
<1>4. Table(b)
  BY <1>1, <1>2, <1>3 DEF Table
<1> QED BY <1>1, <1>4 DEF b

LEMMA BumpKeeps ==
  ASSUME NEW c, NEW d, NEW v, Table(c), Table(d), NoMore(c, d)
  PROVE  NoMore(F!Bump(c, v), F!Bump(d, v)) /\ NoMore(c, F!Bump(d, v))
<1> DEFINE b == F!Bump(c, v)
           e == F!Bump(d, v)
<1>1. /\ DOMAIN b = DOMAIN c \cup {v} /\ DOMAIN e = DOMAIN d \cup {v}
      /\ b[v] = IF v \in DOMAIN c THEN c[v] + 1 ELSE 1
      /\ e[v] = IF v \in DOMAIN d THEN d[v] + 1 ELSE 1
      /\ \A w \in DOMAIN c \ {v} : b[w] = c[w]
      /\ \A w \in DOMAIN d \ {v} : e[w] = d[w]
  BY Bumped
<1>2. /\ \A w \in DOMAIN c : c[w] \in Nat /\ w \in DOMAIN d /\ c[w] <= d[w]
      /\ \A w \in DOMAIN d : d[w] \in Nat
  BY DEF Table, NoMore
<1> HIDE DEF b, e
<1>3. ASSUME NEW w \in DOMAIN b PROVE w \in DOMAIN e /\ b[w] <= e[w]
  BY <1>1, <1>2
<1>4. ASSUME NEW w \in DOMAIN c PROVE w \in DOMAIN e /\ c[w] <= e[w]
  BY <1>1, <1>2
<1>5. NoMore(b, e) /\ NoMore(c, e)
  BY <1>3, <1>4 DEF NoMore
<1> QED BY <1>5 DEF b, e

\* A full table gives one of its values up before it takes another.
LEMMA Incremented ==
  ASSUME NEW c, NEW v, Table(c), Fits(c), NEW r \in F!increment(c, v)
  PROVE  /\ Table(r) /\ Fits(r) /\ NoMore(r, F!Bump(c, v))
         /\ ~F!Full(c, v) => r = F!Bump(c, v)
<1>1. IsFiniteSet(DOMAIN c) /\ Cardinality(DOMAIN c) \in Nat /\ facetTrackCap \in Nat
  BY FS_CardinalityType, PartsAssumption DEF Table
<1>2. F!Full(c, v) <=> v \notin DOMAIN c /\ Cardinality(DOMAIN c) >= facetTrackCap
  BY FacetsCard DEF F!Full
<1>3. CASE ~F!Full(c, v)
  <2>1. r = F!Bump(c, v)
    BY <1>3 DEF F!increment
  <2>2. Table(r) /\ DOMAIN r = DOMAIN c \cup {v} /\ \A w \in DOMAIN r : r[w] \in Nat
    <3>1. Table(r) /\ DOMAIN r = DOMAIN c \cup {v}
      BY <2>1, Bumped
    <3> QED BY <3>1 DEF Table
  <2>3. Cardinality(DOMAIN c \cup {v}) <= facetTrackCap
    <3>1. CASE v \in DOMAIN c
      <4>1. DOMAIN c \cup {v} = DOMAIN c
        BY <3>1
      <4> QED BY <4>1 DEF Fits
    <3>2. CASE v \notin DOMAIN c
      <4>1. Cardinality(DOMAIN c \cup {v}) = Cardinality(DOMAIN c) + 1
        BY <1>1, <3>2, FS_AddElement
      <4> QED BY <1>1, <1>2, <1>3, <3>2, <4>1
    <3> QED BY <3>1, <3>2
  <2>4. NoMore(r, r)
    BY <2>2 DEF NoMore
  <2> QED BY <2>1, <2>2, <2>3, <2>4 DEF Fits
<1>4. CASE F!Full(c, v)
  <2>1. PICK k \in DOMAIN c : r = F!Bump(F!Restrict(c, DOMAIN c \ {k}), v)
    BY <1>4 DEF F!increment
  <2> DEFINE d == F!Restrict(c, DOMAIN c \ {k})
             K == DOMAIN c \ {k}
  <2>2. DOMAIN d = K /\ d = [w \in DOMAIN d |-> d[w]] /\ \A w \in K : d[w] = c[w]
    BY DEF F!Restrict
  <2>3. IsFiniteSet(K) /\ Cardinality(K) = Cardinality(DOMAIN c) - 1
    BY <1>1, FS_RemoveElement
  <2> HIDE DEF d, K
  <2>4. K \subseteq DOMAIN c /\ v \notin DOMAIN c
    BY <1>2, <1>4 DEF K
  <2>5. Table(d)
    BY <2>2, <2>3, <2>4 DEF Table
  <2>6. NoMore(d, c)
    <3>1. \A w \in DOMAIN c : c[w] \in Nat
      BY DEF Table
    <3> QED BY <2>2, <2>4, <3>1 DEF NoMore
  <2>7. NoMore(F!Bump(d, v), F!Bump(c, v))
    BY <2>5, <2>6, BumpKeeps
  <2>8. Table(F!Bump(d, v)) /\ DOMAIN F!Bump(d, v) = K \cup {v}
    BY <2>2, <2>5, Bumped
  <2>9. Cardinality(K \cup {v}) = Cardinality(K) + 1
    BY <2>3, <2>4, FS_AddElement
  <2>10. Fits(F!Bump(d, v))
    BY <1>1, <2>3, <2>8, <2>9 DEF Fits
  <2>11. r = F!Bump(d, v)
    BY <2>1 DEF d
  <2> QED BY <1>4, <2>7, <2>8, <2>10, <2>11
<1> QED BY <1>3, <1>4

FacetsSafe ==
  /\ last \subseteq F!Parts
  /\ counts = [f \in Watched |-> counts[f]] /\ seen = [f \in Watched |-> seen[f]]
  /\ \A f \in Watched :
       /\ Table(counts[f]) /\ Fits(counts[f]) /\ Table(seen[f]) /\ NoMore(counts[f], seen[f])
       /\ f \notin crowded => counts[f] = seen[f]

LEMMA InitFacets == F!Init => FacetsSafe
<1> SUFFICES ASSUME F!Init PROVE FacetsSafe
  OBVIOUS
<1>1. counts = [f \in Watched |-> <<>>] /\ seen = [f \in Watched |-> <<>>] /\ last = {}
  BY DEF F!Init, Watched
<1>2. Table(<<>>) /\ Fits(<<>>) /\ NoMore(<<>>, <<>>)
  <2>1. DOMAIN <<>> = {} /\ <<>> = [v \in DOMAIN <<>> |-> <<>>[v]]
    OBVIOUS
  <2> QED BY <2>1, FS_EmptySet, PartsAssumption DEF Table, Fits, NoMore
<1> QED BY <1>1, <1>2 DEF FacetsSafe

LEMMA ShapesAre == \A parts \in EntryShapes : parts \subseteq F!Parts
BY GatesAre DEF EntryShapes

LEMMA WatchedTracked == Watched \subseteq F!Tracked
<1>1. "protocol" \in F!fieldGetter /\ "dns.rcode" \in F!guardedGetter["responseDNS"]
  BY DEF F!fieldGetter, F!guardedGetter
<1>2. Watched \subseteq F!Getters
  BY <1>1, GatesAre DEF F!Getters, Watched
<1>3. Watched \cap F!catalogUntracked = {}
  BY DEF F!catalogUntracked, Watched
<1> QED BY <1>2, <1>3 DEF F!Tracked

LEMMA NextFacets == ASSUME FacetsSafe, F!Next \/ UNCHANGED facetVars PROVE FacetsSafe'
<1>1. ASSUME NEW parts \in EntryShapes, NEW v \in FacetValues, F!observe(parts, v) PROVE FacetsSafe'
  <2> DEFINE now == {f \in Watched \cap F!newFacetIndex(parts) : F!Shows(f, parts)}
  <2>1. /\ counts' = [f \in Watched |-> counts'[f]]
        /\ \A f \in Watched : counts'[f] \in IF f \in now THEN F!increment(counts[f], v) ELSE {counts[f]}
        /\ seen' = [f \in Watched |-> IF F!Shows(f, parts) THEN F!Bump(seen[f], v) ELSE seen[f]]
        /\ crowded' = crowded \cup {f \in now : F!Full(counts[f], v)}
        /\ last' = parts
    BY <1>1 DEF F!observe, Watched
  <2>2. parts \subseteq F!Parts
    BY ShapesAre
  <2>3. \A f \in Watched : f \in now <=> F!Shows(f, parts)
    BY <2>2, WatchedTracked, GatesLoseNothing
  <2> HIDE DEF now
  <2>4. ASSUME NEW f \in Watched
        PROVE  /\ Table(counts'[f]) /\ Fits(counts'[f]) /\ Table(seen'[f]) /\ NoMore(counts'[f], seen'[f])
               /\ f \notin crowded' => counts'[f] = seen'[f]
    <3> DEFINE c == counts[f]
               s == seen[f]
    <3>1. /\ Table(c) /\ Fits(c) /\ Table(s) /\ NoMore(c, s)
          /\ f \notin crowded => c = s
      BY DEF FacetsSafe
    <3>2. CASE f \in now
      <4> DEFINE r == counts'[f]
      <4>1. r \in F!increment(c, v) /\ seen'[f] = F!Bump(s, v)
        BY <2>1, <2>3, <3>2
      <4>2. f \notin crowded' => f \notin crowded /\ ~F!Full(c, v)
        BY <2>1, <3>2
      <4> HIDE DEF c, s, r
      <4>3. /\ Table(r) /\ Fits(r) /\ NoMore(r, F!Bump(c, v))
            /\ ~F!Full(c, v) => r = F!Bump(c, v)
        BY <3>1, <4>1, Incremented
      <4>4. NoMore(F!Bump(c, v), F!Bump(s, v)) /\ Table(F!Bump(s, v)) /\ Table(F!Bump(c, v))
        BY <3>1, Bumped, BumpKeeps
      <4>5. NoMore(r, F!Bump(s, v))
        <5>1. /\ \A w \in DOMAIN r : r[w] \in Nat
              /\ \A w \in DOMAIN F!Bump(c, v) : F!Bump(c, v)[w] \in Nat
              /\ \A w \in DOMAIN F!Bump(s, v) : F!Bump(s, v)[w] \in Nat
          BY <4>3, <4>4 DEF Table
        <5> QED BY <4>3, <4>4, <5>1 DEF NoMore
      <4>6. f \notin crowded' => r = F!Bump(s, v)
        BY <3>1, <4>2, <4>3
      <4> QED BY <4>1, <4>3, <4>4, <4>5, <4>6 DEF r
    <3>3. CASE f \notin now
      <4>1. counts'[f] = c /\ seen'[f] = s /\ (f \notin crowded' => f \notin crowded)
        BY <2>1, <2>3, <3>3
      <4> HIDE DEF c, s
      <4> QED BY <3>1, <4>1
    <3> QED BY <3>2, <3>3
  <2>5. seen' = [f \in Watched |-> seen'[f]]
    BY <2>1
  <2> QED BY <2>1, <2>2, <2>4, <2>5 DEF FacetsSafe
<1>2. CASE UNCHANGED facetVars
  BY <1>2 DEF FacetsSafe, facetVars
<1> QED BY <1>1, <1>2 DEF F!Next

LEMMA FacetsKept == FacetsSafe => F!GatesMatchGetters /\ F!CountsWithinBounds
<1> SUFFICES ASSUME FacetsSafe PROVE F!GatesMatchGetters /\ F!CountsWithinBounds
  OBVIOUS
<1>1. F!GatesMatchGetters
  BY GatesLoseNothing, CatalogNumbers DEF F!GatesMatchGetters, FacetsSafe
<1>2. F!CountsWithinBounds
  BY FacetsCard DEF F!CountsWithinBounds, FacetsSafe, Fits, NoMore, Watched
<1> QED BY <1>1, <1>2

-----------------------------------------------------------------------------
(* The theorems: each part's invariant holds whichever part runs.          *)

LEMMA PartsStep ==
  ASSUME PartsNext
  PROVE  /\ R!Next \/ UNCHANGED rateVars
         /\ N!Next \/ UNCHANGED namesVars
         /\ F!Next \/ UNCHANGED facetVars
         /\ C!Next \/ UNCHANGED cacheVars
BY DEF PartsNext

\* A rate is the number of the entries of its seconds, less those of the
\* seconds whose buckets were taken while stats waited for the lock, whatever
\* the adders and the clock do between the reading of the clock and the store's
\* lock, unless an add is a whole window late; and it is never above the number
\* (observeRate, store.go:189-211, stats, store.go:427-457, and windows,
\* store.go:482-507).
THEOREM RatesCorrect == PartsSpec => []RatesAreExact
<1>1. PartsInit => RatesSafe
  BY InitRates DEF PartsInit
<1>2. RatesSafe /\ [PartsNext]_partsVars => RatesSafe'
  <2>1. [PartsNext]_partsVars => R!Next \/ UNCHANGED rateVars
    BY PartsStep DEF partsVars
  <2> QED BY <2>1, NextRates
<1>3. RatesSafe => RatesAreExact
  BY RatesKept DEF RatesAreExact
<1> QED BY <1>1, <1>2, <1>3, PTL DEF PartsSpec

\* No entry with a bare endpoint is forgotten between the copy of the registry
\* and the drop, the registry keeps its bounds, and a failed list does not
\* rename a workload, for any entries, pods and failures (workloadOf,
\* k8s.go:311-329; trackPending and retryPending, k8s.go:457-541).
THEOREM NamesCorrect == PartsSpec => []NamesAreKept
<1>1. PartsInit => NamesSafe
  BY InitNames DEF PartsInit
<1>2. NamesSafe /\ [PartsNext]_partsVars => NamesSafe'
  <2>1. [PartsNext]_partsVars => N!Next \/ UNCHANGED namesVars
    BY PartsStep DEF partsVars
  <2> QED BY <2>1, NextMaps, NextRegistry DEF NamesSafe
<1>3. NamesSafe => NamesAreKept
  BY NamesKept DEF NamesAreKept
<1> QED BY <1>1, <1>2, <1>3, PTL DEF PartsSpec

\* Skipping the fields of the parts that an entry does not have loses nothing
\* that it shows; the counts are exact until a field meets its limit and never
\* too high after it, whichever value a full table gives up (increment,
\* facets.go:216-235; newFacetIndex and its gates, facets.go:261-391).
THEOREM FacetsCorrect == PartsSpec => []FacetsCountTheirFields
<1>1. PartsInit => FacetsSafe
  BY InitFacets DEF PartsInit
<1>2. FacetsSafe /\ [PartsNext]_partsVars => FacetsSafe'
  <2>1. [PartsNext]_partsVars => F!Next \/ UNCHANGED facetVars
    BY PartsStep DEF partsVars
  <2> QED BY <2>1, NextFacets
<1>3. FacetsSafe => FacetsCountTheirFields
  BY FacetsKept DEF FacetsCountTheirFields
<1> QED BY <1>1, <1>2, <1>3, PTL DEF PartsSpec

\* A cached answer shows the store as it was less than a time to live ago,
\* however far the clock moves while a build holds the lock; the account of
\* bytes is exact whatever is replaced and evicted, and the cache keeps both
\* its limits (cachedAgg, server.go:140-173).
THEOREM CacheCorrect == PartsSpec => []CacheServesFresh
<1>1. PartsInit => CacheSafe
  BY InitCache DEF PartsInit
<1>2. CacheSafe /\ [PartsNext]_partsVars => CacheSafe'
  <2>1. [PartsNext]_partsVars => C!Next \/ UNCHANGED cacheVars
    BY PartsStep DEF partsVars
  <2> QED BY <2>1, NextCache
<1>3. CacheSafe => CacheServesFresh
  BY CacheCard DEF CacheServesFresh, CacheSafe, C!CacheBounded
<1> QED BY <1>1, <1>2, <1>3, PTL DEF PartsSpec

-----------------------------------------------------------------------------
(* The timeline (Aggregates).                                              *)

\* The bucket width and the most buckets.
B == Bucket
Most == maxTimelineBuckets

LEMMA TimelineConstants == B \in Nat \ {0} /\ Most \in Nat \ {0} /\ Since \in Int /\ Until \in Int
BY PartsAssumption DEF G!AggregatesAssumption, B, Most

LEMMA DivModInt ==
  ASSUME NEW w \in Nat \ {0}, NEW a \in Int
  PROVE  a % w \in 0 .. w - 1 /\ a \div w \in Int /\ a = (w * (a \div w)) + (a % w)
<1>1. a % w \in 0 .. w - 1
  OBVIOUS
<1>2. a \div w \in Int
  OBVIOUS
<1>3. a = (w * (a \div w)) + (a % w)
  OBVIOUS
<1> QED BY <1>1, <1>2, <1>3

LEMMA LargerOf == ASSUME NEW a \in Int, NEW b \in Int PROVE G!Max({a, b}) = IF a >= b THEN a ELSE b
BY DEF G!Max

LEMMA SmallerOf == ASSUME NEW a \in Int, NEW b \in Int PROVE G!Min({a, b}) = IF a <= b THEN a ELSE b
BY DEF G!Min

Step(t) == (t - G!TimelineStart) \div B
Steps == G!Min({G!TimelineSize, Most})

\* Every instant of the range has a bucket, and the range begins later than
\* asked for only if all buckets are used.
LEMMA StepsFit ==
  /\ G!TimelineStart \in Int /\ Steps \in Nat \ {0}
  /\ \A t \in Int : t >= G!TimelineStart /\ t <= Until => Step(t) \in 0 .. Steps - 1
  /\ G!TimelineStart > G!Truncate(Since) => Steps = Most
<1> DEFINE from == G!Truncate(Since)
           q0 == (Until - from) \div B
           n == G!TimelineSize
           start == G!TimelineStart
<1>0. B \in Nat \ {0} /\ Most \in Nat \ {0} /\ Since \in Int /\ Until \in Int
  BY TimelineConstants
<1>1. from \in Int
  <2>1. Since % B \in Int
    BY <1>0, DivModInt
  <2> QED BY <1>0, <2>1 DEF G!Truncate, B
<1>2. q0 \in Int /\ (Until - from) % B \in 0 .. B - 1 /\ Until - from = B * q0 + ((Until - from) % B)
  <2>1. Until - from \in Int
    BY <1>0, <1>1
  <2> HIDE DEF from
  <2> QED BY <1>0, <2>1, DivModInt
<1>3. n = IF 1 >= q0 + 1 THEN 1 ELSE q0 + 1
  <2>1. n = G!Max({1, q0 + 1})
    BY DEF G!TimelineSize, B
  <2> HIDE DEF n, q0
  <2> QED BY <1>2, <2>1, LargerOf
<1>4. start = IF n <= Most THEN from ELSE from + (n - Most) * B
  BY DEF G!TimelineStart, Most, B
<1>5. Steps = IF n <= Most THEN n ELSE Most
  <2>1. n \in Int
    BY <1>2, <1>3
  <2>2. Steps = G!Min({n, Most})
    BY DEF Steps
  <2> HIDE DEF n
  <2> QED BY <1>0, <2>1, <2>2, SmallerOf
<1> HIDE DEF n, q0, from, start
<1>6. n \in Nat \ {0}
  BY <1>2, <1>3
<1>7. start \in Int /\ Steps \in Nat \ {0}
  <2>1. (n - Most) * B \in Int
    BY <1>0, <1>6
  <2> QED BY <1>0, <1>1, <1>4, <1>5, <1>6, <2>1
<1>8. B * n = B * q0 + B \/ Until < from
  <2>1. CASE q0 >= 0
    <3>1. n = q0 + 1
      BY <1>2, <1>3, <2>1
    <3>2. B * (q0 + 1) = B * q0 + B
      BY <1>0, <1>2
    <3> QED BY <3>1, <3>2
  <2>2. CASE ~ (q0 >= 0)
    <3>1. B * q0 <= B * (-1)
      <4>1. ASSUME NEW x \in Int, NEW y \in Int, x <= y PROVE B * x <= B * y
        BY <1>0, <4>1
      <4>2. q0 <= -1 /\ -1 \in Int
        BY <1>2, <2>2
      <4> QED BY <1>2, <4>1, <4>2
    <3>2. B * (-1) = -B /\ B * q0 \in Int
      BY <1>0, <1>2
    <3> QED BY <1>0, <1>1, <1>2, <3>1, <3>2
  <2> QED BY <2>1, <2>2
<1>9. start + B * Steps > Until \/ Until < from
  <2>1. CASE Until < from
    BY <2>1
  <2>2. CASE ~ (Until < from)
    <3>1. from + B * n > Until /\ B * n \in Int
      <4>1. B * n = B * q0 + B /\ B * q0 \in Int /\ B * n \in Int
        BY <1>0, <1>2, <1>6, <1>8, <2>2
      <4> QED BY <1>0, <1>1, <1>2, <4>1
    <3>2. CASE n <= Most
      BY <1>4, <1>5, <3>1, <3>2
    <3>3. CASE ~ (n <= Most)
      <4>1. start = from + (n - Most) * B /\ Steps = Most
        BY <1>4, <1>5, <3>3
      <4>2. (n - Most) * B + B * Most = B * n
        BY <1>0, <1>6
      <4>3. (n - Most) * B \in Int /\ B * Most \in Int
        BY <1>0, <1>6
      <4> QED BY <1>0, <1>1, <3>1, <4>1, <4>2, <4>3
    <3> QED BY <3>2, <3>3
  <2> QED BY <2>1, <2>2
<1>10. start >= from
  <2>1. CASE n <= Most
    BY <1>1, <1>4, <2>1
  <2>2. CASE ~ (n <= Most)
    <3>1. (n - Most) * B >= 0 /\ (n - Most) * B \in Int
      BY <1>0, <1>6, <2>2
    <3> QED BY <1>1, <1>4, <2>2, <3>1
  <2> QED BY <2>1, <2>2
<1>11. ASSUME NEW t \in Int, t >= start, t <= Until PROVE (t - start) \div B \in 0 .. Steps - 1
  <2> DEFINE d == t - start
             q == d \div B
             r == d % B
  <2>1. d \in Int /\ d >= 0
    BY <1>7, <1>11
  <2>2. q \in Int /\ r \in 0 .. B - 1 /\ d = B * q + r
    <3> HIDE DEF d
    <3> QED BY <1>0, <2>1, DivModInt
  <2>3. d < B * Steps /\ B * Steps \in Int
    <3>1. B * Steps \in Int
      BY <1>0, <1>7
    <3>2. ~ (Until < from)
      BY <1>0, <1>1, <1>7, <1>10, <1>11
    <3> QED BY <1>0, <1>7, <1>9, <1>11, <3>1, <3>2
  <2> HIDE DEF d, q, r
  <2>4. ASSUME NEW x \in Int, NEW y \in Int, x <= y PROVE B * x <= B * y
    BY <1>0, <2>4
  <2>5. q >= 0
    <3> SUFFICES ASSUME q <= -1 PROVE FALSE
      BY <2>2
    <3>1. B * q <= B * (-1) /\ B * (-1) = -B /\ B * q \in Int
      BY <1>0, <2>2, <2>4
    <3> QED BY <1>0, <2>1, <2>2, <3>1
  <2>6. q < Steps
    <3> SUFFICES ASSUME Steps <= q PROVE FALSE
      BY <1>7, <2>2
    <3>1. B * Steps <= B * q /\ B * q \in Int
      BY <1>0, <1>7, <2>2, <2>4
    <3> QED BY <1>0, <2>1, <2>2, <2>3, <3>1
  <2>7. q \in 0 .. Steps - 1
    BY <1>7, <2>2, <2>5, <2>6
  <2> QED BY <2>7 DEF q, d
<1>12. start > from => Steps = Most
  BY <1>1, <1>4, <1>5, <1>6, <1>0
<1> QED BY <1>7, <1>11, <1>12 DEF Step, start, from

\* What is in the parts of a finite set adds up.
LEMMA PartsAddUp ==
  ASSUME NEW S, IsFiniteSet(S), NEW k, NEW n \in Nat, \A x \in S : k[x] \in 0 .. n - 1,
         NEW g, \A i \in 0 .. n - 1 : g[i] = Cardinality({x \in S : k[x] = i})
  PROVE  SumOver(g, 0 .. n - 1) = Cardinality(S)
<1> DEFINE below(j) == {x \in S : k[x] \in 0 .. j - 1}
           at(j) == {x \in S : k[x] = j}
           U == {j \in Nat : j <= n => SumOver(g, 0 .. j - 1) = Cardinality(below(j))}
<1>1. \A j : IsFiniteSet(below(j)) /\ IsFiniteSet(at(j))
             /\ Cardinality(below(j)) \in Nat /\ Cardinality(at(j)) \in Nat
  BY FS_Subset, FS_CardinalityType
<1>2. 0 \in U
  <2>1. 0 .. 0 - 1 = {} /\ below(0) = {}
    OBVIOUS
  <2> HIDE DEF below
  <2> QED BY <2>1, SumOverEmpty, FS_EmptySet
<1>3. ASSUME NEW j \in Nat, j \in U PROVE j + 1 \in U
  <2> SUFFICES ASSUME j + 1 <= n PROVE SumOver(g, 0 .. j + 1 - 1) = Cardinality(below(j + 1))
    OBVIOUS
  <2>1. SumOver(g, 0 .. j - 1) = Cardinality(below(j))
    BY <1>3
  <2>2. 0 .. j + 1 - 1 = 0 .. j /\ (0 .. j) \ {j} = 0 .. j - 1 /\ j \in 0 .. j /\ j \in 0 .. n - 1
        /\ \A i \in 0 .. j : i \in 0 .. n - 1
    OBVIOUS
  <2>3. below(j + 1) = below(j) \cup at(j) /\ below(j) \cap at(j) = {}
    OBVIOUS
  <2>4. g[j] = Cardinality(at(j)) /\ \A i \in 0 .. j : g[i] = Cardinality(at(i))
    <3>1. \A i \in 0 .. n - 1 : g[i] = Cardinality(at(i))
      OBVIOUS
    <3> HIDE DEF at
    <3> QED BY <2>2, <3>1
  <2> HIDE DEF below, at, U
  <2>5. IsFiniteSet(0 .. j) /\ \A i \in 0 .. j : g[i] \in Nat
    BY <1>1, <2>4, FS_Interval
  <2>6. SumOver(g, 0 .. j) = g[j] + SumOver(g, (0 .. j) \ {j})
    BY <2>2, <2>5, SumOverSplit
  <2>7. Cardinality(below(j + 1)) = Cardinality(below(j)) + Cardinality(at(j))
    <3>1. Cardinality(below(j) \cup at(j))
            = Cardinality(below(j)) + Cardinality(at(j)) - Cardinality(below(j) \cap at(j))
      BY <1>1, FS_Union
    <3>2. Cardinality(below(j) \cap at(j)) = 0
      BY <2>3, FS_EmptySet
    <3>3. Cardinality(below(j)) \in Nat /\ Cardinality(at(j)) \in Nat
      BY <1>1
    <3>4. Cardinality(below(j + 1)) = Cardinality(below(j) \cup at(j))
      BY <2>3
    <3> QED BY <3>1, <3>2, <3>3, <3>4
  <2>8. SumOver(g, 0 .. j) = Cardinality(at(j)) + Cardinality(below(j))
    BY <2>1, <2>2, <2>4, <2>6
  <2>9. Cardinality(below(j)) \in Nat /\ Cardinality(at(j)) \in Nat
    BY <1>1
  <2>10. SumOver(g, 0 .. j) = Cardinality(below(j + 1))
    BY <2>7, <2>8, <2>9
  <2> QED BY <2>2, <2>10
<1> HIDE DEF U
<1>4. n \in U
  BY <1>2, <1>3, SetInduction
<1>5. below(n) = S
  OBVIOUS
<1> HIDE DEF below
<1> QED BY <1>4, <1>5 DEF U

LEMMA TrafficTimes == \A e \in Traffic : e.ts \in Int
<1>1. \A a, b, c, n, t : traffic(a, b, c, n, t).ts = t
  BY DEF traffic
<1>2. ASSUME NEW e \in Traffic
      PROVE  \E a, b, c, n : \E t \in Int : e = traffic(a, b, c, n, t)
  <2>1. 0 \in Int /\ 2 \in Int /\ 3 \in Int /\ 5 \in Int /\ 7 \in Int /\ 8 \in Int
    OBVIOUS
  <2> QED BY <2>1, Zenon DEF Traffic
<1> QED BY <1>1, <1>2

LEMMA TimelineKept ==
  ASSUME es \in Seq(Traffic)
  PROVE  G!TimelineComplete
<1> DEFINE S == DOMAIN es
           g == G!timeline(es)
           inRange == {i \in S : es[i].ts \in G!TimelineStart .. Until}
           k == [i \in inRange |-> Step(es[i].ts)]
<1>0. G!TimelineStart \in Int /\ Steps \in Nat \ {0} /\ Until \in Int
  BY StepsFit, TimelineConstants
<1>1. IsFiniteSet(S) /\ \A i \in S : es[i].ts \in Int
  <2>1. S = 1 .. Len(es) /\ Len(es) \in Nat
    OBVIOUS
  <2>2. \A i \in S : es[i] \in Traffic
    OBVIOUS
  <2>3. IsFiniteSet(S)
    BY <2>1, FS_Interval
  <2>4. \A i \in S : es[i].ts \in Int
    BY <2>2, TrafficTimes
  <2> QED BY <2>3, <2>4
<1>2. \A Q : G!Cardinality(Q) = Cardinality(Q)
  BY DEF G!Cardinality, Cardinality
<1>3. DOMAIN g = 0 .. Steps - 1
      /\ \A i \in 0 .. Steps - 1 :
           g[i] = Cardinality({j \in S : /\ es[j].ts >= G!TimelineStart /\ es[j].ts <= Until
                                         /\ Step(es[j].ts) = i})
  BY <1>2 DEF G!timeline, Steps, Most, Step, B, G!Positions
<1>4. G!Cardinality(G!Positions(es, LAMBDA e : e.ts \in G!TimelineStart .. Until)) = Cardinality(inRange)
  BY <1>2 DEF G!Positions
<1>5. G!MapThenSumSet(LAMBDA i : G!timeline(es)[i], DOMAIN G!timeline(es)) = SumOver(g, DOMAIN g)
  BY DEF G!MapThenSumSet, G!MapThenFoldSet, SumOver, MapThenSumSet, MapThenFoldSet
<1> HIDE DEF g, S
<1>6. \A i \in inRange : k[i] = Step(es[i].ts) /\ k[i] \in 0 .. Steps - 1
  BY <1>0, <1>1, StepsFit
<1>7. IsFiniteSet(inRange)
  BY <1>1, FS_Subset
<1>8. \A i \in 0 .. Steps - 1 : g[i] = Cardinality({x \in inRange : k[x] = i})
  <2> SUFFICES ASSUME NEW i \in 0 .. Steps - 1 PROVE g[i] = Cardinality({x \in inRange : k[x] = i})
    OBVIOUS
  <2>1. {x \in inRange : k[x] = i} = {j \in S : /\ es[j].ts >= G!TimelineStart /\ es[j].ts <= Until
                                            /\ Step(es[j].ts) = i}
    BY <1>0, <1>1, <1>6
  <2> HIDE DEF inRange, k
  <2> QED BY <1>3, <2>1
<1>9. SumOver(g, DOMAIN g) = Cardinality(inRange)
  <2> HIDE DEF k, inRange
  <2>1. ASSUME NEW parts, parts = Steps PROVE SumOver(g, 0 .. parts - 1) = Cardinality(inRange)
    <3>1. parts \in Nat /\ \A x \in inRange : k[x] \in 0 .. parts - 1
      BY <1>0, <1>6, <2>1
    <3>2. \A i \in 0 .. parts - 1 : g[i] = Cardinality({x \in inRange : k[x] = i})
      BY <1>8, <2>1
    <3>3. ASSUME NEW SS, SS = inRange, NEW kk, kk = k, NEW gg, gg = g
          PROVE  SumOver(gg, 0 .. parts - 1) = Cardinality(SS)
      <4>1. IsFiniteSet(SS) /\ (\A x \in SS : kk[x] \in 0 .. parts - 1)
            /\ \A i \in 0 .. parts - 1 : gg[i] = Cardinality({x \in SS : kk[x] = i})
        BY <1>7, <3>1, <3>2, <3>3
      <4> HIDE <3>3
      <4> QED BY <3>1, <4>1, PartsAddUp, SMT
    <3> QED BY <3>3
  <2> QED BY <1>3, <2>1
<1>10. G!TimelineStart > G!Truncate(Since) => G!Cardinality(DOMAIN g) = Most
  <2>1. Cardinality(0 .. Steps - 1) = Steps
    <3>1. 0 \in Int /\ Steps - 1 \in Int
      BY <1>0
    <3>2. Cardinality(0 .. Steps - 1) = IF 0 > Steps - 1 THEN 0 ELSE Steps - 1 - 0 + 1
      BY <3>1, FS_Interval
    <3> QED BY <1>0, <3>2
  <2> QED BY <1>2, <1>3, <2>1, StepsFit
<1> QED BY <1>4, <1>5, <1>9, <1>10 DEF G!TimelineComplete, g, Most

\* Every entry of the range that the timeline shows is in one bucket of it, and
\* only a timeline that uses all its buckets begins later than asked for, for
\* any range, bucket width and limit and any number of entries (timeline,
\* summary.go:165-196).
THEOREM TimelineCorrect == PartsSpec => [](part = "aggregates" => G!TimelineComplete)
<1> DEFINE Safe == es \in Seq(Traffic)
<1>1. PartsInit => Safe
  BY DEF PartsInit, G!Init
<1>2. Safe /\ [PartsNext]_partsVars => Safe'
  <2> SUFFICES ASSUME Safe, [PartsNext]_partsVars PROVE Safe'
    OBVIOUS
  <2>1. CASE UNCHANGED es
    BY <2>1
  <2>2. CASE G!Next
    <3>1. PICK e \in Traffic : es' = Append(es, e)
      BY <2>2 DEF G!Next, G!Add
    <3> QED BY <3>1, AppendProperties
  <2> QED BY <2>1, <2>2 DEF PartsNext, partsVars
<1>3. Safe => (part = "aggregates" => G!TimelineComplete)
  BY TimelineKept
<1> QED BY <1>1, <1>2, <1>3, PTL DEF PartsSpec
=============================================================================
