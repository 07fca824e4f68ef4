------------------------------ MODULE AggCache ------------------------------
(***************************************************************************)
(* The hub's cache of aggregate answers, Server.cachedAgg in               *)
(* internal/hub/server.go: bodies by request key, kept for aggCacheTTL,    *)
(* within a number of entries and of bytes.  A build runs with the cache's *)
(* lock held and takes time; the store moves on meanwhile.                 *)
(***************************************************************************)
EXTENDS Integers, FiniteSets, Functions

CONSTANTS
  Keys, Sizes,          \* requests, and the sizes of their bodies
  aggCacheTTL, maxEntries, maxBytes,
  MaxTime,              \* bound
  None

\* The cache holds an answer, and answers have lengths.
CacheAssumption ==
  /\ aggCacheTTL \in Nat /\ maxEntries \in Nat \ {0} /\ maxBytes \in Nat
  /\ Sizes \subseteq Nat

VARIABLES
  clock,
  aggCache, aggCacheBytes,
  build,   \* the request that holds the lock: [key, now, data], or None
  answer   \* the last answer from the cache: how old its data was, or None

vars == <<clock, aggCache, aggCacheBytes, build, answer>>

Init == clock = 1 /\ aggCache = <<>> /\ aggCacheBytes = 0 /\ build = None /\ answer = None

Tick == clock < MaxTime /\ clock' = clock + 1
        /\ UNCHANGED <<aggCache, aggCacheBytes, build, answer>>

Fresh(k) == k \in DOMAIN aggCache /\ clock - aggCache[k].at < aggCacheTTL

Hit(k) ==
  /\ build = None /\ Fresh(k)
  /\ answer' = clock - aggCache[k].data
  /\ UNCHANGED <<clock, aggCache, aggCacheBytes, build>>

Miss(k) ==
  /\ build = None /\ ~Fresh(k)
  /\ build' = [key |-> k, now |-> clock, data |-> 0]
  /\ UNCHANGED <<clock, aggCache, aggCacheBytes, answer>>

\* The build takes its snapshot of the store.
Snapshot ==
  /\ build # None /\ build.data = 0
  /\ build' = [build EXCEPT !.data = clock]
  /\ UNCHANGED <<clock, aggCache, aggCacheBytes, answer>>

\* An error, or a body larger than the cache: nothing is kept, nothing dropped.
NotKept ==
  /\ build # None /\ build' = None
  /\ UNCHANGED <<clock, aggCache, aggCacheBytes, answer>>

BytesOf(c) == SumFunction([k \in DOMAIN c |-> c[k].size])

Without(c, k) == Restrict(c, DOMAIN c \ {k})

Full(c, size) == DOMAIN c # {} /\ (Cardinality(DOMAIN c) >= maxEntries \/ BytesOf(c) + size > maxBytes)

\* The caches the eviction loop can end with, dropping keys in any order.
Evicted(c, size) ==
  {Restrict(c, K) : K \in {K \in SUBSET DOMAIN c :
     /\ ~Full(Restrict(c, K), size)
     /\ K = DOMAIN c \/ \E k \in DOMAIN c \ K : Full(Restrict(c, K \cup {k}), size)}}

\* Mutant of Stamp: when the build is done.
StampAfter(b) == clock

\* The time of a body: when its request came in, before the build.
Stamp(b) == b.now

\* The bytes of the body that is replaced.
ReplacedBytes(k) == IF k \in DOMAIN aggCache THEN aggCache[k].size ELSE 0

Put(c, k, body) == [j \in DOMAIN c \cup {k} |-> IF j = k THEN body ELSE c[j]]

\* The account follows the deletions, as in the code.
Insert(size) ==
  LET k == build.key
      kept == Without(aggCache, k)
  IN /\ build # None /\ build.data # 0 /\ size <= maxBytes
     /\ \E c \in Evicted(kept, size) :
          /\ aggCache' = Put(c, k, [at |-> Stamp(build), data |-> build.data, size |-> size])
          /\ aggCacheBytes' = aggCacheBytes - ReplacedBytes(k)
                              - (BytesOf(kept) - BytesOf(c)) + size
     /\ build' = None /\ UNCHANGED <<clock, answer>>

Next == \/ Tick \/ Snapshot \/ NotKept
        \/ \E k \in Keys : Hit(k) \/ Miss(k)
        \/ \E n \in Sizes : Insert(n)

Spec == Init /\ [][Next]_vars

-----------------------------------------------------------------------------
(* Properties.                                                             *)

\* The byte account is exact whatever was replaced and evicted, and the cache
\* keeps within both limits (server.go:156-170).
CacheBounded ==
  /\ aggCacheBytes = BytesOf(aggCache) /\ aggCacheBytes <= maxBytes
  /\ Cardinality(DOMAIN aggCache) <= maxEntries

\* A body served from the cache shows the store as it was less than
\* aggCacheTTL ago, however long its build took (server.go:145-150).
ServedFresh == answer = None \/ answer < aggCacheTTL
=============================================================================
