------------------------------- MODULE HubParts -------------------------------
(***************************************************************************)
(* What the hub keeps and computes from it: the ring and its refinement of *)
(* the abstract history (HubStore, HubStoreRefinement), the rates          *)
(* (RateWindows), the names of addresses (Resolver), the facet counts      *)
(* (Facets), the cache of aggregate answers (AggCache), and the summaries  *)
(* behind them (Aggregates).  A behaviour exercises one of them, so that   *)
(* their states add up instead of multiplying; MCHubStore adds the         *)
(* filters.                                                                *)
(***************************************************************************)
EXTENDS HubStoreRefinement

CONSTANTS
  rateWindowSeconds, liveRateSeconds, MaxEntries, MaxSeconds,
  Ids, Pods, PodIP, SvcIP, OtherIP, maxPendingResolve, maxResolveAttempts, MaxFaults,
  FacetValues, facetTrackCap, facetEvictSample,
  Requests, BodySizes, aggCacheTTL, maxCacheEntries, maxCacheBytes, MaxTime,
  Bucket, maxTimelineBuckets, Since, Until, SortLimit, SummaryLimit

VARIABLES
  part,  \* the part that runs
  rateClock, rate, adder, asked, added, late,
  running, byIP, rpc, rsOwners, m, pend, drop, pending, entry, corrected, passes,
  refused, faults,
  counts, seen, crowded, last,
  cacheClock, aggCache, aggCacheBytes, build, answer,
  es

-----------------------------------------------------------------------------
(* Inputs of the parts.                                                    *)

\* A pod of a Deployment; entries from it, to it and to the outside.
OwnerOf == [p \in Pods |-> [kind |-> "ReplicaSet", name |-> <<"deployment", "hash">>]]
AddressOf == [i \in Ids |->
  [source |-> IF i = 3 THEN SvcIP ELSE PodIP,
   destination |-> CASE i = 1 -> SvcIP [] i = 3 -> PodIP [] OTHER -> OtherIP]]

\* The parts of an entry that fields are read through: none, each one alone,
\* and combinations that real entries have.
EntryShapes ==
  {{}, {"requestDNS", "responseDNS", "L4"}, {"requestRedis", "L4"}} \cup
  {{p} : p \in {"requestHTTP", "responseHTTP", "requestDNS", "responseDNS", "requestRedis",
                "responseRedis", "requestPostgres", "responsePostgres", "requestMySQL",
                "responseMySQL", "requestMongo", "requestKafka", "L4"}}

\* Entries with and without names and errors, with a self-call, at both ends
\* of the time range and outside it.  Two pods of a workload a, one of which
\* another namespace has too, a Service b, and an address.
traffic(src, dst, status, ms, ts) ==
  [src |-> src, dst |-> dst, status |-> status, ms |-> ms, ts |-> ts]

end(ns, workload, name, ip) == [ns |-> ns, workload |-> workload, name |-> name, ip |-> ip]
podA == end("shop", "a", "a-1", "ip1")
podA2 == end("shop", "a", "a-2", "ip2")
otherA == end("test", "a", "a-1", "ip3")
serviceB == end("shop", "", "b", "ip4")
address == end("", "", "", "ip5")
nobody == end("", "", "", "")

Traffic ==
  {traffic(podA, serviceB, "", 1, 3), traffic(serviceB, podA2, "error", 2, 7),
   traffic(podA, podA2, "", 3, 5), traffic(nobody, serviceB, "", 2, 2),
   traffic(address, podA, "", 5, 8), traffic(podA2, serviceB, "error", 4, 8),
   traffic(otherA, serviceB, "", 1, 0)}

-----------------------------------------------------------------------------
(* The parts.                                                              *)

R == INSTANCE RateWindows WITH clock <- rateClock
N == INSTANCE Resolver WITH Owner <- OwnerOf, Address <- AddressOf, pc <- rpc, None <- Nil
F == INSTANCE Facets WITH Values <- FacetValues, Shapes <- EntryShapes,
       Watched <- {"protocol", "dns.rcode"}
C == INSTANCE AggCache WITH Keys <- Requests, Sizes <- BodySizes, clock <- cacheClock,
       maxEntries <- maxCacheEntries, maxBytes <- maxCacheBytes, None <- Nil
G == INSTANCE Aggregates WITH Limit <- SortLimit

ASSUME PartsAssumption ==
  /\ R!RatesAssumption /\ N!ResolverAssumption /\ C!CacheAssumption
  /\ facetTrackCap \in Nat /\ G!AggregatesAssumption

rateVars == <<rateClock, rate, adder, asked, added, late>>
namesVars == <<running, byIP, rpc, rsOwners, m, pend, drop, pending, entry, corrected,
               passes, refused, faults>>
facetVars == <<counts, seen, crowded, last>>
cacheVars == <<cacheClock, aggCache, aggCacheBytes, build, answer>>

PartsInit ==
  /\ part \in {"store", "rates", "names", "facets", "cache", "aggregates", "other"}
  /\ Init /\ R!Init /\ N!Init /\ F!Init /\ C!Init /\ G!Init
  /\ part = "names" \/ running = Nil

PartsNext ==
  /\ UNCHANGED part
  /\ \/ /\ part = "store" /\ Next
        /\ UNCHANGED <<rateVars, namesVars, facetVars, cacheVars, es>>
     \/ /\ part = "rates" /\ R!Next
        /\ UNCHANGED <<vars, namesVars, facetVars, cacheVars, es>>
     \/ /\ part = "names" /\ N!Next
        /\ UNCHANGED <<vars, rateVars, facetVars, cacheVars, es>>
     \/ /\ part = "facets" /\ F!Next
        /\ UNCHANGED <<vars, rateVars, namesVars, cacheVars, es>>
     \/ /\ part = "cache" /\ C!Next
        /\ UNCHANGED <<vars, rateVars, namesVars, facetVars, es>>
     \/ /\ part = "aggregates" /\ G!Next
        /\ UNCHANGED <<vars, rateVars, namesVars, facetVars, cacheVars>>

partsVars == <<part, vars, rateVars, namesVars, facetVars, cacheVars, es>>

PartsSpec == PartsInit /\ [][PartsNext]_partsVars

-----------------------------------------------------------------------------
(* Properties of the parts, each stated in its module; they are only       *)
(* evaluated where their part runs.                                        *)

\* The rates of the last second and minute are those of the entries added, but
\* for an add that is a whole window late and for seconds whose buckets are
\* taken while stats waits for the lock; see RateWindows (store.go:189-211,
\* 427-429, 482-507).
RatesAreExact == part = "rates" => R!RatesAreExact

\* No entry with a bare endpoint is forgotten by the registry, which keeps its
\* bounds, and a failed list does not rename a workload; see Resolver
\* (k8s.go:311-329, 457-541).
NamesAreKept ==
  part = "names" => N!NoneForgotten /\ N!RegistryBounded /\ N!WorkloadStable

\* Every field of the catalog is counted from the part of the entry its getter
\* reads, and the counts are bounded and never too high; see Facets
\* (facets.go:216-235, 261-391, filter.go:694-1057).
FacetsCountTheirFields ==
  part = "facets" => F!GatesMatchGetters /\ F!CountsWithinBounds

\* A cached answer is no older than its time to live, and the cache keeps its
\* bounds; see AggCache (server.go:140-173).
CacheServesFresh == part = "cache" => C!ServedFresh /\ C!CacheBounded

\* The summary, the service graph, the timeline, the sorted page and the diff
\* agree with the entries and with each other; see Aggregates (summary.go:50-196,
\* graph.go:53-106, sort.go:30-79, diff.go:58-195).
AggregatesAgree == part = "aggregates" =>
  G!SummaryMatchesGraph /\ G!FocusKeepsNode /\ G!RanksAreRight /\ G!TimelineComplete /\ G!DiffTellsChanges
=============================================================================
