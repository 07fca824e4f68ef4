----------------------------- MODULE Aggregates -----------------------------
(***************************************************************************)
(* What the hub computes over the entries it holds: the summary by         *)
(* workload (internal/hub/summary.go), the service graph (graph.go), the   *)
(* timeline (summary.go), the entries with the largest values (sort.go),   *)
(* and the MCP server's comparison of two time windows, which asks the hub *)
(* for a summary of each (internal/mcp/diff.go).                           *)
(*                                                                         *)
(* The state machine fills the buffer; the properties compare the views of *)
(* one buffer with each other and with definitions that do not say how     *)
(* they are computed.  A name is a sequence of its parts: <<"shop", "web">> *)
(* is shop/web and <<"web">> is web, of a workload, a pod, a service or an *)
(* address.                                                                *)
(***************************************************************************)
EXTENDS Integers, Sequences, FiniteSets, FiniteSetsExt, SequencesExt, TLC

CONSTANTS
  Traffic,             \* entries: [src, dst, status, ms, ts], whose ends are
                       \*   [ns, workload, name, ip], each "" if not known
  MaxEntries,          \* bound
  Bucket, maxTimelineBuckets,
  Since, Until,        \* the time range asked for
  Limit,               \* entries asked for by sort
  SummaryLimit         \* groups the MCP server asks for

\* A timeline has a step, and room for one.
AggregatesAssumption ==
  /\ Bucket \in Nat \ {0} /\ maxTimelineBuckets \in Nat \ {0}
  /\ Since \in Int /\ Until \in Int

VARIABLE es

Init == es = <<>>

Add == /\ Len(es) < MaxEntries
       /\ \E e \in Traffic : es' = Append(es, e)

Next == Add

Spec == Init /\ [][Next]_es

Positions(s, P(_)) == {i \in DOMAIN s : P(s[i])}
Sorted(s) == SortSeq(s, <)
Elapsed(s) == Sorted([i \in DOMAIN s |-> s[i].ms])

-----------------------------------------------------------------------------
(* Summary and graph.                                                      *)

\* Nearest rank, of a sorted sequence.
percentile(s, p) ==
  IF s = <<>> THEN 0
  ELSE LET rank == (Len(s) * p + 99) \div 100 IN s[Min({Max({rank, 1}), Len(s)})]

Unnamed == <<>>

\* The workload, else the name, else the address, with its namespace.
nodeLabel(ep) ==
  LET label == CASE ep.workload # "" -> ep.workload [] ep.workload = "" /\ ep.name # "" -> ep.name
                 [] OTHER -> ep.ip
  IN IF label = "" THEN Unnamed ELSE IF ep.ns = "" THEN <<label>> ELSE <<ep.ns, label>>

\* Mutant of focusMatches: a pod is only found by its workload.
focusMatchesLabel(ep, focus) == focus # Unnamed /\ focus \in {<<ep.workload>>, nodeLabel(ep)}

\* A focus may be any of the names of an end.
focusMatches(ep, focus) ==
  focus \in {<<ep.workload>>, <<ep.name>>, nodeLabel(ep)} \ {<<"">>, Unnamed}

endpointUnion(e) == {nodeLabel(e.src), nodeLabel(e.dst)} \ {Unnamed}

\* One row, of the entries it stands for.
Row(s) == [count |-> Len(s), errors |-> Cardinality(Positions(s, LAMBDA e : e.status = "error")),
           p95 |-> percentile(Elapsed(s), 95), max |-> percentile(Elapsed(s), 100)]

summarize(s) ==
  [key \in UNION {endpointUnion(s[i]) : i \in DOMAIN s} |->
     Row(SelectSeq(s, LAMBDA e : key \in endpointUnion(e)))]

EdgeOf(e) == <<nodeLabel(e.src), nodeLabel(e.dst)>>

\* The edges of the entries selected.
EdgesOf(s, P(_)) ==
  LET of == SelectSeq(s, P)
  IN [edge \in {EdgeOf(of[i]) : i \in DOMAIN of} |-> Row(SelectSeq(of, LAMBDA e : EdgeOf(e) = edge))]

AtFocus(e, focus) ==
  focus = Unnamed \/ focusMatches(e.src, focus) \/ focusMatches(e.dst, focus)

\* An entry with an unnamed end is left out; focus keeps the entries of a node.
serviceGraph(s, focus) ==
  EdgesOf(s, LAMBDA e : Unnamed \notin {nodeLabel(e.src), nodeLabel(e.dst)} /\ AtFocus(e, focus))

-----------------------------------------------------------------------------
(* Timeline: fixed buckets from the one that holds `since`, the oldest cut *)
(* off when there are too many.                                            *)

Truncate(t) == t - (t % Bucket)

TimelineSize == Max({1, (Until - Truncate(Since)) \div Bucket + 1})

TimelineStart ==
  IF TimelineSize <= maxTimelineBuckets THEN Truncate(Since)
  ELSE Truncate(Since) + (TimelineSize - maxTimelineBuckets) * Bucket

timeline(s) ==
  [i \in 0 .. Min({TimelineSize, maxTimelineBuckets}) - 1 |->
     Cardinality(Positions(s, LAMBDA e : /\ e.ts >= TimelineStart /\ e.ts <= Until
                                         /\ (e.ts - TimelineStart) \div Bucket = i))]

-----------------------------------------------------------------------------
(* The largest values: a heap of at most `limit` with its worst at the     *)
(* root (container/heap, external), emptied from the worst up.             *)

Worst(h, desc) == IF desc THEN Min(ToSet(h)) ELSE Max(ToSet(h))

Better(desc, v, w) == IF desc THEN v > w ELSE v < w

Replaced(h, w, v) == LET i == CHOOSE i \in DOMAIN h : h[i] = w IN [h EXCEPT ![i] = v]

topNBySort(s, desc, limit) ==
  LET Keep(h, e) ==
        IF Len(h) < limit THEN Append(h, e.ms)
        ELSE IF Better(desc, e.ms, Worst(h, desc)) THEN Replaced(h, Worst(h, desc), e.ms)
        ELSE h
  IN SortSeq(FoldLeft(Keep, <<>>, s), LAMBDA v, w : Better(desc, v, w))

-----------------------------------------------------------------------------
(* Comparison of two windows.                                              *)

\* The rows /api/summary returns, busiest first and cut off at a limit.
Busier(g, j, k) == g[j].count > g[k].count \/ (g[j].count = g[k].count /\ g[j].errors > g[k].errors)

Returned(s, limit) ==
  LET g == summarize(s)
      kept == {k \in DOMAIN g : Cardinality({j \in DOMAIN g : Busier(g, j, k)}) < limit}
  IN [k \in kept |-> g[k]]

fetchSummary(s) == Returned(s, SummaryLimit)

CountOf(g, k) == IF k \in DOMAIN g THEN g[k].count ELSE 0

diffTraffic(b, c) ==
  [k \in DOMAIN b \cup DOMAIN c |->
     [delta |-> CountOf(c, k) - CountOf(b, k),
      status |-> CASE k \notin DOMAIN b -> "appeared"
                   [] k \in DOMAIN b /\ k \notin DOMAIN c -> "disappeared"
                   [] OTHER -> "changed"]]

-----------------------------------------------------------------------------
(* Properties.                                                             *)

\* The summary and the graph count the same traffic: a workload's row counts
\* the entries of the edges at it, a call to itself once, when every end has
\* a name (graph.go:47-106, summary.go:88-145).
SummaryMatchesGraph ==
  LET g == serviceGraph(es, Unnamed)
      sum == summarize(es)
      named == SelectSeq(es, LAMBDA e : Unnamed \notin {nodeLabel(e.src), nodeLabel(e.dst)})
      At(k) == {edge \in DOMAIN g : k \in {edge[1], edge[2]}}
  IN /\ \A edge \in DOMAIN g : Unnamed \notin {edge[1], edge[2]}
     /\ \A k \in DOMAIN summarize(named) :
          /\ summarize(named)[k].count = MapThenSumSet(LAMBDA edge : g[edge].count, At(k))
          /\ summarize(named)[k].max = Max({g[edge].max : edge \in At(k)})
     /\ \A k \in DOMAIN sum : sum[k].p95 <= sum[k].max

\* "Who calls X, and what does X call": under each of the names of X its edges
\* are there, and with no more traffic than they have; a label with its
\* namespace, which no workload or pod is called, selects all the edges at its
\* node and changes none.  Under the name of one pod an edge keeps the traffic
\* of that pod, so the pods of a workload, and its entries without a pod, share
\* its edges out (focusMatches and serviceGraph, graph.go:39-67).
FocusKeepsNode ==
  LET g == serviceGraph(es, Unnamed)
      at(focus) == serviceGraph(es, focus)
      CountIn(h, edge) == IF edge \in DOMAIN h THEN h[edge].count ELSE 0
      ends == {es[i].src : i \in DOMAIN es} \cup {es[i].dst : i \in DOMAIN es}
      names(ep) == {<<ep.workload>>, <<ep.name>>, nodeLabel(ep)} \ {<<"">>, Unnamed}
      PodsAt(k) == {<<ep.name>> : ep \in {ep \in ends : nodeLabel(ep) = k}}
  IN \A ep \in ends :
       LET k == nodeLabel(ep)
           edges == {edge \in DOMAIN g : k \in {edge[1], edge[2]}}
       IN /\ \A focus \in names(ep) : \A edge \in DOMAIN at(focus) :
               edge \in DOMAIN g /\ at(focus)[edge].count <= g[edge].count
          /\ Len(k) = 2 => at(k) = [edge \in edges |-> g[edge]]
          /\ ep.workload # "" => \A edge \in edges : CountIn(at(<<ep.workload>>), edge) = g[edge].count
          /\ (\A pod \in PodsAt(k) : pod # <<"">>) => \A edge \in edges :
               g[edge].count <= MapThenSumSet(LAMBDA pod : CountIn(at(pod), edge), PodsAt(k))

\* The p-th percentile is the least value that p% of the values do not
\* exceed, and the entries sorted for are the best ones in order, whatever
\* order they came in (summary.go:148-160, sort.go:30-51).
RanksAreRight ==
  /\ \A p \in {50, 95, 100} :
       es # <<>> => percentile(Elapsed(es), p) =
         Min({v \in ToSet(Elapsed(es)) :
                100 * Cardinality(Positions(es, LAMBDA e : e.ms <= v)) >= p * Len(es)})
  /\ \A desc \in BOOLEAN :
       LET all == SortSeq([i \in DOMAIN es |-> es[i].ms], LAMBDA v, w : Better(desc, v, w))
       IN topNBySort(es, desc, Limit) = SubSeq(all, 1, Min({Limit, Len(all)}))

\* The timeline drops nothing of its range but what its limit cuts off at the
\* old end, and the newest instant has a bucket (timeline, summary.go:165-196).
TimelineComplete ==
  /\ MapThenSumSet(LAMBDA i : timeline(es)[i], DOMAIN timeline(es)) =
       Cardinality(Positions(es, LAMBDA e : e.ts \in TimelineStart .. Until))
  /\ TimelineStart > Truncate(Since) => Cardinality(DOMAIN timeline(es)) = maxTimelineBuckets

\* The two halves of the buffer as an agent compares them: what is said to
\* have appeared or disappeared did, unless a window has more groups than the
\* MCP server asks for (diff.go:58-112, 176-181).
DiffTellsChanges ==
  LET old == SelectSeq(es, LAMBDA e : e.ts < Until)
      new == SelectSeq(es, LAMBDA e : e.ts >= Until)
      diff == diffTraffic(fetchSummary(old), fetchSummary(new))
      Fits(s) == Cardinality(DOMAIN summarize(s)) <= SummaryLimit
  IN Fits(old) /\ Fits(new) =>
       /\ DOMAIN diff = DOMAIN summarize(es)
       /\ \A k \in DOMAIN diff :
            /\ diff[k].delta = CountOf(summarize(new), k) - CountOf(summarize(old), k)
            /\ diff[k].status = "appeared" <=> k \notin DOMAIN summarize(old)
            /\ diff[k].status = "disappeared" <=> k \notin DOMAIN summarize(new)
=============================================================================
