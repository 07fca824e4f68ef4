------------------------------ MODULE Resolver ------------------------------
(***************************************************************************)
(* The Kubernetes endpoint resolver of the hub (internal/hub/k8s.go).      *)
(*                                                                         *)
(* The refresh goroutine lists ReplicaSets, pods and services, publishes a *)
(* new map from IP to identity, and then retries the entries that were     *)
(* ingested before their pod was known.  It copies the registry of those   *)
(* entries under its lock, enriches copies without it, and takes the lock  *)
(* again to drop what is done with.  Meanwhile the ingest goroutines read  *)
(* whichever map is published, once for each endpoint, and register what   *)
(* stayed bare.  Pods come and go, and the API server fails any request.   *)
(*                                                                         *)
(* The hub leaves onResolved nil; here it is the set `corrected`, so that  *)
(* what the catch-up would hand over can be stated.  Its counters are left *)
(* out.                                                                    *)
(***************************************************************************)
EXTENDS Integers, Sequences, FiniteSets, Functions

CONSTANTS
  Ids,                 \* entries
  Address,             \* Address[i]: the address at either end of entry i
  Pods,                \* pods over time, of PodIP
  Owner,               \* Owner[p]: [kind, name], a name being its segments
  PodIP, SvcIP,        \* a pod's address and a service's
  maxPendingResolve, maxResolveAttempts,
  MaxFaults,           \* bound: failed lists and replaced pods
  None

\* An entry is tried at least once; addresses of pods and services are disjoint.
ResolverAssumption ==
  /\ maxPendingResolve \in Nat /\ maxResolveAttempts \in Nat \ {0}
  /\ PodIP # SvcIP

Ends == {"source", "destination"}

VARIABLES
  running,   \* the pod that has PodIP, or None
  byIP,      \* the published map
  pc,        \* the refresh goroutine
  rsOwners,  \* the ReplicaSets were listed
  m,         \* the map being built
  pend,      \* retryPending's copy of the registry, what is left of it
  drop,
  pending,   \* the registry: attempts by id
  entry,     \* the entries: stage and names
  corrected, \* ids and endpoints handed to onResolved with a name
  passes,    \* ghost: retries of each entry
  refused,   \* ghost: ids the full registry refused
  faults

vars == <<running, byIP, pc, rsOwners, m, pend, drop, pending, entry,
          corrected, passes, refused, faults>>

ref(name, workload) == [name |-> name, workload |-> workload]

\* A pod's controller: the Deployment of its ReplicaSet or, when the
\* ReplicaSets could not be listed, the ReplicaSet's name without its hash.
workloadOf(p, owners) ==
  LET o == Owner[p] IN
    CASE o.kind = "ReplicaSet" /\ owners -> <<Head(o.name)>>
      [] o.kind = "ReplicaSet" /\ ~owners ->
           IF Len(o.name) > 1 THEN SubSeq(o.name, 1, Len(o.name) - 1) ELSE o.name
      [] o.kind \in {"StatefulSet", "DaemonSet", "Job"} -> o.name
      [] OTHER -> <<p>>

\* The pod's entry in the map; a pod on the host's network has none.
podRefs(owners) ==
  [ip \in IF running = None \/ Owner[running].kind = "hostNetwork" THEN {} ELSE {PodIP} |->
     ref(running, workloadOf(running, owners))]

\* Services fill the gaps that the pods leave.
svcRefs(pods) ==
  [ip \in DOMAIN pods \cup {SvcIP} |->
     IF ip \in DOMAIN pods THEN pods[ip] ELSE ref("svc", <<"svc">>)]

Bare == [e \in Ends |-> ""]

Init ==
  /\ running \in Pods \cup {None} /\ byIP = <<>>
  /\ pc = "idle" /\ rsOwners = FALSE /\ m = <<>> /\ pend = {} /\ drop = {}
  /\ pending = <<>> /\ corrected = {}
  /\ entry = [i \in Ids |-> [stage |-> "source", name |-> Bare]]
  /\ passes = [i \in Ids |-> 0] /\ refused = {} /\ faults = 0

-----------------------------------------------------------------------------
(* An ingest goroutine: one step for each endpoint, one for the registry.  *)

ipRef(ip) == IF ip \in DOMAIN byIP THEN byIP[ip].name ELSE ""

enrichEndpoint(name, ip) == IF name = "" THEN ipRef(ip) ELSE name

enrich(i, e) ==
  /\ entry[i].stage = e
  /\ entry' = [entry EXCEPT ![i].name[e] = enrichEndpoint(@, Address[i][e]),
                            ![i].stage = IF e = "source" THEN "destination" ELSE "track"]
  /\ UNCHANGED <<running, byIP, pc, rsOwners, m, pend, drop, pending,
                 corrected, passes, refused, faults>>

hasUnresolvedEntry(name) == \E e \in Ends : name[e] = ""

\* The whole of trackPending, then store.add: the entry is not written again.
trackPending(i) ==
  LET bare == hasUnresolvedEntry(entry[i].name) IN
    /\ entry[i].stage = "track"
    /\ entry' = [entry EXCEPT ![i].stage = "stored"]
    /\ IF bare /\ Cardinality(DOMAIN pending) < maxPendingResolve
         THEN pending' = [j \in DOMAIN pending \cup {i} |->
                            IF j \in DOMAIN pending THEN pending[j] ELSE 0]
         ELSE UNCHANGED pending
    /\ refused' = IF bare /\ Cardinality(DOMAIN pending) >= maxPendingResolve
                    THEN refused \cup {i} ELSE refused
    /\ UNCHANGED <<running, byIP, pc, rsOwners, m, pend, drop,
                   corrected, passes, faults>>

-----------------------------------------------------------------------------
(* The refresh goroutine.                                                  *)

LeaveRegistry == UNCHANGED <<pend, drop, pending, corrected, passes>>
LeaveEntries == UNCHANGED <<running, entry, refused>>

\* get and listAll: one failed page fails the list.
listAll(ok) == IF ok THEN UNCHANGED faults ELSE faults < MaxFaults /\ faults' = faults + 1

listReplicaSetOwners ==
  /\ pc = "idle" /\ pc' = "pods"
  /\ \E ok \in BOOLEAN : listAll(ok) /\ rsOwners' = ok
  /\ UNCHANGED <<byIP, m>> /\ LeaveRegistry /\ LeaveEntries

\* On a failure the cycle ends, and the published map stays.
listPods ==
  /\ pc = "pods"
  /\ \/ listAll(TRUE) /\ m' = podRefs(rsOwners) /\ pc' = "services"
     \/ listAll(FALSE) /\ pc' = "idle" /\ UNCHANGED m
  /\ rsOwners' = FALSE /\ UNCHANGED byIP /\ LeaveRegistry /\ LeaveEntries

\* Without an answer there are no services to add, and refresh goes on.
listServices ==
  /\ pc = "services" /\ pc' = "publish"
  /\ \E ok \in BOOLEAN : listAll(ok) /\ m' = IF ok THEN svcRefs(m) ELSE m
  /\ UNCHANGED <<byIP, rsOwners>> /\ LeaveRegistry /\ LeaveEntries

\* setByIP, and retryPending's copy of the registry.
setByIP ==
  /\ pc = "publish" /\ byIP' = m /\ m' = <<>> /\ pc' = "copy"
  /\ UNCHANGED <<rsOwners, faults>> /\ LeaveRegistry /\ LeaveEntries

retryCopy ==
  /\ pc = "copy" /\ pend' = DOMAIN pending
  /\ pc' = IF DOMAIN pending = {} THEN "idle" ELSE "retry"
  /\ UNCHANGED <<byIP, m, rsOwners, drop, pending, corrected, passes, faults>>
  /\ LeaveEntries

Retried(i) == [e \in Ends |-> enrichEndpoint(entry[i].name[e], Address[i][e])]

Attempt(i) == IF hasUnresolvedEntry(Retried(i)) THEN 1 ELSE 0

\* attempts is counted whether or not the copy got a name.
DropNow(i) == ~hasUnresolvedEntry(Retried(i)) \/ pending[i] + Attempt(i) >= maxResolveAttempts

\* One round of the loop over the copied entries.
retryOne(i) ==
  LET new == {e \in Ends : entry[i].name[e] = "" /\ Retried(i)[e] # ""} IN
    /\ pc = "retry" /\ i \in pend
    /\ pend' = pend \ {i}
    /\ pc' = IF pend' = {} THEN "drop" ELSE "retry"
    /\ corrected' = corrected \cup ({i} \X new)
    /\ pending' = [pending EXCEPT ![i] = @ + Attempt(i)]
    /\ drop' = IF DropNow(i) THEN drop \cup {i} ELSE drop
    /\ passes' = [passes EXCEPT ![i] = IF @ < maxResolveAttempts THEN @ + 1 ELSE @]
    /\ UNCHANGED <<byIP, m, rsOwners, faults>> /\ LeaveEntries

\* Mutant of retryDrop: the registry is rebuilt from what was copied.
retryDropRebuilt ==
  /\ pc = "drop" /\ pc' = "idle" /\ drop' = {}
  /\ pending' = Restrict(pending, {i \in DOMAIN pending \ drop : passes[i] > 0})
  /\ UNCHANGED <<byIP, m, rsOwners, pend, corrected, passes, faults>>
  /\ LeaveEntries

retryDrop ==
  /\ pc = "drop" /\ pc' = "idle" /\ drop' = {}
  /\ pending' = Restrict(pending, DOMAIN pending \ drop)
  /\ UNCHANGED <<byIP, m, rsOwners, pend, corrected, passes, faults>>
  /\ LeaveEntries

-----------------------------------------------------------------------------
\* A pod goes, or another takes its address (external).
PodMoves ==
  /\ faults < MaxFaults /\ faults' = faults + 1
  /\ running' \in (Pods \cup {None}) \ {running}
  /\ UNCHANGED <<byIP, pc, rsOwners, m, pend, drop, pending, entry,
                 corrected, passes, refused>>

Ingest(i) == (\E e \in Ends : enrich(i, e)) \/ trackPending(i)

refresh == \/ listReplicaSetOwners \/ listPods \/ listServices
           \/ setByIP \/ retryCopy \/ (\E i \in Ids : retryOne(i)) \/ retryDrop

Next == (\E i \in Ids : Ingest(i)) \/ refresh \/ PodMoves

Spec == Init /\ [][Next]_vars

-----------------------------------------------------------------------------
(* Properties.                                                             *)

\* An entry stored with a bare endpoint is in the registry, or it was refused
\* by a full one, tried maxResolveAttempts times, or handed over with both
\* names: none is forgotten between the copy and the drop
\* (retryPending, k8s.go:492-541).
NoneForgotten ==
  \A i \in Ids :
    entry[i].stage = "stored" /\ hasUnresolvedEntry(entry[i].name) =>
      \/ i \in DOMAIN pending \cup refused
      \/ passes[i] = maxResolveAttempts
      \/ \A e \in Ends : entry[i].name[e] # "" \/ <<i, e>> \in corrected

\* The registry keeps within its bound, and what waits in it was tried exactly
\* as often as its attempts say and has attempts left: an address that never
\* resolves leaves after maxResolveAttempts passes (k8s.go:457-483, 527-540).
RegistryBounded ==
  /\ Cardinality(DOMAIN pending) <= maxPendingResolve
  /\ \A i \in DOMAIN pending \ drop :
       pending[i] = passes[i] /\ pending[i] < maxResolveAttempts

\* A workload is called the same whether or not its ReplicaSets could be
\* listed, so a failed list does not split it in two (workloadOf, k8s.go:311-329).
WorkloadStable ==
  PodIP \in DOMAIN byIP =>
    byIP[PodIP].workload = workloadOf(byIP[PodIP].name, TRUE)

\* What refresh's comment says: after a failed list the previous map is kept
\* rather than enrichment blanked (k8s.go:162-163).  The service does not go
\* away, so nothing but a failed list can take it off the map.
FailedListKeepsNames ==
  [][(SvcIP \in DOMAIN byIP => SvcIP \in DOMAIN byIP')]_vars
=============================================================================
