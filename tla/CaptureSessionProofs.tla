-------------------------- MODULE CaptureSessionProofs --------------------------
(***************************************************************************)
(* Proofs about CaptureSession, for every number of hubs and nodes, every  *)
(* clock resolution and every bound on requests, crashes and edits.        *)
(***************************************************************************)
EXTENDS CaptureSession, TLAPS

-----------------------------------------------------------------------------
(* Whole seconds: what formatting and parsing an expiry leaves unchanged.  *)

Whole(t) == \E q \in Nat : t = TicksPerSecond * q

\* A multiple of the second that is less than a second is zero.
LEMMA SmallMultiple ==
  ASSUME NEW k \in Int, TicksPerSecond * k \in 0 .. TicksPerSecond - 1
  PROVE  k = 0
<1> USE CaptureAssumption
<1>1. CASE k >= 1
  <2>1. TicksPerSecond * k >= TicksPerSecond
    BY <1>1
  <2> QED BY <2>1
<1>2. CASE k <= -1
  <2>1. TicksPerSecond * k <= -TicksPerSecond
    BY <1>2
  <2> QED BY <2>1
<1> QED BY <1>1, <1>2

\* RFC3339 returns a whole second, and a whole second as it is.
LEMMA Formatted ==
  ASSUME NEW t \in Nat
  PROVE  /\ RFC3339(t) \in Nat /\ Whole(RFC3339(t))
         /\ Whole(t) => RFC3339(t) = t
<1> DEFINE d == t \div TicksPerSecond
           r == t % TicksPerSecond
<1>1. t = TicksPerSecond * d + r /\ d \in Nat /\ r \in 0 .. TicksPerSecond - 1
  BY CaptureAssumption
<1>2. RFC3339(t) = t - r
  BY DEF RFC3339
<1> HIDE DEF d, r
<1>3. RFC3339(t) \in Nat /\ Whole(RFC3339(t))
  <2>1. RFC3339(t) = TicksPerSecond * d
    BY <1>1, <1>2, CaptureAssumption
  <2> QED BY <2>1, <1>1, CaptureAssumption DEF Whole
<1>4. ASSUME NEW q \in Nat, t = TicksPerSecond * q PROVE RFC3339(t) = t
  <2>1. TicksPerSecond * (q - d) = r
    BY <1>1, <1>4, CaptureAssumption
  <2>2. q - d = 0
    BY <2>1, <1>1, SmallMultiple
  <2>3. r = 0
    BY <2>1, <2>2, <1>1, CaptureAssumption
  <2> QED BY <2>3, <1>2
<1> QED BY <1>3, <1>4 DEF Whole

LEMMA ZeroIsWhole == Whole(NoExpiry) /\ NoExpiry \in Nat
<1>1. NoExpiry = TicksPerSecond * 0 /\ 0 \in Nat
  BY CaptureAssumption DEF NoExpiry
<1> QED BY <1>1 DEF Whole, NoExpiry

\* The expiry a DaemonSet may have at the start.
LEMMA FirstExpiry ==
  StartTime + 2 * TicksPerSecond \in Nat /\ Whole(StartTime + 2 * TicksPerSecond)
<1> DEFINE d == StartTime \div TicksPerSecond
<1>1. StartTime = TicksPerSecond * d /\ d \in Nat
  BY CaptureAssumption
<1> HIDE DEF d
<1>2. StartTime + 2 * TicksPerSecond = TicksPerSecond * (d + 2) /\ d + 2 \in Nat
  BY <1>1, CaptureAssumption
<1> QED BY <1>2, CaptureAssumption DEF Whole

-----------------------------------------------------------------------------
(* The inductive invariant.                                                *)

\* An operation that has read the DaemonSet holds a copy of it, and a start
\* knows how long the session is to last.
InHand ==
  \A h \in Hubs : hub[h].at = "read" =>
    /\ copy[h] # None
    /\ hub[h].op = "start" => hub[h].duration \in Nat

\* A copy whose version is still the current one is the DaemonSet.
CopiesCurrent == \A h \in Hubs : copy[h] # None /\ copy[h].fresh => copy[h].ds = ds

\* Every expiry in the cluster is a whole second.
WholeSeconds == Whole(ds.expiry) /\ \A p \in wire : Whole(p.expiry)

\* A patch that the API server will accept and that makes the session run is a
\* start of a session that is over, or repeats what the DaemonSet says.
RunningPatches ==
  \A p \in wire : p.fresh /\ p.state = "running" =>
    \/ p.op = "start" /\ Stopped(ds, clock)
    \/ ds.state = "running" /\ p.expiry = ds.expiry

\* What the controller has reported: a status it marks as observed is about the
\* present spec, and under a disabled selector no pod starts after it.
ReportedPods ==
  /\ status.observed => seen.latest
  /\ seen.latest => seen.disabled = ds.disabled /\ seen.legacy = ds.legacy
  /\ status.observed /\ seen.disabled => workers <= status.pods

IInv == /\ TypeOK /\ InHand /\ CopiesCurrent /\ WholeSeconds /\ RunningPatches
        /\ ReportedPods

LEMMA InitIInv == Init => IInv
<1> SUFFICES ASSUME Init PROVE IInv
  OBVIOUS
<1>1. ds \in DaemonSet /\ Whole(ds.expiry)
  <2> DEFINE e == StartTime + 2 * TicksPerSecond
             A(x, b, l) == [state |-> "stopped", expiry |-> x, disabled |-> b, legacy |-> l]
             B(x) == [state |-> "running", expiry |-> x, disabled |-> FALSE, legacy |-> FALSE]
  <2>1. ds = A(NoExpiry, TRUE, FALSE) \/ ds = A(NoExpiry, FALSE, TRUE) \/ ds = B(e)
    BY DEF Init
  <2>2. \A x \in Nat, b, l \in BOOLEAN : A(x, b, l) \in DaemonSet /\ A(x, b, l).expiry = x
    BY DEF DaemonSet
  <2>3. \A x \in Nat : B(x) \in DaemonSet /\ B(x).expiry = x
    BY DEF DaemonSet
  <2>4. e \in Nat /\ Whole(e)
    BY FirstExpiry
  <2> HIDE DEF e, A, B
  <2> QED BY <2>1, <2>2, <2>3, <2>4, ZeroIsWhole
<1>2. TypeOK
  <2>1. hub \in [Hubs -> [at : {"down", "idle", "read", "patching"},
                          op : {"start", "stop", "reconcile", "session"} \cup {None},
                          duration : (1 .. maxDuration) \cup {None}]]
    BY DEF Init, Idle
  <2>2. copy \in [Hubs -> Copy \cup {None}] /\ wire \subseteq Patch
    BY DEF Init
  <2>3. status \in Status /\ seen \in [disabled : BOOLEAN, legacy : BOOLEAN, latest : BOOLEAN]
    BY <1>1, CaptureAssumption DEF Init, Status, DaemonSet
  <2>4. clock \in StartTime .. MaxTime /\ workers \in 0 .. Nodes
        /\ requests \in 0 .. MaxRequests /\ crashes \in 0 .. MaxCrashes /\ edits \in 0 .. MaxEdits
        /\ answer \in [Hubs -> Answer]
    BY CaptureAssumption DEF Init, Answer, NoAnswer, States
  <2> QED BY <1>1, <2>1, <2>2, <2>3, <2>4 DEF TypeOK
<1>3. InHand /\ CopiesCurrent /\ RunningPatches /\ ReportedPods
  BY DEF Init, InHand, CopiesCurrent, RunningPatches, ReportedPods, Idle
<1>4. WholeSeconds
  BY <1>1 DEF Init, WholeSeconds
<1> QED BY <1>2, <1>3, <1>4 DEF IInv

-----------------------------------------------------------------------------
(* What the operations leave alone, and what a write does.                 *)

\* Stale copies and patches keep their contents but not their version.
LEMMA StaleTyped ==
  ASSUME TypeOK
  PROVE  /\ Stale(copy) \in [Hubs -> Copy \cup {None}]
         /\ \A h \in Hubs : /\ Stale(copy)[h] # None => ~Stale(copy)[h].fresh
                            /\ copy[h] # None => /\ Stale(copy)[h] # None
                                                 /\ Stale(copy)[h].ds = copy[h].ds
                                                 /\ Stale(copy)[h].status = copy[h].status
         /\ \A W \in SUBSET Patch :
              /\ StaleWire(W) \subseteq Patch
              /\ \A p \in StaleWire(W) : ~p.fresh /\ \E q \in W : p.expiry = q.expiry
<1>1. ASSUME NEW h \in Hubs, copy[h] # None
      PROVE  /\ [copy[h] EXCEPT !.fresh = FALSE] \in Copy
             /\ ~[copy[h] EXCEPT !.fresh = FALSE].fresh
             /\ [copy[h] EXCEPT !.fresh = FALSE].ds = copy[h].ds
             /\ [copy[h] EXCEPT !.fresh = FALSE].status = copy[h].status
  <2>1. copy[h] \in Copy
    BY <1>1 DEF TypeOK
  <2> QED BY <2>1 DEF Copy
<1>2. ASSUME NEW q \in Patch
      PROVE  /\ [q EXCEPT !.fresh = FALSE] \in Patch
             /\ ~[q EXCEPT !.fresh = FALSE].fresh
             /\ [q EXCEPT !.fresh = FALSE].expiry = q.expiry
  BY DEF Patch
<1>3. \A h \in Hubs : Stale(copy)[h] = IF copy[h] = None THEN None
                                       ELSE [copy[h] EXCEPT !.fresh = FALSE]
  BY DEF Stale
<1>4. Stale(copy) \in [Hubs -> Copy \cup {None}]
  BY <1>1 DEF Stale
<1>5. \A h \in Hubs : /\ Stale(copy)[h] # None => ~Stale(copy)[h].fresh
                      /\ copy[h] # None => /\ Stale(copy)[h] # None
                                           /\ Stale(copy)[h].ds = copy[h].ds
                                           /\ Stale(copy)[h].status = copy[h].status
  BY <1>1, <1>3, NoneAssumption, ZenonT(60)
<1>6. \A W \in SUBSET Patch :
        /\ StaleWire(W) \subseteq Patch
        /\ \A p \in StaleWire(W) : ~p.fresh /\ \E q \in W : p.expiry = q.expiry
  BY <1>2 DEF StaleWire
<1> QED BY <1>4, <1>5, <1>6

\* A write of d with the patches that remain on the wire.
LEMMA WriteKeeps ==
  ASSUME IInv, NEW d \in DaemonSet, Whole(d.expiry),
         NEW W \in SUBSET wire, WriteDS(d, W),
         UNCHANGED <<clock, workers, hub>>
  PROVE  /\ ds' \in DaemonSet /\ status' \in Status
         /\ seen' \in [disabled : BOOLEAN, legacy : BOOLEAN, latest : BOOLEAN]
         /\ copy' \in [Hubs -> Copy \cup {None}] /\ wire' \subseteq Patch
         /\ InHand' /\ CopiesCurrent' /\ WholeSeconds' /\ RunningPatches' /\ ReportedPods'
<1> USE DEF IInv
<1>1. W \in SUBSET Patch
  BY DEF TypeOK
<1>2. CASE d = ds
  <2>1. ds' = ds /\ copy' = copy /\ wire' = W /\ UNCHANGED <<seen, status>>
    BY <1>2 DEF WriteDS
  <2> QED BY <2>1, <1>1 DEF TypeOK, InHand, CopiesCurrent, WholeSeconds, RunningPatches,
                           ReportedPods
<1>3. CASE d # ds
  <2>1. ds' = d /\ copy' = Stale(copy) /\ wire' = StaleWire(W)
    BY <1>3 DEF WriteDS
  <2>2. copy' \in [Hubs -> Copy \cup {None}] /\ wire' \subseteq Patch
    BY <2>1, <1>1, StaleTyped
  <2>3. InHand' /\ CopiesCurrent'
    BY <2>1, StaleTyped DEF InHand, CopiesCurrent
  <2>4. WholeSeconds' /\ RunningPatches'
    BY <2>1, <1>1, StaleTyped DEF WholeSeconds, RunningPatches
  <2>5. /\ status' \in Status
        /\ seen' \in [disabled : BOOLEAN, legacy : BOOLEAN, latest : BOOLEAN]
        /\ ReportedPods'
    <3>1. CASE d.disabled = ds.disabled /\ d.legacy = ds.legacy
      BY <3>1, <2>1 DEF WriteDS, TypeOK, ReportedPods
    <3>2. CASE ~(d.disabled = ds.disabled /\ d.legacy = ds.legacy)
      <4>1. seen' = [seen EXCEPT !.latest = FALSE]
            /\ status' = [status EXCEPT !.observed = FALSE]
        BY <3>2 DEF WriteDS
      <4> QED BY <4>1 DEF TypeOK, ReportedPods, Status
    <3> QED BY <3>1, <3>2
  <2> QED BY <2>1, <2>2, <2>3, <2>4, <2>5
<1> QED BY <1>2, <1>3

-----------------------------------------------------------------------------
(* The steps.                                                              *)

HubState == [at : {"down", "idle", "read", "patching"},
             op : {"start", "stop", "reconcile", "session"} \cup {None},
             duration : (1 .. maxDuration) \cup {None}]

\* A hub's own steps leave the cluster alone.  What they do to its state, its
\* copy and the wire decides the rest.
LEMMA HubStep ==
  ASSUME IInv, UNCHANGED <<clock, cluster>>,
         hub' \in [Hubs -> HubState], copy' \in [Hubs -> Copy \cup {None}],
         wire' \subseteq Patch,
         requests' \in 0 .. MaxRequests, crashes' \in 0 .. MaxCrashes, edits' = edits,
         answer' \in [Hubs -> Answer],
         InHand', CopiesCurrent',
         \A p \in wire' \ wire :
           /\ Whole(p.expiry)
           /\ p.fresh /\ p.state = "running" =>
                \/ p.op = "start" /\ Stopped(ds, clock)
                \/ ds.state = "running" /\ p.expiry = ds.expiry
  PROVE  IInv'
<1>1. TypeOK'
  BY DEF IInv, TypeOK, HubState, cluster
<1>2. WholeSeconds' /\ RunningPatches'
  BY DEF IInv, WholeSeconds, RunningPatches, Stopped, cluster
<1>3. ReportedPods'
  BY DEF IInv, ReportedPods, cluster
<1> QED BY <1>1, <1>2, <1>3 DEF IInv

LEMMA HubUpStep == ASSUME IInv, NEW h \in Hubs, HubUp(h) PROVE IInv'
<1>1. hub \in [Hubs -> HubState] /\ Idle \in HubState
  BY DEF IInv, TypeOK, HubState, Idle
<1>2. InHand' /\ CopiesCurrent'
  BY <1>1 DEF IInv, InHand, CopiesCurrent, HubUp, Idle, cluster
<1> QED BY <1>1, <1>2, HubStep DEF HubUp, calls, IInv, TypeOK

\* Read, whatever the operation.
LEMMA ReadStep ==
  ASSUME IInv, NEW h \in Hubs, NEW op \in {"start", "stop", "reconcile", "session"},
         NEW d \in (1 .. maxDuration) \cup {None}, op = "start" => d \in 1 .. maxDuration,
         Read(h, op, d), requests' \in 0 .. MaxRequests, UNCHANGED <<crashes, edits>>
  PROVE  IInv'
<1> DEFINE c == [ds |-> ds, status |-> status, fresh |-> TRUE]
           s == [at |-> "read", op |-> op, duration |-> d]
<1>1. hub \in [Hubs -> HubState] /\ s \in HubState
  BY DEF IInv, TypeOK, HubState
<1>2. copy \in [Hubs -> Copy \cup {None}] /\ c \in Copy /\ c # None
  <2>1. copy \in [Hubs -> Copy \cup {None}]
    BY DEF IInv, TypeOK
  <2>2. c \in Copy
    BY DEF IInv, TypeOK, Copy
  <2> QED BY <2>1, <2>2, NoneAssumption
<1>3. hub' = [hub EXCEPT ![h] = s] /\ copy' = [copy EXCEPT ![h] = c]
  BY DEF Read
<1>4. InHand'
  <2>1. op = "start" => d \in Nat
    BY CaptureAssumption
  <2> QED BY <1>1, <1>2, <1>3, <2>1 DEF IInv, InHand
<1>5. CopiesCurrent'
  BY <1>2, <1>3 DEF IInv, CopiesCurrent, Read, cluster
<1>6. answer' \in [Hubs -> Answer]
  <2>1. answer \in [Hubs -> Answer] /\ workers \in 0 .. Nodes
    BY DEF IInv, TypeOK
  <2> DEFINE w == IF op = "session" THEN workers ELSE 0
  <2>2. w \in 0 .. Nodes
    BY <2>1, CaptureAssumption
  <2>3. [NoAnswer EXCEPT !.workers = w] \in Answer
    BY <2>2 DEF Answer, NoAnswer
  <2> QED BY <2>1, <2>3 DEF Read
<1> QED BY <1>1, <1>2, <1>3, <1>4, <1>5, <1>6, HubStep DEF Read, IInv, TypeOK

\* The end of an operation.
LEMMA FinishStep ==
  ASSUME IInv, NEW h \in Hubs, NEW at \in {"idle", "down"},
         hub' = [hub EXCEPT ![h] = [Idle EXCEPT !.at = at]],
         copy' = [copy EXCEPT ![h] = None],
         UNCHANGED <<clock, cluster, wire, requests, edits>>,
         crashes' \in 0 .. MaxCrashes, answer' \in [Hubs -> Answer]
  PROVE  IInv'
<1>1. hub \in [Hubs -> HubState] /\ [Idle EXCEPT !.at = at] \in HubState
      /\ [Idle EXCEPT !.at = at].at # "read"
  BY DEF IInv, TypeOK, HubState, Idle
<1>2. copy' \in [Hubs -> Copy \cup {None}]
  BY DEF IInv, TypeOK
<1>3. InHand' /\ CopiesCurrent'
  BY <1>1 DEF IInv, InHand, CopiesCurrent, cluster, TypeOK
<1> QED BY <1>1, <1>2, <1>3, HubStep DEF IInv, TypeOK

\* A hub sends a patch decided on its copy: the copy is the DaemonSet whenever
\* the API server will accept the patch.
LEMMA SendStep ==
  ASSUME IInv, NEW h \in Hubs, hub[h].at = "read", hub[h].op \in {"start", "stop", "reconcile"},
         NEW state \in {"running", "stopped"}, NEW expiry \in Nat, Whole(expiry),
         SendPatch(h, state, expiry), UNCHANGED <<clock, cluster, calls>>,
         state = "running" => \/ hub[h].op = "start" /\ Stopped(copy[h].ds, clock)
                              \/ copy[h].ds.state = "running" /\
                                   (copy[h].ds = ds => expiry = copy[h].ds.expiry)
  PROVE  IInv'
<1> DEFINE p == [by |-> h, op |-> hub[h].op, fresh |-> copy[h].fresh,
                 state |-> state, expiry |-> expiry]
<1>0. copy[h] \in Copy /\ copy[h] # None
  BY DEF IInv, InHand, TypeOK
<1>1. p \in Patch
  <2>1. copy[h].fresh \in BOOLEAN
    BY <1>0 DEF Copy
  <2> QED BY <2>1 DEF Patch
<1>2. p.fresh /\ p.state = "running" =>
                \/ p.op = "start" /\ Stopped(ds, clock)
                \/ ds.state = "running" /\ p.expiry = ds.expiry
  <2>1. copy[h].fresh => copy[h].ds = ds
    BY <1>0 DEF IInv, CopiesCurrent
  <2> QED BY <2>1
<1>3. Whole(p.expiry)
  OBVIOUS
<1>4. wire' = wire \cup {p} /\ copy' = [copy EXCEPT ![h] = None]
      /\ hub' = [hub EXCEPT ![h].at = "patching"]
  BY DEF SendPatch
<1> HIDE DEF p
<1>5. hub \in [Hubs -> HubState] /\ copy \in [Hubs -> Copy \cup {None}] /\ wire \subseteq Patch
  BY DEF IInv, TypeOK, HubState
<1>6. hub' \in [Hubs -> HubState] /\ hub'[h].at # "read"
      /\ \A k \in Hubs : k # h => hub'[k] = hub[k]
  BY <1>4, <1>5 DEF HubState
<1>7. InHand' /\ CopiesCurrent'
  BY <1>4, <1>5, <1>6 DEF IInv, InHand, CopiesCurrent, cluster
<1> QED BY <1>1, <1>2, <1>3, <1>4, <1>5, <1>6, <1>7, HubStep DEF IInv, TypeOK, calls

\* describe() reports an active session exactly when it is not over.
LEMMA DescribeActive ==
  ASSUME NEW d, NEW st, NEW now
  PROVE  describe(d, st, now) \in {"starting", "running"} <=> ~Stopped(d, now)
BY DEF describe

LEMMA StartDecideStep == ASSUME IInv, NEW h \in Hubs, StartDecide(h) PROVE IInv'
<1>1. CASE describe(copy[h].ds, copy[h].status, clock) \in {"starting", "running"}
  <2>1. Finish(h) /\ UNCHANGED wire
    BY <1>1 DEF StartDecide
  <2>2. Idle = [Idle EXCEPT !.at = "idle"]
    BY DEF Idle
  <2> QED BY <2>1, <2>2, FinishStep DEF StartDecide, Finish, calls, IInv, TypeOK
<1>2. CASE describe(copy[h].ds, copy[h].status, clock) \notin {"starting", "running"}
  <2>1. SendPatch(h, "running", RFC3339(clock + hub[h].duration))
    BY <1>2 DEF StartDecide
  <2>2. Stopped(copy[h].ds, clock)
    BY <1>2, DescribeActive
  <2>3. hub[h].at = "read" /\ hub[h].op = "start" /\ hub[h].duration \in Nat
    BY DEF StartDecide, IInv, InHand
  <2>4. clock + hub[h].duration \in Nat
    BY <2>3, CaptureAssumption DEF IInv, TypeOK
  <2>5. RFC3339(clock + hub[h].duration) \in Nat /\ Whole(RFC3339(clock + hub[h].duration))
    BY <2>4, Formatted
  <2> QED BY <2>1, <2>2, <2>3, <2>5, SendStep DEF StartDecide
<1> QED BY <1>1, <1>2

LEMMA StopDecideStep == ASSUME IInv, NEW h \in Hubs, StopDecide(h) PROVE IInv'
<1>1. CASE describe(copy[h].ds, copy[h].status, clock) = "stopped"
  <2>1. Finish(h) /\ UNCHANGED wire
    BY <1>1 DEF StopDecide
  <2>2. Idle = [Idle EXCEPT !.at = "idle"]
    BY DEF Idle
  <2> QED BY <2>1, <2>2, FinishStep DEF StopDecide, Finish, calls, IInv, TypeOK
<1>2. CASE describe(copy[h].ds, copy[h].status, clock) # "stopped"
  <2>1. SendPatch(h, "stopped", NoExpiry)
    BY <1>2 DEF StopDecide
  <2> QED BY <2>1, ZeroIsWhole, SendStep DEF StopDecide
<1> QED BY <1>1, <1>2

LEMMA ReconcileDecideStep == ASSUME IInv, NEW h \in Hubs, ReconcileDecide(h) PROVE IInv'
<1> DEFINE d == copy[h].ds
<1>1. CASE ~NeedsRepair(d, clock)
  <2>1. Finish(h) /\ UNCHANGED wire
    BY <1>1 DEF ReconcileDecide
  <2>2. Idle = [Idle EXCEPT !.at = "idle"]
    BY DEF Idle
  <2> QED BY <2>1, <2>2, FinishStep DEF ReconcileDecide, Finish, calls, IInv, TypeOK
<1>2. CASE NeedsRepair(d, clock) /\ Stopped(d, clock)
  <2>1. SendPatch(h, "stopped", NoExpiry)
    BY <1>2 DEF ReconcileDecide
  <2> QED BY <2>1, ZeroIsWhole, SendStep DEF ReconcileDecide
<1>3. CASE NeedsRepair(d, clock) /\ ~Stopped(d, clock)
  <2>1. SendPatch(h, "running", RFC3339(d.expiry))
    BY <1>3 DEF ReconcileDecide
  <2>2. hub[h].at = "read" /\ hub[h].op = "reconcile"
    BY DEF ReconcileDecide
  <2>3. d \in DaemonSet
    <3>1. copy[h] \in Copy
      BY <2>2 DEF IInv, InHand, TypeOK
    <3> QED BY <3>1 DEF Copy
  <2>4. d.expiry \in Nat /\ d.state = "running"
    BY <2>3, <1>3 DEF DaemonSet, Stopped
  <2>5. RFC3339(d.expiry) \in Nat /\ Whole(RFC3339(d.expiry))
        /\ (Whole(d.expiry) => RFC3339(d.expiry) = d.expiry)
    BY <2>4, Formatted
  <2>6. d = ds => RFC3339(d.expiry) = d.expiry
    BY <2>5 DEF IInv, WholeSeconds
  <2> HIDE DEF d
  <2>7. d = copy[h].ds
    BY DEF d
  <2> QED BY <2>1, <2>2, <2>4, <2>5, <2>6, <2>7, SendStep DEF ReconcileDecide
<1> QED BY <1>1, <1>2, <1>3

LEMMA OperationStep == ASSUME IInv, NEW h \in Hubs, Operation(h) PROVE IInv'
<1>1. CASE StartRead(h)
  <2>1. PICK asked \in Durations :
          LET d == IF asked = 0 THEN defaultDuration ELSE asked IN
          /\ d > 0 /\ d <= maxDuration /\ Read(h, "start", d)
    BY <1>1 DEF StartRead
  <2> DEFINE d == IF asked = 0 THEN defaultDuration ELSE asked
  <2>2. d \in 1 .. maxDuration
    BY <2>1, CaptureAssumption
  <2>3. Read(h, "start", d)
    BY <2>1
  <2>4. requests' \in 0 .. MaxRequests /\ UNCHANGED <<crashes, edits>>
    BY <1>1, CaptureAssumption DEF StartRead, IInv, TypeOK
  <2> HIDE DEF d
  <2> QED BY <2>2, <2>3, <2>4, ReadStep
<1>2. CASE StopRead(h)
  <2>1. requests' \in 0 .. MaxRequests /\ UNCHANGED <<crashes, edits>>
    BY <1>2, CaptureAssumption DEF StopRead, IInv, TypeOK
  <2> QED BY <1>2, <2>1, ReadStep DEF StopRead
<1>3. CASE ReconcileRead(h)
  <2>1. requests' \in 0 .. MaxRequests /\ UNCHANGED <<crashes, edits>>
    BY <1>3 DEF ReconcileRead, IInv, TypeOK
  <2> QED BY <1>3, <2>1, ReadStep DEF ReconcileRead
<1>4. CASE PatchAnswered(h)
  <2>1. Idle = [Idle EXCEPT !.at = "idle"]
    BY DEF Idle
  <2> QED BY <1>4, <2>1, FinishStep DEF PatchAnswered, Finish, calls, IInv, TypeOK
<1>5. CASE SessionRead(h)
  <2>1. requests' \in 0 .. MaxRequests /\ UNCHANGED <<crashes, edits>>
    BY <1>5, CaptureAssumption DEF SessionRead, IInv, TypeOK
  <2> QED BY <1>5, <2>1, ReadStep DEF SessionRead
<1>6. CASE SessionFails(h)
  <2> DEFINE a == [state |-> "stopped", error |-> TRUE, workers |-> workers]
  <2>1. a \in Answer /\ answer' = [answer EXCEPT ![h] = a]
    BY <1>6 DEF SessionFails, Answer, States, IInv, TypeOK
  <2>2. answer' \in [Hubs -> Answer] /\ requests' \in 0 .. MaxRequests
    BY <1>6, <2>1, CaptureAssumption DEF SessionFails, IInv, TypeOK
  <2>3. hub \in [Hubs -> HubState] /\ InHand' /\ CopiesCurrent'
    BY <1>6 DEF SessionFails, IInv, TypeOK, HubState, InHand, CopiesCurrent, cluster
  <2> QED BY <1>6, <2>2, <2>3, HubStep DEF SessionFails, IInv, TypeOK
<1>7. CASE SessionDecide(h)
  <2>1. Idle = [Idle EXCEPT !.at = "idle"]
    BY DEF Idle
  <2>2. describe(copy[h].ds, copy[h].status, clock) \in {"starting", "running", "stopping", "stopped"}
    BY DEF describe
  <2>3. answer' \in [Hubs -> Answer]
    BY <1>7, <2>2 DEF SessionDecide, IInv, TypeOK, Answer, States
  <2> QED BY <1>7, <2>1, <2>3, FinishStep DEF SessionDecide, Finish, IInv, TypeOK
<1> QED BY <1>1, <1>2, <1>3, <1>4, <1>5, <1>6, <1>7, StartDecideStep, StopDecideStep,
           ReconcileDecideStep DEF Operation

LEMMA AbandonStep == ASSUME IInv, NEW h \in Hubs, Abandon(h) PROVE IInv'
<1>1. PICK at \in {"idle", "down"} : hub' = [hub EXCEPT ![h] = [Idle EXCEPT !.at = at]]
  BY DEF Abandon
<1>2. crashes' \in 0 .. MaxCrashes /\ answer' \in [Hubs -> Answer]
  BY CaptureAssumption DEF Abandon, IInv, TypeOK
<1> QED BY <1>1, <1>2, FinishStep DEF Abandon

LEMMA ApplyPatchStep == ASSUME IInv, ApplyPatch PROVE IInv'
<1>1. PICK p \in wire :
        IF p.fresh
        THEN WriteDS([state |-> p.state, expiry |-> p.expiry,
                      disabled |-> p.state = "stopped", legacy |-> FALSE], wire \ {p})
        ELSE wire' = wire \ {p} /\ UNCHANGED <<ds, seen, status, copy>>
  BY DEF ApplyPatch
<1>2. UNCHANGED <<clock, workers, hub, calls>>
  BY DEF ApplyPatch
<1>3. CASE p.fresh
  <2> DEFINE d == [state |-> p.state, expiry |-> p.expiry,
                   disabled |-> p.state = "stopped", legacy |-> FALSE]
  <2>1. d \in DaemonSet /\ Whole(d.expiry)
    <3>1. p \in Patch /\ Whole(p.expiry)
      BY DEF IInv, TypeOK, WholeSeconds
    <3> QED BY <3>1 DEF Patch, DaemonSet
  <2>2. WriteDS(d, wire \ {p}) /\ wire \ {p} \in SUBSET wire
    BY <1>1, <1>3
  <2> HIDE DEF d
  <2> QED BY <1>2, <2>1, <2>2, WriteKeeps DEF IInv, TypeOK, calls
<1>4. CASE ~p.fresh
  <2>1. wire' = wire \ {p} /\ UNCHANGED <<ds, seen, status, copy>>
    BY <1>1, <1>4
  <2> QED BY <1>2, <2>1 DEF IInv, TypeOK, InHand, CopiesCurrent, WholeSeconds, RunningPatches,
                           ReportedPods, Stopped, calls
<1> QED BY <1>3, <1>4

LEMMA OtherWriterStep == ASSUME IInv, OtherWriter PROVE IInv'
<1>1. PICK dis \in BOOLEAN, leg \in BOOLEAN :
        WriteDS([ds EXCEPT !.disabled = dis, !.legacy = leg], wire)
  BY DEF OtherWriter
<1> DEFINE d == [ds EXCEPT !.disabled = dis, !.legacy = leg]
<1>2. d \in DaemonSet /\ Whole(d.expiry)
  BY DEF IInv, TypeOK, WholeSeconds, DaemonSet
<1>3. edits' \in 0 .. MaxEdits /\ UNCHANGED <<clock, workers, hub, requests, crashes, answer>>
  BY CaptureAssumption DEF OtherWriter, IInv, TypeOK
<1>4. WriteDS(d, wire) /\ wire \in SUBSET wire
  BY <1>1
<1> HIDE DEF d
<1> QED BY <1>2, <1>3, <1>4, WriteKeeps DEF IInv, TypeOK

LEMMA ControllerStatusStep == ASSUME IInv, ControllerStatus PROVE IInv'
<1> DEFINE st == [observed |-> seen.latest, desired |-> IF seen.disabled THEN 0 ELSE Nodes,
                  pods |-> workers]
<1>1. status' = st /\ copy' = Stale(copy) /\ wire' = StaleWire(wire)
      /\ UNCHANGED <<clock, ds, seen, workers, hub, calls>>
  BY DEF ControllerStatus
<1>2. st \in Status
  BY CaptureAssumption DEF IInv, TypeOK, Status
<1>3. wire \in SUBSET Patch
  BY DEF IInv, TypeOK
<1>4. TypeOK'
  BY <1>1, <1>2, <1>3, StaleTyped DEF IInv, TypeOK, calls
<1>5. InHand' /\ CopiesCurrent' /\ WholeSeconds' /\ RunningPatches'
  BY <1>1, <1>3, StaleTyped
     DEF IInv, InHand, CopiesCurrent, WholeSeconds, RunningPatches
<1>6. ReportedPods'
  <2>1. st.observed = seen.latest /\ st.pods = workers
    OBVIOUS
  <2>2. workers \in Nat
    BY CaptureAssumption DEF IInv, TypeOK
  <2> HIDE DEF st
  <2> QED BY <1>1, <2>1, <2>2 DEF IInv, ReportedPods
<1> QED BY <1>4, <1>5, <1>6 DEF IInv

LEMMA ControllerStep ==
  ASSUME IInv, ControllerSees \/ WorkerStarts \/ WorkerStops
  PROVE  IInv'
<1>1. CASE ControllerSees
  <2>1. seen' = [disabled |-> ds.disabled, legacy |-> ds.legacy, latest |-> TRUE]
        /\ UNCHANGED <<clock, ds, status, workers, hub, copy, wire, calls>>
    BY <1>1 DEF ControllerSees
  <2>2. seen' \in [disabled : BOOLEAN, legacy : BOOLEAN, latest : BOOLEAN]
    BY <2>1 DEF IInv, TypeOK, DaemonSet
  <2>3. ReportedPods'
    BY <1>1, <2>1 DEF IInv, ReportedPods, ControllerSees
  <2> QED BY <2>1, <2>2, <2>3 DEF IInv, TypeOK, InHand, CopiesCurrent, WholeSeconds,
                               RunningPatches, Stopped, calls
<1>2. CASE WorkerStarts \/ WorkerStops
  <2>1. UNCHANGED <<clock, ds, status, seen, hub, copy, wire, calls>>
    BY <1>2 DEF WorkerStarts, WorkerStops
  <2>2. workers' \in 0 .. Nodes
    BY <1>2, CaptureAssumption DEF WorkerStarts, WorkerStops, IInv, TypeOK
  <2>3. status.pods \in Nat /\ workers \in Nat
    BY CaptureAssumption DEF IInv, TypeOK, Status
  <2>4. seen.disabled => workers' <= workers
    BY <1>2, <2>3 DEF WorkerStarts, WorkerStops
  <2>5. ReportedPods'
    BY <2>1, <2>2, <2>3, <2>4, CaptureAssumption DEF IInv, ReportedPods
  <2> QED BY <2>1, <2>2, <2>5 DEF IInv, TypeOK, InHand, CopiesCurrent, WholeSeconds,
                               RunningPatches, Stopped, calls
<1> QED BY <1>1, <1>2

\* Time only ends sessions.
LEMMA TickStep == ASSUME IInv, Tick PROVE IInv'
<1>1. clock' = clock + 1 /\ UNCHANGED <<cluster, hub, copy, wire, calls>>
  BY DEF Tick
<1>2. clock' \in StartTime .. MaxTime
  BY CaptureAssumption DEF IInv, TypeOK, Tick
<1>3. clock \in Nat /\ ds.expiry \in Nat
  BY CaptureAssumption DEF IInv, TypeOK, DaemonSet
<1>4. Stopped(ds, clock) => Stopped(ds, clock')
  BY <1>1, <1>3 DEF Stopped
<1> QED BY <1>1, <1>2, <1>4 DEF IInv, TypeOK, InHand, CopiesCurrent, WholeSeconds,
                             RunningPatches, ReportedPods, Stopped, calls, cluster

LEMMA NextIInv == IInv /\ [Next]_vars => IInv'
<1> SUFFICES ASSUME IInv, [Next]_vars PROVE IInv'
  OBVIOUS
<1>1. CASE UNCHANGED vars
  BY <1>1 DEF IInv, TypeOK, InHand, CopiesCurrent, WholeSeconds, RunningPatches,
              ReportedPods, Stopped, calls, cluster, vars
<1> QED BY <1>1, HubUpStep, OperationStep, AbandonStep, ApplyPatchStep, OtherWriterStep,
           ControllerStep, ControllerStatusStep, TickStep DEF Next

\* In every state a copy of the current version is the DaemonSet itself, a patch
\* that would be accepted and makes the session run starts one that is over or
\* repeats what is there, expiries are whole seconds, and an observed status is
\* about the present spec (capture.go:97-290).
THEOREM InductiveInvariant == Spec => []IInv
<1> QED BY InitIInv, NextIInv, PTL DEF Spec

-----------------------------------------------------------------------------
(* What GET /api/capture answers.                                          *)

\* A copy from which describe() may answer "stopped".
Quiet(c) == c.ds.disabled /\ c.status.observed /\ c.status.pods = 0

\* The workers there were when the copy was read, or the answer given, are
\* none if it is quiet, or "stopped" without an error.
AnswersTrue ==
  \A h \in Hubs :
    /\ hub[h].at = "read" /\ hub[h].op = "session" =>
         (Quiet(copy[h]) => answer[h].workers = 0)
    /\ answer[h].state = "stopped" => answer[h].error \/ answer[h].workers = 0

LEMMA InitAnswers == Init => AnswersTrue
BY NoneAssumption DEF Init, AnswersTrue, NoAnswer, Idle, States

LEMMA QuietMeansNone ==
  ASSUME IInv, ds.disabled, status.observed, status.pods = 0 PROVE workers = 0
<1>1. seen.disabled
  BY Zenon DEF IInv, ReportedPods
<1>2. workers <= status.pods
  BY <1>1, Zenon DEF IInv, ReportedPods
<1>3. workers \in Nat
  BY CaptureAssumption DEF IInv, TypeOK
<1> QED BY <1>2, <1>3

\* A step that answers nothing, and changes the version of copies at most.
LEMMA AnswersKept ==
  ASSUME IInv, AnswersTrue, answer' = answer,
         \A h \in Hubs : hub'[h].at = "read" /\ hub'[h].op = "session" =>
           /\ hub[h].at = "read" /\ hub[h].op = "session"
           /\ copy'[h].ds = copy[h].ds /\ copy'[h].status = copy[h].status
  PROVE  AnswersTrue'
BY DEF AnswersTrue, Quiet

LEMMA AnswersRead ==
  ASSUME IInv, AnswersTrue, NEW h \in Hubs, NEW op, NEW d, Read(h, op, d)
  PROVE  AnswersTrue'
<1> DEFINE s == [at |-> "read", op |-> op, duration |-> d]
           c == [ds |-> ds, status |-> status, fresh |-> TRUE]
           a == [NoAnswer EXCEPT !.workers = IF op = "session" THEN workers ELSE 0]
<1>1. hub' = [hub EXCEPT ![h] = s] /\ copy' = [copy EXCEPT ![h] = c]
      /\ answer' = [answer EXCEPT ![h] = a]
  BY DEF Read
<1>2. hub \in [Hubs -> HubState] /\ copy \in [Hubs -> Copy \cup {None}]
      /\ answer \in [Hubs -> Answer]
  BY DEF IInv, TypeOK, HubState
<1>3. s.op = op /\ (Quiet(c) /\ op = "session" => a.workers = 0) /\ a.state = None
      /\ ~a.error /\ (op # "session" => a.workers = 0)
  BY QuietMeansNone DEF Quiet, NoAnswer
<1>4. a.state = "stopped" => a.error \/ a.workers = 0
  BY NoneAssumption DEF NoAnswer, States
<1> HIDE DEF s, c, a
<1> QED BY <1>1, <1>2, <1>3, <1>4 DEF AnswersTrue, Quiet

LEMMA NextAnswers == IInv /\ AnswersTrue /\ [Next]_vars => AnswersTrue'
<1> SUFFICES ASSUME IInv, AnswersTrue, [Next]_vars PROVE AnswersTrue'
  OBVIOUS
<1>t. hub \in [Hubs -> HubState] /\ copy \in [Hubs -> Copy \cup {None}]
      /\ answer \in [Hubs -> Answer]
  BY DEF IInv, TypeOK, HubState
<1>s. \A h \in Hubs : hub[h].at = "read" =>
        Stale(copy)[h].ds = copy[h].ds /\ Stale(copy)[h].status = copy[h].status
  BY StaleTyped DEF IInv, InHand
<1>1. ASSUME NEW h \in Hubs, HubUp(h) \/ Abandon(h) \/ StartDecide(h) \/ StopDecide(h)
                              \/ ReconcileDecide(h) \/ PatchAnswered(h)
      PROVE  AnswersTrue'
  <2>1. answer' = answer
    BY <1>1 DEF HubUp, Abandon, StartDecide, StopDecide, ReconcileDecide, PatchAnswered, calls
  <2>2. hub'[h].at # "read"
    BY <1>1, <1>t DEF HubUp, Abandon, StartDecide, StopDecide, ReconcileDecide, PatchAnswered,
                      Finish, SendPatch, Idle, HubState
  <2>3. \A k \in Hubs \ {h} : hub'[k] = hub[k] /\ copy'[k] = copy[k]
    BY <1>1, <1>t DEF HubUp, Abandon, StartDecide, StopDecide, ReconcileDecide, PatchAnswered,
                      Finish, SendPatch
  <2> QED BY <2>1, <2>2, <2>3, AnswersKept
<1>2. ASSUME NEW h \in Hubs, StartRead(h) \/ StopRead(h) \/ ReconcileRead(h) \/ SessionRead(h)
      PROVE  AnswersTrue'
  BY <1>2, AnswersRead DEF StartRead, StopRead, ReconcileRead, SessionRead
<1>3. ASSUME NEW h \in Hubs, SessionFails(h) PROVE AnswersTrue'
  BY <1>3, <1>t DEF SessionFails, AnswersTrue, Quiet
<1>4. ASSUME NEW h \in Hubs, SessionDecide(h) PROVE AnswersTrue'
  <2>1. describe(copy[h].ds, copy[h].status, clock) = "stopped" => answer[h].workers = 0
    BY <1>4 DEF SessionDecide, AnswersTrue, Quiet, describe
  <2>2. hub'[h].at # "read" /\ \A k \in Hubs \ {h} : hub'[k] = hub[k] /\ copy'[k] = copy[k]
    BY <1>4, <1>t DEF SessionDecide, Finish, Idle
  <2>3. /\ answer'[h].state = describe(copy[h].ds, copy[h].status, clock)
        /\ answer'[h].workers = answer[h].workers
        /\ \A k \in Hubs \ {h} : answer'[k] = answer[k]
    BY <1>4, <1>t DEF SessionDecide, Answer
  <2> QED BY <2>1, <2>2, <2>3 DEF AnswersTrue, Quiet
<1>5. CASE ApplyPatch \/ OtherWriter
  <2>1. answer' = answer /\ hub' = hub
    BY <1>5 DEF ApplyPatch, OtherWriter, calls
  <2>2. copy' = copy \/ copy' = Stale(copy)
    BY <1>5, Zenon DEF ApplyPatch, OtherWriter, WriteDS
  <2> QED BY <2>1, <2>2, <1>s, AnswersKept
<1>6. CASE ControllerStatus
  BY <1>6, <1>s, AnswersKept DEF ControllerStatus, calls
<1>7. CASE ControllerSees \/ WorkerStarts \/ WorkerStops \/ Tick
  BY <1>7, AnswersKept DEF ControllerSees, WorkerStarts, WorkerStops, Tick, calls
<1>8. CASE UNCHANGED vars
  BY <1>8, AnswersKept DEF vars, calls
<1> QED BY <1>1, <1>2, <1>3, <1>4, <1>5, <1>6, <1>7, <1>8 DEF Next, Operation

-----------------------------------------------------------------------------
(* The theorems.                                                           *)

\* describe() answers "stopped" only when no worker pod is left, and GET
\* /api/capture answers it without an error only when none was left as the API
\* server was asked, whatever the hubs, the other writers and the DaemonSet
\* controller do between the read and the answer (capture.go:213-216,
\* server.go:639-646): the status it looks at was marked as observed for the
\* selector of the same copy, and under a disabled selector pods only go away.
THEOREM StoppedIsTrue == Spec => []StoppedMeansStopped
<1>1. IInv /\ AnswersTrue => StoppedMeansStopped
  <2> SUFFICES ASSUME IInv, AnswersTrue PROVE StoppedMeansStopped
    OBVIOUS
  <2>1. describe(ds, status, clock) = "stopped" => workers = 0
    BY QuietMeansNone DEF describe
  <2> QED BY <2>1 DEF AnswersTrue, StoppedMeansStopped
<1>2. Spec => []AnswersTrue
  BY InductiveInvariant, InitAnswers, NextAnswers, PTL DEF Spec
<1> QED BY <1>1, <1>2, InductiveInvariant, PTL

\* Only the API server and other writers change the DaemonSet.
LEMMA WhoWrites ==
  ASSUME IInv, [Next]_vars
  PROVE  \/ ds' = ds
         \/ ds'.state = ds.state /\ ds'.expiry = ds.expiry
         \/ \E p \in wire : p.fresh /\ ds'.state = p.state /\ ds'.expiry = p.expiry
<1>1. CASE ApplyPatch
  <2>1. PICK p \in wire :
          \/ p.fresh /\ ds' = [state |-> p.state, expiry |-> p.expiry,
                               disabled |-> p.state = "stopped", legacy |-> FALSE]
          \/ ds' = ds
    BY <1>1, Zenon DEF ApplyPatch, WriteDS
  <2> QED BY <2>1
<1>2. CASE OtherWriter
  <2>1. PICK dis \in BOOLEAN, leg \in BOOLEAN : ds' = [ds EXCEPT !.disabled = dis, !.legacy = leg]
    BY <1>2 DEF OtherWriter, WriteDS
  <2> QED BY <2>1 DEF IInv, TypeOK, DaemonSet
<1>3. CASE \E h \in Hubs : HubUp(h) \/ Operation(h) \/ Abandon(h)
  BY <1>3 DEF HubUp, Operation, Abandon, StartRead, StopRead, ReconcileRead, Read, StartDecide,
              StopDecide, ReconcileDecide, PatchAnswered, SessionRead, SessionFails,
              SessionDecide, cluster
<1>4. CASE ControllerSees \/ WorkerStarts \/ WorkerStops \/ ControllerStatus \/ Tick
  BY <1>4 DEF ControllerSees, WorkerStarts, WorkerStops, ControllerStatus, Tick, cluster
<1>5. CASE UNCHANGED vars
  BY <1>5 DEF vars, cluster
<1> QED BY <1>1, <1>2, <1>3, <1>4, <1>5 DEF Next

\* No step changes the expiry of an active session that stays running: a retried
\* start, a second hub's start, a patch applied after its caller gave up and a
\* repair all leave it (capture.go:130-133, 188, 274-277).
THEOREM SessionNotExtended == Spec => ActiveNeverExtended
<1>1. IInv /\ [Next]_vars => (Active /\ ds'.state = "running" => ds'.expiry = ds.expiry)
  <2> SUFFICES ASSUME IInv, [Next]_vars, Active, ds'.state = "running"
               PROVE  ds'.expiry = ds.expiry
    OBVIOUS
  <2>1. ~Stopped(ds, clock)
    <3>1. ds.expiry \in Nat /\ clock \in Nat
      BY CaptureAssumption DEF IInv, TypeOK, DaemonSet
    <3> QED BY <3>1 DEF Active, Stopped
  <2> QED BY <2>1, WhoWrites DEF IInv, RunningPatches
<1> QED BY <1>1, InductiveInvariant, PTL DEF Spec, ActiveNeverExtended

\* A stopped session runs again only by a start whose patch carries the version
\* of the DaemonSet it replaces: never by a repair or a start that read it before
\* the stop (capture.go:188-203, 274-277).
THEOREM StopNotUndone == Spec => OnlyStartRestarts
<1>1. IInv /\ [Next]_vars =>
        (ds.state = "stopped" /\ ds'.state = "running" => \E p \in wire : p.op = "start" /\ p.fresh)
  <2> SUFFICES ASSUME IInv, [Next]_vars, ds.state = "stopped", ds'.state = "running"
               PROVE  \E p \in wire : p.op = "start" /\ p.fresh
    OBVIOUS
  <2> QED BY WhoWrites DEF IInv, RunningPatches
<1> QED BY <1>1, InductiveInvariant, PTL DEF Spec, OnlyStartRestarts
=============================================================================
