---------------------------- MODULE CaptureSession ----------------------------
(***************************************************************************)
(* On-demand capture (internal/hub/capture.go): a capture session lives in *)
(* two annotations and one reserved node selector of the worker DaemonSet, *)
(* which the hub reads and patches through the Kubernetes API.             *)
(*                                                                         *)
(* A hub runs one operation at a time (m.mu is held across the API calls), *)
(* but two hubs overlap during a rolling update, a hub may crash, and a    *)
(* caller may go away while its patch is on the wire: the patch can then   *)
(* still be applied later.  A read followed by a patch is therefore several*)
(* steps, tied together only by the resourceVersion precondition.          *)
(*                                                                         *)
(* resourceVersion is abstracted to a flag on every copy and every patch:  *)
(* the object has not changed since that copy was read.  Time is counted   *)
(* in ticks, TicksPerSecond of them per second, because the expiry is      *)
(* stored with RFC3339's one-second precision.  The API server, the        *)
(* DaemonSet controller and other writers are external.                    *)
(***************************************************************************)
EXTENDS Integers, FiniteSets

CONSTANTS
  Hubs,            \* hub pods that may run at the same time
  Nodes,           \* nodes of the cluster
  Durations,       \* requested durations, in ticks; 0 asks for the default
  defaultDuration, maxDuration,
  TicksPerSecond,
  StartTime,       \* clock reading at the start, a whole second
  MaxTime,         \* bounds: clock,
  MaxRequests,     \*   start, stop and session requests,
  MaxCrashes,      \*   hub crashes and abandoned calls,
  MaxEdits,        \*   edits by other writers
  None

ASSUME CaptureAssumption ==
  /\ Nodes \in Nat \ {0} /\ TicksPerSecond \in Nat \ {0}
  /\ StartTime \in Nat \ {0} /\ StartTime % TicksPerSecond = 0
  /\ maxDuration \in Nat /\ Durations \subseteq Nat /\ defaultDuration \in 1 .. maxDuration
  /\ MaxTime \in Nat /\ StartTime <= MaxTime
  /\ MaxRequests \in Nat /\ MaxCrashes \in Nat /\ MaxEdits \in Nat

VARIABLES
  clock,
  ds,         \* the DaemonSet fields the hub owns, and the legacy gate
  status,     \* its status, as the controller last wrote it
  seen,       \* spec the controller works from, and whether it is the latest
  workers,    \* worker pods running
  hub,        \* hub[h]: down, idle, or inside an operation
  copy,       \* the DaemonSet a hub has read
  wire,       \* patches sent and not yet processed by the API server
  requests, crashes, edits, \* how much of the bounds is used
  answer      \* what handleCaptureSession of a hub answered since its last read

calls == <<requests, crashes, edits, answer>>
cluster == <<ds, status, seen, workers>>
vars == <<clock, cluster, hub, copy, wire, calls>>

NoExpiry == 0

DaemonSet == [state : {"running", "stopped"}, expiry : Nat,
              disabled : BOOLEAN, legacy : BOOLEAN]
Status == [observed : BOOLEAN, desired : 0 .. Nodes, pods : 0 .. Nodes]
Patch == [by : Hubs, op : {"start", "stop", "reconcile"}, fresh : BOOLEAN,
          state : {"running", "stopped"}, expiry : Nat]
Copy == [ds : DaemonSet, status : Status, fresh : BOOLEAN]

\* CaptureSession: State and Error of the answer, and a ghost: the worker pods
\* there were when the API server was asked.  No state: not answered yet.
States == {"starting", "running", "stopping", "stopped"}
Answer == [state : States \cup {None},
           error : BOOLEAN, workers : 0 .. Nodes]
NoAnswer == [state |-> None, error |-> FALSE, workers |-> 0]

ASSUME NoneAssumption == None \notin Copy /\ None \notin States

TypeOK ==
  /\ clock \in StartTime .. MaxTime
  /\ ds \in DaemonSet
  /\ status \in Status
  /\ seen \in [disabled : BOOLEAN, legacy : BOOLEAN, latest : BOOLEAN]
  /\ workers \in 0 .. Nodes
  /\ hub \in [Hubs -> [at : {"down", "idle", "read", "patching"},
                       op : {"start", "stop", "reconcile", "session"} \cup {None},
                       duration : (1 .. maxDuration) \cup {None}]]
  /\ copy \in [Hubs -> Copy \cup {None}]
  /\ wire \subseteq Patch
  /\ requests \in 0 .. MaxRequests /\ crashes \in 0 .. MaxCrashes /\ edits \in 0 .. MaxEdits
  /\ answer \in [Hubs -> Answer]

Idle == [at |-> "idle", op |-> None, duration |-> None]

\* The chart's DaemonSet (stopped, disabled), or one left by a hub of the
\* gate-based release, with or without a session.
Init ==
  /\ clock = StartTime
  /\ ds \in {[state |-> "stopped", expiry |-> NoExpiry, disabled |-> TRUE, legacy |-> FALSE],
             [state |-> "stopped", expiry |-> NoExpiry, disabled |-> FALSE, legacy |-> TRUE],
             [state |-> "running", expiry |-> StartTime + 2 * TicksPerSecond,
              disabled |-> FALSE, legacy |-> FALSE]}
  /\ seen = [disabled |-> ds.disabled, legacy |-> ds.legacy, latest |-> TRUE]
  /\ workers = 0
  /\ status = [observed |-> FALSE, desired |-> 0, pods |-> 0]
  /\ hub = [h \in Hubs |-> [Idle EXCEPT !.at = "down"]]
  /\ copy = [h \in Hubs |-> None]
  /\ wire = {}
  /\ requests = 0 /\ crashes = 0 /\ edits = 0
  /\ answer = [h \in Hubs |-> NoAnswer]

-----------------------------------------------------------------------------
(* describe().                                                             *)

\* Not running, or expired.
Stopped(d, now) == d.state # "running" \/ (d.expiry # NoExpiry /\ d.expiry <= now)

\* Mutant of describe: stopped as soon as the selector says so.
describeSpec(d, st, now) ==
  IF Stopped(d, now)
  THEN IF d.disabled THEN "stopped" ELSE "stopping"
  ELSE IF st.observed /\ st.desired > 0 /\ st.pods >= st.desired
       THEN "running" ELSE "starting"

describe(d, st, now) ==
  IF Stopped(d, now)
  THEN IF d.disabled /\ st.observed /\ st.desired = 0 /\ st.pods = 0
       THEN "stopped" ELSE "stopping"
  ELSE IF st.observed /\ st.desired > 0 /\ st.pods >= st.desired
       THEN "running" ELSE "starting"

\* Format(time.RFC3339) drops the fraction of the second.
RFC3339(t) == t - (t % TicksPerSecond)

\* Mutant of NeedsRepair: expiry is not looked at.
NeedsRepairNoExpiry(d, now) ==
  \/ d.legacy
  \/ d.state # "running" /\ ~d.disabled
  \/ d.state = "running" /\ d.disabled

\* When reconcile() has something to repair.
NeedsRepair(d, now) ==
  \/ d.legacy
  \/ Stopped(d, now) /\ ~d.disabled
  \/ ~Stopped(d, now) /\ d.disabled
  \/ Stopped(d, now) /\ d.expiry # NoExpiry

-----------------------------------------------------------------------------
(* The hub's operations: read, decide and patch, hear the result.          *)

HubUp(h) ==
  /\ hub[h].at = "down"
  /\ hub' = [hub EXCEPT ![h] = Idle]
  /\ UNCHANGED <<clock, cluster, copy, wire, calls>>

\* m.get answers; one that fails ends the operation with nothing changed.
Read(h, op, duration) ==
  /\ hub[h].at = "idle"
  /\ hub' = [hub EXCEPT ![h] = [at |-> "read", op |-> op, duration |-> duration]]
  /\ copy' = [copy EXCEPT ![h] = [ds |-> ds, status |-> status, fresh |-> TRUE]]
  /\ answer' = [answer EXCEPT ![h] =
       [NoAnswer EXCEPT !.workers = IF op = "session" THEN workers ELSE 0]]
  /\ UNCHANGED <<clock, cluster, wire>>

\* POST /api/capture/start with an acceptable duration.
StartRead(h) ==
  /\ requests < MaxRequests
  /\ \E asked \in Durations :
       LET d == IF asked = 0 THEN defaultDuration ELSE asked IN
       /\ d > 0 /\ d <= maxDuration
       /\ Read(h, "start", d)
  /\ requests' = requests + 1
  /\ UNCHANGED <<crashes, edits>>

StopRead(h) ==
  /\ requests < MaxRequests
  /\ Read(h, "stop", None)
  /\ requests' = requests + 1
  /\ UNCHANGED <<crashes, edits>>

\* GET /api/capture: session() reads under the same lock.
SessionRead(h) ==
  /\ requests < MaxRequests
  /\ Read(h, "session", None)
  /\ requests' = requests + 1
  /\ UNCHANGED <<crashes, edits>>

\* The read fails: the answer still has a state, and an error.
SessionFails(h) ==
  /\ hub[h].at = "idle"
  /\ requests < MaxRequests
  /\ requests' = requests + 1
  /\ answer' = [answer EXCEPT ![h] = [state |-> "stopped", error |-> TRUE, workers |-> workers]]
  /\ UNCHANGED <<clock, cluster, hub, copy, wire, crashes, edits>>

\* captureLoop: at start and on every tick.
ReconcileRead(h) == Read(h, "reconcile", None) /\ UNCHANGED <<requests, crashes, edits>>

Finish(h) ==
  /\ hub' = [hub EXCEPT ![h] = Idle]
  /\ copy' = [copy EXCEPT ![h] = None]

\* Mutant of SendPatch: with the version of the moment, not the copy's.
SendPatchBlind(h, state, expiry) ==
  /\ hub' = [hub EXCEPT ![h].at = "patching"]
  /\ wire' = wire \cup {[by |-> h, op |-> hub[h].op, fresh |-> TRUE,
                         state |-> state, expiry |-> expiry]}
  /\ copy' = [copy EXCEPT ![h] = None]

\* m.patch: the request goes out with the copy's resourceVersion.
SendPatch(h, state, expiry) ==
  /\ hub' = [hub EXCEPT ![h].at = "patching"]
  /\ wire' = wire \cup {[by |-> h, op |-> hub[h].op, fresh |-> copy[h].fresh,
                         state |-> state, expiry |-> expiry]}
  /\ copy' = [copy EXCEPT ![h] = None]

\* Mutant of StartDecide: a retried start extends the session.
StartDecideExtends(h) ==
  /\ hub[h].at = "read" /\ hub[h].op = "start"
  /\ SendPatch(h, "running", RFC3339(clock + hub[h].duration))
  /\ UNCHANGED <<clock, cluster, calls>>

\* Start is idempotent: an active session is reported, not extended.
StartDecide(h) ==
  LET active == describe(copy[h].ds, copy[h].status, clock) \in {"starting", "running"} IN
  /\ hub[h].at = "read" /\ hub[h].op = "start"
  /\ IF active THEN Finish(h) /\ UNCHANGED wire
     ELSE SendPatch(h, "running", RFC3339(clock + hub[h].duration))
  /\ UNCHANGED <<clock, cluster, calls>>

StopDecide(h) ==
  /\ hub[h].at = "read" /\ hub[h].op = "stop"
  /\ IF describe(copy[h].ds, copy[h].status, clock) = "stopped"
     THEN Finish(h) /\ UNCHANGED wire
     ELSE SendPatch(h, "stopped", NoExpiry)
  /\ UNCHANGED <<clock, cluster, calls>>

ReconcileDecide(h) ==
  LET d == copy[h].ds IN
  /\ hub[h].at = "read" /\ hub[h].op = "reconcile"
  /\ IF ~NeedsRepair(d, clock) THEN Finish(h) /\ UNCHANGED wire
     ELSE IF Stopped(d, clock) THEN SendPatch(h, "stopped", NoExpiry)
          ELSE SendPatch(h, "running", RFC3339(d.expiry))
  /\ UNCHANGED <<clock, cluster, calls>>

SessionDecide(h) ==
  /\ hub[h].at = "read" /\ hub[h].op = "session"
  /\ answer' = [answer EXCEPT ![h].state = describe(copy[h].ds, copy[h].status, clock)]
  /\ Finish(h)
  /\ UNCHANGED <<clock, cluster, wire, requests, crashes, edits>>

\* The answer to the patch of h was processed.  (start and stop read the
\* object once more for their own answer, which changes nothing.)
PatchAnswered(h) ==
  /\ hub[h].at = "patching"
  /\ \A p \in wire : p.by # h
  /\ Finish(h)
  /\ UNCHANGED <<clock, cluster, wire, calls>>

\* The caller's context is cancelled, or the hub crashes; the patch may
\* still be on the wire.
Abandon(h) ==
  /\ hub[h].at \in {"read", "patching"}
  /\ crashes < MaxCrashes
  /\ crashes' = crashes + 1
  /\ \E at \in {"idle", "down"} : hub' = [hub EXCEPT ![h] = [Idle EXCEPT !.at = at]]
  /\ copy' = [copy EXCEPT ![h] = None]
  /\ UNCHANGED <<clock, cluster, wire, requests, edits, answer>>

-----------------------------------------------------------------------------
(* Kubernetes.                                                             *)

\* Every copy and every patch on the wire is out of date.
Stale(copies) == [h \in Hubs |-> IF copies[h] = None THEN None
                                 ELSE [copies[h] EXCEPT !.fresh = FALSE]]
StaleWire(patches) == {[p EXCEPT !.fresh = FALSE] : p \in patches}

\* Write d to the DaemonSet; a change of the pod template is a new generation.
WriteDS(d, patches) ==
  /\ ds' = d
  /\ IF d = ds THEN copy' = copy /\ wire' = patches
     ELSE copy' = Stale(copy) /\ wire' = StaleWire(patches)
  /\ IF d.disabled = ds.disabled /\ d.legacy = ds.legacy
     THEN UNCHANGED <<seen, status>>
     ELSE seen' = [seen EXCEPT !.latest = FALSE] /\ status' = [status EXCEPT !.observed = FALSE]

\* The API server processes a patch: the merge patch, or 409 Conflict.
ApplyPatch ==
  /\ \E p \in wire :
       IF p.fresh
       THEN WriteDS([state |-> p.state, expiry |-> p.expiry,
                     disabled |-> p.state = "stopped", legacy |-> FALSE], wire \ {p})
       ELSE wire' = wire \ {p} /\ UNCHANGED <<ds, seen, status, copy>>
  /\ UNCHANGED <<clock, workers, hub, calls>>

\* Another writer (a chart sync without the documented exclusions, an older
\* hub) changes the selector or brings back the gate.
OtherWriter ==
  /\ edits < MaxEdits
  /\ edits' = edits + 1
  /\ \E dis, leg \in BOOLEAN : WriteDS([ds EXCEPT !.disabled = dis, !.legacy = leg], wire)
  /\ UNCHANGED <<clock, workers, hub, requests, crashes, answer>>

\* The DaemonSet controller: sees the spec, starts and removes pods one at a
\* time, and writes a status about the spec it has seen.
ControllerSees ==
  /\ ~seen.latest
  /\ seen' = [disabled |-> ds.disabled, legacy |-> ds.legacy, latest |-> TRUE]
  /\ UNCHANGED <<clock, ds, status, workers, hub, copy, wire, calls>>

WorkerStarts ==
  /\ ~seen.disabled /\ ~seen.legacy
  /\ workers < Nodes
  /\ workers' = workers + 1
  /\ UNCHANGED <<clock, ds, status, seen, hub, copy, wire, calls>>

WorkerStops ==
  /\ seen.disabled
  /\ workers > 0
  /\ workers' = workers - 1
  /\ UNCHANGED <<clock, ds, status, seen, hub, copy, wire, calls>>

ControllerStatus ==
  LET st == [observed |-> seen.latest, desired |-> IF seen.disabled THEN 0 ELSE Nodes,
             pods |-> workers] IN
  /\ st # status
  /\ status' = st
  /\ copy' = Stale(copy)
  /\ wire' = StaleWire(wire)
  /\ UNCHANGED <<clock, ds, seen, workers, hub, calls>>

Tick ==
  /\ clock < MaxTime
  /\ clock' = clock + 1
  /\ UNCHANGED <<cluster, hub, copy, wire, calls>>

-----------------------------------------------------------------------------
Operation(h) == \/ StartRead(h) \/ StopRead(h) \/ ReconcileRead(h)
                \/ StartDecide(h) \/ StopDecide(h) \/ ReconcileDecide(h)
                \/ PatchAnswered(h)
                \/ SessionRead(h) \/ SessionFails(h) \/ SessionDecide(h)

Next == \/ \E h \in Hubs : HubUp(h) \/ Operation(h) \/ Abandon(h)
        \/ ApplyPatch \/ OtherWriter
        \/ ControllerSees \/ WorkerStarts \/ WorkerStops \/ ControllerStatus
        \/ Tick

Spec == Init /\ [][Next]_vars

\* A hub that is down is restarted, its loop keeps ticking and its calls are
\* answered; the API server and the controller make progress; time passes.
Fairness ==
  /\ \A h \in Hubs : /\ WF_vars(HubUp(h))
                     /\ WF_vars(ReconcileRead(h))
                     /\ WF_vars(StartDecide(h) \/ StopDecide(h) \/ ReconcileDecide(h) \/ SessionDecide(h))
                     /\ WF_vars(PatchAnswered(h))
  /\ WF_vars(ApplyPatch) /\ WF_vars(Tick)
  /\ WF_vars(ControllerSees) /\ WF_vars(ControllerStatus)
  /\ WF_vars(WorkerStarts) /\ WF_vars(WorkerStops)

FairSpec == Spec /\ Fairness

-----------------------------------------------------------------------------
(* Properties.                                                             *)

\* "stopped" without an error is only ever reported when no worker captured as
\* the API server was asked: the controller had seen the disabled selector and
\* its last pod was gone, also if the session expires or is started between the
\* read and the answer (capture.go:213-216).  When the read fails the handler
\* answers "stopped" all the same, with an error and with workers that may
\* capture (server.go:639-644): a reader of the state must look at the error.
StoppedMeansStopped ==
  /\ describe(ds, status, clock) = "stopped" => workers = 0
  /\ \A h \in Hubs : answer[h].state = "stopped" => answer[h].error \/ answer[h].workers = 0

Active == ds.state = "running" /\ ds.expiry > clock

\* An active session is never extended or replaced by another: not by a
\* retried start, two hubs starting at once, a patch applied after its caller
\* gave up, or a repair (capture.go:130-133, 188, 274-277).
ActiveNeverExtended ==
  [][Active /\ ds'.state = "running" => ds'.expiry = ds.expiry]_vars

\* A stop is never undone by something that read the DaemonSet before it:
\* only a start that has seen the session not active makes it run again
\* (capture.go:188-203, 274-277).
OnlyStartRestarts ==
  [][ds.state = "stopped" /\ ds'.state = "running" =>
       \E p \in wire : p.op = "start" /\ p.fresh]_vars

\* A session past its expiry ends up reported as stopped, workers gone, or is
\* followed by a new one, also after hub crashes and lost calls
\* (capture.go:171-204).
ExpiredStops ==
  (ds.state = "running" /\ ds.expiry # NoExpiry /\ ds.expiry <= clock)
    ~> (describe(ds, status, clock) = "stopped" \/ Active)

\* Whatever other writers do to the selector and the gate is repaired
\* (capture.go:188-189).
RepairConverges == NeedsRepair(ds, clock) ~> ~NeedsRepair(ds, clock)

\* Sessions end: expired ones stop, and what others break is repaired
\* (capture.go:171-204).
SessionsEnd == ExpiredStops /\ RepairConverges
=============================================================================
