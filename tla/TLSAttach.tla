------------------------------ MODULE TLSAttach ------------------------------
(***************************************************************************)
(* Which TLS libraries carry uprobes (internal/worker/ebpf/attach.go and   *)
(* the attachments of loader.go).  scanLoop walks /proc pid by pid while   *)
(* processes come and go and map libraries, attaches the ones it finds for *)
(* the first time (one attachment per inode, whoever maps it) and detaches *)
(* the ones it has not seen for the grace period.  Close may come at any   *)
(* moment.                                                                 *)
(***************************************************************************)
EXTENDS Integers, FiniteSets

CONSTANTS Pids, Libs, grace, MaxStarts

\* What the proofs use of the constants.
AttachAssumption == grace \in Nat

VARIABLES
  procs,     \* running processes: pid -> [libs, readable]
  starts,    \* history: processes started
  attached,  \* library -> scans since it was last seen
  scan,      \* idle, walking, done
  todo,      \* pids ReadDir listed and the walk has not reached
  targets,   \* libraries found so far
  complete,  \* every pid could be read
  steady,    \* history: <<pid, library>> mapped ever since the walk began
  source     \* none, open, closing, closed

vars == <<procs, starts, attached, scan, todo, targets, complete, steady, source>>
walk == <<scan, todo, targets, complete>>

Init ==
  /\ procs = <<>> /\ starts = 0
  /\ attached = <<>> /\ scan = "idle" /\ todo = {} /\ targets = {} /\ complete = TRUE
  /\ steady = {} /\ source = "none"

Only(m, ks) == [k \in DOMAIN m \cap ks |-> m[k]]

-----------------------------------------------------------------------------
(* The node.                                                               *)

StartProcess ==
  /\ starts < MaxStarts /\ starts' = starts + 1
  /\ \E p \in Pids \ DOMAIN procs, ls \in SUBSET Libs, r \in BOOLEAN :
       procs' = [q \in DOMAIN procs \cup {p} |->
                   IF q = p THEN [libs |-> ls, readable |-> r] ELSE procs[q]]
  /\ UNCHANGED <<attached, walk, steady, source>>

Exit ==
  /\ \E p \in DOMAIN procs :
       /\ procs' = Only(procs, Pids \ {p})
       /\ steady' = {s \in steady : s[1] # p}
  /\ UNCHANGED <<starts, attached, walk, source>>

\* A running process maps other libraries: dlopen, dlclose, exec.
MapLibraries ==
  /\ \E p \in DOMAIN procs, ls \in SUBSET Libs, r \in BOOLEAN :
       /\ procs' = [procs EXCEPT ![p] = [libs |-> ls, readable |-> r]]
       /\ steady' = {s \in steady : s[1] # p \/ s[2] \in ls}
  /\ UNCHANGED <<starts, attached, walk, source>>

-----------------------------------------------------------------------------
(* The source.                                                             *)

\* startTLSCapture: New may fail, and then there is no TLS capture; Attach
\* starts the loops (a kprobe that fails is only logged).
startTLSCapture ==
  /\ source = "none" /\ source' \in {"open", "closed"}
  /\ UNCHANGED <<procs, starts, attached, walk, steady>>

\* rescan begins with the list of pids.
rescan ==
  /\ source = "open" /\ scan = "idle"
  /\ scan' = "walking" /\ todo' = DOMAIN procs /\ targets' = {} /\ complete' = TRUE
  /\ steady' = {s \in (DOMAIN procs) \X Libs : s[2] \in procs[s[1]].libs}
  /\ UNCHANGED <<procs, starts, attached, source>>

\* One pid's maps: gone or unreadable, and the walk is not complete.
scanPidMaps(p) == IF p \in DOMAIN procs /\ procs[p].readable THEN {procs[p].libs} ELSE {}

discoverTargets ==
  /\ scan = "walking"
  /\ \/ \E p \in todo :
          /\ todo' = todo \ {p}
          /\ targets' = targets \cup UNION scanPidMaps(p)
          /\ complete' = (complete /\ scanPidMaps(p) # {})
          /\ UNCHANGED scan
     \/ todo = {} /\ scan' = "done" /\ UNCHANGED <<todo, targets, complete>>
  /\ UNCHANGED <<procs, starts, attached, steady, source>>

\* A library without symbols, or that can no longer be opened, is tried again
\* by the next scan; one of an unsupported kind counts as attached.
attachTarget == BOOLEAN

\* Mutant of Overdue: also after a walk that could not read every process.
OverdueAnyway(seen, k) == seen[k] > grace

\* Detached, if the walk was complete, when last seen longer ago than the grace.
Overdue(seen, k) == complete /\ seen[k] > grace

reconcileAttachments ==
  /\ scan = "done" /\ scan' = "idle"
  /\ \E ok \in [targets \ DOMAIN attached -> attachTarget] :
       LET new == {l \in DOMAIN ok : ok[l]}
           seen == [l \in DOMAIN attached \cup new |->
                      IF l \in targets THEN 0
                      ELSE IF attached[l] > grace THEN attached[l] ELSE attached[l] + 1]
       IN  attached' = Only(seen, {l \in DOMAIN seen : ~Overdue(seen, l)})
  /\ UNCHANGED <<procs, starts, todo, targets, complete, steady, source>>

\* The context ends or the ledger overflows.
Close ==
  /\ source = "open" /\ source' = "closing"
  /\ UNCHANGED <<procs, starts, attached, walk, steady>>

\* Close waits for scanLoop, which ends between two scans, and detaches all.
closeAttachments ==
  /\ source = "closing" /\ scan = "idle"
  /\ source' = "closed" /\ attached' = <<>>
  /\ UNCHANGED <<procs, starts, walk, steady>>

Next == \/ StartProcess \/ Exit \/ MapLibraries \/ startTLSCapture \/ rescan \/ discoverTargets
        \/ reconcileAttachments \/ Close \/ closeAttachments

Spec == Init /\ [][Next]_vars

-----------------------------------------------------------------------------
(* Properties.                                                             *)

\* A scan removes the probes of a library only if no process has had it mapped
\* from before the scan to the removal, whether its maps can be read or not: a
\* library somebody keeps using is not detached because the scan missed it, one
\* first mapped behind the back of the walk may be, until the next scan
\* (attach.go:69-91, loader.go:350-367).  And none is left behind when the source
\* has closed, also if a scan was under way (loader.go:383-397).
ProbesOnlyWhereNeeded ==
  [][/\ \A l \in DOMAIN attached \ DOMAIN attached' :
          source' # "closed" => \A s \in steady : s[2] # l
     /\ source' = "closed" => DOMAIN attached' = {}]_vars
=============================================================================
