----------------------------- MODULE CapturePause -----------------------------
(***************************************************************************)
(* Pausing capture inside a worker: sink.reader (internal/worker/sink.go)  *)
(* receives the hub's commands, captureLoop (internal/worker/worker.go)    *)
(* closes and reopens the AF_PACKET source.                                *)
(*                                                                         *)
(* They share an atomic flag and a wake-up channel of one slot.  A reader  *)
(* sets the flag, then signals if the flag changed; a signal that finds    *)
(* the slot taken is dropped.  The loop takes the signal, then looks at    *)
(* the flag, then acts on what it saw.  The reader of a lost connection    *)
(* may still be at work when the next connection has its own.              *)
(*                                                                         *)
(* This is the live source (reopen is not nil); pcap replay and demo only  *)
(* look at the flag.                                                       *)
(***************************************************************************)
CONSTANT Readers  \* sink.reader goroutines

VARIABLES
  capturePaused,  \* the flag
  pauseChanged,   \* the slot of the wake-up channel is taken
  rpc,            \* rpc[r]: idle, or about to signal
  loop,           \* captureLoop: select, woken, closing, opening
  src,            \* the source is open
  captureLive,    \* what the worker reports
  broken          \* why the source is closed though nobody paused it

vars == <<capturePaused, pauseChanged, rpc, loop, src, captureLive, broken>>

TypeOK ==
  /\ capturePaused \in BOOLEAN /\ pauseChanged \in BOOLEAN
  /\ rpc \in [Readers -> {"idle", "signalling"}]
  /\ loop \in {"select", "woken", "closing", "opening"}
  /\ src \in BOOLEAN /\ captureLive \in BOOLEAN
  /\ broken \in {"no", "reopen failed", "stream ended"}

Init ==
  /\ capturePaused = FALSE /\ pauseChanged = FALSE
  /\ rpc = [r \in Readers |-> "idle"]
  /\ loop = "select" /\ src = TRUE /\ captureLive = TRUE /\ broken = "no"

-----------------------------------------------------------------------------
(* sink.reader                                                             *)

\* Mutant of Command: only a pause wakes the loop.
CommandWakesOnPause(r) ==
  /\ rpc[r] = "idle"
  /\ \E paused \in BOOLEAN :
       /\ capturePaused' = paused
       /\ rpc' = [rpc EXCEPT ![r] = IF paused /\ ~capturePaused THEN "signalling" ELSE "idle"]
  /\ UNCHANGED <<pauseChanged, loop, src, captureLive, broken>>

\* A command: swap the flag.
Command(r) ==
  /\ rpc[r] = "idle"
  /\ \E paused \in BOOLEAN :
       /\ capturePaused' = paused
       /\ rpc' = [rpc EXCEPT ![r] = IF paused # capturePaused THEN "signalling" ELSE "idle"]
  /\ UNCHANGED <<pauseChanged, loop, src, captureLive, broken>>

\* Wake the loop, or find that it has not taken the last wake-up yet.
Signal(r) ==
  /\ rpc[r] = "signalling"
  /\ pauseChanged' = TRUE
  /\ rpc' = [rpc EXCEPT ![r] = "idle"]
  /\ UNCHANGED <<capturePaused, loop, src, captureLive, broken>>

-----------------------------------------------------------------------------
(* captureLoop                                                             *)

Wake ==
  /\ loop = "select"
  /\ pauseChanged
  /\ pauseChanged' = FALSE
  /\ loop' = "woken"
  /\ UNCHANGED <<capturePaused, rpc, src, captureLive, broken>>

\* Look at the flag; nothing to do if the source already is as it says.
CheckPaused ==
  /\ loop = "woken"
  /\ loop' = IF capturePaused THEN IF src THEN "closing" ELSE "select"
             ELSE IF src THEN "select" ELSE "opening"
  /\ UNCHANGED <<capturePaused, pauseChanged, rpc, src, captureLive, broken>>

CloseSource ==
  /\ loop = "closing"
  /\ src' = FALSE
  /\ captureLive' = FALSE
  /\ loop' = "select"
  /\ UNCHANGED <<capturePaused, pauseChanged, rpc, broken>>

\* reopen() succeeds ...
Reopen ==
  /\ loop = "opening"
  /\ src' = TRUE
  /\ captureLive' = TRUE
  /\ broken' = "no"
  /\ loop' = "select"
  /\ UNCHANGED <<capturePaused, pauseChanged, rpc>>

\* ... or fails, and is not tried again before the next edge.
ReopenFails ==
  /\ loop = "opening"
  /\ broken' = "reopen failed"
  /\ loop' = "select"
  /\ UNCHANGED <<capturePaused, pauseChanged, rpc, src, captureLive>>

\* The packet channel closes by itself.
StreamEnds ==
  /\ loop = "select"
  /\ src
  /\ src' = FALSE
  /\ captureLive' = FALSE
  /\ broken' = "stream ended"
  /\ UNCHANGED <<capturePaused, pauseChanged, rpc, loop>>

-----------------------------------------------------------------------------
captureLoop == Wake \/ CheckPaused \/ CloseSource \/ Reopen \/ ReopenFails \/ StreamEnds

Next == captureLoop \/ \E r \in Readers : Command(r) \/ Signal(r)

Spec == Init /\ [][Next]_vars

\* Goroutines that can run do run.  The hub owes no commands.
Fairness ==
  /\ \A r \in Readers : WF_vars(Signal(r))
  /\ WF_vars(Wake \/ CheckPaused \/ CloseSource \/ Reopen \/ ReopenFails)

FairSpec == Spec /\ Fairness

-----------------------------------------------------------------------------
(* Properties.                                                             *)

\* Nothing is under way that will make the loop look at the flag.
AtRest == loop = "select" /\ ~pauseChanged /\ \A r \in Readers : rpc[r] = "idle"

\* No wake-up is lost: once nothing is under way the source is closed if the
\* worker is paused, and open if it is not, unless it broke; and captureLive
\* tells which (sink.go:241-247, worker.go:225-253).
NoLostWakeup ==
  AtRest => /\ capturePaused => ~src
            /\ ~capturePaused => src \/ broken # "no"
            /\ captureLive = src

\* A pause that is not taken back closes the source, a resume opens it or
\* fails trying (worker.go:225-253).
CommandTakesEffect ==
  /\ capturePaused ~> (~src \/ ~capturePaused)
  /\ ~capturePaused ~> (src \/ broken # "no" \/ capturePaused)
=============================================================================
