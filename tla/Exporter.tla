------------------------------ MODULE Exporter ------------------------------
(***************************************************************************)
(* The hub's export sink (internal/hub/export.go).  Ingestion queues       *)
(* entries without ever waiting; one goroutine writes them to a JSONL file *)
(* with rotation and posts them in batches to a webhook.  Either may be    *)
(* configured.  Files, renames and posts fail; the hub stops or crashes,   *)
(* in the middle of a rotation too, and starts again on the same files.    *)
(***************************************************************************)
EXTENDS Integers, Sequences, FiniteSets, SequencesExt

CONSTANTS
  exportBufferSize, exportFileRotations, exportWebhookMaxBatch,
  FileMax,       \* entries in a file when it is rotated
  MaxEntries, MaxFaults   \* bounds

\* There is a file to rotate to, and files hold entries.
ExportAssumption ==
  exportFileRotations \in Nat \ {0} /\ FileMax \in Nat \ {0}

VARIABLES
  webhook,   \* a webhook is configured (a file always is)
  n,         \* entries ingested so far
  ch,        \* queued entries
  live,      \* the live file, or "none"
  old,       \* old[i]: the file <path>.i, or "none"
  file,      \* the backend: open, closed (disabled)
  rot,       \* the rotation: 0, or the next file to rename; -1 the live one
  batch,     \* entries for the next post
  posted,    \* entries the webhook has
  counted,   \* entries the drop counter counts
  crashed,   \* history: entries lost in a crash
  run,       \* running, stopping, done
  faults     \* failures so far

vars == <<webhook, n, ch, live, old, file, rot, batch, posted, counted, crashed, run, faults>>
disk == <<live, old, file, rot>>
hook == <<batch, posted>>

Absent == <<-1>>

Init ==
  /\ webhook \in BOOLEAN
  /\ n = 0 /\ ch = <<>> /\ batch = <<>> /\ posted = <<>>
  /\ live = Absent /\ old = [i \in 1 .. exportFileRotations |-> Absent]
  /\ file = "closed" /\ rot = 0 /\ counted = {} /\ crashed = {}
  /\ run = "starting" /\ faults = 0

\* A call that may fail.
Fails == faults < MaxFaults /\ faults' = faults + 1
Works == UNCHANGED faults

-----------------------------------------------------------------------------
\* export never waits: the newest entry is dropped and counted.
export ==
  /\ n < MaxEntries /\ n' = n + 1
  /\ IF Len(ch) < exportBufferSize THEN ch' = Append(ch, n') /\ UNCHANGED counted
     ELSE counted' = counted \cup {n'} /\ UNCHANGED ch
  /\ UNCHANGED <<webhook, disk, hook, crashed, run, faults>>

\* openFile appends to what is there.
openFile ==
  \/ Works /\ file' = "open" /\ live' = IF live = Absent THEN <<>> ELSE live
  \/ Fails /\ file' = "closed" /\ UNCHANGED live

Start ==
  /\ run = "starting" /\ run' = "running" /\ openFile
  /\ UNCHANGED <<webhook, n, ch, old, rot, hook, counted, crashed>>

\* The file takes the entry, or a failed write, which here leaves no part of it,
\* disables it.
writeFile(e) ==
  \/ file = "closed" /\ Works /\ UNCHANGED <<live, file, rot>>
  \/ /\ file = "open" /\ Works
     /\ live' = Append(live, e)
     /\ IF Len(live') >= FileMax
        THEN file' = "closed" /\ rot' = exportFileRotations
        ELSE UNCHANGED <<file, rot>>
  \/ file = "open" /\ Fails /\ file' = "closed" /\ UNCHANGED <<live, rot>>

\* Mutant of countDrops: one for the batch.
countDropsOnce(es) == counted \cup {Head(es)}

\* Every entry of the batch.
countDrops(es) == counted \cup ToSet(es)

\* One post at a time; a batch that fails is counted and gone.  A post that
\* times out may have arrived.
flushWebhook(es) ==
  /\ batch' = <<>>
  /\ \/ Works /\ posted' = posted \o es /\ UNCHANGED counted
     \/ /\ Fails /\ counted' = countDrops(es)
        /\ posted' \in {posted, posted \o es}

\* consume: the file, then the webhook's batch, posted when it is full.
consume ==
  /\ run \in {"running", "stopping"} /\ rot = 0 /\ ch # <<>>
  /\ Len(batch) < exportWebhookMaxBatch
  /\ ch' = Tail(ch) /\ writeFile(Head(ch))
  /\ batch' = IF webhook THEN Append(batch, Head(ch)) ELSE batch
  /\ UNCHANGED <<webhook, n, old, posted, counted, crashed, run>>

FlushFull ==
  /\ run \in {"running", "stopping"} /\ rot = 0 /\ Len(batch) >= exportWebhookMaxBatch
  /\ flushWebhook(batch)
  /\ UNCHANGED <<webhook, n, ch, disk, crashed, run>>

\* The ticker.
FlushTick ==
  /\ run = "running" /\ rot = 0 /\ batch # <<>>
  /\ flushWebhook(batch)
  /\ UNCHANGED <<webhook, n, ch, disk, crashed, run>>

-----------------------------------------------------------------------------
(* rotate: the oldest file is removed, the others move up from the oldest  *)
(* to the newest, the live one becomes the first and a new one is opened.  *)

\* <path>.i becomes <path>.i+1, in place of what is there; an error is ignored.
shift(i) ==
  \/ Works /\ old[i] # Absent /\ old' = [old EXCEPT ![i + 1] = old[i], ![i] = Absent]
  \/ Works /\ old[i] = Absent /\ UNCHANGED old
  \/ Fails /\ UNCHANGED old

rotate ==
  /\ rot # 0
  /\ \/ /\ rot = exportFileRotations
        /\ \/ Works /\ old' = [old EXCEPT ![rot] = Absent]
           \/ Fails /\ UNCHANGED old
        /\ rot' = IF rot = 1 THEN -1 ELSE rot - 1
        /\ UNCHANGED <<live, file>>
     \/ /\ rot \in 1 .. exportFileRotations - 1
        /\ shift(rot) /\ rot' = (IF rot = 1 THEN -1 ELSE rot - 1)
        /\ UNCHANGED <<live, file>>
     \/ /\ rot = -1 /\ rot' = 0
        /\ \/ Fails /\ UNCHANGED <<live, old, file>>
           \/ Works /\ old' = [old EXCEPT ![1] = live] /\ live' = <<>> /\ file' = "open"
           \/ Fails /\ old' = [old EXCEPT ![1] = live] /\ live' = Absent /\ UNCHANGED file
  /\ UNCHANGED <<webhook, n, ch, hook, counted, crashed, run>>

-----------------------------------------------------------------------------
\* The context ends: what is queued is drained, the last batch is posted.
Stop ==
  /\ run = "running" /\ rot = 0 /\ run' = "stopping"
  /\ UNCHANGED <<webhook, n, ch, disk, hook, counted, crashed, faults>>

Finish ==
  /\ run = "stopping" /\ rot = 0 /\ ch = <<>> /\ Len(batch) < exportWebhookMaxBatch
  /\ IF batch = <<>> THEN UNCHANGED <<hook, counted, faults>> ELSE flushWebhook(batch)
  /\ run' = "done" /\ file' = "closed"
  /\ UNCHANGED <<webhook, n, ch, live, old, rot, crashed>>

\* The hub crashes and starts again; the files are what they were.
Crash ==
  /\ faults < MaxFaults /\ faults' = faults + 1
  /\ run' = "starting" /\ ch' = <<>> /\ batch' = <<>> /\ rot' = 0 /\ file' = "closed"
  /\ crashed' = crashed \cup ToSet(ch) \cup ToSet(batch)
  /\ UNCHANGED <<webhook, n, live, old, posted, counted>>

Next == \/ export \/ Start \/ consume \/ FlushFull \/ FlushTick \/ rotate
        \/ Stop \/ Finish \/ Crash

Fairness == /\ WF_vars(Start) /\ WF_vars(consume) /\ WF_vars(FlushFull)
            /\ WF_vars(rotate) /\ WF_vars(Finish)

Spec == Init /\ [][Next]_vars

-----------------------------------------------------------------------------
(* Properties.                                                             *)

\* The webhook gets entries in order and none twice, and one it does not get is
\* queued, counted as dropped, or was lost in a crash: a buffer that is full
\* and a post that fails are both counted entry by entry (export.go:133-144,
\* 280-316).
NoSilentDrop ==
  webhook =>
    /\ \A i \in 1 .. Len(posted) - 1 : posted[i] < posted[i + 1]
    /\ 1 .. n = ToSet(posted) \cup ToSet(ch) \cup ToSet(batch) \cup counted \cup crashed
    /\ counted \cap (ToSet(ch) \cup ToSet(batch)) = {}

Content(f) == IF f = Absent THEN <<>> ELSE f

\* The export as read from the oldest file to the live one.
Chronicle ==
  LET from[i \in 0 .. exportFileRotations] ==
        IF i = 0 THEN Content(live) ELSE Content(old[i]) \o from[i - 1]
  IN  from[exportFileRotations]

\* Read from the oldest file to the live one, the export is in order with no
\* entry twice, whichever renames failed and wherever a crash interrupted a
\* rotation; and the files do not grow past the limit but for a live file that
\* could not be moved (export.go:228-265).
FilesInOrder ==
  /\ \A i \in 1 .. Len(Chronicle) - 1 : Chronicle[i] < Chronicle[i + 1]
  /\ \A i \in 1 .. exportFileRotations : old[i] # Absent => Len(old[i]) <= FileMax + faults

\* A stop drains: the goroutine always gets to its end, where nothing queued
\* before the stop is left (export.go:178-189).
StopDrains == run = "stopping" ~> run # "stopping"
=============================================================================
