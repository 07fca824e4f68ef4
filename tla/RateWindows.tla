----------------------------- MODULE RateWindows -----------------------------
(***************************************************************************)
(* The per-second buckets behind the hub's rates (internal/hub/store.go).  *)
(*                                                                         *)
(* store.add reads the clock before it takes the store's lock and folds    *)
(* the entry into a bucket under it, so the time it works with may be      *)
(* over; the entry's own timestamp comes from another node's clock.  stats *)
(* reads the clock before its lock too.  Errors and warnings are counted   *)
(* like entries and left out.                                              *)
(***************************************************************************)
EXTENDS Integers, FiniteSets, Functions

CONSTANTS
  Adders,                             \* goroutines in store.add
  rateWindowSeconds, liveRateSeconds, \* the buckets, and the width of the live rate
  MaxEntries, MaxSeconds              \* bounds

\* The live rate is one of the rates the buckets can answer.
RatesAssumption ==
  /\ rateWindowSeconds \in Nat \ {0} /\ liveRateSeconds \in 0 .. rateWindowSeconds
  /\ MaxSeconds \in Nat

VARIABLES
  clock,
  rate,   \* the buckets: [sec, entries]
  adder,  \* adder[a]: the second of the entry it is adding, 0 if none
  asked,  \* the time a call of stats has read, 0 if there is none
  added,  \* ghost: added[s], the entries of second s folded in
  late    \* ghost: an entry was folded in after its second had left the window

vars == <<clock, rate, adder, asked, added, late>>

Start == rateWindowSeconds  \* seconds are positive
Seconds == 1 .. Start + MaxSeconds

CountUpTo(T) == SumFunctionOnSet(added, T)

Init ==
  /\ clock = Start
  /\ rate = [i \in 0 .. rateWindowSeconds - 1 |-> [sec |-> 0, entries |-> 0]]
  /\ adder = [a \in Adders |-> 0] /\ asked = 0
  /\ added = [s \in Seconds |-> 0] /\ late = FALSE

Tick == /\ clock < Start + MaxSeconds /\ clock' = clock + 1
        /\ UNCHANGED <<rate, adder, asked, added, late>>

\* store.add reads the clock; a timestamp in the future counts as now, and one
\* older than the window counts for nothing.
ReadClock(a) ==
  /\ adder[a] = 0
  /\ CountUpTo(Seconds) + Cardinality({b \in Adders : adder[b] # 0}) < MaxEntries
  /\ \E stamp \in clock - rateWindowSeconds .. clock + 1 :
       LET sec == IF stamp > clock THEN clock ELSE stamp IN
         /\ clock - sec < rateWindowSeconds
         /\ adder' = [adder EXCEPT ![a] = sec]
  /\ UNCHANGED <<clock, rate, asked, added, late>>

BucketOf(sec) == sec % rateWindowSeconds

\* Mutant of Folded: a bucket is not reset for a new second.
FoldedKeep(b, sec) == [sec |-> sec, entries |-> b.entries + 1]

\* The bucket after an entry of second sec: one of another second starts over.
Folded(b, sec) == [sec |-> sec, entries |-> IF b.sec = sec THEN b.entries + 1 ELSE 1]

\* Under the store's lock.
observeRate(a) ==
  LET sec == adder[a] IN
    /\ sec # 0
    /\ rate' = [rate EXCEPT ![BucketOf(sec)] = Folded(@, sec)]
    /\ added' = [added EXCEPT ![sec] = @ + 1]
    /\ late' = (late \/ clock - sec >= rateWindowSeconds)
    /\ adder' = [adder EXCEPT ![a] = 0]
    /\ UNCHANGED <<clock, asked>>

\* stats reads the clock ...
StatsReadClock ==
  /\ asked = 0 /\ asked' = clock
  /\ UNCHANGED <<clock, rate, adder, added, late>>

\* ... and sums the buckets, under the store's lock for reading.
StatsAnswer ==
  /\ asked # 0 /\ asked' = 0
  /\ UNCHANGED <<clock, rate, adder, added, late>>

Next == \/ Tick \/ StatsReadClock \/ StatsAnswer
        \/ \E a \in Adders : ReadClock(a) \/ observeRate(a)

Spec == Init /\ [][Next]_vars

\* The entries stats reports for a window of so many seconds, at the time now.
windows(width, now) ==
  SumFunction([i \in {i \in DOMAIN rate : now - rate[i].sec >= 0 /\ now - rate[i].sec < width} |->
                 rate[i].entries])

-----------------------------------------------------------------------------
(* Properties.                                                             *)

\* The seconds of a window, and those of them whose buckets a later second
\* took while stats waited for the lock.
Window(width) == {s \in Seconds : asked - s \in 0 .. width - 1}
Taken == {s \in Seconds :
            \E t \in Seconds : t > asked /\ BucketOf(t) = BucketOf(s) /\ added[t] > 0}

\* Whenever stats may answer, a rate is the number of the entries of its
\* seconds, and decays to nothing: a bucket reused a whole window later takes
\* nothing over and gives nothing up early.  Two orders of steps break that,
\* and only downwards.  A call of stats that waits for the lock while the clock
\* moves misses the seconds whose buckets have been taken since, and no others.
\* An adder that waits for the lock with an entry at the window's far edge,
\* until that second is over, takes the bucket away from the second that has
\* it now (observeRate, store.go:189-211, stats, store.go:427-457).
RatesAreExact ==
  asked # 0 => \A width \in {liveRateSeconds, rateWindowSeconds} :
    /\ windows(width, asked) <= CountUpTo(Window(width))
    /\ late \/ windows(width, asked) = CountUpTo(Window(width) \ Taken)
=============================================================================
