------------------------------ MODULE HubHistory ------------------------------
(***************************************************************************)
(* What the hub store promises its readers: a bounded history that keeps,  *)
(* of everything added so far, the longest run of most recent entries that *)
(* fits both bounds.  HubStore implements it (HubStoreRefinement).         *)
(***************************************************************************)
EXTENDS Integers, Sequences

CONSTANTS Capacity, ByteBudget

VARIABLE hist  \* retained entries, oldest first

\* The bytes of the suffix of s that starts at position i.
SuffixBytes(s) ==
  LET bytes[i \in 1 .. Len(s) + 1] ==
        IF i = Len(s) + 1 THEN 0 ELSE s[i].len + bytes[i + 1]
  IN bytes

\* The longest suffix of s that is within the capacity and the budget.
Trim(s) ==
  LET bytes == SuffixBytes(s)
      fits(i) == Len(s) - i < Capacity /\ bytes[i] <= ByteBudget
  IN SubSeq(s, CHOOSE i \in 1 .. Len(s) + 1 :
                  fits(i) /\ \A j \in 1 .. i - 1 : ~fits(j), Len(s))

Init == hist = <<>>

\* An entry that fits on its own is recorded and never trimmed at once.
Record ==
  /\ hist' # <<>>
  /\ hist' = Trim(Append(hist, hist'[Len(hist')]))

Spec == Init /\ [][Record]_hist
=============================================================================
