-------------------------- MODULE HubStoreRefinement --------------------------
(***************************************************************************)
(* HubStore implements HubHistory.  The abstract history is the ring read  *)
(* from its oldest live slot to its newest, trimmed to the bounds: an add  *)
(* takes effect when it places its entry, and the iterations of the byte-  *)
(* budget loop that follow under the same lock are stutters.               *)
(***************************************************************************)
EXTENDS HubStore, FiniteSetsExt

\* The live slots, oldest first.
ringContents == [i \in 1 .. live |-> buf[SlotOfAge(live - i)]]

Trimmer == INSTANCE HubHistory WITH hist <- ringContents

trimmed == Trimmer!Trim(ringContents)

History == INSTANCE HubHistory WITH hist <- trimmed

\* Readers of the ring always see the longest run of most recent entries
\* that fits the capacity and the byte budget: the entry just added is in
\* it, eviction is oldest-first, and no more is evicted than must be, for
\* every interleaving of adds (store.go:123-175, 230-244).
ImplementsHistory == History!Spec

\* retainedBytes is the sum of the cached JSON lengths, at every point of
\* the critical section: no eviction path forgets to give bytes back or
\* gives them back twice (store.go:147, 153, 163).
BytesAreSum ==
  retainedBytes = FoldSet(LAMBDA i, acc : RawLen(raw[i]) + acc, 0, Slots)
=============================================================================
