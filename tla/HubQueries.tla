------------------------------ MODULE HubQueries ------------------------------
(***************************************************************************)
(* Readers of the hub store: GET /api/entries walked backwards page by     *)
(* page, and GET /api/stats (internal/hub/store.go and server.go), running *)
(* against the concurrent adds of HubStore.                                *)
(*                                                                         *)
(* A walker models both clients of the pagination: the dashboard's         *)
(* loadOlder (ui/src/useHub.ts) and the MCP server's list_entries (its     *)
(* "next page" hint).  Both take the last entry of a page, the oldest in   *)
(* ring order, as the anchor of the next one: by sequence number           *)
(* (before_seq) or, for an entry without one, by id (before).              *)
(*                                                                         *)
(* A query copies the ring under the read lock and filters the copy after  *)
(* it is released; entries are immutable, so one step models both.         *)
(***************************************************************************)
EXTENDS HubStore, FiniteSetsExt

CONSTANTS
  Walkers,  \* clients paging through history
  Pollers,  \* clients of /api/stats
  Match,    \* the protocols the walkers' IFL filter lets through
  Limit     \* page size

ASSUME LimitAssumption == Limit \in Nat \ {0}
ASSUME MatchAssumption == Match \subseteq Protocols
ASSUME ProtocolsAssumption == IsFiniteSet(Protocols)

VARIABLES
  walk,     \* walk[r]: state of a walker
  sample,   \* sample[q]: state and last answer of a stats poller
  arrivals  \* history: sequence numbers in the order they entered the ring

queryVars == <<walk, sample, arrivals>>
allVars == <<vars, queryVars>>

NoWalk == [at |-> "idle", by |-> "seq", cursor |-> 0, anchor |-> Nil,
           page |-> {}, seen |-> {}, start |-> {}, lost |-> FALSE]
NoSample == [at |-> "idle", before |-> 0, total |-> 0,
             byProtocol |-> [p \in Protocols |-> 0]]

QueryTypeOK ==
  /\ TypeOK
  /\ walk \in [Walkers ->
       [at : {"idle", "paging", "done"}, by : {"seq", "id"},
        cursor : Nat, anchor : IDs \cup {Nil},
        page : SUBSET (1 .. MaxTotal), seen : SUBSET (1 .. MaxTotal),
        start : SUBSET (1 .. MaxTotal), lost : BOOLEAN]]
  /\ sample \in [Pollers ->
       [at : {"idle", "called", "answered"}, before : Nat, total : Nat,
        byProtocol : [Protocols -> Nat]]]
  /\ arrivals \in Seq(1 .. MaxTotal)

QueryInit ==
  /\ Init
  /\ walk = [r \in Walkers |-> NoWalk]
  /\ sample = [q \in Pollers |-> NoSample]
  /\ arrivals = <<>>

-----------------------------------------------------------------------------
(* page() and the queries built on it.  A page is the ages of its entries, *)
(* as page() returns indices.  (Without a filter the first page is read    *)
(* from Limit slots, which is the same unless a marshal failed.)           *)

SeqsOf(ages) == {EntryOfAge(i).seq : i \in ages}

\* What of a snapshot is behind the first entry with the anchor's id; nothing
\* when the anchor has aged out.
AfterAnchor(ages, id) == {i \in ages : \E h \in ages : h < i /\ EntryOfAge(h).id = id}

matches(e) == e.proto \in Match

\* The first Limit of some ages.
Capped(ages) == {i \in ages : Cardinality({j \in ages : j < i}) < Limit}

\* Mutant of page: the cursor is inclusive.
pageInclusive(ages, useSeq, beforeSeq) ==
  Capped({i \in ages : (useSeq => EntryOfAge(i).seq <= beforeSeq) /\ matches(EntryOfAge(i))})

\* page(): the first Limit entries that pass the cursor and the filter.
page(ages, useSeq, beforeSeq) ==
  Capped({i \in ages : (useSeq => EntryOfAge(i).seq < beforeSeq) /\ matches(EntryOfAge(i))})

recentRaw == page(snapshotRaw, FALSE, 0)
recentBeforeSeqRaw(beforeSeq) == page(snapshotRaw, TRUE, beforeSeq)
recentBeforeRaw(id) == page(AfterAnchor(snapshotRaw, id), FALSE, 0)

\* The last entry of a page, the oldest in the ring.
Oldest(pg) == EntryOfAge(CHOOSE i \in pg : \A j \in pg : j <= i)

\* Mutant of TakePage: the next page starts below the oldest entry's number.
TakePageBelow(w, pg) ==
  [w EXCEPT !.page = SeqsOf(pg),
            !.seen = w.seen \cup w.page,
            !.at = IF pg = {} THEN "done" ELSE "paging",
            !.cursor = IF pg = {} THEN w.cursor ELSE Oldest(pg).seq - 1,
            !.anchor = IF pg = {} THEN w.anchor ELSE Oldest(pg).id]

\* What a client keeps of an answer: the page, and the anchor of the next.
TakePage(w, pg) ==
  [w EXCEPT !.page = SeqsOf(pg),
            !.seen = w.seen \cup w.page,
            !.at = IF pg = {} THEN "done" ELSE "paging",
            !.cursor = IF pg = {} THEN w.cursor ELSE Oldest(pg).seq,
            !.anchor = IF pg = {} THEN w.anchor ELSE Oldest(pg).id]

\* The first page: no cursor.
WalkFirst(r) ==
  /\ walk[r].at = "idle"
  /\ ~Locked
  /\ \E by \in {"seq", "id"} :
       walk' = [walk EXCEPT ![r] =
         [TakePage(@, recentRaw) EXCEPT
            !.by = by,
            !.start = SeqsOf({i \in snapshotRaw : matches(EntryOfAge(i))})]]
  /\ UNCHANGED <<vars, sample, arrivals>>

\* ?before_seq=
WalkBySeq(r) ==
  /\ walk[r].at = "paging" /\ walk[r].by = "seq"
  /\ ~Locked
  /\ walk' = [walk EXCEPT ![r] = TakePage(@, recentBeforeSeqRaw(@.cursor))]
  /\ UNCHANGED <<vars, sample, arrivals>>

\* ?before=; lost records that the anchor had aged out of the ring.
WalkByID(r) ==
  /\ walk[r].at = "paging" /\ walk[r].by = "id"
  /\ ~Locked
  /\ walk' = [walk EXCEPT ![r] =
       [TakePage(@, recentBeforeRaw(@.anchor)) EXCEPT
          !.lost = \A i \in snapshotRaw : EntryOfAge(i).id # walk[r].anchor]]
  /\ UNCHANGED <<vars, sample, arrivals>>

\* A finished walk is forgotten (the client starts over).
WalkEnd(r) ==
  /\ walk[r].at = "done"
  /\ walk' = [walk EXCEPT ![r] = NoWalk]
  /\ UNCHANGED <<vars, sample, arrivals>>

\* stats() is called; before is what the counter says at that moment.  (Every
\* poller polls once; a second poll is another poller's.)
StatsCall(q) ==
  /\ sample[q].at = "idle"
  /\ sample' = [sample EXCEPT ![q] = [@ EXCEPT !.at = "called", !.before = total]]
  /\ UNCHANGED <<vars, walk, arrivals>>

\* Mutant of StatsAnswer: the counter was loaded before the lock.
StatsAnswerEarly(q) ==
  /\ sample[q].at = "called"
  /\ ~Locked
  /\ sample' = [sample EXCEPT ![q] = [at |-> "answered", before |-> 0,
                                      total |-> sample[q].before, byProtocol |-> byProtocol]]
  /\ UNCHANGED <<vars, walk, arrivals>>

\* Under the read lock: load the counter, copy the aggregates.
StatsAnswer(q) ==
  /\ sample[q].at = "called"
  /\ ~Locked
  /\ sample' = [sample EXCEPT ![q] = [at |-> "answered", before |-> 0,
                                      total |-> total, byProtocol |-> byProtocol]]
  /\ UNCHANGED <<vars, walk, arrivals>>

StoreStep ==
  /\ Next
  /\ arrivals' = IF \E a \in Adders : mu = Nil /\ mu' = a
                 THEN Append(arrivals, buf'[next].seq) ELSE arrivals
  /\ UNCHANGED <<walk, sample>>

QueryNext ==
  \/ StoreStep
  \/ \E r \in Walkers : WalkFirst(r) \/ WalkBySeq(r) \/ WalkByID(r) \/ WalkEnd(r)
  \/ \E q \in Pollers : StatsCall(q) \/ StatsAnswer(q)

QuerySpec == QueryInit /\ [][QueryNext]_allVars

\* A client that keeps clicking, and a critical section that ends.
QueryFairness ==
  /\ \A r \in Walkers : SF_allVars(WalkBySeq(r))
  /\ \A a \in Adders : WF_allVars(StoreStep /\ (AddEvict(a) \/ AddDone(a)))

FairQuerySpec == QuerySpec /\ QueryFairness

-----------------------------------------------------------------------------
(* Properties.                                                             *)

ArrivalIndex(n) == CHOOSE i \in DOMAIN arrivals : arrivals[i] = n

\* m entered the ring before n although its number is larger.
Inverted(m, n) == m > n /\ ArrivalIndex(m) < ArrivalIndex(n)

\* A before_seq walk is exact but for inverted pairs, whatever arrives or is
\* evicted between two pages.  It shows an entry twice only if it had shown
\* one with a larger number and an older place in the ring; an entry that is
\* there from its start to its end and is not shown was skipped over for one
\* with a smaller number and a newer place (store.go:112-117, 284-293,
\* 397-406).
WalkExactButInverted ==
  \A r \in Walkers : walk[r].by = "seq" =>
    /\ \A n \in walk[r].page \cap walk[r].seen :
         \E m \in walk[r].seen : Inverted(m, n)
    /\ walk[r].at = "done" =>
         \A n \in (walk[r].start \cap SeqsOf(snapshotEntries)) \ walk[r].seen :
           \E m \in walk[r].seen : Inverted(n, m)

\* A walk by id whose anchors all stayed in the ring shows everything that
\* stayed in the ring throughout, duplicates of an id included
\* (store.go:367-378).
IdWalkComplete ==
  \A r \in Walkers :
    walk[r].at = "done" /\ walk[r].by = "id" /\ ~walk[r].lost =>
      walk[r].start \cap SeqsOf(snapshotEntries) \subseteq walk[r].seen

\* What a walk back through history can repeat or miss is what the two parts
\* say, by Seq and by id (store.go:290-292, 367-406).
WalksAccountFor == WalkExactButInverted /\ IdWalkComplete

\* "Nothing depends on the two agreeing" (store.go:115): a walk back through
\* history shows every entry that stayed in the ring from its start to its
\* end, although ring order and Seq order may differ.
WalkComplete ==
  \A r \in Walkers :
    walk[r].at = "done" /\ walk[r].by = "seq" =>
      walk[r].start \cap SeqsOf(snapshotEntries) \subseteq walk[r].seen

Counted(f) == MapThenSumSet(LAMBDA p : f[p], DOMAIN f)

\* An answer of /api/stats never reports more entries by protocol than in
\* total, so a share never exceeds 100% (store.go:430-439).
SharesWithinTotal ==
  \A q \in Pollers :
    sample[q].at = "answered" => sample[q].total >= Counted(sample[q].byProtocol)

\* A before_seq walk reaches the end of history even while entries keep
\* arriving (store.go:290-292: it must not wrap to the head and loop).
WalkTerminates ==
  \A r \in Walkers :
    (walk[r].at = "paging" /\ walk[r].by = "seq") ~> (walk[r].at = "done")
=============================================================================
