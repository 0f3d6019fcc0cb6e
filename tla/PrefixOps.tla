----------------------------- MODULE PrefixOps ------------------------------
(***************************************************************************)
(* The cache of the earlier simulator, PrefixCache in simulator/cache.py,  *)
(* as operators on its state.                                              *)
(*                                                                         *)
(* Victims come from a heap that is cleaned lazily: entries are never      *)
(* taken out when their page is pinned, touched or removed, they go stale  *)
(* because the page's generation moves on.  So a page that may be evicted  *)
(* is found only if somebody pushed it after the last such change.         *)
(***************************************************************************)
EXTENDS PrefixTrie, Integers

CONSTANTS
    Capacity,  \* capacity_pages; the unlimited cache (None) never evicts
    Request    \* request ids

ASSUME SizeAssumption == Capacity \in Nat /\ IsFiniteSet(Request)

Absent == -1  \* no reservation; a reservation may be of 0 pages

NoTransfers == [t \in {} |-> Absent]

(* node is the identity of a _Node object: its first access_sequence.  The *)
(* times of accesses never go back, so the heap orders by stamp.           *)
EmptyPrefixCache ==
    [pages |-> {}, pins |-> [b \in Block |-> 0], stamp |-> [b \in Block |-> 0],
     generation |-> [b \in Block |-> 0], node |-> [b \in Block |-> 0],
     heap |-> {}, private |-> [r \in Request |-> Absent],
     temporary |-> NoTransfers, sequence |-> 0,
     resident |-> 0, pinned |-> 0, privatePages |-> 0, temporaryPages |-> 0]

-----------------------------------------------------------------------------
(* The heap *)

Below(pages, b) == {x \in pages : Parent[x] = b}

MemoryUsed(c) == c.resident + c.privatePages + c.temporaryPages

IsEvictableLeaf(c, b) == b \in c.pages /\ c.pins[b] = 0 /\ Below(c.pages, b) = {}

EntryOf(c, b) ==
    [page |-> b, stamp |-> c.stamp[b], generation |-> c.generation[b], node |-> c.node[b]]

IsCurrent(c, e) == e.page \in c.pages /\ e = EntryOf(c, e.page)

(* _push_if_evictable_leaf for every page of S. *)
Push(c, S) == [c EXCEPT !.heap = @ \cup {EntryOf(c, b) : b \in {x \in S : IsEvictableLeaf(c, x)}}]

Poppable(c) == {e \in c.heap : IsCurrent(c, e) /\ IsEvictableLeaf(c, e.page)}

(* _pop_lru_leaf: everything before the oldest usable entry is dropped.    *)
Oldest(c) == CHOOSE e \in Poppable(c) : \A x \in Poppable(c) : e.stamp <= x.stamp

(* Takes a page that is a leaf out of the trie. *)
Unlinked(c, b) ==
    [c EXCEPT !.pages = @ \ {b}, !.stamp[b] = 0, !.generation[b] = 0, !.node[b] = 0,
              !.resident = @ - 1]

EvictOne(c) ==
    LET e == Oldest(c)
    IN  Push([Unlinked(c, e.page) EXCEPT !.heap = {x \in @ : x.stamp > e.stamp}],
             {Parent[e.page]})

(* _evict_for: one leaf after the other until the pages fit or none is left. *)
EvictFor(c, more) ==
    LET after[i \in 0 .. Cardinality(c.pages) + 1] ==
            IF i = 0 THEN c
            ELSE LET now == after[i - 1]
                 IN  IF MemoryUsed(now) + more <= Capacity THEN now
                     ELSE IF Poppable(now) = {} THEN [now EXCEPT !.heap = {}]
                     ELSE EvictOne(now)
    IN  after[Cardinality(c.pages) + 1]

-----------------------------------------------------------------------------
(* Pins *)

PinChanges(c, n, sign) ==
    [c EXCEPT !.pins = [b \in Block |-> IF b \in Chain[n] THEN @[b] + sign ELSE @[b]],
              !.generation = [b \in Block |-> IF b \in Chain[n] THEN @[b] + 1 ELSE @[b]]]

Pin(c, n) ==
    [PinChanges(c, n, 1) EXCEPT !.pinned = @ + Cardinality({b \in Chain[n] : c.pins[b] = 0})]

\* Mutant: a page that becomes free again is not pushed.
UnpinSilently(c, n) ==
    [PinChanges(c, n, -1) EXCEPT !.pinned = @ - Cardinality({b \in Chain[n] : c.pins[b] = 1})]

Unpin(c, n) ==
    Push([PinChanges(c, n, -1) EXCEPT !.pinned = @ - Cardinality({b \in Chain[n] : c.pins[b] = 1})],
         Chain[n])

(* _mark_access of the pages of path n, from the root on.  Pinned pages    *)
(* are not pushed.                                                         *)
PinAndRefresh(c, n) ==
    [Pin(c, n) EXCEPT
        !.stamp = [b \in Block |-> IF b \in Chain[n] THEN c.sequence + Depth(b) ELSE @[b]],
        !.generation = [b \in Block |-> IF b \in Chain[n] THEN @[b] + 1 ELSE @[b]],
        !.sequence = @ + Depth(n)]

-----------------------------------------------------------------------------
(* Reservations *)

(* can_admit_temporary, and the test for "impossible" in both reservations. *)
CanAdmit(c, k) == c.pinned + c.privatePages + c.temporaryPages + k <= Capacity

Missing(c, n) == Depth(n) - Depth(LongestWithin(n, c.pages))

(* A reservation: what is left of the cache, and whether it was admitted.  *)
Room(c, k) == IF CanAdmit(c, k) THEN EvictFor(c, k) ELSE c

Admitted(c, k) == CanAdmit(c, k) /\ MemoryUsed(Room(c, k)) + k <= Capacity

ReserveActivePrivate(c, r, k) ==
    [Room(c, k) EXCEPT !.private[r] = k, !.privatePages = @ + k]

ReserveTransferTemporary(c, t, k) ==
    [Room(c, k) EXCEPT !.temporary = [x \in DOMAIN @ \cup {t} |-> IF x = t THEN k ELSE @[x]],
                       !.temporaryPages = @ + k]

(* The pages of path n that are not there yet, inserted parents first, each *)
(* a leaf at that moment and pushed.                                       *)
Inserted(c, n) ==
    LET new  == Chain[n] \ c.pages
        rank(b) == c.sequence + Cardinality(Chain[b] \ c.pages)
        fresh == [c EXCEPT
            !.pages      = @ \cup new,
            !.stamp      = [b \in Block |-> IF b \in new THEN rank(b) ELSE @[b]],
            !.node       = [b \in Block |-> IF b \in new THEN rank(b) ELSE @[b]],
            !.generation = [b \in Block |-> IF b \in new THEN 1 ELSE @[b]],
            !.sequence   = @ + Cardinality(new),
            !.resident   = @ + Cardinality(new)]
    IN  [fresh EXCEPT !.heap = @ \cup {EntryOf(fresh, b) : b \in new}]

\* Mutant: pages that were reserved and not needed are not given back.
CommitActiveLeaks(c, r, n) ==
    IF Missing(c, n) > c.private[r]
      THEN [c EXCEPT !.private[r] = Absent]
      ELSE [Inserted(c, n) EXCEPT !.private[r] = Absent, !.privatePages = @ - Missing(c, n)]

(* A commit that would insert more than was reserved raises, after it has  *)
(* dropped the reservation but not its pages.                              *)
CommitActive(c, r, n) ==
    IF Missing(c, n) > c.private[r]
      THEN [c EXCEPT !.private[r] = Absent]
      ELSE [Inserted(c, n) EXCEPT !.private[r] = Absent, !.privatePages = @ - c.private[r]]

CommitTransferTemporary(c, t, n) ==
    IF Missing(c, n) > c.temporary[t]
      THEN [c EXCEPT !.temporary = [x \in DOMAIN @ \ {t} |-> @[x]]]
      ELSE [Inserted(c, n) EXCEPT !.temporary = [x \in DOMAIN @ \ {t} |-> @[x]],
                                  !.temporaryPages = @ - c.temporary[t]]

\* Mutant: pins are not looked at.
SafeSuffixPinned(c, n) ==
    {b \in PagesWithin(n, c.pages) : \A x \in c.pages : b \in Chain[x] => x \in Chain[n]}

(* release_leaf_exclusive_suffix takes pages of path n from its end until  *)
(* one is pinned or has other pages below.                                 *)
SafeSuffix(c, n) ==
    {b \in PagesWithin(n, c.pages) :
        \A x \in c.pages : b \in Chain[x] => x \in Chain[n] /\ c.pins[x] = 0}

(* The parent that is exposed by the last of them is pushed; the others    *)
(* are pushed and go stale at once.                                        *)
ReleaseSuffix(c, n) ==
    LET gone == SafeSuffix(c, n)
    IN  Push([c EXCEPT !.pages = @ \ gone,
                       !.stamp = [b \in Block |-> IF b \in gone THEN 0 ELSE @[b]],
                       !.node = [b \in Block |-> IF b \in gone THEN 0 ELSE @[b]],
                       !.generation = [b \in Block |-> IF b \in gone THEN 0 ELSE @[b]],
                       !.resident = @ - Cardinality(gone)],
             {Parent[b] : b \in gone})

(* publish, the direct helper: reserve the missing pages, then commit.     *)
CanPublish(c, n) ==
    LET k == Missing(c, n)
    IN  Admitted(c, k) /\ Missing(Room(c, k), n) <= k

Publish(c, n) == Inserted(Room(c, Missing(c, n)), n)
=============================================================================
