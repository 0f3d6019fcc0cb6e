------------------------------ MODULE CacheOps ------------------------------
(***************************************************************************)
(* The state of one pod's cache, TaskMainCache in task_main/cache.py, as a *)
(* record, and its methods as operators from a state to the next.          *)
(*                                                                         *)
(*   pages       the keys of _pages                                        *)
(*   pins        _Page.pins                     (0 for an absent page)     *)
(*   stamp       _Page.access_order             (0 for an absent page)     *)
(*   generation  _Page.residency_generation     (0 for an absent page)     *)
(*   temporary   _temporary: wire pages buffered for each transfer, 0 for  *)
(*               a transfer with no buffer                                 *)
(*   accesses, births, version   the counters _access_order, _generation   *)
(*               and _version                                              *)
(*                                                                         *)
(* lru_time is not kept: the event loop's clock never goes back, so the    *)
(* heap key (lru_time, access_order) orders pages as access_order does.    *)
(* _Page.parent and _Page.children are Parent and Children: the parent is  *)
(* fixed by the trace and the children follow from the published pages.    *)
(***************************************************************************)
EXTENDS PrefixTrie, Sequences

CONSTANTS
    Capacity,   \* capacity_pages
    Transfer    \* transfer ids

ASSUME CapacityAssumption == Capacity \in Nat
ASSUME TransferAssumption == IsFiniteSet(Transfer)

Cache ==
    [pages      : SUBSET Block,
     pins       : [Block -> Nat],
     stamp      : [Block -> Nat],
     generation : [Block -> Nat],
     temporary  : [Transfer -> Nat],
     accesses   : Nat,
     births     : Nat,
     version    : Nat]

EmptyCache ==
    [pages      |-> {},
     pins       |-> [b \in Block |-> 0],
     stamp      |-> [b \in Block |-> 0],
     generation |-> [b \in Block |-> 0],
     temporary  |-> [t \in Transfer |-> 0],
     accesses   |-> 0,
     births     |-> 0,
     version    |-> 0]

-----------------------------------------------------------------------------
(* Sizes and lookup *)

(* One element per buffered wire page, so that its cardinality is the sum  *)
(* of the buffers.                                                         *)
BufferSlots(c) == UNION {{t} \X (1 .. c.temporary[t]) : t \in Transfer}

TemporaryPages(c) == Cardinality(BufferSlots(c))

MemoryPages(c) == Cardinality(c.pages) + TemporaryPages(c)

(* lookup: the walk along path n until it falls off the published pages,   *)
(* as the set of pages it hits and as the prefix it ends in.               *)
HitPages(c, n) == PagesWithin(n, c.pages)

Lookup(c, n) == LongestWithin(n, c.pages)

(* lookup(path) == len(path) *)
Published(c, n) == Chain[n] \subseteq c.pages

Children(pages, b) == {x \in pages : Parent[x] = b}

-----------------------------------------------------------------------------
(* Admission plans *)

\* Mutant: the heap never learns that a popped page exposed its parent.
HeapPagesNeverGrow(c, gone, protected) ==
    {b \in (c.pages \ gone) \ protected : c.pins[b] = 0 /\ Children(c.pages, b) = {}}

\* Mutant: pins are not looked at.
HeapPagesIgnorePins(c, gone, protected) ==
    {b \in (c.pages \ gone) \ protected : Children(c.pages \ gone, b) = {}}

\* Mutant: any unpinned page may go, not only a leaf.
HeapPagesInner(c, gone, protected) ==
    {b \in (c.pages \ gone) \ protected : c.pins[b] = 0}

(* The pages the private heap of _plan holds once the pages in gone have   *)
(* been popped: unpinned, unprotected, with no published child left.       *)
HeapPages(c, gone, protected) ==
    {b \in (c.pages \ gone) \ protected :
        c.pins[b] = 0 /\ Children(c.pages \ gone, b) = {}}

\* Mutant: the heap pops the page used last.
IsNewest(c, b, S) == b \in S /\ \A x \in S : c.stamp[b] >= c.stamp[x]

IsOldest(c, b, S) == b \in S /\ \A x \in S : c.stamp[b] <= c.stamp[x]

(* s is the order in which the loop of _plan pops its victims. *)
IsEvictionOrder(c, s, protected) ==
    \A i \in DOMAIN s :
        IsOldest(c, s[i], HeapPages(c, {s[j] : j \in 1 .. (i - 1)}, protected))

\* Mutant: the buffers of transfers in flight are forgotten.
NeededBesideBuffers(c, additional) ==
    IF Cardinality(c.pages) + additional > Capacity
      THEN (Cardinality(c.pages) + additional) - Capacity
      ELSE 0

Needed(c, additional) ==
    IF MemoryPages(c) + additional > Capacity
      THEN (MemoryPages(c) + additional) - Capacity
      ELSE 0

EvictionOrders(c, additional, protected) ==
    {s \in [1 .. Needed(c, additional) -> c.pages] : IsEvictionOrder(c, s, protected)}

(* _plan answers None when the heap runs dry, a plan otherwise. *)
CanAdmit(c, additional, protected) == EvictionOrders(c, additional, protected) # {}

AdmissionPlan(c, kind, n, additional, protected) ==
    [version    |-> c.version,
     kind       |-> kind,
     path       |-> n,
     additional |-> additional,
     evictions  |-> CHOOSE s \in EvictionOrders(c, additional, protected) : TRUE]

CanPlanTemporary(c, wire) == CanAdmit(c, wire, {})

PlanTemporary(c, wire) == AdmissionPlan(c, "TEMPORARY", Root, wire, {})

(* plan_prompt protects the hit it extends. *)
MissingPages(c, n) == Depth(n) - Cardinality(HitPages(c, n))

CanPlanPrompt(c, n) == CanAdmit(c, MissingPages(c, n), HitPages(c, n))

PlanPrompt(c, n) ==
    AdmissionPlan(c, "PROMPT", n, MissingPages(c, n), HitPages(c, n))

(* validate_plan *)
IsFresh(c, plan, kind) == plan.version = c.version /\ plan.kind = kind

-----------------------------------------------------------------------------
(* Mutations *)

Popped(s) == {s[i] : i \in DOMAIN s}

Victims(plan) == Popped(plan.evictions)

Evict(c, gone) ==
    [c EXCEPT
        !.pages      = @ \ gone,
        !.pins       = [b \in Block |-> IF b \in gone THEN 0 ELSE @[b]],
        !.stamp      = [b \in Block |-> IF b \in gone THEN 0 ELSE @[b]],
        !.generation = [b \in Block |-> IF b \in gone THEN 0 ELSE @[b]]]

(* _insert creates the missing pages of path n, parents first: the k-th    *)
(* new page takes the k-th next generation and access order.               *)
Insert(c, n) ==
    LET new     == Chain[n] \ c.pages
        rank(b) == Cardinality(Chain[b] \ c.pages)
    IN  [c EXCEPT
            !.pages      = @ \cup new,
            !.stamp      = [b \in Block |-> IF b \in new THEN c.accesses + rank(b) ELSE @[b]],
            !.generation = [b \in Block |-> IF b \in new THEN c.births + rank(b) ELSE @[b]],
            !.accesses   = @ + Cardinality(new),
            !.births     = @ + Cardinality(new)]

NextVersion(c) == [c EXCEPT !.version = @ + 1]

ReserveTemporary(c, t, plan) ==
    NextVersion([Evict(c, Victims(plan)) EXCEPT !.temporary[t] = plan.additional])

PublishPrompt(c, plan) == NextVersion(Insert(Evict(c, Victims(plan)), plan.path))

CompleteTransfer(c, t, n) == NextVersion(Insert([c EXCEPT !.temporary[t] = 0], n))

\* Mutant: a pin does not make outstanding plans stale.
PinKeepsVersion(c, n) ==
    [c EXCEPT !.pins = [b \in Block |-> IF b \in Chain[n] THEN @[b] + 1 ELSE @[b]]]

Pin(c, n) ==
    NextVersion([c EXCEPT !.pins = [b \in Block |-> IF b \in Chain[n] THEN @[b] + 1 ELSE @[b]]])

Unpin(c, n) ==
    NextVersion([c EXCEPT !.pins = [b \in Block |-> IF b \in Chain[n] THEN @[b] - 1 ELSE @[b]]])

(* record_reuse returns before the touch and the version step when the hit *)
(* is empty.                                                               *)
RecordReuse(c, n) ==
    IF n = Root
      THEN c
      ELSE NextVersion([c EXCEPT
             !.stamp    = [b \in Block |-> IF b \in Chain[n] THEN c.accesses + Depth(b) ELSE @[b]],
             !.accesses = @ + Depth(n)])

-----------------------------------------------------------------------------
(* What assert_invariants checks after every mutation of the published     *)
(* pages (its pins >= 0 and child-link clauses hold by the type).          *)

WithinCapacity(c) == MemoryPages(c) <= Capacity

PrefixClosed(c) == \A b \in c.pages : Parent[b] \in c.pages \cup {Root}
=============================================================================
