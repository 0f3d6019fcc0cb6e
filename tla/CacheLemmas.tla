---------------------------- MODULE CacheLemmas -----------------------------
(***************************************************************************)
(* Facts about the cache operators, for every trie and every capacity.     *)
(***************************************************************************)
EXTENDS CacheOps, TrieLemmas

-----------------------------------------------------------------------------
(* Sizes *)

(* A cache has finitely many pages and buffered pages.                     *)
LEMMA SizeFacts ==
    ASSUME NEW c \in Cache
    PROVE  /\ IsFiniteSet(c.pages)
           /\ Cardinality(c.pages) \in Nat
           /\ IsFiniteSet(BufferSlots(c))
           /\ TemporaryPages(c) \in Nat
           /\ MemoryPages(c) \in Nat
<1>1. IsFiniteSet(c.pages) /\ Cardinality(c.pages) \in Nat
  BY BlockAssumption, FS_Subset, FS_CardinalityType DEF Cache
<1>2. \A t \in Transfer : IsFiniteSet({t} \X (1 .. c.temporary[t]))
  <2>1. TAKE t \in Transfer
  <2>2. c.temporary[t] \in Nat
    BY DEF Cache
  <2>3. \A k \in Nat : IsFiniteSet(1 .. k)
    BY FS_Interval
  <2>4. IsFiniteSet({t})
    BY FS_Singleton
  <2>5. QED
    BY <2>2, <2>3, <2>4, FS_Product
<1>3. IsFiniteSet({{t} \X (1 .. c.temporary[t]) : t \in Transfer})
  <2> DEFINE Slots == {{t} \X (1 .. c.temporary[t]) : t \in Transfer}
             slot == [t \in Transfer |-> {t} \X (1 .. c.temporary[t])]
  <2>1. slot \in Surjection(Transfer, Slots)
    BY DEF Surjection
  <2>2. QED
    BY <2>1, TransferAssumption, FS_Surjection
<1>4. IsFiniteSet(BufferSlots(c))
  BY <1>2, <1>3, FS_UNION DEF BufferSlots
<1>5. QED
  BY <1>1, <1>4, FS_CardinalityType DEF TemporaryPages, MemoryPages

(* Giving a transfer that has no buffer a buffer of k pages adds k pages.  *)
LEMMA BufferGrows ==
    ASSUME NEW c \in Cache, NEW e \in Cache, NEW t \in Transfer, NEW k \in Nat,
           c.temporary[t] = 0,
           e.temporary = [c.temporary EXCEPT ![t] = k]
    PROVE  TemporaryPages(e) = TemporaryPages(c) + k
<1> DEFINE New == {t} \X (1 .. k)
<1>1. BufferSlots(e) = BufferSlots(c) \cup New
  <2>1. c.temporary \in [Transfer -> Nat]
    BY DEF Cache
  <2>2. \A x \in Transfer : e.temporary[x] = IF x = t THEN k ELSE c.temporary[x]
    BY <2>1
  <2>3. 1 .. 0 = {}
    OBVIOUS
  <2>4. QED
    BY <2>2, <2>3 DEF BufferSlots
<1>2. BufferSlots(c) \cap New = {}
  <2>1. 1 .. 0 = {}
    OBVIOUS
  <2>2. QED
    BY <2>1 DEF BufferSlots
<1>3. IsFiniteSet(New) /\ Cardinality(New) = k
  <2>1. IsFiniteSet(1 .. k) /\ Cardinality(1 .. k) = k
    BY FS_Interval
  <2>2. IsFiniteSet({t}) /\ Cardinality({t}) = 1
    BY FS_Singleton
  <2>3. IsFiniteSet(New) /\ Cardinality(New) = Cardinality({t}) * Cardinality(1 .. k)
    BY <2>1, <2>2, FS_Product
  <2>4. QED
    BY <2>1, <2>2, <2>3
<1>4. Cardinality(BufferSlots(c) \cup New)
        = Cardinality(BufferSlots(c)) + Cardinality(New) - Cardinality(BufferSlots(c) \cap New)
  BY <1>3, SizeFacts, FS_Union
<1>5. Cardinality(BufferSlots(c) \cap New) = 0
  BY <1>2, FS_EmptySet
<1>6. QED
  BY <1>1, <1>3, <1>4, <1>5, SizeFacts DEF TemporaryPages

-----------------------------------------------------------------------------
(* Admission plans *)

(* What the loop of _plan pops, for any state and any protected pages:     *)
(* published, unpinned, unprotected pages, each once, and every child of a *)
(* page that goes goes too.                                                *)
LEMMA EvictionOrderFacts ==
    ASSUME NEW c \in Cache, NEW additional \in Nat, NEW protected,
           NEW s \in EvictionOrders(c, additional, protected)
    PROVE  /\ s \in Seq(Block)
           /\ Popped(s) \subseteq c.pages \ protected
           /\ \A b \in Popped(s) : c.pins[b] = 0 /\ Children(c.pages \ Popped(s), b) = {}
           /\ Cardinality(c.pages \ Popped(s)) = Cardinality(c.pages) - Needed(c, additional)
<1> DEFINE V == {s[i] : i \in DOMAIN s}
           k == Needed(c, additional)
           gone(i) == {s[j] : j \in 1 .. (i - 1)}
<1>1. k \in Nat
  BY SizeFacts, CapacityAssumption DEF Needed
<1>2. s \in [1 .. k -> c.pages] /\ DOMAIN s = 1 .. k
  BY DEF EvictionOrders
<1>3. \A i \in 1 .. k : s[i] \in HeapPages(c, gone(i), protected)
  BY <1>2 DEF EvictionOrders, IsEvictionOrder, IsOldest
<1>4. \A i \in 1 .. k : gone(i) \subseteq V
  BY <1>1, <1>2
<1>5. V \subseteq c.pages \ protected
  BY <1>2, <1>3 DEF HeapPages
<1>6. \A b \in V : c.pins[b] = 0 /\ Children(c.pages \ V, b) = {}
  <2>1. TAKE b \in V
  <2>2. PICK i \in 1 .. k : b = s[i]
    BY <1>2
  <2>3. c.pins[b] = 0 /\ Children(c.pages \ gone(i), b) = {}
    BY <1>3, <2>2 DEF HeapPages
  <2>4. QED
    BY <1>4, <2>3 DEF Children
<1>7. Cardinality(V) = k /\ IsFiniteSet(V)
  <2>1. IsFiniteSet(1 .. k) /\ Cardinality(1 .. k) = k
    BY <1>1, FS_Interval
  <2>2. s \in Surjection(1 .. k, V)
    BY <1>2 DEF Surjection
  <2>3. s \in Injection(1 .. k, V)
    <3>1. \A i, j \in 1 .. k : i < j => s[i] # s[j]
      BY <1>1, <1>3 DEF HeapPages
    <3>2. \A i, j \in 1 .. k : s[i] = s[j] => i = j
      BY <1>1, <3>1
    <3>3. QED
      BY <1>2, <2>2, <3>2 DEF Injection, Surjection, IsInjective
  <2>4. QED
    BY <2>1, <2>2, <2>3, FS_Surjection
<1>8. Cardinality(c.pages \ V) = Cardinality(c.pages) - k
  <2>1. Cardinality(c.pages \ V) = Cardinality(c.pages) - Cardinality(c.pages \cap V)
    BY SizeFacts, FS_Difference
  <2>2. c.pages \cap V = V
    BY <1>5
  <2>3. QED
    BY <2>1, <2>2, <1>7
<1>9. s \in Seq(Block)
  <2>1. c.pages \subseteq Block
    BY DEF Cache
  <2>2. s \in [1 .. k -> Block]
    BY <1>2, <2>1
  <2> HIDE DEF k
  <2>3. QED
    BY <1>1, <2>2
<1>10. Popped(s) = V
  BY DEF Popped
<1>11. QED
  BY <1>5, <1>6, <1>8, <1>9, <1>10

(* What a commit of plan relies on, in the state the plan was made in.     *)
CarriedOut(c, plan, kind, n, additional, protected) ==
    /\ plan = [version |-> c.version, kind |-> kind, path |-> n,
               additional |-> additional, evictions |-> plan.evictions]
    /\ plan.version = c.version /\ plan.kind = kind /\ plan.path = n
    /\ plan.additional = additional
    /\ plan.evictions \in Seq(Block)
    /\ Victims(plan) \subseteq c.pages \ protected
    /\ \A b \in Victims(plan) :
          c.pins[b] = 0 /\ Children(c.pages \ Victims(plan), b) = {}
    /\ Cardinality(c.pages \ Victims(plan)) + TemporaryPages(c) + additional <= Capacity

(* What can be admitted is carried out by its plan.                        *)
LEMMA PlanFacts ==
    ASSUME NEW c \in Cache, NEW kind, NEW n, NEW additional \in Nat, NEW protected,
           CanAdmit(c, additional, protected)
    PROVE  CarriedOut(c, AdmissionPlan(c, kind, n, additional, protected),
                      kind, n, additional, protected)
<1> DEFINE plan == AdmissionPlan(c, kind, n, additional, protected)
<1>1. /\ plan.version = c.version /\ plan.kind = kind /\ plan.path = n
      /\ plan.additional = additional
      /\ plan = [version |-> c.version, kind |-> kind, path |-> n,
                 additional |-> additional, evictions |-> plan.evictions]
  BY DEF AdmissionPlan
<1>2. PICK s \in EvictionOrders(c, additional, protected) : plan.evictions = s
  BY DEF AdmissionPlan, CanAdmit
<1>3. Victims(plan) = Popped(s)
  BY <1>2 DEF Victims
<1>4. /\ s \in Seq(Block)
      /\ Popped(s) \subseteq c.pages \ protected
      /\ \A b \in Popped(s) : c.pins[b] = 0 /\ Children(c.pages \ Popped(s), b) = {}
      /\ Cardinality(c.pages \ Popped(s)) = Cardinality(c.pages) - Needed(c, additional)
  BY EvictionOrderFacts
<1>5. /\ s \in Seq(Block)
      /\ Victims(plan) \subseteq c.pages \ protected
      /\ \A b \in Victims(plan) :
            c.pins[b] = 0 /\ Children(c.pages \ Victims(plan), b) = {}
      /\ Cardinality(c.pages \ Victims(plan)) = Cardinality(c.pages) - Needed(c, additional)
  BY <1>3, <1>4
<1>6. Cardinality(c.pages \ Victims(plan)) + TemporaryPages(c) + additional <= Capacity
  BY <1>5, SizeFacts, CapacityAssumption DEF Needed, MemoryPages
<1> HIDE DEF plan
<1>7. CarriedOut(c, plan, kind, n, additional, protected)
  BY <1>1, <1>2, <1>5, <1>6 DEF CarriedOut
<1>8. QED
  BY <1>7 DEF plan

-----------------------------------------------------------------------------
(* Mutations *)

(* _evict: the victims go, the rest stays as it was; no prefix is broken   *)
(* when the children of every victim go with it.                           *)
LEMMA EvictFacts ==
    ASSUME NEW c \in Cache, NEW gone \in SUBSET Block
    PROVE  /\ Evict(c, gone) \in Cache
           /\ Evict(c, gone).pages = c.pages \ gone
           /\ Evict(c, gone).pins = [b \in Block |-> IF b \in gone THEN 0 ELSE c.pins[b]]
           /\ Evict(c, gone).temporary = c.temporary
           /\ Evict(c, gone).version = c.version
           /\ PrefixClosed(c) /\ (\A b \in gone : Children(c.pages \ gone, b) = {})
                 => PrefixClosed(Evict(c, gone))
<1>1. Evict(c, gone) \in Cache
  BY DEF Evict, Cache
<1>2. /\ Evict(c, gone).pages = c.pages \ gone
      /\ Evict(c, gone).pins = [b \in Block |-> IF b \in gone THEN 0 ELSE c.pins[b]]
      /\ Evict(c, gone).temporary = c.temporary
      /\ Evict(c, gone).version = c.version
  BY DEF Evict, Cache
<1>3. ASSUME PrefixClosed(c), \A b \in gone : Children(c.pages \ gone, b) = {}
      PROVE  PrefixClosed(Evict(c, gone))
  <2>1. SUFFICES ASSUME NEW b \in c.pages \ gone
                 PROVE  Parent[b] \in (c.pages \ gone) \cup {Root}
    BY <1>2 DEF PrefixClosed
  <2>2. Parent[b] \in c.pages \cup {Root}
    BY <1>3 DEF PrefixClosed
  <2>3. Parent[b] \notin gone
    BY <1>3 DEF Children
  <2>4. QED
    BY <2>2, <2>3
<1>4. QED
  BY <1>1, <1>2, <1>3

(* _insert: the missing pages of a path are published, nothing else moves. *)
LEMMA InsertFacts ==
    ASSUME NEW c \in Cache, NEW n \in Node
    PROVE  /\ Insert(c, n) \in Cache
           /\ Insert(c, n).pages = c.pages \cup Chain[n]
           /\ Insert(c, n).pins = c.pins
           /\ Insert(c, n).temporary = c.temporary
           /\ Insert(c, n).version = c.version
           /\ PrefixClosed(c) => PrefixClosed(Insert(c, n))
<1> DEFINE new     == Chain[n] \ c.pages
           rank(b) == Cardinality(Chain[b] \ c.pages)
<1>1. Chain[n] \subseteq Block /\ new \subseteq Block /\ c.pages \in SUBSET Block
  BY ChainFacts DEF Cache
<1>2. Cardinality(new) \in Nat
  BY <1>1, PagesGrow
<1>3. \A b \in Block : rank(b) \in Nat
  BY <1>1, PagesGrow, ChainFacts DEF Node
<1>4. /\ Insert(c, n).pages = c.pages \cup new
      /\ Insert(c, n).pins = c.pins
      /\ Insert(c, n).temporary = c.temporary
      /\ Insert(c, n).version = c.version
  BY DEF Insert, Cache
<1>5. Insert(c, n) \in Cache
  <2> DEFINE stamp == [b \in Block |-> IF b \in new THEN c.accesses + rank(b) ELSE c.stamp[b]]
             birth == [b \in Block |-> IF b \in new THEN c.births + rank(b) ELSE c.generation[b]]
  <2>1. /\ c.accesses \in Nat /\ c.births \in Nat
        /\ c.stamp \in [Block -> Nat] /\ c.generation \in [Block -> Nat]
    BY DEF Cache
  <2> HIDE DEF rank, new
  <2>2. stamp \in [Block -> Nat] /\ birth \in [Block -> Nat]
    BY <1>3, <2>1
  <2>3. c.accesses + Cardinality(new) \in Nat /\ c.births + Cardinality(new) \in Nat
    BY <1>2, <2>1
  <2>4. c.pages \cup new \in SUBSET Block
    BY <1>1
  <2>5. Insert(c, n) = [c EXCEPT !.pages = c.pages \cup new, !.stamp = stamp,
                                !.generation = birth,
                                !.accesses = c.accesses + Cardinality(new),
                                !.births = c.births + Cardinality(new)]
    BY DEF Insert, new, rank
  <2> HIDE DEF stamp, birth
  <2>6. QED
    BY <2>2, <2>3, <2>4, <2>5 DEF Cache
<1>6. ASSUME PrefixClosed(c) PROVE PrefixClosed(Insert(c, n))
  <2>1. SUFFICES ASSUME NEW b \in c.pages \cup Chain[n]
                 PROVE  Parent[b] \in (c.pages \cup Chain[n]) \cup {Root}
    BY <1>4 DEF PrefixClosed
  <2>2. CASE b \in c.pages
    BY <1>6, <2>2 DEF PrefixClosed
  <2>3. CASE b \in Chain[n]
    <3>1. Chain[b] \subseteq Chain[n] /\ b \in Block
      BY <1>1, <2>3, ChainAssumption
    <3>2. Parent[b] \in Node /\ Chain[Parent[b]] \subseteq Chain[b]
      BY <3>1, ParentFacts
    <3>3. Parent[b] = Root \/ Parent[b] \in Chain[Parent[b]]
      BY <3>2, ChainFacts DEF Node
    <3>4. QED
      BY <3>1, <3>2, <3>3
  <2>4. QED
    BY <2>1, <2>2, <2>3
<1>7. QED
  BY <1>4, <1>5, <1>6

(* The version step and the buffer update leave the rest alone.            *)
LEMMA VersionFacts ==
    ASSUME NEW c \in Cache
    PROVE  /\ NextVersion(c) \in Cache
           /\ NextVersion(c).version = c.version + 1
           /\ NextVersion(c).pages = c.pages
           /\ NextVersion(c).pins = c.pins
           /\ NextVersion(c).temporary = c.temporary
BY DEF NextVersion, Cache

(* Writing one transfer's buffer leaves the rest of the cache as it was.   *)
LEMMA BufferFacts ==
    ASSUME NEW c \in Cache, NEW t \in Transfer, NEW k \in Nat
    PROVE  /\ [c EXCEPT !.temporary[t] = k] \in Cache
           /\ [c EXCEPT !.temporary[t] = k].temporary = [c.temporary EXCEPT ![t] = k]
           /\ [c EXCEPT !.temporary[t] = k].pages = c.pages
           /\ [c EXCEPT !.temporary[t] = k].pins = c.pins
           /\ [c EXCEPT !.temporary[t] = k].version = c.version
<1> DEFINE e == [c EXCEPT !.temporary[t] = k]
<1> DEFINE temp == [c.temporary EXCEPT ![t] = k]
<1>1. e = [c EXCEPT !.temporary = temp]
  BY DEF Cache
<1>2. temp \in [Transfer -> Nat]
  BY DEF Cache
<1> HIDE DEF temp
<1>3. e \in Cache
  BY <1>1, <1>2 DEF Cache
<1>4. /\ e.temporary = temp /\ e.pages = c.pages
      /\ e.pins = c.pins /\ e.version = c.version
  BY <1>1 DEF Cache
<1>5. QED
  BY <1>3, <1>4 DEF temp

-----------------------------------------------------------------------------
(* The calls the engines make, on a cache that is sound: assert_invariants *)
(* holds of it.  None touches a pin but Pin and Unpin, and a pinned page   *)
(* stays.                                                                  *)

Sound(c) == c \in Cache /\ PrefixClosed(c) /\ WithinCapacity(c)

(* The pinned pages of c that e has.                                       *)
KeepsPinned(c, e) == \A b \in c.pages : c.pins[b] > 0 => b \in e.pages

(* In a sound cache a walk along a path hits every page that is published. *)
LEMMA HitFacts ==
    ASSUME NEW c, Sound(c), NEW n \in Node
    PROVE  /\ HitPages(c, n) = Chain[n] \cap c.pages
           /\ MissingPages(c, n) = Cardinality(Chain[n] \ c.pages)
           /\ MissingPages(c, n) \in Nat
           /\ Lookup(c, n) \in Node /\ Chain[Lookup(c, n)] = HitPages(c, n)
           /\ Published(c, Lookup(c, n))
<1>1. c.pages \in SUBSET Block /\ PrefixClosed(c)
  BY DEF Sound, Cache
<1>2. HitPages(c, n) = Chain[n] \cap c.pages
  <2>1. \A b \in c.pages : Chain[b] \subseteq c.pages
    BY <1>1, ClosedByParent DEF PrefixClosed
  <2>2. \A b \in Chain[n] : b \in Chain[b]
    BY ChainFacts DEF Node
  <2>3. QED
    BY <2>1, <2>2 DEF HitPages, PagesWithin
<1>3. /\ Cardinality(Chain[n] \ c.pages) = MissingPages(c, n)
      /\ MissingPages(c, n) \in Nat
  <2>1. /\ IsFiniteSet(Chain[n]) /\ Chain[n] \in SUBSET Block
    BY ChainFacts
  <2>2. Cardinality(Chain[n] \ c.pages) = Cardinality(Chain[n]) - Cardinality(HitPages(c, n))
    BY <1>2, <2>1, FS_Difference
  <2>3. Cardinality(Chain[n] \ c.pages) \in Nat
    BY <1>1, <2>1, PagesGrow
  <2>4. QED
    BY <2>2, <2>3 DEF MissingPages, Depth
<1>4. Lookup(c, n) \in Node /\ Chain[Lookup(c, n)] = HitPages(c, n)
  BY LongestFacts DEF Lookup, HitPages
<1>5. QED
  BY <1>2, <1>3, <1>4 DEF Published

(* pin                                                                     *)
LEMMA PinFacts ==
    ASSUME NEW c, Sound(c), NEW n \in Node
    PROVE  /\ Sound(Pin(c, n))
           /\ Pin(c, n).pages = c.pages /\ Pin(c, n).temporary = c.temporary
           /\ \A b \in Block : Pin(c, n).pins[b] =
                 IF b \in Chain[n] THEN c.pins[b] + 1 ELSE c.pins[b]
<1> DEFINE pins == [b \in Block |-> IF b \in Chain[n] THEN c.pins[b] + 1 ELSE c.pins[b]]
           e == [c EXCEPT !.pins = pins]
<1>1. c \in Cache
  BY DEF Sound
<1>2. pins \in [Block -> Nat]
  BY <1>1 DEF Cache
<1>3. Pin(c, n) = NextVersion(e)
  BY <1>1 DEF Pin, Cache
<1> HIDE DEF pins
<1>4. e \in Cache /\ e.pages = c.pages /\ e.temporary = c.temporary /\ e.pins = pins
  BY <1>1, <1>2 DEF Cache
<1> HIDE DEF e
<1>5. /\ Pin(c, n) \in Cache /\ Pin(c, n).pages = c.pages
      /\ Pin(c, n).temporary = c.temporary /\ Pin(c, n).pins = pins
  BY <1>3, <1>4, VersionFacts
<1>6. QED
  BY <1>5 DEF Sound, PrefixClosed, WithinCapacity, MemoryPages, TemporaryPages, BufferSlots, pins

(* unpin of a path that is pinned                                          *)
LEMMA UnpinFacts ==
    ASSUME NEW c, Sound(c), NEW n \in Node, \A b \in Chain[n] : c.pins[b] > 0
    PROVE  /\ Sound(Unpin(c, n))
           /\ Unpin(c, n).pages = c.pages /\ Unpin(c, n).temporary = c.temporary
           /\ \A b \in Block : Unpin(c, n).pins[b] =
                 IF b \in Chain[n] THEN c.pins[b] - 1 ELSE c.pins[b]
<1> DEFINE pins == [b \in Block |-> IF b \in Chain[n] THEN c.pins[b] - 1 ELSE c.pins[b]]
           e == [c EXCEPT !.pins = pins]
<1>1. c \in Cache
  BY DEF Sound
<1>2. pins \in [Block -> Nat]
  BY <1>1 DEF Cache
<1>3. Unpin(c, n) = NextVersion(e)
  BY <1>1 DEF Unpin, Cache
<1> HIDE DEF pins
<1>4. e \in Cache /\ e.pages = c.pages /\ e.temporary = c.temporary /\ e.pins = pins
  BY <1>1, <1>2 DEF Cache
<1> HIDE DEF e
<1>5. /\ Unpin(c, n) \in Cache /\ Unpin(c, n).pages = c.pages
      /\ Unpin(c, n).temporary = c.temporary /\ Unpin(c, n).pins = pins
  BY <1>3, <1>4, VersionFacts
<1>6. QED
  BY <1>5 DEF Sound, PrefixClosed, WithinCapacity, MemoryPages, TemporaryPages, BufferSlots, pins

(* record_reuse                                                            *)
LEMMA ReuseFacts ==
    ASSUME NEW c, Sound(c), NEW n \in Node
    PROVE  /\ Sound(RecordReuse(c, n))
           /\ RecordReuse(c, n).pages = c.pages
           /\ RecordReuse(c, n).temporary = c.temporary
           /\ RecordReuse(c, n).pins = c.pins
<1> DEFINE stamp == [b \in Block |-> IF b \in Chain[n] THEN c.accesses + Depth(b) ELSE c.stamp[b]]
           e == [c EXCEPT !.stamp = stamp, !.accesses = c.accesses + Depth(n)]
<1>1. c \in Cache /\ c.accesses \in Nat /\ Depth(n) \in Nat
  BY ChainFacts DEF Sound, Cache
<1>2. stamp \in [Block -> Nat]
  <2>1. \A b \in Block : Depth(b) \in Nat
    BY ChainFacts DEF Node
  <2>2. QED
    BY <1>1, <2>1 DEF Cache
<1>3. CASE n = Root
  BY <1>1, <1>3 DEF RecordReuse
<1>4. CASE n # Root
  <2>1. RecordReuse(c, n) = NextVersion(e)
    BY <1>1, <1>4 DEF RecordReuse, Cache
  <2> DEFINE k == c.accesses + Depth(n)
  <2>2. k \in Nat
    BY <1>1
  <2>3. e = [c EXCEPT !.stamp = stamp, !.accesses = k]
    OBVIOUS
  <2> HIDE DEF stamp, k, e
  <2>4. e \in Cache /\ e.pages = c.pages /\ e.temporary = c.temporary /\ e.pins = c.pins
    BY <1>1, <1>2, <2>2, <2>3 DEF Cache
  <2>5. /\ RecordReuse(c, n) \in Cache /\ RecordReuse(c, n).pages = c.pages
        /\ RecordReuse(c, n).temporary = c.temporary /\ RecordReuse(c, n).pins = c.pins
    BY <2>1, <2>4, VersionFacts
  <2>6. QED
    BY <2>5 DEF Sound, PrefixClosed, WithinCapacity, MemoryPages, TemporaryPages, BufferSlots
<1>5. QED
  BY <1>3, <1>4

(* Evicting what a plan named: unpinned pages go, and no pin is lost.      *)
LEMMA VictimFacts ==
    ASSUME NEW c, Sound(c), NEW plan, NEW kind, NEW n, NEW additional \in Nat, NEW protected,
           CarriedOut(c, plan, kind, n, additional, protected)
    PROVE  /\ Evict(c, Victims(plan)) \in Cache
           /\ PrefixClosed(Evict(c, Victims(plan)))
           /\ Evict(c, Victims(plan)).pages = c.pages \ Victims(plan)
           /\ Evict(c, Victims(plan)).pins = c.pins
           /\ Evict(c, Victims(plan)).temporary = c.temporary
           /\ KeepsPinned(c, Evict(c, Victims(plan)))
<1> DEFINE V == Victims(plan)
<1>1. /\ V \subseteq c.pages \ protected
      /\ \A b \in V : c.pins[b] = 0 /\ Children(c.pages \ V, b) = {}
  BY DEF CarriedOut
<1>2. c \in Cache /\ c.pages \subseteq Block /\ c.pins \in [Block -> Nat] /\ PrefixClosed(c)
  BY DEF Sound, Cache
<1>3. V \in SUBSET Block
  BY <1>1, <1>2
<1> HIDE DEF V
<1>4. /\ Evict(c, V) \in Cache
      /\ Evict(c, V).pages = c.pages \ V
      /\ Evict(c, V).pins = [b \in Block |-> IF b \in V THEN 0 ELSE c.pins[b]]
      /\ Evict(c, V).temporary = c.temporary
      /\ PrefixClosed(Evict(c, V))
  BY <1>1, <1>2, <1>3, EvictFacts
<1>5. Evict(c, V).pins = c.pins
  BY <1>1, <1>2, <1>4
<1>6. KeepsPinned(c, Evict(c, V))
  BY <1>1, <1>2, <1>4 DEF KeepsPinned
<1>7. QED
  BY <1>4, <1>5, <1>6 DEF V

(* plan_temporary and reserve_temporary in one handler                     *)
LEMMA ReserveFacts ==
    ASSUME NEW c, Sound(c), NEW t \in Transfer, c.temporary[t] = 0,
           NEW k \in Nat, CanPlanTemporary(c, k)
    PROVE  LET e == ReserveTemporary(c, t, PlanTemporary(c, k))
           IN  /\ Sound(e)
               /\ e.pins = c.pins
               /\ e.temporary = [c.temporary EXCEPT ![t] = k]
               /\ KeepsPinned(c, e)
               /\ e.pages = c.pages \ Victims(PlanTemporary(c, k))
<1> DEFINE plan == PlanTemporary(c, k)
           V == Victims(plan)
           f == Evict(c, V)
           e == ReserveTemporary(c, t, plan)
<1>1. c \in Cache
  BY DEF Sound
<1>2. CarriedOut(c, plan, "TEMPORARY", Root, k, {})
  BY <1>1, PlanFacts DEF PlanTemporary, CanPlanTemporary
<1>3. /\ Cardinality(c.pages \ V) + TemporaryPages(c) + k <= Capacity
      /\ plan.additional = k
  BY <1>2 DEF CarriedOut
<1> HIDE DEF plan
<1>4. /\ f \in Cache /\ PrefixClosed(f) /\ f.pages = c.pages \ V /\ f.pins = c.pins
      /\ f.temporary = c.temporary /\ KeepsPinned(c, f)
  BY <1>2, VictimFacts
<1> DEFINE h == [f EXCEPT !.temporary[t] = k]
<1>5. e = NextVersion(h)
  BY <1>3 DEF ReserveTemporary
<1> HIDE DEF V, f, e
<1>6. h \in Cache /\ h.temporary = [f.temporary EXCEPT ![t] = k] /\ h.pages = f.pages /\ h.pins = f.pins
  BY <1>4, BufferFacts
<1> HIDE DEF h
<1>7. /\ e \in Cache /\ e.temporary = [c.temporary EXCEPT ![t] = k]
      /\ e.pages = c.pages \ V /\ e.pins = c.pins
  BY <1>4, <1>5, <1>6, VersionFacts
<1>8. TemporaryPages(e) = TemporaryPages(c) + k
  BY <1>1, <1>7, BufferGrows
<1>9. WithinCapacity(e)
  <2>1. /\ Cardinality(e.pages) \in Nat /\ TemporaryPages(c) \in Nat
        /\ Cardinality(e.pages) = Cardinality(c.pages \ V)
    BY <1>1, <1>7, SizeFacts
  <2>2. QED
    BY <1>3, <1>8, <2>1, CapacityAssumption DEF WithinCapacity, MemoryPages
<1>10. PrefixClosed(e) /\ KeepsPinned(c, e)
  BY <1>4, <1>7 DEF PrefixClosed, KeepsPinned
<1>11. QED
  BY <1>7, <1>9, <1>10 DEF Sound, e, plan, V

(* plan_prompt and publish_prompt in one handler                           *)
LEMMA PublishFacts ==
    ASSUME NEW c, Sound(c), NEW n \in Node, CanPlanPrompt(c, n)
    PROVE  LET e == PublishPrompt(c, PlanPrompt(c, n))
           IN  /\ Sound(e)
               /\ e.pins = c.pins /\ e.temporary = c.temporary
               /\ KeepsPinned(c, e)
               /\ e.pages = (c.pages \ Victims(PlanPrompt(c, n))) \cup Chain[n]
<1> DEFINE plan == PlanPrompt(c, n)
           V == Victims(plan)
           f == Evict(c, V)
           h == Insert(f, n)
           e == PublishPrompt(c, plan)
           k == MissingPages(c, n)
           hit == HitPages(c, n)
<1>1. c \in Cache
  BY DEF Sound
<1>2. hit = Chain[n] \cap c.pages /\ k = Cardinality(Chain[n] \ c.pages) /\ k \in Nat
  BY HitFacts
<1>3. CarriedOut(c, plan, "PROMPT", n, k, hit)
  BY <1>1, <1>2, PlanFacts DEF PlanPrompt, CanPlanPrompt
<1> HIDE DEF k, hit
<1>4. /\ Cardinality(c.pages \ V) + TemporaryPages(c) + k <= Capacity
      /\ plan.path = n /\ V \subseteq c.pages \ hit
  BY <1>3 DEF CarriedOut
<1> HIDE DEF plan
<1>5. /\ f \in Cache /\ PrefixClosed(f) /\ f.pages = c.pages \ V /\ f.pins = c.pins
      /\ f.temporary = c.temporary /\ KeepsPinned(c, f)
  BY <1>2, <1>3, VictimFacts
<1>6. e = NextVersion(h)
  BY <1>4 DEF PublishPrompt
<1> HIDE DEF V, f, e
<1>7. /\ h \in Cache /\ h.pages = f.pages \cup Chain[n] /\ h.pins = f.pins
      /\ h.temporary = f.temporary /\ PrefixClosed(h)
  BY <1>5, InsertFacts
<1> HIDE DEF h
<1>8. /\ e \in Cache /\ e.pages = (c.pages \ V) \cup Chain[n] /\ e.pins = c.pins
      /\ e.temporary = c.temporary
  BY <1>5, <1>6, <1>7, VersionFacts
<1>9. WithinCapacity(e)
  <2>1. TemporaryPages(e) = TemporaryPages(c)
    BY <1>8 DEF TemporaryPages, BufferSlots
  <2>2. Chain[n] \in SUBSET Block /\ c.pages \ V \in SUBSET Block
    BY <1>1, ChainFacts DEF Cache
  <2>3. Chain[n] \ (c.pages \ V) = Chain[n] \ c.pages
    BY <1>2, <1>4
  <2>4. /\ Cardinality(e.pages) = Cardinality(c.pages \ V) + k
        /\ Cardinality(c.pages \ V) \in Nat
    BY <1>2, <1>8, <2>2, <2>3, PagesGrow
  <2>5. TemporaryPages(c) \in Nat
    BY <1>1, SizeFacts
  <2>6. QED
    BY <1>2, <1>4, <2>1, <2>4, <2>5, CapacityAssumption DEF WithinCapacity, MemoryPages
<1>10. PrefixClosed(e) /\ KeepsPinned(c, e)
  BY <1>5, <1>6, <1>7, <1>8, VersionFacts DEF PrefixClosed, KeepsPinned
<1>11. QED
  BY <1>8, <1>9, <1>10 DEF Sound, e, plan, V

(* complete_transfer of a buffer as long as the path it waited for         *)
LEMMA CompleteFacts ==
    ASSUME NEW c, Sound(c), NEW t \in Transfer, NEW n \in Node, c.temporary[t] = Depth(n)
    PROVE  LET e == CompleteTransfer(c, t, n)
           IN  /\ Sound(e)
               /\ e.pages = c.pages \cup Chain[n]
               /\ e.pins = c.pins
               /\ e.temporary = [c.temporary EXCEPT ![t] = 0]
<1> DEFINE f == [c EXCEPT !.temporary[t] = 0]
           h == Insert(f, n)
           e == CompleteTransfer(c, t, n)
<1>1. c \in Cache /\ c.temporary \in [Transfer -> Nat] /\ Depth(n) \in Nat
  BY ChainFacts DEF Sound, Cache
<1>2. /\ f \in Cache /\ f.temporary = [c.temporary EXCEPT ![t] = 0]
      /\ f.pages = c.pages /\ f.pins = c.pins
  BY <1>1, BufferFacts
<1>3. e = NextVersion(h)
  BY DEF CompleteTransfer
<1> HIDE DEF f, e
<1>4. PrefixClosed(f)
  BY <1>2 DEF Sound, PrefixClosed
<1>5. /\ h \in Cache /\ h.pages = f.pages \cup Chain[n] /\ h.pins = f.pins
      /\ h.temporary = f.temporary /\ PrefixClosed(h)
  BY <1>2, <1>4, InsertFacts
<1> HIDE DEF h
<1>6. /\ e \in Cache /\ e.pages = c.pages \cup Chain[n] /\ e.pins = c.pins
      /\ e.temporary = [c.temporary EXCEPT ![t] = 0] /\ PrefixClosed(e)
  BY <1>2, <1>3, <1>5, VersionFacts DEF PrefixClosed
<1>7. WithinCapacity(e)
  <2>1. f.temporary[t] = 0 /\ c.temporary = [f.temporary EXCEPT ![t] = Depth(n)]
    BY <1>1, <1>2
  <2> DEFINE k == Depth(n)
  <2>2. k \in Nat /\ c.temporary = [f.temporary EXCEPT ![t] = k]
    BY <1>1, <2>1
  <2> HIDE DEF k
  <2>3. TemporaryPages(c) = TemporaryPages(f) + k
    <3>1. c \in Cache /\ f \in Cache /\ f.temporary[t] = 0
      BY <1>1, <1>2, <2>1
    <3>2. QED
      BY <2>2, <3>1, BufferGrows, ZenonT(30)
  <2>4. TemporaryPages(c) = TemporaryPages(f) + Depth(n)
    BY <2>3 DEF k
  <2>5. TemporaryPages(e) = TemporaryPages(f)
    BY <1>2, <1>6 DEF TemporaryPages, BufferSlots
  <2>6. Chain[n] \in SUBSET Block /\ c.pages \in SUBSET Block
    BY <1>1, ChainFacts DEF Cache
  <2>7. /\ Cardinality(e.pages) = Cardinality(c.pages) + Cardinality(Chain[n] \ c.pages)
        /\ Cardinality(Chain[n] \ c.pages) <= Depth(n)
        /\ Cardinality(c.pages) \in Nat /\ Cardinality(Chain[n] \ c.pages) \in Nat
    BY <1>6, <2>6, PagesGrow DEF Depth
  <2>8. TemporaryPages(f) \in Nat
    BY <1>2, SizeFacts
  <2>9. Cardinality(c.pages) + TemporaryPages(c) <= Capacity
    BY DEF Sound, WithinCapacity, MemoryPages
  <2>10. QED
    BY <1>1, <2>4, <2>5, <2>7, <2>8, <2>9, CapacityAssumption DEF WithinCapacity, MemoryPages
<1>8. QED
  BY <1>6, <1>7 DEF Sound, e
=============================================================================
