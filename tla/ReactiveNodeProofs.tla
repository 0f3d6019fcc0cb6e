------------------------- MODULE ReactiveNodeProofs -------------------------
(***************************************************************************)
(* Proofs about the earlier simulator, first part: what the operations of  *)
(* a cache and the handlers of a request preserve, up to its service.      *)
(*                                                                         *)
(* The invariant of the state w of the node is NodeInv(w, h).  Handlers go *)
(* through states in which the request r at hand is between two states;    *)
(* then h = r is left out of the parts about tickets and transfers, and at *)
(* the end of the handler h = Absent.  Its parts:                          *)
(*                                                                         *)
(*   Lives     what a request is and where it is queued and served         *)
(*   Ticketed  announced load, tickets and the gate                        *)
(*   Flying    every transfer on the wire holds its two pods, its path at  *)
(*             the source and its room at the target, and no other pod is  *)
(*             busy                                                        *)
(*   Serving   private pages belong to the request in service              *)
(*   Posted    what is scheduled can be handled                            *)
(*                                                                         *)
(* CacheOk(c, m, h) is the invariant of a cache whose pins are those of    *)
(* path m, which a transfer reads, and of path h, which a service reads.   *)
(* A failed assertion ends a run, and what it leaves does not matter: the  *)
(* lemmas are about outcome "running".                                     *)
(***************************************************************************)
EXTENDS Simulator, TrieLemmas, SequenceTheorems

-----------------------------------------------------------------------------
(* A cache *)

HeapEntry == [page : Block, stamp : Nat, generation : Nat, node : Nat]

Reservations == UNION {[S -> Int] : S \in SUBSET Nat}

PrefixCache ==
    [pages : SUBSET Block, pins : [Block -> Int], stamp : [Block -> Nat],
     generation : [Block -> Nat], node : [Block -> Nat], heap : SUBSET HeapEntry,
     private : [Request -> Int], temporary : Reservations, sequence : Nat,
     resident : Int, pinned : Int, privatePages : Int, temporaryPages : Int]

Closed(S) == \A b \in S : Parent[b] \in S \cup {Root}

(* A page that may be evicted has its entry in the heap, and no two pages  *)
(* were used at the same time.                                             *)
Findable(c) ==
    /\ \A b \in Block : IsEvictableLeaf(c, b) => EntryOf(c, b) \in c.heap
    /\ \A b \in c.pages : c.stamp[b] <= c.sequence
    /\ \A x, y \in c.pages : c.stamp[x] = c.stamp[y] => x = y

Counted(c) ==
    /\ c.resident = Cardinality(c.pages)
    /\ c.pinned = Cardinality({x \in Block : c.pins[x] > 0})
    /\ c.privatePages >= 0 /\ c.temporaryPages >= 0 /\ MemoryUsed(c) <= Capacity

(* Pins are of two paths: that of the transfer the pod sends, and the hit  *)
(* of the request it serves.                                               *)
PinnedBy(c, m, h) ==
    /\ m \in Node /\ h \in Node
    /\ Chain[m] \cup Chain[h] \subseteq c.pages
    /\ \A x \in Block : c.pins[x] = (IF x \in Chain[m] THEN 1 ELSE 0) + (IF x \in Chain[h] THEN 1 ELSE 0)

CacheOk(c, m, h) ==
    c \in PrefixCache /\ Closed(c.pages) /\ Findable(c) /\ Counted(c) /\ PinnedBy(c, m, h)

(* The cache of a pod at the start.                                        *)
LEMMA EmptyCacheOk ==
    CacheOk(EmptyPrefixCache, Root, Root)
<1> DEFINE c == EmptyPrefixCache
<1>1. c \in PrefixCache
  BY SMTT(30), BlockAssumption DEF EmptyPrefixCache, PrefixCache, Reservations, NoTransfers, Absent
<1>2. Closed(c.pages) /\ Findable(c)
  BY DEF EmptyPrefixCache, Closed, Findable, IsEvictableLeaf
<1>3. Counted(c)
  BY FS_EmptySet, SizeAssumption DEF EmptyPrefixCache, Counted, MemoryUsed
<1>4. PinnedBy(c, Root, Root)
  BY ChainAssumption DEF EmptyPrefixCache, PinnedBy, Node
<1>5. QED
  BY <1>1, <1>2, <1>3, <1>4 DEF CacheOk

-----------------------------------------------------------------------------
(* Evictions *)

(* Eviction leaves these alone. *)
SameReservations(c, e) ==
    /\ e.pins = c.pins /\ e.private = c.private /\ e.temporary = c.temporary
    /\ e.sequence = c.sequence /\ e.pinned = c.pinned
    /\ e.privatePages = c.privatePages /\ e.temporaryPages = c.temporaryPages

(* While a page is not pinned, there is one that may be evicted.           *)
LEMMA LeafToEvict ==
    ASSUME NEW c, NEW m, NEW h, CacheOk(c, m, h),
           \E b \in c.pages : c.pins[b] = 0
    PROVE  Poppable(c) # {}
<1> DEFINE Free == {b \in c.pages : c.pins[b] = 0}
           Heights == {Cardinality(Block) - Depth(b) : b \in Free}
<1>1. c.pages \in SUBSET Block /\ Free \in SUBSET Block /\ Free # {}
  BY DEF CacheOk, PrefixCache
<1>2. \A b \in Block : Depth(b) \in Nat /\ Cardinality(Block) - Depth(b) \in Nat
  <2>1. TAKE b \in Block
  <2>2. Chain[b] \subseteq Block /\ Depth(b) \in Nat
    BY ChainFacts DEF Node
  <2>3. Cardinality(Block) \in Nat /\ Cardinality(Chain[b]) <= Cardinality(Block)
    BY <2>2, BlockAssumption, FS_Subset, FS_CardinalityType
  <2>4. QED
    BY <2>2, <2>3 DEF Depth
<1>3. Heights \in SUBSET Nat /\ Heights # {}
  BY <1>1, <1>2
<1>4. PICK k \in Heights : \A j \in Heights : k <= j
  <2> HIDE DEF Heights
  <2>1. QED
    BY <1>3, LeastNat
<1>5. PICK b \in Free : k = Cardinality(Block) - Depth(b)
  OBVIOUS
<1>6. \A x \in Free : Depth(x) <= Depth(b)
  <2>1. TAKE x \in Free
  <2>2. k <= Cardinality(Block) - Depth(x)
    BY <1>4
  <2>3. Cardinality(Block) \in Nat /\ Depth(x) \in Nat /\ Depth(b) \in Nat
    BY <1>1, <1>2, BlockAssumption, FS_CardinalityType
  <2>4. QED
    BY <2>2, <2>3, <1>5
<1>7. Below(c.pages, b) = {}
  <2>1. SUFFICES ASSUME NEW x \in c.pages, Parent[x] = b PROVE FALSE
    BY DEF Below
  <2>2. x \in Block /\ b \in Block
    BY <1>1
  <2>3. Depth(x) = Depth(b) + 1 /\ Chain[x] = Chain[b] \cup {x}
    BY <2>1, <2>2, ParentFacts
  <2>4. b \in Chain[x]
    BY <2>2, <2>3, ChainFacts DEF Node
  <2>5. \A n \in Node : x \in Chain[n] => b \in Chain[n]
    BY <2>2, <2>4, ChainAssumption DEF Node
  <2>6. c.pins[x] = 0
    BY <2>2, <2>5 DEF CacheOk, PinnedBy
  <2>7. QED
    BY <2>2, <2>3, <2>6, <1>6, <1>2
<1>8. IsEvictableLeaf(c, b) /\ b \in Block
  BY <1>1, <1>7 DEF IsEvictableLeaf
<1>9. EntryOf(c, b) \in c.heap
  BY <1>8 DEF CacheOk, Findable
<1>10. EntryOf(c, b) \in Poppable(c)
  <2>1. EntryOf(c, b).page = b
    BY DEF EntryOf
  <2>2. QED
    BY <1>1, <1>8, <1>9, <2>1 DEF Poppable, IsCurrent
<1>11. QED
  BY <1>10

(* What _pop_lru_leaf takes is a leaf that may be evicted, and none that   *)
(* may be is older.                                                        *)
LEMMA OldestFacts ==
    ASSUME NEW c, c \in PrefixCache, Poppable(c) # {}
    PROVE  LET e == Oldest(c)
           IN  /\ e.page \in Block /\ IsEvictableLeaf(c, e.page) /\ e = EntryOf(c, e.page)
               /\ \A b \in Block : IsEvictableLeaf(c, b) /\ EntryOf(c, b) \in c.heap
                                      => e.stamp <= c.stamp[b]
<1> DEFINE Stamps == {x.stamp : x \in Poppable(c)}
<1>1. \A x \in Poppable(c) : x \in HeapEntry /\ x.stamp \in Nat
  BY DEF Poppable, PrefixCache, HeapEntry
<1>2. Stamps \in SUBSET Nat /\ Stamps # {}
  BY <1>1
<1>3. PICK k \in Stamps : \A j \in Stamps : k <= j
  <2> HIDE DEF Stamps
  <2>1. QED
    BY <1>2, LeastNat
<1>4. \E e \in Poppable(c) : \A x \in Poppable(c) : e.stamp <= x.stamp
  BY <1>3
<1>5. /\ Oldest(c) \in Poppable(c)
      /\ \A x \in Poppable(c) : Oldest(c).stamp <= x.stamp
  BY <1>4 DEF Oldest
<1>6. Oldest(c).page \in Block
  BY <1>1, <1>5 DEF HeapEntry
<1>7. IsEvictableLeaf(c, Oldest(c).page) /\ Oldest(c) = EntryOf(c, Oldest(c).page)
  BY <1>5 DEF Poppable, IsCurrent
<1>8. ASSUME NEW b \in Block, IsEvictableLeaf(c, b), EntryOf(c, b) \in c.heap
      PROVE  Oldest(c).stamp <= c.stamp[b]
  <2>1. EntryOf(c, b).page = b /\ EntryOf(c, b).stamp = c.stamp[b]
    BY DEF EntryOf
  <2>2. EntryOf(c, b) \in Poppable(c)
    BY <1>8, <2>1 DEF Poppable, IsCurrent, IsEvictableLeaf
  <2>3. QED
    BY <2>1, <2>2, <1>5
<1>9. QED
  BY <1>6, <1>7, <1>8

(* One eviction keeps the cache sound and takes one page.                  *)
LEMMA EvictOneOk ==
    ASSUME NEW c, NEW m, NEW h, CacheOk(c, m, h), Poppable(c) # {}
    PROVE  /\ CacheOk(EvictOne(c), m, h)
           /\ SameReservations(c, EvictOne(c))
           /\ \E b \in c.pages : EvictOne(c).pages = c.pages \ {b}
<1> DEFINE e == Oldest(c)
           b == e.page
           d == [Unlinked(c, b) EXCEPT !.heap = {x \in @ : x.stamp > e.stamp}]
           v == EvictOne(c)
<1>1. c \in PrefixCache
  BY DEF CacheOk
<1>2. /\ b \in Block /\ IsEvictableLeaf(c, b) /\ e = EntryOf(c, b)
      /\ \A x \in Block : IsEvictableLeaf(c, x) => e.stamp <= c.stamp[x]
  BY <1>1, OldestFacts DEF CacheOk, Findable
<1> HIDE DEF e, b
<1>3. d \in PrefixCache
  <2>1. Unlinked(c, b) \in PrefixCache
    <3>1. /\ [c.stamp EXCEPT ![b] = 0] \in [Block -> Nat]
          /\ [c.generation EXCEPT ![b] = 0] \in [Block -> Nat]
          /\ [c.node EXCEPT ![b] = 0] \in [Block -> Nat]
          /\ c.pages \ {b} \in SUBSET Block /\ c.resident - 1 \in Int
      <4>1. /\ c.stamp \in [Block -> Nat] /\ c.generation \in [Block -> Nat]
            /\ c.node \in [Block -> Nat] /\ c.pages \in SUBSET Block /\ c.resident \in Int
        BY <1>1 DEF PrefixCache
      <4>2. \A f \in [Block -> Nat] : [f EXCEPT ![b] = 0] \in [Block -> Nat]
        OBVIOUS
      <4>3. QED
        BY <4>1, <4>2
    <3>2. QED
      BY <1>1, <3>1 DEF PrefixCache, Unlinked
  <2>2. {x \in Unlinked(c, b).heap : x.stamp > e.stamp} \in SUBSET HeapEntry
    BY <2>1 DEF PrefixCache
  <2>3. QED
    BY <2>1, <2>2 DEF PrefixCache
<1>4. /\ d.pages = c.pages \ {b} /\ SameReservations(c, d)
      /\ d.resident = c.resident - 1
      /\ d.heap = {x \in c.heap : x.stamp > e.stamp}
      /\ \A x \in Block \ {b} : /\ d.stamp[x] = c.stamp[x] /\ d.node[x] = c.node[x]
                                /\ d.generation[x] = c.generation[x]
  BY <1>1, <1>2 DEF PrefixCache, Unlinked, SameReservations
<1> HIDE DEF d
<1>5. v = [d EXCEPT !.heap = @ \cup {EntryOf(d, x) : x \in {y \in {Parent[b]} : IsEvictableLeaf(d, y)}}]
  BY DEF EvictOne, Push, d, e, b
<1>6. \A x \in Block : EntryOf(d, x) \in HeapEntry
  BY <1>3 DEF EntryOf, HeapEntry, PrefixCache
<1>7. v \in PrefixCache
  <2>1. \A x : IsEvictableLeaf(d, x) => x \in Block
    BY <1>3 DEF IsEvictableLeaf, PrefixCache
  <2>2. {EntryOf(d, x) : x \in {y \in {Parent[b]} : IsEvictableLeaf(d, y)}} \subseteq HeapEntry
    BY <1>6, <2>1
  <2>3. QED
    BY <1>3, <1>5, <2>2 DEF PrefixCache
<1>8. /\ v.pages = c.pages \ {b} /\ SameReservations(c, v) /\ v.resident = c.resident - 1
      /\ v.stamp = d.stamp /\ v.node = d.node /\ v.generation = d.generation
      /\ v.heap = d.heap \cup {EntryOf(d, x) : x \in {y \in {Parent[b]} : IsEvictableLeaf(d, y)}}
  BY <1>3, <1>4, <1>5 DEF PrefixCache, SameReservations
<1>9. \A x \in Block : EntryOf(v, x) = EntryOf(d, x)
  BY <1>8 DEF EntryOf
<1> HIDE DEF v
<1>10. b \in c.pages /\ c.pins[b] = 0 /\ Below(c.pages, b) = {} /\ c.pages \in SUBSET Block
  BY <1>1, <1>2 DEF IsEvictableLeaf, PrefixCache
<1>11. Closed(v.pages)
  BY <1>8, <1>10 DEF CacheOk, Closed, Below
<1>12. Findable(v)
  <2>1. ASSUME NEW x \in Block, IsEvictableLeaf(v, x) PROVE EntryOf(v, x) \in v.heap
    <3>1. x # b /\ x \in c.pages /\ c.pins[x] = 0 /\ Below(c.pages \ {b}, x) = {}
      BY <1>8, <2>1 DEF IsEvictableLeaf, SameReservations
    <3>2. CASE Parent[b] = x
      <4>1. IsEvictableLeaf(d, x)
        BY <2>1, <1>8, <1>4 DEF IsEvictableLeaf, SameReservations
      <4>2. QED
        BY <3>2, <4>1, <1>8, <1>9
    <3>3. CASE Parent[b] # x
      <4>1. IsEvictableLeaf(c, x)
        BY <3>1, <3>3 DEF IsEvictableLeaf, Below
      <4>2. EntryOf(c, x) \in c.heap /\ c.stamp[x] # c.stamp[b]
        BY <4>1, <3>1, <1>10 DEF CacheOk, Findable
      <4>3. e.stamp = c.stamp[b] /\ EntryOf(c, x).stamp = c.stamp[x]
        BY <1>2 DEF EntryOf
      <4>4. c.stamp[x] \in Nat /\ c.stamp[b] \in Nat
        BY <1>1, <1>2 DEF PrefixCache
      <4>5. EntryOf(c, x) \in d.heap
        BY <4>1, <4>2, <4>3, <4>4, <1>2, <1>4
      <4>6. EntryOf(d, x) = EntryOf(c, x)
        BY <3>1, <1>4 DEF EntryOf
      <4>7. QED
        BY <4>5, <4>6, <1>8, <1>9
    <3>4. QED
      BY <3>2, <3>3
  <2>2. \A x \in v.pages : v.stamp[x] = c.stamp[x] /\ x \in c.pages
    BY <1>4, <1>8, <1>10
  <2>3. v.sequence = c.sequence
    BY <1>8 DEF SameReservations
  <2>4. QED
    BY <2>1, <2>2, <2>3 DEF CacheOk, Findable
<1>13. Counted(v)
  <2>1. IsFiniteSet(c.pages)
    BY <1>10, BlockAssumption, FS_Subset
  <2>2. Cardinality(v.pages) = Cardinality(c.pages) - 1
    <3>1. Cardinality(c.pages \ {b}) = Cardinality(c.pages) - 1
      BY <2>1, <1>10, FS_RemoveElement
    <3>2. QED
      BY <3>1, <1>8
  <2>3. c.resident \in Int /\ c.privatePages \in Int /\ c.temporaryPages \in Int
    BY <1>1 DEF PrefixCache
  <2>4. QED
    BY <2>2, <2>3, <1>8, SizeAssumption DEF CacheOk, Counted, MemoryUsed, SameReservations
<1>14. PinnedBy(v, m, h)
  BY <1>8, <1>10 DEF CacheOk, PinnedBy, SameReservations
<1>15. QED
  BY <1>7, <1>8, <1>10, <1>11, <1>12, <1>13, <1>14 DEF CacheOk, v
(* One round of the loop of _evict_for.                                    *)
EvictStep(now, more) ==
    IF MemoryUsed(now) + more <= Capacity THEN now
    ELSE IF Poppable(now) = {} THEN [now EXCEPT !.heap = {}]
    ELSE EvictOne(now)

IsEviction(c, more, n, f) ==
    f = [i \in 0 .. n |-> IF i = 0 THEN c ELSE EvictStep(f[i - 1], more)]

(* The states an eviction goes through, as a function.                     *)
LEMMA EvictionExists ==
    ASSUME NEW c, NEW more, NEW n \in Nat
    PROVE  \E f : IsEviction(c, more, n, f)
<1> DEFINE Bad == {k \in Nat : ~\E f : IsEviction(c, more, k, f)}
<1>1. SUFFICES ASSUME Bad # {} PROVE FALSE
  OBVIOUS
<1>2. PICK k \in Bad : \A j \in Bad : k <= j
  BY <1>1, LeastNat
<1>3. k # 0
  <2>1. IsEviction(c, more, 0, [i \in 0 .. 0 |-> c])
    BY DEF IsEviction
  <2>2. QED
    BY <2>1
<1>4. PICK f : IsEviction(c, more, k - 1, f)
  BY <1>2, <1>3
<1> DEFINE g == [i \in 0 .. k |-> IF i = k THEN EvictStep(f[k - 1], more) ELSE f[i]]
<1>5. \A i \in 0 .. k - 1 : f[i] = IF i = 0 THEN c ELSE EvictStep(f[i - 1], more)
  BY <1>4 DEF IsEviction
<1>6. \A i \in 0 .. k : g[i] = IF i = 0 THEN c ELSE EvictStep(g[i - 1], more)
  <2>1. TAKE i \in 0 .. k
  <2>2. CASE i = k
    <3>1. g[i] = EvictStep(f[k - 1], more) /\ g[i - 1] = f[k - 1]
      BY <2>2, <1>2, <1>3
    <3>2. QED
      BY <3>1, <2>2, <1>3
  <2>3. CASE i # k
    <3>1. i \in 0 .. k - 1
      BY <2>3, <1>2
    <3>2. g[i] = f[i] /\ (i # 0 => g[i - 1] = f[i - 1])
      BY <2>3, <1>2
    <3>3. QED
      BY <3>1, <3>2, <1>5
  <2>4. QED
    BY <2>2, <2>3
<1>7. g = [i \in 0 .. k |-> g[i]]
  OBVIOUS
<1>8. IsEviction(c, more, k, g)
  BY <1>6, <1>7 DEF IsEviction
<1>9. QED
  BY <1>2, <1>8

(* EvictFor is the last of these states.                                   *)
LEMMA EvictForUnfolds ==
    ASSUME NEW c, c \in PrefixCache, NEW more
    PROVE  LET n == Cardinality(c.pages) + 1
           IN  n \in Nat /\ \E f : IsEviction(c, more, n, f) /\ EvictFor(c, more) = f[n]
<1> DEFINE n == Cardinality(c.pages) + 1
           f == CHOOSE g : IsEviction(c, more, n, g)
<1>1. n \in Nat
  BY BlockAssumption, FS_Subset, FS_CardinalityType DEF PrefixCache
<1>2. IsEviction(c, more, n, f)
  BY <1>1, EvictionExists
<1>3. EvictFor(c, more) = f[n]
  BY DEF EvictFor, IsEviction, EvictStep
<1>4. QED
  BY <1>1, <1>2, <1>3

(* Evicting keeps the cache in order and touches nothing that is held; and *)
(* what can_admit_temporary lets through always fits afterwards.           *)
LEMMA EvictForOk ==
    ASSUME NEW c, NEW m, NEW h, CacheOk(c, m, h), NEW more \in Nat
    PROVE  /\ CacheOk(EvictFor(c, more), m, h)
           /\ SameReservations(c, EvictFor(c, more))
           /\ EvictFor(c, more).pages \subseteq c.pages
           /\ CanAdmit(c, more) => MemoryUsed(EvictFor(c, more)) + more <= Capacity
<1> DEFINE n == Cardinality(c.pages) + 1
<1>1. c \in PrefixCache
  BY DEF CacheOk
<1>2. PICK f : n \in Nat /\ IsEviction(c, more, n, f) /\ EvictFor(c, more) = f[n]
  BY <1>1, EvictForUnfolds
<1>3. \A i \in 0 .. n : f[i] = IF i = 0 THEN c ELSE EvictStep(f[i - 1], more)
  BY <1>2 DEF IsEviction
<1> DEFINE Fits(x) == MemoryUsed(x) + more <= Capacity
           Good(i) == /\ CacheOk(f[i], m, h) /\ SameReservations(c, f[i])
                      /\ f[i].pages \subseteq c.pages
                      /\ CanAdmit(c, more) =>
                            Fits(f[i]) \/ Cardinality(f[i].pages) + i <= Cardinality(c.pages)
           Bad == {k \in Nat : k <= n /\ ~Good(k)}
<1>4. Cardinality(c.pages) \in Nat
  BY <1>1, BlockAssumption, FS_Subset, FS_CardinalityType DEF PrefixCache
<1>5. Good(0)
  BY <1>2, <1>3, <1>4 DEF SameReservations
<1>6. ASSUME NEW i \in 0 .. n - 1, Good(i) PROVE Good(i + 1)
  <2> DEFINE x == f[i]
             y == f[i + 1]
  <2>1. y = EvictStep(x, more)
    BY <1>2, <1>3
  <2>2. CacheOk(x, m, h) /\ SameReservations(c, x) /\ x.pages \subseteq c.pages
    BY <1>6
  <2>3. x \in PrefixCache /\ IsFiniteSet(x.pages) /\ Cardinality(x.pages) \in Nat
    BY <2>2, BlockAssumption, FS_Subset, FS_CardinalityType DEF CacheOk, PrefixCache
  <2> HIDE DEF x, y
  <2>4. CASE Fits(x)
    <3>1. y = x
      BY <2>1, <2>4 DEF EvictStep
    <3>2. QED
      BY <3>1, <2>2, <2>4 DEF x, y
  <2>5. CASE ~Fits(x) /\ Poppable(x) = {}
    <3>1. y = [x EXCEPT !.heap = {}]
      BY <2>1, <2>5 DEF EvictStep
    <3>2. /\ y \in PrefixCache /\ SameReservations(x, y) /\ y.pages = x.pages
          /\ y.resident = x.resident /\ y.stamp = x.stamp
      BY <3>1, <2>3 DEF PrefixCache, SameReservations
    <3>3. \A b \in Block : ~IsEvictableLeaf(x, b)
      <4>1. SUFFICES ASSUME NEW b \in Block, IsEvictableLeaf(x, b) PROVE FALSE
        OBVIOUS
      <4>2. QED
        BY <4>1, <2>2, <2>5, LeafToEvict DEF IsEvictableLeaf
    <3>4. Findable(y)
      BY <3>2, <3>3, <2>2 DEF Findable, IsEvictableLeaf, CacheOk, SameReservations
    <3>5. Counted(y) /\ PinnedBy(y, m, h) /\ Closed(y.pages)
      BY <3>2, <2>2 DEF CacheOk, Counted, PinnedBy, MemoryUsed, SameReservations
    <3>6. CacheOk(y, m, h)
      BY <3>2, <3>4, <3>5 DEF CacheOk
    <3>7. ~CanAdmit(c, more)
      <4>1. \A b \in x.pages : x.pins[b] > 0
        <5>1. \A b \in x.pages : b \in Block /\ x.pins[b] # 0
          BY <2>2, <2>3, <2>5, LeafToEvict DEF PrefixCache
        <5>2. QED
          BY <5>1, <2>2 DEF CacheOk, PinnedBy
      <4>2. {b \in Block : x.pins[b] > 0} = x.pages
        BY <4>1, <2>2, <2>3 DEF CacheOk, PinnedBy, PrefixCache
      <4>3. x.resident = x.pinned
        BY <4>2, <2>2 DEF CacheOk, Counted
      <4>4. /\ x.resident \in Int /\ x.pinned = c.pinned
            /\ x.privatePages = c.privatePages /\ x.temporaryPages = c.temporaryPages
        BY <2>2, <2>3 DEF SameReservations, PrefixCache
      <4>5. QED
        BY <4>3, <4>4, <2>5 DEF CanAdmit, MemoryUsed
    <3>8. QED
      BY <3>2, <3>6, <3>7, <2>2 DEF x, y, SameReservations
  <2>6. CASE ~Fits(x) /\ Poppable(x) # {}
    <3>1. y = EvictOne(x)
      BY <2>1, <2>6 DEF EvictStep
    <3>2. PICK b \in x.pages : y.pages = x.pages \ {b}
      BY <3>1, <2>2, <2>6, EvictOneOk
    <3>3. CacheOk(y, m, h) /\ SameReservations(x, y)
      BY <3>1, <2>2, <2>6, EvictOneOk
    <3>4. Cardinality(x.pages \ {b}) = Cardinality(x.pages) - 1
      BY <2>3, <3>2, FS_RemoveElement
    <3>5. CanAdmit(c, more) => Cardinality(y.pages) + i + 1 <= Cardinality(c.pages)
      BY <3>2, <3>4, <2>3, <2>6, <1>6, <1>4, <1>2 DEF x
    <3>6. SameReservations(c, y) /\ y.pages \subseteq c.pages
      BY <3>2, <3>3, <2>2 DEF SameReservations
    <3>7. IsFiniteSet(x.pages \ {b}) /\ Cardinality(y.pages) \in Nat
      BY <3>2, <2>3, FS_RemoveElement, FS_CardinalityType
    <3>8. CanAdmit(c, more) => Cardinality(y.pages) + (i + 1) <= Cardinality(c.pages)
      BY <3>5, <3>7, <1>2
    <3>9. QED
      BY <3>3, <3>6, <3>8 DEF y
  <2>7. QED
    BY <2>4, <2>5, <2>6
<1>7. Bad = {}
  <2>1. SUFFICES ASSUME Bad # {} PROVE FALSE
    OBVIOUS
  <2>2. PICK k \in Bad : \A j \in Bad : k <= j
    <3>1. Bad \in SUBSET Nat
      OBVIOUS
    <3> HIDE DEF Bad
    <3>2. QED
      BY <2>1, <3>1, LeastNat
  <2> HIDE DEF Good
  <2>3. k # 0
    BY <2>2, <1>5
  <2>4. Good(k - 1) /\ k - 1 \in 0 .. n - 1
    BY <2>2, <2>3, <1>2
  <2>5. Good(k - 1 + 1)
    BY <2>4, <1>6
  <2>6. QED
    BY <2>2, <2>5, <1>2
<1>8. Good(n)
  <2> HIDE DEF Good
  <2>1. QED
    BY <1>7, <1>2
<1>9. f[n].pages \subseteq Block /\ Cardinality(f[n].pages) \in Nat
  BY <1>8, BlockAssumption, FS_Subset, FS_CardinalityType DEF CacheOk, PrefixCache
<1>10. QED
  BY <1>2, <1>4, <1>8, <1>9
(* A reservation finds room just when can_admit_temporary says so, and     *)
(* nothing is evicted for one that is refused.                             *)
LEMMA RoomOk ==
    ASSUME NEW c, NEW m, NEW h, CacheOk(c, m, h), NEW k \in Nat
    PROVE  /\ CacheOk(Room(c, k), m, h)
           /\ SameReservations(c, Room(c, k))
           /\ Room(c, k).pages \subseteq c.pages
           /\ Admitted(c, k) <=> CanAdmit(c, k)
           /\ Admitted(c, k) => MemoryUsed(Room(c, k)) + k <= Capacity
           /\ ~Admitted(c, k) => Room(c, k) = c
BY EvictForOk DEF Room, Admitted, SameReservations

(* An admitted reservation of a request keeps the cache sound.             *)
LEMMA ReservePrivateOk ==
    ASSUME NEW c, NEW m, NEW h, CacheOk(c, m, h), NEW k \in Nat, NEW r \in Request,
           Admitted(c, k)
    PROVE  LET e == ReserveActivePrivate(c, r, k)
           IN  /\ CacheOk(e, m, h) /\ e.pages \subseteq c.pages
               /\ e.private = [c.private EXCEPT ![r] = k] /\ e.privatePages = c.privatePages + k
               /\ e.temporary = c.temporary /\ e.temporaryPages = c.temporaryPages
<1> DEFINE d == Room(c, k)
           e == ReserveActivePrivate(c, r, k)
<1>1. /\ CacheOk(d, m, h) /\ SameReservations(c, d) /\ d.pages \subseteq c.pages
      /\ MemoryUsed(d) + k <= Capacity
  BY RoomOk
<1> HIDE DEF d
<1>2. d \in PrefixCache
  BY <1>1 DEF CacheOk
<1>3. e = [d EXCEPT !.private[r] = k, !.privatePages = @ + k]
  BY DEF ReserveActivePrivate, d
<1>4. d.private \in [Request -> Int] /\ d.privatePages \in Int
  BY <1>2 DEF PrefixCache
<1>5. e \in PrefixCache
  <2>1. [d.private EXCEPT ![r] = k] \in [Request -> Int] /\ d.privatePages + k \in Int
    BY <1>4
  <2>2. QED
    BY <1>2, <1>3, <2>1 DEF PrefixCache
<1>6. /\ e.private = [d.private EXCEPT ![r] = k] /\ e.privatePages = d.privatePages + k
      /\ e.pages = d.pages /\ e.pins = d.pins /\ e.stamp = d.stamp /\ e.generation = d.generation
      /\ e.node = d.node /\ e.heap = d.heap /\ e.sequence = d.sequence
      /\ e.resident = d.resident /\ e.pinned = d.pinned
      /\ e.temporary = d.temporary /\ e.temporaryPages = d.temporaryPages
  BY <1>2, <1>3 DEF PrefixCache
<1> HIDE DEF e
<1>7. Findable(e) /\ PinnedBy(e, m, h) /\ Closed(e.pages)
  BY <1>1, <1>6 DEF CacheOk, Findable, PinnedBy, IsEvictableLeaf, EntryOf
<1>8. Counted(e)
  <2>1. d.resident \in Int /\ d.temporaryPages \in Int
    BY <1>2 DEF PrefixCache
  <2>2. QED
    BY <1>1, <1>4, <1>6, <2>1, SizeAssumption DEF CacheOk, Counted, MemoryUsed
<1>9. QED
  BY <1>1, <1>5, <1>6, <1>7, <1>8 DEF CacheOk, SameReservations, e

(* An admitted reservation of a transfer keeps the cache sound.            *)
LEMMA ReserveTemporaryOk ==
    ASSUME NEW c, NEW m, NEW h, CacheOk(c, m, h), NEW k \in Nat, NEW t \in Nat,
           Admitted(c, k)
    PROVE  LET e == ReserveTransferTemporary(c, t, k)
           IN  /\ CacheOk(e, m, h) /\ e.pages \subseteq c.pages
               /\ e.private = c.private /\ e.privatePages = c.privatePages
               /\ DOMAIN e.temporary = DOMAIN c.temporary \cup {t} /\ e.temporary[t] = k
               /\ e.temporaryPages = c.temporaryPages + k
<1> DEFINE d == Room(c, k)
           e == ReserveTransferTemporary(c, t, k)
           held == [x \in DOMAIN d.temporary \cup {t} |-> IF x = t THEN k ELSE d.temporary[x]]
<1>1. /\ CacheOk(d, m, h) /\ SameReservations(c, d) /\ d.pages \subseteq c.pages
      /\ MemoryUsed(d) + k <= Capacity
  BY RoomOk
<1> HIDE DEF d
<1>2. d \in PrefixCache
  BY <1>1 DEF CacheOk
<1>3. e = [d EXCEPT !.temporary = held, !.temporaryPages = @ + k]
  BY DEF ReserveTransferTemporary, d
<1>4. d.temporary \in Reservations /\ d.temporaryPages \in Int
  BY <1>2 DEF PrefixCache
<1>5. e \in PrefixCache
  <2>1. PICK S \in SUBSET Nat : d.temporary \in [S -> Int]
    BY <1>4 DEF Reservations
  <2>2. held \in [S \cup {t} -> Int] /\ S \cup {t} \in SUBSET Nat
    BY <2>1
  <2>3. held \in Reservations
    BY <2>2 DEF Reservations
  <2>4. d.temporaryPages + k \in Int
    BY <1>4
  <2> HIDE DEF held
  <2>5. QED
    BY <1>2, <1>3, <2>3, <2>4 DEF PrefixCache
<1>6. /\ e.temporary = held /\ e.temporaryPages = d.temporaryPages + k
      /\ e.pages = d.pages /\ e.pins = d.pins /\ e.stamp = d.stamp /\ e.generation = d.generation
      /\ e.node = d.node /\ e.heap = d.heap /\ e.sequence = d.sequence
      /\ e.resident = d.resident /\ e.pinned = d.pinned
      /\ e.private = d.private /\ e.privatePages = d.privatePages
  <2> HIDE DEF held
  <2>1. QED
    BY <1>2, <1>3 DEF PrefixCache
<1>7. DOMAIN held = DOMAIN d.temporary \cup {t} /\ held[t] = k
  OBVIOUS
<1> HIDE DEF e, held
<1>8. Findable(e) /\ PinnedBy(e, m, h) /\ Closed(e.pages)
  BY <1>1, <1>6 DEF CacheOk, Findable, PinnedBy, IsEvictableLeaf, EntryOf
<1>9. Counted(e)
  <2>1. d.resident \in Int /\ d.privatePages \in Int
    BY <1>2 DEF PrefixCache
  <2>2. QED
    BY <1>1, <1>4, <1>6, <2>1, SizeAssumption DEF CacheOk, Counted, MemoryUsed
<1>10. QED
  BY <1>1, <1>5, <1>6, <1>7, <1>8, <1>9 DEF CacheOk, SameReservations, e

-----------------------------------------------------------------------------
(* Pins *)

(* Pinning and unpinning leave these alone. *)
SamePages(c, e) ==
    /\ e.pages = c.pages /\ e.private = c.private /\ e.temporary = c.temporary
    /\ e.resident = c.resident
    /\ e.privatePages = c.privatePages /\ e.temporaryPages = c.temporaryPages

(* It does not matter which of two pins came first.                        *)
LEMMA PinsCommute ==
    ASSUME NEW c, NEW m, NEW h, CacheOk(c, m, h)
    PROVE  CacheOk(c, h, m)
BY DEF CacheOk, PinnedBy

(* PinChanges touches pins and generations only.                           *)
LEMMA PinChangesFacts ==
    ASSUME NEW c \in PrefixCache, NEW n \in Node, NEW sign \in {-1, 1}
    PROVE  LET e == PinChanges(c, n, sign)
           IN  /\ e \in PrefixCache
               /\ e.stamp = c.stamp /\ e.node = c.node /\ e.heap = c.heap
               /\ e.sequence = c.sequence /\ e.pinned = c.pinned /\ SamePages(c, e)
               /\ c.pins \in [Block -> Int]
               /\ \A b \in Block : e.pins[b] = IF b \in Chain[n] THEN c.pins[b] + sign ELSE c.pins[b]
               /\ \A b \in Block : b \notin Chain[n] => e.generation[b] = c.generation[b]
<1> DEFINE pins == [b \in Block |-> IF b \in Chain[n] THEN c.pins[b] + sign ELSE c.pins[b]]
           gen == [b \in Block |-> IF b \in Chain[n] THEN c.generation[b] + 1 ELSE c.generation[b]]
           e == PinChanges(c, n, sign)
<1>1. e = [c EXCEPT !.pins = pins, !.generation = gen]
  BY DEF PinChanges
<1>2. c.pins \in [Block -> Int] /\ c.generation \in [Block -> Nat]
  BY DEF PrefixCache
<1>3. pins \in [Block -> Int] /\ gen \in [Block -> Nat]
  BY <1>2
<1>4. /\ \A b \in Block : pins[b] = IF b \in Chain[n] THEN c.pins[b] + sign ELSE c.pins[b]
      /\ \A b \in Block : b \notin Chain[n] => gen[b] = c.generation[b]
  OBVIOUS
<1> HIDE DEF pins, gen, e
<1>5. /\ e \in PrefixCache /\ e.pins = pins /\ e.generation = gen
      /\ e.stamp = c.stamp /\ e.node = c.node /\ e.heap = c.heap
      /\ e.sequence = c.sequence /\ e.pinned = c.pinned /\ SamePages(c, e)
  BY <1>1, <1>3 DEF PrefixCache, SamePages
<1>6. QED
  BY <1>2, <1>4, <1>5 DEF e

(* A pinned path is pinned once more, and no page comes or goes.           *)
LEMMA PinOk ==
    ASSUME NEW c, NEW n, NEW h, CacheOk(c, Root, h), n \in Node, Chain[n] \subseteq c.pages
    PROVE  CacheOk(Pin(c, n), n, h) /\ SamePages(c, Pin(c, n))
<1> DEFINE d == PinChanges(c, n, 1)
           flips == {b \in Chain[n] : c.pins[b] = 0}
           e == Pin(c, n)
<1>1. c \in PrefixCache
  BY DEF CacheOk
<1>2. /\ d \in PrefixCache /\ c.pins \in [Block -> Int]
      /\ \A b \in Block : d.pins[b] = IF b \in Chain[n] THEN c.pins[b] + 1 ELSE c.pins[b]
      /\ \A b \in Block : b \notin Chain[n] => d.generation[b] = c.generation[b]
      /\ d.stamp = c.stamp /\ d.node = c.node /\ d.heap = c.heap /\ d.sequence = c.sequence
      /\ SamePages(c, d) /\ d.pinned = c.pinned
  BY <1>1, PinChangesFacts
<1>3. Chain[n] \subseteq Block
  BY ChainFacts
<1>4. flips \in SUBSET Block /\ Cardinality(flips) \in Nat
  BY <1>3, BlockAssumption, FS_Subset, FS_CardinalityType
<1>5. e = [d EXCEPT !.pinned = @ + Cardinality(flips)]
  BY DEF Pin
<1> HIDE DEF d, flips
<1>6. /\ e \in PrefixCache /\ e.pinned = d.pinned + Cardinality(flips)
      /\ e.pins = d.pins /\ e.generation = d.generation
      /\ e.stamp = d.stamp /\ e.node = d.node /\ e.heap = d.heap /\ e.sequence = d.sequence
      /\ SamePages(d, e)
  BY <1>2, <1>4, <1>5 DEF PrefixCache, SamePages
<1> HIDE DEF e
<1>7. PinnedBy(e, n, h)
  <2>1. Chain[Root] = {}
    BY ChainAssumption
  <2>2. \A x \in Block : c.pins[x] = IF x \in Chain[h] THEN 1 ELSE 0
    BY <2>1 DEF CacheOk, PinnedBy
  <2>3. QED
    BY <2>2, <1>2, <1>6 DEF CacheOk, PinnedBy, SamePages
<1>8. Findable(e)
  <2>1. ASSUME NEW b \in Block, IsEvictableLeaf(e, b) PROVE EntryOf(e, b) \in e.heap
    <3>1. b \notin Chain[n]
      <4>1. c.pins[b] \in {0, 1}
        BY ChainAssumption DEF CacheOk, PinnedBy
      <4>2. QED
        BY <4>1, <2>1, <1>2, <1>6 DEF IsEvictableLeaf
    <3>2. IsEvictableLeaf(c, b)
      BY <2>1, <3>1, <1>2, <1>6 DEF IsEvictableLeaf, SamePages
    <3>3. EntryOf(e, b) = EntryOf(c, b)
      BY <3>1, <1>2, <1>6 DEF EntryOf
    <3>4. QED
      BY <3>2, <3>3, <1>2, <1>6 DEF CacheOk, Findable
  <2>2. QED
    BY <2>1, <1>2, <1>6 DEF CacheOk, Findable, SamePages
<1>9. Counted(e)
  <2> DEFINE A == {x \in Block : c.pins[x] > 0}
             B == {x \in Block : e.pins[x] > 0}
  <2>1. \A x \in Block : c.pins[x] \in Nat
    BY DEF CacheOk, PinnedBy
  <2>2. B = A \cup flips /\ flips \ A = flips
    BY <2>1, <1>2, <1>3, <1>6 DEF flips
  <2>3. A \in SUBSET Block
    OBVIOUS
  <2> HIDE DEF A, B
  <2>4. Cardinality(B) = Cardinality(A) + Cardinality(flips)
    BY <2>2, <2>3, <1>4, PagesGrow
  <2>5. e.pinned = Cardinality(B)
    BY <2>4, <1>2, <1>6 DEF CacheOk, Counted, A
  <2>6. QED
    BY <2>5, <1>2, <1>6 DEF CacheOk, Counted, MemoryUsed, SamePages, B
<1>10. QED
  BY <1>2, <1>6, <1>7, <1>8, <1>9 DEF CacheOk, SamePages, e

(* An unpinned path may be evicted again, and is found.                    *)
LEMMA UnpinOk ==
    ASSUME NEW c, NEW n, NEW h, CacheOk(c, n, h)
    PROVE  CacheOk(Unpin(c, n), Root, h) /\ SamePages(c, Unpin(c, n))
<1> DEFINE d == PinChanges(c, n, -1)
           flips == {b \in Chain[n] : c.pins[b] = 1}
           f == [d EXCEPT !.pinned = @ - Cardinality(flips)]
           free == {x \in Chain[n] : IsEvictableLeaf(f, x)}
           e == Unpin(c, n)
<1>1. c \in PrefixCache /\ n \in Node /\ Chain[n] \subseteq c.pages
  BY DEF CacheOk, PinnedBy
<1>2. /\ d \in PrefixCache /\ c.pins \in [Block -> Int]
      /\ \A b \in Block : d.pins[b] = IF b \in Chain[n] THEN c.pins[b] + -1 ELSE c.pins[b]
      /\ \A b \in Block : b \notin Chain[n] => d.generation[b] = c.generation[b]
      /\ d.stamp = c.stamp /\ d.node = c.node /\ d.heap = c.heap /\ d.sequence = c.sequence
      /\ SamePages(c, d) /\ d.pinned = c.pinned
  BY <1>1, PinChangesFacts
<1>3. Chain[n] \subseteq Block
  BY <1>1, ChainFacts
<1>4. flips \in SUBSET Block /\ Cardinality(flips) \in Nat
  BY <1>3, BlockAssumption, FS_Subset, FS_CardinalityType
<1>5. e = [f EXCEPT !.heap = @ \cup {EntryOf(f, b) : b \in free}]
  BY DEF Unpin, Push
<1> HIDE DEF d, flips
<1>6. /\ f \in PrefixCache /\ f.pinned = d.pinned - Cardinality(flips)
      /\ f.pins = d.pins /\ f.generation = d.generation
      /\ f.stamp = d.stamp /\ f.node = d.node /\ f.heap = d.heap /\ f.sequence = d.sequence
      /\ SamePages(d, f)
  BY <1>2, <1>4 DEF PrefixCache, SamePages
<1> HIDE DEF f
<1>7. {EntryOf(f, b) : b \in free} \subseteq HeapEntry
  <2>1. \A b \in Block : EntryOf(f, b) \in HeapEntry
    BY <1>6 DEF EntryOf, HeapEntry, PrefixCache
  <2>2. QED
    BY <2>1, <1>3
<1> HIDE DEF e
<1>8. /\ e \in PrefixCache /\ e.heap = f.heap \cup {EntryOf(f, b) : b \in free}
      /\ e.pins = f.pins /\ e.generation = f.generation
      /\ e.stamp = f.stamp /\ e.node = f.node /\ e.sequence = f.sequence
      /\ SamePages(f, e) /\ e.pinned = f.pinned
  <2> HIDE DEF free
  <2>1. QED
    BY <1>5, <1>6, <1>7 DEF PrefixCache, SamePages
<1>9. PinnedBy(e, Root, h)
  <2>1. Chain[Root] = {} /\ Root \in Node
    BY ChainAssumption DEF Node
  <2>2. \A x \in Block : e.pins[x] = IF x \in Chain[h] THEN 1 ELSE 0
    BY <1>2, <1>6, <1>8 DEF CacheOk, PinnedBy
  <2>3. QED
    BY <2>1, <2>2, <1>2, <1>6, <1>8 DEF CacheOk, PinnedBy, SamePages
<1>10. Findable(e)
  <2>1. ASSUME NEW b \in Block, IsEvictableLeaf(e, b) PROVE EntryOf(e, b) \in e.heap
    <3>1. EntryOf(e, b) = EntryOf(f, b) /\ IsEvictableLeaf(f, b)
      BY <2>1, <1>8 DEF EntryOf, IsEvictableLeaf, SamePages
    <3>2. CASE b \in Chain[n]
      BY <3>1, <3>2, <1>8
    <3>3. CASE b \notin Chain[n]
      <4>1. IsEvictableLeaf(c, b) /\ EntryOf(f, b) = EntryOf(c, b)
        BY <3>1, <3>3, <1>2, <1>6 DEF IsEvictableLeaf, EntryOf, SamePages
      <4>2. QED
        BY <3>1, <4>1, <1>2, <1>6, <1>8 DEF CacheOk, Findable
    <3>4. QED
      BY <3>2, <3>3
  <2>2. QED
    BY <2>1, <1>2, <1>6, <1>8 DEF CacheOk, Findable, SamePages
<1>11. Counted(e)
  <2> DEFINE A == {x \in Block : c.pins[x] > 0}
             B == {x \in Block : e.pins[x] > 0}
  <2>1. \A x \in Block : c.pins[x] = (IF x \in Chain[n] THEN 1 ELSE 0) + (IF x \in Chain[h] THEN 1 ELSE 0)
    BY DEF CacheOk, PinnedBy
  <2>2. \A x \in Block : e.pins[x] = IF x \in Chain[h] THEN 1 ELSE 0
    BY <2>1, <1>2, <1>6, <1>8
  <2>3. \A x \in Block : x \in flips <=> x \in Chain[n] /\ x \notin Chain[h]
    BY <2>1, <1>3 DEF flips
  <2>4. A = B \cup flips /\ flips \ B = flips
    BY <2>1, <2>2, <2>3, <1>4
  <2>5. B \in SUBSET Block
    OBVIOUS
  <2> HIDE DEF A, B
  <2>6. Cardinality(A) = Cardinality(B) + Cardinality(flips) /\ Cardinality(B) \in Nat
    BY <2>4, <2>5, <1>4, PagesGrow
  <2>7. e.pinned = Cardinality(B)
    BY <2>6, <1>4, <1>2, <1>6, <1>8 DEF CacheOk, Counted, A
  <2>8. QED
    BY <2>7, <1>2, <1>6, <1>8 DEF CacheOk, Counted, MemoryUsed, SamePages, B
<1>12. QED
  BY <1>2, <1>6, <1>8, <1>9, <1>10, <1>11 DEF CacheOk, SamePages, e

(* Two pages on one path lie one behind the other, so what their paths     *)
(* have outside a set differs in length.                                   *)
LEMMA RanksDiffer ==
    ASSUME NEW n \in Node, NEW P, NEW a \in Chain[n] \ P, NEW b \in Chain[n] \ P
    PROVE  /\ Cardinality(Chain[b] \ P) \in Nat /\ Cardinality(Chain[n] \ P) \in Nat
           /\ 0 < Cardinality(Chain[b] \ P)
           /\ Cardinality(Chain[b] \ P) <= Cardinality(Chain[n] \ P)
           /\ Cardinality(Chain[a] \ P) = Cardinality(Chain[b] \ P) => a = b
<1>1. \A x \in Node : Chain[x] \in SUBSET Block /\ IsFiniteSet(Chain[x])
  BY ChainFacts
<1>2. Chain[a] \subseteq Chain[n] /\ Chain[b] \subseteq Chain[n] /\ a \in Block /\ b \in Block
  BY <1>1, ChainAssumption
<1>3. a \in Chain[a] /\ b \in Chain[b]
  BY <1>2, ChainFacts DEF Node
<1>4. \A x \in Node : IsFiniteSet(Chain[x] \ P)
  BY <1>1, FS_Subset
<1>5. /\ Cardinality(Chain[b] \ P) \in Nat /\ Cardinality(Chain[n] \ P) \in Nat
      /\ Cardinality(Chain[b] \ P) <= Cardinality(Chain[n] \ P)
  BY <1>2, <1>4, FS_Subset, FS_CardinalityType DEF Node
<1>6. 0 < Cardinality(Chain[b] \ P)
  BY <1>3, <1>5, <1>2, <1>4, FS_EmptySet DEF Node
<1>7. ASSUME a # b, NEW x \in {a, b}, NEW y \in {a, b}, x # y, Chain[x] \subseteq Chain[y]
      PROVE  Cardinality(Chain[x] \ P) # Cardinality(Chain[y] \ P)
  <2>1. x \in Block /\ y \in Block /\ x \in Chain[y] /\ y \notin P
    BY <1>2, <1>3, <1>7
  <2>2. Chain[y] = Chain[Parent[y]] \cup {y} /\ Parent[y] \in Node /\ y \notin Chain[Parent[y]]
    BY <2>1, ChainAssumption, ParentAssumption
  <2>3. x \in Chain[Parent[y]]
    BY <2>1, <2>2, <1>7
  <2>4. y \notin Chain[x]
    BY <2>2, <2>3, ChainAssumption
  <2>5. Chain[x] \ P \subseteq Chain[y] \ P /\ Chain[x] \ P # Chain[y] \ P
    BY <2>1, <2>4, <1>7, <2>2
  <2>6. QED
    BY <2>1, <2>5, <1>4, FS_Subset DEF Node
<1>8. Chain[a] \subseteq Chain[b] \/ Chain[b] \subseteq Chain[a]
  BY PathOrdered
<1>9. QED
  BY <1>5, <1>6, <1>7, <1>8

(* Pinning for a service marks the accesses of the path.                   *)
LEMMA RefreshOk ==
    ASSUME NEW c, NEW m, NEW n, CacheOk(c, m, Root), n \in Node, Chain[n] \subseteq c.pages
    PROVE  CacheOk(PinAndRefresh(c, n), m, n) /\ SamePages(c, PinAndRefresh(c, n))
<1> DEFINE d == Pin(c, n)
           stamp == [b \in Block |-> IF b \in Chain[n] THEN c.sequence + Depth(b) ELSE d.stamp[b]]
           gen == [b \in Block |-> IF b \in Chain[n] THEN d.generation[b] + 1 ELSE d.generation[b]]
           e == PinAndRefresh(c, n)
<1>1. CacheOk(d, m, n) /\ SamePages(c, d) /\ d.sequence = c.sequence /\ d.stamp = c.stamp
  <2>1. CacheOk(c, Root, m)
    BY PinsCommute
  <2>2. CacheOk(d, n, m) /\ SamePages(c, d)
    BY <2>1, PinOk
  <2>3. c \in PrefixCache
    BY DEF CacheOk
  <2>4. d.sequence = c.sequence /\ d.stamp = c.stamp
    BY <2>3 DEF Pin, PinChanges, PrefixCache
  <2>5. QED
    BY <2>2, <2>4, PinsCommute
<1>2. e = [d EXCEPT !.stamp = stamp, !.generation = gen, !.sequence = @ + Depth(n)]
  BY DEF PinAndRefresh
<1>3. Chain[n] \subseteq Block /\ Depth(n) \in Nat /\ \A b \in Block : Depth(b) \in Nat
  BY ChainFacts DEF Node
<1> HIDE DEF d
<1>4. d \in PrefixCache
  BY <1>1 DEF CacheOk
<1>5. /\ d.stamp \in [Block -> Nat] /\ d.generation \in [Block -> Nat] /\ d.sequence \in Nat
      /\ d.pins \in [Block -> Int]
  BY <1>4 DEF PrefixCache
<1>6. stamp \in [Block -> Nat] /\ gen \in [Block -> Nat] /\ d.sequence + Depth(n) \in Nat
  BY <1>1, <1>3, <1>5
<1>7. /\ \A b \in Block : stamp[b] = IF b \in Chain[n] THEN c.sequence + Depth(b) ELSE d.stamp[b]
      /\ \A b \in Block : b \notin Chain[n] => gen[b] = d.generation[b]
  OBVIOUS
<1> HIDE DEF stamp, gen, e
<1>8. /\ e \in PrefixCache /\ e.stamp = stamp /\ e.generation = gen
      /\ e.sequence = d.sequence + Depth(n) /\ SamePages(d, e)
      /\ e.pins = d.pins /\ e.node = d.node /\ e.heap = d.heap /\ e.pinned = d.pinned
  BY <1>2, <1>4, <1>6 DEF PrefixCache, SamePages
<1>9. Findable(e)
  <2>1. ASSUME NEW b \in Block, IsEvictableLeaf(e, b) PROVE EntryOf(e, b) \in e.heap
    <3>1. b \notin Chain[n] /\ IsEvictableLeaf(d, b)
      BY <2>1, <1>1, <1>8 DEF IsEvictableLeaf, SamePages, CacheOk, PinnedBy
    <3>2. EntryOf(e, b) = EntryOf(d, b)
      BY <3>1, <1>7, <1>8 DEF EntryOf
    <3>3. QED
      BY <3>1, <3>2, <1>1, <1>8 DEF CacheOk, Findable
  <2>2. \A b \in d.pages : b \in Block /\ d.stamp[b] <= d.sequence
    BY <1>1, <1>4 DEF CacheOk, Findable, PrefixCache
  <2>3. \A b \in Chain[n] : Chain[b] \ {} = Chain[b] /\ Depth(b) \in Nat /\ 0 < Depth(b) /\ Depth(b) <= Depth(n)
    <3>1. TAKE b \in Chain[n]
    <3>2. b \in Chain[n] \ {} /\ Chain[n] \ {} = Chain[n] /\ Chain[b] \ {} = Chain[b]
      OBVIOUS
    <3>3. QED
      BY <3>2, RanksDiffer DEF Depth
  <2>4. \A a, b \in Chain[n] : Depth(a) = Depth(b) => a = b
    <3>1. TAKE a, b \in Chain[n]
    <3>2. a \in Chain[n] \ {} /\ b \in Chain[n] \ {}
      OBVIOUS
    <3>3. Cardinality(Chain[a] \ {}) = Cardinality(Chain[b] \ {}) => a = b
      BY <3>2, RanksDiffer
    <3>4. Chain[a] \ {} = Chain[a] /\ Chain[b] \ {} = Chain[b]
      OBVIOUS
    <3>5. QED
      BY <3>3, <3>4 DEF Depth
  <2>5. e.pages = d.pages
    BY <1>8 DEF SamePages
  <2>6. \A b \in e.pages : e.stamp[b] <= e.sequence
    BY <2>2, <2>3, <2>5, <1>1, <1>3, <1>5, <1>7, <1>8
  <2>7. ASSUME NEW x \in e.pages, NEW y \in e.pages, e.stamp[x] = e.stamp[y] PROVE x = y
    <3>1. x \in Block /\ y \in Block /\ x \in d.pages /\ y \in d.pages
      BY <2>2, <2>5
    <3>2. CASE x \in Chain[n] /\ y \in Chain[n]
      BY <3>1, <3>2, <2>3, <2>4, <2>7, <1>1, <1>5, <1>7, <1>8
    <3>3. CASE x \notin Chain[n] /\ y \notin Chain[n]
      BY <3>1, <3>3, <2>7, <1>1, <1>7, <1>8 DEF CacheOk, Findable
    <3>4. CASE x \in Chain[n] /\ y \notin Chain[n]
      BY <3>1, <3>4, <2>2, <2>3, <2>7, <1>1, <1>5, <1>7, <1>8
    <3>5. CASE x \notin Chain[n] /\ y \in Chain[n]
      BY <3>1, <3>5, <2>2, <2>3, <2>7, <1>1, <1>5, <1>7, <1>8
    <3>6. QED
      BY <3>2, <3>3, <3>4, <3>5
  <2>8. QED
    BY <2>1, <2>6, <2>7 DEF Findable
<1>10. Counted(e) /\ PinnedBy(e, m, n) /\ Closed(e.pages)
  BY <1>1, <1>8 DEF CacheOk, Counted, PinnedBy, MemoryUsed, SamePages
<1>11. QED
  BY <1>1, <1>8, <1>9, <1>10 DEF CacheOk, SamePages, e

-----------------------------------------------------------------------------
(* Commits *)

(* Missing counts the pages of a path that are not there.                  *)
LEMMA MissingFacts ==
    ASSUME NEW c \in PrefixCache, Closed(c.pages), NEW n \in Node
    PROVE  /\ Missing(c, n) = Cardinality(Chain[n] \ c.pages)
           /\ Missing(c, n) \in Nat /\ Missing(c, n) <= Depth(n)
           /\ Chain[LongestWithin(n, c.pages)] = Chain[n] \cap c.pages
           /\ LongestWithin(n, c.pages) \in Node
           /\ Depth(LongestWithin(n, c.pages)) \in Nat
           /\ Depth(LongestWithin(n, c.pages)) <= Depth(n)
<1> DEFINE hit == LongestWithin(n, c.pages)
<1>1. c.pages \in SUBSET Block
  BY DEF PrefixCache
<1>2. \A b \in c.pages : Chain[b] \subseteq c.pages
  BY <1>1, ClosedByParent DEF Closed
<1>3. \A b \in Chain[n] : b \in Block /\ b \in Chain[b]
  BY ChainFacts DEF Node
<1>4. PagesWithin(n, c.pages) = Chain[n] \cap c.pages
  BY <1>2, <1>3 DEF PagesWithin
<1>5. hit \in Node /\ Chain[hit] = Chain[n] \cap c.pages
  BY <1>4, LongestFacts
<1>6. IsFiniteSet(Chain[n]) /\ Chain[n] \in SUBSET Block
  BY ChainFacts
<1> DEFINE S == Chain[n] \cap c.pages
           T == Chain[n] \ c.pages
<1>7. /\ S \in SUBSET Block /\ T \in SUBSET Block /\ S \cup T = Chain[n] /\ T \ S = T
  BY <1>6
<1> HIDE DEF S, T
<1>8. Cardinality(Chain[n]) = Cardinality(S) + Cardinality(T) /\ Cardinality(T) \in Nat /\ Cardinality(S) \in Nat
  <2>1. IsFiniteSet(S) /\ IsFiniteSet(T)
    BY <1>7, BlockAssumption, FS_Subset
  <2>2. QED
    BY <2>1, <1>7, PagesGrow, FS_CardinalityType
<1>9. QED
  BY <1>5, <1>8 DEF S, T, Missing, Depth

(* Inserting a path leaves everything in order, but room has to be made    *)
(* for it before or after.                                                 *)
LEMMA InsertedFacts ==
    ASSUME NEW c, NEW m, NEW h, CacheOk(c, m, h), NEW n \in Node
    PROVE  LET e == Inserted(c, n)
           IN  /\ e \in PrefixCache /\ Closed(e.pages) /\ Findable(e) /\ PinnedBy(e, m, h)
               /\ e.pages = c.pages \cup Chain[n]
               /\ e.resident = c.resident + Missing(c, n) /\ e.resident = Cardinality(e.pages)
               /\ e.pins = c.pins /\ e.pinned = c.pinned
               /\ e.private = c.private /\ e.privatePages = c.privatePages
               /\ e.temporary = c.temporary /\ e.temporaryPages = c.temporaryPages
<1> DEFINE new == Chain[n] \ c.pages
           rank(b) == c.sequence + Cardinality(Chain[b] \ c.pages)
           stamp == [b \in Block |-> IF b \in new THEN rank(b) ELSE c.stamp[b]]
           ids == [b \in Block |-> IF b \in new THEN rank(b) ELSE c.node[b]]
           gen == [b \in Block |-> IF b \in new THEN 1 ELSE c.generation[b]]
           f == [c EXCEPT !.pages = @ \cup new, !.stamp = stamp, !.node = ids, !.generation = gen,
                          !.sequence = @ + Cardinality(new), !.resident = @ + Cardinality(new)]
           e == Inserted(c, n)
<1>1. c \in PrefixCache /\ Closed(c.pages) /\ Findable(c)
  BY DEF CacheOk
<1>2. /\ Chain[n] \subseteq Block /\ c.pages \in SUBSET Block
      /\ c.stamp \in [Block -> Nat] /\ c.node \in [Block -> Nat] /\ c.generation \in [Block -> Nat]
      /\ c.sequence \in Nat /\ c.resident \in Int
  BY <1>1, ChainFacts DEF PrefixCache
<1>3. Missing(c, n) = Cardinality(new) /\ Cardinality(new) \in Nat
  BY <1>1, MissingFacts
<1>4. ASSUME NEW b \in new
      PROVE  /\ Cardinality(Chain[b] \ c.pages) \in Nat /\ rank(b) \in Nat
             /\ c.sequence < rank(b) /\ rank(b) <= c.sequence + Cardinality(new)
  <2>1. /\ Cardinality(Chain[b] \ c.pages) \in Nat /\ 0 < Cardinality(Chain[b] \ c.pages)
        /\ Cardinality(Chain[b] \ c.pages) <= Cardinality(new)
    BY RanksDiffer
  <2>2. QED
    BY <2>1, <1>2, <1>3
<1>5. \A a, b \in new : rank(a) = rank(b) => a = b
  <2>1. TAKE a, b \in new
  <2>2. Cardinality(Chain[a] \ c.pages) = Cardinality(Chain[b] \ c.pages) => a = b
    BY RanksDiffer
  <2>3. Cardinality(Chain[a] \ c.pages) \in Nat /\ Cardinality(Chain[b] \ c.pages) \in Nat
    BY <1>4
  <2> HIDE DEF new
  <2>4. QED
    BY <2>2, <2>3, <1>2
<1>6. e = [f EXCEPT !.heap = @ \cup {EntryOf(f, b) : b \in new}]
  BY DEF Inserted
<1> HIDE DEF rank
<1>7. stamp \in [Block -> Nat] /\ ids \in [Block -> Nat] /\ gen \in [Block -> Nat]
  BY <1>2, <1>4
<1>8. /\ \A b \in Block : b \in new => stamp[b] = rank(b)
      /\ \A b \in Block : b \notin new =>
            stamp[b] = c.stamp[b] /\ ids[b] = c.node[b] /\ gen[b] = c.generation[b]
  OBVIOUS
<1>9. new \in SUBSET Block
  BY <1>2
<1> HIDE DEF new, stamp, ids, gen
<1>10. /\ f \in PrefixCache /\ f.pages = c.pages \cup new /\ f.stamp = stamp /\ f.node = ids
       /\ f.generation = gen /\ f.sequence = c.sequence + Cardinality(new)
       /\ f.resident = c.resident + Cardinality(new)
       /\ f.heap = c.heap /\ f.pins = c.pins /\ f.pinned = c.pinned
       /\ f.private = c.private /\ f.privatePages = c.privatePages
       /\ f.temporary = c.temporary /\ f.temporaryPages = c.temporaryPages
  <2>1. c.pages \cup new \in SUBSET Block /\ c.sequence + Cardinality(new) \in Nat
        /\ c.resident + Cardinality(new) \in Int
    BY <1>2, <1>3, <1>9
  <2>2. QED
    BY <1>1, <1>7, <2>1 DEF PrefixCache
<1> HIDE DEF f
<1>11. {EntryOf(f, b) : b \in new} \subseteq HeapEntry
  <2>1. \A b \in Block : EntryOf(f, b) \in HeapEntry
    BY <1>10 DEF EntryOf, HeapEntry, PrefixCache
  <2>2. QED
    BY <2>1, <1>9
<1> HIDE DEF e
<1>12. /\ e \in PrefixCache /\ e.heap = f.heap \cup {EntryOf(f, b) : b \in new}
       /\ e.pages = f.pages /\ e.stamp = f.stamp /\ e.node = f.node
       /\ e.generation = f.generation /\ e.sequence = f.sequence /\ e.resident = f.resident
       /\ e.pins = c.pins /\ e.pinned = c.pinned
       /\ e.private = c.private /\ e.privatePages = c.privatePages
       /\ e.temporary = c.temporary /\ e.temporaryPages = c.temporaryPages
  <2> DEFINE pushed == {EntryOf(f, b) : b \in new}
  <2>1. pushed \subseteq HeapEntry /\ e = [f EXCEPT !.heap = @ \cup pushed]
    BY <1>6, <1>11
  <2> HIDE DEF pushed
  <2>2. e.heap = f.heap \cup pushed
    BY <2>1, <1>10 DEF PrefixCache
  <2>3. QED
    BY <2>1, <2>2, <1>10 DEF PrefixCache, pushed
<1>13. e.pages = c.pages \cup Chain[n]
  BY <1>10, <1>12 DEF new
<1>14. Closed(e.pages)
  <2>1. SUFFICES ASSUME NEW b \in e.pages PROVE Parent[b] \in e.pages \cup {Root}
    BY DEF Closed
  <2>2. CASE b \in c.pages
    BY <2>2, <1>1, <1>13 DEF Closed
  <2>3. CASE b \in Chain[n]
    <3>1. b \in Block /\ Chain[b] \subseteq Chain[n]
      BY <2>3, <1>2, ChainAssumption
    <3>2. Parent[b] \in Node /\ Chain[Parent[b]] \subseteq Chain[b]
      BY <3>1, ParentFacts
    <3>3. Parent[b] \in Block => Parent[b] \in Chain[Parent[b]]
      BY <3>2, ChainFacts
    <3>4. QED
      BY <3>1, <3>2, <3>3, <1>13 DEF Node
  <2>4. QED
    BY <2>1, <2>2, <2>3, <1>13
<1>15. Findable(e)
  <2>1. ASSUME NEW b \in Block, IsEvictableLeaf(e, b) PROVE EntryOf(e, b) \in e.heap
    <3>1. EntryOf(e, b) = EntryOf(f, b)
      BY <1>12 DEF EntryOf
    <3>2. CASE b \in new
      BY <3>1, <3>2, <1>12
    <3>3. CASE b \notin new
      <4>1. IsEvictableLeaf(c, b) /\ EntryOf(f, b) = EntryOf(c, b)
        BY <2>1, <3>3, <1>8, <1>10, <1>12 DEF IsEvictableLeaf, EntryOf, Below
      <4>2. QED
        BY <3>1, <4>1, <1>1, <1>10, <1>12 DEF Findable
    <3>4. QED
      BY <3>2, <3>3
  <2>2. \A b \in c.pages : b \notin new /\ b \in Block /\ c.stamp[b] <= c.sequence /\ c.stamp[b] \in Nat
    BY <1>1, <1>2 DEF Findable, new
  <2> DEFINE top == c.sequence + Cardinality(new)
  <2>3. \A b \in new : e.stamp[b] \in Nat /\ c.sequence < e.stamp[b] /\ e.stamp[b] <= top
    BY <1>4, <1>8, <1>9, <1>10, <1>12
  <2>4. \A b \in c.pages : e.stamp[b] = c.stamp[b]
    BY <2>2, <1>8, <1>10, <1>12
  <2>5. top \in Nat /\ c.sequence \in Nat /\ c.sequence <= top /\ e.sequence = top
    BY <1>2, <1>3, <1>10, <1>12
  <2>6. e.pages = c.pages \cup new
    BY <1>10, <1>12
  <2> HIDE DEF top
  <2>7. \A b \in e.pages : e.stamp[b] <= e.sequence
    BY <2>2, <2>3, <2>4, <2>5, <2>6
  <2>8. ASSUME NEW x \in e.pages, NEW y \in e.pages, e.stamp[x] = e.stamp[y] PROVE x = y
    <3>1. x \in Block /\ y \in Block /\ x \in c.pages \cup new /\ y \in c.pages \cup new
      BY <1>2, <1>9, <1>10, <1>12
    <3>2. CASE x \in new /\ y \in new
      BY <3>1, <3>2, <2>8, <1>5, <1>8, <1>10, <1>12
    <3>3. CASE x \in c.pages /\ y \in c.pages
      BY <3>1, <3>3, <2>2, <2>8, <1>1, <1>8, <1>10, <1>12 DEF Findable
    <3>4. CASE x \in new /\ y \in c.pages
      BY <3>4, <2>2, <2>8, <2>3, <2>4, <2>5
    <3>5. CASE x \in c.pages /\ y \in new
      BY <3>5, <2>2, <2>8, <2>3, <2>4, <2>5
    <3>6. QED
      BY <3>1, <3>2, <3>3, <3>4, <3>5
  <2>9. QED
    BY <2>1, <2>7, <2>8 DEF Findable
<1>16. PinnedBy(e, m, h)
  BY <1>12, <1>13 DEF CacheOk, PinnedBy
<1>17. e.resident = Cardinality(e.pages)
  <2>1. new \ c.pages = new
    BY DEF new
  <2>2. Cardinality(c.pages \cup new) = Cardinality(c.pages) + Cardinality(new)
    BY <2>1, <1>2, <1>9, PagesGrow
  <2>3. QED
    BY <2>2, <1>10, <1>12 DEF CacheOk, Counted
<1>18. QED
  BY <1>3, <1>10, <1>12, <1>13, <1>14, <1>15, <1>16, <1>17 DEF e

(* A commit that inserts no more than was reserved gives the rest back.    *)
LEMMA CommitActiveOk ==
    ASSUME NEW c, NEW m, NEW h, CacheOk(c, m, h), NEW n \in Node, NEW r \in Request,
           Missing(c, n) <= c.private[r], c.private[r] <= c.privatePages
    PROVE  LET e == CommitActive(c, r, n)
           IN  /\ CacheOk(e, m, h) /\ e.pages = c.pages \cup Chain[n]
               /\ e.private = [c.private EXCEPT ![r] = Absent]
               /\ e.privatePages = c.privatePages - c.private[r]
               /\ e.temporary = c.temporary /\ e.temporaryPages = c.temporaryPages
<1> DEFINE d == Inserted(c, n)
           e == CommitActive(c, r, n)
           rest == [c.private EXCEPT ![r] = Absent]
<1>1. c \in PrefixCache /\ Closed(c.pages)
  BY DEF CacheOk
<1>2. /\ c.private \in [Request -> Int] /\ c.privatePages \in Int /\ c.resident \in Int
      /\ c.temporaryPages \in Int /\ c.private[r] \in Int
  BY <1>1 DEF PrefixCache
<1>3. Missing(c, n) \in Nat
  BY <1>1, MissingFacts
<1>4. /\ d \in PrefixCache /\ Closed(d.pages) /\ Findable(d) /\ PinnedBy(d, m, h)
      /\ d.pages = c.pages \cup Chain[n]
      /\ d.resident = c.resident + Missing(c, n) /\ d.resident = Cardinality(d.pages)
      /\ d.pins = c.pins /\ d.pinned = c.pinned
      /\ d.private = c.private /\ d.privatePages = c.privatePages
      /\ d.temporary = c.temporary /\ d.temporaryPages = c.temporaryPages
  BY InsertedFacts
<1>5. e = [d EXCEPT !.private = rest, !.privatePages = c.privatePages - c.private[r]]
  <2>1. e = [d EXCEPT !.private[r] = Absent, !.privatePages = @ - c.private[r]]
    BY <1>2, <1>3 DEF CommitActive
  <2> HIDE DEF d, e
  <2>2. QED
    BY <2>1, <1>4
<1> HIDE DEF d
<1>6. rest \in [Request -> Int] /\ c.privatePages - c.private[r] \in Int
  BY <1>2 DEF Absent
<1> HIDE DEF e, rest
<1>7. /\ e \in PrefixCache /\ e.private = rest /\ e.privatePages = c.privatePages - c.private[r]
      /\ e.pages = d.pages /\ e.pins = d.pins /\ e.stamp = d.stamp /\ e.generation = d.generation
      /\ e.node = d.node /\ e.heap = d.heap /\ e.sequence = d.sequence
      /\ e.resident = d.resident /\ e.pinned = d.pinned
      /\ e.temporary = d.temporary /\ e.temporaryPages = d.temporaryPages
  BY <1>4, <1>5, <1>6 DEF PrefixCache
<1>8. Findable(e) /\ PinnedBy(e, m, h) /\ Closed(e.pages)
  BY ZenonT(40), <1>4, <1>7 DEF Findable, PinnedBy, IsEvictableLeaf, EntryOf
<1>9. Counted(e)
  BY <1>2, <1>3, <1>4, <1>7, SizeAssumption DEF CacheOk, Counted, MemoryUsed
<1>10. QED
  BY <1>4, <1>7, <1>8, <1>9 DEF CacheOk, e, rest

(* The same for the pages a transfer has brought.                          *)
LEMMA CommitTransferOk ==
    ASSUME NEW c, NEW m, NEW h, CacheOk(c, m, h), NEW n \in Node, NEW t,
           t \in DOMAIN c.temporary,
           Missing(c, n) <= c.temporary[t], c.temporary[t] <= c.temporaryPages
    PROVE  LET e == CommitTransferTemporary(c, t, n)
           IN  /\ CacheOk(e, m, h) /\ e.pages = c.pages \cup Chain[n]
               /\ e.private = c.private /\ e.privatePages = c.privatePages
               /\ DOMAIN e.temporary = DOMAIN c.temporary \ {t}
               /\ e.temporaryPages = c.temporaryPages - c.temporary[t]
<1> DEFINE d == Inserted(c, n)
           e == CommitTransferTemporary(c, t, n)
           rest == [x \in DOMAIN c.temporary \ {t} |-> c.temporary[x]]
<1>1. c \in PrefixCache /\ Closed(c.pages)
  BY DEF CacheOk
<1>2. /\ c.temporary \in Reservations /\ c.privatePages \in Int /\ c.resident \in Int
      /\ c.temporaryPages \in Int
  BY <1>1 DEF PrefixCache
<1>3. Missing(c, n) \in Nat
  BY <1>1, MissingFacts
<1>4. /\ d \in PrefixCache /\ Closed(d.pages) /\ Findable(d) /\ PinnedBy(d, m, h)
      /\ d.pages = c.pages \cup Chain[n]
      /\ d.resident = c.resident + Missing(c, n) /\ d.resident = Cardinality(d.pages)
      /\ d.pins = c.pins /\ d.pinned = c.pinned
      /\ d.private = c.private /\ d.privatePages = c.privatePages
      /\ d.temporary = c.temporary /\ d.temporaryPages = c.temporaryPages
  BY InsertedFacts
<1>5. PICK S \in SUBSET Nat : c.temporary \in [S -> Int]
  BY <1>2 DEF Reservations
<1>6. rest \in [S \ {t} -> Int] /\ S \ {t} \in SUBSET Nat /\ c.temporary[t] \in Int
  BY <1>5
<1>7. rest \in Reservations
  BY <1>6 DEF Reservations
<1>8. e = [d EXCEPT !.temporary = rest, !.temporaryPages = c.temporaryPages - c.temporary[t]]
  BY <1>3, <1>4, <1>6 DEF CommitTransferTemporary
<1>9. DOMAIN rest = DOMAIN c.temporary \ {t}
  OBVIOUS
<1> HIDE DEF d, rest
<1>10. c.temporaryPages - c.temporary[t] \in Int
  BY <1>2, <1>6
<1>11. /\ e \in PrefixCache /\ e.temporary = rest /\ e.temporaryPages = c.temporaryPages - c.temporary[t]
      /\ e.pages = d.pages /\ e.pins = d.pins /\ e.stamp = d.stamp /\ e.generation = d.generation
      /\ e.node = d.node /\ e.heap = d.heap /\ e.sequence = d.sequence
      /\ e.resident = d.resident /\ e.pinned = d.pinned
      /\ e.private = d.private /\ e.privatePages = d.privatePages
  <2> HIDE DEF e
  <2>1. QED
    BY <1>4, <1>7, <1>8, <1>10 DEF PrefixCache
<1> HIDE DEF e
<1>12. Findable(e) /\ PinnedBy(e, m, h) /\ Closed(e.pages)
  BY ZenonT(40), <1>4, <1>11 DEF Findable, PinnedBy, IsEvictableLeaf, EntryOf
<1>13. Counted(e)
  BY <1>2, <1>3, <1>4, <1>6, <1>11, SizeAssumption DEF CacheOk, Counted, MemoryUsed
<1>14. QED
  BY <1>4, <1>9, <1>11, <1>12, <1>13 DEF CacheOk, e

(* A released suffix takes along no page that is pinned or has others      *)
(* below.                                                                  *)
LEMMA ReleaseOk ==
    ASSUME NEW c, NEW m, NEW h, CacheOk(c, m, h), NEW n \in Node
    PROVE  LET e == ReleaseSuffix(c, n)
           IN  /\ CacheOk(e, m, h) /\ e.pages \subseteq c.pages
               /\ e.private = c.private /\ e.privatePages = c.privatePages
               /\ e.temporary = c.temporary /\ e.temporaryPages = c.temporaryPages
<1> DEFINE gone == SafeSuffix(c, n)
           stamp == [b \in Block |-> IF b \in gone THEN 0 ELSE c.stamp[b]]
           ids == [b \in Block |-> IF b \in gone THEN 0 ELSE c.node[b]]
           gen == [b \in Block |-> IF b \in gone THEN 0 ELSE c.generation[b]]
           f == [c EXCEPT !.pages = @ \ gone, !.stamp = stamp, !.node = ids, !.generation = gen,
                          !.resident = @ - Cardinality(gone)]
           free == {x \in {Parent[b] : b \in gone} : IsEvictableLeaf(f, x)}
           pushed == {EntryOf(f, b) : b \in free}
           e == ReleaseSuffix(c, n)
<1>1. c \in PrefixCache /\ Closed(c.pages) /\ Findable(c)
  BY DEF CacheOk
<1>2. /\ Chain[n] \subseteq Block /\ c.pages \in SUBSET Block
      /\ c.stamp \in [Block -> Nat] /\ c.node \in [Block -> Nat] /\ c.generation \in [Block -> Nat]
      /\ c.resident \in Int
  BY <1>1, ChainFacts DEF PrefixCache
<1>3. gone \subseteq c.pages
  <2>1. \A b \in Chain[n] : b \in Chain[b]
    BY <1>2, ChainFacts DEF Node
  <2>2. QED
    BY <2>1 DEF SafeSuffix, PagesWithin
<1>4. \A b \in gone : \A x \in c.pages : b \in Chain[x] => x \in gone /\ c.pins[x] = 0
  <2>1. TAKE b \in gone
  <2>2. TAKE x \in c.pages
  <2>3. SUFFICES ASSUME b \in Chain[x] PROVE x \in gone /\ c.pins[x] = 0
    OBVIOUS
  <2>4. x \in Chain[n] /\ c.pins[x] = 0
    BY <2>3 DEF SafeSuffix
  <2>5. Chain[x] \subseteq c.pages
    BY <1>1, <1>2, ClosedByParent DEF Closed
  <2>6. \A y \in c.pages : x \in Chain[y] => b \in Chain[y]
    BY <2>3, <1>2, ChainAssumption DEF Node
  <2>7. x \in gone
    BY <2>4, <2>5, <2>6 DEF SafeSuffix, PagesWithin
  <2>8. QED
    BY <2>4, <2>7
<1>5. e = [f EXCEPT !.heap = @ \cup pushed]
  BY DEF ReleaseSuffix, Push
<1>6. gone \in SUBSET Block /\ Cardinality(gone) \in Nat /\ IsFiniteSet(c.pages)
  BY <1>2, <1>3, BlockAssumption, FS_Subset, FS_CardinalityType
<1> HIDE DEF gone
<1>7. stamp \in [Block -> Nat] /\ ids \in [Block -> Nat] /\ gen \in [Block -> Nat]
  BY <1>2
<1>8. \A b \in Block : b \notin gone =>
            stamp[b] = c.stamp[b] /\ ids[b] = c.node[b] /\ gen[b] = c.generation[b]
  OBVIOUS
<1> HIDE DEF stamp, ids, gen
<1>9. /\ f \in PrefixCache /\ f.pages = c.pages \ gone /\ f.stamp = stamp /\ f.node = ids
      /\ f.generation = gen /\ f.sequence = c.sequence
      /\ f.resident = c.resident - Cardinality(gone)
      /\ f.heap = c.heap /\ f.pins = c.pins /\ f.pinned = c.pinned
      /\ f.private = c.private /\ f.privatePages = c.privatePages
      /\ f.temporary = c.temporary /\ f.temporaryPages = c.temporaryPages
  <2>1. c.pages \ gone \in SUBSET Block /\ c.resident - Cardinality(gone) \in Int
    BY <1>2, <1>6
  <2>2. QED
    BY <1>1, <1>7, <2>1 DEF PrefixCache
<1> HIDE DEF f
<1>10. pushed \subseteq HeapEntry
  <2>1. \A b \in Block : EntryOf(f, b) \in HeapEntry
    BY <1>9 DEF EntryOf, HeapEntry, PrefixCache
  <2>2. free \subseteq Block
    BY <1>2, <1>9 DEF IsEvictableLeaf
  <2>3. QED
    BY <2>1, <2>2
<1>11. \A b \in free : EntryOf(f, b) \in pushed
  OBVIOUS
<1> HIDE DEF e, pushed
<1>12. /\ e \in PrefixCache /\ e.heap = f.heap \cup pushed
       /\ e.pages = f.pages /\ e.stamp = f.stamp /\ e.node = f.node
       /\ e.generation = f.generation /\ e.sequence = f.sequence /\ e.resident = f.resident
       /\ e.pins = c.pins /\ e.pinned = c.pinned
       /\ e.private = c.private /\ e.privatePages = c.privatePages
       /\ e.temporary = c.temporary /\ e.temporaryPages = c.temporaryPages
  BY <1>5, <1>9, <1>10 DEF PrefixCache
<1>13. Closed(e.pages)
  <2>1. SUFFICES ASSUME NEW b \in c.pages, b \notin gone, Parent[b] \in gone PROVE FALSE
    BY <1>1, <1>9, <1>12 DEF Closed
  <2>2. b \in Block /\ Parent[b] \in Block
    BY <2>1, <1>2, <1>6
  <2>3. Parent[b] \in Chain[b]
    BY <2>2, ChainFacts, ParentFacts DEF Node
  <2>4. QED
    BY <2>1, <2>3, <1>4
<1>14. Findable(e)
  <2>1. ASSUME NEW b \in Block, IsEvictableLeaf(e, b) PROVE EntryOf(e, b) \in e.heap
    <3>1. EntryOf(e, b) = EntryOf(f, b) /\ IsEvictableLeaf(f, b)
      BY <2>1, <1>9, <1>12 DEF EntryOf, IsEvictableLeaf
    <3>2. CASE \E x \in gone : Parent[x] = b
      BY <3>1, <3>2, <1>11, <1>12
    <3>3. CASE ~\E x \in gone : Parent[x] = b
      <4>1. IsEvictableLeaf(c, b) /\ b \notin gone
        BY <3>1, <3>3, <1>9 DEF IsEvictableLeaf, Below
      <4>2. EntryOf(f, b) = EntryOf(c, b)
        BY <4>1, <1>8, <1>9 DEF EntryOf
      <4>3. QED
        BY <3>1, <4>1, <4>2, <1>1, <1>9, <1>12 DEF Findable
    <3>4. QED
      BY <3>2, <3>3
  <2>2. \A x \in e.pages : x \in c.pages /\ e.stamp[x] = c.stamp[x]
    BY <1>2, <1>8, <1>9, <1>12
  <2>3. QED
    BY <2>1, <2>2, <1>1, <1>9, <1>12 DEF Findable
<1>15. PinnedBy(e, m, h)
  <2>1. \A b \in Chain[m] \cup Chain[h] : b \in c.pages /\ b \in Block /\ c.pins[b] # 0
    BY <1>2 DEF CacheOk, PinnedBy
  <2>2. \A b \in gone : c.pins[b] = 0
    <3>1. TAKE b \in gone
    <3>2. b \in Chain[b] /\ b \in c.pages
      BY <1>3, <1>6, ChainFacts DEF Node
    <3>3. QED
      BY <3>2, <1>4
  <2>3. Chain[m] \cup Chain[h] \subseteq e.pages
    BY <2>1, <2>2, <1>9, <1>12
  <2>4. QED
    BY <2>3, <1>12 DEF CacheOk, PinnedBy
<1>16. Counted(e)
  <2>1. c.pages = (c.pages \ gone) \cup gone /\ gone \ (c.pages \ gone) = gone
        /\ c.pages \ gone \in SUBSET Block
    BY <1>2, <1>3
  <2>2. Cardinality(c.pages) = Cardinality(c.pages \ gone) + Cardinality(gone)
        /\ Cardinality(c.pages \ gone) \in Nat
    BY <2>1, <1>6, PagesGrow
  <2>3. c.privatePages \in Int /\ c.temporaryPages \in Int
    BY <1>1 DEF PrefixCache
  <2>4. QED
    BY <2>2, <2>3, <1>2, <1>6, <1>9, <1>12, SizeAssumption DEF CacheOk, Counted, MemoryUsed
<1>17. QED
  BY <1>9, <1>12, <1>13, <1>14, <1>15, <1>16 DEF CacheOk, e

-----------------------------------------------------------------------------
(* The state of the loop *)

RunStates == {"NONE", "ARRIVED", "WAITING_TRANSFER", "READY", "RUNNING", "DONE"}

TicketStates ==
    {"NONE", "QUEUED", "TRANSFER_RUNNING", "COMPLETED", "TIMED_OUT", "CANCELLED", "FALLBACK"}

TaskGates ==
    {"NO_CACHE_SOURCE", "NO_TRANSFERABLE_PREFIX", "SOURCE_IS_BEST_TARGET", "RELATIVE_GATE_REJECT",
     "TARGET_ALREADY_HAS_PREFIX", "TRANSFER_SELECTED"}

Gates == TaskGates \cup {"UNCLASSIFIED", "CACHE_HIT_GATE_REJECT", "ABSOLUTE_GATE_REJECT"}

Outcomes == {"running", "assertion", "refused", "done"}

Kinds ==
    {"SERVICE_DONE", "TRANSFER_COMPLETE", "PROACTIVE_TRANSFER_COMPLETE", "TRANSFER_TIMEOUT",
     "TRANSFER_ENQUEUE", "TRANSFER_ADMIT", "SERVICE_START"}

PodRecord ==
    [cache : PrefixCache, queue : Seq(Request), running : Request \cup {Absent}, until : Int,
     pressure : [Request -> Nat], busy : Nat \cup {Absent}, armed : BOOLEAN,
     sends : BOOLEAN, receives : BOOLEAN, wired : Nat]

TicketRecord ==
    [state : TicketStates, id : Int, source : Int, target : Int, path : Node, owner : Int,
     service : Nat]

TransferRecord == [id : Int, source : Int, target : Int, path : Node, ready : Int]

RunRecord ==
    [path : Node, arrival : Nat, state : RunStates, pod : Int, owner : Int, estimate : Nat,
     hit : Node, ticket : TicketRecord, transfer : TransferRecord, plan : {"NONE", "DIRECT", "COPY"},
     fallback : BOOLEAN, assisted : BOOLEAN, start : Int, done : Int, routed : Node,
     inserted : Nat, gate : Gates, blocked : BOOLEAN, replans : Nat]

EventRecord == [time : Nat, kind : Kinds, id : Nat]

CopyRecord ==
    [id : Nat, hash : Node, path : Node, source : Pod, target : Pod, start : Nat, ready : Nat,
     active : BOOLEAN, score : Int, pages : SUBSET Block, used : SUBSET Block, hits : Nat,
     firstUse : Int, lost : Int]

StatsRecord ==
    [created : Nat, started : Nat, completed : Nat, timedOut : Nat, fallbacks : Nat,
     wirePages : Nat, newPages : Nat, replans : Nat, triggers : Nat, idleTriggers : Nat]

World ==
    [now : Nat, pods : [Pod -> PodRecord], runs : [Request -> RunRecord], gate : Seq(Request),
     events : Seq(EventRecord), copies : Seq(CopyRecord), nextTicket : Nat, nextTransfer : Nat,
     tokens : Int, refilled : Nat, stats : StatsRecord, replicas : [Pod -> [Block -> Int]],
     gone : [Pod -> SUBSET Block], outcome : Outcomes]

-----------------------------------------------------------------------------
(* Lives of requests.  Request h is in the hands of a handler: it has left *)
(* one place and is not yet in another.                                    *)

NoDup(s) == \A i, j \in DOMAIN s : s[i] = s[j] => i = j

In(s, r) == \E i \in DOMAIN s : s[i] = r

LifeOf(w, r) ==
    LET run == w.runs[r]
    IN  /\ run.owner # Absent <=> run.state \in {"READY", "RUNNING"}
        /\ run.owner # Absent => run.owner \in Pod /\ run.pod = run.owner
        /\ \A p \in Pod :
              /\ In(w.pods[p].queue, r) => run.pod \in Pod
              /\ w.pods[p].running = r => run.state = "RUNNING" /\ run.owner = p
        /\ run.state # "NONE" => run.path \in Block /\ run.arrival <= w.now

Lives(w) == \A r \in Request : LifeOf(w, r)

Simple == mode.routing = "R_REQ_KV_SIMPLE"

\* What is true of a ticket at any time,
Bound(w, r) ==
    LET run == w.runs[r]
        ticket == run.ticket
    IN  /\ \A p \in Pod : w.pods[p].pressure[r] > 0 <=> ticket.owner = p
        /\ ticket.owner # Absent => ticket.owner \in Pod
        /\ In(w.gate, r) =>
              /\ Tickets /\ run.state = "ARRIVED" /\ ticket.id \in Nat
              /\ ticket.source \in Pod /\ ticket.target \in Pod /\ ticket.source # ticket.target

\* and when no handler works on it.
Settled(w, r) ==
    LET run == w.runs[r]
        ticket == run.ticket
        x == run.transfer
    IN  /\ ticket.owner # Absent <=> ticket.state \in {"QUEUED", "TRANSFER_RUNNING"}
        /\ ticket.state = "QUEUED" <=> In(w.gate, r)
        /\ ticket.state = "TRANSFER_RUNNING" => run.state = "WAITING_TRANSFER"
        /\ run.state = "NONE" => ticket.state = "NONE"
        /\ run.state = "ARRIVED" /\ ticket.state # "QUEUED" =>
              Simple /\ ticket.state = "NONE" /\ x.id \in Nat /\ x.source \in Pod /\ x.target \in Pod /\ x.source # x.target

Ticketed(w, h) ==
    /\ NoDup(w.gate)
    /\ \A r \in Request : Bound(w, r)
    /\ \A r \in Request \ {h} : Settled(w, r)

-----------------------------------------------------------------------------
(* Transfers.  A key names a transfer: that of request k, or copy -k.      *)

Keys(w, h) == {k \in Int : k \in Request \ {h} /\ w.runs[k].state = "WAITING_TRANSFER"}
              \cup {k \in Int : -k \in DOMAIN w.copies /\ w.copies[-k].active}

IdOf(w, k) == IF k > 0 THEN w.runs[k].transfer.id ELSE w.copies[-k].id
SourceOf(w, k) == IF k > 0 THEN w.runs[k].transfer.source ELSE w.copies[-k].source
GoalOf(w, k) == IF k > 0 THEN w.runs[k].transfer.target ELSE w.copies[-k].target
PathOf(w, k) == IF k > 0 THEN w.runs[k].transfer.path ELSE w.copies[-k].path

HitOf(w, p) == IF w.pods[p].running = Absent THEN Root ELSE w.runs[w.pods[p].running].hit

Flown(w, k) ==
    LET s == SourceOf(w, k)
        t == GoalOf(w, k)
        c == w.pods[t].cache
    IN  /\ s \in Pod /\ t \in Pod /\ s # t /\ PathOf(w, k) \in Node /\ IdOf(w, k) \in Nat
        /\ w.pods[s].busy = IdOf(w, k) /\ w.pods[t].busy = IdOf(w, k)
        /\ w.pods[s].sends /\ ~w.pods[s].receives
        /\ w.pods[t].receives /\ ~w.pods[t].sends
        /\ CacheOk(w.pods[s].cache, PathOf(w, k), HitOf(w, s))
        /\ DOMAIN c.temporary = {IdOf(w, k)} /\ c.temporary[IdOf(w, k)] = Depth(PathOf(w, k))
        /\ c.temporaryPages = Depth(PathOf(w, k))

Flying(w, h) ==
    /\ \A k \in Keys(w, h) : Flown(w, k)
    /\ \A k, l \in Keys(w, h) :
          k # l => {SourceOf(w, k), GoalOf(w, k)} \cap {SourceOf(w, l), GoalOf(w, l)} = {}
    /\ \A p \in Pod :
          LET pod == w.pods[p]
          IN  /\ pod.busy # Absent => \E k \in Keys(w, h) : p \in {SourceOf(w, k), GoalOf(w, k)}
              /\ pod.sends => pod.busy # Absent
              /\ pod.receives => pod.busy # Absent
              /\ ~pod.sends => CacheOk(pod.cache, Root, HitOf(w, p))
              /\ ~pod.receives => DOMAIN pod.cache.temporary = {} /\ pod.cache.temporaryPages = 0

\* The reservation of a pod is that of the request it serves.
Serving(w) ==
    \A p \in Pod :
        LET pod == w.pods[p]
            run == w.runs[pod.running]
        IN  /\ \A r \in Request : pod.cache.private[r] # Absent <=> pod.running = r
            /\ pod.running = Absent => pod.cache.privatePages = 0
            /\ pod.running # Absent =>
                  /\ pod.cache.privatePages = pod.cache.private[pod.running]
                  /\ pod.cache.privatePages = Depth(run.path) - Depth(run.hit)
                  /\ Chain[run.hit] \subseteq Chain[run.path]

-----------------------------------------------------------------------------
(* Events *)

Copying == "PROACTIVE_TRANSFER_COMPLETE"

\* An event whose handler finds what it needs.
Ready(w, e) ==
    /\ e.time >= w.now
    /\ IF e.kind = Copying THEN e.id \in DOMAIN w.copies /\ w.copies[e.id].active
       ELSE e.id \in Request /\ (e.kind = "SERVICE_START" => w.runs[e.id].pod \in Pod)

Posted(w) ==
    /\ \A i \in DOMAIN w.events : Ready(w, w.events[i])
    /\ \A i, j \in DOMAIN w.events :
          w.events[i].kind = Copying /\ w.events[j].kind = Copying /\ w.events[i].id = w.events[j].id
             => i = j

NodeInv(w, h) ==
    /\ w \in World /\ w.outcome = "running"
    /\ Lives(w) /\ Ticketed(w, h) /\ Flying(w, h) /\ Serving(w) /\ Posted(w)

-----------------------------------------------------------------------------
(* What a handler leaves alone *)

Fields == {"now", "pods", "runs", "gate", "events", "copies", "nextTicket", "nextTransfer", "tokens",
           "refilled", "stats", "replicas", "gone", "outcome"}

\* The books of the copies are the same, and a run that was over is over,
Books(w, v) ==
    /\ DOMAIN v = DOMAIN w
    /\ v.now = w.now /\ v.gone = w.gone /\ v.copies = w.copies
    /\ v.tokens = w.tokens /\ v.refilled = w.refilled
    /\ v.outcome \in {w.outcome, "assertion"}

\* and of all requests only r is another.
Kept(w, v, r) ==
    /\ Books(w, v) /\ DOMAIN v.runs = DOMAIN w.runs
    /\ \A q \in DOMAIN w.runs \ {r} : v.runs[q] = w.runs[q]

\* No page comes.
Tame(w, v) ==
    /\ v.now = w.now /\ v.gone = w.gone /\ v.copies = w.copies /\ v.replicas = w.replicas
    /\ v.tokens = w.tokens /\ v.refilled = w.refilled
    /\ \A p \in Pod : Pages(v, p) \subseteq Pages(w, p)

-----------------------------------------------------------------------------
(* Every operation on requests leaves the books alone *)

(* What is kept includes the fields.                                       *)
LEMMA KeptFields ==
    ASSUME NEW w, NEW v, NEW r, Kept(w, v, r), Fields \subseteq DOMAIN w
    PROVE  Fields \subseteq DOMAIN v /\ Books(w, v)
<1>1. QED
  BY DEF Kept, Books

(* Nothing changed.                                                        *)
LEMMA KeptSame ==
    ASSUME NEW w, NEW r
    PROVE  Kept(w, w, r)
<1>1. QED
  BY DEF Kept, Books

(* One operation after another.                                            *)
LEMMA KeptTwice ==
    ASSUME NEW a, NEW b, NEW c, NEW r, Kept(a, b, r), Kept(b, c, r)
    PROVE  Kept(a, c, r)
<1>1. QED
  BY DEF Kept, Books

(* A check can only end the run.                                           *)
LEMMA KeptCheck ==
    ASSUME NEW w, Fields \subseteq DOMAIN w, NEW r, NEW ok
    PROVE  Kept(w, Check(w, ok), r)
<1>1. QED
  BY DEF Kept, Books, Check, Fields

(* Scheduling an event.                                                    *)
LEMMA KeptSchedule ==
    ASSUME NEW w, Fields \subseteq DOMAIN w, NEW r, NEW t, NEW k, NEW i
    PROVE  Kept(w, Schedule(w, t, k, i), r)
<1>1. QED
  BY DEF Kept, Books, Schedule, Fields

(* Waking the gate.                                                        *)
LEMMA KeptWake ==
    ASSUME NEW w, Fields \subseteq DOMAIN w, NEW r
    PROVE  Kept(w, WakeGate(w), r)
<1>1. QED
  BY KeptSchedule, KeptSame DEF WakeGate

(* Counting.                                                               *)
LEMMA KeptCount ==
    ASSUME NEW w, Fields \subseteq DOMAIN w, NEW r, NEW f, NEW k
    PROVE  Kept(w, Count(w, f, k), r)
<1>1. QED
  BY DEF Kept, Books, Count, Fields

(* Scheduling a start of service.                                          *)
LEMMA KeptStart ==
    ASSUME NEW w, Fields \subseteq DOMAIN w, NEW r, NEW p
    PROVE  Kept(w, StartSoon(w, p), r)
<1> DEFINE u == [w EXCEPT !.pods[p].armed = TRUE]
           x == Schedule(u, w.now, "SERVICE_START", Head(w.pods[p].queue))
<1>1. Kept(w, u, r)
  BY DEF Kept, Books, Fields
<1> HIDE DEF u
<1>2. Kept(u, x, r)
  BY <1>1, KeptSchedule, KeptFields
<1>3. Kept(x, Check(x, ~w.pods[p].armed), r)
  BY <1>1, <1>2, KeptCheck, KeptFields
<1>4. QED
  BY <1>1, <1>2, <1>3, KeptTwice DEF StartSoon, u

(* Queueing a request on a pod.                                            *)
LEMMA KeptEnqueue ==
    ASSUME NEW w, Fields \subseteq DOMAIN w, NEW r, NEW p
    PROVE  Kept(w, EnqueueReady(w, r, p), r)
<1> DEFINE run == w.runs[r]
           hit == Hit(w, p, run.path)
           placed == [w EXCEPT
               !.runs[r] = [@ EXCEPT !.state = "READY", !.pod = p, !.owner = p, !.routed = hit,
                                     !.estimate = Service(run.path, hit)],
               !.pods[p].queue = Append(@, r)]
           checked == Check(placed, run.owner = Absent /\ run.ticket.owner = Absent)
<1>1. Kept(w, placed, r)
  BY DEF Kept, Books, Fields
<1>2. Kept(placed, checked, r)
  BY <1>1, KeptCheck, KeptFields
<1>3. Kept(checked, StartSoon(checked, p), r)
  BY <1>1, <1>2, KeptStart, KeptFields
<1>4. EnqueueReady(w, r, p) \in {checked, StartSoon(checked, p)}
  BY DEF EnqueueReady
<1> HIDE DEF placed, checked
<1>5. QED
  BY <1>1, <1>2, <1>3, <1>4, KeptTwice

(* Withdrawing announced load.                                             *)
LEMMA KeptDrop ==
    ASSUME NEW w, Fields \subseteq DOMAIN w, NEW r
    PROVE  Kept(w, DropPressure(w, r), r)
<1>1. QED
  BY DEF Kept, Books, Fields, DropPressure

(* Leaving the gate.                                                       *)
LEMMA KeptLeave ==
    ASSUME NEW w, Fields \subseteq DOMAIN w, NEW r, NEW s
    PROVE  Kept(w, LeaveGate(w, r, s), r)
<1>1. QED
  BY DEF Kept, Books, Fields, LeaveGate

(* Falling back to the affine pod.                                         *)
LEMMA KeptFallback ==
    ASSUME NEW w, Fields \subseteq DOMAIN w, NEW r
    PROVE  Kept(w, FallbackAff(w, r), r)
<1> DEFINE t == w.runs[r].ticket
           dropped == DropPressure(w, r)
           left == LeaveGate(dropped, r, IF t.state \in {"TIMED_OUT", "CANCELLED"} THEN t.state ELSE "FALLBACK")
           freed == IF t.state = "NONE" THEN w ELSE left
           counted == Count(freed, "fallbacks", 1)
<1>1. Kept(w, dropped, r)
  BY KeptDrop
<1>2. Kept(dropped, left, r)
  BY <1>1, KeptLeave, KeptFields
<1> HIDE DEF left, dropped
<1>3. Kept(w, freed, r)
  BY <1>1, <1>2, KeptTwice, KeptSame
<1> HIDE DEF freed
<1>4. Kept(freed, counted, r)
  BY <1>3, KeptCount, KeptFields
<1> HIDE DEF counted
<1>5. Kept(counted, EnqueueReady(counted, r, Affinity(freed, w.runs[r].path)), r)
  BY <1>3, <1>4, KeptEnqueue, KeptFields
<1>6. FallbackAff(w, r) = EnqueueReady(counted, r, Affinity(freed, w.runs[r].path))
  BY DEF FallbackAff, counted, freed, left, dropped
<1>7. QED
  BY <1>3, <1>4, <1>5, <1>6, KeptTwice

(* Planning, creating and replanning a ticket.                             *)
LEMMA KeptPlan ==
    ASSUME NEW w, Fields \subseteq DOMAIN w, NEW r, NEW s, NEW t, NEW m, NEW x
    PROVE  /\ Kept(w, Plan(w, r, s, t, m, x), r)
           /\ Kept(w, CreateTicket(w, r, s, t, m, x), r)
           /\ Kept(w, Replan(w, r, s, t, m, x), r)
<1>1. Kept(w, Plan(w, r, s, t, m, x), r)
  BY DEF Kept, Books, Fields, Plan
<1>2. Kept(w, Replan(w, r, s, t, m, x), r)
  <2> DEFINE u == Plan(w, r, s, t, m, x)
             y == [u EXCEPT !.runs[r].replans = @ + 1]
  <2> HIDE DEF u
  <2>1. Kept(w, u, r)
    BY <1>1 DEF u
  <2>2. Kept(u, y, r)
    BY <2>1 DEF Kept, Books, Fields
  <2> HIDE DEF y
  <2>3. Kept(y, Count(y, "replans", 1), r)
    BY <2>1, <2>2, KeptCount, KeptFields
  <2>4. Replan(w, r, s, t, m, x) \in {u, Count(y, "replans", 1)}
    BY DEF Replan, Replanned, u, y
  <2>5. QED
    BY <2>1, <2>2, <2>3, <2>4, KeptTwice
<1>3. Kept(w, CreateTicket(w, r, s, t, m, x), r)
  <2> DEFINE u == Plan(w, r, s, t, m, x)
             made == [u EXCEPT
                    !.runs[r].ticket = [@ EXCEPT !.state = "QUEUED", !.id = w.nextTicket],
                    !.nextTicket = @ + 1, !.gate = Append(@, r), !.stats.created = @ + 1]
             a == Schedule(made, w.now, "TRANSFER_ENQUEUE", r)
  <2> HIDE DEF u
  <2>1. Kept(w, u, r)
    BY <1>1 DEF u
  <2>2. Kept(u, made, r)
    BY <2>1 DEF Kept, Books, Fields
  <2> HIDE DEF made
  <2>3. Kept(made, a, r)
    BY <2>1, <2>2, KeptSchedule, KeptFields
  <2> HIDE DEF a
  <2>4. Kept(a, Schedule(a, w.now + Timeout, "TRANSFER_TIMEOUT", r), r)
    BY <2>1, <2>2, <2>3, KeptSchedule, KeptFields
  <2>5. CreateTicket(w, r, s, t, m, x) = Schedule(a, w.now + Timeout, "TRANSFER_TIMEOUT", r)
    BY DEF CreateTicket, u, made, a
  <2>6. QED
    BY <2>1, <2>2, <2>3, <2>4, <2>5, KeptTwice
<1>4. QED
  BY <1>1, <1>2, <1>3

(* Taking and releasing the ends of a transfer; a release that passes its  *)
(* check finds the path.                                                   *)
LEMMA KeptReserve ==
    ASSUME NEW w, Fields \subseteq DOMAIN w, NEW r, NEW id, NEW s, NEW t, NEW m, NEW x
    PROVE  /\ Kept(w, Reserve(w, id, s, t, m), r)
           /\ Kept(w, Unreserved(w, s, t, m), r)
           /\ Unreserved(w, s, t, m).outcome = "running" => Holds(w, s, m)
           /\ Kept(w, Released(w, x), r)
<1> DEFINE y == [w EXCEPT !.pods[s] = [w.pods[s] EXCEPT !.cache = Pin(@, m), !.busy = id,
                                                        !.sends = TRUE, !.wired = @ + Wire(m)]]
           a == [y EXCEPT
              !.pods[t] = [w.pods[t] EXCEPT !.cache = ReserveTransferTemporary(@, id, Depth(m)),
                                            !.busy = id, !.receives = TRUE, !.wired = @ + Wire(m)]]
           z == [w EXCEPT !.pods[x.source] = [@ EXCEPT !.busy = Absent, !.sends = FALSE]]
           b == [z EXCEPT !.pods[x.target] = [@ EXCEPT !.busy = Absent, !.receives = FALSE]]
           u == [w EXCEPT !.pods[s].cache = Unpin(Pin(@, m), m)]
           c == [u EXCEPT !.pods[t].cache = Room(@, Depth(m))]
<1>1. Kept(w, a, r)
  BY DEF Kept, Books, Fields
<1>2. Kept(w, b, r)
  BY DEF Kept, Books, Fields
<1>3. Kept(w, c, r)
  BY DEF Kept, Books, Fields
<1> HIDE DEF a, b, c
<1>4. Unreserved(w, s, t, m) = Check(c, Holds(w, s, m))
  BY DEF Unreserved, c
<1>5. Fields \subseteq DOMAIN c /\ Kept(c, Unreserved(w, s, t, m), r)
  BY <1>3, <1>4, KeptCheck, KeptFields
<1>6. Unreserved(w, s, t, m).outcome = "running" => Holds(w, s, m)
  BY <1>4, <1>5 DEF Check, Fields
<1>7. Kept(a, Reserve(w, id, s, t, m), r)
  BY <1>1, KeptCheck, KeptFields DEF Reserve, a
<1>8. Kept(b, Released(w, x), r)
  BY <1>2, KeptCheck, KeptFields DEF Released, b
<1>9. QED
  BY <1>1, <1>2, <1>3, <1>7, <1>8, <1>5, <1>6, KeptTwice

(* Starting a transfer, which finds its path at the source if it starts.   *)
LEMMA KeptStartTransfer ==
    ASSUME NEW w, Fields \subseteq DOMAIN w, NEW r, NEW id, NEW s, NEW t, NEW m
    PROVE  /\ Kept(w, StartTransfer(w, r, id, s, t, m), r)
           /\ StartTransfer(w, r, id, s, t, m).outcome = "running" => Holds(w, s, m)
<1> DEFINE ready == w.now + Wire(m)
           u == Reserve(w, id, s, t, m)
           sent == [u EXCEPT
            !.runs[r] = [@ EXCEPT !.state = "WAITING_TRANSFER",
                                  !.transfer = [id |-> id, source |-> s, target |-> t, path |-> m,
                                                ready |-> ready]],
            !.stats.started = @ + 1]
           x == Schedule(sent, ready, "TRANSFER_COMPLETE", r)
<1> HIDE DEF u
<1>1. Kept(w, u, r)
  BY KeptReserve DEF u
<1>2. Kept(u, sent, r)
  BY <1>1 DEF Kept, Books, Fields
<1> HIDE DEF sent
<1>3. Kept(sent, x, r)
  BY <1>1, <1>2, KeptSchedule, KeptFields
<1> HIDE DEF x
<1>4. Kept(x, Check(x, Holds(w, s, m)), r)
  BY <1>1, <1>2, <1>3, KeptCheck, KeptFields
<1>5. StartTransfer(w, r, id, s, t, m) = Check(x, Holds(w, s, m))
  BY DEF StartTransfer, u, sent, x
<1>6. StartTransfer(w, r, id, s, t, m).outcome = "running" => Holds(w, s, m)
  <2>1. "outcome" \in DOMAIN x
    BY <1>1, <1>2, <1>3, KeptFields DEF Fields
  <2>2. QED
    BY <1>5, <2>1 DEF Check
<1>7. QED
  BY <1>1, <1>2, <1>3, <1>4, <1>5, <1>6, KeptTwice

(* One try of a ticket.                                                    *)
LEMMA KeptTry ==
    ASSUME NEW w, Fields \subseteq DOMAIN w, NEW r
    PROVE  /\ Kept(w, Blocked(w, r), r)
           /\ Kept(w, Replanned(w, r), r)
           /\ Kept(w, TryTicket(w, r), r)
<1>1. ASSUME NEW v, Fields \subseteq DOMAIN v
      PROVE  Kept(v, Blocked(v, r), r)
  BY <1>1 DEF Kept, Books, Fields, Blocked
<1>2. Kept(w, Replanned(w, r), r)
  <2> DEFINE y == [w EXCEPT !.runs[r].replans = @ + 1]
  <2>1. Kept(w, y, r)
    BY DEF Kept, Books, Fields
  <2> HIDE DEF y
  <2>2. Kept(y, Count(y, "replans", 1), r)
    BY <2>1, KeptCount, KeptFields
  <2>3. QED
    BY <2>1, <2>2, KeptTwice DEF Replanned, y
<1>3. Kept(w, TryTicket(w, r), r)
  <2> DEFINE k == w.runs[r].ticket
             a == LeaveGate(w, r, "TRANSFER_RUNNING")
             b == StartTransfer(a, r, k.id, k.source, k.target, k.path)
             c == Unreserved(w, k.source, k.target, k.path)
             d == Blocked(c, r)
  <2> HIDE DEF a, b, c, d
  <2>1. Kept(w, a, r) /\ Kept(w, c, r)
    BY KeptLeave, KeptReserve DEF a, c
  <2>2. Kept(a, b, r)
    BY <2>1, KeptStartTransfer, KeptFields DEF b
  <2>3. Kept(c, d, r)
    BY <2>1, <1>1 DEF Kept, Books, d
  <2>4. Kept(w, b, r) /\ Kept(w, d, r) /\ Kept(w, Blocked(w, r), r) /\ Kept(w, w, r)
    BY <2>1, <2>2, <2>3, <1>1, KeptTwice, KeptSame
  <2>5. TryTicket(w, r) \in {w, Blocked(w, r), b, d}
    BY DEF TryTicket, a, b, c, d
  <2>6. QED
    BY <2>4, <2>5
<1>4. QED
  BY <1>1, <1>2, <1>3

(* Cancelling a ticket.                                                    *)
LEMMA KeptCancel ==
    ASSUME NEW w, Fields \subseteq DOMAIN w, NEW r
    PROVE  Kept(w, CancelToAff(w, r), r)
<1> DEFINE u == [w EXCEPT !.runs[r].ticket.state = "CANCELLED"]
<1>1. Kept(w, u, r)
  BY DEF Kept, Books, Fields
<1> HIDE DEF u
<1>2. Kept(u, FallbackAff(u, r), r)
  BY <1>1, KeptFallback, KeptFields
<1>3. QED
  BY <1>1, <1>2, KeptTwice DEF CancelToAff, u

(* Admitting a ticket at the gate.                                         *)
LEMMA KeptAdmitB0 ==
    ASSUME NEW w, Fields \subseteq DOMAIN w, NEW r
    PROVE  Kept(w, AdmitB0(w, r), r)
<1> DEFINE n == w.runs[r].path
           v == DropPressure(w, r)
           s == Affinity(v, n)
           m == Transferable(v, s, n)
           t == TargetOf(v, n, s)
           planned == Replan(v, r, s, t, m, Planned(v, t, n, m))
           tried == TryTicket(planned, r)
           refused == [tried EXCEPT !.runs[r].blocked = w.runs[r].blocked]
           left == LeaveGate(v, r, "CANCELLED")
           placed == EnqueueReady(left, r, t)
<1>1. AdmitB0(w, r) \in {Blocked(w, r), CancelToAff(v, r), placed, CancelToAff(refused, r), tried}
  BY DEF AdmitB0
<1> HIDE DEF n, v, s, m, t, planned, tried, refused, left, placed
<1>2. Kept(w, v, r)
  BY KeptDrop DEF v
<1>3. Kept(v, planned, r) /\ Kept(v, left, r) /\ Kept(v, CancelToAff(v, r), r)
  BY <1>2, KeptPlan, KeptLeave, KeptCancel, KeptFields DEF planned, left
<1>4. Kept(w, planned, r) /\ Kept(w, left, r)
  BY <1>2, <1>3, KeptTwice
<1>5. Kept(planned, tried, r) /\ Kept(left, placed, r)
  BY <1>4, KeptTry, KeptEnqueue, KeptFields DEF tried, placed
<1>6. Kept(w, tried, r)
  BY <1>4, <1>5, KeptTwice
<1>7. Kept(tried, refused, r)
  BY <1>6 DEF Kept, Books, Fields, refused
<1>8. Kept(refused, CancelToAff(refused, r), r) /\ Kept(w, refused, r)
  BY <1>6, <1>7, KeptCancel, KeptTwice, KeptFields
<1>9. QED
  BY SMTT(30), <1>1, <1>2, <1>3, <1>4, <1>5, <1>6, <1>8, KeptTry, KeptTwice

(* Creating and giving up a ticket of the route by completion times.       *)
LEMMA KeptEct ==
    ASSUME NEW w, Fields \subseteq DOMAIN w, NEW r, NEW x, NEW state
    PROVE  /\ Kept(w, EctTicket(w, r, x), r)
           /\ Kept(w, FallbackEct(w, r, state), r)
<1>1. Kept(w, EctTicket(w, r, x), r)
  <2> DEFINE u == CreateTicket(w, r, x.source, x.target, x.path, x.service)
  <2> HIDE DEF u
  <2>1. Kept(w, u, r)
    BY KeptPlan DEF u
  <2>2. Kept(u, EctTicket(w, r, x), r)
    BY <2>1, KeptCheck, KeptFields DEF EctTicket, u
  <2>3. QED
    BY <2>1, <2>2, KeptTwice
<1>2. Kept(w, FallbackEct(w, r, state), r)
  <2> DEFINE a == DropPressure(w, r)
             b == LeaveGate(a, r, state)
             left == [b EXCEPT !.runs[r].fallback = TRUE]
             c == Replanned(left, r)
             freed == Count(c, "fallbacks", 1)
             p == BestPlan(DirectPlans(freed, r)).target
  <2>1. FallbackEct(w, r, state) = EnqueueReady(freed, r, p)
    BY DEF FallbackEct
  <2> HIDE DEF a, b, left, c, freed, p
  <2>2. Kept(w, a, r)
    BY KeptDrop DEF a
  <2>3. Kept(a, b, r)
    BY <2>2, KeptLeave, KeptFields DEF b
  <2>4. Kept(b, left, r)
    BY <2>2, <2>3 DEF Kept, Books, Fields, left
  <2>5. Kept(w, left, r)
    BY <2>2, <2>3, <2>4, KeptTwice
  <2>6. Kept(left, c, r)
    BY <2>5, KeptTry, KeptFields DEF c
  <2>7. Kept(w, c, r)
    BY <2>5, <2>6, KeptTwice
  <2>8. Kept(c, freed, r)
    BY <2>7, KeptCount, KeptFields DEF freed
  <2>9. Kept(w, freed, r)
    BY <2>7, <2>8, KeptTwice
  <2>10. Kept(freed, EnqueueReady(freed, r, p), r)
    BY <2>9, KeptEnqueue, KeptFields
  <2>11. QED
    BY <2>1, <2>9, <2>10, KeptTwice
<1>3. QED
  BY <1>1, <1>2

(* Admitting a ticket of the route by completion times.                    *)
LEMMA KeptAdmitEct ==
    ASSUME NEW w, Fields \subseteq DOMAIN w, NEW r
    PROVE  Kept(w, AdmitEct(w, r), r)
<1> DEFINE v == DropPressure(w, r)
           x == BestPlan(Plans(v, r, v.runs[r].ticket.id))
           planned == Replan(v, r, x.source, x.target, x.path, x.service)
<1>1. AdmitEct(w, r) \in {FallbackEct(v, r, "CANCELLED"), TryTicket(planned, r)}
  BY DEF AdmitEct
<1> HIDE DEF v, x, planned
<1>2. Kept(w, v, r)
  BY KeptDrop DEF v
<1>3. Kept(v, planned, r) /\ Kept(v, FallbackEct(v, r, "CANCELLED"), r)
  BY <1>2, KeptPlan, KeptEct, KeptFields DEF planned
<1>4. Kept(w, planned, r)
  BY <1>2, <1>3, KeptTwice
<1>5. Kept(planned, TryTicket(planned, r), r)
  BY <1>4, KeptTry, KeptFields
<1>6. QED
  BY <1>1, <1>2, <1>3, <1>4, <1>5, KeptTwice

(* The three routes of an arrival.                                         *)
LEMMA KeptArrival ==
    ASSUME NEW w, Fields \subseteq DOMAIN w, NEW r
    PROVE  Kept(w, B0Arrival(w, r), r) /\ Kept(w, EctArrival(w, r), r) /\ Kept(w, SimpleArrival(w, r), r)
<1>1. Kept(w, B0Arrival(w, r), r)
  <2> DEFINE n == w.runs[r].path
             s == Affinity(w, n)
             m == Transferable(w, s, n)
             t == TargetOf(w, n, s)
             gate == IF Hit(w, s, n) = Root THEN "NO_CACHE_SOURCE"
                     ELSE IF IsTask THEN TaskGate(w, s, m, t) ELSE KvGate(w, n, s, m, t)
             noted == [w EXCEPT !.runs[r].gate = gate]
             y == Planned(w, t, n, m)
  <2>1. Kept(w, noted, r)
    BY DEF Kept, Books, Fields
  <2>2. B0Arrival(w, r) \in {CreateTicket(noted, r, s, t, m, y), EnqueueReady(noted, r, t),
                             FallbackAff(noted, r)}
    <3> HIDE DEF noted, gate, n, s, m, t, y
    <3>1. B0Arrival(w, r) =
            CASE gate = "TRANSFER_SELECTED" -> CreateTicket(noted, r, s, t, m, y)
              [] gate = "TARGET_ALREADY_HAS_PREFIX" -> EnqueueReady(noted, r, t)
              [] OTHER -> FallbackAff(noted, r)
      BY DEF B0Arrival, noted, gate, n, s, m, t, y
    <3>2. QED
      BY <3>1
  <2> HIDE DEF noted, gate, n, s, m, t, y
  <2>3. /\ Kept(noted, CreateTicket(noted, r, s, t, m, y), r)
        /\ Kept(noted, EnqueueReady(noted, r, t), r)
        /\ Kept(noted, FallbackAff(noted, r), r)
    BY <2>1, KeptPlan, KeptEnqueue, KeptFallback, KeptFields
  <2>4. QED
    BY <2>1, <2>2, <2>3, KeptTwice
<1>2. Kept(w, EctArrival(w, r), r)
  <2> DEFINE x == BestPlan(Plans(w, r, w.nextTicket))
             noted == [w EXCEPT !.runs[r].plan = x.type]
  <2> HIDE DEF x
  <2>1. Kept(w, noted, r)
    BY DEF Kept, Books, Fields
  <2>2. EctArrival(w, r) \in {EnqueueReady(noted, r, x.target), EctTicket(noted, r, x)}
    BY DEF EctArrival, x
  <2> HIDE DEF noted
  <2>3. Kept(noted, EnqueueReady(noted, r, x.target), r) /\ Kept(noted, EctTicket(noted, r, x), r)
    BY <2>1, KeptEnqueue, KeptEct, KeptFields
  <2>4. QED
    BY <2>1, <2>2, <2>3, KeptTwice
<1>3. Kept(w, SimpleArrival(w, r), r)
  <2> DEFINE n == w.runs[r].path
             s == Affinity(w, n)
             t == Least(w)
             m == Transferable(w, s, n)
             id == w.nextTransfer
             u == [w EXCEPT !.nextTransfer = @ + 1,
                                !.runs[r].transfer = [id |-> id, source |-> s, target |-> t,
                                                      path |-> m, ready |-> 0]]
  <2>1. SimpleArrival(w, r) \in {EnqueueReady(w, r, s), EnqueueReady(w, r, t),
                                 Schedule(u, w.now, "TRANSFER_ADMIT", r)}
    BY DEF SimpleArrival
  <2> HIDE DEF n, s, t, m, id
  <2>2. Kept(w, u, r)
    BY DEF Kept, Books, Fields
  <2> HIDE DEF u
  <2>3. Kept(u, Schedule(u, w.now, "TRANSFER_ADMIT", r), r)
    BY <2>2, KeptSchedule, KeptFields
  <2>4. QED
    BY <2>1, <2>2, <2>3, KeptTwice, KeptEnqueue
<1>4. QED
  BY <1>1, <1>2, <1>3

(* An arrival.                                                             *)
LEMMA KeptOnArrival ==
    ASSUME NEW w, Fields \subseteq DOMAIN w, NEW r, NEW n
    PROVE  Kept(w, OnArrival(w, r, n), r)
<1> DEFINE v == [w EXCEPT !.runs[r] = [@ EXCEPT !.path = n, !.arrival = w.now, !.state = "ARRIVED"]]
           next == CASE IsEct -> EctArrival(v, r)
                  [] mode.routing \in {"R_REQ_KV", "R_REQ_KV_TASK"} -> B0Arrival(v, r)
                  [] mode.routing = "R_REQ_KV_SIMPLE" -> SimpleArrival(v, r)
                  [] mode.routing = "R_LEAST" -> EnqueueReady(v, r, Least(v))
                  [] OTHER -> EnqueueReady(v, r, Affinity(v, n))
<1>1. Kept(w, v, r)
  BY DEF Kept, Books, Fields
<1>2. OnArrival(w, r, n) = Check(next, w.runs[r].state = "NONE")
  BY DEF OnArrival
<1> HIDE DEF v
<1>3. next \in {EctArrival(v, r), B0Arrival(v, r), SimpleArrival(v, r), EnqueueReady(v, r, Least(v)),
                EnqueueReady(v, r, Affinity(v, n))}
  OBVIOUS
<1> HIDE DEF next
<1>4. Kept(v, next, r)
  BY <1>1, <1>3, KeptArrival, KeptEnqueue, KeptFields
<1>5. Kept(next, Check(next, w.runs[r].state = "NONE"), r)
  BY <1>1, <1>4, KeptCheck, KeptFields
<1>6. QED
  BY <1>1, <1>2, <1>4, <1>5, KeptTwice

(* Admission of the simple route.                                          *)
LEMMA KeptAdmitSimple ==
    ASSUME NEW w, Fields \subseteq DOMAIN w, NEW r
    PROVE  Kept(w, AdmitSimple(w, r), r)
<1> DEFINE x == w.runs[r].transfer
           a == FallbackAff(w, r)
           b == StartTransfer(w, r, x.id, x.source, x.target, x.path)
           c == Unreserved(w, x.source, x.target, x.path)
           d == FallbackAff(c, r)
           ok == x.id # Absent /\ w.runs[r].state = "ARRIVED"
<1>1. AdmitSimple(w, r) \in {Check(a, ok), Check(b, ok), Check(d, ok)}
  BY DEF AdmitSimple
<1> HIDE DEF a, b, c, d, x, ok
<1>2. Kept(w, a, r) /\ Kept(w, b, r) /\ Kept(w, c, r)
  BY KeptFallback, KeptStartTransfer, KeptReserve DEF a, b, c
<1>3. Kept(c, d, r)
  BY <1>2, KeptFallback, KeptFields DEF d
<1>4. Kept(w, d, r)
  BY <1>2, <1>3, KeptTwice
<1>5. Kept(a, Check(a, ok), r) /\ Kept(b, Check(b, ok), r) /\ Kept(d, Check(d, ok), r)
  BY <1>2, <1>4, KeptCheck, KeptFields
<1>6. QED
  BY <1>1, <1>2, <1>4, <1>5, KeptTwice

-----------------------------------------------------------------------------
(* The tickets of the gate, one after the other *)

AdmitStep(u, r) == IF IsEct THEN AdmitEct(u, r) ELSE AdmitB0(u, r)

IsRound(w, n, f) ==
    f = [i \in 0 .. n |-> IF i = 0 THEN w
                          ELSE IF IsEct THEN AdmitEct(f[i - 1], w.gate[i])
                          ELSE AdmitB0(f[i - 1], w.gate[i])]

(* The states a round of the gate goes through, as a function.             *)
LEMMA RoundExists ==
    ASSUME NEW w, NEW n \in Nat
    PROVE  \E f : IsRound(w, n, f)
<1> DEFINE Bad == {k \in Nat : ~\E f : IsRound(w, k, f)}
           Turned(x, i) == IF IsEct THEN AdmitEct(x, w.gate[i]) ELSE AdmitB0(x, w.gate[i])
<1>1. SUFFICES ASSUME Bad # {} PROVE FALSE
  OBVIOUS
<1>2. PICK k \in Bad : \A j \in Bad : k <= j
  BY <1>1, LeastNat
<1>3. k # 0
  <2>1. IsRound(w, 0, [i \in 0 .. 0 |-> w])
    BY DEF IsRound
  <2>2. QED
    BY <2>1
<1>4. PICK f : IsRound(w, k - 1, f)
  BY <1>2, <1>3
<1>5. \A i \in 0 .. k - 1 : f[i] = IF i = 0 THEN w ELSE Turned(f[i - 1], i)
  BY <1>4 DEF IsRound
<1> HIDE DEF Turned
<1> DEFINE g == [i \in 0 .. k |-> IF i = k THEN Turned(f[k - 1], k) ELSE f[i]]
<1>6. \A i \in 0 .. k : g[i] = IF i = 0 THEN w ELSE Turned(g[i - 1], i)
  <2>1. TAKE i \in 0 .. k
  <2>2. CASE i = k
    <3>1. g[i] = Turned(f[k - 1], k) /\ g[i - 1] = f[k - 1]
      BY <2>2, <1>2, <1>3
    <3>2. QED
      BY <3>1, <2>2, <1>3
  <2>3. CASE i # k
    <3>1. i \in 0 .. k - 1
      BY <2>3, <1>2
    <3>2. g[i] = f[i] /\ (i # 0 => g[i - 1] = f[i - 1])
      BY <2>3, <1>2
    <3>3. QED
      BY <3>1, <3>2, <1>5
  <2>4. QED
    BY <2>2, <2>3
<1>7. g = [i \in 0 .. k |-> g[i]]
  OBVIOUS
<1>8. IsRound(w, k, g)
  BY <1>6, <1>7 DEF IsRound, Turned
<1>9. QED
  BY <1>2, <1>8

Rounds(w, v, f) ==
    /\ v = f[Len(w.gate)] /\ f[0] = w
    /\ \A i \in 1 .. Len(w.gate) : f[i] = AdmitStep(f[i - 1], w.gate[i])

(* An admission event is such a round.                                     *)
LEMMA RoundUnfolds ==
    ASSUME NEW w, Len(w.gate) \in Nat, NEW r, Tickets
    PROVE  \E f : Rounds(w, OnAdmit(w, r), f)
<1> DEFINE n == Len(w.gate)
           f == CHOOSE g : IsRound(w, n, g)
<1>1. IsRound(w, n, f)
  BY RoundExists
<1>2. OnAdmit(w, r) = f[n]
  BY DEF OnAdmit, IsRound
<1> HIDE DEF f
<1>3. \A i \in 0 .. n : f[i] = IF i = 0 THEN w ELSE AdmitStep(f[i - 1], w.gate[i])
  BY <1>1 DEF IsRound, AdmitStep
<1>4. f[0] = w /\ \A i \in 1 .. n : f[i] = AdmitStep(f[i - 1], w.gate[i])
  <2> HIDE DEF n
  <2>1. n \in Nat
    BY DEF n
  <2>2. QED
    BY <1>3, <2>1
<1>5. QED
  BY <1>2, <1>4 DEF Rounds

(* An admission event.                                                     *)
LEMMA KeptAdmit ==
    ASSUME NEW w, Fields \subseteq DOMAIN w, Len(w.gate) \in Nat, NEW r
    PROVE  Books(w, OnAdmit(w, r))
<1>1. CASE ~Tickets
  BY <1>1, KeptAdmitSimple, KeptFields DEF OnAdmit
<1>2. CASE Tickets
  <2>1. PICK f : Rounds(w, OnAdmit(w, r), f)
    BY <1>2, RoundUnfolds
  <2>2. /\ OnAdmit(w, r) = f[Len(w.gate)] /\ f[0] = w
        /\ \A i \in 1 .. Len(w.gate) : f[i] = AdmitStep(f[i - 1], w.gate[i])
    BY <2>1 DEF Rounds
  <2> DEFINE Bad == {k \in Nat : k <= Len(w.gate) /\ ~Books(w, f[k])}
  <2>3. SUFFICES ASSUME Bad # {} PROVE FALSE
    BY <2>2
  <2>4. PICK k \in Bad : \A j \in Bad : k <= j
    BY <2>3, LeastNat
  <2>5. k # 0
    BY <2>2 DEF Kept, Books
  <2>6. Books(w, f[k - 1])
    BY <2>4, <2>5
  <2>7. f[k] = AdmitStep(f[k - 1], w.gate[k])
    BY <2>2, <2>4, <2>5
  <2>8. Books(f[k - 1], f[k])
    <3>1. Fields \subseteq DOMAIN f[k - 1]
      BY <2>6 DEF Books
    <3>2. Kept(f[k - 1], f[k], w.gate[k])
      BY <2>7, <3>1, KeptAdmitEct, KeptAdmitB0 DEF AdmitStep
    <3>3. QED
      BY <3>2 DEF Kept
  <2>9. QED
    BY <2>4, <2>6, <2>8 DEF Books
<1>3. QED
  BY <1>1, <1>2

(* A timeout.                                                              *)
LEMMA KeptTimeout ==
    ASSUME NEW w, Fields \subseteq DOMAIN w, NEW r
    PROVE  Kept(w, OnTimeout(w, r), r)
<1> DEFINE v == Count(w, "timedOut", 1)
           u == [v EXCEPT !.runs[r].ticket.state = "TIMED_OUT"]
           a == FallbackEct(v, r, "TIMED_OUT")
           b == FallbackAff(u, r)
<1>1. OnTimeout(w, r) \in {w, WakeGate(a), WakeGate(b)}
  BY DEF OnTimeout
<1> HIDE DEF v
<1>2. Kept(w, v, r)
  BY KeptCount DEF v
<1>3. Kept(v, u, r) /\ Kept(v, a, r)
  <2>1. Fields \subseteq DOMAIN v
    BY <1>2, KeptFields
  <2>2. Kept(v, u, r)
    BY <2>1 DEF Kept, Books, Fields
  <2>3. QED
    BY <2>1, <2>2, KeptEct
<1> HIDE DEF u, a
<1>4. Kept(w, u, r) /\ Kept(w, a, r)
  BY <1>2, <1>3, KeptTwice
<1>5. Kept(u, b, r)
  BY <1>4, KeptFallback, KeptFields DEF b
<1>6. Kept(w, b, r) /\ Kept(w, w, r)
  BY <1>4, <1>5, KeptTwice, KeptSame
<1> HIDE DEF b
<1>7. Kept(a, WakeGate(a), r) /\ Kept(b, WakeGate(b), r)
  BY <1>4, <1>6, KeptWake, KeptFields
<1>8. QED
  BY <1>1, <1>4, <1>6, <1>7, KeptTwice

(* The end of a transfer.                                                  *)
LEMMA KeptComplete ==
    ASSUME NEW w, Fields \subseteq DOMAIN w, NEW r
    PROVE  Kept(w, OnComplete(w, r), r)
<1> DEFINE x == w.runs[r].transfer
           held == w.pods[x.target].cache
           new == Chain[x.path] \ held.pages
           u == Released(w, x)
           stats == [w.stats EXCEPT !.completed = @ + 1, !.wirePages = @ + Depth(x.path),
                                    !.newPages = @ + Cardinality(new)]
           landed == [u EXCEPT !.pods[x.target].cache = CommitTransferTemporary(@, x.id, x.path)]
           freed == [landed EXCEPT !.pods[x.source].cache = Unpin(@, x.path), !.runs[r].assisted = TRUE,
                                   !.stats = stats]
           a == DropPressure(freed, r)
           b == [a EXCEPT !.runs[r].ticket.state = "COMPLETED"]
           closed == IF w.runs[r].ticket.state = "NONE" THEN freed ELSE b
           c == Uncredit(closed, x.target, new)
           d == EnqueueReady(c, r, x.target)
           e == WakeGate(d)
           ok == w.runs[r].state = "WAITING_TRANSFER" /\ Cardinality(new) <= held.temporary[x.id]
<1>1. OnComplete(w, r) = Check(e, ok)
  BY DEF OnComplete
<1> HIDE DEF x, held, new, u, ok
<1>2. Kept(w, u, r)
  BY KeptReserve DEF u
<1>3. Kept(u, freed, r)
  BY <1>2 DEF Kept, Books, Fields
<1> HIDE DEF freed
<1>4. Kept(w, freed, r)
  BY <1>2, <1>3, KeptTwice
<1>5. Kept(freed, a, r)
  BY <1>4, KeptDrop, KeptFields
<1> HIDE DEF a
<1>6. Kept(a, b, r)
  BY <1>4, <1>5 DEF Kept, Books, Fields
<1> HIDE DEF b
<1>7. Kept(w, closed, r)
  BY <1>4, <1>5, <1>6, KeptTwice
<1> HIDE DEF closed
<1>8. Kept(closed, c, r)
  BY <1>7 DEF Kept, Books, Fields, Uncredit
<1> HIDE DEF c
<1>9. Kept(w, c, r)
  BY <1>7, <1>8, KeptTwice
<1>10. Kept(c, d, r)
  BY <1>9, KeptEnqueue, KeptFields
<1> HIDE DEF d
<1>11. Kept(w, d, r)
  BY <1>9, <1>10, KeptTwice
<1>12. Kept(d, e, r)
  BY <1>11, KeptWake, KeptFields
<1> HIDE DEF e
<1>13. Kept(w, e, r)
  BY <1>11, <1>12, KeptTwice
<1>14. Kept(e, Check(e, ok), r)
  BY <1>13, KeptCheck, KeptFields
<1>15. QED
  BY <1>1, <1>13, <1>14, KeptTwice

(* The end of a service.                                                   *)
LEMMA KeptServiceDone ==
    ASSUME NEW w, Fields \subseteq DOMAIN w, NEW r
    PROVE  Kept(w, OnServiceDone(w, r), r)
<1> DEFINE p == w.runs[r].pod
           n == w.runs[r].path
           held == w.pods[p].cache
           new == Chain[n] \ held.pages
           u == [w EXCEPT
            !.pods[p] = [@ EXCEPT !.cache = Unpin(CommitActive(held, r, n), w.runs[r].hit),
                                  !.running = Absent],
            !.runs[r] = [@ EXCEPT !.owner = Absent, !.state = "DONE", !.done = w.now,
                                  !.inserted = Cardinality(new)]]
           done == Uncredit(u, p, new)
           next == IF w.pods[p].queue = <<>> THEN done ELSE StartSoon(done, p)
           a == WakeGate(next)
           ok == /\ w.runs[r].state = "RUNNING" /\ w.pods[p].running = r /\ w.runs[r].owner = p
                 /\ Cardinality(new) <= held.private[r]
<1>1. OnServiceDone(w, r) = Check(a, ok)
  BY DEF OnServiceDone
<1> HIDE DEF p, n, held, new, ok
<1>2. Kept(w, u, r)
  BY DEF Kept, Books, Fields
<1> HIDE DEF u
<1>3. Kept(u, done, r)
  BY <1>2 DEF Kept, Books, Fields, Uncredit
<1> HIDE DEF done
<1>4. Kept(w, done, r)
  BY <1>2, <1>3, KeptTwice
<1>5. Kept(done, StartSoon(done, p), r)
  BY <1>4, KeptStart, KeptFields
<1>6. Kept(w, next, r)
  BY <1>4, <1>5, KeptTwice
<1> HIDE DEF next
<1>7. Kept(next, a, r)
  BY <1>6, KeptWake, KeptFields
<1> HIDE DEF a
<1>8. Kept(w, a, r)
  BY <1>6, <1>7, KeptTwice
<1>9. Kept(a, Check(a, ok), r)
  BY <1>8, KeptCheck, KeptFields
<1>10. QED
  BY <1>1, <1>8, <1>9, KeptTwice

-----------------------------------------------------------------------------
(* Sequences *)

(* What is in a sequence after an element has been put at its end.         *)
LEMMA InAppend ==
    ASSUME NEW S, NEW s \in Seq(S), NEW e \in S
    PROVE  /\ Append(s, e) \in Seq(S) /\ Len(Append(s, e)) = Len(s) + 1
           /\ DOMAIN Append(s, e) = 1 .. Len(s) + 1 /\ DOMAIN s = 1 .. Len(s) /\ Len(s) \in Nat
           /\ \A i \in DOMAIN s : Append(s, e)[i] = s[i]
           /\ Append(s, e)[Len(s) + 1] = e
           /\ \A x : In(Append(s, e), x) <=> In(s, x) \/ x = e
           /\ NoDup(s) /\ ~In(s, e) => NoDup(Append(s, e))
           /\ Head(Append(s, e)) = IF s = <<>> THEN e ELSE Head(s)
           /\ Append(s, e) # <<>>
<1>1. /\ Append(s, e) \in Seq(S) /\ Len(Append(s, e)) = Len(s) + 1
      /\ DOMAIN Append(s, e) = 1 .. Len(s) + 1 /\ DOMAIN s = 1 .. Len(s) /\ Len(s) \in Nat
      /\ \A i \in DOMAIN s : Append(s, e)[i] = s[i]
      /\ Append(s, e)[Len(s) + 1] = e /\ Append(s, e) # <<>>
  BY AppendProperties, LenProperties
<1>2. \A i \in 1 .. Len(s) + 1 : i = Len(s) + 1 \/ i \in 1 .. Len(s)
  BY <1>1
<1>3. \A i \in 1 .. Len(s) : i \in 1 .. Len(s) + 1
  BY <1>1
<1>4. Len(s) + 1 \in 1 .. Len(s) + 1
  BY <1>1
<1>5. \A x : In(Append(s, e), x) <=> In(s, x) \/ x = e
  BY <1>1, <1>2, <1>3, <1>4 DEF In
<1>6. NoDup(s) /\ ~In(s, e) => NoDup(Append(s, e))
  BY SMTT(30), <1>1, <1>2 DEF NoDup, In
<1>7. QED
  BY <1>1, <1>5, <1>6, HeadTailAppend

(* What is in a sequence after element number k has been taken out.        *)
LEMMA InRemove ==
    ASSUME NEW S, NEW s \in Seq(S), NEW k \in DOMAIN s
    PROVE  LET t == Sequence!RemoveAt(s, k)
           IN  /\ t \in Seq(S) /\ Len(t) = Len(s) - 1
               /\ DOMAIN t = 1 .. Len(s) - 1 /\ DOMAIN s = 1 .. Len(s) /\ Len(s) \in Nat
               /\ \A i \in DOMAIN t : /\ (IF i < k THEN i ELSE i + 1) \in DOMAIN s
                                      /\ t[i] = s[IF i < k THEN i ELSE i + 1]
               /\ \A j \in DOMAIN s : j # k =>
                     /\ (IF j < k THEN j ELSE j - 1) \in DOMAIN t
                     /\ t[IF j < k THEN j ELSE j - 1] = s[j]
               /\ NoDup(s) => NoDup(t) /\ ~In(t, s[k])
               /\ \A x : In(t, x) => In(s, x)
               /\ \A x : In(s, x) /\ x # s[k] => In(t, x)
<1> DEFINE a == SubSeq(s, 1, k - 1)
           b == SubSeq(s, k + 1, Len(s))
           t == a \o b
<1>1. Len(s) \in Nat /\ DOMAIN s = 1 .. Len(s) /\ k \in 1 .. Len(s) /\ k \in Int
      /\ \A i \in 1 .. Len(s) : s[i] \in S
  BY LenProperties, ElementOfSeq
<1>2. /\ a \in Seq(S) /\ Len(a) = k - 1
      /\ \A i \in 1 .. k - 1 : a[i] = s[i]
  <2>1. /\ a \in Seq(S) /\ Len(a) = IF 1 <= k - 1 THEN k - 1 - 1 + 1 ELSE 0
        /\ \A i \in 1 .. k - 1 - 1 + 1 : a[i] = s[1 + i - 1]
    <3>1. \A i \in 1 .. k - 1 : s[i] \in S
      BY <1>1
    <3>2. 1 \in Int /\ k - 1 \in Int
      BY <1>1
    <3>3. QED
      BY <3>1, <3>2, SubSeqProperties
  <2>2. QED
    BY <2>1, <1>1
<1>3. /\ b \in Seq(S) /\ Len(b) = Len(s) - k
      /\ \A i \in 1 .. Len(s) - k : b[i] = s[k + i]
  <2>1. /\ b \in Seq(S) /\ Len(b) = IF k + 1 <= Len(s) THEN Len(s) - (k + 1) + 1 ELSE 0
        /\ \A i \in 1 .. Len(s) - (k + 1) + 1 : b[i] = s[(k + 1) + i - 1]
    <3>1. \A i \in k + 1 .. Len(s) : s[i] \in S
      BY <1>1
    <3>2. k + 1 \in Int /\ Len(s) \in Int
      BY <1>1
    <3>3. QED
      BY <3>1, <3>2, SubSeqProperties
  <2>2. QED
    BY <2>1, <1>1
<1> HIDE DEF a, b
<1>4. /\ t \in Seq(S) /\ Len(t) = Len(a) + Len(b)
      /\ \A i \in 1 .. Len(a) + Len(b) : t[i] = IF i <= Len(a) THEN a[i] ELSE b[i - Len(a)]
  BY <1>2, <1>3, ConcatProperties
<1>5. /\ t \in Seq(S) /\ Len(t) = Len(s) - 1 /\ DOMAIN t = 1 .. Len(s) - 1
      /\ \A i \in 1 .. Len(s) - 1 : t[i] = s[IF i < k THEN i ELSE i + 1]
  <2>0. Len(t) = Len(s) - 1
    BY <1>1, <1>2, <1>3, <1>4
  <2>1. Len(t) = Len(s) - 1 /\ DOMAIN t = 1 .. Len(s) - 1
    <3> HIDE DEF t
    <3>1. QED
      BY <2>0, <1>4, LenProperties
  <2>2. ASSUME NEW i \in 1 .. Len(s) - 1
        PROVE  t[i] = s[IF i < k THEN i ELSE i + 1]
    <3>1. t[i] = IF i <= k - 1 THEN a[i] ELSE b[i - (k - 1)]
      BY SMTT(30), <1>1, <1>2, <1>3, <1>4
    <3>2. CASE i < k
      <4>1. i \in 1 .. k - 1
        BY <1>1, <3>2
      <4>2. QED
        BY <1>1, <1>2, <3>1, <3>2, <4>1
    <3>3. CASE ~(i < k)
      <4>1. i - (k - 1) \in 1 .. Len(s) - k /\ k + (i - (k - 1)) = i + 1 /\ ~(i <= k - 1)
        BY <1>1, <3>3
      <4>2. QED
        BY <1>3, <3>1, <3>3, <4>1
    <3>4. QED
      BY <3>2, <3>3
  <2>3. QED
    BY <2>1, <2>2, <1>4
<1>6. t = Sequence!RemoveAt(s, k)
  BY DEF Sequence!RemoveAt, a, b
<1> HIDE DEF t
<1>7. \A i \in 1 .. Len(s) - 1 : (IF i < k THEN i ELSE i + 1) \in 1 .. Len(s)
  BY <1>1
<1>8. \A j \in 1 .. Len(s) : j # k => /\ (IF j < k THEN j ELSE j - 1) \in 1 .. Len(s) - 1
                                      /\ t[IF j < k THEN j ELSE j - 1] = s[j]
  BY <1>1, <1>5
<1>9. NoDup(s) => NoDup(t) /\ ~In(t, s[k])
  <2> SUFFICES ASSUME NoDup(s)
               PROVE  NoDup(t) /\ ~In(t, s[k])
    OBVIOUS
  <2> DEFINE from(i) == IF i < k THEN i ELSE i + 1
  <2>1. \A i \in DOMAIN t : from(i) \in DOMAIN s /\ t[i] = s[from(i)] /\ from(i) # k
    BY <1>1, <1>5, <1>7
  <2>2. \A i, j \in DOMAIN t : from(i) = from(j) => i = j
    BY <1>1, <1>5
  <2> HIDE DEF from
  <2>3. NoDup(t)
    BY <2>1, <2>2 DEF NoDup
  <2>4. ~In(t, s[k])
    BY <1>1, <2>1 DEF NoDup, In
  <2>5. QED
    BY <2>3, <2>4
<1>10. \A x : In(t, x) => In(s, x)
  BY <1>1, <1>5, <1>7 DEF In
<1>11. \A x : In(s, x) /\ x # s[k] => In(t, x)
  BY <1>1, <1>5, <1>8 DEF In
<1>12. QED
  BY Zenon, <1>1, <1>5, <1>6, <1>7, <1>8, <1>9, <1>10, <1>11

(* What is in a sequence after its head has gone.                          *)
LEMMA InTail ==
    ASSUME NEW S, NEW s \in Seq(S), s # <<>>, NoDup(s)
    PROVE  /\ Tail(s) \in Seq(S) /\ NoDup(Tail(s)) /\ Head(s) \in S
           /\ In(s, Head(s)) /\ ~In(Tail(s), Head(s))
           /\ \A x : In(Tail(s), x) <=> In(s, x) /\ x # Head(s)
<1>1. /\ Tail(s) \in Seq(S) /\ Len(Tail(s)) = Len(s) - 1 /\ Head(s) \in S
      /\ \A i \in 1 .. Len(Tail(s)) : Tail(s)[i] = s[i + 1]
  BY HeadTailProperties
<1>2. Len(s) \in Nat /\ DOMAIN s = 1 .. Len(s) /\ DOMAIN Tail(s) = 1 .. Len(s) - 1
  BY <1>1, LenProperties
<1>3. Len(s) # 0 /\ Head(s) = s[1]
  BY <1>2, EmptySeq
<1>4. \A i \in DOMAIN Tail(s) : i + 1 \in DOMAIN s /\ Tail(s)[i] = s[i + 1] /\ i + 1 # 1
  BY <1>1, <1>2
<1>5. \A j \in DOMAIN s : j # 1 => j - 1 \in DOMAIN Tail(s) /\ Tail(s)[j - 1] = s[j]
  BY <1>1, <1>2
<1>6. 1 \in DOMAIN s
  BY <1>2, <1>3
<1>7. NoDup(Tail(s))
  <2>1. \A i, j \in DOMAIN Tail(s) : i + 1 = j + 1 => i = j
    BY <1>2
  <2>2. QED
    BY <1>4, <2>1 DEF NoDup
<1>8. \A x : In(Tail(s), x) => In(s, x) /\ x # Head(s)
  BY <1>3, <1>4, <1>6 DEF In, NoDup
<1>9. \A x : In(s, x) /\ x # Head(s) => In(Tail(s), x)
  BY <1>3, <1>5 DEF In
<1>10. In(s, Head(s))
  BY <1>3, <1>6 DEF In
<1>11. QED
  BY <1>1, <1>7, <1>8, <1>9, <1>10

-----------------------------------------------------------------------------
(* Frames *)

\* What a transfer and a reservation see of a pod and of a request.
SameHold(a, b) ==
    /\ b.cache = a.cache /\ b.running = a.running /\ b.busy = a.busy
    /\ b.sends = a.sends /\ b.receives = a.receives

\* The transfers in the air are the same.
SameMoves(w, v, h, g) ==
    /\ \A q \in Request : /\ q # g /\ v.runs[q].state = "WAITING_TRANSFER"
                             <=> q # h /\ w.runs[q].state = "WAITING_TRANSFER"
                          /\ q # h /\ w.runs[q].state = "WAITING_TRANSFER"
                                => v.runs[q].transfer = w.runs[q].transfer
    /\ DOMAIN v.copies = DOMAIN w.copies
    /\ \A i \in DOMAIN w.copies :
          LET x == w.copies[i]
              y == v.copies[i]
          IN  /\ y.active = x.active /\ y.id = x.id /\ y.source = x.source /\ y.target = x.target
              /\ y.path = x.path /\ y.start = x.start

(* Requests and pods are numbers, none of them Absent.                     *)
LEMMA RequestFacts ==
    /\ IsFiniteSet(Request) /\ Request \subseteq Nat \ {0} /\ Absent \notin Request
    /\ Absent \notin Nat /\ Absent \in Int /\ Pod \subseteq Nat /\ IsFiniteSet(Pod) /\ Absent \notin Pod
<1>1. Cardinality(Request) \in Nat
  BY SizeAssumption, FS_CardinalityType
<1>2. \A r \in Request : r \in Nat \ {0}
  BY <1>1, SimulatorAssumption
<1>3. QED
  BY <1>2, SizeAssumption, NodeAssumption DEF Absent

(* A key is the number of a request that waits, or minus that of an active *)
(* copy.                                                                   *)
LEMMA KeyFacts ==
    ASSUME NEW w \in World, NEW h, NEW k \in Keys(w, h)
    PROVE  \/ k > 0 /\ k \in Request \ {h} /\ w.runs[k].state = "WAITING_TRANSFER"
           \/ ~(k > 0) /\ k \in Int /\ -k \in DOMAIN w.copies /\ w.copies[-k].active
<1>1. \A i \in DOMAIN w.copies : i > 0
  BY LenProperties DEF World
<1>2. \A r \in Request : r > 0
  BY RequestFacts
<1>3. k \in Int
  BY DEF Keys
<1>4. \/ k \in Request \ {h} /\ w.runs[k].state = "WAITING_TRANSFER"
      \/ -k \in DOMAIN w.copies /\ w.copies[-k].active
  BY DEF Keys
<1>5. QED
  BY <1>1, <1>2, <1>3, <1>4

(* Who changes neither transfers nor copies changes no key.                *)
LEMMA KeysFrame ==
    ASSUME NEW w \in World, NEW v, NEW h, NEW g, SameMoves(w, v, h, g)
    PROVE  /\ Keys(v, g) = Keys(w, h)
           /\ \A k \in Keys(w, h) : /\ IdOf(v, k) = IdOf(w, k) /\ SourceOf(v, k) = SourceOf(w, k)
                                    /\ GoalOf(v, k) = GoalOf(w, k) /\ PathOf(v, k) = PathOf(w, k)
<1>1. Keys(v, g) = Keys(w, h)
  BY DEF SameMoves, Keys
<1>2. ASSUME NEW k \in Keys(w, h)
      PROVE  /\ IdOf(v, k) = IdOf(w, k) /\ SourceOf(v, k) = SourceOf(w, k)
             /\ GoalOf(v, k) = GoalOf(w, k) /\ PathOf(v, k) = PathOf(w, k)
  <2>1. CASE k > 0 /\ k \in Request \ {h} /\ w.runs[k].state = "WAITING_TRANSFER"
    BY <2>1 DEF SameMoves, IdOf, SourceOf, GoalOf, PathOf
  <2>2. CASE ~(k > 0) /\ -k \in DOMAIN w.copies /\ w.copies[-k].active
    BY <2>2 DEF SameMoves, IdOf, SourceOf, GoalOf, PathOf
  <2>3. QED
    BY <2>1, <2>2, KeyFacts
<1>3. QED
  BY <1>1, <1>2

(* Transfers go on when neither they nor what they hold have changed.      *)
LEMMA FlyingFrame ==
    ASSUME NEW w \in World, NEW v, NEW h, NEW g, Flying(w, h), SameMoves(w, v, h, g),
           \A p \in Pod : SameHold(w.pods[p], v.pods[p]) /\ HitOf(v, p) = HitOf(w, p)
    PROVE  Flying(v, g)
<1>1. /\ Keys(v, g) = Keys(w, h)
      /\ \A k \in Keys(w, h) : /\ IdOf(v, k) = IdOf(w, k) /\ SourceOf(v, k) = SourceOf(w, k)
                               /\ GoalOf(v, k) = GoalOf(w, k) /\ PathOf(v, k) = PathOf(w, k)
  BY KeysFrame
<1>2. ASSUME NEW k \in Keys(w, h)
      PROVE  Flown(v, k)
  <2>1. Flown(w, k) /\ SourceOf(w, k) \in Pod /\ GoalOf(w, k) \in Pod
    BY DEF Flying, Flown
  <2>2. QED
    BY <1>1, <2>1 DEF Flown, SameHold
<1>3. \A k, l \in Keys(w, h) :
          k # l => {SourceOf(v, k), GoalOf(v, k)} \cap {SourceOf(v, l), GoalOf(v, l)} = {}
  BY <1>1 DEF Flying
<1>4. ASSUME NEW p \in Pod
      PROVE  LET pod == v.pods[p]
             IN  /\ pod.busy # Absent => \E k \in Keys(w, h) : p \in {SourceOf(v, k), GoalOf(v, k)}
                 /\ pod.sends => pod.busy # Absent
                 /\ pod.receives => pod.busy # Absent
                 /\ ~pod.sends => CacheOk(pod.cache, Root, HitOf(v, p))
                 /\ ~pod.receives => DOMAIN pod.cache.temporary = {} /\ pod.cache.temporaryPages = 0
  BY SMTT(30), <1>1 DEF Flying, SameHold
<1>5. QED
  BY <1>1, <1>2, <1>3, <1>4 DEF Flying

(* Who changes neither caches nor who is served keeps Serving.             *)
LEMMA ServingFrame ==
    ASSUME NEW w, NEW v, Serving(w),
           \A p \in Pod :
              /\ SameHold(w.pods[p], v.pods[p])
              /\ w.pods[p].running # Absent =>
                    /\ v.runs[w.pods[p].running].path = w.runs[w.pods[p].running].path
                    /\ v.runs[w.pods[p].running].hit = w.runs[w.pods[p].running].hit
    PROVE  Serving(v) /\ \A p \in Pod : HitOf(v, p) = HitOf(w, p)
<1>1. QED
  BY SMTT(30) DEF Serving, SameHold, HitOf

(* An event that its handler can do with may be added.                     *)
LEMMA ScheduleOk ==
    ASSUME NEW w, NEW h, NodeInv(w, h), NEW time \in Nat, NEW kind \in Kinds \ {Copying},
           NEW id \in Request, time >= w.now, kind = "SERVICE_START" => w.runs[id].pod \in Pod,
           NEW v, v = Schedule(w, time, kind, id)
    PROVE  NodeInv(v, h) /\ Tame(w, v) /\ v = [w EXCEPT !.events = v.events]
<1> DEFINE e == [time |-> time, kind |-> kind, id |-> id]
           s == w.events
           t == Append(s, e)
<1>1. w \in World /\ s \in Seq(EventRecord) /\ e \in EventRecord
  BY RequestFacts DEF World, EventRecord, NodeInv
<1>2. e.time = time /\ e.kind = kind /\ e.id = id
  OBVIOUS
<1>3. /\ t \in Seq(EventRecord) /\ DOMAIN t = 1 .. Len(s) + 1 /\ DOMAIN s = 1 .. Len(s)
      /\ Len(s) \in Nat /\ \A i \in DOMAIN s : t[i] = s[i]
      /\ t[Len(s) + 1] = e
  <2> HIDE DEF e, s
  <2>1. QED
    BY <1>1, InAppend
<1>4. v = [w EXCEPT !.events = t]
  BY DEF Schedule
<1> HIDE DEF t, e
<1>5. /\ v \in World /\ v.events = t
      /\ v.now = w.now /\ v.pods = w.pods /\ v.runs = w.runs /\ v.gate = w.gate
      /\ v.copies = w.copies /\ v.tokens = w.tokens /\ v.refilled = w.refilled
      /\ v.replicas = w.replicas /\ v.gone = w.gone /\ v.outcome = w.outcome
  BY ZenonT(40), <1>1, <1>3, <1>4 DEF World
<1>6. \A i \in DOMAIN t : i \in DOMAIN s \/ i = Len(s) + 1
  BY <1>3
<1>7. Posted(w)
  BY DEF NodeInv
<1>8. Ready(v, e)
  BY <1>2, <1>5 DEF Ready
<1>9. Posted(v)
  <2>1. \A i \in DOMAIN t : Ready(v, t[i])
    BY <1>3, <1>5, <1>6, <1>7, <1>8 DEF Posted, Ready
  <2>2. \A i \in DOMAIN t : t[i].kind = Copying => i \in DOMAIN s
    BY <1>2, <1>3, <1>6
  <2>3. \A i, j \in DOMAIN t : t[i].kind = Copying /\ t[j].kind = Copying /\ t[i].id = t[j].id => i = j
    BY SMTT(30), <1>3, <1>7, <2>2 DEF Posted
  <2>4. QED
    BY <1>5, <2>1, <2>3 DEF Posted
<1>10. Lives(v) /\ Ticketed(v, h)
  BY <1>5 DEF NodeInv, Lives, LifeOf, Ticketed, Bound, Settled
<1>11. /\ \A p \in Pod : SameHold(w.pods[p], v.pods[p])
       /\ SameMoves(w, v, h, h)
  BY SMTT(30), <1>5 DEF SameHold, SameMoves
<1>12. Serving(v) /\ \A p \in Pod : HitOf(v, p) = HitOf(w, p)
  BY <1>5 DEF NodeInv, Serving, HitOf
<1>13. Flying(v, h)
  BY <1>1, <1>11, <1>12, FlyingFrame DEF NodeInv
<1>14. Tame(w, v)
  BY <1>5 DEF Tame, Pages
<1>15. QED
  BY <1>4, <1>5, <1>9, <1>10, <1>12, <1>13, <1>14 DEF NodeInv

(* An operation on request r, whose transfer is not on the wire, that      *)
(* moves no page and no pin.                                               *)
Touch(w, v, r) ==
    /\ v.now = w.now /\ v.copies = w.copies /\ v.replicas = w.replicas /\ v.gone = w.gone
    /\ v.tokens = w.tokens /\ v.refilled = w.refilled /\ v.events = w.events
    /\ \A q \in Request \ {r} :
          /\ v.runs[q] = w.runs[q]
          /\ In(v.gate, q) <=> In(w.gate, q)
          /\ \A p \in Pod : /\ v.pods[p].pressure[q] = w.pods[p].pressure[q]
                            /\ In(v.pods[p].queue, q) => In(w.pods[p].queue, q)
    /\ \A p \in Pod : SameHold(w.pods[p], v.pods[p])
    /\ w.runs[r].pod \in Pod => v.runs[r].pod \in Pod
    /\ v.runs[r].path = w.runs[r].path \/ w.runs[r].state = "NONE"
    /\ v.runs[r].hit = w.runs[r].hit

(* The frame of an operation on one request: what has to be shown of it    *)
(* alone.                                                                  *)
LEMMA TouchOk ==
    ASSUME NEW w, NEW r \in Request, NEW h \in {r, Absent}, NEW g \in {r, Absent},
           NodeInv(w, h), NEW v \in World, v.outcome = "running", Touch(w, v, r),
           NoDup(v.gate), LifeOf(v, r), Bound(v, r), g = Absent => Settled(v, r),
           h = r \/ w.runs[r].state # "WAITING_TRANSFER",
           g = r \/ v.runs[r].state # "WAITING_TRANSFER"
    PROVE  NodeInv(v, g) /\ Tame(w, v)
<1>1. w \in World /\ w.outcome = "running" /\ Lives(w) /\ Ticketed(w, h) /\ Flying(w, h) /\ Serving(w)
      /\ Posted(w)
  BY DEF NodeInv
<1>2. Absent \notin Request
  BY RequestFacts
<1>3. \A q \in Request \ {r} : q # h /\ q # g
  BY <1>2
<1>4. Lives(v)
  <2>1. \A q \in Request \ {r} : LifeOf(v, q)
    BY <1>1 DEF Lives, LifeOf, Touch, SameHold
  <2>2. QED
    BY <2>1 DEF Lives
<1>5. Ticketed(v, g)
  <2>1. \A q \in Request \ {r} : Bound(v, q)
    BY <1>1 DEF Ticketed, Bound, Touch
  <2>2. \A q \in Request \ {r} : Settled(v, q)
    BY <1>1, <1>3 DEF Ticketed, Settled, Touch
  <2>3. QED
    BY <2>1, <2>2 DEF Ticketed
<1>6. SameMoves(w, v, h, g)
  BY <1>3 DEF SameMoves, Touch
<1>7. ASSUME NEW p \in Pod, w.pods[p].running # Absent
      PROVE  /\ v.runs[w.pods[p].running].path = w.runs[w.pods[p].running].path
             /\ v.runs[w.pods[p].running].hit = w.runs[w.pods[p].running].hit
  <2>1. w.pods[p].running \in Request
    BY <1>1, <1>7 DEF World, PodRecord
  <2>2. w.runs[w.pods[p].running].state = "RUNNING"
    BY <1>1, <2>1 DEF Lives, LifeOf
  <2>3. QED
    BY <2>1, <2>2 DEF Touch
<1>8. \A p \in Pod : SameHold(w.pods[p], v.pods[p])
  BY DEF Touch
<1>9. Serving(v) /\ \A p \in Pod : HitOf(v, p) = HitOf(w, p)
  BY ZenonT(40), <1>1, <1>7, <1>8, ServingFrame
<1>10. Flying(v, g)
  BY <1>1, <1>6, <1>8, <1>9, FlyingFrame
<1>11. Posted(v)
  <2>1. \A q \in Request : w.runs[q].pod \in Pod => v.runs[q].pod \in Pod
    BY DEF Touch
  <2>2. QED
    BY <1>1, <2>1 DEF Posted, Ready, Touch
<1>12. Tame(w, v)
  BY <1>8 DEF Tame, Touch, Pages, SameHold
<1>13. QED
  BY <1>4, <1>5, <1>9, <1>10, <1>11, <1>12 DEF NodeInv

-----------------------------------------------------------------------------
(* A request gets a pod *)

(* The longest hit of a path, and the time its service takes.              *)
LEMMA HitFacts ==
    ASSUME NEW w \in World, NEW p \in Pod, NEW n \in Node
    PROVE  /\ Hit(w, p, n) \in Node /\ Chain[Hit(w, p, n)] \subseteq Chain[n]
           /\ Chain[Hit(w, p, n)] \subseteq Pages(w, p)
           /\ Depth(n) \in Nat /\ Depth(Hit(w, p, n)) \in Nat /\ Depth(Hit(w, p, n)) <= Depth(n)
           /\ Service(n, Hit(w, p, n)) \in Nat /\ Service(n, Hit(w, p, n)) > 0
<1> DEFINE S == w.pods[p].cache.pages
           m == LongestWithin(n, S)
<1>1. m \in Node /\ Chain[m] \subseteq Chain[n] /\ Chain[m] \subseteq S
  <2>1. m \in Node /\ Chain[m] = PagesWithin(n, S)
    BY LongestFacts
  <2>2. \A b \in PagesWithin(n, S) : b \in Chain[n] /\ Chain[b] \subseteq S
    BY DEF PagesWithin
  <2>3. \A b \in Chain[n] : b \in Chain[b]
    <3>1. Chain[n] \subseteq Block
      BY ChainFacts
    <3>2. \A b \in Block : b \in Node /\ b \in Chain[b]
      BY ChainFacts DEF Node
    <3>3. QED
      BY <3>1, <3>2
  <2>4. QED
    BY <2>1, <2>2, <2>3
<1>2. Depth(n) \in Nat /\ Depth(m) \in Nat /\ IsFiniteSet(Chain[n])
  BY <1>1, ChainFacts
<1>3. Depth(m) <= Depth(n)
  BY <1>1, <1>2, FS_Subset DEF Depth
<1>4. Service(n, m) \in Nat /\ Service(n, m) > 0
  <2>1. PageService \in Nat /\ BaseService \in Nat /\ BaseService > 0
    BY NodeAssumption
  <2>2. PageService * (Depth(n) - Depth(m)) \in Nat
    BY <2>1, <1>2, <1>3
  <2>3. QED
    BY <2>1, <2>2 DEF Service
<1>5. m = Hit(w, p, n) /\ S = Pages(w, p)
  BY DEF Hit, Pages
<1>6. QED
  BY <1>1, <1>2, <1>3, <1>4, <1>5

\* A check that a run survives.
LEMMA CheckFacts ==
    ASSUME NEW u, "outcome" \in DOMAIN u, NEW ok, NEW v, v = Check(u, ok), v.outcome = "running"
    PROVE  ok /\ v = u
<1>1. CASE ~ok
  BY <1>1 DEF Check
<1>2. CASE ok
  BY <1>2 DEF Check
<1>3. QED
  BY <1>1, <1>2

(* A pod is told to begin.                                                 *)
LEMMA StartSoonOk ==
    ASSUME NEW w, NEW h, NodeInv(w, h), NEW p \in Pod, w.pods[p].queue # <<>>,
           NEW v, v = StartSoon(w, p), v.outcome = "running"
    PROVE  NodeInv(v, h) /\ Tame(w, v)
<1> DEFINE pod == [w.pods[p] EXCEPT !.armed = TRUE]
           u == [w EXCEPT !.pods[p].armed = TRUE]
           r == Head(w.pods[p].queue)
           x == Schedule(u, w.now, "SERVICE_START", r)
<1>1. /\ w \in World /\ w.pods \in [Pod -> PodRecord] /\ w.pods[p] \in PodRecord /\ w.now \in Nat
  BY DEF World, NodeInv
<1>2. r \in Request /\ In(w.pods[p].queue, r)
  <2>1. w.pods[p].queue \in Seq(Request)
    BY <1>1 DEF PodRecord
  <2>2. /\ Len(w.pods[p].queue) \in Nat /\ DOMAIN w.pods[p].queue = 1 .. Len(w.pods[p].queue)
        /\ Len(w.pods[p].queue) # 0 /\ r = w.pods[p].queue[1] /\ r \in Request
    BY <2>1, LenProperties, EmptySeq, HeadTailProperties
  <2>3. 1 \in DOMAIN w.pods[p].queue
    BY <2>2
  <2>4. QED
    BY <2>2, <2>3 DEF In
<1>3. w.runs[r].pod \in Pod
  BY <1>2 DEF NodeInv, Lives, LifeOf
<1> HIDE DEF r
<1>4. pod \in PodRecord /\ SameHold(w.pods[p], pod) /\ pod.queue = w.pods[p].queue
      /\ pod.pressure = w.pods[p].pressure
  BY <1>1 DEF PodRecord, SameHold
<1>5. u = [w EXCEPT !.pods = [w.pods EXCEPT ![p] = pod]]
  BY <1>1 DEF World
<1> HIDE DEF pod, u
<1>6. [w.pods EXCEPT ![p] = pod] \in [Pod -> PodRecord]
  BY <1>1, <1>4
<1>7. /\ u \in World /\ u.pods = [w.pods EXCEPT ![p] = pod]
      /\ u.now = w.now /\ u.events = w.events /\ u.runs = w.runs /\ u.gate = w.gate
      /\ u.copies = w.copies /\ u.tokens = w.tokens /\ u.refilled = w.refilled
      /\ u.replicas = w.replicas /\ u.gone = w.gone /\ u.outcome = w.outcome
  BY <1>1, <1>5, <1>6 DEF World
<1>8. \A q \in Pod : /\ SameHold(w.pods[q], u.pods[q]) /\ u.pods[q].queue = w.pods[q].queue
                    /\ u.pods[q].pressure = w.pods[q].pressure
  BY <1>1, <1>4, <1>7 DEF SameHold
<1>9. Lives(u) /\ Ticketed(u, h)
  BY <1>7, <1>8 DEF NodeInv, Lives, LifeOf, Ticketed, Bound, Settled, SameHold
<1>10. SameMoves(w, u, h, h)
  BY <1>7 DEF SameMoves
<1>11. Serving(u) /\ \A q \in Pod : HitOf(u, q) = HitOf(w, q)
  <2>1. Serving(w)
    BY DEF NodeInv
  <2>2. u.runs = w.runs
    BY <1>7
  <2>3. \A q \in Pod : SameHold(w.pods[q], u.pods[q])
    BY SMTT(30), <1>8
  <2>4. Serving(u)
    BY SMTT(30), <2>1, <2>2, <2>3 DEF Serving, SameHold
  <2>5. QED
    BY <2>2, <2>3, <2>4 DEF SameHold, HitOf
<1>12. Flying(u, h)
  BY <1>1, <1>8, <1>10, <1>11, FlyingFrame DEF NodeInv
<1>13. Posted(u)
  BY <1>7 DEF NodeInv, Posted, Ready
<1>14. NodeInv(u, h) /\ Tame(w, u)
  BY <1>7, <1>8, <1>9, <1>11, <1>12, <1>13 DEF NodeInv, Tame, Pages, SameHold
<1>15. NodeInv(x, h) /\ Tame(u, x)
  <2>1. "SERVICE_START" \in Kinds \ {Copying}
    BY DEF Kinds, Copying
  <2>2. w.now >= u.now /\ u.runs[r].pod \in Pod
    BY <1>1, <1>3, <1>7
  <2>3. QED
    BY <1>1, <1>2, <1>14, <2>1, <2>2, ScheduleOk
<1>16. v = Check(x, ~w.pods[p].armed)
  BY DEF StartSoon, u, r
<1> HIDE DEF x
<1>17. v = x
  <2>1. "outcome" \in DOMAIN x
    BY <1>15 DEF NodeInv, World
  <2>2. QED
    BY <1>16, <2>1, CheckFacts
<1>18. QED
  BY <1>14, <1>15, <1>17 DEF Tame

(* A request that no ticket holds any more is put into a queue.            *)
LEMMA EnqueueOk ==
    ASSUME NEW w, NEW r \in Request, NodeInv(w, r), NEW p \in Pod,
           NEW v, v = EnqueueReady(w, r, p), v.outcome = "running",
           ~In(w.gate, r), w.runs[r].ticket.state \notin {"QUEUED", "TRANSFER_RUNNING"},
           w.runs[r].state # "NONE"
    PROVE  NodeInv(v, Absent) /\ Tame(w, v)
<1> DEFINE old == w.runs[r]
           hit == Hit(w, p, old.path)
           est == Service(old.path, hit)
           run == [old EXCEPT !.state = "READY", !.pod = p, !.owner = p, !.routed = hit,
                              !.estimate = est]
           queue == Append(w.pods[p].queue, r)
           pod == [w.pods[p] EXCEPT !.queue = queue]
           u == [w EXCEPT !.runs[r] = [@ EXCEPT !.state = "READY", !.pod = p, !.owner = p,
                                                !.routed = hit, !.estimate = est],
                          !.pods[p].queue = Append(@, r)]
           ok == old.owner = Absent /\ old.ticket.owner = Absent
           checked == Check(u, ok)
<1>1. /\ w \in World /\ old \in RunRecord /\ w.pods[p] \in PodRecord /\ w.pods \in [Pod -> PodRecord]
      /\ w.runs \in [Request -> RunRecord] /\ w.events \in Seq(EventRecord) /\ w.now \in Nat
  BY DEF World, NodeInv
<1>2. hit \in Node /\ est \in Nat
  BY <1>1, HitFacts DEF RunRecord
<1>3. p \in Int /\ r \in Nat /\ Absent \notin Pod
  BY RequestFacts
<1> HIDE DEF hit, est
<1>4. /\ run \in RunRecord
      /\ run.state = "READY" /\ run.pod = p /\ run.owner = p
      /\ run.path = old.path /\ run.hit = old.hit /\ run.ticket = old.ticket
      /\ run.arrival = old.arrival
  BY <1>1, <1>2, <1>3 DEF RunRecord, RunStates
<1>5. queue \in Seq(Request) /\ queue # <<>> /\ \A q : In(queue, q) <=> In(w.pods[p].queue, q) \/ q = r
  <2>1. w.pods[p].queue \in Seq(Request)
    BY <1>1 DEF PodRecord
  <2>2. QED
    BY <2>1, InAppend
<1> HIDE DEF queue
<1>6. /\ pod \in PodRecord /\ pod.queue = queue /\ SameHold(w.pods[p], pod)
      /\ pod.pressure = w.pods[p].pressure
  BY <1>1, <1>5 DEF PodRecord, SameHold
<1>7. u = [w EXCEPT !.runs = [w.runs EXCEPT ![r] = run], !.pods = [w.pods EXCEPT ![p] = pod]]
  BY <1>1 DEF World, queue
<1> HIDE DEF run, pod, u
<1>8. /\ u \in World /\ u.runs = [w.runs EXCEPT ![r] = run] /\ u.pods = [w.pods EXCEPT ![p] = pod]
      /\ u.now = w.now /\ u.events = w.events /\ u.gate = w.gate
      /\ u.copies = w.copies /\ u.tokens = w.tokens /\ u.refilled = w.refilled
      /\ u.replicas = w.replicas /\ u.gone = w.gone /\ u.outcome = w.outcome
  <2>1. [w.runs EXCEPT ![r] = run] \in [Request -> RunRecord]
    BY <1>1, <1>4
  <2>2. [w.pods EXCEPT ![p] = pod] \in [Pod -> PodRecord]
    BY <1>1, <1>6
  <2>3. QED
    BY <1>1, <1>7, <2>1, <2>2 DEF World
<1>9. /\ \A q \in Request \ {r} : u.runs[q] = w.runs[q]
      /\ u.runs[r] = run
      /\ \A q \in Pod : /\ SameHold(w.pods[q], u.pods[q])
                        /\ u.pods[q].pressure = w.pods[q].pressure
                        /\ q # p => u.pods[q].queue = w.pods[q].queue
      /\ u.pods[p].queue = queue
  BY <1>1, <1>4, <1>6, <1>8 DEF SameHold
<1>10. u.outcome = "running"
  BY <1>8 DEF NodeInv
<1>11. v \in {checked, StartSoon(checked, p)}
  BY DEF EnqueueReady, u, hit, est
<1>12. checked = u /\ ok
  <2> HIDE DEF ok
  <2>1. "outcome" \in DOMAIN u /\ Fields \subseteq DOMAIN u
    BY <1>8 DEF World, Fields
  <2>2. Kept(u, checked, r)
    BY <2>1, KeptCheck
  <2>3. Kept(checked, StartSoon(checked, p), r)
    BY <2>1, <2>2, KeptStart, KeptFields
  <2>4. checked.outcome = "running"
    BY <1>11, <2>3 DEF Kept, Books
  <2>5. QED
    BY <2>1, <2>4, CheckFacts
<1>13. \A q \in Pod : w.pods[q].running # r
  BY <1>3, <1>12 DEF NodeInv, Lives, LifeOf
<1>14. Touch(w, u, r)
  <2>1. \A q \in Request \ {r}, x \in Pod : In(u.pods[x].queue, q) => In(w.pods[x].queue, q)
    BY <1>5, <1>9
  <2>2. QED
    BY <1>4, <1>8, <1>9, <2>1 DEF Touch
<1>15. LifeOf(u, r)
  <2>1. old.path \in Block /\ old.arrival <= u.now
    BY <1>8 DEF NodeInv, Lives, LifeOf
  <2>2. QED
    BY <1>3, <1>4, <1>9, <1>13, <2>1 DEF LifeOf, SameHold
<1>16. NoDup(u.gate) /\ ~In(u.gate, r)
  BY <1>8 DEF NodeInv, Ticketed
<1>17. Bound(u, r)
  BY <1>4, <1>9, <1>16 DEF NodeInv, Ticketed, Bound
<1>18. Settled(u, r)
  BY <1>4, <1>9, <1>12, <1>16 DEF Settled
<1>19. NodeInv(u, Absent) /\ Tame(w, u)
  <2>1. u.runs[r].state # "WAITING_TRANSFER"
    BY <1>4, <1>9
  <2>2. QED
    BY <1>8, <1>10, <1>14, <1>15, <1>16, <1>17, <1>18, <2>1, TouchOk
<1>20. CASE v = checked
  BY <1>12, <1>19, <1>20
<1>21. CASE v = StartSoon(checked, p)
  <2>1. NodeInv(v, Absent) /\ Tame(u, v)
    BY <1>5, <1>9, <1>12, <1>19, <1>21, StartSoonOk
  <2>2. QED
    BY <1>19, <2>1 DEF Tame
<1>22. QED
  BY <1>11, <1>20, <1>21

-----------------------------------------------------------------------------
(* The first of a set by its keys *)

\* Two keys differ at a first place.
LEMMA BeforeTotal ==
    ASSUME NEW n \in Nat, NEW x \in [1 .. n -> Int], NEW y \in [1 .. n -> Int], x # y
    PROVE  Before(x, y) \/ Before(y, x)
<1> DEFINE D == {i \in Nat : i \in 1 .. n /\ x[i] # y[i]}
<1>1. D # {}
  <2>1. x = [i \in 1 .. n |-> x[i]] /\ y = [i \in 1 .. n |-> y[i]]
    OBVIOUS
  <2>2. PICK i \in 1 .. n : x[i] # y[i]
    BY <2>1
  <2>3. i \in D
    BY <2>2
  <2>4. QED
    BY <2>3
<1>2. PICK i \in D : \A j \in D : i <= j
  BY <1>1, LeastNat
<1>3. i \in 1 .. n /\ x[i] # y[i] /\ x[i] \in Int /\ y[i] \in Int
  BY <1>2
<1>4. \A j \in 1 .. i - 1 : x[j] = y[j]
  BY <1>2, <1>3
<1>5. DOMAIN x = 1 .. n /\ DOMAIN y = 1 .. n
  OBVIOUS
<1>6. QED
  BY SMTT(30), <1>3, <1>4, <1>5 DEF Before

(* The lexicographic order is transitive.                                  *)
LEMMA BeforeTransitive ==
    ASSUME NEW n \in Nat, NEW x \in [1 .. n -> Int], NEW y \in [1 .. n -> Int],
           NEW z \in [1 .. n -> Int], Before(x, y), Before(y, z)
    PROVE  Before(x, z)
<1>1. PICK i \in 1 .. n : x[i] < y[i] /\ \A k \in 1 .. i - 1 : x[k] = y[k]
  BY DEF Before
<1>2. PICK j \in 1 .. n : y[j] < z[j] /\ \A k \in 1 .. j - 1 : y[k] = z[k]
  BY DEF Before
<1>3. \A k \in 1 .. n : x[k] \in Int /\ y[k] \in Int /\ z[k] \in Int
  OBVIOUS
<1>4. DOMAIN x = 1 .. n
  OBVIOUS
<1>5. CASE i < j
  <2>1. i \in 1 .. j - 1 /\ \A k \in 1 .. i - 1 : k \in 1 .. j - 1
    BY <1>5
  <2>2. x[i] < z[i] /\ \A k \in 1 .. i - 1 : x[k] = z[k]
    BY <1>1, <1>2, <2>1
  <2>3. QED
    BY <1>4, <2>2 DEF Before
<1>6. CASE j < i
  <2>1. j \in 1 .. i - 1 /\ \A k \in 1 .. j - 1 : k \in 1 .. i - 1
    BY <1>6
  <2>2. x[j] < z[j] /\ \A k \in 1 .. j - 1 : x[k] = z[k]
    BY <1>1, <1>2, <2>1
  <2>3. QED
    BY <1>4, <2>2 DEF Before
<1>7. CASE i = j
  <2>1. x[i] < z[i]
    BY <1>1, <1>2, <1>3, <1>7
  <2>2. QED
    BY <1>1, <1>2, <1>4, <1>7, <2>1 DEF Before
<1>8. QED
  BY <1>5, <1>6, <1>7

\* K gives each member of S a key of n numbers, and no two the same.
Keyed(S, n, K) ==
    /\ n \in Nat /\ K \in [S -> [1 .. n -> Int]]
    /\ \A x, y \in S : K[x] = K[y] => x = y

(* Among finitely many different keys one is before all others.            *)
LEMMA BestExists ==
    ASSUME NEW S, IsFiniteSet(S), S # {}, NEW n, NEW K, Keyed(S, n, K)
    PROVE  \E x \in S : \A y \in S \ {x} : Before(K[x], K[y])
<1> DEFINE R == {e \in S \X S : Before(K[e[1]], K[e[2]])}
<1>1. \A x, y \in S : <<x, y>> \in R <=> Before(K[x], K[y])
  OBVIOUS
<1> HIDE DEF R
<1>2. n \in Nat /\ \A x \in S : K[x] \in [1 .. n -> Int]
  BY DEF Keyed
<1>3. \A x, y \in S : x # y => <<x, y>> \in R \/ <<y, x>> \in R
  <2>1. TAKE x, y \in S
  <2>2. SUFFICES ASSUME x # y PROVE Before(K[x], K[y]) \/ Before(K[y], K[x])
    BY <1>1
  <2>3. K[x] # K[y]
    BY <2>2 DEF Keyed
  <2>4. QED
    BY <1>2, <2>3, BeforeTotal
<1>4. \A x, y, z \in S : <<x, y>> \in R /\ <<y, z>> \in R => <<x, z>> \in R
  <2>1. TAKE x, y, z \in S
  <2>2. SUFFICES ASSUME Before(K[x], K[y]), Before(K[y], K[z]) PROVE Before(K[x], K[z])
    BY <1>1
  <2>3. K[x] \in [1 .. n -> Int] /\ K[y] \in [1 .. n -> Int] /\ K[z] \in [1 .. n -> Int]
    BY <1>2
  <2>4. QED
    BY <1>2, <2>2, <2>3, BeforeTransitive
<1>5. PICK m \in S : \A x \in S \ {m} : <<m, x>> \in R
  BY <1>3, <1>4, FirstExists
<1>6. QED
  BY <1>1, <1>5

-----------------------------------------------------------------------------
(* Routes lead to pods *)

(* A load is a number.                                                     *)
LEMMA LoadType ==
    ASSUME NEW w \in World, NEW p \in Pod
    PROVE  Load(w, p) \in Int
<1>1. w.pods[p] \in PodRecord /\ w.now \in Int /\ w.runs \in [Request -> RunRecord]
  BY DEF World
<1>2. w.pods[p].until - w.now \in Int
  BY SMTT(30), <1>1 DEF PodRecord
<1>3. SumFunction([r \in Range(w.pods[p].queue) |-> w.runs[r].estimate]) \in Nat
  <2> DEFINE S == Range(w.pods[p].queue)
             F == [r \in S |-> w.runs[r].estimate]
  <2>1. S \subseteq Request
    BY SMTT(30), <1>1, ElementOfSeq DEF PodRecord, Range
  <2>2. IsFiniteSet(S)
    BY <2>1, SizeAssumption, FS_Subset
  <2>3. \A r \in S : F[r] \in Nat
    BY <1>1, <2>1 DEF RunRecord
  <2>4. DOMAIN F = S
    OBVIOUS
  <2> HIDE DEF S, F
  <2>5. SumFunctionOnSet(F, S) \in Nat
    BY <2>2, <2>3, SumType
  <2>6. QED
    BY <2>4, <2>5 DEF SumFunction, F, S
<1>4. SumFunction(w.pods[p].pressure) \in Nat
  <2> DEFINE F == w.pods[p].pressure
  <2>1. F \in [Request -> Nat]
    BY <1>1 DEF PodRecord
  <2>2. IsFiniteSet(Request) /\ \A r \in Request : F[r] \in Nat
    BY <2>1, SizeAssumption
  <2>3. DOMAIN F = Request
    BY <2>1
  <2> HIDE DEF F
  <2>4. SumFunctionOnSet(F, Request) \in Nat
    BY <2>2, SumType
  <2>5. QED
    BY <2>3, <2>4 DEF SumFunction, F
<1>5. QED
  BY <1>2, <1>3, <1>4 DEF Load

(* A hit is a path.                                                        *)
LEMMA HitType ==
    ASSUME NEW w, NEW p, NEW n \in Node
    PROVE  Hit(w, p, n) \in Node /\ Depth(Hit(w, p, n)) \in Nat
<1>1. QED
  BY LongestFacts, ChainFacts DEF Hit

(* The affine pod is a pod.                                                *)
LEMMA AffinityIn ==
    ASSUME NEW w \in World, NEW n \in Node
    PROVE  Affinity(w, n) \in Pod
<1> DEFINE K == [p \in Pod |-> <<-Depth(Hit(w, p, n)), Load(w, p), p>>]
<1>1. \A p \in Pod : -Depth(Hit(w, p, n)) \in Int /\ Load(w, p) \in Int /\ p \in Int
  BY HitType, LoadType, RequestFacts
<1>2. K \in [Pod -> [1 .. 3 -> Int]]
  BY <1>1
<1>3. \A x, y \in Pod : K[x] = K[y] => x = y
  OBVIOUS
<1>4. IsFiniteSet(Pod) /\ Pod # {}
  BY NodeAssumption, FS_EmptySet
<1>5. \A p \in Pod : K[p] = <<-Depth(Hit(w, p, n)), Load(w, p), p>>
  OBVIOUS
<1> HIDE DEF K
<1>6. \E x \in Pod : \A y \in Pod \ {x} : Before(K[x], K[y])
  BY <1>2, <1>3, <1>4, BestExists DEF Keyed
<1>7. QED
  BY <1>5, <1>6 DEF Affinity, Best

(* The least loaded of some pods is one of them.                           *)
LEMMA LeastOf ==
    ASSUME NEW w \in World, NEW S, S \subseteq Pod, S # {}
    PROVE  Best(S, LAMBDA p : <<Load(w, p), p>>) \in S
<1> DEFINE K == [p \in S |-> <<Load(w, p), p>>]
<1>1. \A p \in S : Load(w, p) \in Int /\ p \in Int
  BY LoadType, RequestFacts
<1>2. K \in [S -> [1 .. 2 -> Int]]
  BY <1>1
<1>3. \A x, y \in S : K[x] = K[y] => x = y
  OBVIOUS
<1>4. IsFiniteSet(S)
  BY NodeAssumption, FS_Subset
<1>5. \A p \in S : K[p] = <<Load(w, p), p>>
  OBVIOUS
<1> HIDE DEF K
<1>6. \E x \in S : \A y \in S \ {x} : Before(K[x], K[y])
  BY <1>2, <1>3, <1>4, BestExists DEF Keyed
<1>7. QED
  BY <1>5, <1>6 DEF Best

(* The best target among some pods is one of them.                         *)
LEMMA TargetIn ==
    ASSUME NEW w \in World, NEW n \in Node, NEW S, S \subseteq Pod, S # {}
    PROVE  Best(S, LAMBDA p : <<Load(w, p), -Depth(Hit(w, p, n)), p>>) \in S
<1> DEFINE K == [p \in S |-> <<Load(w, p), -Depth(Hit(w, p, n)), p>>]
<1>1. \A p \in S : -Depth(Hit(w, p, n)) \in Int /\ Load(w, p) \in Int /\ p \in Int
  BY HitType, LoadType, RequestFacts
<1>2. K \in [S -> [1 .. 3 -> Int]]
  BY <1>1
<1>3. \A x, y \in S : K[x] = K[y] => x = y
  OBVIOUS
<1>4. IsFiniteSet(S)
  BY NodeAssumption, FS_Subset
<1>5. \A p \in S : K[p] = <<Load(w, p), -Depth(Hit(w, p, n)), p>>
  OBVIOUS
<1> HIDE DEF K
<1>6. \E x \in S : \A y \in S \ {x} : Before(K[x], K[y])
  BY <1>2, <1>3, <1>4, BestExists DEF Keyed
<1>7. QED
  BY ZenonT(40), <1>5, <1>6 DEF Best

(* The routes lead to pods.                                                *)
LEMMA RoutesIn ==
    ASSUME NEW w \in World, NEW n \in Node, NEW s \in Pod
    PROVE  Least(w) \in Pod /\ BestTarget(w, n, s) \in Pod \ {s} /\ TargetOf(w, n, s) \in Pod
<1>1. Pod # {} /\ Pod \ {s} # {}
  <2>1. ~(Pod \subseteq {s})
    <3>1. IsFiniteSet({s}) /\ Cardinality({s}) = 1
      BY FS_Singleton
    <3>2. Cardinality(Pod) \in Nat /\ Cardinality(Pod) >= 2
      BY NodeAssumption, FS_CardinalityType
    <3>3. Pod \subseteq {s} => Cardinality(Pod) <= Cardinality({s})
      BY <3>1, FS_Subset
    <3>4. QED
      BY <3>1, <3>2, <3>3
  <2>2. QED
    BY <2>1
<1>2. Least(w) \in Pod
  BY Zenon, <1>1, LeastOf DEF Least
<1>3. BestTarget(w, n, s) \in Pod \ {s}
  <2>1. Pod \ {s} \subseteq Pod
    OBVIOUS
  <2>2. QED
    BY Zenon, <1>1, <2>1, TargetIn DEF BestTarget
<1>4. QED
  BY <1>2, <1>3 DEF TargetOf

(* What can be transferred is a prefix of the path that the source has.    *)
LEMMA TransferableIn ==
    ASSUME NEW w, NEW s, NEW n \in Node
    PROVE  LET m == Transferable(w, s, n)
           IN  /\ m \in Node /\ Depth(m) \in Nat /\ Chain[m] \subseteq Chain[n]
               /\ s \in Pod => Chain[m] \subseteq Pages(w, s)
<1> DEFINE h == Hit(w, s, n)
           m == LongestWithin(h, FullPage)
<1>1. h \in Node /\ Chain[h] = PagesWithin(n, w.pods[s].cache.pages) /\ Chain[h] \subseteq Chain[n]
  BY LongestFacts DEF Hit
<1>2. m \in Node /\ Chain[m] \subseteq Chain[h]
  BY <1>1, LongestFacts
<1>3. Chain[h] \subseteq Pages(w, s)
  <2>1. \A b \in Chain[h] : b \in Chain[b]
    BY <1>1, ChainFacts DEF Node
  <2>2. QED
    BY <1>1, <2>1 DEF PagesWithin, Pages
<1>4. QED
  BY <1>1, <1>2, <1>3, ChainFacts DEF Transferable, FullPagePrefix

-----------------------------------------------------------------------------
(* Notes on a request *)

Quiet(a, b) ==
    /\ b.state = a.state /\ b.owner = a.owner /\ b.pod = a.pod /\ b.path = a.path /\ b.hit = a.hit
    /\ b.arrival = a.arrival
    /\ b.transfer = a.transfer
    /\ b.ticket.owner = a.ticket.owner /\ b.ticket.id = a.ticket.id
    /\ b.ticket.source = a.ticket.source /\ b.ticket.target = a.ticket.target
    /\ b.ticket.path = a.ticket.path

\* v is w with request r and the counters as given.
Noted(w, v, r, run, stats) == v = [w EXCEPT !.runs = [w.runs EXCEPT ![r] = run], !.stats = stats]

(* A note on request r, and in the counters, disturbs nothing.             *)
LEMMA NoteOk ==
    ASSUME NEW w, NEW r \in Request, NEW h \in {r, Absent}, NodeInv(w, h),
           NEW run \in RunRecord, Quiet(w.runs[r], run),
           h = r \/ run.ticket.state = w.runs[r].ticket.state,
           NEW stats \in StatsRecord,
           NEW v, Noted(w, v, r, run, stats)
    PROVE  NodeInv(v, h) /\ Tame(w, v) /\ v.gate = w.gate /\ v.pods = w.pods /\ v.runs[r] = run
           /\ v.nextTransfer = w.nextTransfer /\ v.nextTicket = w.nextTicket
<1>1. w \in World /\ w.runs \in [Request -> RunRecord] /\ w.outcome = "running"
  BY DEF NodeInv, World
<1>2. [w.runs EXCEPT ![r] = run] \in [Request -> RunRecord]
  BY <1>1
<1>3. /\ v \in World /\ v.runs = [w.runs EXCEPT ![r] = run] /\ v.pods = w.pods
      /\ v.now = w.now /\ v.events = w.events /\ v.gate = w.gate
      /\ v.copies = w.copies /\ v.tokens = w.tokens /\ v.refilled = w.refilled
      /\ v.replicas = w.replicas /\ v.gone = w.gone /\ v.outcome = w.outcome
      /\ v.nextTransfer = w.nextTransfer /\ v.nextTicket = w.nextTicket
  BY <1>1, <1>2 DEF World, Noted
<1>4. v.runs[r] = run /\ \A q \in Request \ {r} : v.runs[q] = w.runs[q]
  BY <1>1, <1>3
<1>5. Lives(v)
  BY <1>3, <1>4 DEF NodeInv, Lives, LifeOf, Quiet
<1>6. Ticketed(v, h)
  <2>1. \A q \in Request : Bound(v, q)
    BY <1>3, <1>4 DEF NodeInv, Ticketed, Bound, Quiet
  <2>2. \A q \in Request \ {h} : Settled(v, q)
    BY <1>3, <1>4 DEF NodeInv, Ticketed, Settled, Quiet
  <2>3. QED
    BY <1>3, <2>1, <2>2 DEF NodeInv, Ticketed
<1>7. SameMoves(w, v, h, h)
  BY <1>3, <1>4 DEF SameMoves, Quiet
<1>8. \A p \in Pod : SameHold(w.pods[p], v.pods[p])
  BY <1>3 DEF SameHold
<1>9. ASSUME NEW p \in Pod, w.pods[p].running # Absent
      PROVE  /\ v.runs[w.pods[p].running].path = w.runs[w.pods[p].running].path
             /\ v.runs[w.pods[p].running].hit = w.runs[w.pods[p].running].hit
  <2>1. w.pods[p].running \in Request
    BY <1>1, <1>9 DEF World, PodRecord
  <2>2. QED
    BY <1>4, <2>1 DEF Quiet
<1>10. Serving(w) /\ Flying(w, h)
  BY DEF NodeInv
<1>11. Serving(v) /\ \A p \in Pod : HitOf(v, p) = HitOf(w, p)
  BY <1>8, <1>9, <1>10, ServingFrame
<1>12. Flying(v, h)
  BY <1>1, <1>7, <1>8, <1>10, <1>11, FlyingFrame
<1>13. Posted(v)
  <2>1. \A q \in Request : v.runs[q].pod = w.runs[q].pod
    BY <1>4 DEF Quiet
  <2>2. QED
    BY <1>3, <2>1 DEF NodeInv, Posted, Ready
<1>14. Tame(w, v)
  BY <1>3 DEF Tame, Pages
<1>15. QED
  BY <1>1, <1>3, <1>4, <1>5, <1>6, <1>11, <1>12, <1>13, <1>14 DEF NodeInv

\* What is known of the parts of the loop.
LEMMA Parts ==
    ASSUME NEW w, NEW h, NodeInv(w, h)
    PROVE  /\ w \in World /\ w.runs \in [Request -> RunRecord] /\ w.pods \in [Pod -> PodRecord]
           /\ w.stats \in StatsRecord /\ w.outcome = "running" /\ w.gate \in Seq(Request)
           /\ \A r \in Request : /\ w.runs[r] \in RunRecord /\ w.runs[r].ticket \in TicketRecord
                                 /\ w.runs[r].path \in Node /\ w.runs[r].transfer \in TransferRecord
                                 /\ w.runs[r].ticket.path \in Node /\ w.runs[r].transfer.path \in Node
                                 /\ w.runs[r].hit \in Node
           /\ \A p \in Pod : w.pods[p] \in PodRecord
           /\ w.now \in Nat /\ w.nextTransfer \in Nat /\ w.nextTicket \in Nat
           /\ Fields \subseteq DOMAIN w
<1>1. /\ w \in World /\ w.runs \in [Request -> RunRecord] /\ w.pods \in [Pod -> PodRecord]
      /\ w.stats \in StatsRecord /\ w.outcome = "running" /\ w.gate \in Seq(Request)
      /\ w.now \in Nat /\ w.nextTransfer \in Nat /\ w.nextTicket \in Nat
  BY DEF NodeInv, World
<1>2. Fields \subseteq DOMAIN w
  BY <1>1 DEF World, Fields
<1>3. ASSUME NEW r \in Request
      PROVE  /\ w.runs[r] \in RunRecord /\ w.runs[r].ticket \in TicketRecord
             /\ w.runs[r].path \in Node /\ w.runs[r].transfer \in TransferRecord
             /\ w.runs[r].hit \in Node
  BY <1>1 DEF RunRecord
<1>4. ASSUME NEW r \in Request
      PROVE  w.runs[r].ticket.path \in Node /\ w.runs[r].transfer.path \in Node
  BY <1>3 DEF TicketRecord, TransferRecord
<1>5. QED
  BY <1>1, <1>2, <1>3, <1>4

(* Counting keeps the invariant.                                           *)
LEMMA CountOk ==
    ASSUME NEW w, NEW r \in Request, NEW h \in {r, Absent}, NodeInv(w, h),
           NEW f \in {"timedOut", "fallbacks", "replans"}, NEW v, v = Count(w, f, 1)
    PROVE  NodeInv(v, h) /\ Tame(w, v) /\ v.gate = w.gate /\ v.pods = w.pods /\ v.runs = w.runs
<1> DEFINE stats == [w.stats EXCEPT ![f] = @ + 1]
<1>1. w \in World /\ w.runs \in [Request -> RunRecord] /\ w.runs[r] \in RunRecord /\ w.stats \in StatsRecord
  BY Parts
<1>2. stats \in StatsRecord
  BY <1>1 DEF StatsRecord
<1>3. w.runs = [w.runs EXCEPT ![r] = w.runs[r]]
  BY <1>1
<1>4. v = [w EXCEPT !.stats = stats]
  BY DEF Count
<1> HIDE DEF stats
<1>5. Noted(w, v, r, w.runs[r], stats)
  BY <1>1, <1>3, <1>4 DEF World, Noted
<1>6. Quiet(w.runs[r], w.runs[r])
  BY DEF Quiet
<1>7. v.runs = w.runs
  BY <1>1, <1>4 DEF World
<1>8. QED
  BY <1>1, <1>2, <1>5, <1>6, <1>7, NoteOk

Jotted(w, v, r, run) == v = [w EXCEPT !.runs[r] = run]

(* A note in one field of a request.                                       *)
LEMMA RunNoteOk ==
    ASSUME NEW w, NEW r \in Request, NEW h \in {r, Absent}, NodeInv(w, h),
           NEW run \in RunRecord, Quiet(w.runs[r], run),
           h = r \/ run.ticket.state = w.runs[r].ticket.state,
           NEW v, Jotted(w, v, r, run)
    PROVE  NodeInv(v, h) /\ Tame(w, v) /\ v.gate = w.gate /\ v.pods = w.pods /\ v.runs[r] = run
           /\ v.nextTransfer = w.nextTransfer /\ v.nextTicket = w.nextTicket
<1>1. w \in World /\ w.stats \in StatsRecord
  BY Parts
<1>2. Noted(w, v, r, run, w.stats)
  BY <1>1 DEF World, Noted, Jotted
<1>3. QED
  BY <1>1, <1>2, NoteOk

(* Noting that a ticket was blocked keeps the invariant.                   *)
LEMMA BlockedOk ==
    ASSUME NEW w, NEW r \in Request, NEW h \in {r, Absent}, NodeInv(w, h)
    PROVE  LET v == Blocked(w, r) IN NodeInv(v, h) /\ Tame(w, v)
<1> DEFINE run == [w.runs[r] EXCEPT !.blocked = TRUE]
           v == [w EXCEPT !.runs[r] = run]
<1>1. w \in World /\ w.runs[r] \in RunRecord
  BY Parts
<1>2. run \in RunRecord /\ Quiet(w.runs[r], run) /\ run.ticket.state = w.runs[r].ticket.state
  BY <1>1 DEF RunRecord, Quiet
<1>3. v = Blocked(w, r) /\ Jotted(w, v, r, run)
  BY <1>1 DEF Blocked, World, Jotted
<1> HIDE DEF run, v
<1>4. QED
  BY <1>2, <1>3, RunNoteOk

(* The plan of a ticket is counted as another one.                         *)
LEMMA ReplannedOk ==
    ASSUME NEW w, NEW r \in Request, NEW h \in {r, Absent}, NodeInv(w, h)
    PROVE  LET v == Replanned(w, r)
           IN  /\ NodeInv(v, h) /\ Tame(w, v) /\ v.gate = w.gate /\ v.pods = w.pods
               /\ Quiet(w.runs[r], v.runs[r]) /\ v.runs[r].ticket = w.runs[r].ticket
<1> DEFINE run == [w.runs[r] EXCEPT !.replans = @ + 1]
           u == [w EXCEPT !.runs[r] = run]
           v == Count(u, "replans", 1)
<1>1. w \in World /\ w.runs[r] \in RunRecord
  BY Parts
<1>2. run \in RunRecord /\ Quiet(w.runs[r], run) /\ run.ticket = w.runs[r].ticket
  BY <1>1 DEF RunRecord, Quiet
<1>3. v = Replanned(w, r) /\ Jotted(w, u, r, run)
  BY <1>1 DEF Replanned, World, Jotted
<1> HIDE DEF run, u, v
<1>4. NodeInv(u, h) /\ Tame(w, u) /\ u.gate = w.gate /\ u.pods = w.pods /\ u.runs[r] = run
  BY <1>2, <1>3, RunNoteOk
<1>5. NodeInv(v, h) /\ Tame(u, v) /\ v.gate = u.gate /\ v.pods = u.pods /\ v.runs = u.runs
  BY <1>4, CountOk DEF v
<1>6. QED
  BY <1>2, <1>3, <1>4, <1>5 DEF Tame

(* A request without a ticket in the gate weighs on nobody.                *)
LEMMA DropOk ==
    ASSUME NEW w, NEW r \in Request, NEW h \in {r, Absent}, NodeInv(w, h),
           h = r \/ w.runs[r].state # "WAITING_TRANSFER"
    PROVE  LET v == DropPressure(w, r)
           IN  /\ NodeInv(v, r) /\ Tame(w, v) /\ v.gate = w.gate
               /\ v.runs[r] = [w.runs[r] EXCEPT !.ticket.owner = Absent]
<1> DEFINE run == [w.runs[r] EXCEPT !.ticket.owner = Absent]
           p == w.runs[r].ticket.owner
           pod == [w.pods[p] EXCEPT !.pressure[r] = 0]
           u == [w EXCEPT !.pods[p].pressure[r] = 0, !.runs[r].ticket.owner = Absent]
           v == DropPressure(w, r)
<1>1. /\ w \in World /\ w.runs \in [Request -> RunRecord] /\ w.pods \in [Pod -> PodRecord]
      /\ w.runs[r] \in RunRecord /\ w.runs[r].ticket \in TicketRecord /\ w.outcome = "running"
  BY Parts
<1>2. /\ run \in RunRecord /\ run.state = w.runs[r].state /\ run.owner = w.runs[r].owner
      /\ run.pod = w.runs[r].pod /\ run.path = w.runs[r].path /\ run.hit = w.runs[r].hit
      /\ run.transfer = w.runs[r].transfer /\ run.ticket.owner = Absent
      /\ run.ticket.id = w.runs[r].ticket.id /\ run.ticket.source = w.runs[r].ticket.source
      /\ run.ticket.target = w.runs[r].ticket.target /\ run.arrival = w.runs[r].arrival
  BY <1>1, RequestFacts DEF RunRecord, TicketRecord
<1> HIDE DEF run
<1>3. Ticketed(w, h) /\ Lives(w) /\ NoDup(w.gate)
  BY DEF NodeInv, Ticketed
<1>4. p = Absent \/ p \in Pod
  BY <1>3 DEF Ticketed, Bound
<1>5. CASE p = Absent
  <2>1. v = w /\ w.runs[r] = run
    BY <1>1, <1>5 DEF DropPressure, RunRecord, TicketRecord, run
  <2>2. Touch(w, w, r)
    BY DEF Touch, SameHold
  <2>3. LifeOf(w, r) /\ Bound(w, r)
    BY <1>3 DEF Lives, Ticketed
  <2>4. NodeInv(w, r) /\ Tame(w, w)
    BY <1>1, <1>3, <2>2, <2>3, TouchOk, RequestFacts
  <2>5. QED
    BY <2>1, <2>4 DEF run
<1>6. CASE p \in Pod
  <2>1. v = u
    BY SMTT(30), <1>6, RequestFacts DEF DropPressure
  <2>2. w.pods[p] \in PodRecord /\ w.pods[p].pressure \in [Request -> Nat]
    BY SMTT(30), <1>1, <1>6 DEF PodRecord
  <2>3. /\ pod \in PodRecord /\ SameHold(w.pods[p], pod) /\ pod.queue = w.pods[p].queue
        /\ pod.pressure = [w.pods[p].pressure EXCEPT ![r] = 0]
    BY Zenon, <2>2 DEF PodRecord, SameHold
  <2>4. u = [w EXCEPT !.runs = [w.runs EXCEPT ![r] = run], !.pods = [w.pods EXCEPT ![p] = pod]]
    BY <1>1 DEF World, run
  <2> HIDE DEF u, pod, p
  <2>5. [w.runs EXCEPT ![r] = run] \in [Request -> RunRecord]
    BY <1>1, <1>2
  <2>6. [w.pods EXCEPT ![p] = pod] \in [Pod -> PodRecord]
    BY <1>1, <2>3
  <2>7. /\ u \in World /\ u.runs = [w.runs EXCEPT ![r] = run] /\ u.pods = [w.pods EXCEPT ![p] = pod]
        /\ u.now = w.now /\ u.events = w.events /\ u.gate = w.gate
        /\ u.copies = w.copies /\ u.tokens = w.tokens /\ u.refilled = w.refilled
        /\ u.replicas = w.replicas /\ u.gone = w.gone /\ u.outcome = w.outcome
    BY <1>1, <2>4, <2>5, <2>6 DEF World
  <2>8. /\ \A q \in Request \ {r} : u.runs[q] = w.runs[q]
        /\ u.runs[r] = run
        /\ \A q \in Pod : SameHold(w.pods[q], u.pods[q]) /\ u.pods[q].queue = w.pods[q].queue
    BY <1>1, <1>2, <2>3, <2>7 DEF SameHold
  <2>9. \A q \in Pod : \A x \in Request :
            u.pods[q].pressure[x] = IF q = p /\ x = r THEN 0 ELSE w.pods[q].pressure[x]
    BY <1>1, <1>6, <2>2, <2>3, <2>7
  <2>10. Touch(w, u, r)
    <3>1. \A x \in Request \ {r} : \A q \in Pod : u.pods[q].pressure[x] = w.pods[q].pressure[x]
      BY <2>9
    <3>2. QED
      BY <1>2, <2>7, <2>8, <3>1 DEF Touch
  <2>11. LifeOf(u, r)
    BY <1>2, <1>3, <2>7, <2>8 DEF Lives, LifeOf, SameHold
  <2>12. Bound(u, r)
    <3>1. \A q \in Pod : ~(u.pods[q].pressure[r] > 0) /\ q # Absent
      BY <1>3, <2>9, RequestFacts DEF Ticketed, Bound, p
    <3>2. QED
      BY <1>2, <1>3, <2>7, <2>8, <3>1 DEF Ticketed, Bound
  <2>13. NodeInv(u, r) /\ Tame(w, u)
    BY <1>1, <1>3, <2>7, <2>10, <2>11, <2>12, TouchOk, RequestFacts
  <2>14. QED
    BY <2>1, <2>7, <2>8, <2>13 DEF run
<1>7. QED
  BY <1>4, <1>5, <1>6

-----------------------------------------------------------------------------
(* Tickets *)

\* v is w with other requests and another gate.
Queued(w, v, runs, gate) == v = [w EXCEPT !.runs = runs, !.gate = gate]

(* A ticket that leaves the gate is the one being handled.                 *)
LEMMA LeaveOk ==
    ASSUME NEW w, NEW r \in Request, NodeInv(w, r), In(w.gate, r), NEW state \in TicketStates
    PROVE  LET v == LeaveGate(w, r, state)
           IN  /\ NodeInv(v, r) /\ Tame(w, v) /\ ~In(v.gate, r)
               /\ v.runs[r] = [w.runs[r] EXCEPT !.ticket.state = state]
<1> DEFINE run == [w.runs[r] EXCEPT !.ticket.state = state]
           i == CHOOSE k \in DOMAIN w.gate : w.gate[k] = r
           gate == Sequence!RemoveAt(w.gate, i)
           runs == [w.runs EXCEPT ![r] = run]
           v == LeaveGate(w, r, state)
<1>1. /\ w \in World /\ w.runs \in [Request -> RunRecord] /\ w.runs[r] \in RunRecord
      /\ w.runs[r].ticket \in TicketRecord /\ w.outcome = "running" /\ w.gate \in Seq(Request)
  BY Parts
<1>2. i \in DOMAIN w.gate /\ w.gate[i] = r
  BY DEF In
<1>3. Ticketed(w, r) /\ Lives(w) /\ NoDup(w.gate)
  BY DEF NodeInv, Ticketed
<1> HIDE DEF i
<1>4. gate \in Seq(Request) /\ NoDup(gate) /\ ~In(gate, r) /\ \A q : q # r => (In(gate, q) <=> In(w.gate, q))
  BY <1>1, <1>2, <1>3, InRemove
<1>5. v = [w EXCEPT !.gate = gate, !.runs[r].ticket.state = state]
  BY DEF LeaveGate, i
<1> HIDE DEF gate
<1>6. run \in RunRecord /\ Quiet(w.runs[r], run)
  BY <1>1 DEF RunRecord, TicketRecord, Quiet
<1>7. runs \in [Request -> RunRecord] /\ runs[r] = run /\ \A q \in Request \ {r} : runs[q] = w.runs[q]
  BY <1>1, <1>6
<1>8. Queued(w, v, runs, gate)
  BY <1>1, <1>5 DEF World, Queued
<1> HIDE DEF v, run, runs
<1>9. /\ v \in World /\ v.runs = runs /\ v.pods = w.pods /\ v.gate = gate
      /\ v.now = w.now /\ v.events = w.events
      /\ v.copies = w.copies /\ v.tokens = w.tokens /\ v.refilled = w.refilled
      /\ v.replicas = w.replicas /\ v.gone = w.gone /\ v.outcome = w.outcome
  BY <1>1, <1>4, <1>7, <1>8 DEF World, Queued
<1>10. Touch(w, v, r)
  BY <1>4, <1>6, <1>7, <1>9 DEF Touch, SameHold, Quiet
<1>11. LifeOf(v, r)
  BY <1>3, <1>6, <1>7, <1>9 DEF Lives, LifeOf, Quiet
<1>12. Bound(v, r)
  BY <1>3, <1>4, <1>6, <1>7, <1>9 DEF Ticketed, Bound, Quiet
<1>13. NodeInv(v, r) /\ Tame(w, v)
  BY <1>1, <1>4, <1>9, <1>10, <1>11, <1>12, TouchOk, RequestFacts
<1>14. QED
  BY <1>4, <1>7, <1>9, <1>13 DEF v, run

(* fallback_aff: the ticket, if there is one, leaves the gate and weighs   *)
(* no more, and the request goes to the pod with the longest hit.          *)
LEMMA FallbackOk ==
    ASSUME NEW w, NEW r \in Request, NodeInv(w, r),
           w.runs[r].ticket.state = "NONE" <=> ~In(w.gate, r), w.runs[r].state # "NONE",
           NEW v, v = FallbackAff(w, r), v.outcome = "running"
    PROVE  NodeInv(v, Absent) /\ Tame(w, v)
<1> DEFINE t == w.runs[r].ticket
           kept == IF t.state \in {"TIMED_OUT", "CANCELLED"} THEN t.state ELSE "FALLBACK"
           dropped == DropPressure(w, r)
           left == LeaveGate(dropped, r, kept)
           freed == IF t.state = "NONE" THEN w ELSE left
           counted == Count(freed, "fallbacks", 1)
           p == Affinity(freed, w.runs[r].path)
<1>1. v = EnqueueReady(counted, r, p)
  BY DEF FallbackAff
<1>2. /\ kept \in TicketStates \ {"QUEUED", "TRANSFER_RUNNING"}
      /\ w.runs[r].path \in Node /\ w.runs[r] \in RunRecord
  BY Parts DEF TicketStates
<1> HIDE DEF kept, dropped, left
<1>4. ASSUME t.state # "NONE"
      PROVE  /\ NodeInv(left, r) /\ Tame(w, left) /\ ~In(left.gate, r)
             /\ left.runs[r].ticket.state \notin {"QUEUED", "TRANSFER_RUNNING"}
             /\ left.runs[r].state # "NONE"
  <2>1. /\ NodeInv(dropped, r) /\ Tame(w, dropped) /\ dropped.gate = w.gate
        /\ dropped.runs[r] = [w.runs[r] EXCEPT !.ticket.owner = Absent]
    BY DropOk DEF dropped
  <2>2. In(dropped.gate, r)
    BY <1>4, <2>1
  <2>3. /\ NodeInv(left, r) /\ Tame(dropped, left) /\ ~In(left.gate, r)
        /\ left.runs[r] = [dropped.runs[r] EXCEPT !.ticket.state = kept]
    BY ZenonT(60), <1>2, <2>1, <2>2, LeaveOk DEF left
  <2>4. dropped.runs[r] \in RunRecord /\ dropped.runs[r].ticket \in TicketRecord
    BY <2>1, Parts
  <2>5. left.runs[r].ticket.state = kept /\ left.runs[r].state = dropped.runs[r].state
    BY <2>3, <2>4 DEF RunRecord, TicketRecord
  <2>7. dropped.runs[r].state = w.runs[r].state
    BY <1>2, <2>1 DEF RunRecord
  <2>6. QED
    BY <1>2, <2>1, <2>3, <2>5, <2>7 DEF Tame
<1>5. /\ NodeInv(freed, r) /\ Tame(w, freed) /\ ~In(freed.gate, r)
      /\ freed.runs[r].ticket.state \notin {"QUEUED", "TRANSFER_RUNNING"}
      /\ freed.runs[r].state # "NONE"
  BY <1>4 DEF Tame
<1> HIDE DEF freed
<1>6. NodeInv(counted, r) /\ Tame(freed, counted) /\ counted.gate = freed.gate /\ counted.runs = freed.runs
  BY <1>5, CountOk DEF counted
<1>7. p \in Pod
  BY <1>2, <1>5, AffinityIn, Parts
<1> HIDE DEF counted, p
<1>8. NodeInv(v, Absent) /\ Tame(counted, v)
  BY <1>1, <1>5, <1>6, <1>7, EnqueueOk
<1>9. QED
  BY <1>5, <1>6, <1>8 DEF Tame

\* What a plan makes of the ticket of request r.
PlannedFor(w, v, r, s, t, m) ==
    LET old == w.runs[r]
        new == v.runs[r]
    IN  /\ new.state = old.state /\ new.transfer = old.transfer
        /\ new.ticket.state = old.ticket.state /\ new.ticket.id = old.ticket.id
        /\ new.ticket.source = s /\ new.ticket.target = t /\ new.ticket.owner = t
        /\ new.ticket.path = m

(* A ticket names its endpoints, and its service weighs on the target.     *)
LEMMA PlanOk ==
    ASSUME NEW w, NEW r \in Request, NodeInv(w, r), w.runs[r].ticket.owner = Absent,
           w.runs[r].state = "ARRIVED",
           NEW s \in Pod, NEW t \in Pod \ {s}, NEW m \in Node, NEW service \in Nat, service > 0,
           NEW v, v = Plan(w, r, s, t, m, service)
    PROVE  /\ NodeInv(v, r) /\ Tame(w, v) /\ v.gate = w.gate
           /\ PlannedFor(w, v, r, s, t, m)
           /\ \A p \in Pod : SameHold(w.pods[p], v.pods[p])
           /\ w.runs[r].ticket.state = "QUEUED" /\ In(w.gate, r) => NodeInv(v, Absent)
<1> DEFINE ticket == [w.runs[r].ticket EXCEPT !.source = s, !.target = t, !.path = m, !.owner = t,
                                              !.service = service]
           run == [w.runs[r] EXCEPT !.ticket = ticket]
           runs == [w.runs EXCEPT ![r] = run]
           pod == [w.pods[t] EXCEPT !.pressure[r] = service]
           pods == [w.pods EXCEPT ![t] = pod]
<1>1. /\ w \in World /\ w.runs \in [Request -> RunRecord] /\ w.pods \in [Pod -> PodRecord]
      /\ w.runs[r] \in RunRecord /\ w.runs[r].ticket \in TicketRecord /\ w.outcome = "running"
      /\ w.pods[t] \in PodRecord
  BY Parts
<1>2. s \in Int /\ t \in Int /\ t # Absent
  BY RequestFacts
<1>3. ticket \in TicketRecord /\ ticket.owner = t /\ ticket.source = s /\ ticket.target = t
      /\ ticket.id = w.runs[r].ticket.id /\ ticket.state = w.runs[r].ticket.state
      /\ ticket.path = m
  BY <1>1, <1>2 DEF TicketRecord
<1>4. v = [w EXCEPT !.runs = runs, !.pods = pods]
  BY <1>1 DEF World, Plan
<1> HIDE DEF ticket
<1>5. /\ run \in RunRecord /\ run.state = "ARRIVED" /\ run.owner = w.runs[r].owner
      /\ run.pod = w.runs[r].pod /\ run.path = w.runs[r].path /\ run.hit = w.runs[r].hit
      /\ run.transfer = w.runs[r].transfer /\ run.ticket = ticket
      /\ run.arrival = w.runs[r].arrival
  BY <1>1, <1>3 DEF RunRecord
<1>6. w.pods[t].pressure \in [Request -> Nat]
  BY <1>1 DEF PodRecord
<1>7. /\ pod \in PodRecord /\ SameHold(w.pods[t], pod) /\ pod.queue = w.pods[t].queue
      /\ pod.pressure = [w.pods[t].pressure EXCEPT ![r] = service]
  BY <1>1, <1>6 DEF PodRecord, SameHold
<1> HIDE DEF run, pod
<1>8. runs \in [Request -> RunRecord] /\ runs[r] = run /\ \A q \in Request \ {r} : runs[q] = w.runs[q]
  BY <1>1, <1>5
<1>9. /\ pods \in [Pod -> PodRecord]
      /\ \A q \in Pod : SameHold(w.pods[q], pods[q]) /\ pods[q].queue = w.pods[q].queue
      /\ \A q \in Pod, x \in Request :
            pods[q].pressure[x] = IF q = t /\ x = r THEN service ELSE w.pods[q].pressure[x]
  <2>1. pods \in [Pod -> PodRecord]
    BY <1>1, <1>7
  <2>2. \A q \in Pod : pods[q] = IF q = t THEN pod ELSE w.pods[q]
    BY <1>1
  <2>3. \A q \in Pod : SameHold(w.pods[q], pods[q]) /\ pods[q].queue = w.pods[q].queue
    BY <1>7, <2>2 DEF SameHold
  <2>4. \A q \in Pod, x \in Request :
            pods[q].pressure[x] = IF q = t /\ x = r THEN service ELSE w.pods[q].pressure[x]
    BY <1>6, <1>7, <2>2
  <2>5. QED
    BY <2>1, <2>3, <2>4
<1> HIDE DEF runs, pods
<1>10. /\ v \in World /\ v.runs = runs /\ v.pods = pods /\ v.gate = w.gate
       /\ v.now = w.now /\ v.events = w.events
       /\ v.copies = w.copies /\ v.tokens = w.tokens /\ v.refilled = w.refilled
       /\ v.replicas = w.replicas /\ v.gone = w.gone /\ v.outcome = w.outcome
  BY ZenonT(40), <1>1, <1>4, <1>8, <1>9 DEF World
<1>11. Touch(w, v, r)
  <2>1. \A x \in Request \ {r} : \A q \in Pod : v.pods[q].pressure[x] = w.pods[q].pressure[x]
    BY <1>9, <1>10
  <2>2. QED
    BY <1>5, <1>8, <1>9, <1>10, <2>1 DEF Touch
<1>12. Ticketed(w, r) /\ Lives(w) /\ NoDup(w.gate)
  BY DEF NodeInv, Ticketed
<1>13. LifeOf(v, r)
  BY <1>5, <1>8, <1>9, <1>10, <1>12 DEF Lives, LifeOf, SameHold
<1>14. Bound(v, r)
  <2>1. \A q \in Pod : v.pods[q].pressure[r] > 0 <=> q = t
    BY <1>2, <1>9, <1>10, <1>12, RequestFacts DEF Ticketed, Bound
  <2>2. In(v.gate, r) => Tickets /\ ticket.id \in Nat
    BY <1>3, <1>10, <1>12 DEF Ticketed, Bound
  <2>3. QED
    BY <1>3, <1>5, <1>8, <1>10, <2>1, <2>2 DEF Bound
<1>15. NodeInv(v, r) /\ Tame(w, v)
  BY <1>1, <1>10, <1>11, <1>12, <1>13, <1>14, TouchOk, RequestFacts
<1>16. ASSUME w.runs[r].ticket.state = "QUEUED", In(w.gate, r)
       PROVE  NodeInv(v, Absent)
  <2>1. Settled(v, r)
    BY <1>2, <1>3, <1>5, <1>8, <1>10, <1>16 DEF Settled
  <2>2. v.runs[r].state # "WAITING_TRANSFER"
    BY <1>5, <1>8, <1>10
  <2>3. QED
    BY <1>1, <1>10, <1>11, <1>12, <1>13, <1>14, <2>1, <2>2, TouchOk, RequestFacts
<1>17. QED
  BY <1>3, <1>5, <1>8, <1>9, <1>10, <1>15, <1>16 DEF PlannedFor

\* v is w with a ticket more.
Ticketing(w, v, runs, gate, stats) ==
    v = [w EXCEPT !.runs = runs, !.nextTicket = @ + 1, !.gate = gate, !.stats = stats]

(* A request that just arrived is put into the gate.                       *)
LEMMA TicketOk ==
    ASSUME NEW w, NEW r \in Request, NodeInv(w, r), Tickets, ~In(w.gate, r),
           w.runs[r].ticket.owner = Absent, w.runs[r].state = "ARRIVED",
           NEW s \in Pod, NEW t \in Pod \ {s}, NEW m \in Node, NEW service \in Nat, service > 0
    PROVE  LET v == CreateTicket(w, r, s, t, m, service)
           IN  NodeInv(v, Absent) /\ Tame(w, v)
<1> DEFINE u == Plan(w, r, s, t, m, service)
           ticket == [u.runs[r].ticket EXCEPT !.state = "QUEUED", !.id = w.nextTicket]
           run == [u.runs[r] EXCEPT !.ticket = ticket]
           runs == [u.runs EXCEPT ![r] = run]
           gate == Append(u.gate, r)
           stats == [u.stats EXCEPT !.created = @ + 1]
           made == [u EXCEPT
                    !.runs[r].ticket = [@ EXCEPT !.state = "QUEUED", !.id = w.nextTicket],
                    !.nextTicket = @ + 1, !.gate = Append(@, r), !.stats.created = @ + 1]
           x == Schedule(made, w.now, "TRANSFER_ENQUEUE", r)
           v == Schedule(x, w.now + Timeout, "TRANSFER_TIMEOUT", r)
<1>1. v = CreateTicket(w, r, s, t, m, service)
  BY DEF CreateTicket
<1>2. NodeInv(u, r) /\ Tame(w, u) /\ u.gate = w.gate /\ PlannedFor(w, u, r, s, t, m)
  BY PlanOk
<1> HIDE DEF u
<1>3. /\ u \in World /\ u.runs \in [Request -> RunRecord]
      /\ u.runs[r] \in RunRecord /\ u.runs[r].ticket \in TicketRecord /\ u.outcome = "running"
      /\ u.gate \in Seq(Request) /\ u.stats \in StatsRecord
      /\ w.runs[r] \in RunRecord /\ w.runs[r].ticket \in TicketRecord
      /\ w.nextTicket \in Nat /\ u.nextTicket \in Nat /\ w.now \in Nat /\ u.now = w.now
  BY <1>2, Parts DEF Tame
<1>4. /\ u.runs[r].ticket.source = s /\ u.runs[r].ticket.target = t /\ u.runs[r].ticket.owner = t
      /\ u.runs[r].state = "ARRIVED"
  BY <1>2 DEF PlannedFor
<1>5. /\ ticket \in TicketRecord /\ ticket.state = "QUEUED" /\ ticket.id = w.nextTicket
      /\ ticket.source = s /\ ticket.target = t /\ ticket.owner = t
  <2>1. u.runs[r].ticket \in TicketRecord /\ w.nextTicket \in Int /\ "QUEUED" \in TicketStates
    BY <1>3 DEF TicketStates
  <2>2. ticket \in TicketRecord
    BY <2>1 DEF TicketRecord
  <2>3. /\ ticket.state = "QUEUED" /\ ticket.id = w.nextTicket
        /\ ticket.source = u.runs[r].ticket.source /\ ticket.target = u.runs[r].ticket.target
        /\ ticket.owner = u.runs[r].ticket.owner
    BY <2>1 DEF TicketRecord
  <2>4. QED
    BY <1>4, <2>2, <2>3
<1>6. made = [u EXCEPT !.runs = runs, !.nextTicket = @ + 1, !.gate = gate, !.stats = stats]
  BY <1>3 DEF World, StatsRecord
<1> HIDE DEF ticket
<1>7. /\ run \in RunRecord /\ run.state = "ARRIVED" /\ run.owner = u.runs[r].owner
      /\ run.pod = u.runs[r].pod /\ run.path = u.runs[r].path /\ run.hit = u.runs[r].hit
      /\ run.transfer = u.runs[r].transfer /\ run.ticket = ticket
      /\ run.arrival = u.runs[r].arrival
  BY <1>3, <1>4, <1>5 DEF RunRecord
<1> HIDE DEF run
<1>8. runs \in [Request -> RunRecord] /\ runs[r] = run /\ \A q \in Request \ {r} : runs[q] = u.runs[q]
  BY <1>3, <1>7
<1>9. Ticketed(u, r) /\ Lives(u) /\ NoDup(u.gate) /\ ~In(u.gate, r)
  BY <1>2 DEF NodeInv, Ticketed
<1>10. /\ gate \in Seq(Request) /\ NoDup(gate) /\ In(gate, r)
       /\ \A q : q # r => (In(gate, q) <=> In(u.gate, q))
  BY <1>3, <1>9, InAppend
<1>11. stats \in StatsRecord
  <2>1. u.stats \in StatsRecord
    BY <1>3
  <2>2. QED
    BY <2>1 DEF StatsRecord
<1>12. Ticketing(u, made, runs, gate, stats)
  BY <1>6 DEF Ticketing
<1> HIDE DEF made, runs, gate, stats
<1>13. /\ made \in World /\ made.runs = runs /\ made.pods = u.pods /\ made.gate = gate
       /\ made.now = u.now /\ made.events = u.events
       /\ made.copies = u.copies /\ made.tokens = u.tokens /\ made.refilled = u.refilled
       /\ made.replicas = u.replicas /\ made.gone = u.gone /\ made.outcome = u.outcome
  <2>1. /\ u \in World /\ u.nextTicket + 1 \in Nat /\ runs \in [Request -> RunRecord]
        /\ gate \in Seq(Request) /\ stats \in StatsRecord
    BY <1>3, <1>8, <1>10, <1>11
  <2>2. QED
    BY <1>12, <2>1 DEF World, Ticketing
<1>14. Touch(u, made, r)
  BY <1>7, <1>8, <1>10, <1>13 DEF Touch, SameHold
<1>15. LifeOf(made, r)
  BY <1>4, <1>7, <1>8, <1>9, <1>13 DEF Lives, LifeOf
<1>16. Bound(made, r)
  <2>1. \A q \in Pod : made.pods[q].pressure[r] > 0 <=> t = q
    BY <1>4, <1>9, <1>13 DEF Ticketed, Bound
  <2>2. QED
    BY <1>3, <1>5, <1>7, <1>8, <1>13, <2>1 DEF Bound
<1>17. Settled(made, r)
  <2>1. t # Absent
    BY RequestFacts
  <2>2. QED
    BY <1>5, <1>7, <1>8, <1>10, <1>13, <2>1 DEF Settled
<1>18. NodeInv(made, Absent) /\ Tame(u, made)
  <2>1. made.runs[r].state # "WAITING_TRANSFER"
    BY <1>7, <1>8, <1>13
  <2>2. QED
    BY <1>2, <1>3, <1>10, <1>13, <1>14, <1>15, <1>16, <1>17, <2>1, TouchOk, RequestFacts
<1>19. NodeInv(x, Absent) /\ Tame(made, x)
  <2>1. "TRANSFER_ENQUEUE" \in Kinds \ {Copying} /\ "TRANSFER_ENQUEUE" # "SERVICE_START"
    BY DEF Kinds, Copying
  <2>2. w.now \in Nat /\ w.now >= made.now
    BY <1>3, <1>13
  <2>3. QED
    BY <1>18, <2>1, <2>2, ScheduleOk
<1>20. NodeInv(v, Absent) /\ Tame(x, v)
  <2>1. "TRANSFER_TIMEOUT" \in Kinds \ {Copying} /\ "TRANSFER_TIMEOUT" # "SERVICE_START"
    BY DEF Kinds, Copying
  <2>2. w.now + Timeout \in Nat /\ w.now + Timeout >= x.now
    BY SMTT(30), <1>3, <1>13, <1>19, NodeAssumption DEF Tame
  <2> HIDE DEF x
  <2>3. QED
    BY <1>19, <2>1, <2>2, ScheduleOk
<1> HIDE DEF v, x
<1>21. QED
  BY <1>1, <1>2, <1>18, <1>19, <1>20 DEF Tame

(* A ticket that is planned anew waits on.                                 *)
LEMMA ReplanOk ==
    ASSUME NEW w, NEW r \in Request, NodeInv(w, r), w.runs[r].ticket.owner = Absent,
           w.runs[r].state = "ARRIVED", w.runs[r].ticket.state = "QUEUED", In(w.gate, r),
           NEW s \in Pod, NEW t \in Pod \ {s}, NEW m \in Node, NEW service \in Nat, service > 0,
           NEW v, v = Replan(w, r, s, t, m, service)
    PROVE  /\ NodeInv(v, Absent) /\ Tame(w, v) /\ v.gate = w.gate
           /\ PlannedFor(w, v, r, s, t, m)
           /\ \A p \in Pod : SameHold(w.pods[p], v.pods[p])
<1> DEFINE u == Plan(w, r, s, t, m, service)
<1>1. /\ NodeInv(u, Absent) /\ Tame(w, u) /\ u.gate = w.gate
      /\ PlannedFor(w, u, r, s, t, m)
      /\ \A p \in Pod : SameHold(w.pods[p], u.pods[p])
  BY PlanOk
<1>2. v = u \/ v = Replanned(u, r)
  BY DEF Replan
<1> HIDE DEF u
<1>3. CASE v = u
  BY <1>1, <1>3
<1>4. CASE v = Replanned(u, r)
  <2>1. /\ NodeInv(v, Absent) /\ Tame(u, v) /\ v.gate = u.gate /\ v.pods = u.pods
        /\ Quiet(u.runs[r], v.runs[r]) /\ v.runs[r].ticket = u.runs[r].ticket
    BY <1>1, <1>4, ReplannedOk
  <2>2. Tame(w, v)
    BY <1>1, <2>1 DEF Tame
  <2>3. PlannedFor(w, v, r, s, t, m)
    BY SMTT(30), <1>1, <2>1 DEF PlannedFor, Quiet
  <2>4. QED
    BY <1>1, <2>1, <2>2, <2>3
<1>5. QED
  BY <1>2, <1>3, <1>4

-----------------------------------------------------------------------------
(* Take-off and landing *)

\* What a pod is about, besides its cache and its transfer.
SameWork(a, b) ==
    b.running = a.running /\ b.queue = a.queue /\ b.pressure = a.pressure

\* The services of all pods go on.
SameService(w, v) ==
    \A p \in Pod :
        /\ v.pods[p].running = w.pods[p].running
        /\ w.pods[p].running # Absent =>
              /\ v.runs[w.pods[p].running].path = w.runs[w.pods[p].running].path
              /\ v.runs[w.pods[p].running].hit = w.runs[w.pods[p].running].hit

\* Of the caches the reservations of requests are the same.
SamePrivate(a, b) == b.private = a.private /\ b.privatePages = a.privatePages

SameTemporary(a, b) == b.temporary = a.temporary /\ b.temporaryPages = a.temporaryPages

(* Who changes neither private pages nor who is served keeps Serving.      *)
LEMMA ServiceFrame ==
    ASSUME NEW w, NEW v, Serving(w), SameService(w, v),
           \A p \in Pod : SamePrivate(w.pods[p].cache, v.pods[p].cache)
    PROVE  Serving(v) /\ \A p \in Pod : HitOf(v, p) = HitOf(w, p)
<1>1. \A p \in Pod : HitOf(v, p) = HitOf(w, p)
  BY SMTT(30) DEF SameService, HitOf
<1>2. ASSUME NEW p \in Pod
      PROVE  LET pod == v.pods[p]
                 run == v.runs[pod.running]
             IN  /\ \A r \in Request : pod.cache.private[r] # Absent <=> pod.running = r
                 /\ pod.running = Absent => pod.cache.privatePages = 0
                 /\ pod.running # Absent =>
                       /\ pod.cache.privatePages = pod.cache.private[pod.running]
                       /\ pod.cache.privatePages = Depth(run.path) - Depth(run.hit)
                       /\ Chain[run.hit] \subseteq Chain[run.path]
  <2>1. /\ v.pods[p].cache.private = w.pods[p].cache.private
        /\ v.pods[p].cache.privatePages = w.pods[p].cache.privatePages
        /\ v.pods[p].running = w.pods[p].running
    BY DEF SamePrivate, SameService
  <2>2. \A r \in Request : v.pods[p].cache.private[r] # Absent <=> v.pods[p].running = r
    BY <2>1 DEF Serving
  <2>3. v.pods[p].running = Absent => v.pods[p].cache.privatePages = 0
    BY Zenon, <2>1 DEF Serving
  <2>4. CASE w.pods[p].running # Absent
    <3>1. /\ v.runs[w.pods[p].running].path = w.runs[w.pods[p].running].path
          /\ v.runs[w.pods[p].running].hit = w.runs[w.pods[p].running].hit
      BY <2>4 DEF SameService
    <3>2. LET run == w.runs[w.pods[p].running]
              cache == w.pods[p].cache
          IN  /\ cache.privatePages = cache.private[w.pods[p].running]
              /\ cache.privatePages = Depth(run.path) - Depth(run.hit)
              /\ Chain[run.hit] \subseteq Chain[run.path]
      BY SMTT(30), <2>4 DEF Serving
    <3>3. v.pods[p].cache.privatePages = v.pods[p].cache.private[v.pods[p].running]
      BY Zenon, <2>1, <3>2
    <3>4. LET run == v.runs[v.pods[p].running]
          IN  /\ v.pods[p].cache.privatePages = Depth(run.path) - Depth(run.hit)
              /\ Chain[run.hit] \subseteq Chain[run.path]
      BY Zenon, <2>1, <3>1, <3>2
    <3>5. QED
      BY Zenon, <2>2, <2>3, <3>3, <3>4
  <2>5. QED
    BY Zenon, <2>1, <2>2, <2>3, <2>4
<1>3. QED
  BY <1>1, <1>2 DEF Serving

\* Key k names in v the transfer it names in w.
SameKey(w, v, k) ==
    /\ IdOf(v, k) = IdOf(w, k) /\ SourceOf(v, k) = SourceOf(w, k)
    /\ GoalOf(v, k) = GoalOf(w, k) /\ PathOf(v, k) = PathOf(w, k)

\* The transfer of m from s to t took off between w and v.
Sent(w, v, id, s, t, m) ==
    /\ \A p \in Pod \ {s, t} : SameHold(w.pods[p], v.pods[p])
    /\ v.pods[s].cache = Pin(w.pods[s].cache, m) /\ v.pods[s].busy = id
    /\ v.pods[s].sends /\ v.pods[s].receives = w.pods[s].receives
    /\ v.pods[t].cache = ReserveTransferTemporary(w.pods[t].cache, id, Depth(m))
    /\ v.pods[t].busy = id /\ v.pods[t].receives /\ v.pods[t].sends = w.pods[t].sends

\* What is needed for it.
Clear(w, s, t, m) ==
    /\ s \in Pod /\ t \in Pod /\ s # t /\ m \in Node /\ ~Busy(w, s) /\ ~Busy(w, t)
    /\ Chain[m] \subseteq Pages(w, s) /\ CanReserve(w, t, m)

(* A pod that is not busy is at no end of a transfer.                      *)
LEMMA IdleFacts ==
    ASSUME NEW w, NEW h, Flying(w, h), NEW p \in Pod, ~Busy(w, p)
    PROVE  /\ ~w.pods[p].sends /\ ~w.pods[p].receives
           /\ CacheOk(w.pods[p].cache, Root, HitOf(w, p))
           /\ DOMAIN w.pods[p].cache.temporary = {} /\ w.pods[p].cache.temporaryPages = 0
           /\ \A k \in Keys(w, h) : p # SourceOf(w, k) /\ p # GoalOf(w, k)
<1>1. w.pods[p].busy = Absent
  BY DEF Busy
<1>2. ASSUME NEW k \in Keys(w, h)
      PROVE  p # SourceOf(w, k) /\ p # GoalOf(w, k)
  <2>1. Flown(w, k)
    BY DEF Flying
  <2>2. QED
    BY <1>1, <2>1, RequestFacts DEF Flown
<1>3. QED
  BY <1>1, <1>2 DEF Flying

(* A transfer starts: one key more.                                        *)
LEMMA TakeOff ==
    ASSUME NEW w, NEW v, NEW h, NEW g, w \in World, Flying(w, h), Serving(w), SameService(w, v),
           NEW id \in Nat, NEW s, NEW t, NEW m, Clear(w, s, t, m), Sent(w, v, id, s, t, m),
           NEW k0, k0 \notin Keys(w, h), Keys(v, g) = Keys(w, h) \cup {k0},
           IdOf(v, k0) = id, SourceOf(v, k0) = s, GoalOf(v, k0) = t, PathOf(v, k0) = m,
           \A k \in Keys(w, h) : SameKey(w, v, k)
    PROVE  /\ Flying(v, g) /\ Serving(v)
           /\ \A p \in Pod : Pages(v, p) \subseteq Pages(w, p)
<1> DEFINE a == w.pods[s].cache
           b == w.pods[t].cache
           c == v.pods[s].cache
           e == v.pods[t].cache
<1>1. s \in Pod /\ t \in Pod /\ s # t /\ m \in Node /\ Depth(m) \in Nat
  BY ChainFacts DEF Clear
<1>2. /\ ~w.pods[s].sends /\ ~w.pods[s].receives /\ CacheOk(a, Root, HitOf(w, s))
      /\ DOMAIN a.temporary = {} /\ a.temporaryPages = 0
      /\ \A k \in Keys(w, h) : s # SourceOf(w, k) /\ s # GoalOf(w, k)
  BY IdleFacts DEF Clear
<1>3. /\ ~w.pods[t].sends /\ ~w.pods[t].receives /\ CacheOk(b, Root, HitOf(w, t))
      /\ DOMAIN b.temporary = {} /\ b.temporaryPages = 0
      /\ \A k \in Keys(w, h) : t # SourceOf(w, k) /\ t # GoalOf(w, k)
  BY IdleFacts DEF Clear
<1>4. CacheOk(c, m, HitOf(w, s)) /\ SamePages(a, c)
  <2>1. c = Pin(a, m) /\ Chain[m] \subseteq a.pages
    BY DEF Sent, Clear, Pages
  <2>2. QED
    BY <1>1, <1>2, <2>1, PinOk
<1>5. /\ CacheOk(e, Root, HitOf(w, t)) /\ e.pages \subseteq b.pages /\ SamePrivate(b, e)
      /\ DOMAIN e.temporary = {id} /\ e.temporary[id] = Depth(m) /\ e.temporaryPages = Depth(m)
  <2>1. e = ReserveTransferTemporary(b, id, Depth(m)) /\ Admitted(b, Depth(m))
    BY DEF Sent, Clear, CanReserve
  <2> HIDE DEF b, e
  <2>2. /\ CacheOk(e, Root, HitOf(w, t)) /\ e.pages \subseteq b.pages
        /\ e.private = b.private /\ e.privatePages = b.privatePages
        /\ DOMAIN e.temporary = DOMAIN b.temporary \cup {id} /\ e.temporary[id] = Depth(m)
        /\ e.temporaryPages = b.temporaryPages + Depth(m)
    BY <1>1, <1>3, <2>1, ReserveTemporaryOk
  <2>3. QED
    BY <1>1, <1>3, <2>2 DEF SamePrivate
<1>6. \A p \in Pod \ {s, t} : SameHold(w.pods[p], v.pods[p])
  BY DEF Sent
<1>7. \A p \in Pod : SamePrivate(w.pods[p].cache, v.pods[p].cache) /\ Pages(v, p) \subseteq Pages(w, p)
  BY <1>4, <1>5, <1>6 DEF SamePrivate, SamePages, SameHold, Pages
<1>8. Serving(v) /\ \A p \in Pod : HitOf(v, p) = HitOf(w, p)
  BY <1>7, ServiceFrame
<1>9. Flown(v, k0)
  <2>1. v.pods[s].busy = id /\ v.pods[t].busy = id /\ v.pods[s].sends /\ ~v.pods[s].receives
    BY <1>2 DEF Sent
  <2>2. v.pods[t].receives /\ ~v.pods[t].sends
    BY <1>3 DEF Sent
  <2>3. QED
    BY <1>1, <1>4, <1>5, <1>8, <2>1, <2>2 DEF Flown
<1>10. ASSUME NEW k \in Keys(w, h)
       PROVE  /\ Flown(v, k)
              /\ {SourceOf(v, k), GoalOf(v, k)} \cap {SourceOf(v, k0), GoalOf(v, k0)} = {}
  <2>1. Flown(w, k) /\ SourceOf(w, k) \in Pod \ {s, t} /\ GoalOf(w, k) \in Pod \ {s, t}
    BY <1>2, <1>3 DEF Flying, Flown
  <2>2. SameKey(w, v, k)
    OBVIOUS
  <2>3. /\ SameHold(w.pods[SourceOf(w, k)], v.pods[SourceOf(w, k)])
        /\ SameHold(w.pods[GoalOf(w, k)], v.pods[GoalOf(w, k)])
        /\ HitOf(v, SourceOf(w, k)) = HitOf(w, SourceOf(w, k))
    BY <1>6, <1>8, <2>1
  <2>4. Flown(v, k)
    BY <2>1, <2>2, <2>3 DEF Flown, SameHold, SameKey
  <2>5. QED
    BY <2>1, <2>2, <2>4 DEF SameKey
<1>11. \A k, l \in Keys(w, h) :
          k # l => {SourceOf(v, k), GoalOf(v, k)} \cap {SourceOf(v, l), GoalOf(v, l)} = {}
  BY DEF Flying, SameKey
<1>12. ASSUME NEW p \in Pod
       PROVE  LET pod == v.pods[p]
              IN  /\ pod.busy # Absent => \E k \in Keys(v, g) : p \in {SourceOf(v, k), GoalOf(v, k)}
                  /\ pod.sends => pod.busy # Absent
                  /\ pod.receives => pod.busy # Absent
                  /\ ~pod.sends => CacheOk(pod.cache, Root, HitOf(v, p))
                  /\ ~pod.receives => DOMAIN pod.cache.temporary = {} /\ pod.cache.temporaryPages = 0
  <2>1. id # Absent
    BY RequestFacts
  <2>2. CASE p = s
    <3>1. v.pods[s].busy = id /\ v.pods[s].sends /\ k0 \in Keys(v, g)
      BY DEF Sent
    <3>2. c.temporary = a.temporary /\ c.temporaryPages = a.temporaryPages
      BY <1>4 DEF SamePages
    <3>3. QED
      BY <1>2, <2>1, <2>2, <3>1, <3>2
  <2>3. CASE p = t
    <3>1. v.pods[t].busy = id /\ v.pods[t].receives /\ k0 \in Keys(v, g)
      BY DEF Sent
    <3>2. QED
      BY <1>5, <1>8, <2>1, <2>3, <3>1
  <2>4. CASE p \in Pod \ {s, t}
    <3>1. /\ v.pods[p].busy = w.pods[p].busy /\ v.pods[p].sends = w.pods[p].sends
          /\ v.pods[p].receives = w.pods[p].receives /\ v.pods[p].cache = w.pods[p].cache
      BY <1>6, <2>4 DEF SameHold
    <3>2. w.pods[p].busy # Absent => \E k \in Keys(w, h) : p \in {SourceOf(w, k), GoalOf(w, k)}
      BY DEF Flying
    <3>3. w.pods[p].busy # Absent => \E k \in Keys(v, g) : p \in {SourceOf(v, k), GoalOf(v, k)}
      BY <3>2 DEF SameKey
    <3>4. QED
      BY <1>8, <3>1, <3>3 DEF Flying
  <2>5. QED
    BY <2>2, <2>3, <2>4
<1>13. \A k \in Keys(v, g) : k = k0 \/ k \in Keys(w, h)
  OBVIOUS
<1>14. \A k \in Keys(v, g) : Flown(v, k)
  BY <1>9, <1>10, <1>13
<1>15. \A k, l \in Keys(v, g) :
          k # l => {SourceOf(v, k), GoalOf(v, k)} \cap {SourceOf(v, l), GoalOf(v, l)} = {}
  BY <1>10, <1>11, <1>13
<1>16. QED
  BY <1>7, <1>8, <1>12, <1>14, <1>15 DEF Flying

\* The transfer of m from s to t landed between w and v.
Landed(w, v, s, t) ==
    /\ \A p \in Pod \ {s, t} : SameHold(w.pods[p], v.pods[p])
    /\ CacheOk(v.pods[s].cache, Root, HitOf(w, s)) /\ SameTemporary(w.pods[s].cache, v.pods[s].cache)
    /\ v.pods[s].busy = Absent /\ ~v.pods[s].sends /\ v.pods[s].receives = w.pods[s].receives
    /\ CacheOk(v.pods[t].cache, Root, HitOf(w, t))
    /\ DOMAIN v.pods[t].cache.temporary = {} /\ v.pods[t].cache.temporaryPages = 0
    /\ v.pods[t].busy = Absent /\ ~v.pods[t].receives /\ v.pods[t].sends = w.pods[t].sends
    /\ \A p \in Pod : SamePrivate(w.pods[p].cache, v.pods[p].cache)

(* A transfer ends: one key less.                                          *)
LEMMA Landing ==
    ASSUME NEW w, NEW v, NEW h, NEW g, w \in World, Flying(w, h), Serving(w), SameService(w, v),
           NEW k0 \in Keys(w, h), Landed(w, v, SourceOf(w, k0), GoalOf(w, k0)),
           Keys(v, g) = Keys(w, h) \ {k0}, \A k \in Keys(v, g) : SameKey(w, v, k)
    PROVE  Flying(v, g) /\ Serving(v)
<1> DEFINE s == SourceOf(w, k0)
           t == GoalOf(w, k0)
<1>1. Serving(v) /\ \A p \in Pod : HitOf(v, p) = HitOf(w, p)
  BY ServiceFrame DEF Landed
<1>2. /\ s \in Pod /\ t \in Pod /\ s # t /\ ~w.pods[s].receives /\ ~w.pods[t].sends
  BY DEF Flying, Flown
<1>3. \A p \in Pod \ {s, t} : SameHold(w.pods[p], v.pods[p])
  BY DEF Landed
<1>4. ASSUME NEW k \in Keys(v, g)
      PROVE  Flown(v, k)
  <2>1. /\ k \in Keys(w, h) /\ k # k0 /\ Flown(w, k) /\ SameKey(w, v, k)
    BY DEF Flying
  <2>2. SourceOf(w, k) \in Pod \ {s, t} /\ GoalOf(w, k) \in Pod \ {s, t}
    <3>1. {SourceOf(w, k), GoalOf(w, k)} \cap {s, t} = {}
      BY <2>1 DEF Flying
    <3>2. QED
      BY <2>1, <3>1 DEF Flown
  <2>3. /\ SameHold(w.pods[SourceOf(w, k)], v.pods[SourceOf(w, k)])
        /\ SameHold(w.pods[GoalOf(w, k)], v.pods[GoalOf(w, k)])
        /\ HitOf(v, SourceOf(w, k)) = HitOf(w, SourceOf(w, k))
    BY <1>1, <1>3, <2>2
  <2>4. QED
    BY <2>1, <2>3 DEF Flown, SameHold, SameKey
<1>5. \A k, l \in Keys(v, g) :
          k # l => {SourceOf(v, k), GoalOf(v, k)} \cap {SourceOf(v, l), GoalOf(v, l)} = {}
  BY DEF Flying, SameKey
<1>6. ASSUME NEW p \in Pod
      PROVE  LET pod == v.pods[p]
             IN  /\ pod.busy # Absent => \E k \in Keys(v, g) : p \in {SourceOf(v, k), GoalOf(v, k)}
                 /\ pod.sends => pod.busy # Absent
                 /\ pod.receives => pod.busy # Absent
                 /\ ~pod.sends => CacheOk(pod.cache, Root, HitOf(v, p))
                 /\ ~pod.receives => DOMAIN pod.cache.temporary = {} /\ pod.cache.temporaryPages = 0
  <2>1. CASE p = s
    <3>1. DOMAIN w.pods[s].cache.temporary = {} /\ w.pods[s].cache.temporaryPages = 0
      BY <1>2 DEF Flying
    <3>2. QED
      BY <1>1, <1>2, <2>1, <3>1 DEF Landed, SameTemporary
  <2>2. CASE p = t
    BY <1>1, <1>2, <2>2 DEF Landed
  <2>3. CASE p \in Pod \ {s, t}
    <3>1. /\ v.pods[p].busy = w.pods[p].busy /\ v.pods[p].sends = w.pods[p].sends
          /\ v.pods[p].receives = w.pods[p].receives /\ v.pods[p].cache = w.pods[p].cache
      BY <1>3, <2>3 DEF SameHold
    <3>2. w.pods[p].busy # Absent => \E k \in Keys(w, h) : p \in {SourceOf(w, k), GoalOf(w, k)}
      BY DEF Flying
    <3>3. w.pods[p].busy # Absent => \E k \in Keys(v, g) : p \in {SourceOf(v, k), GoalOf(v, k)}
      BY SMTT(30), <2>3, <3>2 DEF SameKey
    <3>4. QED
      BY <1>1, <3>1, <3>3 DEF Flying
  <2>4. QED
    BY <2>1, <2>2, <2>3
<1>7. QED
  BY <1>1, <1>4, <1>5, <1>6 DEF Flying

(* What landing does to the two caches.                                    *)
LEMMA LandedCaches ==
    ASSUME NEW w, NEW h, w \in World, Flying(w, h), NEW k \in Keys(w, h)
    PROVE  LET s == SourceOf(w, k)
               t == GoalOf(w, k)
               m == PathOf(w, k)
               a == w.pods[s].cache
               b == w.pods[t].cache
               c == Unpin(a, m)
               e == CommitTransferTemporary(b, IdOf(w, k), m)
           IN  /\ CacheOk(c, Root, HitOf(w, s)) /\ c.pages = a.pages
               /\ SamePrivate(a, c) /\ SameTemporary(a, c)
               /\ CacheOk(e, Root, HitOf(w, t)) /\ e.pages = b.pages \cup Chain[m]
               /\ SamePrivate(b, e) /\ DOMAIN e.temporary = {} /\ e.temporaryPages = 0
<1> DEFINE s == SourceOf(w, k)
           t == GoalOf(w, k)
           m == PathOf(w, k)
           id == IdOf(w, k)
           a == w.pods[s].cache
           b == w.pods[t].cache
           c == Unpin(a, m)
           e == CommitTransferTemporary(b, id, m)
<1>1. /\ s \in Pod /\ t \in Pod /\ m \in Node /\ id \in Nat
      /\ CacheOk(a, m, HitOf(w, s)) /\ ~w.pods[t].sends
      /\ DOMAIN b.temporary = {id} /\ b.temporary[id] = Depth(m) /\ b.temporaryPages = Depth(m)
  BY DEF Flying, Flown
<1>2. CacheOk(b, Root, HitOf(w, t))
  BY <1>1 DEF Flying
<1>3. Depth(m) \in Nat
  BY <1>1, ChainFacts
<1> HIDE DEF a, b, m, id
<1>4. CacheOk(c, Root, HitOf(w, s)) /\ SamePages(a, c)
  BY <1>1, UnpinOk
<1>5. Missing(b, m) <= b.temporary[id]
  <2>1. b \in PrefixCache /\ Closed(b.pages)
    BY <1>2 DEF CacheOk
  <2>2. QED
    BY <1>1, <2>1, MissingFacts
<1>6. /\ CacheOk(e, Root, HitOf(w, t)) /\ e.pages = b.pages \cup Chain[m]
      /\ e.private = b.private /\ e.privatePages = b.privatePages
      /\ DOMAIN e.temporary = DOMAIN b.temporary \ {id}
      /\ e.temporaryPages = b.temporaryPages - b.temporary[id]
  <2>1. id \in DOMAIN b.temporary /\ b.temporary[id] <= b.temporaryPages
    BY <1>1, <1>3
  <2>2. QED
    BY <1>1, <1>2, <1>5, <2>1, CommitTransferOk
<1> HIDE DEF c, e
<1>7. DOMAIN e.temporary = {} /\ e.temporaryPages = 0
  BY <1>1, <1>3, <1>6
<1>8. QED
  BY <1>4, <1>6, <1>7 DEF SamePages, SamePrivate, SameTemporary, a, b, c, e, m, id

-----------------------------------------------------------------------------
(* Transfers of requests *)

\* v is w but for its pods.
Others(w, v) ==
    /\ v.now = w.now /\ v.runs = w.runs /\ v.gate = w.gate /\ v.events = w.events
    /\ v.copies = w.copies /\ v.tokens = w.tokens /\ v.refilled = w.refilled
    /\ v.replicas = w.replicas /\ v.gone = w.gone /\ v.outcome = w.outcome
    /\ v.nextTransfer = w.nextTransfer /\ v.nextTicket = w.nextTicket /\ v.stats = w.stats

\* v is w with another pod p.
Put(w, v, p, a) == v = [w EXCEPT !.pods[p] = a]

(* One pod is replaced.                                                    *)
LEMMA PutFacts ==
    ASSUME NEW w \in World, NEW p \in Pod, NEW a \in PodRecord, NEW v, Put(w, v, p, a)
    PROVE  /\ v \in World /\ Others(w, v) /\ v.pods[p] = a
           /\ \A q \in Pod \ {p} : v.pods[q] = w.pods[q]
<1> DEFINE pods == [w.pods EXCEPT ![p] = a]
<1>1. w.pods \in [Pod -> PodRecord]
  BY DEF World
<1>2. pods \in [Pod -> PodRecord] /\ pods[p] = a /\ \A q \in Pod \ {p} : pods[q] = w.pods[q]
  BY <1>1
<1>3. v = [w EXCEPT !.pods = pods]
  BY DEF Put
<1> HIDE DEF pods
<1>4. v \in World /\ v.pods = pods
  BY <1>2, <1>3 DEF World
<1>5. Others(w, v)
  BY <1>3 DEF World, Others
<1>6. QED
  BY <1>2, <1>4, <1>5

(* The ends of a transfer are taken, its path pinned and its room          *)
(* reserved.                                                               *)
LEMMA ReserveOk ==
    ASSUME NEW w \in World, NEW h, Flying(w, h), w.outcome = "running", NEW id \in Nat,
           NEW s, NEW t, NEW m, Clear(w, s, t, m),
           NEW v, v = Reserve(w, id, s, t, m), v.outcome = "running"
    PROVE  /\ v \in World /\ Others(w, v) /\ Sent(w, v, id, s, t, m)
           /\ \A p \in Pod : SameWork(w.pods[p], v.pods[p])
<1> DEFINE c == Pin(w.pods[s].cache, m)
           e == ReserveTransferTemporary(w.pods[t].cache, id, Depth(m))
           a == [w.pods[s] EXCEPT !.cache = c, !.busy = id, !.sends = TRUE, !.wired = @ + Wire(m)]
           b == [w.pods[t] EXCEPT !.cache = e, !.busy = id, !.receives = TRUE, !.wired = @ + Wire(m)]
           x == [w EXCEPT !.pods[s] = a]
           u == [x EXCEPT !.pods[t] = b]
<1>1. s \in Pod /\ t \in Pod /\ s # t /\ m \in Node /\ Depth(m) \in Nat
  BY ChainFacts DEF Clear
<1>2. Wire(m) \in Nat
  BY <1>1, NodeAssumption DEF Wire
<1>3. w.pods \in [Pod -> PodRecord] /\ w.pods[s] \in PodRecord /\ w.pods[t] \in PodRecord
  BY <1>1 DEF World
<1>4. c \in PrefixCache
  <2>1. CacheOk(w.pods[s].cache, Root, HitOf(w, s)) /\ Chain[m] \subseteq w.pods[s].cache.pages
    BY IdleFacts DEF Clear, Pages
  <2>2. QED
    BY <1>1, <2>1, PinOk DEF CacheOk
<1>5. e \in PrefixCache
  <2>1. CacheOk(w.pods[t].cache, Root, HitOf(w, t)) /\ Admitted(w.pods[t].cache, Depth(m))
    BY IdleFacts DEF Clear, CanReserve
  <2>2. QED
    BY <1>1, <2>1, ReserveTemporaryOk DEF CacheOk
<1>6. Put(w, x, s, a)
  BY DEF Put
<1> HIDE DEF c, e
<1>7. /\ a \in PodRecord /\ a.cache = c /\ a.busy = id /\ a.sends /\ a.receives = w.pods[s].receives
      /\ SameWork(w.pods[s], a)
  <2>1. w.pods[s] \in PodRecord /\ w.pods[s].wired + Wire(m) \in Nat /\ id \in Nat \cup {Absent}
    <3>1. w.pods[s].wired \in Nat
      BY <1>3 DEF PodRecord
    <3>2. QED
      BY <1>2, <1>3, <3>1
  <2>2. a \in PodRecord
    BY <1>4, <2>1 DEF PodRecord
  <2>3. QED
    BY <2>1, <2>2 DEF PodRecord, SameWork
<1>8. /\ b \in PodRecord /\ b.cache = e /\ b.busy = id /\ b.receives /\ b.sends = w.pods[t].sends
      /\ SameWork(w.pods[t], b)
  <2>1. w.pods[t] \in PodRecord /\ w.pods[t].wired + Wire(m) \in Nat /\ id \in Nat \cup {Absent}
    <3>1. w.pods[t].wired \in Nat
      BY <1>3 DEF PodRecord
    <3>2. QED
      BY <1>2, <1>3, <3>1
  <2>2. b \in PodRecord
    BY <1>5, <2>1 DEF PodRecord
  <2>3. QED
    BY <2>1, <2>2 DEF PodRecord, SameWork
<1>9. x \in World /\ Others(w, x) /\ x.pods[s] = a /\ \A p \in Pod \ {s} : x.pods[p] = w.pods[p]
  <2> HIDE DEF x, a
  <2>1. QED
    BY <1>1, <1>6, <1>7, PutFacts
<1>10. /\ u \in World /\ Others(w, u) /\ u.pods[s] = a /\ u.pods[t] = b
       /\ \A p \in Pod \ {s, t} : u.pods[p] = w.pods[p]
  <2>2. Put(x, u, t, b)
    BY DEF Put
  <2> HIDE DEF x
  <2> HIDE DEF u, a, b
  <2>3. /\ u \in World /\ Others(x, u) /\ u.pods[t] = b
        /\ \A p \in Pod \ {t} : u.pods[p] = x.pods[p]
    BY <1>1, <1>8, <1>9, <2>2, PutFacts
  <2>4. Others(w, u)
    BY <1>9, <2>3 DEF Others
  <2>5. QED
    BY <1>1, <1>9, <2>3, <2>4
<1> HIDE DEF a, b, x
<1>11. v = u
  <2>1. v = Check(u, id \notin DOMAIN w.pods[t].cache.temporary)
    BY DEF Reserve, u, x, a, b, c, e
  <2> HIDE DEF u
  <2>2. "outcome" \in DOMAIN u
    BY <1>10 DEF World
  <2>3. QED
    BY <2>1, <2>2, CheckFacts
<1>12. \A p \in Pod : SameWork(w.pods[p], v.pods[p])
  BY <1>7, <1>8, <1>10, <1>11 DEF SameWork
<1>13. Sent(w, v, id, s, t, m)
  BY <1>7, <1>8, <1>10, <1>11 DEF Sent, SameHold, c, e
<1>14. QED
  BY <1>10, <1>11, <1>12, <1>13

(* A handler that begins with request r takes it into its hands.           *)
LEMMA InHand ==
    ASSUME NEW w, NodeInv(w, Absent), NEW r \in Request, w.runs[r].state # "WAITING_TRANSFER"
    PROVE  NodeInv(w, r)
<1>1. Keys(w, r) = Keys(w, Absent)
  BY RequestFacts DEF Keys
<1>2. Flying(w, r)
  BY <1>1 DEF NodeInv, Flying
<1>3. Ticketed(w, r)
  BY RequestFacts DEF NodeInv, Ticketed
<1>4. QED
  BY <1>2, <1>3 DEF NodeInv

(* The transfer of a request takes off, and holds its pins, its            *)
(* reservation and both ends from now on.                                  *)
LEMMA StartTransferOk ==
    ASSUME NEW w, NEW r \in Request, NodeInv(w, r), w.runs[r].state = "ARRIVED", ~In(w.gate, r),
           w.runs[r].ticket.owner # Absent <=> w.runs[r].ticket.state = "TRANSFER_RUNNING",
           w.runs[r].ticket.state # "QUEUED",
           NEW id \in Nat, NEW s, NEW t, NEW m, Clear(w, s, t, m),
           NEW v, v = StartTransfer(w, r, id, s, t, m), v.outcome = "running"
    PROVE  NodeInv(v, Absent) /\ Tame(w, v)
<1> DEFINE ready == w.now + Wire(m)
           x == [id |-> id, source |-> s, target |-> t, path |-> m, ready |-> ready]
           u == Reserve(w, id, s, t, m)
           run == [w.runs[r] EXCEPT !.state = "WAITING_TRANSFER", !.transfer = x]
           runs == [w.runs EXCEPT ![r] = run]
           stats == [w.stats EXCEPT !.started = @ + 1]
           sent == [u EXCEPT
            !.runs[r] = [@ EXCEPT !.state = "WAITING_TRANSFER",
                                  !.transfer = [id |-> id, source |-> s, target |-> t, path |-> m,
                                                ready |-> ready]],
            !.stats.started = @ + 1]
           done == Schedule(sent, ready, "TRANSFER_COMPLETE", r)
<1> HIDE DEF u
<1>1. Kept(w, u, r) /\ Fields \subseteq DOMAIN u
  BY Parts, KeptReserve, KeptFields DEF u
<1>2. Kept(u, sent, r)
  BY <1>1 DEF Kept, Books, Fields
<1> HIDE DEF sent
<1>3. Kept(sent, done, r) /\ Fields \subseteq DOMAIN done
  <2>1. Fields \subseteq DOMAIN sent
    BY <1>1, <1>2, KeptFields
  <2> HIDE DEF ready
  <2>2. Kept(sent, done, r)
    BY <2>1, KeptSchedule
  <2>3. QED
    BY <2>1, <2>2, KeptFields
<1>4. v = Check(done, Holds(w, s, m))
  BY DEF StartTransfer, done, sent, u
<1> HIDE DEF done
<1>5. v = done
  BY <1>3, <1>4, CheckFacts DEF Fields
<1>6. done.outcome = "running" /\ sent.outcome = "running" /\ u.outcome = "running"
  BY <1>2, <1>3, <1>5 DEF Kept, Books
<1>7. /\ w \in World /\ w.runs \in [Request -> RunRecord] /\ w.runs[r] \in RunRecord
      /\ w.outcome = "running" /\ w.stats \in StatsRecord /\ w.now \in Nat
  BY Parts
<1>8. Lives(w) /\ Ticketed(w, r) /\ Flying(w, r) /\ Serving(w) /\ Posted(w)
  BY DEF NodeInv
<1>9. /\ u \in World /\ Others(w, u) /\ Sent(w, u, id, s, t, m)
      /\ \A p \in Pod : SameWork(w.pods[p], u.pods[p])
  BY <1>6, <1>7, <1>8, ReserveOk DEF u
<1>10. s \in Pod /\ t \in Pod /\ s # t /\ m \in Node /\ s \in Int /\ t \in Int /\ Wire(m) \in Nat
  BY ChainFacts, RequestFacts, NodeAssumption DEF Clear, Wire
<1>11. ready \in Nat /\ ready >= w.now
  BY <1>7, <1>10
<1> HIDE DEF ready
<1>12. /\ x \in TransferRecord /\ x.id = id /\ x.source = s /\ x.target = t /\ x.path = m
  BY <1>10, <1>11 DEF TransferRecord
<1> HIDE DEF x
<1>13. /\ run \in RunRecord /\ run.state = "WAITING_TRANSFER" /\ run.transfer = x
       /\ run.owner = w.runs[r].owner /\ run.pod = w.runs[r].pod /\ run.path = w.runs[r].path
       /\ run.hit = w.runs[r].hit /\ run.ticket = w.runs[r].ticket
       /\ run.arrival = w.runs[r].arrival
  BY <1>7, <1>12 DEF RunRecord, RunStates
<1>14. runs \in [Request -> RunRecord] /\ runs[r] = run /\ \A q \in Request \ {r} : runs[q] = w.runs[q]
  BY <1>7, <1>13
<1>15. stats \in StatsRecord
  BY <1>7 DEF StatsRecord
<1>16. sent = [u EXCEPT !.runs = runs, !.stats = stats]
  BY <1>9 DEF World, Others, sent, x
<1>17. Noted(u, sent, r, run, stats)
  BY <1>9, <1>16 DEF Noted, Others
<1> HIDE DEF run, runs, stats
<1>18. /\ sent \in World /\ sent.runs = runs /\ sent.pods = u.pods /\ sent.gate = w.gate
       /\ sent.now = w.now /\ sent.events = w.events /\ sent.copies = w.copies
       /\ sent.tokens = w.tokens /\ sent.refilled = w.refilled /\ sent.replicas = w.replicas
       /\ sent.gone = w.gone
  <2>1. u \in World /\ runs \in [Request -> RunRecord] /\ stats \in StatsRecord /\ Others(w, u)
    BY <1>9, <1>14, <1>15
  <2>2. Noted(u, sent, r, run, stats) /\ runs = [u.runs EXCEPT ![r] = run]
    BY <1>17, <2>1 DEF Others, runs
  <2>3. QED
    BY <2>1, <2>2 DEF World, Noted, Others
<1>19. Sent(w, sent, id, s, t, m) /\ \A p \in Pod : SameWork(w.pods[p], sent.pods[p])
  BY <1>9, <1>18 DEF Sent
<1>20. w.runs[r].owner = Absent /\ \A p \in Pod : w.pods[p].running # r
  BY <1>8 DEF Lives, LifeOf
<1>21. SameService(w, sent)
  <2>1. \A p \in Pod : w.pods[p].running \in Request \cup {Absent}
    BY <1>7 DEF World, PodRecord
  <2>2. QED
    BY <1>14, <1>18, <1>19, <1>20, <2>1 DEF SameService, SameWork
<1>22. /\ r \notin Keys(w, r) /\ Keys(sent, Absent) = Keys(w, r) \cup {r}
       /\ \A k \in Keys(w, r) : SameKey(w, sent, k)
       /\ IdOf(sent, r) = id /\ SourceOf(sent, r) = s /\ GoalOf(sent, r) = t /\ PathOf(sent, r) = m
  <2>1. r > 0 /\ r \in Int /\ Request \subseteq Int /\ Absent \notin Request
    BY RequestFacts
  <2>2. r \notin Keys(w, r)
    BY <1>7, <2>1, KeyFacts
  <2>3. Keys(sent, Absent) = Keys(w, r) \cup {r}
    BY <1>13, <1>14, <1>18, <2>1 DEF Keys
  <2>4. ASSUME NEW k \in Keys(w, r)
        PROVE  SameKey(w, sent, k)
    BY <1>7, <1>14, <1>18, KeyFacts DEF SameKey, IdOf, SourceOf, GoalOf, PathOf
  <2>5. /\ IdOf(sent, r) = id /\ SourceOf(sent, r) = s /\ GoalOf(sent, r) = t /\ PathOf(sent, r) = m
    BY <1>12, <1>13, <1>14, <1>18, <2>1 DEF IdOf, SourceOf, GoalOf, PathOf
  <2>6. QED
    BY <2>2, <2>3, <2>4, <2>5
<1>23. /\ Flying(sent, Absent) /\ Serving(sent)
       /\ \A p \in Pod : Pages(sent, p) \subseteq Pages(w, p)
  BY <1>7, <1>8, <1>19, <1>21, <1>22, TakeOff
<1>24. Lives(sent)
  <2>1. ASSUME NEW q \in Request
        PROVE  LifeOf(sent, q)
    <3>1. LifeOf(w, q)
      BY <1>8 DEF Lives
    <3>2. CASE q = r
      BY <1>13, <1>14, <1>18, <1>19, <1>20, <3>1, <3>2 DEF LifeOf, SameWork
    <3>3. CASE q # r
      BY <1>14, <1>18, <1>19, <3>1, <3>3 DEF LifeOf, SameWork
    <3>4. QED
      BY <3>2, <3>3
  <2>2. QED
    BY <2>1 DEF Lives
<1>25. Ticketed(sent, Absent)
  <2>1. ASSUME NEW q \in Request
        PROVE  Bound(sent, q)
    <3>1. Bound(w, q)
      BY <1>8 DEF Ticketed
    <3>2. CASE q = r
      BY <1>13, <1>14, <1>18, <1>19, <3>1, <3>2 DEF Bound, SameWork
    <3>3. CASE q # r
      BY <1>14, <1>18, <1>19, <3>1, <3>3 DEF Bound, SameWork
    <3>4. QED
      BY <3>2, <3>3
  <2>2. ASSUME NEW q \in Request
        PROVE  Settled(sent, q)
    <3>1. CASE q = r
      BY <1>13, <1>14, <1>18, <3>1 DEF Settled
    <3>2. CASE q # r
      <4>1. Settled(w, q)
        BY <1>8, <3>2 DEF Ticketed
      <4>2. QED
        BY <1>14, <1>18, <3>2, <4>1 DEF Settled
    <3>3. QED
      BY <3>1, <3>2
  <2>3. NoDup(sent.gate)
    BY <1>8, <1>18 DEF Ticketed
  <2>4. QED
    BY <2>1, <2>2, <2>3 DEF Ticketed
<1>26. Posted(sent)
  <2>1. \A q \in Request : sent.runs[q].pod = w.runs[q].pod
    BY <1>13, <1>14, <1>18
  <2>2. QED
    BY <1>8, <1>18, <2>1 DEF Posted, Ready
<1>27. NodeInv(sent, Absent) /\ Tame(w, sent)
  BY <1>6, <1>18, <1>23, <1>24, <1>25, <1>26 DEF NodeInv, Tame
<1>28. NodeInv(done, Absent) /\ Tame(sent, done)
  <2>1. "TRANSFER_COMPLETE" \in Kinds \ {Copying} /\ "TRANSFER_COMPLETE" # "SERVICE_START"
    BY DEF Kinds, Copying
  <2>2. ready \in Nat /\ ready >= sent.now
    BY <1>11, <1>18
  <2>3. done = Schedule(sent, ready, "TRANSFER_COMPLETE", r)
    BY DEF done
  <2>4. QED
    BY <1>27, <2>1, <2>2, <2>3, ScheduleOk
<1>29. QED
  BY <1>5, <1>27, <1>28 DEF Tame

-----------------------------------------------------------------------------
(* Refusals *)

(* Counters are no part of the invariant.                                  *)
LEMMA NumbersOk ==
    ASSUME NEW w, NEW h, NodeInv(w, h), NEW v \in World,
           v.now = w.now, v.pods = w.pods, v.runs = w.runs, v.gate = w.gate, v.events = w.events,
           v.copies = w.copies, v.outcome = w.outcome
    PROVE  NodeInv(v, h)
<1>1. w \in World /\ Lives(w) /\ Ticketed(w, h) /\ Flying(w, h) /\ Serving(w) /\ Posted(w)
  BY SMTT(30) DEF NodeInv
<1>2. Lives(v) /\ Ticketed(v, h) /\ Posted(v)
  BY <1>1 DEF Lives, LifeOf, Ticketed, Bound, Settled, Posted, Ready
<1>3. (\A p \in Pod : SameHold(w.pods[p], v.pods[p])) /\ SameMoves(w, v, h, h)
  BY SMTT(30) DEF SameHold, SameMoves
<1>4. Serving(v) /\ \A p \in Pod : HitOf(v, p) = HitOf(w, p)
  BY <1>1 DEF Serving, HitOf
<1>5. Flying(v, h)
  BY <1>1, <1>3, <1>4, FlyingFrame
<1>6. v.outcome = "running"
  BY DEF NodeInv
<1>7. QED
  BY <1>2, <1>4, <1>5, <1>6 DEF NodeInv

\* The cache of the idle pod p has changed, and holds the same pages.
Rearranged(w, v, p) ==
    /\ \A q \in Pod \ {p} : v.pods[q] = w.pods[q]
    /\ SameWork(w.pods[p], v.pods[p]) /\ v.pods[p].busy = w.pods[p].busy
    /\ v.pods[p].sends = w.pods[p].sends /\ v.pods[p].receives = w.pods[p].receives
    /\ CacheOk(v.pods[p].cache, Root, HitOf(w, p)) /\ SamePages(w.pods[p].cache, v.pods[p].cache)

(* A cache that evicts for a reservation keeps the invariant.              *)
LEMMA RearrangedOk ==
    ASSUME NEW w, NEW h, NodeInv(w, h), NEW v \in World, Others(w, v), NEW p \in Pod, ~Busy(w, p),
           Rearranged(w, v, p)
    PROVE  NodeInv(v, h) /\ Tame(w, v)
<1>1. w \in World /\ Lives(w) /\ Ticketed(w, h) /\ Flying(w, h) /\ Serving(w) /\ Posted(w)
  BY DEF NodeInv
<1>2. \A q \in Pod : SameWork(w.pods[q], v.pods[q]) /\ SamePrivate(w.pods[q].cache, v.pods[q].cache)
  BY DEF Rearranged, SameWork, SamePrivate, SamePages
<1>3. v.runs = w.runs /\ v.gate = w.gate /\ v.events = w.events /\ v.now = w.now /\ v.copies = w.copies
  BY DEF Others
<1>4. Lives(v) /\ Ticketed(v, h) /\ Posted(v)
  <2>1. Lives(v)
    BY <1>1, <1>2, <1>3 DEF Lives, LifeOf, SameWork
  <2>2. Ticketed(v, h)
    BY <1>1, <1>2, <1>3 DEF Ticketed, Bound, Settled, SameWork
  <2>3. Posted(v)
    BY <1>1, <1>3 DEF Posted, Ready
  <2>4. QED
    BY <2>1, <2>2, <2>3
<1>5. SameService(w, v)
  BY <1>2, <1>3 DEF SameService, SameWork
<1>6. Serving(v) /\ \A q \in Pod : HitOf(v, q) = HitOf(w, q)
  BY <1>1, <1>2, <1>5, ServiceFrame
<1>7. SameMoves(w, v, h, h)
  BY <1>3 DEF SameMoves
<1>8. /\ Keys(v, h) = Keys(w, h)
      /\ \A k \in Keys(w, h) : /\ IdOf(v, k) = IdOf(w, k) /\ SourceOf(v, k) = SourceOf(w, k)
                               /\ GoalOf(v, k) = GoalOf(w, k) /\ PathOf(v, k) = PathOf(w, k)
  BY <1>1, <1>7, KeysFrame
<1>9. /\ ~w.pods[p].sends /\ ~w.pods[p].receives
      /\ DOMAIN w.pods[p].cache.temporary = {} /\ w.pods[p].cache.temporaryPages = 0
      /\ \A k \in Keys(w, h) : p # SourceOf(w, k) /\ p # GoalOf(w, k)
  BY <1>1, IdleFacts
<1>10. ASSUME NEW k \in Keys(w, h)
       PROVE  Flown(v, k)
  <2>1. Flown(w, k) /\ SourceOf(w, k) \in Pod \ {p} /\ GoalOf(w, k) \in Pod \ {p}
    BY <1>1, <1>9 DEF Flying, Flown
  <2>2. v.pods[SourceOf(w, k)] = w.pods[SourceOf(w, k)] /\ v.pods[GoalOf(w, k)] = w.pods[GoalOf(w, k)]
    BY <2>1 DEF Rearranged
  <2>3. HitOf(v, SourceOf(w, k)) = HitOf(w, SourceOf(w, k))
    BY <1>6, <2>1
  <2>4. QED
    BY <1>8, <2>1, <2>2, <2>3 DEF Flown
<1>11. \A k, l \in Keys(w, h) :
          k # l => {SourceOf(v, k), GoalOf(v, k)} \cap {SourceOf(v, l), GoalOf(v, l)} = {}
  BY <1>1, <1>8 DEF Flying
<1>12. ASSUME NEW q \in Pod
       PROVE  LET pod == v.pods[q]
              IN  /\ pod.busy # Absent => \E k \in Keys(w, h) : q \in {SourceOf(w, k), GoalOf(w, k)}
                  /\ pod.sends => pod.busy # Absent
                  /\ pod.receives => pod.busy # Absent
                  /\ ~pod.sends => CacheOk(pod.cache, Root, HitOf(v, q))
                  /\ ~pod.receives => DOMAIN pod.cache.temporary = {} /\ pod.cache.temporaryPages = 0
  <2>1. CASE q = p
    <3>1. v.pods[p].busy = Absent /\ ~v.pods[p].sends /\ ~v.pods[p].receives
      BY <1>9 DEF Rearranged, Busy
    <3>2. DOMAIN v.pods[p].cache.temporary = {} /\ v.pods[p].cache.temporaryPages = 0
      BY <1>9 DEF Rearranged, SamePages
    <3>3. CacheOk(v.pods[p].cache, Root, HitOf(v, p))
      BY <1>6 DEF Rearranged
    <3>4. QED
      BY <2>1, <3>1, <3>2, <3>3
  <2>2. CASE q # p
    <3>1. v.pods[q] = w.pods[q]
      BY <2>2 DEF Rearranged
    <3>2. QED
      BY <1>1, <1>6, <3>1 DEF Flying
  <2>3. QED
    BY <2>1, <2>2
<1>13. Flying(v, h)
  BY <1>8, <1>10, <1>11, <1>12 DEF Flying
<1>14. \A q \in Pod : Pages(v, q) = Pages(w, q)
  BY DEF Rearranged, SamePages, Pages
<1>15. v.outcome = "running"
  BY DEF NodeInv, Others
<1>16. QED
  BY <1>4, <1>6, <1>13, <1>14, <1>15 DEF NodeInv, Tame, Others

(* A refusal undoes the pin, and as nothing was evicted for it nothing is  *)
(* lost.                                                                   *)
LEMMA UnreservedOk ==
    ASSUME NEW w, NEW h, NodeInv(w, h), NEW s \in Pod, NEW t \in Pod \ {s}, NEW m \in Node,
           ~Busy(w, s), ~Busy(w, t), Chain[m] \subseteq Pages(w, s), ~CanReserve(w, t, m),
           NEW v, v = Unreserved(w, s, t, m)
    PROVE  NodeInv(v, h) /\ Tame(w, v) /\ Others(w, v)
<1> DEFINE c == Unpin(Pin(w.pods[s].cache, m), m)
           a == [w.pods[s] EXCEPT !.cache = c]
           x == [w EXCEPT !.pods[s].cache = Unpin(Pin(@, m), m)]
<1>1. w \in World /\ Flying(w, h) /\ w.pods[s] \in PodRecord /\ w.pods[t] \in PodRecord
  BY Parts DEF NodeInv
<1>2. CacheOk(c, Root, HitOf(w, s)) /\ SamePages(w.pods[s].cache, c)
  <2>1. CacheOk(w.pods[s].cache, Root, HitOf(w, s)) /\ Chain[m] \subseteq w.pods[s].cache.pages
    BY <1>1, IdleFacts DEF Pages
  <2>2. /\ CacheOk(Pin(w.pods[s].cache, m), m, HitOf(w, s))
        /\ SamePages(w.pods[s].cache, Pin(w.pods[s].cache, m))
    BY <2>1, PinOk
  <2>3. CacheOk(c, Root, HitOf(w, s)) /\ SamePages(Pin(w.pods[s].cache, m), c)
    BY <2>2, UnpinOk
  <2>4. QED
    BY <2>2, <2>3 DEF SamePages
<1>3. Put(w, x, s, a)
  BY DEF Put
<1> HIDE DEF c
<1>4. /\ a \in PodRecord /\ a.cache = c /\ SameWork(w.pods[s], a) /\ a.busy = w.pods[s].busy
      /\ a.sends = w.pods[s].sends /\ a.receives = w.pods[s].receives
  BY <1>1, <1>2 DEF PodRecord, SameWork, CacheOk
<1> HIDE DEF a, x
<1>5. /\ x \in World /\ Others(w, x) /\ x.pods[s] = a
      /\ \A q \in Pod \ {s} : x.pods[q] = w.pods[q]
  BY <1>1, <1>3, <1>4, PutFacts
<1>6. Rearranged(w, x, s)
  BY <1>2, <1>4, <1>5 DEF Rearranged
<1>7. NodeInv(x, h) /\ Tame(w, x)
  BY <1>5, <1>6, RearrangedOk
<1>8. Room(x.pods[t].cache, Depth(m)) = x.pods[t].cache
  <2>1. CacheOk(w.pods[t].cache, Root, HitOf(w, t)) /\ x.pods[t] = w.pods[t]
    BY <1>1, <1>5, IdleFacts
  <2>2. Depth(m) \in Nat /\ ~Admitted(w.pods[t].cache, Depth(m))
    BY ChainFacts DEF CanReserve
  <2>3. QED
    BY <2>1, <2>2, RoomOk
<1>9. v = [x EXCEPT !.pods[t].cache = Room(@, Depth(m))]
  BY DEF Unreserved, x, Check, Holds, Pages
<1>10. v = x
  <2>1. x.pods \in [Pod -> PodRecord] /\ x.pods[t] \in PodRecord
    BY <1>5 DEF World
  <2>2. [x.pods[t] EXCEPT !.cache = Room(@, Depth(m))] = x.pods[t]
    BY <1>8, <2>1 DEF PodRecord
  <2>3. [x.pods EXCEPT ![t] = [x.pods[t] EXCEPT !.cache = Room(@, Depth(m))]] = x.pods
    BY <2>1, <2>2
  <2>4. v = [x EXCEPT !.pods = [x.pods EXCEPT ![t] = [x.pods[t] EXCEPT !.cache = Room(@, Depth(m))]]]
    BY <1>9
  <2>5. v = [x EXCEPT !.pods = x.pods]
    BY <2>3, <2>4
  <2>6. QED
    BY <1>5, <2>5 DEF World
<1>11. QED
  BY <1>5, <1>7, <1>10

(* A ticket that has been planned anew.                                    *)
LEMMA TryTicketOk ==
    ASSUME NEW w, NodeInv(w, Absent), NEW r \in Request, In(w.gate, r),
           Chain[w.runs[r].ticket.path] \subseteq Pages(w, w.runs[r].ticket.source),
           NEW v, v = TryTicket(w, r), v.outcome = "running"
    PROVE  NodeInv(v, Absent) /\ Tame(w, v)
<1> DEFINE k == w.runs[r].ticket
           id == k.id
           s == k.source
           t == k.target
           m == k.path
           left == LeaveGate(w, r, "TRANSFER_RUNNING")
           back == Unreserved(w, s, t, m)
<1>1. Bound(w, r) /\ Settled(w, r)
  BY RequestFacts DEF NodeInv, Ticketed
<1>2. /\ w.runs[r].state = "ARRIVED" /\ id \in Nat /\ s \in Pod /\ t \in Pod /\ s # t /\ m \in Node
      /\ k.owner # Absent /\ k.state = "QUEUED"
  BY <1>1, Parts DEF Bound, Settled
<1>3. NodeInv(w, r) /\ w.runs[r] \in RunRecord /\ k \in TicketRecord
  BY <1>2, InHand, Parts
<1>4. /\ NodeInv(left, r) /\ Tame(w, left) /\ ~In(left.gate, r)
      /\ left.runs[r] = [w.runs[r] EXCEPT !.ticket.state = "TRANSFER_RUNNING"]
  BY <1>3, LeaveOk DEF TicketStates
<1>5. /\ left.runs[r].state = "ARRIVED" /\ left.runs[r].ticket.state = "TRANSFER_RUNNING"
      /\ left.runs[r].ticket.owner # Absent
  BY <1>2, <1>3, <1>4 DEF RunRecord, TicketRecord
<1>6. left.pods = w.pods
  <2>1. "pods" \in DOMAIN w
    BY Parts DEF Fields
  <2>2. QED
    BY <2>1 DEF LeaveGate
<1>7. /\ v = w
      \/ v = Blocked(w, r)
      \/ /\ ~Busy(w, s) /\ ~Busy(w, t) /\ CanReserve(w, t, m)
         /\ v = StartTransfer(left, r, id, s, t, m)
      \/ /\ ~Busy(w, s) /\ ~Busy(w, t) /\ ~CanReserve(w, t, m)
         /\ v = Blocked(back, r)
  BY DEF TryTicket
<1> HIDE DEF left, back
<1>8. CASE v = w
  BY <1>8 DEF Tame
<1>9. CASE v = Blocked(w, r)
  BY <1>9, BlockedOk
<1>10. CASE /\ ~Busy(w, s) /\ ~Busy(w, t) /\ CanReserve(w, t, m)
            /\ v = StartTransfer(left, r, id, s, t, m)
  <2>1. Clear(left, s, t, m)
    <3>1. Chain[m] \subseteq Pages(w, s)
      OBVIOUS
    <3>2. s \in Pod /\ t \in Pod /\ s # t /\ m \in Node
      BY SMTT(30), <1>2
    <3>3. ~Busy(w, s) /\ ~Busy(w, t) /\ CanReserve(w, t, m)
      BY <1>10
    <3> HIDE DEF k, id, s, t, m
    <3>4. QED
      BY <1>6, <3>1, <3>2, <3>3 DEF Clear, Busy, Pages, CanReserve
  <2>2. /\ left.runs[r].state = "ARRIVED" /\ ~In(left.gate, r) /\ left.runs[r].ticket.state # "QUEUED"
        /\ left.runs[r].ticket.owner # Absent <=> left.runs[r].ticket.state = "TRANSFER_RUNNING"
    BY SMTT(30), <1>4, <1>5
  <2>3. NodeInv(left, r) /\ Tame(w, left) /\ id \in Nat /\ v = StartTransfer(left, r, id, s, t, m)
    BY <1>2, <1>4, <1>10
  <2> HIDE DEF k, id, s, t, m
  <2>4. NodeInv(v, Absent) /\ Tame(left, v)
    BY <2>1, <2>2, <2>3, StartTransferOk
  <2>5. QED
    BY <2>3, <2>4 DEF Tame
<1>11. CASE /\ ~Busy(w, s) /\ ~Busy(w, t) /\ ~CanReserve(w, t, m)
            /\ v = Blocked(back, r)
  <2>1. NodeInv(back, Absent) /\ Tame(w, back)
    BY <1>2, <1>11, UnreservedOk DEF back
  <2>2. NodeInv(v, Absent) /\ Tame(back, v)
    BY <1>11, <2>1, BlockedOk
  <2>3. QED
    BY SMTT(30), <2>1, <2>2 DEF Tame
<1>12. QED
  BY <1>7, <1>8, <1>9, <1>10, <1>11

-----------------------------------------------------------------------------
(* R_REQ_KV and R_REQ_KV_TASK *)

(* A ticket is given up at its turn.                                       *)
LEMMA CancelOk ==
    ASSUME NEW w, NEW r \in Request, NodeInv(w, r), In(w.gate, r),
           NEW v, v = CancelToAff(w, r), v.outcome = "running"
    PROVE  NodeInv(v, Absent) /\ Tame(w, v)
<1> DEFINE run == [w.runs[r] EXCEPT !.ticket.state = "CANCELLED"]
           u == [w EXCEPT !.runs[r].ticket.state = "CANCELLED"]
<1>1. w \in World /\ w.runs[r] \in RunRecord /\ w.runs[r].ticket \in TicketRecord
  BY Parts
<1>2. run \in RunRecord /\ Quiet(w.runs[r], run) /\ run.ticket.state = "CANCELLED"
  BY <1>1 DEF RunRecord, TicketRecord, TicketStates, Quiet
<1>3. v = FallbackAff(u, r) /\ Jotted(w, u, r, run)
  BY <1>1 DEF CancelToAff, World, Jotted
<1> HIDE DEF run, u
<1>4. NodeInv(u, r) /\ Tame(w, u) /\ u.gate = w.gate /\ u.runs[r] = run
  BY <1>2, <1>3, RunNoteOk
<1>5. u.runs[r].ticket.state = "NONE" <=> ~In(u.gate, r)
  BY <1>2, <1>4
<1>6. NodeInv(v, Absent) /\ Tame(u, v)
  <2>1. u.runs[r].state = w.runs[r].state
    BY <1>2, <1>4 DEF Quiet
  <2>2. w.runs[r].state = "ARRIVED"
    BY DEF NodeInv, Ticketed, Bound
  <2>3. QED
    BY <1>3, <1>4, <1>5, <2>1, <2>2, FallbackOk
<1>7. QED
  BY <1>4, <1>6 DEF Tame

(* What a plan announces is work, with or without a prefix to come.        *)
LEMMA PlannedNat ==
    ASSUME NEW w \in World, NEW t \in Pod, NEW n \in Node, NEW m \in Node,
           Chain[m] \subseteq Chain[n]
    PROVE  Planned(w, t, n, m) \in Nat /\ Planned(w, t, n, m) > 0 /\ Service(n, m) \in Nat /\ Service(n, m) > 0
<1>1. Service(n, Hit(w, t, n)) \in Nat /\ Service(n, Hit(w, t, n)) > 0
  BY HitFacts
<1>2. Depth(n) \in Nat /\ Depth(m) \in Nat /\ Depth(m) <= Depth(n)
  <2>1. Chain[n] \subseteq Block /\ Chain[m] \subseteq Block /\ IsFiniteSet(Chain[n])
    BY ChainFacts
  <2>2. Cardinality(Chain[m]) <= Cardinality(Chain[n])
    BY <2>1, FS_Subset
  <2>3. QED
    BY <2>2, ChainFacts DEF Depth
<1>3. Service(n, m) \in Nat /\ Service(n, m) > 0
  <2>1. BaseService \in Nat \ {0} /\ PageService \in Nat
    BY NodeAssumption
  <2>2. Depth(n) - Depth(m) \in Nat
    BY <1>2
  <2>3. PageService * (Depth(n) - Depth(m)) \in Nat
    BY <2>1, <2>2
  <2>4. QED
    BY <2>1, <2>3 DEF Service
<1>4. QED
  BY <1>1, <1>3 DEF Planned

(* What an idle pod holds fits.                                            *)
LEMMA HeldFits ==
    ASSUME NEW w, NEW h, NodeInv(w, h), NEW s \in Pod, ~Busy(w, s), NEW m \in Node,
           Chain[m] \subseteq Pages(w, s)
    PROVE  ~(Depth(m) > Capacity)
<1> DEFINE c == w.pods[s].cache
<1>1. CacheOk(c, Root, HitOf(w, s))
  BY IdleFacts DEF NodeInv
<1>2. /\ c.pages \subseteq Block /\ c.resident = Cardinality(c.pages)
      /\ c.privatePages >= 0 /\ c.temporaryPages >= 0 /\ MemoryUsed(c) <= Capacity
      /\ c.resident \in Int /\ c.privatePages \in Int /\ c.temporaryPages \in Int
      /\ Chain[m] \subseteq c.pages
  BY <1>1 DEF CacheOk, PrefixCache, Counted, Pages
<1> HIDE DEF c
<1>3. IsFiniteSet(c.pages) /\ Cardinality(c.pages) \in Nat
  BY <1>2, PagesGrow
<1>4. Cardinality(Chain[m]) <= Cardinality(c.pages)
  BY <1>2, <1>3, FS_Subset
<1>5. Depth(m) \in Nat /\ Capacity \in Nat
  BY ChainFacts, SizeAssumption
<1>6. QED
  BY <1>2, <1>3, <1>4, <1>5 DEF Depth, MemoryUsed

(* What the turn of a ticket of R_REQ_KV or R_REQ_KV_TASK comes to.        *)
LEMMA AdmitB0Cases ==
    ASSUME NEW w, NEW r
    PROVE  LET n == w.runs[r].path
               v == DropPressure(w, r)
               s == Affinity(v, n)
               m == Transferable(v, s, n)
               t == TargetOf(v, n, s)
               x == AdmitB0(w, r)
           IN  \/ x = Blocked(w, r)
               \/ x = CancelToAff(v, r)
               \/ x = EnqueueReady(LeaveGate(v, r, "CANCELLED"), r, t)
               \/ m # Root /\ ~(IsTask /\ t = s) /\ Depth(m) > Capacity /\ ~Busy(v, s)
               \/ /\ m # Root /\ ~(IsTask /\ t = s)
                  /\ x = TryTicket(Replan(v, r, s, t, m, Planned(v, t, n, m)), r)
<1> DEFINE n == w.runs[r].path
           old == w.runs[r].ticket
           v == DropPressure(w, r)
           s == Affinity(v, n)
           m == Transferable(v, s, n)
           t == TargetOf(v, n, s)
           tried == TryTicket(Replan(v, r, s, t, m, Planned(v, t, n, m)), r)
           refused == [tried EXCEPT !.runs[r].blocked = w.runs[r].blocked]
           left == LeaveGate(v, r, "CANCELLED")
           placed == EnqueueReady(left, r, t)
<1>1. AdmitB0(w, r) =
         IF Busy(w, old.source) \/ Busy(w, old.target) THEN Blocked(w, r)
         ELSE IF m = Root \/ (IsTask /\ t = s) THEN CancelToAff(v, r)
         ELSE IF Holds(v, t, m) THEN placed
         ELSE IF \/ NotLoaded(v, s, t)
                 \/ ~IsTask /\ (SmallHit(n, m) \/ Load(v, s) - Load(v, t) < LoadGap)
           THEN CancelToAff(v, r)
         ELSE IF Depth(m) > Capacity /\ ~Busy(v, s) /\ ~Busy(v, t) THEN CancelToAff(refused, r)
         ELSE tried
  BY DEF AdmitB0
<1> HIDE DEF n, v, s, m, t, old, tried, refused, placed
<1>2. \/ AdmitB0(w, r) = Blocked(w, r)
      \/ AdmitB0(w, r) = CancelToAff(v, r)
      \/ AdmitB0(w, r) = placed
      \/ m # Root /\ ~(IsTask /\ t = s) /\ Depth(m) > Capacity /\ ~Busy(v, s)
      \/ m # Root /\ ~(IsTask /\ t = s) /\ AdmitB0(w, r) = tried
  BY <1>1
<1>3. QED
  BY <1>2 DEF n, v, s, m, t, tried, placed, left

(* The turn of a ticket of R_REQ_KV or R_REQ_KV_TASK.                      *)
LEMMA AdmitB0Ok ==
    ASSUME NEW w, NodeInv(w, Absent), NEW r \in Request, In(w.gate, r),
           NEW x, x = AdmitB0(w, r), x.outcome = "running"
    PROVE  NodeInv(x, Absent) /\ Tame(w, x)
<1> DEFINE n == w.runs[r].path
           old == w.runs[r].ticket
           v == DropPressure(w, r)
           s == Affinity(v, n)
           m == Transferable(v, s, n)
           t == TargetOf(v, n, s)
           service == Planned(v, t, n, m)
           u == Replan(v, r, s, t, m, service)
           tried == TryTicket(u, r)
           left == LeaveGate(v, r, "CANCELLED")
<1>1. Bound(w, r) /\ Settled(w, r)
  BY RequestFacts DEF NodeInv, Ticketed
<1>2. /\ w.runs[r].state = "ARRIVED" /\ n \in Node /\ w.runs[r].ticket.state = "QUEUED"
      /\ w.runs[r] \in RunRecord /\ w.runs[r].ticket \in TicketRecord
  BY <1>1, Parts DEF Bound, Settled
<1>3. /\ NodeInv(v, r) /\ Tame(w, v) /\ In(v.gate, r)
      /\ v.runs[r] = [w.runs[r] EXCEPT !.ticket.owner = Absent]
  BY <1>2, DropOk
<1>4. /\ v.runs[r].state = "ARRIVED" /\ v.runs[r].ticket.owner = Absent
      /\ v.runs[r].ticket.state = "QUEUED"
  BY <1>2, <1>3 DEF RunRecord, TicketRecord
<1>5. \/ x = Blocked(w, r)
      \/ x = CancelToAff(v, r)
      \/ x = EnqueueReady(left, r, t)
      \/ /\ m # Root /\ ~(IsTask /\ t = s) /\ Depth(m) > Capacity /\ ~Busy(v, s)
      \/ /\ m # Root /\ ~(IsTask /\ t = s) /\ x = tried
  BY AdmitB0Cases
<1> HIDE DEF v, old
<1>6. v \in World
  BY <1>3, Parts
<1>7. s \in Pod
  BY <1>2, <1>6, AffinityIn
<1>8. /\ m \in Node /\ Chain[m] \subseteq Chain[n] /\ Chain[m] \subseteq Pages(v, s)
  BY <1>2, <1>7, TransferableIn
<1>9. t \in Pod /\ (~(IsTask /\ t = s) => t \in Pod \ {s})
  BY <1>2, <1>6, <1>7, RoutesIn DEF TargetOf
<1>10. service \in Nat /\ service > 0
  BY <1>2, <1>6, <1>8, <1>9, PlannedNat
<1> HIDE DEF n, s, m, t, service
<1>11. CASE x = Blocked(w, r)
  BY <1>11, BlockedOk
<1>12. CASE x = CancelToAff(v, r)
  <2>1. NodeInv(x, Absent) /\ Tame(v, x)
    BY <1>3, <1>12, CancelOk
  <2>2. QED
    BY <1>3, <2>1 DEF Tame
<1>13. CASE x = EnqueueReady(left, r, t)
  <2>1. /\ NodeInv(left, r) /\ Tame(v, left) /\ ~In(left.gate, r)
        /\ left.runs[r] = [v.runs[r] EXCEPT !.ticket.state = "CANCELLED"]
    BY <1>3, LeaveOk DEF TicketStates
  <2>2. v.runs[r] \in RunRecord /\ v.runs[r].ticket \in TicketRecord
    BY <1>3, Parts
  <2>3. left.runs[r].ticket.state \notin {"QUEUED", "TRANSFER_RUNNING"} /\ left.runs[r].state # "NONE"
    BY <1>4, <2>1, <2>2 DEF RunRecord, TicketRecord
  <2>4. NodeInv(left, r) /\ Tame(v, left) /\ ~In(left.gate, r)
    BY <2>1
  <2> HIDE DEF left
  <2>5. NodeInv(x, Absent) /\ Tame(left, x)
    BY <1>9, <1>13, <2>3, <2>4, EnqueueOk
  <2>6. QED
    BY <1>3, <2>4, <2>5 DEF Tame
<1>14. CASE /\ m # Root /\ ~(IsTask /\ t = s) /\ Depth(m) > Capacity /\ ~Busy(v, s)
  BY <1>3, <1>7, <1>8, <1>14, HeldFits
<1>15. CASE /\ m # Root /\ ~(IsTask /\ t = s) /\ x = tried
  <2>1. t \in Pod \ {s}
    BY <1>9, <1>15
  <2>2. NodeInv(v, r) /\ In(v.gate, r)
    BY <1>3
  <2> HIDE DEF u, tried
  <2>3. /\ NodeInv(u, Absent) /\ Tame(v, u) /\ u.gate = v.gate
        /\ PlannedFor(v, u, r, s, t, m)
        /\ \A p \in Pod : SameHold(v.pods[p], u.pods[p])
    BY <1>4, <1>7, <1>8, <1>10, <2>1, <2>2, ReplanOk DEF u
  <2>4. Chain[u.runs[r].ticket.path] \subseteq Pages(u, u.runs[r].ticket.source) /\ In(u.gate, r)
    BY <1>7, <1>8, <2>2, <2>3 DEF PlannedFor, SameHold, Pages
  <2>5. NodeInv(x, Absent) /\ Tame(u, x)
    BY <1>15, <2>3, <2>4, TryTicketOk DEF tried
  <2>6. QED
    BY <1>3, <2>3, <2>5 DEF Tame
<1>16. QED
  BY <1>5, <1>11, <1>12, <1>13, <1>14, <1>15

-----------------------------------------------------------------------------
(* Arrivals *)

\* Request r has arrived and has no ticket.
Fresh(w, r) ==
    /\ w.runs[r].state = "ARRIVED" /\ ~In(w.gate, r)
    /\ w.runs[r].ticket.state = "NONE" /\ w.runs[r].ticket.owner = Absent

(* Who knows no ticket of a request falls back to no gate.                 *)
LEMMA FreshLeaves ==
    ASSUME NEW w, NEW r \in Request, NodeInv(w, r), Fresh(w, r), NEW v, v.outcome = "running",
           \/ \E p \in Pod : v = EnqueueReady(w, r, p)
           \/ v = FallbackAff(w, r)
    PROVE  NodeInv(v, Absent) /\ Tame(w, v)
<1>1. ~In(w.gate, r) /\ w.runs[r].ticket.state = "NONE" /\ w.runs[r].state # "NONE"
  BY DEF Fresh
<1>2. CASE \E p \in Pod : v = EnqueueReady(w, r, p)
  BY <1>1, <1>2, EnqueueOk
<1>3. CASE v = FallbackAff(w, r)
  BY <1>1, <1>3, FallbackOk
<1>4. QED
  BY <1>2, <1>3

(* The gate a request stopped at is noted.                                 *)
LEMMA GateNoted ==
    ASSUME NEW w, NEW r \in Request, NodeInv(w, r), Fresh(w, r), NEW gate \in Gates
    PROVE  LET v == [w EXCEPT !.runs[r].gate = gate]
           IN  NodeInv(v, r) /\ Tame(w, v) /\ Fresh(v, r) /\ v.pods = w.pods /\ v.now = w.now
<1> DEFINE run == [w.runs[r] EXCEPT !.gate = gate]
           v == [w EXCEPT !.runs[r].gate = gate]
<1>1. w \in World /\ w.runs[r] \in RunRecord
  BY Parts
<1>2. run \in RunRecord /\ Quiet(w.runs[r], run) /\ run.ticket = w.runs[r].ticket
  BY <1>1 DEF RunRecord, Quiet
<1>3. Jotted(w, v, r, run)
  BY DEF Jotted
<1> HIDE DEF run, v
<1>4. NodeInv(v, r) /\ Tame(w, v) /\ v.gate = w.gate /\ v.pods = w.pods /\ v.runs[r] = run
  BY <1>2, <1>3, RunNoteOk
<1>5. Fresh(v, r) /\ v.now = w.now
  BY <1>2, <1>4 DEF Fresh, Quiet, Tame
<1>6. QED
  BY <1>4, <1>5 DEF v

(* What the arrival of R_REQ_KV or R_REQ_KV_TASK comes to.                 *)
LEMMA B0Cases ==
    ASSUME NEW w, NEW r
    PROVE  LET n == w.runs[r].path
               s == Affinity(w, n)
               m == Transferable(w, s, n)
               t == TargetOf(w, n, s)
               v == B0Arrival(w, r)
           IN  \E gate \in Gates :
                  LET noted == [w EXCEPT !.runs[r].gate = gate]
                  IN  \/ ~(IsTask /\ t = s) /\ v = CreateTicket(noted, r, s, t, m, Planned(w, t, n, m))
                      \/ v = EnqueueReady(noted, r, t)
                      \/ v = FallbackAff(noted, r)
<1> DEFINE n == w.runs[r].path
           s == Affinity(w, n)
           m == Transferable(w, s, n)
           t == TargetOf(w, n, s)
           gate == IF Hit(w, s, n) = Root THEN "NO_CACHE_SOURCE"
                   ELSE IF IsTask THEN TaskGate(w, s, m, t) ELSE KvGate(w, n, s, m, t)
           noted == [w EXCEPT !.runs[r].gate = gate]
           v == B0Arrival(w, r)
<1>1. v = CASE gate = "TRANSFER_SELECTED" -> CreateTicket(noted, r, s, t, m, Planned(w, t, n, m))
            [] gate = "TARGET_ALREADY_HAS_PREFIX" -> EnqueueReady(noted, r, t)
            [] OTHER -> FallbackAff(noted, r)
  BY DEF B0Arrival
<1>2. gate \in Gates
  <2> HIDE DEF n, s, m, t
  <2>1. TaskGate(w, s, m, t) \in Gates
    BY DEF TaskGate, TaskGates, Gates
  <2>2. KvGate(w, n, s, m, t) \in Gates
    BY DEF KvGate, TaskGates, Gates
  <2>3. QED
    BY <2>1, <2>2 DEF TaskGates, Gates
<1>3. gate = "TRANSFER_SELECTED" => ~(IsTask /\ t = s)
  <2> HIDE DEF n, s, m, t
  <2>1. t = s => TaskGate(w, s, m, t) # "TRANSFER_SELECTED"
    BY DEF TaskGate
  <2>2. QED
    BY <2>1
<1> HIDE DEF gate
<1>4. \/ ~(IsTask /\ t = s) /\ v = CreateTicket(noted, r, s, t, m, Planned(w, t, n, m))
      \/ v = EnqueueReady(noted, r, t)
      \/ v = FallbackAff(noted, r)
  <2> HIDE DEF noted, n, s, m, t, v
  <2>1. QED
    BY <1>1, <1>3
<1>5. QED
  BY <1>2, <1>4

(* An arrival under R_REQ_KV and R_REQ_KV_TASK.                            *)
LEMMA B0ArrivalOk ==
    ASSUME NEW w, NEW r \in Request, NodeInv(w, r), Fresh(w, r), Tickets,
           NEW v, v = B0Arrival(w, r), v.outcome = "running"
    PROVE  NodeInv(v, Absent) /\ Tame(w, v)
<1> DEFINE n == w.runs[r].path
           s == Affinity(w, n)
           m == Transferable(w, s, n)
           t == TargetOf(w, n, s)
           service == Planned(w, t, n, m)
<1>1. PICK gate \in Gates :
          LET noted == [w EXCEPT !.runs[r].gate = gate]
          IN  \/ ~(IsTask /\ t = s) /\ v = CreateTicket(noted, r, s, t, m, service)
              \/ v = EnqueueReady(noted, r, t)
              \/ v = FallbackAff(noted, r)
  BY B0Cases
<1>2. w \in World /\ n \in Node
  BY Parts
<1>3. s \in Pod
  BY <1>2, AffinityIn
<1>4. m \in Node /\ Chain[m] \subseteq Chain[n]
  BY <1>2, <1>3, TransferableIn
<1>5. t \in Pod /\ (~(IsTask /\ t = s) => t \in Pod \ {s})
  BY <1>2, <1>3, RoutesIn DEF TargetOf
<1>6. service \in Nat /\ service > 0
  BY <1>2, <1>4, <1>5, PlannedNat
<1> DEFINE u == [w EXCEPT !.runs[r].gate = gate]
<1>7. NodeInv(u, r) /\ Tame(w, u) /\ Fresh(u, r)
  BY <1>1, GateNoted
<1>8. \/ ~(IsTask /\ t = s) /\ v = CreateTicket(u, r, s, t, m, service)
      \/ v = EnqueueReady(u, r, t)
      \/ v = FallbackAff(u, r)
  BY <1>1
<1> HIDE DEF n, s, m, t, service, u
<1>9. CASE ~(IsTask /\ t = s) /\ v = CreateTicket(u, r, s, t, m, service)
  <2>1. u.runs[r].state = "ARRIVED" /\ ~In(u.gate, r) /\ u.runs[r].ticket.owner = Absent
    BY <1>7 DEF Fresh
  <2>2. t \in Pod \ {s} /\ v = CreateTicket(u, r, s, t, m, service)
    BY <1>5, <1>9
  <2>3. NodeInv(v, Absent) /\ Tame(u, v)
    BY <1>3, <1>4, <1>6, <1>7, <2>1, <2>2, TicketOk
  <2>4. QED
    BY <1>7, <2>3 DEF Tame
<1>10. CASE v = EnqueueReady(u, r, t) \/ v = FallbackAff(u, r)
  <2>1. NodeInv(v, Absent) /\ Tame(u, v)
    BY <1>5, <1>7, <1>10, FreshLeaves
  <2>2. QED
    BY <1>7, <2>1 DEF Tame
<1>11. QED
  BY <1>8, <1>9, <1>10

Addressing(w, r, s, t, m) ==
    [w EXCEPT !.nextTransfer = @ + 1,
              !.runs[r].transfer = [id |-> w.nextTransfer, source |-> s, target |-> t,
                                    path |-> m, ready |-> 0]]

\* The transfer of request r is x, and the next number is spent.
Addressed(w, v, r, runs) == v = [w EXCEPT !.runs = runs, !.nextTransfer = @ + 1]

(* R_REQ_KV_SIMPLE names a transfer and tries it later.                    *)
LEMMA AddressOk ==
    ASSUME NEW w, NEW r \in Request, NodeInv(w, r), Fresh(w, r), Simple,
           NEW s \in Pod, NEW t \in Pod \ {s}, NEW m \in Node
    PROVE  LET u == Addressing(w, r, s, t, m) IN NodeInv(u, Absent) /\ Tame(w, u)
<1> DEFINE x == [id |-> w.nextTransfer, source |-> s, target |-> t, path |-> m, ready |-> 0]
           run == [w.runs[r] EXCEPT !.transfer = x]
           runs == [w.runs EXCEPT ![r] = run]
           u == Addressing(w, r, s, t, m)
<1>1. /\ w \in World /\ w.runs \in [Request -> RunRecord] /\ w.runs[r] \in RunRecord
      /\ w.outcome = "running" /\ w.nextTransfer \in Nat /\ Lives(w) /\ Ticketed(w, r)
  BY Parts DEF NodeInv
<1>2. x \in TransferRecord /\ x.id \in Nat /\ x.source = s /\ x.target = t
  BY <1>1, RequestFacts DEF TransferRecord
<1>3. Addressed(w, u, r, runs)
  BY DEF Addressed, Addressing
<1> HIDE DEF x
<1>4. /\ run \in RunRecord /\ run.transfer = x
      /\ run.state = "ARRIVED" /\ run.owner = w.runs[r].owner /\ run.pod = w.runs[r].pod
      /\ run.path = w.runs[r].path /\ run.hit = w.runs[r].hit /\ run.ticket = w.runs[r].ticket
      /\ run.arrival = w.runs[r].arrival
  BY <1>1, <1>2 DEF RunRecord, Fresh
<1> HIDE DEF run
<1>5. runs \in [Request -> RunRecord] /\ runs[r] = run /\ \A q \in Request \ {r} : runs[q] = w.runs[q]
  BY <1>1, <1>4
<1> HIDE DEF u, runs
<1>6. /\ u \in World /\ u.runs = runs /\ u.pods = w.pods /\ u.gate = w.gate /\ u.now = w.now
      /\ u.events = w.events /\ u.copies = w.copies /\ u.tokens = w.tokens
      /\ u.refilled = w.refilled /\ u.replicas = w.replicas /\ u.gone = w.gone
      /\ u.outcome = w.outcome
  <2>1. w.nextTransfer + 1 \in Nat
    BY <1>1
  <2>2. QED
    BY <1>1, <1>3, <1>5, <2>1 DEF World, Addressed
<1>7. Touch(w, u, r)
  BY <1>4, <1>5, <1>6 DEF Touch, SameHold
<1>8. LifeOf(u, r)
  BY <1>1, <1>4, <1>5, <1>6 DEF Lives, LifeOf, Fresh
<1>9. Bound(u, r) /\ NoDup(u.gate)
  BY <1>1, <1>4, <1>5, <1>6 DEF Ticketed, Bound, Fresh
<1>10. Settled(u, r)
  BY <1>2, <1>4, <1>5, <1>6 DEF Settled, Fresh
<1>11. NodeInv(u, Absent) /\ Tame(w, u)
  <2>1. u.runs[r].state # "WAITING_TRANSFER" /\ u.outcome = "running"
    BY <1>1, <1>4, <1>5, <1>6
  <2>2. QED
    BY <1>6, <1>7, <1>8, <1>9, <1>10, <2>1, TouchOk, RequestFacts
<1>12. QED
  BY <1>11 DEF u

(* What an arrival under R_REQ_KV_SIMPLE does.                             *)
LEMMA SimpleCases ==
    ASSUME NEW w, NEW r
    PROVE  LET n == w.runs[r].path
               s == Affinity(w, n)
               t == Least(w)
               m == Transferable(w, s, n)
               u == Addressing(w, r, s, t, m)
               v == SimpleArrival(w, r)
           IN  \/ v = EnqueueReady(w, r, s)
               \/ v = EnqueueReady(w, r, t)
               \/ s # t /\ v = Schedule(u, w.now, "TRANSFER_ADMIT", r)
<1> DEFINE n == w.runs[r].path
           s == Affinity(w, n)
           t == Least(w)
           m == Transferable(w, s, n)
           u == Addressing(w, r, s, t, m)
           later == Schedule(u, w.now, "TRANSFER_ADMIT", r)
           v == SimpleArrival(w, r)
<1>1. v = IF Hit(w, s, n) = Root \/ s = t THEN EnqueueReady(w, r, s)
          ELSE IF Holds(w, t, m) THEN EnqueueReady(w, r, t)
          ELSE IF NotLoaded(w, s, t) THEN EnqueueReady(w, r, s)
          ELSE later
  BY DEF SimpleArrival, Addressing
<1> HIDE DEF later
<1>2. v = EnqueueReady(w, r, s) \/ v = EnqueueReady(w, r, t) \/ (s # t /\ v = later)
  <2> HIDE DEF n, s, t, m, u, v
  <2>1. QED
    BY <1>1
<1>3. QED
  BY <1>2 DEF later

(* It keeps the invariant.                                                 *)
LEMMA SimpleArrivalOk ==
    ASSUME NEW w, NEW r \in Request, NodeInv(w, r), Fresh(w, r), Simple,
           NEW v, v = SimpleArrival(w, r), v.outcome = "running"
    PROVE  NodeInv(v, Absent) /\ Tame(w, v)
<1> DEFINE n == w.runs[r].path
           s == Affinity(w, n)
           t == Least(w)
           m == Transferable(w, s, n)
           u == Addressing(w, r, s, t, m)
<1>1. v = EnqueueReady(w, r, s) \/ v = EnqueueReady(w, r, t)
      \/ (s # t /\ v = Schedule(u, w.now, "TRANSFER_ADMIT", r))
  BY SimpleCases
<1>2. w \in World /\ n \in Node /\ w.now \in Nat
  BY Parts
<1>3. s \in Pod /\ t \in Pod
  BY <1>2, AffinityIn, RoutesIn
<1>4. m \in Node
  BY <1>2, <1>3, TransferableIn
<1>5. s # t => NodeInv(u, Absent) /\ Tame(w, u)
  <2> HIDE DEF n, s, t, m
  <2>1. QED
    BY <1>3, <1>4, AddressOk
<1> HIDE DEF n, s, t, m, u
<1>6. CASE v = EnqueueReady(w, r, s) \/ v = EnqueueReady(w, r, t)
  BY <1>3, <1>6, FreshLeaves
<1>7. CASE s # t /\ v = Schedule(u, w.now, "TRANSFER_ADMIT", r)
  <2>1. "TRANSFER_ADMIT" \in Kinds \ {Copying} /\ "TRANSFER_ADMIT" # "SERVICE_START"
    BY DEF Kinds, Copying
  <2>2. NodeInv(u, Absent) /\ Tame(w, u) /\ v = Schedule(u, w.now, "TRANSFER_ADMIT", r)
    BY <1>5, <1>7
  <2>3. u.now = w.now /\ w.now \in Nat /\ w.now >= u.now
    BY <1>2, <2>2 DEF Tame
  <2>4. NodeInv(v, Absent) /\ Tame(u, v)
    BY <2>1, <2>2, <2>3, ScheduleOk
  <2>5. QED
    BY <2>2, <2>4 DEF Tame
<1>8. QED
  BY <1>1, <1>6, <1>7

(* The one try of R_REQ_KV_SIMPLE.                                         *)
LEMMA AdmitSimpleOk ==
    ASSUME NEW w, NodeInv(w, Absent), NEW r \in Request, ~Tickets,
           NEW v, v = AdmitSimple(w, r), v.outcome = "running"
    PROVE  NodeInv(v, Absent) /\ Tame(w, v)
<1> DEFINE x == w.runs[r].transfer
           id == x.id
           s == x.source
           t == x.target
           m == x.path
           fly == StartTransfer(w, r, id, s, t, m)
           back == Unreserved(w, s, t, m)
           next == IF Busy(w, s) \/ Busy(w, t) THEN FallbackAff(w, r)
                   ELSE IF CanReserve(w, t, m) THEN fly
                   ELSE FallbackAff(back, r)
<1> HIDE DEF fly, back
<1>1. Fields \subseteq DOMAIN w /\ w.runs[r] \in RunRecord /\ m \in Node /\ x \in TransferRecord
  BY Parts
<1>2. Fields \subseteq DOMAIN back /\ (back.outcome = "running" => Holds(w, s, m))
      /\ (fly.outcome = "running" => Holds(w, s, m))
  BY <1>1, KeptReserve, KeptStartTransfer, KeptFields DEF fly, back
<1>3. "outcome" \in DOMAIN next /\ (FallbackAff(back, r).outcome = "running" => back.outcome = "running")
  <2>1. Fields \subseteq DOMAIN FallbackAff(w, r) /\ Fields \subseteq DOMAIN fly
    BY <1>1, KeptFallback, KeptStartTransfer, KeptFields DEF fly
  <2>2. Fields \subseteq DOMAIN FallbackAff(back, r)
        /\ (FallbackAff(back, r).outcome = "running" => back.outcome = "running")
    BY SMTT(30), <1>2, KeptFallback, KeptFields DEF Books
  <2>3. QED
    BY <2>1, <2>2 DEF Fields
<1>4. v = Check(next, id # Absent /\ w.runs[r].state = "ARRIVED")
  BY DEF AdmitSimple, fly, back
<1> HIDE DEF next
<1>5. v = next /\ w.runs[r].state = "ARRIVED"
  BY <1>3, <1>4, CheckFacts
<1>6. /\ Simple /\ w.runs[r].ticket.state = "NONE" /\ id \in Nat /\ s \in Pod /\ t \in Pod /\ s # t
      /\ ~In(w.gate, r) /\ w.runs[r].ticket.owner = Absent
  <2>1. Bound(w, r) /\ Settled(w, r)
    BY RequestFacts DEF NodeInv, Ticketed
  <2>2. QED
    BY <1>5, <2>1 DEF Bound, Settled
<1>7. NodeInv(w, r) /\ Fresh(w, r)
  BY <1>5, <1>6, InHand DEF Fresh
<1>8. \/ v = FallbackAff(w, r)
      \/ ~Busy(w, s) /\ ~Busy(w, t) /\ CanReserve(w, t, m) /\ v = fly
      \/ ~Busy(w, s) /\ ~Busy(w, t) /\ ~CanReserve(w, t, m) /\ v = FallbackAff(back, r)
  BY <1>5 DEF next
<1> HIDE DEF x, id, s, t, m
<1>9. CASE v = FallbackAff(w, r)
  BY <1>7, <1>9, FreshLeaves
<1>10. CASE ~Busy(w, s) /\ ~Busy(w, t) /\ CanReserve(w, t, m) /\ v = fly
  <2>1. Clear(w, s, t, m)
    BY <1>1, <1>2, <1>6, <1>10 DEF Clear, Holds, Pages
  <2>2. /\ w.runs[r].ticket.owner # Absent <=> w.runs[r].ticket.state = "TRANSFER_RUNNING"
        /\ w.runs[r].ticket.state # "QUEUED" /\ w.runs[r].state = "ARRIVED" /\ ~In(w.gate, r)
    BY <1>5, <1>6
  <2>3. QED
    BY <1>6, <1>7, <1>10, <2>1, <2>2, StartTransferOk DEF fly
<1>11. CASE ~Busy(w, s) /\ ~Busy(w, t) /\ ~CanReserve(w, t, m) /\ v = FallbackAff(back, r)
  <2>1. Chain[m] \subseteq Pages(w, s)
    BY <1>2, <1>3, <1>11 DEF Holds, Pages
  <2>2. NodeInv(back, r) /\ Tame(w, back) /\ Others(w, back)
    BY <1>1, <1>6, <1>7, <1>11, <2>1, UnreservedOk DEF back
  <2>3. Fresh(back, r)
    BY <1>7, <2>2 DEF Fresh, Others
  <2>4. NodeInv(v, Absent) /\ Tame(back, v)
    BY <1>11, <2>2, <2>3, FreshLeaves
  <2>5. QED
    BY <2>2, <2>4 DEF Tame
<1>12. QED
  BY <1>8, <1>9, <1>10, <1>11

-----------------------------------------------------------------------------
(* R_REACTIVE_ECT_V1: completion times are numbers *)

(* The greatest of some numbers.                                           *)
LEMMA MaxIn ==
    ASSUME NEW S, IsFiniteSet(S), S # {}, S \subseteq Int
    PROVE  Max(S) \in S /\ \A y \in S : Max(S) >= y
<1> DEFINE R == {e \in S \X S : e[1] > e[2]}
<1>1. \A x, y \in S : <<x, y>> \in R <=> x > y
  OBVIOUS
<1> HIDE DEF R
<1>2. \A x, y \in S : x # y => <<x, y>> \in R \/ <<y, x>> \in R
  BY <1>1
<1>3. \A x, y, z \in S : <<x, y>> \in R /\ <<y, z>> \in R => <<x, z>> \in R
  BY <1>1
<1>4. PICK m \in S : \A x \in S \ {m} : <<m, x>> \in R
  BY <1>2, <1>3, FirstExists
<1>5. \A y \in S : m >= y
  <2>1. TAKE y \in S
  <2>2. CASE y = m
    BY <2>2
  <2>3. CASE y # m
    <3>1. m > y
      BY <1>1, <1>4, <2>3
    <3>2. m \in Int /\ y \in Int
      OBVIOUS
    <3>3. QED
      BY <3>1, <3>2
  <2>4. QED
    BY <2>2, <2>3
<1>6. QED
  BY <1>5 DEF Max

(* The greater of two numbers.                                             *)
LEMMA MaxOfTwo ==
    ASSUME NEW a \in Int, NEW b \in Int
    PROVE  Max({a, b}) \in Int
<1>1. IsFiniteSet({a, b})
  <2>1. IsFiniteSet({a})
    BY FS_Singleton
  <2>2. IsFiniteSet({a} \cup {b}) /\ {a, b} = {a} \cup {b}
    BY <2>1, FS_AddElement
  <2>3. QED
    BY <2>2
<1>2. {a, b} # {} /\ {a, b} \subseteq Int
  OBVIOUS
<1>3. Max({a, b}) \in {a, b}
  BY <1>1, <1>2, MaxIn
<1>4. QED
  BY <1>3

(* The image of a finite set is finite.                                    *)
LEMMA ImageFinite ==
    ASSUME NEW S, IsFiniteSet(S), NEW f
    PROVE  IsFiniteSet({f[x] : x \in S})
<1> DEFINE g == [x \in S |-> f[x]]
           T == {f[x] : x \in S}
<1>1. g \in Surjection(S, T)
  BY DEF Surjection
<1>2. QED
  BY <1>1, FS_Surjection

(* A busy endpoint is busy with a transfer that has an end.                *)
LEMMA FreeAtInt ==
    ASSUME NEW w, NEW r, NodeInv(w, r), NEW p \in Pod
    PROVE  FreeAt(w, p) \in Int
<1> DEFINE R == {x \in WaitingFor(w) : w.runs[x].transfer.id = w.pods[p].busy}
           C == {x \in ActiveCopies(w) : w.copies[x].id = w.pods[p].busy}
           ends == {w.runs[x].transfer.ready : x \in R}
           arrivals == {w.copies[i].ready : i \in C}
<1>1. /\ w \in World /\ Flying(w, r) /\ w.now \in Nat
      /\ \A q \in Request : w.runs[q].transfer \in TransferRecord
      /\ w.copies \in Seq(CopyRecord)
  BY Parts DEF NodeInv, World
<1>2. CASE ~Busy(w, p)
  BY <1>1, <1>2 DEF FreeAt
<1>3. CASE Busy(w, p)
  <2> HIDE DEF R, C, ends, arrivals
  <2>1. R \subseteq Request /\ C \subseteq 1 .. Len(w.copies) /\ Len(w.copies) \in Nat
    <3>1. R \subseteq Request
      BY DEF WaitingFor, R
    <3>2. C \subseteq DOMAIN w.copies
      BY DEF ActiveCopies, C
    <3>3. DOMAIN w.copies = 1 .. Len(w.copies) /\ Len(w.copies) \in Nat
      BY <1>1
    <3>4. QED
      BY <3>1, <3>2, <3>3
  <2>2. IsFiniteSet(R) /\ IsFiniteSet(C)
    <3>1. IsFiniteSet(Request)
      BY RequestFacts
    <3>2. IsFiniteSet(1 .. Len(w.copies))
      BY <2>1, FS_Interval
    <3>3. QED
      BY <2>1, <3>1, <3>2, FS_Subset
  <2>3. ends \subseteq Int
    BY <1>1, <2>1 DEF TransferRecord, ends
  <2>4. arrivals \subseteq Int
    <3>1. \A i \in C : w.copies[i] \in CopyRecord
      BY <1>1, <2>1
    <3>2. QED
      BY <3>1 DEF CopyRecord, arrivals
  <2>5. IsFiniteSet(ends) /\ IsFiniteSet(arrivals)
    <3> DEFINE f == [x \in R |-> w.runs[x].transfer.ready]
               g == [i \in C |-> w.copies[i].ready]
    <3>1. ends = {f[x] : x \in R} /\ arrivals = {g[i] : i \in C}
      BY DEF ends, arrivals
    <3> HIDE DEF f, g
    <3>2. QED
      BY <2>2, <3>1, ImageFinite
  <2>6. ends \cup arrivals # {}
    <3>1. PICK k \in Keys(w, r) : p \in {SourceOf(w, k), GoalOf(w, k)}
      BY <1>1, <1>3 DEF Flying, Busy
    <3>2. w.pods[p].busy = IdOf(w, k)
      BY <1>1, <3>1 DEF Flying, Flown
    <3>3. CASE k > 0 /\ k \in Request \ {r} /\ w.runs[k].state = "WAITING_TRANSFER"
      BY <3>2, <3>3 DEF IdOf, WaitingFor, ends, R
    <3>4. CASE ~(k > 0) /\ k \in Int /\ -k \in DOMAIN w.copies /\ w.copies[-k].active
      BY <3>2, <3>4 DEF IdOf, ActiveCopies, arrivals, C
    <3>5. QED
      BY <1>1, <3>1, <3>3, <3>4, KeyFacts
  <2>7. FreeAt(w, p) = Max(ends \cup arrivals)
    BY <1>3 DEF FreeAt, ends, arrivals, R, C
  <2>8. IsFiniteSet(ends \cup arrivals) /\ ends \cup arrivals \subseteq Int
    BY <2>3, <2>4, <2>5, FS_Union
  <2>9. QED
    BY <2>6, <2>7, <2>8, MaxIn
<1>4. QED
  BY <1>2, <1>3

\* The endpoints of ticket k are ready when its turn is over.
Turned(k, ready) ==
    LET done == Max({ready[k.source], ready[k.target]}) + Wire(k.path)
    IN  [ready EXCEPT ![k.source] = done, ![k.target] = done]

ServeStep(w, id, x, i) ==
    LET k == w.runs[w.gate[i]].ticket IN IF k.id < id THEN Turned(k, x) ELSE x

IsServed(w, id, n, f) ==
    f = [i \in 0 .. n |->
            IF i = 0 THEN [p \in Pod |-> FreeAt(w, p)]
            ELSE LET k == w.runs[w.gate[i]].ticket
                 IN  IF k.id < id THEN Turned(k, f[i - 1]) ELSE f[i - 1]]

Serve(w, id, f, i) == f[i] = IF i = 0 THEN [p \in Pod |-> FreeAt(w, p)] ELSE ServeStep(w, id, f[i - 1], i)

(* The table of times at which endpoints get free, entry by entry.         *)
LEMMA ServedSteps ==
    ASSUME NEW w, NEW id, NEW n \in Nat, NEW f
    PROVE  /\ IsServed(w, id, n, f) => \A i \in 0 .. n : Serve(w, id, f, i)
           /\ f = [i \in 0 .. n |-> f[i]] /\ (\A i \in 0 .. n : Serve(w, id, f, i))
                 => IsServed(w, id, n, f)
<1> DEFINE start == [p \in Pod |-> FreeAt(w, p)]
           Step(x, i) == ServeStep(w, id, x, i)
<1>1. IsServed(w, id, n, f) <=> f = [i \in 0 .. n |-> IF i = 0 THEN start ELSE Step(f[i - 1], i)]
  BY DEF IsServed, ServeStep
<1>2. \A i : Serve(w, id, f, i) <=> f[i] = IF i = 0 THEN start ELSE Step(f[i - 1], i)
  BY DEF Serve
<1> HIDE DEF start, Step
<1>3. QED
  BY <1>1, <1>2

(* Such a table exists.                                                    *)
LEMMA ServedExists ==
    ASSUME NEW w, NEW id, NEW n \in Nat
    PROVE  \E f : IsServed(w, id, n, f)
<1> DEFINE Bad == {k \in Nat : ~\E f : IsServed(w, id, k, f)}
           start == [p \in Pod |-> FreeAt(w, p)]
<1>1. SUFFICES ASSUME Bad # {} PROVE FALSE
  OBVIOUS
<1>2. PICK k \in Bad : \A j \in Bad : k <= j
  BY <1>1, LeastNat
<1>3. k # 0
  <2>1. IsServed(w, id, 0, [i \in 0 .. 0 |-> start])
    BY DEF IsServed
  <2>2. QED
    BY <2>1
<1>4. PICK f : IsServed(w, id, k - 1, f)
  BY <1>2, <1>3
<1>5. \A i \in 0 .. k - 1 : Serve(w, id, f, i)
  BY <1>2, <1>3, <1>4, ServedSteps
<1> HIDE DEF start
<1> DEFINE g == [i \in 0 .. k |-> IF i = k THEN ServeStep(w, id, f[k - 1], k) ELSE f[i]]
<1>6. \A i \in 0 .. k : Serve(w, id, g, i)
  <2>1. TAKE i \in 0 .. k
  <2>2. CASE i = k
    <3>1. g[i] = ServeStep(w, id, f[k - 1], k) /\ g[i - 1] = f[k - 1]
      BY <2>2, <1>2, <1>3
    <3>2. QED
      BY <3>1, <2>2, <1>3 DEF Serve
  <2>3. CASE i # k
    <3>1. i \in 0 .. k - 1
      BY <2>3, <1>2
    <3>2. g[i] = f[i] /\ (i # 0 => g[i - 1] = f[i - 1])
      BY <2>3, <1>2
    <3> HIDE DEF g
    <3>3. QED
      BY <3>1, <3>2, <1>5 DEF Serve
  <2>4. QED
    BY <2>2, <2>3
<1>7. g = [i \in 0 .. k |-> g[i]]
  OBVIOUS
<1> HIDE DEF g
<1>8. IsServed(w, id, k, g)
  BY <1>2, <1>6, <1>7, ServedSteps
<1>9. QED
  BY <1>2, <1>8

(* The times the endpoints are ready are numbers.                          *)
LEMMA ReadyInt ==
    ASSUME NEW w, NEW r, NodeInv(w, r), NEW id
    PROVE  EndpointReady(w, id) \in [Pod -> Int]
<1> DEFINE n == Len(w.gate)
           f == CHOOSE g : IsServed(w, id, n, g)
           start == [p \in Pod |-> FreeAt(w, p)]
<1>1. w.gate \in Seq(Request) /\ n \in Nat /\ DOMAIN w.gate = 1 .. n
  BY Parts
<1>2. IsServed(w, id, n, f)
  BY <1>1, ServedExists
<1>3. EndpointReady(w, id) = f[n]
  BY DEF EndpointReady, IsServed, Turned
<1> HIDE DEF f
<1>4. \A i \in 0 .. n : f[i] = IF i = 0 THEN start ELSE ServeStep(w, id, f[i - 1], i)
  BY <1>1, <1>2, ServedSteps DEF Serve
<1>5. start \in [Pod -> Int]
  BY FreeAtInt
<1> HIDE DEF start
<1>6. ASSUME NEW i \in 1 .. n, NEW x \in [Pod -> Int]
      PROVE  ServeStep(w, id, x, i) \in [Pod -> Int]
  <2> DEFINE k == w.runs[w.gate[i]].ticket
             done == Max({x[k.source], x[k.target]}) + Wire(k.path)
  <2>1. w.gate[i] \in Request /\ In(w.gate, w.gate[i])
    BY SMTT(30), <1>1 DEF In
  <2>2. k.source \in Pod /\ k.target \in Pod /\ k.path \in Node
    <3>1. Bound(w, w.gate[i])
      BY <2>1 DEF NodeInv, Ticketed
    <3>2. QED
      BY <2>1, <3>1, Parts DEF Bound
  <2>3. Wire(k.path) \in Int
    BY SMTT(30), <2>2, ChainFacts, NodeAssumption DEF Wire
  <2> HIDE DEF k
  <2>4. Max({x[k.source], x[k.target]}) \in Int
    BY <2>2, MaxOfTwo
  <2>5. done \in Int
    BY <2>3, <2>4
  <2> HIDE DEF done
  <2>6. [x EXCEPT ![k.source] = done, ![k.target] = done] \in [Pod -> Int]
    BY <2>2, <2>5
  <2>7. Turned(k, x) \in [Pod -> Int]
    BY <2>6 DEF Turned, done
  <2>8. QED
    BY <2>7 DEF ServeStep, k
<1> DEFINE Bad == {i \in Nat : i <= n /\ f[i] \notin [Pod -> Int]}
<1>7. Bad = {}
  <2>1. SUFFICES ASSUME Bad # {} PROVE FALSE
    OBVIOUS
  <2>2. PICK k \in Bad : \A j \in Bad : k <= j
    BY <2>1, LeastNat
  <2>3. k # 0
    BY <1>1, <1>4, <1>5
  <2>4. f[k - 1] \in [Pod -> Int]
    BY <2>2, <2>3
  <2>5. f[k] = ServeStep(w, id, f[k - 1], k)
    BY <1>1, <1>4, <2>2, <2>3
  <2>6. QED
    BY <1>1, <1>6, <2>2, <2>3, <2>4, <2>5
<1>8. QED
  BY <1>1, <1>3, <1>7

-----------------------------------------------------------------------------
(* R_REACTIVE_ECT_V1: the best plan is a plan *)

DirectPlan(w, r, p) ==
    [type |-> "DIRECT", source |-> Absent, target |-> p, path |-> Root,
     service |-> Service(w.runs[r].path, Hit(w, p, w.runs[r].path)),
     ect |-> Load(w, p) + Service(w.runs[r].path, Hit(w, p, w.runs[r].path))]

CopyPlan(w, r, id, s, t) ==
    LET n == w.runs[r].path
        m == Transferable(w, s, n)
        ready == EndpointReady(w, id)
    IN  [type |-> "COPY", source |-> s, target |-> t, path |-> m, service |-> Service(n, m),
         ect |-> Max({Load(w, t), Max({ready[s], ready[t]}) - w.now + Wire(m)}) + Service(n, m)]

(* Every plan is a direct one or a copy.                                   *)
LEMMA PlansAre ==
    ASSUME NEW w, NEW r, NEW id
    PROVE  /\ DirectPlans(w, r) = {DirectPlan(w, r, p) : p \in Pod}
           /\ \A x \in CopyPlans(w, r, id) :
                 \E s \in Pod, t \in Pod : s # t /\ x = CopyPlan(w, r, id, s, t)
<1>1. DirectPlans(w, r) = {DirectPlan(w, r, p) : p \in Pod}
  BY DEF DirectPlans, DirectPlan
<1>2. ASSUME NEW x \in CopyPlans(w, r, id)
      PROVE  \E s \in Pod, t \in Pod : s # t /\ x = CopyPlan(w, r, id, s, t)
  <2> DEFINE n == w.runs[r].path
             ready == EndpointReady(w, id)
             delay(s, t, m) == Max({ready[s], ready[t]}) - w.now + Wire(m)
             made(e) == [type |-> "COPY", source |-> e[1], target |-> e[2], path |-> e[3],
                         service |-> Service(n, e[3]),
                         ect |-> Max({Load(w, e[2]), delay(e[1], e[2], e[3])}) + Service(n, e[3])]
             E == {e \in {<<s, t, Transferable(w, s, n)>> : s \in Pod, t \in Pod} :
                      /\ e[1] # e[2] /\ ~Holds(w, e[2], e[3])
                      /\ <<e[2], e[3]>> \notin Conflicts(w, r)}
  <2>1. CopyPlans(w, r, id) = {made(e) : e \in E}
    BY DEF CopyPlans
  <2>2. PICK e \in E : x = made(e)
    <3> HIDE DEF made, E
    <3>1. QED
      BY <2>1
  <2>3. PICK s \in Pod, t \in Pod : e = <<s, t, Transferable(w, s, n)>> /\ s # t
    <3> HIDE DEF made
    <3>1. QED
      OBVIOUS
  <2>4. made(e) = CopyPlan(w, r, id, s, t)
    BY <2>3 DEF CopyPlan
  <2> HIDE DEF made
  <2>5. QED
    BY <2>2, <2>3, <2>4
<1>3. QED
  BY <1>1, <1>2

\* What is true of every plan of request r.
PlanOf(w, r, x) ==
    /\ x.ect \in Int /\ x.target \in Pod /\ x.type \in {"DIRECT", "COPY"} /\ x.source \in Int
    /\ x.type = "COPY" =>
          /\ x.source \in Pod /\ x.source # x.target
          /\ x.path = Transferable(w, x.source, w.runs[r].path)
          /\ x.service \in Nat /\ x.service > 0

(* What a direct plan is.                                                  *)
LEMMA DirectFacts ==
    ASSUME NEW w, NEW r \in Request, NodeInv(w, r), NEW p \in Pod
    PROVE  LET x == DirectPlan(w, r, p)
           IN  PlanOf(w, r, x) /\ x.type = "DIRECT" /\ x.target = p
<1> DEFINE n == w.runs[r].path
           x == DirectPlan(w, r, p)
<1>1. w \in World /\ n \in Node
  BY Parts
<1>2. Load(w, p) \in Int /\ Service(n, Hit(w, p, n)) \in Nat /\ Absent \in Int
  BY <1>1, LoadType, HitFacts, RequestFacts
<1>3. Load(w, p) + Service(n, Hit(w, p, n)) \in Int
  BY <1>2
<1>4. /\ x.ect = Load(w, p) + Service(n, Hit(w, p, n)) /\ x.source = Absent /\ x.target = p
      /\ x.type = "DIRECT"
  BY DEF DirectPlan
<1>5. QED
  BY <1>2, <1>3, <1>4 DEF PlanOf

(* What a plan with a copy is.                                             *)
LEMMA CopyFacts ==
    ASSUME NEW w, NEW r \in Request, NodeInv(w, r), NEW id, NEW s \in Pod, NEW t \in Pod, s # t
    PROVE  LET x == CopyPlan(w, r, id, s, t)
           IN  PlanOf(w, r, x) /\ x.type = "COPY" /\ x.source = s /\ x.target = t
<1> DEFINE n == w.runs[r].path
           m == Transferable(w, s, n)
           ready == EndpointReady(w, id)
           delay == Max({ready[s], ready[t]}) - w.now + Wire(m)
           x == CopyPlan(w, r, id, s, t)
<1>1. w \in World /\ n \in Node /\ w.now \in Nat
  BY Parts
<1>2. m \in Node /\ Chain[m] \subseteq Chain[n] /\ Depth(m) \in Nat
  BY <1>1, TransferableIn
<1>3. Load(w, t) \in Int /\ s \in Int /\ Wire(m) \in Int
  BY <1>1, <1>2, LoadType, RequestFacts, NodeAssumption DEF Wire
<1>4. Service(n, m) \in Nat /\ Service(n, m) > 0
  BY <1>1, <1>2, PlannedNat
<1>5. ready[s] \in Int /\ ready[t] \in Int
  BY ReadyInt
<1>6. /\ x.ect = Max({Load(w, t), delay}) + Service(n, m) /\ x.source = s /\ x.target = t
      /\ x.type = "COPY" /\ x.path = m /\ x.service = Service(n, m)
  BY DEF CopyPlan
<1> HIDE DEF n, m, ready, x
<1>7. delay \in Int
  BY <1>1, <1>3, <1>5, MaxOfTwo
<1> HIDE DEF delay
<1>8. Max({Load(w, t), delay}) + Service(n, m) \in Int
  BY <1>3, <1>4, <1>7, MaxOfTwo
<1>9. QED
  BY <1>3, <1>4, <1>6, <1>8 DEF PlanOf, n, m, x

Again(w, r, id, x) ==
    x = IF x.type = "DIRECT" THEN DirectPlan(w, r, x.target)
        ELSE CopyPlan(w, r, id, x.source, x.target)

(* Every plan names pods and costs.                                        *)
LEMMA PlanFacts ==
    ASSUME NEW w, NEW r \in Request, NodeInv(w, r), NEW id, NEW x \in Plans(w, r, id)
    PROVE  PlanOf(w, r, x) /\ Again(w, r, id, x) /\ (x \in DirectPlans(w, r) => x.type = "DIRECT")
<1>1. ASSUME x \in DirectPlans(w, r)
      PROVE  PlanOf(w, r, x) /\ Again(w, r, id, x) /\ x.type = "DIRECT"
  <2>1. PICK p \in Pod : x = DirectPlan(w, r, p)
    <3>1. DirectPlans(w, r) = {DirectPlan(w, r, p) : p \in Pod}
      BY PlansAre
    <3>2. QED
      BY <1>1, <3>1
  <2>2. PlanOf(w, r, x) /\ x.type = "DIRECT" /\ x.target = p
    BY <2>1, DirectFacts
  <2>3. QED
    BY <2>1, <2>2 DEF Again
<1>2. ASSUME x \in CopyPlans(w, r, id)
      PROVE  PlanOf(w, r, x) /\ Again(w, r, id, x)
  <2>1. PICK s \in Pod, t \in Pod : s # t /\ x = CopyPlan(w, r, id, s, t)
    BY <1>2, PlansAre
  <2>2. PlanOf(w, r, x) /\ x.type = "COPY" /\ x.source = s /\ x.target = t
    BY <2>1, CopyFacts
  <2>3. QED
    BY <2>1, <2>2 DEF Again
<1>3. QED
  BY <1>1, <1>2 DEF Plans

(* There are finitely many plans.                                          *)
LEMMA PlansFinite ==
    ASSUME NEW w, NEW r, NEW id
    PROVE  IsFiniteSet(Plans(w, r, id))
<1> DEFINE D == Pod \X Pod
           f == [e \in D |-> CopyPlan(w, r, id, e[1], e[2])]
           g == [p \in Pod |-> DirectPlan(w, r, p)]
           C == {f[e] : e \in D}
<1>1. IsFiniteSet(Pod) /\ IsFiniteSet(D)
  BY RequestFacts, FS_Product
<1>2. CopyPlans(w, r, id) \subseteq C
  <2>1. SUFFICES ASSUME NEW x \in CopyPlans(w, r, id) PROVE x \in C
    OBVIOUS
  <2>2. PICK s \in Pod, t \in Pod : x = CopyPlan(w, r, id, s, t)
    BY PlansAre
  <2>3. <<s, t>> \in D /\ f[<<s, t>>] = x
    BY <2>2
  <2> HIDE DEF f, D
  <2>4. QED
    BY <2>3
<1>3. DirectPlans(w, r) = {g[p] : p \in Pod}
  BY PlansAre
<1> HIDE DEF D, f, g
<1>4. IsFiniteSet(C) /\ IsFiniteSet(DirectPlans(w, r))
  BY <1>1, <1>3, ImageFinite
<1> HIDE DEF C
<1>5. IsFiniteSet(CopyPlans(w, r, id))
  BY <1>2, <1>4, FS_Subset
<1>6. QED
  BY <1>4, <1>5, FS_Union DEF Plans

(* The plan that is taken is one of the plans.                             *)
LEMMA BestPlanIn ==
    ASSUME NEW w, NEW r \in Request, NodeInv(w, r), NEW id, NEW S, S \subseteq Plans(w, r, id), S # {}
    PROVE  BestPlan(S) \in S
<1> DEFINE B(x) == IF x.type = "DIRECT" THEN 0 ELSE 1
           K == [x \in S |-> <<x.ect, B(x), x.target, x.source>>]
<1>1. \A x \in S : PlanOf(w, r, x) /\ Again(w, r, id, x)
  BY PlanFacts
<1>2. \A x \in S : x.ect \in Int /\ B(x) \in Int /\ x.target \in Int /\ x.source \in Int
  <2>1. TAKE x \in S
  <2>2. PlanOf(w, r, x) /\ Pod \subseteq Nat
    BY <1>1, RequestFacts
  <2>3. x.ect \in Int /\ x.target \in Pod /\ x.source \in Int
    BY <2>2 DEF PlanOf
  <2>4. B(x) \in Int
    OBVIOUS
  <2> HIDE DEF B, K
  <2>5. \A y \in Pod : y \in Int
    BY RequestFacts
  <2>6. QED
    BY <2>3, <2>4, <2>5
<1>3. \A x, y \in S : B(x) = B(y) /\ x.target = y.target /\ x.source = y.source => x = y
  <2>1. TAKE x, y \in S
  <2>2. HAVE B(x) = B(y) /\ x.target = y.target /\ x.source = y.source
  <2>3. x.type = "DIRECT" <=> y.type = "DIRECT"
    BY <2>2
  <2>4. QED
    BY <1>1, <2>2, <2>3 DEF Again
<1> HIDE DEF B
<1>4. K \in [S -> [1 .. 4 -> Int]]
  BY <1>2
<1>5. \A x, y \in S : K[x] = K[y] => x = y
  BY <1>3
<1>6. IsFiniteSet(S)
  BY PlansFinite, FS_Subset
<1>7. \A x \in S : K[x] = <<x.ect, IF x.type = "DIRECT" THEN 0 ELSE 1, x.target, x.source>>
  BY DEF B
<1> HIDE DEF K
<1>8. \E x \in S : \A y \in S \ {x} : Before(K[x], K[y])
  BY ZenonT(40), <1>4, <1>5, <1>6, BestExists DEF Keyed
<1>9. \E x \in S : \A y \in S \ {x} :
         Before(<<x.ect, IF x.type = "DIRECT" THEN 0 ELSE 1, x.target, x.source>>,
                <<y.ect, IF y.type = "DIRECT" THEN 0 ELSE 1, y.target, y.source>>)
  <2>1. PICK x \in S : \A y \in S \ {x} : Before(K[x], K[y])
    BY <1>8
  <2>2. \A y \in S \ {x} :
          Before(<<x.ect, IF x.type = "DIRECT" THEN 0 ELSE 1, x.target, x.source>>,
                 <<y.ect, IF y.type = "DIRECT" THEN 0 ELSE 1, y.target, y.source>>)
    BY SMT, <1>7, <2>1
  <2>3. QED
    BY <2>2
<1>10. QED
  BY ZenonT(60), <1>9 DEF BestPlan, Best

(* The best plan is one of them.                                           *)
LEMMA BestPlansIn ==
    ASSUME NEW w, NEW r \in Request, NodeInv(w, r), NEW id
    PROVE  /\ BestPlan(DirectPlans(w, r)).target \in Pod
           /\ PlanOf(w, r, BestPlan(Plans(w, r, id)))
<1>1. Pod # {}
  BY NodeAssumption, FS_EmptySet
<1>2. DirectPlans(w, r) # {}
  <2>1. DirectPlans(w, r) = {DirectPlan(w, r, p) : p \in Pod}
    BY PlansAre
  <2>2. QED
    BY <1>1, <2>1
<1>3. DirectPlans(w, r) \subseteq Plans(w, r, id) /\ Plans(w, r, id) # {}
  BY <1>2 DEF Plans
<1>4. BestPlan(DirectPlans(w, r)) \in DirectPlans(w, r)
  BY <1>2, <1>3, BestPlanIn
<1>5. BestPlan(Plans(w, r, id)) \in Plans(w, r, id)
  BY <1>3, BestPlanIn
<1>6. PlanOf(w, r, BestPlan(DirectPlans(w, r))) /\ PlanOf(w, r, BestPlan(Plans(w, r, id)))
  BY <1>3, <1>4, <1>5, PlanFacts
<1>7. QED
  BY <1>6 DEF PlanOf

-----------------------------------------------------------------------------
(* R_REACTIVE_ECT_V1: a ticket falls back, is planned anew or is made *)

(* A ticket that is given up.                                              *)
LEMMA FallbackEctOk ==
    ASSUME NEW w, NEW r \in Request, NodeInv(w, r), In(w.gate, r),
           NEW state \in {"CANCELLED", "TIMED_OUT"},
           NEW v, v = FallbackEct(w, r, state), v.outcome = "running"
    PROVE  NodeInv(v, Absent) /\ Tame(w, v)
<1> DEFINE a == DropPressure(w, r)
           b == LeaveGate(a, r, state)
           run == [b.runs[r] EXCEPT !.fallback = TRUE]
           c == [b EXCEPT !.runs[r].fallback = TRUE]
           d == Replanned(c, r)
           e == Count(d, "fallbacks", 1)
           p == BestPlan(DirectPlans(e, r)).target
<1>1. v = EnqueueReady(e, r, p)
  BY DEF FallbackEct
<1>2. c = [b EXCEPT !.runs[r] = run]
  OBVIOUS
<1> HIDE DEF a
<1>3. NodeInv(a, r) /\ Tame(w, a) /\ In(a.gate, r) /\ a.runs[r].state # "NONE"
  <2>1. w.runs[r].state = "ARRIVED" /\ w.runs[r] \in RunRecord
    BY Parts DEF NodeInv, Ticketed, Bound
  <2>2. /\ NodeInv(a, r) /\ Tame(w, a) /\ a.gate = w.gate
        /\ a.runs[r] = [w.runs[r] EXCEPT !.ticket.owner = Absent]
    BY DropOk DEF a
  <2>3. QED
    BY <2>1, <2>2 DEF RunRecord
<1> HIDE DEF b
<1>4. /\ NodeInv(b, r) /\ Tame(a, b) /\ ~In(b.gate, r)
      /\ b.runs[r] = [a.runs[r] EXCEPT !.ticket.state = state]
  <2>1. state \in TicketStates
    BY DEF TicketStates
  <2>2. QED
    BY <1>3, <2>1, LeaveOk DEF b
<1>5. a.runs[r] \in RunRecord /\ a.runs[r].ticket \in TicketRecord /\ b.runs[r] \in RunRecord
  BY <1>3, <1>4, Parts
<1>6. b.runs[r].ticket.state = state /\ b.runs[r].state # "NONE"
  BY <1>3, <1>4, <1>5 DEF RunRecord, TicketRecord
<1>7. run \in RunRecord /\ Quiet(b.runs[r], run) /\ run.ticket = b.runs[r].ticket
  BY <1>5 DEF RunRecord, Quiet
<1>8. Jotted(b, c, r, run)
  BY <1>2 DEF Jotted
<1> HIDE DEF run, c
<1>9. NodeInv(b, r) /\ ~In(b.gate, r)
  BY <1>4
<1>10. NodeInv(c, r) /\ Tame(b, c) /\ c.gate = b.gate /\ c.runs[r] = run
  BY <1>7, <1>8, <1>9, RunNoteOk
<1> HIDE DEF d
<1>11. /\ NodeInv(d, r) /\ Tame(c, d) /\ d.gate = c.gate /\ d.runs[r].ticket = c.runs[r].ticket
       /\ Quiet(c.runs[r], d.runs[r])
  BY <1>10, ReplannedOk DEF d
<1> HIDE DEF e
<1>12. NodeInv(e, r) /\ Tame(d, e) /\ e.gate = d.gate /\ e.runs = d.runs
  BY <1>11, CountOk DEF e
<1>13. /\ ~In(e.gate, r) /\ e.runs[r].ticket.state \notin {"QUEUED", "TRANSFER_RUNNING"}
       /\ e.runs[r].state # "NONE"
  BY <1>6, <1>7, <1>9, <1>10, <1>11, <1>12 DEF Quiet
<1>14. p \in Pod
  BY <1>12, BestPlansIn
<1> HIDE DEF p
<1>15. NodeInv(v, Absent) /\ Tame(e, v)
  BY <1>1, <1>12, <1>13, <1>14, EnqueueOk
<1>16. QED
  <2>1. Tame(w, a) /\ Tame(a, b) /\ Tame(b, c) /\ Tame(c, d) /\ Tame(d, e)
    BY <1>3, <1>4, <1>10, <1>11, <1>12
  <2>2. Tame(w, c)
    BY <2>1 DEF Tame
  <2>3. Tame(w, e)
    BY <2>1, <2>2 DEF Tame
  <2>4. QED
    BY <1>15, <2>3 DEF Tame

(* A ticket that is looked at again.                                       *)
LEMMA AdmitEctOk ==
    ASSUME NEW w, NodeInv(w, Absent), NEW r \in Request, In(w.gate, r),
           NEW y, y = AdmitEct(w, r), y.outcome = "running"
    PROVE  NodeInv(y, Absent) /\ Tame(w, y)
<1> DEFINE v == DropPressure(w, r)
           n == v.runs[r].path
           x == BestPlan(Plans(v, r, v.runs[r].ticket.id))
           s == x.source
           t == x.target
           m == x.path
           service == x.service
           u == Replan(v, r, s, t, m, service)
<1>1. IF x.type = "DIRECT" THEN y = FallbackEct(v, r, "CANCELLED") ELSE y = TryTicket(u, r)
  BY DEF AdmitEct
<1>2. Bound(w, r) /\ Settled(w, r)
  BY RequestFacts DEF NodeInv, Ticketed
<1>3. /\ w.runs[r].state = "ARRIVED" /\ w.runs[r].ticket.state = "QUEUED"
      /\ w.runs[r] \in RunRecord /\ w.runs[r].ticket \in TicketRecord
  BY <1>2, Parts DEF Bound, Settled
<1>4. /\ NodeInv(v, r) /\ Tame(w, v) /\ In(v.gate, r)
      /\ v.runs[r] = [w.runs[r] EXCEPT !.ticket.owner = Absent]
  BY <1>3, DropOk
<1>5. /\ v.runs[r].state = "ARRIVED" /\ v.runs[r].ticket.owner = Absent
      /\ v.runs[r].ticket.state = "QUEUED"
  BY <1>3, <1>4 DEF RunRecord, TicketRecord
<1> HIDE DEF v
<1>6. n \in Node
  BY <1>4, Parts
<1>7. PlanOf(v, r, x)
  BY <1>4, BestPlansIn
<1> HIDE DEF x
<1>8. CASE x.type = "DIRECT"
  <2>1. NodeInv(y, Absent) /\ Tame(v, y)
    BY <1>1, <1>4, <1>8, FallbackEctOk
  <2>2. QED
    BY <1>4, <2>1 DEF Tame
<1>9. CASE x.type # "DIRECT"
  <2>1. s \in Pod /\ t \in Pod \ {s} /\ m = Transferable(v, s, n) /\ service \in Nat /\ service > 0
    BY <1>7, <1>9 DEF PlanOf
  <2>2. m \in Node /\ Chain[m] \subseteq Pages(v, s)
    BY <1>6, <2>1, TransferableIn
  <2>3. y = TryTicket(u, r)
    BY <1>1, <1>9
  <2> HIDE DEF s, t, m, service, n
  <2>4. NodeInv(v, r) /\ In(v.gate, r)
    BY <1>4
  <2> HIDE DEF u
  <2>5. /\ NodeInv(u, Absent) /\ Tame(v, u) /\ u.gate = v.gate
        /\ PlannedFor(v, u, r, s, t, m)
        /\ \A p \in Pod : SameHold(v.pods[p], u.pods[p])
    BY <1>5, <2>1, <2>2, <2>4, ReplanOk DEF u
  <2>6. Chain[u.runs[r].ticket.path] \subseteq Pages(u, u.runs[r].ticket.source) /\ In(u.gate, r)
    BY <2>1, <2>2, <2>4, <2>5 DEF PlannedFor, SameHold, Pages
  <2>7. NodeInv(y, Absent) /\ Tame(u, y)
    BY <2>3, <2>5, <2>6, TryTicketOk
  <2>8. QED
    BY <1>4, <2>5, <2>7 DEF Tame
<1>10. QED
  BY SMTT(30), <1>8, <1>9

(* An arrival under R_REACTIVE_ECT_V1.                                     *)
LEMMA EctArrivalOk ==
    ASSUME NEW w, NEW r \in Request, NodeInv(w, r), Fresh(w, r), Tickets,
           NEW v, v = EctArrival(w, r), v.outcome = "running"
    PROVE  NodeInv(v, Absent) /\ Tame(w, v)
<1> DEFINE n == w.runs[r].path
           x == BestPlan(Plans(w, r, w.nextTicket))
           run == [w.runs[r] EXCEPT !.plan = x.type]
           u == [w EXCEPT !.runs[r].plan = x.type]
           s == x.source
           t == x.target
           m == x.path
           service == x.service
<1>1. v = IF x.type = "DIRECT" THEN EnqueueReady(u, r, t) ELSE EctTicket(u, r, x)
  BY DEF EctArrival
<1>2. PlanOf(w, r, x)
  BY BestPlansIn
<1> HIDE DEF x
<1>3. w.runs[r] \in RunRecord /\ n \in Node
  BY Parts
<1>4. t \in Pod /\ x.type \in {"DIRECT", "COPY"}
  BY <1>2 DEF PlanOf
<1>5. run \in RunRecord /\ Quiet(w.runs[r], run) /\ run.ticket = w.runs[r].ticket
  BY <1>3, <1>4 DEF RunRecord, Quiet
<1>6. Jotted(w, u, r, run)
  BY DEF Jotted
<1> HIDE DEF run, u
<1>7. NodeInv(u, r) /\ Tame(w, u) /\ u.gate = w.gate /\ u.pods = w.pods /\ u.runs[r] = run
  BY <1>5, <1>6, RunNoteOk
<1>8. Fresh(u, r)
  BY <1>5, <1>7 DEF Fresh, Quiet
<1>9. CASE x.type = "DIRECT"
  <2>1. v = EnqueueReady(u, r, t)
    BY <1>1, <1>9
  <2> HIDE DEF t
  <2>2. NodeInv(v, Absent) /\ Tame(u, v)
    BY <1>4, <1>7, <1>8, <2>1, FreshLeaves
  <2>3. QED
    BY <1>7, <2>2 DEF Tame
<1>10. CASE x.type # "DIRECT"
  <2>1. s \in Pod /\ t \in Pod \ {s} /\ m = Transferable(w, s, n) /\ service \in Nat /\ service > 0
    BY <1>2, <1>10, <1>4 DEF PlanOf
  <2>2. m \in Node
    BY <1>3, <2>1, TransferableIn
  <2> DEFINE y == CreateTicket(u, r, s, t, m, service)
  <2>3. v = Check(y, x.type = "COPY" /\ x.source # Absent)
    BY <1>1, <1>10 DEF EctTicket
  <2> HIDE DEF s, t, m, service, n
  <2>4. NodeInv(y, Absent) /\ Tame(u, y)
    BY <1>7, <1>8, <2>1, <2>2, TicketOk DEF Fresh
  <2> HIDE DEF y
  <2>5. "outcome" \in DOMAIN y
    BY <2>4, Parts DEF Fields
  <2>6. v = y
    BY <2>3, <2>5, CheckFacts
  <2>7. QED
    BY <1>7, <2>4, <2>6 DEF Tame
<1>11. QED
  BY <1>9, <1>10

-----------------------------------------------------------------------------
(* The handlers of arrivals, admissions and timeouts *)

(* One tame step after another.                                            *)
LEMMA TameTwice ==
    ASSUME NEW a, NEW b, NEW c, Tame(a, b), Tame(b, c)
    PROVE  Tame(a, c)
BY DEF Tame

Coming(w, r, n, run) == run = [w.runs[r] EXCEPT !.path = n, !.arrival = w.now, !.state = "ARRIVED"]

(* A request is told to have arrived.                                      *)
LEMMA ArrivedOk ==
    ASSUME NEW w, NEW r \in Request, NodeInv(w, Absent), w.runs[r].state = "NONE", NEW n \in Block,
           NEW run, Coming(w, r, n, run), NEW u, Jotted(w, u, r, run)
    PROVE  NodeInv(u, r) /\ Tame(w, u) /\ Fresh(u, r)
<1>1. /\ w \in World /\ w.runs \in [Request -> RunRecord] /\ w.runs[r] \in RunRecord
      /\ w.runs[r].ticket \in TicketRecord /\ w.now \in Nat /\ w.outcome = "running"
  BY Parts
<1>2. /\ run \in RunRecord /\ run.state = "ARRIVED" /\ run.owner = w.runs[r].owner
      /\ run.pod = w.runs[r].pod /\ run.hit = w.runs[r].hit /\ run.ticket = w.runs[r].ticket
      /\ run.path = n /\ run.arrival = w.now
  BY <1>1 DEF RunRecord, RunStates, Coming, Node
<1>3. [w.runs EXCEPT ![r] = run] \in [Request -> RunRecord]
  BY <1>1, <1>2
<1>4. /\ u \in World /\ u.now = w.now /\ u.pods = w.pods /\ u.gate = w.gate
      /\ u.events = w.events /\ u.copies = w.copies /\ u.tokens = w.tokens
      /\ u.refilled = w.refilled /\ u.replicas = w.replicas /\ u.gone = w.gone
      /\ u.outcome = w.outcome
  BY <1>1, <1>3 DEF Jotted, World
<1>5. u.runs[r] = run /\ \A q \in Request \ {r} : u.runs[q] = w.runs[q]
  BY <1>1 DEF Jotted, World
<1>6. LifeOf(w, r) /\ Bound(w, r) /\ Settled(w, r) /\ NoDup(w.gate)
  BY RequestFacts DEF NodeInv, Lives, Ticketed
<1>7. w.runs[r].owner = Absent /\ w.runs[r].ticket.state = "NONE" /\ w.runs[r].ticket.owner = Absent
      /\ ~In(w.gate, r)
  BY <1>6 DEF LifeOf, Settled
<1>8. Fresh(u, r)
  BY <1>2, <1>4, <1>5, <1>7 DEF Fresh
<1>9. LifeOf(u, r)
  <2>1. run.path \in Block /\ run.arrival <= u.now
    BY <1>1, <1>2, <1>4
  <2>2. QED
    BY <1>2, <1>4, <1>5, <1>6, <1>7, <2>1 DEF LifeOf
<1>10. Bound(u, r)
  BY <1>2, <1>4, <1>5, <1>6, <1>7 DEF Bound
<1>11. Touch(w, u, r)
  BY <1>2, <1>4, <1>5 DEF Touch, SameHold
<1>12. NodeInv(u, r) /\ Tame(w, u)
  <2>1. u \in World /\ u.outcome = "running" /\ NoDup(u.gate) /\ r # Absent
    BY <1>1, <1>4, <1>6, RequestFacts
  <2>2. w.runs[r].state # "WAITING_TRANSFER"
    OBVIOUS
  <2>3. QED
    BY <1>9, <1>10, <1>11, <2>1, <2>2, TouchOk
<1>13. QED
  BY <1>8, <1>12

(* An arrival keeps the invariant under every policy.                      *)
LEMMA OnArrivalOk ==
    ASSUME NEW w, NodeInv(w, Absent), NEW r \in Request, NEW n \in Block,
           NEW v, v = OnArrival(w, r, n), v.outcome = "running"
    PROVE  NodeInv(v, Absent) /\ Tame(w, v)
<1> DEFINE run == [w.runs[r] EXCEPT !.path = n, !.arrival = w.now, !.state = "ARRIVED"]
           u == [w EXCEPT !.runs[r] = run]
           ok == w.runs[r].state = "NONE"
           y == CASE IsEct -> EctArrival(u, r)
                  [] mode.routing \in {"R_REQ_KV", "R_REQ_KV_TASK"} -> B0Arrival(u, r)
                  [] mode.routing = "R_REQ_KV_SIMPLE" -> SimpleArrival(u, r)
                  [] mode.routing = "R_LEAST" -> EnqueueReady(u, r, Least(u))
                  [] OTHER -> EnqueueReady(u, r, Affinity(u, n))
<1>1. w \in World /\ w.runs[r] \in RunRecord /\ Fields \subseteq DOMAIN w
  BY Parts
<1>2. [w EXCEPT !.runs[r] = [@ EXCEPT !.path = n, !.arrival = w.now, !.state = "ARRIVED"]] = u
  BY <1>1 DEF World
<1>3. v = Check(y, ok)
  BY <1>2 DEF OnArrival
<1>4. Jotted(w, u, r, run)
  BY DEF Jotted
<1> HIDE DEF u
<1>5. \/ IsEct /\ y = EctArrival(u, r)
      \/ ~IsEct /\ mode.routing \in {"R_REQ_KV", "R_REQ_KV_TASK"} /\ y = B0Arrival(u, r)
      \/ mode.routing = "R_REQ_KV_SIMPLE" /\ y = SimpleArrival(u, r)
      \/ y = EnqueueReady(u, r, Least(u))
      \/ y = EnqueueReady(u, r, Affinity(u, n))
  BY DEF IsEct
<1> HIDE DEF run, y, ok
<1>6. Fields \subseteq DOMAIN u
  BY <1>1, <1>4 DEF Jotted
<1>7. Kept(u, y, r)
  BY <1>5, <1>6, KeptArrival, KeptEnqueue
<1>8. "outcome" \in DOMAIN y
  BY <1>6, <1>7, KeptFields DEF Fields
<1>9. ok /\ v = y
  BY <1>3, <1>8, CheckFacts
<1>10. NodeInv(u, r) /\ Tame(w, u) /\ Fresh(u, r)
  <2>1. w.runs[r].state = "NONE" /\ Coming(w, r, n, run)
    BY <1>9 DEF ok, run, Coming
  <2>2. QED
    BY <1>4, <2>1, ArrivedOk
<1>11. u \in World /\ n \in Node
  BY <1>10, Parts DEF Node
<1>12. y.outcome = "running"
  BY <1>9
<1>13. NodeInv(y, Absent) /\ Tame(u, y)
  <2>1. CASE IsEct /\ y = EctArrival(u, r)
    <3>1. Tickets
      BY <2>1 DEF IsEct, Tickets
    <3>2. QED
      BY <1>10, <1>12, <2>1, <3>1, EctArrivalOk
  <2>2. CASE mode.routing \in {"R_REQ_KV", "R_REQ_KV_TASK"} /\ y = B0Arrival(u, r)
    <3>1. Tickets
      BY <2>2 DEF Tickets
    <3>2. QED
      BY <1>10, <1>12, <2>2, <3>1, B0ArrivalOk
  <2>3. CASE mode.routing = "R_REQ_KV_SIMPLE" /\ y = SimpleArrival(u, r)
    BY <1>10, <1>12, <2>3, SimpleArrivalOk DEF Simple
  <2>4. CASE y = EnqueueReady(u, r, Least(u)) \/ y = EnqueueReady(u, r, Affinity(u, n))
    <3>1. Affinity(u, n) \in Pod
      BY <1>11, AffinityIn
    <3>2. Least(u) \in Pod
      BY <1>11, <3>1, RoutesIn
    <3>3. QED
      BY <1>10, <1>12, <2>4, <3>1, <3>2, FreshLeaves
  <2>5. QED
    BY <1>5, <2>1, <2>2, <2>3, <2>4
<1>14. QED
  BY <1>9, <1>10, <1>13, TameTwice

(* Waking the gate keeps the invariant.                                    *)
LEMMA WakeOk ==
    ASSUME NEW w, NEW h, NodeInv(w, h), NEW v, v = WakeGate(w)
    PROVE  NodeInv(v, h) /\ Tame(w, v)
<1>1. CASE w.gate = <<>>
  BY <1>1 DEF WakeGate, Tame
<1>2. CASE w.gate # <<>>
  <2> DEFINE r == Head(w.gate)
  <2>1. w.gate \in Seq(Request) /\ w.now \in Nat
    BY Parts
  <2>2. r \in Request
    BY <1>2, <2>1
  <2>3. v = Schedule(w, w.now, "TRANSFER_ADMIT", r)
    BY <1>2 DEF WakeGate
  <2> HIDE DEF r
  <2>4. "TRANSFER_ADMIT" \in Kinds \ {Copying}
    BY DEF Kinds, Copying
  <2>5. QED
    BY <2>1, <2>2, <2>3, <2>4, ScheduleOk
<1>3. QED
  BY <1>1, <1>2

\* Who has not arrived is not touched.
Unmoved(w, v) == \A q \in Request : w.runs[q].state = "NONE" => v.runs[q].state = "NONE"

(* A timeout keeps the invariant, whatever became of the ticket before.    *)
LEMMA OnTimeoutOk ==
    ASSUME NEW w, NodeInv(w, Absent), NEW r \in Request,
           NEW v, v = OnTimeout(w, r), v.outcome = "running"
    PROVE  NodeInv(v, Absent) /\ Tame(w, v) /\ Unmoved(w, v)
<1>1. CASE w.runs[r].ticket.state # "QUEUED"
  BY <1>1 DEF OnTimeout, Tame, Unmoved
<1>2. CASE w.runs[r].ticket.state = "QUEUED"
  <2> DEFINE a == Count(w, "timedOut", 1)
             run == [a.runs[r] EXCEPT !.ticket.state = "TIMED_OUT"]
             c == [a EXCEPT !.runs[r].ticket.state = "TIMED_OUT"]
             x == IF IsEct THEN FallbackEct(a, r, "TIMED_OUT") ELSE FallbackAff(c, r)
  <2>1. v = WakeGate(x)
    BY <1>2 DEF OnTimeout
  <2>2. Settled(w, r) /\ Bound(w, r)
    BY RequestFacts DEF NodeInv, Ticketed
  <2>3. In(w.gate, r) /\ w.runs[r].state = "ARRIVED"
    BY <1>2, <2>2 DEF Settled, Bound
  <2>4. NodeInv(a, Absent) /\ Tame(w, a) /\ a.gate = w.gate /\ a.runs = w.runs
    BY CountOk
  <2> HIDE DEF a
  <2>5. NodeInv(a, r) /\ In(a.gate, r)
    BY <2>3, <2>4, InHand
  <2>6. a.runs[r] \in RunRecord /\ a.runs[r].ticket \in TicketRecord /\ a \in World /\ Fields \subseteq DOMAIN a
    BY <2>5, Parts
  <2>7. run \in RunRecord /\ Quiet(a.runs[r], run) /\ run.ticket.state = "TIMED_OUT"
    BY <2>6 DEF RunRecord, TicketRecord, TicketStates, Quiet
  <2>8. Jotted(a, c, r, run)
    BY <2>6 DEF World, Jotted
  <2>9. Fields \subseteq DOMAIN c
    BY <2>6
  <2> HIDE DEF run, c
  <2>10. x = FallbackEct(a, r, "TIMED_OUT") \/ x = FallbackAff(c, r)
    OBVIOUS
  <2> HIDE DEF x
  <2>11. x.outcome = "running"
    <3>1. Fields \subseteq DOMAIN x
      BY <2>6, <2>9, <2>10, KeptEct, KeptFallback, KeptFields
    <3>2. QED
      BY <2>1, <3>1, KeptWake DEF Kept, Books
  <2>12. NodeInv(x, Absent) /\ Tame(a, x)
    <3>1. CASE x = FallbackEct(a, r, "TIMED_OUT")
      BY <2>5, <2>11, <3>1, FallbackEctOk
    <3>2. CASE x = FallbackAff(c, r)
      <4>1. NodeInv(c, r) /\ Tame(a, c) /\ c.gate = a.gate /\ c.runs[r] = run
        BY <2>5, <2>7, <2>8, RunNoteOk
      <4>2. (c.runs[r].ticket.state = "NONE" <=> ~In(c.gate, r)) /\ c.runs[r].state # "NONE"
        BY <2>3, <2>4, <2>5, <2>7, <4>1 DEF Quiet
      <4>3. NodeInv(x, Absent) /\ Tame(c, x)
        BY <2>11, <3>2, <4>1, <4>2, FallbackOk
      <4>4. QED
        BY <4>1, <4>3, TameTwice
    <3>3. QED
      BY <2>10, <3>1, <3>2
  <2>13. NodeInv(v, Absent) /\ Tame(x, v)
    BY <2>1, <2>12, WakeOk
  <2>14. Tame(w, x)
    BY <2>4, <2>12, TameTwice
  <2>15. Unmoved(w, v)
    <3>1. w.runs \in [Request -> RunRecord] /\ Kept(w, v, r)
      BY Parts, KeptTimeout
    <3>2. QED
      BY <2>3, <3>1 DEF Unmoved, Kept
  <2>16. QED
    BY <2>13, <2>14, <2>15, TameTwice
<1>3. QED
  BY <1>1, <1>2

\* The invariant after k turns of a round, if nothing went wrong so far; who is still to come waits.
Halfway(w, f, k) ==
    /\ Books(w, f[k])
    /\ f[k].outcome = "running" =>
        /\ NodeInv(f[k], Absent) /\ Tame(w, f[k])
        /\ \A j \in DOMAIN w.gate : j > k => f[k].runs[w.gate[j]].ticket.state = "QUEUED"
        /\ Unmoved(w, f[k])

(* One more ticket of a round of the gate.                                 *)
LEMMA RoundStep ==
    ASSUME NEW w, NodeInv(w, Absent), NEW f, Rounds(w, f[Len(w.gate)], f),
           NEW k \in Nat, k + 1 <= Len(w.gate), Halfway(w, f, k)
    PROVE  Halfway(w, f, k + 1)
<1> DEFINE a == f[k]
           b == f[k + 1]
           r == w.gate[k + 1]
<1>1. /\ w.gate \in Seq(Request) /\ DOMAIN w.gate = 1 .. Len(w.gate) /\ Len(w.gate) \in Nat
      /\ Fields \subseteq DOMAIN w
  BY Parts
<1>2. NoDup(w.gate) /\ r \in Request /\ k + 1 \in DOMAIN w.gate
  BY <1>1 DEF NodeInv, Ticketed
<1>3. b = AdmitStep(a, r)
  <2>1. \A i \in 1 .. Len(w.gate) : f[i] = AdmitStep(f[i - 1], w.gate[i])
    BY DEF Rounds
  <2>2. k + 1 \in 1 .. Len(w.gate) /\ (k + 1) - 1 = k
    BY <1>1
  <2>3. QED
    BY <2>1, <2>2
<1>4. Books(w, a) /\ Fields \subseteq DOMAIN a
  BY <1>1 DEF Halfway, Books
<1> HIDE DEF r, a, b
<1>5. Kept(a, b, r)
  BY <1>3, <1>4, KeptAdmitEct, KeptAdmitB0 DEF AdmitStep
<1>6. Books(w, b)
  BY <1>4, <1>5 DEF Kept, Books
<1>7. ASSUME b.outcome = "running"
      PROVE  /\ NodeInv(b, Absent) /\ Tame(w, b)
             /\ \A j \in DOMAIN w.gate : j > k + 1 => b.runs[w.gate[j]].ticket.state = "QUEUED"
             /\ Unmoved(w, b)
  <2>1. a.outcome = "running"
    BY <1>5, <1>7 DEF Kept, Books
  <2>2. /\ NodeInv(a, Absent) /\ Tame(w, a)
        /\ \A j \in DOMAIN w.gate : j > k => a.runs[w.gate[j]].ticket.state = "QUEUED"
        /\ Unmoved(w, a)
    BY <2>1 DEF Halfway, a
  <2>3. In(a.gate, r)
    <3>1. a.runs[r].ticket.state = "QUEUED"
      BY <1>2, <2>2 DEF r
    <3>2. Settled(a, r)
      BY <1>2, <2>2, RequestFacts DEF NodeInv, Ticketed
    <3>3. QED
      BY <3>1, <3>2 DEF Settled
  <2>4. NodeInv(b, Absent) /\ Tame(a, b)
    <3>1. CASE IsEct
      <4>1. b = AdmitEct(a, r)
        BY <1>3, <3>1 DEF AdmitStep
      <4>2. QED
        BY <1>2, <1>7, <2>2, <2>3, <4>1, AdmitEctOk
    <3>2. CASE ~IsEct
      <4>1. b = AdmitB0(a, r)
        BY <1>3, <3>2 DEF AdmitStep
      <4>2. QED
        BY <1>2, <1>7, <2>2, <2>3, <4>1, AdmitB0Ok
    <3>3. QED
      BY <3>1, <3>2
  <2>5. ASSUME NEW j \in DOMAIN w.gate, j > k + 1
        PROVE  b.runs[w.gate[j]].ticket.state = "QUEUED"
    <3>1. w.gate[j] \in Request /\ w.gate[j] # r /\ j > k
      BY <1>1, <1>2, <2>5 DEF NoDup, r
    <3>2. a.runs \in [Request -> RunRecord]
      BY <2>2, Parts
    <3>3. b.runs[w.gate[j]] = a.runs[w.gate[j]]
      BY <1>5, <3>1, <3>2 DEF Kept
    <3>4. QED
      BY <2>2, <3>1, <3>3
  <2>6. Unmoved(w, b)
    <3>1. w.runs[r].state = "ARRIVED"
      <4>1. In(w.gate, r) /\ Bound(w, r)
        BY <1>2 DEF In, r, NodeInv, Ticketed
      <4>2. QED
        BY <4>1 DEF Bound
    <3>2. a.runs \in [Request -> RunRecord]
      BY <2>2, Parts
    <3>3. \A q \in Request \ {r} : b.runs[q] = a.runs[q]
      BY <1>5, <3>2 DEF Kept
    <3>4. QED
      BY <2>2, <3>1, <3>3 DEF Unmoved
  <2>7. QED
    BY <2>2, <2>4, <2>5, <2>6, TameTwice
<1>8. QED
  BY <1>6, <1>7 DEF Halfway, b

(* The simple route admits only who has arrived.                           *)
LEMMA ArrivedSimple ==
    ASSUME NEW w, Fields \subseteq DOMAIN w, NEW r, AdmitSimple(w, r).outcome = "running"
    PROVE  w.runs[r].state = "ARRIVED"
<1> DEFINE x == w.runs[r].transfer
           a == FallbackAff(w, r)
           b == StartTransfer(w, r, x.id, x.source, x.target, x.path)
           u == Unreserved(w, x.source, x.target, x.path)
           c == FallbackAff(u, r)
           y == IF Busy(w, x.source) \/ Busy(w, x.target) THEN a
                ELSE IF CanReserve(w, x.target, x.path) THEN b ELSE c
           ok == x.id # Absent /\ w.runs[r].state = "ARRIVED"
<1>1. AdmitSimple(w, r) = Check(y, ok)
  BY DEF AdmitSimple
<1> HIDE DEF u
<1>2. Kept(w, u, r)
  BY KeptReserve DEF u
<1>3. Fields \subseteq DOMAIN u
  BY <1>2, KeptFields
<1>4. Kept(w, a, r) /\ Kept(w, b, r) /\ Kept(u, c, r)
  BY <1>3, KeptFallback, KeptStartTransfer
<1>5. y = a \/ y = b \/ y = c
  OBVIOUS
<1> HIDE DEF a, b, c, y
<1>6. Fields \subseteq DOMAIN y
  BY <1>3, <1>4, <1>5, KeptFields
<1>7. ok
  BY <1>1, <1>6, CheckFacts DEF Fields
<1>8. QED
  BY <1>7

(* An admission event keeps the invariant.                                 *)
LEMMA OnAdmitOk ==
    ASSUME NEW w, NodeInv(w, Absent), NEW r \in Request,
           NEW v, v = OnAdmit(w, r), v.outcome = "running"
    PROVE  NodeInv(v, Absent) /\ Tame(w, v) /\ Unmoved(w, v)
<1>1. CASE ~Tickets
  <2>1. v = AdmitSimple(w, r)
    BY <1>1 DEF OnAdmit
  <2>2. NodeInv(v, Absent) /\ Tame(w, v)
    BY <1>1, <2>1, AdmitSimpleOk
  <2>3. w.runs \in [Request -> RunRecord] /\ Fields \subseteq DOMAIN w
    BY Parts
  <2>4. w.runs[r].state = "ARRIVED" /\ Kept(w, v, r)
    BY <2>1, <2>3, ArrivedSimple, KeptAdmitSimple
  <2>5. QED
    BY <2>2, <2>3, <2>4 DEF Unmoved, Kept
<1>2. CASE Tickets
  <2> DEFINE n == Len(w.gate)
  <2>1. /\ w.gate \in Seq(Request) /\ DOMAIN w.gate = 1 .. n /\ n \in Nat
        /\ Fields \subseteq DOMAIN w
    BY Parts
  <2>2. PICK f : Rounds(w, v, f)
    BY <1>2, <2>1, RoundUnfolds
  <2>3. v = f[n] /\ f[0] = w
    BY <2>2 DEF Rounds
  <2>4. Halfway(w, f, 0)
    <3>1. Books(w, w) /\ Tame(w, w) /\ Unmoved(w, w)
      BY SMTT(30) DEF Books, Tame, Unmoved
    <3>2. \A j \in DOMAIN w.gate : w.runs[w.gate[j]].ticket.state = "QUEUED"
      <4>1. TAKE j \in DOMAIN w.gate
      <4>2. w.gate[j] \in Request /\ In(w.gate, w.gate[j])
        BY <2>1 DEF In
      <4>3. Settled(w, w.gate[j])
        BY <4>2, RequestFacts DEF NodeInv, Ticketed
      <4>4. QED
        BY <4>2, <4>3 DEF Settled
    <3>3. QED
      BY <2>3, <3>1, <3>2 DEF Halfway
  <2>5. ASSUME NEW k \in Nat, k + 1 <= n, Halfway(w, f, k)
        PROVE  Halfway(w, f, k + 1)
    BY <2>2, <2>3, <2>5, RoundStep
  <2> DEFINE Bad == {k \in Nat : k <= n /\ ~Halfway(w, f, k)}
  <2> HIDE DEF n
  <2>6. Bad = {}
    <3>1. SUFFICES ASSUME Bad # {} PROVE FALSE
      OBVIOUS
    <3>2. PICK k \in Bad : \A j \in Bad : k <= j
      BY <3>1, LeastNat
    <3>3. k # 0
      BY <2>4
    <3>4. k - 1 \in Nat /\ k - 1 <= n /\ Halfway(w, f, k - 1) /\ (k - 1) + 1 = k
      BY <2>1, <3>2, <3>3
    <3>5. QED
      BY <2>1, <2>5, <3>2, <3>4
  <2>7. Halfway(w, f, n)
    BY <2>1, <2>6
  <2>8. QED
    BY <2>3, <2>7 DEF Halfway
<1>3. QED
  BY <1>1, <1>2

-----------------------------------------------------------------------------
(* The end of a transfer *)

\* Both ends are free again, and nothing else is different.
Ended(w, v, s, t) ==
    /\ \A p \in Pod \ {s, t} : v.pods[p] = w.pods[p]
    /\ v.pods[s].cache = w.pods[s].cache /\ v.pods[s].busy = Absent
    /\ ~v.pods[s].sends /\ v.pods[s].receives = w.pods[s].receives
    /\ v.pods[t].cache = w.pods[t].cache /\ v.pods[t].busy = Absent
    /\ ~v.pods[t].receives /\ v.pods[t].sends = w.pods[t].sends
    /\ \A p \in Pod : SameWork(w.pods[p], v.pods[p])

(* The ends of a transfer are let go.                                      *)
LEMMA ReleasedOk ==
    ASSUME NEW w \in World, NEW x, x.source \in Pod, x.target \in Pod, x.source # x.target,
           NEW v, v = Released(w, x), v.outcome = "running"
    PROVE  v \in World /\ Others(w, v) /\ Ended(w, v, x.source, x.target)
<1> DEFINE s == x.source
           t == x.target
           a == [w.pods[s] EXCEPT !.busy = Absent, !.sends = FALSE]
           b == [w.pods[t] EXCEPT !.busy = Absent, !.receives = FALSE]
           y == [w EXCEPT !.pods[s] = a]
           u == [y EXCEPT !.pods[t] = b]
           ok == /\ w.pods[x.source].busy = x.id /\ w.pods[x.target].busy = x.id
                 /\ w.pods[x.source].sends /\ w.pods[x.target].receives
<1>1. w.pods \in [Pod -> PodRecord] /\ w.pods[s] \in PodRecord /\ w.pods[t] \in PodRecord
  BY DEF World
<1>2. /\ a \in PodRecord /\ a.cache = w.pods[s].cache /\ a.busy = Absent /\ ~a.sends
      /\ a.receives = w.pods[s].receives /\ SameWork(w.pods[s], a)
  BY <1>1 DEF PodRecord, SameWork
<1>3. /\ b \in PodRecord /\ b.cache = w.pods[t].cache /\ b.busy = Absent /\ ~b.receives
      /\ b.sends = w.pods[t].sends /\ SameWork(w.pods[t], b)
  BY <1>1 DEF PodRecord, SameWork
<1>4. v = Check(u, ok)
  <2>1. [w EXCEPT !.pods[s] = [@ EXCEPT !.busy = Absent, !.sends = FALSE]] = y
    BY <1>1 DEF World
  <2>2. y.pods[t] = w.pods[t] /\ y.pods \in [Pod -> PodRecord]
    BY <1>1, <1>2 DEF World
  <2>3. [y EXCEPT !.pods[t] = [@ EXCEPT !.busy = Absent, !.receives = FALSE]] = u
    <3> HIDE DEF y
    <3>1. QED
      BY <2>2
  <2>4. QED
    BY <2>1, <2>3 DEF Released
<1>5. Put(w, y, s, a)
  BY DEF Put
<1>6. Put(y, u, t, b)
  BY DEF Put
<1> HIDE DEF a, b, y, u, ok
<1>7. y \in World /\ Others(w, y) /\ y.pods[s] = a /\ \A p \in Pod \ {s} : y.pods[p] = w.pods[p]
  BY <1>2, <1>5, PutFacts
<1>8. u \in World /\ Others(y, u) /\ u.pods[t] = b /\ \A p \in Pod \ {t} : u.pods[p] = y.pods[p]
  BY <1>3, <1>6, <1>7, PutFacts
<1>9. v = u
  BY <1>4, <1>8, CheckFacts DEF World
<1>10. Others(w, v)
  BY <1>7, <1>8, <1>9 DEF Others
<1>11. /\ v.pods[s] = a /\ v.pods[t] = b
       /\ \A p \in Pod \ {s, t} : v.pods[p] = w.pods[p]
  BY <1>7, <1>8, <1>9
<1>12. \A p \in Pod : SameWork(w.pods[p], v.pods[p])
  <2>1. TAKE p \in Pod
  <2>2. p = s \/ p = t \/ v.pods[p] = w.pods[p]
    BY <1>11
  <2>3. SameWork(w.pods[p], w.pods[p])
    BY DEF SameWork
  <2>4. QED
    BY <1>2, <1>3, <1>11, <2>2, <2>3
<1>13. QED
  BY <1>2, <1>3, <1>8, <1>9, <1>10, <1>11, <1>12 DEF Ended

\* Pod p has cache c instead.
Swap(w, v, p, c) == v = [w EXCEPT !.pods[p].cache = c]

(* One cache is replaced.                                                  *)
LEMMA SwapOk ==
    ASSUME NEW w \in World, NEW p \in Pod, NEW c \in PrefixCache, NEW v, Swap(w, v, p, c)
    PROVE  /\ v \in World /\ Others(w, v) /\ v.pods[p].cache = c
           /\ v.pods[p].busy = w.pods[p].busy /\ v.pods[p].sends = w.pods[p].sends
           /\ v.pods[p].receives = w.pods[p].receives /\ SameWork(w.pods[p], v.pods[p])
           /\ \A q \in Pod \ {p} : v.pods[q] = w.pods[q]
<1> DEFINE a == [w.pods[p] EXCEPT !.cache = c]
<1>1. w.pods \in [Pod -> PodRecord] /\ w.pods[p] \in PodRecord
  BY DEF World
<1>2. /\ a \in PodRecord /\ a.cache = c /\ a.busy = w.pods[p].busy /\ a.sends = w.pods[p].sends
      /\ a.receives = w.pods[p].receives /\ SameWork(w.pods[p], a)
  BY <1>1 DEF PodRecord, SameWork
<1>3. Put(w, v, p, a)
  BY <1>1 DEF Put, Swap, World
<1> HIDE DEF a
<1>4. v \in World /\ Others(w, v) /\ v.pods[p] = a /\ \A q \in Pod \ {p} : v.pods[q] = w.pods[q]
  BY <1>2, <1>3, PutFacts
<1>5. QED
  BY <1>2, <1>4

(* A transfer lands: the pages are in, the reservation and the pin are     *)
(* gone, and both ends are free.                                           *)
\* Transfer x, with key k, lands: its ends are free, the target has the pages, the source has c.
Unloading(w, k, x, u, y, c, z) ==
    /\ x.id = IdOf(w, k) /\ x.source = SourceOf(w, k) /\ x.target = GoalOf(w, k)
    /\ x.path = PathOf(w, k)
    /\ u = Released(w, x) /\ u.outcome = "running"
    /\ Swap(u, y, x.target, CommitTransferTemporary(u.pods[x.target].cache, x.id, x.path))
    /\ CacheOk(c, Root, HitOf(w, x.source)) /\ c.pages \subseteq Pages(w, x.source)
    /\ SamePrivate(w.pods[x.source].cache, c) /\ SameTemporary(w.pods[x.source].cache, c)
    /\ Swap(y, z, x.source, c)

(* The three steps in which a transfer is unloaded.                        *)
LEMMA LandedOk ==
    ASSUME NEW w \in World, NEW h, Flying(w, h), NEW k \in Keys(w, h), NEW x,
           NEW u, NEW y, NEW c, NEW z, Unloading(w, k, x, u, y, c, z)
    PROVE  /\ z \in World /\ Others(w, z) /\ Landed(w, z, x.source, x.target)
           /\ \A p \in Pod : SameWork(w.pods[p], z.pods[p])
           /\ Pages(z, x.target) = Pages(w, x.target) \cup Chain[x.path]
           /\ \A p \in Pod \ {x.target} : Pages(z, p) \subseteq Pages(w, p)
<1>0. /\ x.id = IdOf(w, k) /\ x.source = SourceOf(w, k) /\ x.target = GoalOf(w, k)
      /\ x.path = PathOf(w, k)
      /\ u = Released(w, x) /\ u.outcome = "running"
      /\ Swap(u, y, x.target, CommitTransferTemporary(u.pods[x.target].cache, x.id, x.path))
      /\ CacheOk(c, Root, HitOf(w, x.source)) /\ c.pages \subseteq Pages(w, x.source)
      /\ SamePrivate(w.pods[x.source].cache, c) /\ SameTemporary(w.pods[x.source].cache, c)
      /\ Swap(y, z, x.source, c)
  BY DEF Unloading
<1> DEFINE s == x.source
           t == x.target
           e == CommitTransferTemporary(w.pods[t].cache, x.id, x.path)
<1>1. s \in Pod /\ t \in Pod /\ s # t
  BY <1>0 DEF Flying, Flown
<1>2. /\ CacheOk(e, Root, HitOf(w, t)) /\ e.pages = w.pods[t].cache.pages \cup Chain[x.path]
      /\ SamePrivate(w.pods[t].cache, e) /\ DOMAIN e.temporary = {} /\ e.temporaryPages = 0
  BY <1>0, LandedCaches
<1>3. u \in World /\ Others(w, u) /\ Ended(w, u, s, t)
  BY <1>0, <1>1, ReleasedOk
<1>4. Swap(u, y, t, e)
  BY <1>0, <1>3 DEF Ended
<1>5. e \in PrefixCache /\ c \in PrefixCache
  BY <1>0, <1>2 DEF CacheOk
<1> HIDE DEF s, t, e
<1>6. /\ y \in World /\ Others(u, y) /\ y.pods[t].cache = e
      /\ y.pods[t].busy = u.pods[t].busy /\ y.pods[t].sends = u.pods[t].sends
      /\ y.pods[t].receives = u.pods[t].receives /\ SameWork(u.pods[t], y.pods[t])
      /\ \A q \in Pod \ {t} : y.pods[q] = u.pods[q]
  BY <1>1, <1>3, <1>4, <1>5, SwapOk
<1>7. Swap(y, z, s, c)
  BY <1>0 DEF s
<1>8. /\ z \in World /\ Others(y, z) /\ z.pods[s].cache = c
      /\ z.pods[s].busy = y.pods[s].busy /\ z.pods[s].sends = y.pods[s].sends
      /\ z.pods[s].receives = y.pods[s].receives /\ SameWork(y.pods[s], z.pods[s])
      /\ \A q \in Pod \ {s} : z.pods[q] = y.pods[q]
  BY <1>1, <1>5, <1>6, <1>7, SwapOk
<1>9. Others(w, z)
  BY <1>3, <1>6, <1>8 DEF Others
<1>10. /\ \A p \in Pod \ {s, t} : z.pods[p] = w.pods[p]
       /\ z.pods[t] = y.pods[t] /\ y.pods[s] = u.pods[s]
  BY <1>1, <1>3, <1>6, <1>8 DEF Ended
<1>11. \A p \in Pod : SameWork(w.pods[p], z.pods[p])
  <2>1. TAKE p \in Pod
  <2>2. SameWork(w.pods[p], u.pods[p])
    BY <1>3 DEF Ended
  <2>3. p = s \/ p = t \/ z.pods[p] = w.pods[p]
    BY <1>10
  <2>4. QED
    BY <1>6, <1>8, <1>10, <2>2, <2>3 DEF SameWork
<1>12. CacheOk(c, Root, HitOf(w, s)) /\ SameTemporary(w.pods[s].cache, c) /\ SamePrivate(w.pods[s].cache, c)
       /\ c.pages \subseteq w.pods[s].cache.pages
  BY <1>0 DEF s, Pages
<1>13. Landed(w, z, s, t)
  <2>1. \A p \in Pod \ {s, t} : SameHold(w.pods[p], z.pods[p])
    BY <1>10 DEF SameHold
  <2>2. /\ CacheOk(z.pods[s].cache, Root, HitOf(w, s))
        /\ SameTemporary(w.pods[s].cache, z.pods[s].cache)
        /\ z.pods[s].busy = Absent /\ ~z.pods[s].sends /\ z.pods[s].receives = w.pods[s].receives
    BY <1>3, <1>8, <1>10, <1>12 DEF Ended
  <2>3. /\ CacheOk(z.pods[t].cache, Root, HitOf(w, t))
        /\ DOMAIN z.pods[t].cache.temporary = {} /\ z.pods[t].cache.temporaryPages = 0
        /\ z.pods[t].busy = Absent /\ ~z.pods[t].receives /\ z.pods[t].sends = w.pods[t].sends
    BY <1>2, <1>3, <1>6, <1>10 DEF Ended
  <2>4. \A p \in Pod : SamePrivate(w.pods[p].cache, z.pods[p].cache)
    <3>1. TAKE p \in Pod
    <3>2. CASE p = s
      BY <1>8, <1>12, <3>2
    <3>3. CASE p = t
      BY <1>2, <1>6, <1>10, <3>3
    <3>4. CASE p \notin {s, t}
      BY <1>10, <3>4 DEF SamePrivate
    <3>5. QED
      BY <3>2, <3>3, <3>4
  <2>5. QED
    BY <2>1, <2>2, <2>3, <2>4 DEF Landed
<1>14. Pages(z, t) = Pages(w, t) \cup Chain[x.path]
  BY <1>2, <1>6, <1>10 DEF Pages
<1>15. \A p \in Pod \ {t} : Pages(z, p) \subseteq Pages(w, p)
  <2>1. TAKE p \in Pod \ {t}
  <2>2. CASE p = s
    BY <1>8, <1>12, <2>2 DEF Pages
  <2>3. CASE p # s
    BY <1>10, <2>3 DEF Pages
  <2>4. QED
    BY <2>2, <2>3
<1>16. QED
  BY <1>8, <1>9, <1>11, <1>13, <1>14, <1>15 DEF s, t

-----------------------------------------------------------------------------
(* TRANSFER_COMPLETE *)

(* What became of credits: a page that was there keeps its credit, a page  *)
(* that came belongs to i, and any other lost it or not.                   *)
Loyal(w, v, i) ==
    /\ v.now = w.now /\ v.gone = w.gone
    /\ \A p \in Pod : \A x \in Block :
          LET old == w.replicas[p][x]
              new == v.replicas[p][x]
          IN  IF x \in Pages(w, p) THEN new = old
              ELSE IF x \in Pages(v, p) THEN new = i ELSE new \in {0, old}

(* A tame step credits no page.                                            *)
LEMMA TameLoyal ==
    ASSUME NEW w, NEW v, Tame(w, v)
    PROVE  Loyal(w, v, 0)
<1>1. \A p \in Pod : Pages(v, p) \subseteq Pages(w, p)
  BY DEF Tame
<1>2. v.replicas = w.replicas /\ v.now = w.now /\ v.gone = w.gone
  BY DEF Tame
<1>3. QED
  BY <1>1, <1>2 DEF Loyal

(* A tame step after a loyal one.                                          *)
LEMMA LoyalTame ==
    ASSUME NEW a, NEW b, NEW c, Loyal(a, b, 0), Tame(b, c)
    PROVE  Loyal(a, c, 0)
<1>1. \A p \in Pod : Pages(c, p) \subseteq Pages(b, p)
  BY DEF Tame
<1>2. c.replicas = b.replicas /\ c.now = b.now /\ c.gone = b.gone
  BY DEF Tame
<1>3. QED
  BY <1>1, <1>2 DEF Loyal

(* The transfer of request r has landed, and the handler goes on with r.   *)
LEMMA RequestLands ==
    ASSUME NEW w, NodeInv(w, Absent), NEW r \in Request, w.runs[r].state = "WAITING_TRANSFER",
           NEW z \in World, Others(w, z),
           Landed(w, z, w.runs[r].transfer.source, w.runs[r].transfer.target),
           \A p \in Pod : SameWork(w.pods[p], z.pods[p])
    PROVE  NodeInv(z, r)
<1>1. /\ w \in World /\ Lives(w) /\ Ticketed(w, Absent) /\ Flying(w, Absent) /\ Serving(w)
      /\ Posted(w) /\ w.outcome = "running"
  BY DEF NodeInv
<1>2. z.runs = w.runs /\ z.gate = w.gate /\ z.events = w.events /\ z.now = w.now
      /\ z.copies = w.copies /\ z.outcome = w.outcome
  BY DEF Others
<1>3. Lives(z)
  BY <1>1, <1>2 DEF Lives, LifeOf, SameWork
<1>4. Ticketed(z, r)
  <2>1. \A q \in Request : Bound(z, q)
    BY <1>1, <1>2 DEF Ticketed, Bound, SameWork
  <2>2. \A q \in Request : Settled(w, q)
    BY <1>1, RequestFacts DEF Ticketed
  <2>3. \A q \in Request : Settled(z, q)
    BY SMTT(30), <1>2, <2>2 DEF Settled
  <2>4. QED
    BY <1>1, <1>2, <2>1, <2>3 DEF Ticketed
<1>5. Posted(z)
  BY <1>1, <1>2 DEF Posted, Ready
<1>6. SameService(w, z)
  BY <1>2 DEF SameService, SameWork
<1>7. r > 0 /\ r \in Int /\ r # Absent /\ ~(-r \in DOMAIN w.copies)
  <2>1. r \in Nat /\ r > 0 /\ r # Absent
    BY RequestFacts
  <2>2. w.copies \in Seq(CopyRecord)
    BY <1>1 DEF World
  <2>3. DOMAIN w.copies = 1 .. Len(w.copies)
    BY <2>2
  <2>4. QED
    BY <2>1, <2>3
<1>8. r \in Keys(w, Absent) /\ Keys(z, r) = Keys(w, Absent) \ {r}
  <2>1. r \in Keys(w, Absent)
    BY <1>7 DEF Keys
  <2>2. Keys(z, r) = Keys(w, Absent) \ {r}
    BY <1>2, <1>7, RequestFacts DEF Keys
  <2>3. QED
    BY <2>1, <2>2
<1>9. SourceOf(w, r) = w.runs[r].transfer.source /\ GoalOf(w, r) = w.runs[r].transfer.target
  BY <1>7 DEF SourceOf, GoalOf
<1>10. \A l \in Keys(z, r) : SameKey(w, z, l)
  BY <1>2 DEF SameKey, IdOf, SourceOf, GoalOf, PathOf
<1>11. Landed(w, z, SourceOf(w, r), GoalOf(w, r))
  BY <1>9
<1>12. Flying(z, r) /\ Serving(z)
  BY <1>1, <1>6, <1>8, <1>10, <1>11, Landing
<1>13. QED
  BY <1>1, <1>2, <1>3, <1>4, <1>5, <1>12 DEF NodeInv

(* Only credits are other ones.                                            *)
LEMMA UncreditOk ==
    ASSUME NEW w, NEW h, NodeInv(w, h), NEW p \in Pod, NEW S,
           NEW v, v = Uncredit(w, p, S)
    PROVE  /\ NodeInv(v, h) /\ v.now = w.now /\ v.gone = w.gone /\ v.pods = w.pods /\ v.runs = w.runs
           /\ v.gate = w.gate
           /\ \A q \in Pod : \A x \in Block :
                 v.replicas[q][x] = IF q = p /\ x \in S THEN 0 ELSE w.replicas[q][x]
<1> DEFINE f == [x \in Block |-> IF x \in S THEN 0 ELSE w.replicas[p][x]]
<1>1. w \in World /\ w.replicas \in [Pod -> [Block -> Int]]
  BY Parts DEF World
<1>2. v = [w EXCEPT !.replicas = [w.replicas EXCEPT ![p] = f]]
  BY <1>1 DEF Uncredit, World
<1>3. f \in [Block -> Int]
  BY <1>1
<1>4. [w.replicas EXCEPT ![p] = f] \in [Pod -> [Block -> Int]]
  BY <1>1, <1>3
<1>5. /\ v \in World /\ v.now = w.now /\ v.pods = w.pods /\ v.runs = w.runs /\ v.gate = w.gate
      /\ v.events = w.events /\ v.copies = w.copies /\ v.outcome = w.outcome /\ v.gone = w.gone
  <2> HIDE DEF f
  <2>1. QED
    BY <1>1, <1>2, <1>4 DEF World
<1>6. v.replicas = [w.replicas EXCEPT ![p] = f]
  <2> HIDE DEF f
  <2>1. QED
    BY <1>1, <1>2 DEF World
<1>7. \A q \in Pod : \A x \in Block :
         v.replicas[q][x] = IF q = p /\ x \in S THEN 0 ELSE w.replicas[q][x]
  BY <1>1, <1>6
<1> HIDE DEF f
<1>8. NodeInv(v, h)
  BY <1>5, NumbersOk
<1>9. QED
  BY <1>5, <1>7, <1>8

(* The end of a transfer keeps the invariant.                              *)
LEMMA OnCompleteOk ==
    ASSUME NEW w, NodeInv(w, Absent), NEW r \in Request,
           NEW v, v = OnComplete(w, r), v.outcome = "running"
    PROVE  NodeInv(v, Absent) /\ Loyal(w, v, 0) /\ Unmoved(w, v)
<1> DEFINE x == w.runs[r].transfer
           s == x.source
           t == x.target
           m == x.path
           held == w.pods[t].cache
           new == Chain[m] \ held.pages
           u == Released(w, x)
           stats == [w.stats EXCEPT !.completed = @ + 1, !.wirePages = @ + Depth(m),
                                    !.newPages = @ + Cardinality(new)]
           y == [u EXCEPT !.pods[t].cache = CommitTransferTemporary(@, x.id, m)]
           z == [y EXCEPT !.pods[s].cache = Unpin(@, m)]
           run == [w.runs[r] EXCEPT !.assisted = TRUE]
           freed == [y EXCEPT !.pods[s].cache = Unpin(@, m), !.runs[r].assisted = TRUE,
                              !.stats = stats]
           a == DropPressure(freed, r)
           b == [a EXCEPT !.runs[r].ticket.state = "COMPLETED"]
           closed == IF w.runs[r].ticket.state = "NONE" THEN freed ELSE b
           c == Uncredit(closed, t, new)
           d == EnqueueReady(c, r, t)
           e == WakeGate(d)
           ok == w.runs[r].state = "WAITING_TRANSFER" /\ Cardinality(new) <= held.temporary[x.id]
<1>1. v = Check(e, ok)
  BY Zenon DEF OnComplete
<1>2. freed = [z EXCEPT !.runs[r].assisted = TRUE, !.stats = stats]
  BY DEF z
<1> HIDE DEF x, held, new, u, y, z, stats, freed, a, b, closed, c, d, e, ok
<1>3. /\ w \in World /\ Fields \subseteq DOMAIN w /\ w.runs \in [Request -> RunRecord]
      /\ w.stats \in StatsRecord /\ w.runs[r] \in RunRecord /\ x \in TransferRecord
      /\ w.pods \in [Pod -> PodRecord]
  BY Parts DEF x
<1>4. Kept(w, u, r) /\ Fields \subseteq DOMAIN u
  BY <1>3, KeptReserve, KeptFields DEF u
<1>5. Kept(u, y, r) /\ Kept(y, z, r) /\ Kept(z, freed, r)
  <2>1. Kept(u, y, r)
    BY <1>4 DEF Kept, Books, Fields, y
  <2>2. Kept(y, z, r)
    BY <1>4, <2>1, KeptFields DEF Kept, Books, Fields, z
  <2>3. Fields \subseteq DOMAIN z
    BY <1>4, <2>1, <2>2, KeptFields
  <2>4. Kept(z, freed, r)
    BY <1>2, <2>3 DEF Kept, Books, Fields
  <2>5. QED
    BY <2>1, <2>2, <2>4
<1>6. Fields \subseteq DOMAIN freed
  BY <1>4, <1>5, KeptFields
<1>7. Kept(freed, closed, r) /\ Fields \subseteq DOMAIN closed
  <2>1. Kept(freed, a, r)
    BY <1>6, KeptDrop DEF a
  <2>2. Fields \subseteq DOMAIN a
    BY <1>6, <2>1, KeptFields
  <2>3. Kept(a, b, r)
    BY <2>2 DEF Kept, Books, Fields, b
  <2>4. Kept(freed, freed, r) /\ Kept(freed, b, r)
    BY <2>1, <2>3, KeptTwice, KeptSame
  <2>5. closed = freed \/ closed = b
    BY DEF closed
  <2>6. Kept(freed, closed, r)
    BY <2>4, <2>5
  <2>7. QED
    BY <1>6, <2>6, KeptFields
<1>8. Kept(closed, c, r) /\ Fields \subseteq DOMAIN c
  <2>1. Kept(closed, c, r)
    BY <1>7 DEF Kept, Books, Fields, Uncredit, c
  <2>2. QED
    BY <1>7, <2>1, KeptFields
<1>9. Kept(c, d, r) /\ Fields \subseteq DOMAIN d
  <2>1. Kept(c, d, r)
    BY <1>8, KeptEnqueue DEF d
  <2>2. QED
    BY <1>8, <2>1, KeptFields
<1>10. Kept(d, e, r) /\ Fields \subseteq DOMAIN e
  <2>1. Kept(d, e, r)
    BY <1>9, KeptWake DEF e
  <2>2. QED
    BY <1>9, <2>1, KeptFields
<1>11. ok /\ v = e
  BY <1>1, <1>10, CheckFacts DEF Fields
<1>12. d.outcome = "running" /\ c.outcome = "running" /\ u.outcome = "running"
  BY <1>5, <1>7, <1>8, <1>9, <1>10, <1>11 DEF Kept, Books
<1>13. w.runs[r].state = "WAITING_TRANSFER"
  BY <1>11 DEF ok
<1>14. r > 0 /\ r \in Keys(w, Absent) /\ w.outcome = "running" /\ Flying(w, Absent)
  <2>1. r > 0 /\ r \in Int /\ r # Absent
    BY RequestFacts
  <2>2. QED
    BY <1>13, <2>1 DEF Keys, NodeInv
<1>15. x.id = IdOf(w, r) /\ s = SourceOf(w, r) /\ t = GoalOf(w, r) /\ m = PathOf(w, r)
  BY <1>14 DEF IdOf, SourceOf, GoalOf, PathOf, x
<1>16. s \in Pod /\ t \in Pod /\ s # t /\ m \in Node
  BY <1>14, <1>15 DEF Flying, Flown
<1> DEFINE k == Unpin(w.pods[s].cache, m)
<1>17. /\ CacheOk(k, Root, HitOf(w, s)) /\ k.pages = Pages(w, s)
       /\ SamePrivate(w.pods[s].cache, k) /\ SameTemporary(w.pods[s].cache, k)
  BY <1>3, <1>14, <1>15, LandedCaches DEF Pages
<1>18. u \in World /\ Others(w, u) /\ Ended(w, u, s, t)
  BY <1>3, <1>12, <1>16, ReleasedOk DEF u
<1>19. u.pods[s].cache = w.pods[s].cache
  BY <1>18 DEF Ended
<1>20. Swap(u, y, t, CommitTransferTemporary(u.pods[t].cache, x.id, m))
  BY <1>16, <1>18 DEF Swap, y, World
<1>21. Swap(y, z, s, k)
  <2>1. y.pods[s].cache = w.pods[s].cache /\ s \in DOMAIN y.pods
    BY <1>16, <1>18, <1>19 DEF y, World
  <2>2. QED
    BY <2>1 DEF Swap, z
<1> HIDE DEF s, t, m, k
<1>22. /\ z \in World /\ Others(w, z) /\ Landed(w, z, s, t)
       /\ \A p \in Pod : SameWork(w.pods[p], z.pods[p])
       /\ Pages(z, t) = Pages(w, t) \cup Chain[m]
       /\ \A p \in Pod \ {t} : Pages(z, p) \subseteq Pages(w, p)
  <2>1. u = Released(w, x)
    BY DEF u
  <2>2. /\ x.source = s /\ x.target = t /\ x.path = m
    BY DEF s, t, m
  <2>3. k.pages \subseteq Pages(w, s)
    BY <1>17
  <2>4. /\ x.id = IdOf(w, r) /\ x.source = SourceOf(w, r) /\ x.target = GoalOf(w, r)
        /\ x.path = PathOf(w, r)
    BY <1>15, <2>2
  <2>5. Swap(u, y, x.target, CommitTransferTemporary(u.pods[x.target].cache, x.id, x.path))
    BY <1>20, <2>2
  <2>6. /\ CacheOk(k, Root, HitOf(w, x.source)) /\ k.pages \subseteq Pages(w, x.source)
        /\ SamePrivate(w.pods[x.source].cache, k) /\ SameTemporary(w.pods[x.source].cache, k)
    BY <1>17, <2>2, <2>3
  <2>7. Swap(y, z, x.source, k)
    BY <1>21, <2>2
  <2>10. Unloading(w, r, x, u, y, k, z)
    BY <1>12, <2>1, <2>4, <2>5, <2>6, <2>7 DEF Unloading
  <2>8. /\ z \in World /\ Others(w, z) /\ Landed(w, z, x.source, x.target)
        /\ \A p \in Pod : SameWork(w.pods[p], z.pods[p])
        /\ Pages(z, x.target) = Pages(w, x.target) \cup Chain[x.path]
        /\ \A p \in Pod \ {x.target} : Pages(z, p) \subseteq Pages(w, p)
    BY <1>3, <1>14, <2>10, LandedOk
  <2>9. QED
    BY <2>2, <2>8
<1>23. NodeInv(z, r)
  <2>1. w.runs[r].transfer.source = s /\ w.runs[r].transfer.target = t
    BY DEF s, t, x
  <2>2. QED
    BY <1>13, <1>22, <2>1, RequestLands
<1>24. z.runs = w.runs /\ z.stats = w.stats /\ z.gate = w.gate
  BY <1>22 DEF Others
<1>25. run \in RunRecord /\ Quiet(w.runs[r], run) /\ run.ticket = w.runs[r].ticket
  BY <1>3 DEF RunRecord, Quiet
<1>26. stats \in StatsRecord
  <2>1. Depth(m) \in Nat /\ Cardinality(new) \in Nat
    <3>1. IsFiniteSet(Chain[m]) /\ Depth(m) \in Nat
      BY <1>16, ChainFacts
    <3>2. IsFiniteSet(new)
      BY <3>1, FS_Subset DEF new
    <3>3. QED
      BY <3>1, <3>2, FS_CardinalityType
  <2> DEFINE n1 == w.stats.completed + 1
             n2 == w.stats.wirePages + Depth(m)
             n3 == w.stats.newPages + Cardinality(new)
  <2>2. n1 \in Nat /\ n2 \in Nat /\ n3 \in Nat
    BY <1>3, <2>1 DEF StatsRecord
  <2>3. stats = [w.stats EXCEPT !.completed = n1, !.wirePages = n2, !.newPages = n3]
    BY DEF stats
  <2> HIDE DEF n1, n2, n3
  <2>4. QED
    BY <1>3, <2>2, <2>3 DEF StatsRecord
<1>27. Noted(z, freed, r, run, stats)
  <2>1. z.runs \in [Request -> RunRecord]
    BY <1>3, <1>24
  <2>2. QED
    BY <1>2, <1>22, <1>24, <2>1 DEF Noted, World
<1> HIDE DEF run
<1>28. /\ NodeInv(freed, r) /\ Tame(z, freed) /\ freed.gate = z.gate /\ freed.runs[r] = run
  BY <1>23, <1>24, <1>25, <1>26, <1>27, NoteOk
<1>29. /\ NodeInv(closed, r) /\ Tame(z, closed) /\ closed.gate = w.gate
       /\ closed.runs[r].ticket.state \notin {"QUEUED", "TRANSFER_RUNNING"}
       /\ closed.runs[r].state # "NONE"
  <2>1. CASE w.runs[r].ticket.state = "NONE"
    <3>1. closed = freed
      BY <2>1 DEF closed
    <3>2. QED
      BY <1>13, <1>24, <1>25, <1>28, <2>1, <3>1 DEF Quiet
  <2>2. CASE w.runs[r].ticket.state # "NONE"
    <3> DEFINE after == [a.runs[r] EXCEPT !.ticket.state = "COMPLETED"]
    <3>1. closed = b
      BY <2>2 DEF closed
    <3>2. /\ NodeInv(a, r) /\ Tame(freed, a) /\ a.gate = freed.gate
          /\ a.runs[r] = [freed.runs[r] EXCEPT !.ticket.owner = Absent]
      BY <1>28, DropOk DEF a
    <3>3. a \in World /\ a.runs[r] \in RunRecord /\ a.runs[r].ticket \in TicketRecord
      BY <3>2, Parts
    <3>4. after \in RunRecord /\ Quiet(a.runs[r], after) /\ after.ticket.state = "COMPLETED"
      BY <3>3 DEF RunRecord, TicketRecord, TicketStates, Quiet
    <3>5. Jotted(a, b, r, after)
      BY <3>3 DEF Jotted, b, World
    <3> HIDE DEF after
    <3>6. NodeInv(b, r) /\ Tame(a, b) /\ b.gate = a.gate /\ b.runs[r] = after
      BY <3>2, <3>4, <3>5, RunNoteOk
    <3>7. Tame(z, b)
      BY <1>28, <3>2, <3>6, TameTwice
    <3>8. after.state # "NONE"
      <4>1. a.runs[r].state = freed.runs[r].state
        BY <1>25, <1>28, <3>2 DEF RunRecord
      <4>2. QED
        BY <1>13, <1>25, <1>28, <3>4, <4>1 DEF Quiet
    <3>9. QED
      BY <1>24, <1>28, <3>1, <3>2, <3>4, <3>6, <3>7, <3>8
  <2>3. QED
    BY <2>1, <2>2
<1>30. /\ NodeInv(c, r) /\ c.now = closed.now /\ c.gone = closed.gone /\ c.pods = closed.pods
       /\ c.runs = closed.runs /\ c.gate = closed.gate
       /\ \A q \in Pod : \A b1 \in Block :
             c.replicas[q][b1] = IF q = t /\ b1 \in new THEN 0 ELSE closed.replicas[q][b1]
  BY <1>16, <1>29, UncreditOk DEF c
<1>31. ~In(c.gate, r)
  <2>1. Bound(w, r)
    BY DEF NodeInv, Ticketed
  <2>2. ~In(w.gate, r)
    BY <1>13, <2>1 DEF Bound
  <2>3. QED
    BY <1>29, <1>30, <2>2
<1>32. NodeInv(d, Absent) /\ Tame(c, d)
  <2>1. c.runs[r].ticket.state \notin {"QUEUED", "TRANSFER_RUNNING"} /\ c.runs[r].state # "NONE"
    BY <1>29, <1>30
  <2>2. QED
    BY <1>12, <1>16, <1>30, <1>31, <2>1, EnqueueOk DEF d
<1>33. NodeInv(v, Absent) /\ Tame(d, v)
  BY <1>11, <1>32, WakeOk DEF e
<1>34. Loyal(w, c, 0)
  <2>1. c.now = w.now /\ c.gone = w.gone
    BY <1>22, <1>29, <1>30 DEF Tame, Others
  <2>2. \A q \in Pod : closed.replicas[q] = w.replicas[q] /\ Pages(c, q) \subseteq Pages(z, q)
    BY <1>22, <1>29, <1>30 DEF Tame, Others, Pages
  <2>3. \A q \in Pod : Pages(c, q) \subseteq Pages(w, q) \/ q = t
    BY <1>22, <2>2
  <2>4. new = Chain[m] \ Pages(w, t)
    BY DEF new, held, Pages
  <2>5. Pages(c, t) \subseteq Pages(w, t) \cup new
    BY <1>16, <1>22, <2>2, <2>4
  <2>6. ASSUME NEW q \in Pod, NEW b1 \in Block
        PROVE  IF b1 \in Pages(w, q) THEN c.replicas[q][b1] = w.replicas[q][b1]
               ELSE IF b1 \in Pages(c, q) THEN c.replicas[q][b1] = 0
               ELSE c.replicas[q][b1] \in {0, w.replicas[q][b1]}
    BY <1>30, <2>2, <2>3, <2>4, <2>5
  <2>7. QED
    BY <2>1, <2>6 DEF Loyal
<1>35. Unmoved(w, v)
  <2>1. Kept(w, v, r)
    BY <1>3, KeptComplete
  <2>2. QED
    BY <1>3, <1>13, <2>1 DEF Unmoved, Kept
<1>36. QED
  <2>1. Tame(c, v)
    BY <1>32, <1>33, TameTwice
  <2>2. QED
    BY <1>33, <1>34, <1>35, <2>1, LoyalTame
=============================================================================
