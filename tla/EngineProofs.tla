---------------------------- MODULE EngineProofs ----------------------------
(***************************************************************************)
(* What the event loop keeps for every trace, every number of pods and     *)
(* every policy, and what the engines that extend it keep: the routes of   *)
(* the capacity study, the indexed engine of Stage 2 and the moves of      *)
(* Stage D2.  CoreInv holds in all of them.  Each variant begins with its  *)
(* own configuration, which is part of its invariant.                      *)
(*                                                                         *)
(* The capacity study.  The ledgers of the load window and of the served   *)
(* requests agree although entries are corrected after the fact, and the   *)
(* switch of the route is honoured although requests wait across it.  What *)
(* is shown of handing over in the frozen loop does not hold: a corrected  *)
(* hit may be longer than the one the request was routed for.              *)
(*                                                                         *)
(* The indexed engine implements TaskMainEngine.  The index is exact after *)
(* each hook, not only between handlers: holders are the pods with the     *)
(* page, covered counts the proactive transfers in flight, and a category  *)
(* is what they classify as.  It answers for whole chains because the      *)
(* pages of a cache are closed under prefixes.  That only chains with      *)
(* active demand are listed loses none that could be shortlisted, since a  *)
(* demand within the window is not due yet.                                *)
(*                                                                         *)
(* Moves.  The deque of the online history forgets what is outdated only   *)
(* when a candidate is scored, so its invariant says what it still holds   *)
(* at every LATER time, and the counts are those of the deque.  An arrival *)
(* that scores from these counts is an arrival of the frozen engine; only  *)
(* the delivery, which takes pages from the source, is a step of its own.  *)
(***************************************************************************)
EXTENDS RouteSwitch, Stage2Engine, StageD2Engine, CacheLemmas

-----------------------------------------------------------------------------
(* Choices *)

(* min over a nonempty set of ids.                                         *)
LEMMA MinFacts ==
    ASSUME NEW S \in SUBSET Nat, S # {}
    PROVE  Min(S) \in S /\ \A x \in S : Min(S) <= x
BY LeastNat DEF Min

(* least_other_pod and the other minima over (load, pod id) name a pod of  *)
(* the set they are asked about.                                           *)
LEMMA LeastLoadedFacts ==
    ASSUME NEW S \in SUBSET Pod, S # {}, NEW loads, \A p \in Pod : loads[p] \in Nat
    PROVE  LeastLoaded(S, loads) \in S
<1> DEFINE Leq(p, q) == loads[p] < loads[q] \/ (loads[p] = loads[q] /\ p <= q)
           R == {e \in S \X S : Leq(e[1], e[2])}
<1>1. IsFiniteSet(S) /\ S \subseteq Nat
  BY PodAssumption, FS_Subset
<1>2. \A p, q \in S : Leq(p, q) \/ Leq(q, p)
  BY <1>1
<1>3. \A p, q, r \in S : Leq(p, q) /\ Leq(q, r) => Leq(p, r)
  BY <1>1
<1>4. \A p \in S : Leq(p, p)
  BY <1>1
<1> HIDE DEF Leq
<1>5. \A p, q \in S : <<p, q>> \in R <=> Leq(p, q)
  OBVIOUS
<1> HIDE DEF R
<1>6. PICK m \in S : \A x \in S \ {m} : <<m, x>> \in R
  <2>1. \A x, y \in S : x # y => <<x, y>> \in R \/ <<y, x>> \in R
    BY <1>2, <1>5
  <2>2. \A x, y, z \in S : <<x, y>> \in R /\ <<y, z>> \in R => <<x, z>> \in R
    BY <1>3, <1>5
  <2>3. IsFiniteSet(S)
    BY <1>1
  <2>4. QED
    BY <2>1, <2>2, <2>3, FirstExists
<1>7. \A q \in S : Leq(m, q)
  BY <1>4, <1>5, <1>6
<1>8. QED
  BY <1>7 DEF LeastLoaded, Leq

(* affinity_route: some pod has a longest hit, and the route is one.       *)
LEMMA AffinityFacts ==
    ASSUME NEW pods, \A p \in Pod : Sound(pods[p]), NEW n \in Node,
           NEW loads, \A p \in Pod : loads[p] \in Nat
    PROVE  /\ AffinityPod(pods, loads, n) \in Pod
           /\ \A q \in Pod : HitDepth(pods, q, n) <= HitDepth(pods, AffinityPod(pods, loads, n), n)
<1> DEFINE D(p) == HitDepth(pods, p, n)
           R == {e \in Pod \X Pod : D(e[2]) <= D(e[1])}
           Best == {p \in Pod : \A q \in Pod : HitDepth(pods, q, n) <= HitDepth(pods, p, n)}
<1>1. \A p \in Pod : D(p) \in Nat
  <2>1. TAKE p \in Pod
  <2>2. HitPages(pods[p], n) \subseteq Chain[n]
    BY HitFacts
  <2>3. QED
    BY <2>2, ChainFacts, FS_Subset, FS_CardinalityType DEF HitDepth
<1> HIDE DEF D
<1>2. \A p, q \in Pod : <<p, q>> \in R <=> D(q) <= D(p)
  OBVIOUS
<1> HIDE DEF R
<1>3. PICK m \in Pod : \A x \in Pod \ {m} : <<m, x>> \in R
  <2>1. \A x, y \in Pod : x # y => <<x, y>> \in R \/ <<y, x>> \in R
    BY <1>1, <1>2
  <2>2. \A x, y, z \in Pod : <<x, y>> \in R /\ <<y, z>> \in R => <<x, z>> \in R
    BY <1>1, <1>2
  <2>3. IsFiniteSet(Pod) /\ Pod # {}
    BY PodAssumption
  <2>4. QED
    BY <2>1, <2>2, <2>3, FirstExists
<1>4. m \in Best
  <2>1. \A q \in Pod \ {m} : D(q) <= D(m)
    BY <1>2, <1>3
  <2>2. D(m) <= D(m)
    BY <1>1
  <2>3. \A q \in Pod : D(q) <= D(m)
    BY <2>1, <2>2
  <2>4. QED
    BY <2>3 DEF D
<1>5. LeastLoaded(Best, loads) \in Best
  <2> HIDE DEF Best
  <2>1. Best \subseteq Pod /\ Best # {}
    BY <1>4 DEF Best
  <2>2. QED
    BY <2>1, LeastLoadedFacts
<1>6. QED
  BY <1>5 DEF AffinityPod

(* The shortlist order is total: its first row is a row.                   *)
LEMMA FirstOfFacts ==
    ASSUME NEW rows \in SUBSET Block, rows # {}, NEW counts, \A b \in Block : counts[b] \in Nat
    PROVE  FirstOf(rows, counts) \in rows
<1> DEFINE Before(x, y) == RanksBefore(counts, x, y)
           R == {e \in rows \X rows : Before(e[1], e[2])}
<1>1. \A b \in rows : counts[b] \in Nat /\ Depth(b) \in Nat /\ Rank[b] \in Nat
  BY ChainFacts, RankAssumption DEF Node
<1>2. \A x, y \in rows : x # y => Before(x, y) \/ Before(y, x)
  <2>1. \A x, y \in rows : x # y => Rank[x] # Rank[y]
    BY RankAssumption
  <2>2. QED
    BY <1>1, <2>1 DEF RanksBefore
<1>3. \A x, y, z \in rows : Before(x, y) /\ Before(y, z) => Before(x, z)
  BY <1>1 DEF RanksBefore
<1> HIDE DEF Before
<1>4. \A p, q \in rows : <<p, q>> \in R <=> Before(p, q)
  OBVIOUS
<1> HIDE DEF R
<1>5. PICK m \in rows : \A x \in rows \ {m} : <<m, x>> \in R
  <2>1. IsFiniteSet(rows)
    BY BlockAssumption, FS_Subset
  <2>2. \A x, y \in rows : x # y => <<x, y>> \in R \/ <<y, x>> \in R
    BY <1>2, <1>4
  <2>3. \A x, y, z \in rows : <<x, y>> \in R /\ <<y, z>> \in R => <<x, z>> \in R
    BY <1>3, <1>4
  <2>4. QED
    BY <2>1, <2>2, <2>3, FirstExists
<1>6. \A x \in rows \ {m} : RanksBefore(counts, m, x)
  BY <1>4, <1>5 DEF Before
<1>7. QED
  BY <1>6 DEF FirstOf

-----------------------------------------------------------------------------
(* What a route promises *)

(* The prefix a transfer could carry is published at the source and lacks  *)
(* no full page of the hit there (_reactive_assignment).                   *)
LEMMA TransferableFacts ==
    ASSUME NEW pods, NEW s, Sound(pods[s]), NEW n \in Node
    PROVE  LET hit == Lookup(pods[s], n)
               m   == Transferable(pods, s, n)
           IN  /\ hit \in Node /\ Chain[hit] = HitPages(pods[s], n) /\ Published(pods[s], hit)
               /\ m \in Node /\ Chain[m] \subseteq Chain[hit]
               /\ Published(pods[s], m)
               /\ (Chain[hit] \ Chain[m]) \cap FullPage = {}
<1> DEFINE hit == Lookup(pods[s], n)
           m == Transferable(pods, s, n)
<1>1. hit \in Node /\ Chain[hit] = HitPages(pods[s], n) /\ Published(pods[s], hit)
  BY HitFacts
<1>2. m = LongestWithin(hit, FullPage)
  BY DEF Transferable, FullPagePrefix
<1> HIDE DEF hit
<1>3. m \in Node /\ Chain[m] = PagesWithin(hit, FullPage) /\ Chain[m] \subseteq Chain[hit]
  BY <1>1, <1>2, LongestFacts
<1> HIDE DEF m
<1>4. (Chain[hit] \ Chain[m]) \cap FullPage = {}
  <2>1. SUFFICES ASSUME NEW b \in Chain[hit] \cap FullPage PROVE b \in Chain[m]
    OBVIOUS
  <2>2. b \in Block
    BY <1>1, ChainFacts
  <2>3. Chain[b] \subseteq FullPage
    BY <2>2, ParentFacts, InnerPagesFull
  <2>4. QED
    BY <1>3, <2>3 DEF PagesWithin
<1>5. Published(pods[s], m)
  BY <1>1, <1>3 DEF Published
<1>6. QED
  BY <1>1, <1>3, <1>4, <1>5 DEF hit, m

(* A pod that holds the transferable prefix and no longer hit than the     *)
(* source hits neither more than the source nor fewer full pages.          *)
LEMMA DirectFacts ==
    ASSUME NEW pods, NEW s, NEW t, Sound(pods[s]), Sound(pods[t]), NEW n \in Node,
           HitDepth(pods, t, n) <= HitDepth(pods, s, n),
           Published(pods[t], Transferable(pods, s, n))
    PROVE  LET routed == Lookup(pods[s], n)
               hit    == Lookup(pods[t], n)
           IN  /\ hit \in Node /\ Published(pods[t], hit)
               /\ Chain[hit] \subseteq Chain[routed]
               /\ (Chain[routed] \ Chain[hit]) \cap FullPage = {}
<1> DEFINE routed == Lookup(pods[s], n)
           hit == Lookup(pods[t], n)
           m == Transferable(pods, s, n)
<1>1. /\ routed \in Node /\ Chain[routed] = HitPages(pods[s], n)
      /\ m \in Node /\ Chain[m] \subseteq Chain[routed]
      /\ (Chain[routed] \ Chain[m]) \cap FullPage = {}
  BY TransferableFacts
<1>2. /\ hit \in Node /\ Chain[hit] = HitPages(pods[t], n) /\ Published(pods[t], hit)
      /\ HitPages(pods[t], n) = Chain[n] \cap pods[t].pages
  BY HitFacts
<1>3. HitPages(pods[t], n) \subseteq HitPages(pods[s], n)
  <2>1. Cardinality(PagesWithin(n, pods[t].pages)) <= Cardinality(PagesWithin(n, pods[s].pages))
    BY DEF HitDepth, HitPages
  <2>2. PagesWithin(n, pods[t].pages) \subseteq PagesWithin(n, pods[s].pages)
    BY <2>1, WalksNested
  <2>3. QED
    BY <2>2 DEF HitPages
<1>4. HitPages(pods[s], n) = Chain[n] \cap pods[s].pages
  BY HitFacts
<1>5. Published(pods[t], m)
  OBVIOUS
<1> HIDE DEF hit, routed, m
<1>6. Chain[m] \subseteq Chain[hit]
  BY <1>1, <1>2, <1>4, <1>5 DEF Published
<1>7. Chain[hit] \subseteq Chain[routed] /\ (Chain[routed] \ Chain[hit]) \cap FullPage = {}
  BY <1>1, <1>2, <1>3, <1>6
<1>8. QED
  BY <1>2, <1>7 DEF hit, routed

-----------------------------------------------------------------------------
(* Two handlers on one cache *)

(* _finish leaves the pins as they were, less the one the batch took; what *)
(* is pinned stays and so does every buffer.                               *)
LEMMA FinishFacts ==
    ASSUME NEW c, Sound(c), NEW n \in Node, NEW hit \in Node, NEW protected \in BOOLEAN,
           protected => \A b \in Chain[hit] : c.pins[b] > 0
    PROVE  LET e == FinishOn(c, n, hit, protected)
           IN  /\ Sound(e)
               /\ e.temporary = c.temporary
               /\ \A b \in Block : e.pins[b] =
                     IF protected /\ b \in Chain[hit] THEN c.pins[b] - 1 ELSE c.pins[b]
               /\ KeepsPinned(c, e)
<1> DEFINE pinned == IF protected THEN c ELSE Pin(c, hit)
           reused == RecordReuse(pinned, hit)
           after == IF CanPlanPrompt(reused, n)
                      THEN PublishPrompt(reused, PlanPrompt(reused, n)) ELSE reused
           e == Unpin(after, hit)
<1>1. /\ c.pins \in [Block -> Nat] /\ c.pages \subseteq Block
      /\ Chain[hit] \subseteq Block
  BY ChainFacts DEF Sound, Cache
<1>2. /\ Sound(pinned) /\ pinned.pages = c.pages /\ pinned.temporary = c.temporary
      /\ \A b \in Block : pinned.pins[b] =
            IF ~protected /\ b \in Chain[hit] THEN c.pins[b] + 1 ELSE c.pins[b]
  <2>1. CASE protected
    BY <2>1
  <2>2. CASE ~protected
    BY <2>2, PinFacts
  <2>3. QED
    BY <2>1, <2>2
<1>3. /\ Sound(reused) /\ reused.pages = c.pages /\ reused.temporary = c.temporary
      /\ reused.pins = pinned.pins
  <2> HIDE DEF pinned
  <2>1. QED
    BY <1>2, ReuseFacts
<1>4. /\ Sound(after) /\ after.pins = pinned.pins /\ after.temporary = c.temporary
      /\ KeepsPinned(reused, after)
  <2> HIDE DEF reused
  <2>1. CASE CanPlanPrompt(reused, n)
    BY <1>3, <2>1, PublishFacts
  <2>2. CASE ~CanPlanPrompt(reused, n)
    BY <1>3, <2>2 DEF KeepsPinned
  <2>3. QED
    BY <2>1, <2>2
<1>5. e = FinishOn(c, n, hit, protected)
  BY DEF FinishOn
<1> HIDE DEF pinned, reused, after, e
<1>6. \A b \in Chain[hit] : after.pins[b] > 0
  BY <1>1, <1>2, <1>4
<1>7. /\ Sound(e) /\ e.pages = after.pages /\ e.temporary = after.temporary
      /\ \A b \in Block : e.pins[b] =
            IF b \in Chain[hit] THEN after.pins[b] - 1 ELSE after.pins[b]
  BY <1>4, <1>6, UnpinFacts DEF e
<1>8. \A b \in Block : e.pins[b] =
            IF protected /\ b \in Chain[hit] THEN c.pins[b] - 1 ELSE c.pins[b]
  BY <1>1, <1>2, <1>4, <1>7
<1>9. KeepsPinned(c, e)
  <2>1. SUFFICES ASSUME NEW b \in c.pages, c.pins[b] > 0 PROVE b \in e.pages
    BY DEF KeepsPinned
  <2>2. b \in reused.pages /\ reused.pins[b] > 0
    BY <1>1, <1>2, <1>3, <2>1
  <2>3. QED
    BY <1>4, <1>7, <2>2 DEF KeepsPinned
<1>10. QED
  BY <1>4, <1>5, <1>7, <1>8, <1>9

(* The pin per assignment the batch takes moves no page.                   *)
LEMMA PinEachFacts ==
    ASSUME NEW c, Sound(c), NEW here, IsFiniteSet(here)
    PROVE  /\ Sound(PinEach(c, here))
           /\ PinEach(c, here).pages = c.pages /\ PinEach(c, here).temporary = c.temporary
           /\ \A b \in Block : PinEach(c, here).pins[b] =
                 c.pins[b] + Cardinality({a \in here : b \in Chain[a.hit]})
<1> DEFINE more == [b \in Block |-> c.pins[b] + Cardinality({a \in here : b \in Chain[a.hit]})]
           steps == c.version + Cardinality(here)
           e == PinEach(c, here)
<1>1. c \in Cache /\ c.pins \in [Block -> Nat] /\ c.version \in Nat
  BY DEF Sound, Cache
<1>2. \A b \in Block : Cardinality({a \in here : b \in Chain[a.hit]}) \in Nat
  <2>1. TAKE b \in Block
  <2>2. IsFiniteSet({a \in here : b \in Chain[a.hit]})
    BY FS_Subset
  <2>3. QED
    BY <2>2, FS_CardinalityType
<1>3. more \in [Block -> Nat] /\ steps \in Nat
  BY <1>1, <1>2, FS_CardinalityType
<1>4. e = [c EXCEPT !.pins = more, !.version = steps]
  BY <1>1 DEF PinEach, Cache
<1>5. \A b \in Block : more[b] = c.pins[b] + Cardinality({a \in here : b \in Chain[a.hit]})
  OBVIOUS
<1> HIDE DEF more, steps, e
<1>6. e \in Cache /\ e.pages = c.pages /\ e.temporary = c.temporary /\ e.pins = more
  BY <1>1, <1>3, <1>4 DEF Cache
<1>7. Sound(e)
  BY <1>6 DEF Sound, PrefixClosed, WithinCapacity, MemoryPages, TemporaryPages, BufferSlots
<1>8. QED
  BY <1>5, <1>6, <1>7 DEF e

-----------------------------------------------------------------------------
(* The load window *)

EntryType == [request : Request, pod : Pod, time : Nat, miss : Nat]

LoadType ==
    [entries : SUBSET EntryType, histories : [Pod -> Seq(EntryType)],
     totals : [Pod -> Nat], last : Nat]

(* A queue in time order that holds no entry twice.                        *)
InOrder(h) == \A i, j \in DOMAIN h : i < j => h[i] # h[j] /\ h[i].time <= h[j].time

(* The queue of every pod is its window, and its sum is kept.              *)
WindowInv(ld) ==
    /\ IsFiniteSet(ld.entries)
    /\ \A e \in ld.entries : e.time <= ld.last
    /\ \A p \in Pod :
          /\ Range(ld.histories[p]) =
                {e \in ld.entries : e.pod = p /\ ld.last < e.time + LoadWindow}
          /\ InOrder(ld.histories[p])
          /\ ld.totals[p] = MissTokens(Range(ld.histories[p]))

(* Tokens of disjoint sets of entries add up.                              *)
LEMMA MissFacts ==
    ASSUME NEW A \in SUBSET EntryType, IsFiniteSet(A)
    PROVE  /\ MissTokens(A) \in Nat
           /\ MissTokens({}) = 0
           /\ \A e \in EntryType \ A : MissTokens(A \cup {e}) = MissTokens(A) + e.miss
           /\ \A B \in SUBSET A : MissTokens(A) = MissTokens(B) + MissTokens(A \ B)
<1> DEFINE F(S) == [e \in S |-> e.miss]
<1>1. \A e \in EntryType : e.miss \in Nat
  BY DEF EntryType
<1>2. MissTokens(A) \in Nat
  BY <1>1, SumType DEF MissTokens
<1>3. MissTokens({}) = 0
  BY SumStep, FS_EmptySet DEF MissTokens
<1>4. ASSUME NEW S \in SUBSET EntryType, IsFiniteSet(S), NEW T \in SUBSET S
      PROVE  SumFunctionOnSet(F(S), T) = MissTokens(T)
  <2>1. IsFiniteSet(T)
    BY <1>4, FS_Subset
  <2>2. \A e \in T : F(S)[e] = F(T)[e]
    OBVIOUS
  <2> DEFINE f == F(S)
             g == F(T)
  <2> HIDE DEF f, g
  <2>3. SumFunctionOnSet(f, T) = SumFunctionOnSet(g, T)
    BY <2>1, <2>2, SumSame DEF f, g
  <2>4. QED
    BY <2>3 DEF f, g, MissTokens
<1>5. ASSUME NEW e \in EntryType \ A PROVE MissTokens(A \cup {e}) = MissTokens(A) + e.miss
  <2> DEFINE S == A \cup {e}
             f == F(S)
  <2>1. IsFiniteSet(S) /\ S \in SUBSET EntryType
    BY FS_AddElement
  <2>2. f[e] = e.miss /\ \A x \in A : f[x] \in Nat
    BY <1>1
  <2>3. e.miss \in Nat
    BY <1>1
  <2>4. SumFunctionOnSet(f, S) = MissTokens(S) /\ SumFunctionOnSet(f, A) = MissTokens(A)
    BY <1>4, <2>1
  <2> HIDE DEF f
  <2>5. SumFunctionOnSet(f, A \cup {e}) = SumFunctionOnSet(f, A) + f[e]
    BY <2>2, <2>3, SumAdd
  <2>6. QED
    BY <2>2, <2>4, <2>5
<1>6. ASSUME NEW B \in SUBSET A PROVE MissTokens(A) = MissTokens(B) + MissTokens(A \ B)
  <2> DEFINE C == A \ B
             f == F(A)
  <2>1. IsFiniteSet(B) /\ IsFiniteSet(C) /\ B \cap C = {} /\ B \cup C = A
    BY FS_Subset
  <2>2. \A x \in A : f[x] \in Nat
    BY <1>1
  <2>3. /\ SumFunctionOnSet(f, A) = MissTokens(A) /\ SumFunctionOnSet(f, B) = MissTokens(B)
        /\ SumFunctionOnSet(f, C) = MissTokens(C)
    BY <1>4
  <2> HIDE DEF f, C
  <2>4. SumFunctionOnSet(f, B \cup C) = SumFunctionOnSet(f, B) + SumFunctionOnSet(f, C)
    BY <2>1, <2>2, SumUnion
  <2>5. QED
    BY <2>1, <2>3, <2>4 DEF C
<1>7. QED
  BY <1>2, <1>3, <1>5, <1>6

(* The head a query drops from a queue in time order is what has left the  *)
(* window, and nothing else (the loop of vector, load.py).                 *)
LEMMA ExpiredFacts ==
    ASSUME NEW h \in Seq(EntryType), InOrder(h), NEW t \in Nat
    PROVE  /\ Expired(h, t) \in 0 .. Len(h)
           /\ \A i \in 1 .. Expired(h, t) : h[i].time + LoadWindow <= t
           /\ \A i \in (Expired(h, t) + 1) .. Len(h) : t < h[i].time + LoadWindow
<1> DEFINE S == {k \in 0 .. Len(h) : \A i \in 1 .. k : h[i].time + LoadWindow <= t}
           T == {Len(h) - k : k \in S}
<1>1. Len(h) \in Nat /\ DOMAIN h = 1 .. Len(h) /\ \A i \in 1 .. Len(h) : h[i].time \in Nat
  <2>1. Len(h) \in Nat /\ DOMAIN h = 1 .. Len(h) /\ \A i \in 1 .. Len(h) : h[i] \in EntryType
    OBVIOUS
  <2>2. \A e \in EntryType : e.time \in Nat
    BY DEF EntryType
  <2>3. QED
    BY <2>1, <2>2
<1>2. 0 \in S
  BY <1>1
<1>3. T \in SUBSET Nat /\ Len(h) \in T
  BY <1>1, <1>2
<1>4. PICK l \in T : \A j \in T : l <= j
  <2> HIDE DEF T
  <2>1. QED
    BY <1>3, LeastNat
<1>5. PICK k \in S : l = Len(h) - k
  OBVIOUS
<1>6. \A y \in S : k >= y
  <2>1. TAKE y \in S
  <2>2. Len(h) - y \in T /\ y \in Nat /\ k \in Nat
    OBVIOUS
  <2>3. Len(h) - k <= Len(h) - y
    BY <1>4, <1>5, <2>2
  <2>4. QED
    BY <1>1, <2>2, <2>3
<1>7. Max(S) \in S /\ \A y \in S : Max(S) >= y
  <2> HIDE DEF S
  <2>1. QED
    BY <1>6 DEF Max
<1>8. Max(S) = Expired(h, t)
  BY DEF Expired
<1> DEFINE g == Expired(h, t)
<1>9. g \in 0 .. Len(h) /\ (\A i \in 1 .. g : h[i].time + LoadWindow <= t)
  BY <1>7, <1>8
<1>10. g + 1 \notin S
  <2> HIDE DEF S
  <2>1. \A y \in S : g >= y
    BY <1>7, <1>8
  <2>2. QED
    BY <1>9, <2>1
<1> HIDE DEF g
<1>11. ASSUME NEW i \in (g + 1) .. Len(h) PROVE t < h[i].time + LoadWindow
  <2>1. g \in Nat /\ g + 1 \in 1 .. Len(h)
    BY <1>1, <1>9
  <2>2. PICK j \in 1 .. (g + 1) : ~(h[j].time + LoadWindow <= t)
    BY <1>10, <2>1
  <2>3. j = g + 1
    BY <1>9, <2>1, <2>2
  <2>4. h[g + 1].time <= h[i].time
    BY <1>1, <1>11, <2>1 DEF InOrder
  <2>5. h[i].time \in Nat /\ h[g + 1].time \in Nat /\ LoadWindow \in Nat
    BY <1>1, <1>11, <2>1, LoadWindowAssumption
  <2>6. QED
    BY <2>2, <2>3, <2>4, <2>5
<1>12. QED
  BY <1>9, <1>11 DEF g

(* Pruning a queue keeps its order and takes the dropped tokens off.       *)
LEMMA PrunedFacts ==
    ASSUME NEW h \in Seq(EntryType), InOrder(h), NEW t \in Nat, IsFiniteSet(Range(h))
    PROVE  LET rest == SubSeq(h, Expired(h, t) + 1, Len(h))
               gone == {h[i] : i \in 1 .. Expired(h, t)}
           IN  /\ rest \in Seq(EntryType) /\ InOrder(rest)
               /\ Range(rest) = {e \in Range(h) : t < e.time + LoadWindow}
               /\ MissTokens(Range(h)) - MissTokens(gone) = MissTokens(Range(rest))
               /\ MissTokens(Range(rest)) \in Nat
<1> DEFINE g == Expired(h, t)
           rest == SubSeq(h, g + 1, Len(h))
           gone == {h[i] : i \in 1 .. g}
<1>1. /\ g \in 0 .. Len(h)
      /\ \A i \in 1 .. g : h[i].time + LoadWindow <= t
      /\ \A i \in (g + 1) .. Len(h) : t < h[i].time + LoadWindow
  BY ExpiredFacts
<1> HIDE DEF g
<1>2. Len(h) \in Nat /\ DOMAIN h = 1 .. Len(h) /\ (\A i \in 1 .. Len(h) : h[i] \in EntryType)
  OBVIOUS
<1>3. LoadWindow \in Nat /\ \A e \in EntryType : e.time \in Nat
  BY LoadWindowAssumption DEF EntryType
<1>4. /\ rest \in Seq(EntryType) /\ Len(rest) = Len(h) - g /\ DOMAIN rest = 1 .. (Len(h) - g)
      /\ \A i \in 1 .. (Len(h) - g) : rest[i] = h[g + i]
  <2> DEFINE m == g + 1
             n == Len(h)
  <2>1. m \in 1 .. (Len(h) + 1) /\ n \in (m - 1) .. Len(h) /\ g \in Nat
    BY <1>1, <1>2
  <2> HIDE DEF m, n
  <2>2. /\ SubSeq(h, m, n) \in Seq(EntryType)
        /\ Len(SubSeq(h, m, n)) = (n - m) + 1
        /\ \A i \in 1 .. ((n - m) + 1) : SubSeq(h, m, n)[i] = h[(m + i) - 1]
    BY <2>1
  <2>3. (n - m) + 1 = Len(h) - g /\ \A i \in Int : (m + i) - 1 = g + i
    BY <1>2, <2>1 DEF m, n
  <2>4. rest = SubSeq(h, m, n)
    BY DEF m, n
  <2> HIDE DEF rest
  <2>5. Len(rest) \in Nat /\ DOMAIN rest = 1 .. Len(rest)
    BY <2>2, <2>4
  <2>6. Len(rest) = Len(h) - g /\ rest \in Seq(EntryType)
    BY <2>2, <2>3, <2>4
  <2>7. ASSUME NEW i \in 1 .. (Len(h) - g) PROVE rest[i] = h[g + i]
    <3>1. rest[i] = h[(m + i) - 1] /\ i \in Int
      BY <2>2, <2>3, <2>4
    <3>2. QED
      BY <2>3, <3>1
  <2>8. QED
    BY <2>5, <2>6, <2>7
<1> HIDE DEF rest
<1>5. InOrder(rest)
  <2>1. SUFFICES ASSUME NEW i \in DOMAIN rest, NEW j \in DOMAIN rest, i < j
                 PROVE  rest[i] # rest[j] /\ rest[i].time <= rest[j].time
    BY DEF InOrder
  <2>2. g + i \in DOMAIN h /\ g + j \in DOMAIN h /\ g + i < g + j
    BY <1>1, <1>2, <1>4, <2>1
  <2>3. h[g + i] # h[g + j] /\ h[g + i].time <= h[g + j].time
    BY <2>2 DEF InOrder
  <2>4. QED
    BY <1>4, <2>1, <2>3
<1>6. Range(rest) = {h[i] : i \in (g + 1) .. Len(h)}
  <2>1. \A i \in 1 .. (Len(h) - g) : g + i \in (g + 1) .. Len(h) /\ rest[i] = h[g + i]
    BY <1>1, <1>2, <1>4
  <2>2. \A i \in (g + 1) .. Len(h) : i - g \in 1 .. (Len(h) - g) /\ rest[i - g] = h[i]
    BY <1>1, <1>2, <1>4
  <2>3. Range(rest) = {rest[i] : i \in 1 .. (Len(h) - g)}
    BY <1>4 DEF Range
  <2>4. ASSUME NEW e \in Range(rest) PROVE \E i \in (g + 1) .. Len(h) : e = h[i]
    BY <2>1, <2>3
  <2>5. ASSUME NEW i \in (g + 1) .. Len(h) PROVE h[i] \in Range(rest)
    BY <2>2, <2>3
  <2>6. QED
    BY <2>4, <2>5
<1>7. Range(rest) = {e \in Range(h) : t < e.time + LoadWindow}
  <2>1. ASSUME NEW i \in (g + 1) .. Len(h)
        PROVE  h[i] \in Range(h) /\ t < h[i].time + LoadWindow
    BY <1>1, <1>2, <2>1 DEF Range
  <2>2. ASSUME NEW i \in 1 .. Len(h), t < h[i].time + LoadWindow
        PROVE  i \in (g + 1) .. Len(h)
    <3>1. h[i].time \in Nat
      BY <1>2, <1>3
    <3>2. ~(i \in 1 .. g)
      BY <1>1, <1>3, <2>2, <3>1
    <3>3. QED
      BY <1>1, <1>2, <3>2
  <2>3. QED
    BY <1>2, <1>6, <2>1, <2>2 DEF Range
<1>8. gone = Range(h) \ Range(rest)
  <2>1. ASSUME NEW i \in 1 .. g PROVE h[i] \in Range(h) /\ h[i] \notin Range(rest)
    <3>1. i \in DOMAIN h /\ h[i].time \in Nat /\ h[i].time + LoadWindow <= t
      BY <1>1, <1>2, <1>3, <2>1
    <3>2. QED
      BY <1>3, <1>7, <3>1 DEF Range
  <2>2. ASSUME NEW i \in 1 .. Len(h), h[i] \notin Range(rest) PROVE i \in 1 .. g
    BY <1>1, <1>2, <1>6, <2>2
  <2>3. QED
    BY <1>2, <2>1, <2>2 DEF Range
<1> DEFINE all == Range(h)
           left == Range(rest)
<1>9. all \in SUBSET EntryType /\ left \subseteq all
  BY <1>2, <1>7 DEF Range
<1> HIDE DEF all, left
<1>10. IsFiniteSet(all) /\ IsFiniteSet(left) /\ left \in SUBSET EntryType
  BY <1>9, FS_Subset DEF all
<1>11. MissTokens(all) = MissTokens(left) + MissTokens(all \ left)
  BY <1>9, <1>10, MissFacts
<1>12. MissTokens(left) \in Nat
  BY <1>10, MissFacts
<1>13. MissTokens(all \ left) \in Nat
  <2>1. IsFiniteSet(all \ left) /\ all \ left \in SUBSET EntryType
    BY <1>9, <1>10, FS_Subset
  <2>2. QED
    BY <2>1, MissFacts
<1>14. MissTokens(all) - MissTokens(gone) = MissTokens(left)
  <2>1. gone = all \ left
    BY <1>8 DEF all, left
  <2> HIDE DEF gone
  <2>2. QED
    BY <1>11, <1>12, <1>13, <2>1
<1>15. /\ rest \in Seq(EntryType) /\ InOrder(rest)
       /\ Range(rest) = {e \in Range(h) : t < e.time + LoadWindow}
       /\ MissTokens(Range(h)) - MissTokens(gone) = MissTokens(Range(rest))
       /\ MissTokens(Range(rest)) \in Nat
  <2> HIDE DEF gone
  <2>1. QED
    BY <1>4, <1>5, <1>7, <1>12, <1>14 DEF all, left
<1>16. QED
  BY <1>15 DEF rest, g

(* vector: every queue becomes the window that ends now.                   *)
LEMMA VectorFacts ==
    ASSUME NEW ld \in LoadType, WindowInv(ld), NEW t \in Nat, ld.last <= t
    PROVE  LET v == Vector(ld, t)
           IN  /\ v \in LoadType /\ WindowInv(v)
               /\ v.entries = ld.entries /\ v.last = t
               /\ v.histories \in [Pod -> Seq(EntryType)] /\ v.totals \in [Pod -> Nat]
<1> DEFINE rest(p) == SubSeq(ld.histories[p], Expired(ld.histories[p], t) + 1, Len(ld.histories[p]))
           gone(p) == {ld.histories[p][i] : i \in 1 .. Expired(ld.histories[p], t)}
           H == [p \in Pod |-> rest(p)]
           N == [p \in Pod |-> ld.totals[p] - MissTokens(gone(p))]
           v == Vector(ld, t)
<1>1. /\ ld.entries \in SUBSET EntryType /\ ld.last \in Nat
      /\ ld.histories \in [Pod -> Seq(EntryType)] /\ ld.totals \in [Pod -> Nat]
  BY DEF LoadType
<1>2. v = [ld EXCEPT !.last = t, !.histories = H, !.totals = N]
  BY <1>1 DEF Vector, LoadType
<1>3. ASSUME NEW p \in Pod
      PROVE  /\ rest(p) \in Seq(EntryType) /\ InOrder(rest(p))
             /\ Range(rest(p)) = {e \in ld.entries : e.pod = p /\ t < e.time + LoadWindow}
             /\ N[p] = MissTokens(Range(rest(p)))
             /\ N[p] \in Nat
  <2> DEFINE h == ld.histories[p]
  <2>1. h \in Seq(EntryType)
    BY <1>1
  <2>2. /\ Range(h) = {e \in ld.entries : e.pod = p /\ ld.last < e.time + LoadWindow}
        /\ InOrder(h) /\ ld.totals[p] = MissTokens(Range(h)) /\ IsFiniteSet(ld.entries)
    BY DEF WindowInv
  <2>3. N[p] = MissTokens(Range(h)) - MissTokens(gone(p))
    BY <2>2
  <2>4. rest(p) = SubSeq(h, Expired(h, t) + 1, Len(h)) /\ gone(p) = {h[i] : i \in 1 .. Expired(h, t)}
    OBVIOUS
  <2> HIDE DEF h, rest, gone, N
  <2>5. IsFiniteSet(Range(h))
    BY <2>2, FS_Subset
  <2>6. /\ rest(p) \in Seq(EntryType) /\ InOrder(rest(p))
        /\ Range(rest(p)) = {e \in Range(h) : t < e.time + LoadWindow}
        /\ MissTokens(Range(h)) - MissTokens(gone(p)) = MissTokens(Range(rest(p)))
        /\ MissTokens(Range(rest(p))) \in Nat
    BY <2>1, <2>2, <2>4, <2>5, PrunedFacts
  <2>7. Range(rest(p)) = {e \in ld.entries : e.pod = p /\ t < e.time + LoadWindow}
    <3>1. \A e \in ld.entries : t < e.time + LoadWindow => ld.last < e.time + LoadWindow
      <4>1. TAKE e \in ld.entries
      <4>2. e.time \in Nat /\ LoadWindow \in Nat
        BY <1>1, LoadWindowAssumption DEF EntryType
      <4>3. QED
        BY <1>1, <4>2
    <3>2. QED
      BY <2>2, <2>6, <3>1
  <2>8. QED
    BY <2>3, <2>6, <2>7
<1>4. H \in [Pod -> Seq(EntryType)] /\ N \in [Pod -> Nat] /\ \A p \in Pod : H[p] = rest(p)
  <2> HIDE DEF rest
  <2>1. N = [p \in Pod |-> N[p]]
    OBVIOUS
  <2> HIDE DEF N
  <2>2. QED
    BY <1>3, <2>1
<1> HIDE DEF H, N, v, rest
<1>5. /\ v.entries = ld.entries /\ v.last = t /\ v.histories = H /\ v.totals = N
      /\ v \in LoadType
  BY <1>1, <1>2, <1>4 DEF LoadType
<1>6. WindowInv(v)
  <2>1. \A e \in ld.entries : e.time <= t
    <3>1. TAKE e \in ld.entries
    <3>2. e.time \in Nat /\ e.time <= ld.last
      BY <1>1 DEF EntryType, WindowInv
    <3>3. QED
      BY <1>1, <3>2
  <2>2. IsFiniteSet(ld.entries)
    BY DEF WindowInv
  <2>3. QED
    BY <1>3, <1>4, <1>5, <2>1, <2>2 DEF WindowInv
<1>7. QED
  BY <1>4, <1>5, <1>6 DEF v

(* What routing reads is a number of tokens for each pod, and reading it   *)
(* keeps the queues.                                                       *)
LEMMA QueryFacts ==
    ASSUME NEW ld \in LoadType, WindowInv(ld), NEW t \in Nat, ld.last <= t
    PROVE  /\ \A p \in Pod : LoadVector(ld, t)[p] \in Nat
           /\ Query(ld, t) \in LoadType /\ WindowInv(Query(ld, t))
           /\ Query(ld, t).entries = ld.entries
           /\ Query(ld, t).last <= t
<1>1. CASE PureQueries
  <2>1. ASSUME NEW p \in Pod PROVE LoadVector(ld, t)[p] \in Nat
    <3> DEFINE E == {e \in Range(ld.histories[p]) : t < e.time + LoadWindow /\ e.time <= t}
    <3>1. E \subseteq ld.entries /\ ld.entries \subseteq EntryType /\ IsFiniteSet(ld.entries)
      BY DEF WindowInv, LoadType
    <3>2. LoadVector(ld, t)[p] = MissTokens(E)
      BY <1>1 DEF LoadVector, ObservedVector
    <3> HIDE DEF E
    <3>3. IsFiniteSet(E) /\ E \subseteq EntryType
      BY <3>1, FS_Subset
    <3>4. QED
      BY <3>2, <3>3, MissFacts
  <2>2. QED
    BY <1>1, <2>1 DEF Query
<1>2. CASE ~PureQueries
  <2>1. t <= t
    OBVIOUS
  <2>2. QED
    BY <1>2, <2>1, VectorFacts DEF Query, LoadVector
<1>3. QED
  BY <1>1, <1>2

(* commit: the new entry is the last of its queue and is counted.          *)
LEMMA CommitFacts ==
    ASSUME NEW ld \in LoadType, WindowInv(ld), NEW t \in Nat, ld.last <= t,
           NEW r \in Request, r \notin Committed(ld), NEW p \in Pod, NEW miss \in Nat
    PROVE  LET c == CommitLoad(ld, r, p, miss, t)
           IN  /\ c \in LoadType /\ WindowInv(c) /\ c.last = t
               /\ Committed(c) = Committed(ld) \cup {r}
<1> DEFINE v == Vector(ld, t)
           entry == [request |-> r, pod |-> p, time |-> t, miss |-> miss]
           c == CommitLoad(ld, r, p, miss, t)
           h == v.histories[p]
           E == v.entries \cup {entry}
           H == [v.histories EXCEPT ![p] = Append(h, entry)]
           N == [v.totals EXCEPT ![p] = v.totals[p] + miss]
<1>1. /\ v \in LoadType /\ WindowInv(v)
      /\ v.entries = ld.entries /\ v.last = t
      /\ v.histories \in [Pod -> Seq(EntryType)] /\ v.totals \in [Pod -> Nat]
  BY VectorFacts
<1>2. entry \in EntryType /\ entry.time = t /\ entry.pod = p /\ entry.request = r /\ entry.miss = miss
  BY DEF EntryType
<1>3. c = [v EXCEPT !.entries = E, !.histories = H, !.totals = N]
  BY <1>1 DEF CommitLoad, LoadType
<1> HIDE DEF v, entry, c
<1>4. v.entries \subseteq EntryType /\ entry \notin v.entries /\ E \subseteq EntryType
  BY <1>1, <1>2 DEF LoadType, Committed
<1>5. /\ h \in Seq(EntryType) /\ InOrder(h) /\ v.totals[p] = MissTokens(Range(h))
      /\ Range(h) = {e \in v.entries : e.pod = p /\ t < e.time + LoadWindow}
      /\ IsFiniteSet(v.entries) /\ (\A e \in v.entries : e.time <= t)
  BY <1>1 DEF WindowInv
<1>6. t < t + LoadWindow /\ t <= t
  BY LoadWindowAssumption
<1> HIDE DEF h
<1> DEFINE g == Append(h, entry)
<1>7. /\ g \in Seq(EntryType) /\ Len(g) = Len(h) + 1 /\ g[Len(h) + 1] = entry
      /\ \A i \in 1 .. Len(h) : g[i] = h[i]
      /\ DOMAIN h = 1 .. Len(h) /\ DOMAIN g = 1 .. (Len(h) + 1) /\ Len(h) \in Nat
  BY <1>2, <1>5
<1> HIDE DEF g
<1>8. Range(g) = Range(h) \cup {entry}
  <2>1. \A i \in 1 .. (Len(h) + 1) : i \in 1 .. Len(h) \/ i = Len(h) + 1
    BY <1>7
  <2>2. \A i \in 1 .. Len(h) : i \in 1 .. (Len(h) + 1)
    BY <1>7
  <2>3. Len(h) + 1 \in 1 .. (Len(h) + 1)
    BY <1>7
  <2>4. Range(g) \subseteq Range(h) \cup {entry}
    BY <1>7, <2>1 DEF Range
  <2>5. Range(h) \cup {entry} \subseteq Range(g)
    BY <1>7, <2>2, <2>3 DEF Range
  <2>6. QED
    BY <2>4, <2>5
<1>9. Range(g) = {e \in E : e.pod = p /\ t < e.time + LoadWindow}
  BY <1>2, <1>5, <1>6, <1>8
<1>10. InOrder(g)
  <2>1. SUFFICES ASSUME NEW i \in DOMAIN g, NEW j \in DOMAIN g, i < j
                 PROVE  g[i] # g[j] /\ g[i].time <= g[j].time
    BY DEF InOrder
  <2>2. i \in 1 .. Len(h) /\ g[i] = h[i] /\ h[i] \in Range(h)
    BY <1>7, <2>1 DEF Range
  <2>3. CASE j \in 1 .. Len(h)
    <3>1. h[i] # h[j] /\ h[i].time <= h[j].time
      BY <1>5, <1>7, <2>1, <2>2, <2>3 DEF InOrder
    <3>2. QED
      BY <1>7, <2>2, <2>3, <3>1
  <2>4. CASE j = Len(h) + 1
    <3>1. g[j] = entry /\ h[i] \in v.entries
      BY <1>5, <1>7, <2>2, <2>4
    <3>2. h[i] # entry /\ h[i].time <= t
      BY <1>4, <1>5, <3>1
    <3>3. QED
      BY <1>2, <2>2, <3>1, <3>2
  <2>5. QED
    BY <1>7, <2>3, <2>4
<1>11. MissTokens(Range(g)) = v.totals[p] + miss /\ v.totals[p] + miss \in Nat
  <2>1. Range(h) \in SUBSET EntryType /\ IsFiniteSet(Range(h)) /\ entry \in EntryType \ Range(h)
    BY <1>2, <1>4, <1>5, FS_Subset
  <2> DEFINE A == Range(h)
  <2> HIDE DEF A
  <2>2. MissTokens(A \cup {entry}) = MissTokens(A) + entry.miss /\ MissTokens(A) \in Nat
    BY <2>1, MissFacts DEF A
  <2>3. QED
    BY <1>2, <1>5, <1>8, <2>2 DEF A
<1>12. /\ H \in [Pod -> Seq(EntryType)] /\ H[p] = g
       /\ \A q \in Pod \ {p} : H[q] = v.histories[q]
  BY <1>1, <1>7 DEF g
<1>13. /\ N \in [Pod -> Nat] /\ N[p] = v.totals[p] + miss
       /\ \A q \in Pod \ {p} : N[q] = v.totals[q]
  BY <1>1, <1>11
<1>14. IsFiniteSet(E) /\ \A e \in E : e.time <= t
  BY <1>2, <1>5, <1>6, FS_AddElement
<1>15. \A q \in Pod \ {p} : \A e \in E : e.pod = q => e \in v.entries
  BY <1>2
<1>16. E = ld.entries \cup {entry}
  BY <1>1
<1>17. v.entries \subseteq E
  OBVIOUS
<1> HIDE DEF H, N, E
<1>18. /\ c.entries = E /\ c.histories = H /\ c.totals = N /\ c.last = t /\ c \in LoadType
  BY <1>1, <1>3, <1>4, <1>12, <1>13 DEF LoadType
<1>19. ASSUME NEW q \in Pod
       PROVE  /\ Range(H[q]) = {e \in E : e.pod = q /\ t < e.time + LoadWindow}
              /\ InOrder(H[q]) /\ N[q] = MissTokens(Range(H[q]))
  <2>1. CASE q = p
    BY <1>9, <1>10, <1>11, <1>12, <1>13, <2>1
  <2>2. CASE q # p
    <3>1. /\ Range(v.histories[q]) = {e \in v.entries : e.pod = q /\ t < e.time + LoadWindow}
          /\ InOrder(v.histories[q]) /\ v.totals[q] = MissTokens(Range(v.histories[q]))
      BY <1>1 DEF WindowInv
    <3>2. {e \in v.entries : e.pod = q /\ t < e.time + LoadWindow}
            = {e \in E : e.pod = q /\ t < e.time + LoadWindow}
      BY <1>15, <1>17, <2>2
    <3>3. QED
      BY <1>12, <1>13, <2>2, <3>1, <3>2
  <2>3. QED
    BY <2>1, <2>2
<1>20. WindowInv(c)
  BY <1>14, <1>18, <1>19 DEF WindowInv
<1>21. Committed(c) = Committed(ld) \cup {r}
  BY <1>2, <1>16, <1>18 DEF Committed
<1>22. QED
  BY <1>18, <1>20, <1>21 DEF c

(* The miss of a request is a number of tokens.                            *)
LEMMA MissOfType ==
    ASSUME NEW n \in Node, NEW hit
    PROVE  MissOf(n, hit) \in Nat
<1>1. IsFiniteSet(Chain[n] \ Chain[hit]) /\ Chain[n] \ Chain[hit] \subseteq Block
  BY ChainFacts, FS_Subset
<1>2. \A b \in Chain[n] \ Chain[hit] : Tokens[b] \in Nat
  BY <1>1, TimingAssumption
<1>3. QED
  BY <1>1, <1>2, SumType DEF MissOf

-----------------------------------------------------------------------------
(* The pods between handlers *)

TransferType ==
    [request : Request, type : {"REACTIVE", "PROACTIVE"}, chain : Block,
     source : Pod, target : Pod, start : Nat, ready : Nat, status : {"IN_FLIGHT", "COMPLETED"}]

Flying(trs) == {i \in DOMAIN trs : trs[i].status = "IN_FLIGHT"}

(* The transfers that read page b of pod p, and the assignments in held    *)
(* that were promised it.                                                  *)
Readers(trs, p, b) == {i \in Flying(trs) : trs[i].source = p /\ b \in Chain[trs[i].chain]}

Waiters(held, p, b) == {a \in held : a.pod = p /\ b \in Chain[a.hit]}

PinsOwned(pods, trs, held) ==
    \A p \in Pod, b \in Block :
        pods[p].pins[b] = Cardinality(Readers(trs, p, b)) + Cardinality(Waiters(held, p, b))

BuffersOwned(pods, trs) ==
    \A p \in Pod, i \in Transfer :
        pods[p].temporary[i] =
            IF i \in Flying(trs) /\ trs[i].target = p THEN Depth(trs[i].chain) ELSE 0

(* Every pin and every buffer has an owner, and what is pinned is there.   *)
(* held are the resumed requests whose hits the batch has pinned.          *)
PodsInv(pods, trs, held) ==
    /\ pods \in [Pod -> Cache]
    /\ \A p \in Pod : Sound(pods[p])
    /\ PinsOwned(pods, trs, held)
    /\ BuffersOwned(pods, trs)
    /\ \A i \in Flying(trs) : /\ trs[i].source # trs[i].target
                              /\ Published(pods[trs[i].source], trs[i].chain)
    /\ \A a \in held : Published(pods[a.pod], a.hit)

(* The owners of a page are finitely many.                                 *)
LEMMA OwnersFinite ==
    ASSUME NEW trs \in Seq(TransferType), NEW held, IsFiniteSet(held), NEW p, NEW b
    PROVE  /\ IsFiniteSet(Flying(trs))
           /\ IsFiniteSet(Readers(trs, p, b)) /\ Cardinality(Readers(trs, p, b)) \in Nat
           /\ IsFiniteSet(Waiters(held, p, b)) /\ Cardinality(Waiters(held, p, b)) \in Nat
<1>1. DOMAIN trs = 1 .. Len(trs) /\ Len(trs) \in Nat
  OBVIOUS
<1>2. IsFiniteSet(DOMAIN trs)
  BY <1>1, FS_Interval
<1>3. IsFiniteSet(Flying(trs))
  BY <1>2, FS_Subset DEF Flying
<1>4. Readers(trs, p, b) \subseteq Flying(trs) /\ Waiters(held, p, b) \subseteq held
  BY DEF Readers, Waiters
<1>5. QED
  BY <1>3, <1>4, FS_Subset, FS_CardinalityType

(* A transfer in flight goes from pod to pod with a nonempty path.         *)
LEMMA FlyingType ==
    ASSUME NEW trs \in Seq(TransferType), NEW i \in Flying(trs)
    PROVE  /\ i \in DOMAIN trs /\ trs[i] \in TransferType
           /\ trs[i].source \in Pod /\ trs[i].target \in Pod
           /\ trs[i].chain \in Block /\ trs[i].chain \in Node
           /\ trs[i].status = "IN_FLIGHT"
<1>1. i \in DOMAIN trs /\ trs[i] \in TransferType /\ trs[i].status = "IN_FLIGHT"
  BY DEF Flying
<1>2. QED
  BY <1>1 DEF TransferType, Node

(* A page that is being read or was promised is pinned.                    *)
LEMMA PinnedFacts ==
    ASSUME NEW pods, NEW trs \in Seq(TransferType),
           NEW held \in SUBSET AssignmentRecord, IsFiniteSet(held), PodsInv(pods, trs, held)
    PROVE  /\ \A i \in Flying(trs) : \A b \in Chain[trs[i].chain] :
                 pods[trs[i].source].pins[b] > 0
           /\ \A a \in held : \A b \in Chain[a.hit] : pods[a.pod].pins[b] > 0
<1>1. ASSUME NEW i \in Flying(trs), NEW b \in Chain[trs[i].chain]
      PROVE  pods[trs[i].source].pins[b] > 0
  <2> DEFINE p == trs[i].source
  <2>1. trs[i] \in TransferType
    BY DEF Flying
  <2>2. p \in Pod /\ trs[i].chain \in Block
    BY <2>1 DEF TransferType
  <2>3. b \in Block
    BY <2>2, ChainFacts DEF Node
  <2>4. i \in Readers(trs, p, b)
    BY DEF Readers
  <2> HIDE DEF p
  <2>5. Cardinality(Readers(trs, p, b)) # 0
    BY <2>4, OwnersFinite, FS_EmptySet
  <2>6. pods[p].pins[b] = Cardinality(Readers(trs, p, b)) + Cardinality(Waiters(held, p, b))
    BY <2>2, <2>3 DEF PodsInv, PinsOwned
  <2>7. Cardinality(Readers(trs, p, b)) \in Nat /\ Cardinality(Waiters(held, p, b)) \in Nat
    BY OwnersFinite
  <2>8. pods[p].pins[b] > 0
    BY <2>5, <2>6, <2>7
  <2>9. QED
    BY <2>8 DEF p
<1>2. ASSUME NEW a \in held, NEW b \in Chain[a.hit]
      PROVE  pods[a.pod].pins[b] > 0
  <2> DEFINE p == a.pod
  <2>1. a \in AssignmentRecord
    OBVIOUS
  <2>2. p \in Pod /\ a.hit \in Node
    BY <2>1 DEF AssignmentRecord
  <2>3. b \in Block
    BY <2>2, ChainFacts
  <2>4. a \in Waiters(held, p, b)
    BY DEF Waiters
  <2> HIDE DEF p
  <2>5. Cardinality(Waiters(held, p, b)) # 0
    BY <2>4, OwnersFinite, FS_EmptySet
  <2>6. pods[p].pins[b] = Cardinality(Readers(trs, p, b)) + Cardinality(Waiters(held, p, b))
    BY <2>2, <2>3 DEF PodsInv, PinsOwned
  <2>7. Cardinality(Readers(trs, p, b)) \in Nat /\ Cardinality(Waiters(held, p, b)) \in Nat
    BY OwnersFinite
  <2>8. pods[p].pins[b] > 0
    BY <2>5, <2>6, <2>7
  <2>9. QED
    BY <2>8 DEF p
<1>3. QED
  BY <1>1, <1>2

(* A pinned path that is published stays published.                        *)
LEMMA PublishedKept ==
    ASSUME NEW c, NEW e, KeepsPinned(c, e), NEW n, Published(c, n),
           \A b \in Chain[n] : c.pins[b] > 0
    PROVE  Published(e, n)
BY DEF KeepsPinned, Published

(* A request settled on its pod, whose cache becomes e: where the pins its *)
(* batch took are given back and no pinned page goes, the owners remain.   *)
LEMMA SettleKeeps ==
    ASSUME NEW pods, NEW trs \in Seq(TransferType),
           NEW held \in SUBSET AssignmentRecord, IsFiniteSet(held), PodsInv(pods, trs, held),
           NEW a \in AssignmentRecord, NEW protected \in BOOLEAN, protected => a \in held,
           NEW e, Sound(e), e.temporary = pods[a.pod].temporary,
           \A b \in Block : e.pins[b] =
               IF protected /\ b \in Chain[a.hit] THEN pods[a.pod].pins[b] - 1
                                                 ELSE pods[a.pod].pins[b],
           KeepsPinned(pods[a.pod], e)
    PROVE  PodsInv([pods EXCEPT ![a.pod] = e], trs, IF protected THEN held \ {a} ELSE held)
<1> DEFINE c == pods[a.pod]
           q == [pods EXCEPT ![a.pod] = e]
           rest == IF protected THEN held \ {a} ELSE held
<1>1. a.pod \in Pod
  BY DEF AssignmentRecord
<1>2. /\ pods \in [Pod -> Cache] /\ \A p \in Pod : Sound(pods[p])
      /\ PinsOwned(pods, trs, held) /\ BuffersOwned(pods, trs)
      /\ \A i \in Flying(trs) : /\ trs[i].source # trs[i].target
                                /\ Published(pods[trs[i].source], trs[i].chain)
      /\ \A x \in held : Published(pods[x.pod], x.hit)
  BY DEF PodsInv
<1>3. q = [pods EXCEPT ![a.pod] = e] /\ c = pods[a.pod]
  OBVIOUS
<1>4. /\ Sound(e) /\ e.temporary = c.temporary
      /\ \A b \in Block : e.pins[b] =
            IF protected /\ b \in Chain[a.hit] THEN c.pins[b] - 1 ELSE c.pins[b]
      /\ KeepsPinned(c, e)
  OBVIOUS
<1> HIDE DEF c, q
<1>5. /\ q \in [Pod -> Cache] /\ q[a.pod] = e
      /\ \A p \in Pod \ {a.pod} : q[p] = pods[p]
  BY <1>1, <1>2, <1>3, <1>4 DEF Sound
<1>6. \A p \in Pod : Sound(q[p])
  BY <1>2, <1>4, <1>5
<1>7. BuffersOwned(q, trs)
  <2>1. \A p \in Pod : q[p].temporary = pods[p].temporary
    BY <1>4, <1>5
  <2>2. QED
    BY <1>2, <2>1 DEF BuffersOwned
<1>8. \A p \in Pod : KeepsPinned(pods[p], q[p])
  <2>1. \A p \in Pod : KeepsPinned(pods[p], pods[p])
    BY DEF KeepsPinned
  <2>2. QED
    BY <1>4, <1>5, <2>1
<1>9. ASSUME NEW i \in Flying(trs) PROVE Published(q[trs[i].source], trs[i].chain)
  <2>1. trs[i].source \in Pod
    BY FlyingType
  <2>2. QED
    BY <1>2, <1>8, <2>1, PinnedFacts, PublishedKept
<1>10. ASSUME NEW x \in rest PROVE Published(q[x.pod], x.hit)
  <2>1. x \in held /\ x.pod \in Pod
    BY DEF AssignmentRecord
  <2>2. QED
    BY <1>2, <1>8, <2>1, PinnedFacts, PublishedKept
<1>11. ASSUME NEW p \in Pod, NEW b \in Block
       PROVE  q[p].pins[b] = Cardinality(Readers(trs, p, b)) + Cardinality(Waiters(rest, p, b))
  <2>1. pods[p].pins[b] = Cardinality(Readers(trs, p, b)) + Cardinality(Waiters(held, p, b))
    BY <1>2 DEF PinsOwned
  <2>2. CASE protected /\ p = a.pod /\ b \in Chain[a.hit]
    <3>1. a \in Waiters(held, p, b) /\ Waiters(rest, p, b) = Waiters(held, p, b) \ {a}
      BY <2>2 DEF Waiters
    <3>2. Cardinality(Waiters(rest, p, b)) = Cardinality(Waiters(held, p, b)) - 1
      <4> DEFINE W == Waiters(held, p, b)
      <4>1. IsFiniteSet(W) /\ a \in W
        BY <3>1, OwnersFinite
      <4> HIDE DEF rest, W
      <4>2. Cardinality(W \ {a}) = Cardinality(W) - 1
        BY <4>1, FS_RemoveElement
      <4>3. QED
        BY <3>1, <4>2 DEF W
    <3>3. q[p].pins[b] = pods[p].pins[b] - 1
      BY <1>4, <1>5, <2>2
    <3>4. Cardinality(Readers(trs, p, b)) \in Nat /\ Cardinality(Waiters(held, p, b)) \in Nat
      BY OwnersFinite
    <3>5. QED
      BY <2>1, <3>2, <3>3, <3>4
  <2>3. CASE ~(protected /\ p = a.pod /\ b \in Chain[a.hit])
    <3>1. Waiters(rest, p, b) = Waiters(held, p, b)
      BY <2>3 DEF Waiters
    <3>2. q[p].pins[b] = pods[p].pins[b]
      BY <1>4, <1>5, <2>3
    <3>3. QED
      BY <2>1, <3>1, <3>2
  <2>4. QED
    BY <2>2, <2>3
<1>12. PodsInv(q, trs, rest)
  <2> HIDE DEF rest
  <2>1. PinsOwned(q, trs, rest)
    BY <1>11 DEF PinsOwned
  <2>2. QED
    BY <1>2, <1>5, <1>6, <1>7, <1>9, <1>10, <2>1 DEF PodsInv
<1>13. QED
  BY <1>12 DEF q

(* Finishing a request on its pod: the pins its batch took are given back  *)
(* and nobody else's page goes.                                            *)
LEMMA FinishKeeps ==
    ASSUME NEW pods, NEW trs \in Seq(TransferType),
           NEW held \in SUBSET AssignmentRecord, IsFiniteSet(held), PodsInv(pods, trs, held),
           NEW a \in AssignmentRecord, NEW protected \in BOOLEAN, protected => a \in held
    PROVE  PodsInv([pods EXCEPT ![a.pod] = FinishOn(@, a.path, a.hit, protected)], trs,
                   IF protected THEN held \ {a} ELSE held)
<1> DEFINE c == pods[a.pod]
           e == FinishOn(c, a.path, a.hit, protected)
<1>1. a.pod \in Pod /\ a.path \in Node /\ a.hit \in Node
  BY DEF AssignmentRecord, Node
<1>2. Sound(c) /\ pods \in [Pod -> Cache]
  BY <1>1 DEF PodsInv
<1>3. protected => \A b \in Chain[a.hit] : c.pins[b] > 0
  BY PinnedFacts
<1>4. /\ Sound(e) /\ e.temporary = c.temporary
      /\ \A b \in Block : e.pins[b] =
            IF protected /\ b \in Chain[a.hit] THEN c.pins[b] - 1 ELSE c.pins[b]
      /\ KeepsPinned(c, e)
  <2> HIDE DEF c
  <2>1. QED
    BY <1>1, <1>2, <1>3, FinishFacts
<1>5. [pods EXCEPT ![a.pod] = FinishOn(@, a.path, a.hit, protected)] = [pods EXCEPT ![a.pod] = e]
  BY <1>1, <1>2
<1> HIDE DEF e
<1>6. PodsInv([pods EXCEPT ![a.pod] = e], trs, IF protected THEN held \ {a} ELSE held)
  BY <1>4, SettleKeeps
<1>7. QED
  BY <1>5, <1>6

(* Starting a copy: the path is pinned at the source and buffered at the   *)
(* target under an id of its own (IndependentTransfers.start).             *)
LEMMA CopyKeeps ==
    ASSUME NEW pods, NEW trs \in Seq(TransferType),
           NEW held \in SUBSET AssignmentRecord, IsFiniteSet(held), PodsInv(pods, trs, held),
           NEW rec \in TransferType, rec.status = "IN_FLIGHT",
           CanCopy(pods, rec.source, rec.target, rec.chain), Len(trs) + 1 \in Transfer
    PROVE  PodsInv(StartCopy(pods, Len(trs) + 1, rec.chain, rec.source, rec.target),
                   Append(trs, rec), held)
<1> DEFINE id == Len(trs) + 1
           n == rec.chain
           s == rec.source
           t == rec.target
           e == Pin(pods[s], n)
           f == ReserveTemporary(pods[t], id, PlanTemporary(pods[t], Depth(n)))
           q == StartCopy(pods, id, n, s, t)
           more == Append(trs, rec)
<1>1. s \in Pod /\ t \in Pod /\ n \in Block /\ n \in Node
  BY DEF TransferType, Node
<1>2. s # t /\ Published(pods[s], n) /\ CanPlanTemporary(pods[t], Depth(n))
  BY DEF CanCopy
<1>3. /\ pods \in [Pod -> Cache] /\ (\A p \in Pod : Sound(pods[p]))
      /\ PinsOwned(pods, trs, held) /\ BuffersOwned(pods, trs)
      /\ \A i \in Flying(trs) : /\ trs[i].source # trs[i].target
                                /\ Published(pods[trs[i].source], trs[i].chain)
      /\ \A x \in held : Published(pods[x.pod], x.hit)
  BY DEF PodsInv
<1>4. /\ Len(trs) \in Nat /\ DOMAIN trs = 1 .. Len(trs) /\ id \notin DOMAIN trs
      /\ more \in Seq(TransferType) /\ DOMAIN more = 1 .. id
      /\ more[id] = rec /\ \A i \in DOMAIN trs : i \in DOMAIN more /\ more[i] = trs[i]
  OBVIOUS
<1>5. DOMAIN more = DOMAIN trs \cup {id} /\ id \in Transfer
  BY <1>4
<1>6. q = [pods EXCEPT ![s] = e, ![t] = f]
  BY <1>1, <1>2, <1>3 DEF StartCopy
<1> HIDE DEF more, q, id, n, s, t
<1>7. Flying(more) = Flying(trs) \cup {id} /\ id \notin Flying(trs)
      /\ \A i \in Flying(trs) : more[i] = trs[i]
  BY <1>4, <1>5 DEF Flying
<1>8. /\ Sound(e) /\ e.pages = pods[s].pages /\ e.temporary = pods[s].temporary
      /\ \A b \in Block : e.pins[b] =
            IF b \in Chain[n] THEN pods[s].pins[b] + 1 ELSE pods[s].pins[b]
  BY <1>1, <1>3, PinFacts
<1>9. /\ Sound(f) /\ f.pins = pods[t].pins /\ KeepsPinned(pods[t], f)
      /\ f.temporary = [pods[t].temporary EXCEPT ![id] = Depth(n)]
  <2>1. Sound(pods[t]) /\ Depth(n) \in Nat /\ CanPlanTemporary(pods[t], Depth(n))
    BY <1>1, <1>2, <1>3, ChainFacts
  <2>2. pods[t].temporary[id] = 0
    BY <1>1, <1>3, <1>5, <1>7 DEF BuffersOwned
  <2>3. QED
    BY <1>5, <2>1, <2>2, ReserveFacts
<1> HIDE DEF e, f
<1>10. /\ q \in [Pod -> Cache] /\ q[s] = e /\ q[t] = f
       /\ \A p \in Pod \ {s, t} : q[p] = pods[p]
  BY <1>1, <1>2, <1>3, <1>6, <1>8, <1>9 DEF Sound
<1>11. \A p \in Pod : Sound(q[p])
  BY <1>3, <1>8, <1>9, <1>10
<1>12. \A p \in Pod : KeepsPinned(pods[p], q[p])
  <2>1. \A p \in Pod : q[p].pages = pods[p].pages => KeepsPinned(pods[p], q[p])
    BY DEF KeepsPinned
  <2>2. QED
    BY <1>8, <1>9, <1>10, <2>1
<1>13. ASSUME NEW i \in Flying(more)
       PROVE  more[i].source # more[i].target /\ Published(q[more[i].source], more[i].chain)
  <2>1. CASE i \in Flying(trs)
    <3>1. more[i] = trs[i] /\ trs[i].source \in Pod
      BY <1>7, <2>1, FlyingType
    <3>2. QED
      BY <1>3, <1>12, <2>1, <3>1, PinnedFacts, PublishedKept
  <2>2. CASE i = id
    <3>1. more[i].source = s /\ more[i].target = t /\ more[i].chain = n
      BY <1>4, <2>2 DEF s, t, n
    <3>2. QED
      BY <1>2, <1>8, <1>10, <3>1 DEF Published
  <2>3. QED
    BY <1>7, <2>1, <2>2
<1>14. ASSUME NEW x \in held PROVE Published(q[x.pod], x.hit)
  <2>1. x.pod \in Pod
    BY DEF AssignmentRecord
  <2>2. QED
    BY <1>3, <1>12, <2>1, PinnedFacts, PublishedKept
<1>15. ASSUME NEW p \in Pod, NEW b \in Block
       PROVE  q[p].pins[b] = Cardinality(Readers(more, p, b)) + Cardinality(Waiters(held, p, b))
  <2>1. pods[p].pins[b] = Cardinality(Readers(trs, p, b)) + Cardinality(Waiters(held, p, b))
    BY <1>3 DEF PinsOwned
  <2>2. more[id].source = s /\ more[id].chain = n
    BY <1>4 DEF s, n
  <2>3. CASE p = s /\ b \in Chain[n]
    <3>1. Readers(more, p, b) = Readers(trs, p, b) \cup {id} /\ id \notin Readers(trs, p, b)
      BY <1>7, <2>2, <2>3 DEF Readers
    <3>2. Cardinality(Readers(more, p, b)) = Cardinality(Readers(trs, p, b)) + 1
      <4>1. IsFiniteSet(Readers(trs, p, b))
        BY OwnersFinite
      <4>2. QED
        BY <3>1, <4>1, FS_AddElement
    <3>3. q[p].pins[b] = pods[p].pins[b] + 1
      BY <1>8, <1>10, <2>3
    <3>4. Cardinality(Readers(trs, p, b)) \in Nat /\ Cardinality(Waiters(held, p, b)) \in Nat
      BY OwnersFinite
    <3>5. QED
      BY <2>1, <3>2, <3>3, <3>4
  <2>4. CASE ~(p = s /\ b \in Chain[n])
    <3>1. Readers(more, p, b) = Readers(trs, p, b)
      BY <1>7, <2>2, <2>4 DEF Readers
    <3>2. q[p].pins[b] = pods[p].pins[b]
      BY <1>8, <1>9, <1>10, <2>4
    <3>3. QED
      BY <2>1, <3>1, <3>2
  <2>5. QED
    BY <2>3, <2>4
<1>16. ASSUME NEW p \in Pod, NEW i \in Transfer
       PROVE  q[p].temporary[i] =
                 IF i \in Flying(more) /\ more[i].target = p THEN Depth(more[i].chain) ELSE 0
  <2>1. pods[p].temporary[i] =
           IF i \in Flying(trs) /\ trs[i].target = p THEN Depth(trs[i].chain) ELSE 0
    BY <1>3 DEF BuffersOwned
  <2>2. more[id].target = t /\ more[id].chain = n
    BY <1>4 DEF t, n
  <2>3. pods[p].temporary \in [Transfer -> Nat]
    BY <1>3 DEF Cache
  <2>4. CASE i = id
    <3>1. pods[p].temporary[i] = 0
      BY <1>7, <2>1, <2>4
    <3>2. CASE p = t
      BY <1>7, <1>9, <1>10, <2>2, <2>3, <2>4, <3>2
    <3>3. CASE p # t
      <4>1. q[p].temporary = pods[p].temporary
        BY <1>8, <1>10, <3>3
      <4>2. QED
        BY <2>2, <2>4, <3>1, <3>3, <4>1
    <3>4. QED
      BY <3>2, <3>3
  <2>5. CASE i # id
    <3>1. q[p].temporary[i] = pods[p].temporary[i]
      BY <1>8, <1>9, <1>10, <2>3, <2>5
    <3>2. QED
      BY <1>7, <2>1, <2>5, <3>1
  <2>6. QED
    BY <2>4, <2>5
<1>17. PodsInv(q, more, held)
  <2>1. PinsOwned(q, more, held) /\ BuffersOwned(q, more)
    BY <1>15, <1>16 DEF PinsOwned, BuffersOwned
  <2>2. QED
    BY <1>10, <1>11, <1>13, <1>14, <2>1 DEF PodsInv
<1>18. QED
  BY <1>17 DEF q, more, id, n, s, t

(* Completing a transfer and unpinning its source: the target has the path *)
(* now, and no pod lost a page (IndependentTransfers.complete).            *)
LEMMA DeliverKeeps ==
    ASSUME NEW pods, NEW trs \in Seq(TransferType), PodsInv(pods, trs, {}),
           NEW i \in Flying(trs), i \in Transfer
    PROVE  LET t == trs[i]
               q == [pods EXCEPT ![t.target] = CompleteTransfer(@, i, t.chain),
                                 ![t.source] = Unpin(@, t.chain)]
           IN  /\ PodsInv(q, [trs EXCEPT ![i].status = "COMPLETED"], {})
               /\ Published(q[t.target], t.chain)
               /\ \A p \in Pod : pods[p].pages \subseteq q[p].pages
<1> DEFINE s == trs[i].source
           t == trs[i].target
           n == trs[i].chain
           e == CompleteTransfer(pods[t], i, n)
           f == Unpin(pods[s], n)
           q == [pods EXCEPT ![t] = CompleteTransfer(@, i, n), ![s] = Unpin(@, n)]
           less == [trs EXCEPT ![i].status = "COMPLETED"]
<1>1. s \in Pod /\ t \in Pod /\ n \in Block /\ n \in Node
  BY FlyingType
<1>2. /\ pods \in [Pod -> Cache] /\ (\A p \in Pod : Sound(pods[p]))
      /\ PinsOwned(pods, trs, {}) /\ BuffersOwned(pods, trs)
      /\ \A j \in Flying(trs) : /\ trs[j].source # trs[j].target
                                /\ Published(pods[trs[j].source], trs[j].chain)
  BY DEF PodsInv
<1>3. s # t
  BY <1>2
<1>4. /\ less \in Seq(TransferType) /\ DOMAIN less = DOMAIN trs
      /\ Flying(less) = Flying(trs) \ {i}
      /\ \A j \in Flying(less) : less[j] = trs[j]
  <2>1. i \in DOMAIN trs /\ trs[i] \in TransferType /\ "COMPLETED" \in {"IN_FLIGHT", "COMPLETED"}
    BY FlyingType
  <2>2. [trs[i] EXCEPT !.status = "COMPLETED"] \in TransferType
        /\ [trs[i] EXCEPT !.status = "COMPLETED"].status # "IN_FLIGHT"
    BY <2>1 DEF TransferType
  <2> DEFINE r == [trs[i] EXCEPT !.status = "COMPLETED"]
  <2>3. less = [trs EXCEPT ![i] = r]
    OBVIOUS
  <2> HIDE DEF r, less
  <2>4. less \in Seq(TransferType) /\ DOMAIN less = DOMAIN trs
    BY <2>1, <2>2, <2>3 DEF r
  <2>5. less[i] = r /\ \A j \in DOMAIN trs \ {i} : less[j] = trs[j]
    BY <2>1, <2>3
  <2>6. QED
    BY <2>1, <2>2, <2>4, <2>5 DEF Flying, r
<1>5. q = [pods EXCEPT ![t] = e, ![s] = f]
  BY <1>1, <1>2, <1>3
<1>6. /\ Sound(e) /\ e.pages = pods[t].pages \cup Chain[n] /\ e.pins = pods[t].pins
      /\ e.temporary = [pods[t].temporary EXCEPT ![i] = 0]
  <2>1. pods[t].temporary[i] = Depth(n)
    BY <1>1, <1>2 DEF BuffersOwned
  <2>2. Sound(pods[t])
    BY <1>1, <1>2
  <2> HIDE DEF n, t
  <2>3. QED
    BY <1>1, <2>1, <2>2, CompleteFacts
<1>7. /\ Sound(f) /\ f.pages = pods[s].pages /\ f.temporary = pods[s].temporary
      /\ \A b \in Block : f.pins[b] =
            IF b \in Chain[n] THEN pods[s].pins[b] - 1 ELSE pods[s].pins[b]
  <2>1. IsFiniteSet({}) /\ {} \in SUBSET AssignmentRecord
    BY FS_EmptySet
  <2>2. \A b \in Chain[n] : pods[s].pins[b] > 0
    BY <2>1, PinnedFacts
  <2>3. Sound(pods[s])
    BY <1>1, <1>2
  <2> HIDE DEF n, s
  <2>4. QED
    BY <1>1, <2>2, <2>3, UnpinFacts
<1> HIDE DEF q, e, f, less
<1>8. /\ q \in [Pod -> Cache] /\ q[s] = f /\ q[t] = e
      /\ \A p \in Pod \ {s, t} : q[p] = pods[p]
  BY <1>1, <1>2, <1>3, <1>5, <1>6, <1>7 DEF Sound
<1>9. \A p \in Pod : Sound(q[p]) /\ pods[p].pages \subseteq q[p].pages
  BY <1>2, <1>6, <1>7, <1>8
<1>10. Published(q[t], n)
  BY <1>6, <1>8 DEF Published
<1>11. ASSUME NEW j \in Flying(less)
       PROVE  less[j].source # less[j].target /\ Published(q[less[j].source], less[j].chain)
  <2>1. j \in Flying(trs) /\ less[j] = trs[j] /\ trs[j].source \in Pod
    BY <1>4, FlyingType
  <2>2. QED
    BY <1>2, <1>9, <2>1 DEF Published
<1> HIDE DEF s, t, n
<1>12. ASSUME NEW p \in Pod, NEW b \in Block
       PROVE  q[p].pins[b] = Cardinality(Readers(less, p, b)) + Cardinality(Waiters({}, p, b))
  <2>1. pods[p].pins[b] = Cardinality(Readers(trs, p, b)) + Cardinality(Waiters({}, p, b))
    BY <1>2 DEF PinsOwned
  <2>2. IsFiniteSet(Readers(trs, p, b)) /\ Cardinality(Readers(trs, p, b)) \in Nat
        /\ Cardinality(Waiters({}, p, b)) \in Nat
    BY OwnersFinite, FS_EmptySet
  <2>3. CASE p = s /\ b \in Chain[n]
    <3> DEFINE R == Readers(trs, p, b)
    <3>1. Readers(less, p, b) = R \ {i} /\ i \in R
      BY <1>4, <2>3 DEF Readers, s, n
    <3> HIDE DEF R
    <3>2. Cardinality(R \ {i}) = Cardinality(R) - 1
      BY <2>2, <3>1, FS_RemoveElement DEF R
    <3>3. q[p].pins[b] = pods[p].pins[b] - 1
      BY <1>7, <1>8, <2>3
    <3>4. QED
      BY <2>1, <2>2, <3>1, <3>2, <3>3 DEF R
  <2>4. CASE ~(p = s /\ b \in Chain[n])
    <3>1. Readers(less, p, b) = Readers(trs, p, b)
      BY <1>4, <2>4 DEF Readers, s, n
    <3>2. q[p].pins[b] = pods[p].pins[b]
      BY <1>6, <1>7, <1>8, <2>4
    <3>3. QED
      BY <2>1, <3>1, <3>2
  <2>5. QED
    BY <2>3, <2>4
<1>13. ASSUME NEW p \in Pod, NEW j \in Transfer
       PROVE  q[p].temporary[j] =
                 IF j \in Flying(less) /\ less[j].target = p THEN Depth(less[j].chain) ELSE 0
  <2>1. pods[p].temporary[j] =
           IF j \in Flying(trs) /\ trs[j].target = p THEN Depth(trs[j].chain) ELSE 0
    BY <1>2 DEF BuffersOwned
  <2>2. pods[p].temporary \in [Transfer -> Nat]
    BY <1>2 DEF Cache
  <2>3. CASE j = i
    <3>1. j \notin Flying(less)
      BY <1>4, <2>3
    <3>2. q[p].temporary[j] = 0
      BY <1>6, <1>7, <1>8, <2>1, <2>2, <2>3 DEF t
    <3>3. QED
      BY <3>1, <3>2
  <2>4. CASE j # i
    <3>1. q[p].temporary[j] = pods[p].temporary[j]
      BY <1>6, <1>7, <1>8, <2>2, <2>4
    <3>2. QED
      BY <1>4, <2>1, <2>4, <3>1
  <2>5. QED
    BY <2>3, <2>4
<1>14. PodsInv(q, less, {})
  <2>1. PinsOwned(q, less, {}) /\ BuffersOwned(q, less)
    BY <1>12, <1>13 DEF PinsOwned, BuffersOwned
  <2>2. QED
    BY <1>8, <1>9, <1>11, <2>1 DEF PodsInv
<1>15. QED
  BY <1>9, <1>10, <1>14 DEF q, less, s, t, n

(* The batch pins the hits of all its requests before the first of them is *)
(* finished (the protected assignments of run).                            *)
LEMMA ProtectKeeps ==
    ASSUME NEW pods, NEW trs \in Seq(TransferType), PodsInv(pods, trs, {}),
           NEW held \in SUBSET AssignmentRecord, IsFiniteSet(held),
           \A a \in held : Published(pods[a.pod], a.hit)
    PROVE  PodsInv([p \in Pod |-> PinEach(pods[p], {a \in held : a.pod = p})], trs, held)
<1> DEFINE here(p) == {a \in held : a.pod = p}
           q == [p \in Pod |-> PinEach(pods[p], here(p))]
<1>1. /\ \A p \in Pod : Sound(pods[p])
      /\ PinsOwned(pods, trs, {}) /\ BuffersOwned(pods, trs)
      /\ \A j \in Flying(trs) : /\ trs[j].source # trs[j].target
                                /\ Published(pods[trs[j].source], trs[j].chain)
  BY DEF PodsInv
<1>2. ASSUME NEW p \in Pod
      PROVE  /\ Sound(q[p]) /\ q[p].pages = pods[p].pages /\ q[p].temporary = pods[p].temporary
             /\ \A b \in Block : q[p].pins[b] =
                   pods[p].pins[b] + Cardinality({a \in here(p) : b \in Chain[a.hit]})
  <2>1. IsFiniteSet(here(p))
    BY FS_Subset
  <2>2. Sound(pods[p]) /\ q[p] = PinEach(pods[p], here(p))
    BY <1>1
  <2> DEFINE H == here(p)
             c == pods[p]
  <2> HIDE DEF q, here, H, c
  <2>3. IsFiniteSet(H) /\ Sound(c)
    BY <2>1, <2>2 DEF H, c
  <2>4. /\ Sound(PinEach(c, H))
        /\ PinEach(c, H).pages = c.pages /\ PinEach(c, H).temporary = c.temporary
        /\ \A b \in Block : PinEach(c, H).pins[b] =
              c.pins[b] + Cardinality({a \in H : b \in Chain[a.hit]})
    BY <2>3, PinEachFacts
  <2>5. QED
    BY <2>2, <2>4 DEF H, c
<1>3. q \in [Pod -> Cache]
  <2>1. q = [p \in Pod |-> q[p]]
    OBVIOUS
  <2> HIDE DEF q
  <2>2. QED
    BY <1>2, <2>1 DEF Sound
<1> HIDE DEF q
<1>4. ASSUME NEW p \in Pod, NEW b \in Block
      PROVE  q[p].pins[b] = Cardinality(Readers(trs, p, b)) + Cardinality(Waiters(held, p, b))
  <2>1. pods[p].pins[b] = Cardinality(Readers(trs, p, b)) + Cardinality(Waiters({}, p, b))
    BY <1>1 DEF PinsOwned
  <2>2. Cardinality(Waiters({}, p, b)) = 0
    <3>1. Waiters({}, p, b) = {}
      BY DEF Waiters
    <3>2. QED
      BY <3>1, FS_EmptySet
  <2>3. {a \in here(p) : b \in Chain[a.hit]} = Waiters(held, p, b)
    BY DEF Waiters
  <2>4. Cardinality(Readers(trs, p, b)) \in Nat
    BY OwnersFinite
  <2>5. q[p].pins[b] = pods[p].pins[b] + Cardinality(Waiters(held, p, b))
    BY <1>2, <2>3
  <2>6. QED
    BY <2>1, <2>2, <2>4, <2>5
<1>5. BuffersOwned(q, trs)
  BY <1>1, <1>2 DEF BuffersOwned
<1>6. ASSUME NEW j \in Flying(trs) PROVE Published(q[trs[j].source], trs[j].chain)
  BY <1>1, <1>2, FlyingType DEF Published
<1>7. ASSUME NEW a \in held PROVE Published(q[a.pod], a.hit)
  <2>1. a.pod \in Pod
    BY DEF AssignmentRecord
  <2>2. QED
    BY <1>2, <2>1 DEF Published
<1>8. PodsInv(q, trs, held)
  <2>1. PinsOwned(q, trs, held)
    BY <1>4 DEF PinsOwned
  <2>2. QED
    BY <1>1, <1>2, <1>3, <1>5, <1>6, <1>7, <2>1 DEF PodsInv
<1>9. QED
  BY <1>8 DEF q

-----------------------------------------------------------------------------
(* The ledger and the heap *)

EventOf(trs, i) == [time |-> trs[i].ready, request |-> trs[i].request, transfer |-> i]

(* The events still to come of a ledger.                                   *)
Events(trs) == {EventOf(trs, i) : i \in Flying(trs)}

(* NoDoubleCoverage, of any ledger.                                        *)
NoDouble(trs) ==
    \A i, j \in Flying(trs) :
        (/\ i < j
         /\ trs[i].type = "PROACTIVE" /\ trs[j].type = "PROACTIVE"
         /\ trs[i].target = trs[j].target)
            => trs[j].chain \notin Chain[trs[i].chain]

(* A record appended to the ledger is in flight under the next id; the     *)
(* others are as they were.  A proactive one that inflight_cover_index     *)
(* does not cover doubles no other.                                        *)
LEMMA AppendFacts ==
    ASSUME NEW trs \in Seq(TransferType), NEW rec \in TransferType, rec.status = "IN_FLIGHT"
    PROVE  LET more == Append(trs, rec)
               id   == Len(trs) + 1
           IN  /\ more \in Seq(TransferType) /\ Len(more) = id
               /\ Flying(more) = Flying(trs) \cup {id} /\ id \notin Flying(trs)
               /\ more[id] = rec /\ \A i \in Flying(trs) : more[i] = trs[i]
               /\ Events(more) = Events(trs) \cup {[time |-> rec.ready, request |-> rec.request,
                                                    transfer |-> id]}
               /\ NoDouble(trs) /\ (rec.type = "PROACTIVE" => ~Covered(trs, rec.target, rec.chain))
                     => NoDouble(more)
<1> DEFINE more == Append(trs, rec)
           id == Len(trs) + 1
<1>1. /\ Len(trs) \in Nat /\ DOMAIN trs = 1 .. Len(trs) /\ id \notin DOMAIN trs
      /\ more \in Seq(TransferType) /\ DOMAIN more = 1 .. id /\ Len(more) = id
      /\ more[id] = rec /\ \A i \in DOMAIN trs : i \in DOMAIN more /\ more[i] = trs[i]
  OBVIOUS
<1>2. DOMAIN more = DOMAIN trs \cup {id}
  BY <1>1
<1>3. \A i \in DOMAIN trs : i < id /\ i \in Nat
  BY <1>1
<1> HIDE DEF more, id
<1>4. /\ Flying(more) = Flying(trs) \cup {id} /\ id \notin Flying(trs)
      /\ \A i \in Flying(trs) : more[i] = trs[i] /\ i < id /\ i \in Nat /\ i \in DOMAIN trs
  BY <1>1, <1>2, <1>3 DEF Flying
<1>5. Events(more) = Events(trs) \cup {[time |-> rec.ready, request |-> rec.request, transfer |-> id]}
  <2>1. \A i \in Flying(trs) : EventOf(more, i) = EventOf(trs, i)
    BY <1>4 DEF EventOf
  <2>2. EventOf(more, id) = [time |-> rec.ready, request |-> rec.request, transfer |-> id]
    BY <1>1 DEF EventOf
  <2>3. QED
    BY <1>4, <2>1, <2>2 DEF Events
<1>6. ASSUME NoDouble(trs), rec.type = "PROACTIVE" => ~Covered(trs, rec.target, rec.chain)
      PROVE  NoDouble(more)
  <2>1. SUFFICES ASSUME NEW i \in Flying(more), NEW j \in Flying(more), i < j,
                        more[i].type = "PROACTIVE", more[j].type = "PROACTIVE",
                        more[i].target = more[j].target
                 PROVE  more[j].chain \notin Chain[more[i].chain]
    BY DEF NoDouble
  <2>2. CASE i \in Flying(trs) /\ j \in Flying(trs)
    BY <1>4, <1>6, <2>1, <2>2 DEF NoDouble
  <2>3. CASE i \in Flying(trs) /\ j = id
    <3>1. more[j] = rec /\ more[i] = trs[i] /\ trs[i].status = "IN_FLIGHT"
      BY <1>1, <1>4, <2>3 DEF Flying
    <3>2. ~Covered(trs, rec.target, rec.chain)
      BY <1>6, <2>1, <3>1
    <3>3. QED
      BY <1>4, <2>1, <2>3, <3>1, <3>2 DEF Covered
  <2>4. CASE i = id
    <3>1. id \in Nat
      BY <1>1 DEF id
    <3>2. j \in Nat /\ (j < id \/ j = id)
      BY <1>4, <3>1
    <3>3. QED
      BY <2>1, <2>4, <3>1, <3>2
  <2>5. QED
    BY <1>4, <2>2, <2>3, <2>4
<1>7. QED
  BY <1>1, <1>4, <1>5, <1>6 DEF more, id

(* A completed record is no longer in flight and has no event.             *)
LEMMA CompletedFacts ==
    ASSUME NEW trs \in Seq(TransferType), NEW i \in Flying(trs)
    PROVE  LET less == [trs EXCEPT ![i].status = "COMPLETED"]
           IN  /\ less \in Seq(TransferType) /\ Len(less) = Len(trs)
               /\ Flying(less) = Flying(trs) \ {i}
               /\ \A j \in Flying(less) : less[j] = trs[j]
               /\ Events(less) = Events(trs) \ {EventOf(trs, i)}
               /\ NoDouble(trs) => NoDouble(less)
<1> DEFINE r == [trs[i] EXCEPT !.status = "COMPLETED"]
           less == [trs EXCEPT ![i].status = "COMPLETED"]
<1>1. i \in DOMAIN trs /\ trs[i] \in TransferType /\ "COMPLETED" \in {"IN_FLIGHT", "COMPLETED"}
  BY FlyingType
<1>2. r \in TransferType /\ r.status # "IN_FLIGHT"
  BY <1>1 DEF TransferType
<1>3. less = [trs EXCEPT ![i] = r]
  OBVIOUS
<1> HIDE DEF r, less
<1>4. less \in Seq(TransferType) /\ DOMAIN less = DOMAIN trs /\ Len(less) = Len(trs)
  BY <1>1, <1>2, <1>3
<1>5. less[i] = r /\ \A j \in DOMAIN trs \ {i} : less[j] = trs[j]
  BY <1>1, <1>3
<1>6. Flying(less) = Flying(trs) \ {i} /\ \A j \in Flying(less) : less[j] = trs[j]
  BY <1>1, <1>2, <1>4, <1>5 DEF Flying
<1>7. Events(less) = Events(trs) \ {EventOf(trs, i)}
  <2>1. \A j \in Flying(less) : EventOf(less, j) = EventOf(trs, j)
    BY <1>6 DEF EventOf
  <2>2. \A j \in Flying(trs) : EventOf(trs, j) = EventOf(trs, i) => j = i
    BY DEF EventOf
  <2>3. QED
    BY <1>6, <2>1, <2>2 DEF Events
<1>8. NoDouble(trs) => NoDouble(less)
  BY <1>6 DEF NoDouble
<1>9. QED
  BY <1>4, <1>6, <1>7, <1>8 DEF less

-----------------------------------------------------------------------------
(* The opportunity of a completed request *)

(* The demand a chain is ranked by is a number of arrivals.                *)
LEMMA DemandType ==
    ASSUME NEW history \in [Block -> Seq(Nat)], NEW t
    PROVE  \A b \in Block : DemandCounts(history, t)[b] \in Nat
<1>1. TAKE b \in Block
<1> DEFINE h == history[b]
           S == {i \in DOMAIN h : h[i] <= t /\ t < h[i] + HistoryWindow}
<1>2. h \in Seq(Nat)
  OBVIOUS
<1>3. DemandCounts(history, t)[b] = Cardinality(S)
  BY DEF DemandCounts, DemandCount
<1>4. S \subseteq DOMAIN h
  OBVIOUS
<1> HIDE DEF h, S
<1>5. DOMAIN h = 1 .. Len(h) /\ Len(h) \in Nat
  BY <1>2
<1>6. IsFiniteSet(DOMAIN h)
  BY <1>5, FS_Interval
<1>7. QED
  BY <1>3, <1>4, <1>6, FS_Subset, FS_CardinalityType

(* What execute starts, if anything: a copy whose preflight passed, to a   *)
(* pod that neither has the chain nor is about to get it.                  *)
LEMMA ChoiceFacts ==
    ASSUME NEW pods, NEW trs, NEW chains \in SUBSET Block,
           NEW counts, \A b \in Block : counts[b] \in Nat,
           NEW loads, \A p \in Pod : loads[p] \in Nat,
           Startable(pods, Candidates(pods, trs, chains), counts) # {}
    PROVE  LET candidates == Candidates(pods, trs, chains)
               chain  == FirstOf(Startable(pods, candidates, counts), counts)
               source == candidates[chain].source
               target == LeastLoaded(ProactiveTargets(pods, candidates, chain), loads)
           IN  /\ chain \in Block /\ source \in Pod /\ target \in Pod
               /\ CanCopy(pods, source, target, chain)
               /\ ~Covered(trs, target, chain)
<1> DEFINE cs == Candidates(pods, trs, chains)
           rows == Startable(pods, cs, counts)
           chain == FirstOf(rows, counts)
           targets == ProactiveTargets(pods, cs, chain)
<1>1. rows \subseteq DOMAIN cs /\ \A x \in rows : ProactiveTargets(pods, cs, x) # {}
  BY DEF Startable, Shortlist
<1>2. DOMAIN cs \subseteq chains
  BY DEF Candidates
<1>3. chain \in rows
  <2>1. rows \in SUBSET Block /\ rows # {}
    BY <1>1, <1>2
  <2> HIDE DEF rows
  <2>2. QED
    BY <2>1, FirstOfFacts
<1>4. targets # {} /\ chain \in DOMAIN cs /\ chain \in Block
  BY <1>1, <1>2, <1>3
<1> HIDE DEF rows, chain
<1>5. /\ cs[chain].source = Min(Holders(pods, chain)) /\ Holders(pods, chain) # {}
      /\ cs[chain].targets = EligibleTargets(pods, trs, chain)
  BY <1>4 DEF Candidates
<1> HIDE DEF cs
<1>6. \A p \in targets : /\ p \in EligibleTargets(pods, trs, chain)
                         /\ CanCopy(pods, cs[chain].source, p, chain)
  BY <1>5 DEF ProactiveTargets
<1>7. targets \subseteq Pod /\ \A p \in targets : ~Covered(trs, p, chain)
  BY <1>6 DEF EligibleTargets
<1> HIDE DEF targets
<1>8. LeastLoaded(targets, loads) \in targets
  BY <1>4, <1>7, LeastLoadedFacts
<1>9. cs[chain].source \in Pod
  <2> DEFINE S == Holders(pods, chain)
  <2>1. S \subseteq Pod /\ S \subseteq Nat
    BY PodAssumption DEF Holders
  <2> HIDE DEF S
  <2>2. QED
    BY <1>5, <2>1, MinFacts DEF S
<1>10. QED
  BY <1>4, <1>6, <1>7, <1>8, <1>9 DEF targets, chain, rows, cs

(* A copy that starts now arrives later.                                   *)
LEMMA WireFacts ==
    ASSUME NEW n \in Block
    PROVE  WireTime(n) \in Nat /\ WireTime(n) > 0
<1>1. Depth(n) \in Nat \ {0} /\ PageTime \in Nat \ {0}
  BY ChainFacts, TimingAssumption DEF Node
<1>2. \A i, j \in Nat \ {0} : i * j \in Nat /\ i * j > 0
  OBVIOUS
<1>3. QED
  BY <1>1, <1>2 DEF WireTime

-----------------------------------------------------------------------------
(* The inductive invariant *)

TypeOK ==
    /\ now \in Nat /\ due \in Nat
    /\ stage \in {"wait", "deliver", "resume", "arrive"}
    /\ load \in LoadType
    /\ pending \cup batch \cup served \subseteq AssignmentRecord
    /\ seen \subseteq Block
    /\ demand \in [Block -> Seq(Nat)]

(* Pods, ledger and heap agree.                                            *)
Ledgered(pods, trs, events, held) ==
    /\ trs \in Seq(TransferType)
    /\ events = Events(trs)
    /\ NoDouble(trs)
    /\ PodsInv(pods, trs, held)

Held == IF stage = "resume" THEN batch ELSE {}

LoadInv == WindowInv(load) /\ load.last <= now

(* Nothing due is in the past.                                             *)
ClockInv ==
    /\ \A e \in ready : IF stage \in {"resume", "arrive"} THEN e.time > now ELSE e.time >= now
    /\ Remaining # {} => due >= now

(* What waits for a transfer: its transfer is in flight to its pod with    *)
(* its hit; once delivered, the hit is there.  Only requests wait, and     *)
(* only where no proactive copy is ever made.                              *)
WaitInv ==
    /\ IsFiniteSet(pending) /\ IsFiniteSet(batch)
    /\ stage \in {"wait", "arrive"} => batch = {}
    /\ \A a \in batch : Published(caches[a.pod], a.hit)
    /\ \A a \in pending : /\ a.transfer \in Flying(transfers)
                          /\ transfers[a.transfer].target = a.pod
                          /\ transfers[a.transfer].chain = a.hit
    /\ pending \cup batch # {} => ProactivePolicy = "NONE"

CoreInv ==
    /\ TypeOK
    /\ Ledgered(caches, transfers, ready, Held)
    /\ Len(transfers) <= Cardinality(Arrived)
    /\ LoadInv
    /\ ClockInv
    /\ WaitInv

EngineInv == CoreInv /\ HandoverLosesOnlyTail

(* Requests are finitely many and each takes at most one transfer id.      *)
LEMMA ArrivedFacts ==
    ASSUME NEW ld \in LoadType
    PROVE  /\ Committed(ld) \subseteq Request /\ IsFiniteSet(Committed(ld))
           /\ Cardinality(Committed(ld)) \in Nat
           /\ Cardinality(Committed(ld)) <= Cardinality(Request) /\ Cardinality(Request) \in Nat
           /\ \A r \in Request \ Committed(ld) :
                 /\ Cardinality(Committed(ld) \cup {r}) = Cardinality(Committed(ld)) + 1
                 /\ Cardinality(Committed(ld)) + 1 <= Cardinality(Request)
<1>1. Committed(ld) \subseteq Request
  BY DEF Committed, LoadType, EntryType
<1>2. IsFiniteSet(Request) /\ Cardinality(Request) \in Nat
  BY RequestAssumption, FS_CardinalityType
<1> DEFINE C == Committed(ld)
<1> HIDE DEF C
<1>3. C \subseteq Request /\ IsFiniteSet(C) /\ Cardinality(C) \in Nat /\ Cardinality(C) <= Cardinality(Request)
  BY <1>1, <1>2, FS_Subset, FS_CardinalityType DEF C
<1>4. ASSUME NEW r \in Request \ C
      PROVE  Cardinality(C \cup {r}) = Cardinality(C) + 1 /\ Cardinality(C) + 1 <= Cardinality(Request)
  <2>1. Cardinality(C \cup {r}) = Cardinality(C) + 1
    BY <1>3, FS_AddElement
  <2>2. C \cup {r} \subseteq Request
    BY <1>3
  <2>3. Cardinality(C \cup {r}) <= Cardinality(Request)
    BY <1>2, <2>2, FS_Subset
  <2>4. QED
    BY <2>1, <2>3
<1>5. QED
  BY <1>2, <1>3, <1>4 DEF C

(* A new pod is sound and holds nothing.                                   *)
LEMMA EmptyFacts ==
    /\ Sound(EmptyCache)
    /\ \A b \in Block : EmptyCache.pins[b] = 0
    /\ \A i \in Transfer : EmptyCache.temporary[i] = 0
<1>1. EmptyCache \in Cache
  BY DEF EmptyCache, Cache
<1>2. EmptyCache.pages = {} /\ \A i \in Transfer : EmptyCache.temporary[i] = 0
  BY DEF EmptyCache
<1>3. BufferSlots(EmptyCache) = {}
  BY <1>2 DEF BufferSlots
<1>4. MemoryPages(EmptyCache) = 0
  BY <1>2, <1>3, FS_EmptySet DEF MemoryPages, TemporaryPages
<1>5. \A b \in Block : EmptyCache.pins[b] = 0
  BY DEF EmptyCache
<1>6. QED
  BY <1>1, <1>2, <1>4, <1>5, CapacityAssumption DEF Sound, PrefixClosed, WithinCapacity

(* The invariant holds when run starts.                                    *)
LEMMA InitKeeps == Init => EngineInv
<1> SUFFICES ASSUME Init PROVE EngineInv
  OBVIOUS
<1>1. TypeOK
  <2>1. IdleLoad \in LoadType
    BY DEF IdleLoad, LoadType
  <2>2. << >> \in Seq(Nat)
    OBVIOUS
  <2>3. QED
    BY <2>1, <2>2 DEF Init, TypeOK
<1>2. Flying(transfers) = {} /\ transfers \in Seq(TransferType) /\ Len(transfers) = 0
  BY DEF Init, Flying
<1>3. Held = {} /\ IsFiniteSet({}) /\ Cardinality({}) = 0
  BY FS_EmptySet DEF Init, Held
<1>4. PodsInv(caches, transfers, {})
  <2>1. caches \in [Pod -> Cache] /\ \A p \in Pod : caches[p] = EmptyCache
    BY EmptyFacts DEF Init, Sound
  <2>2. \A p, b : Readers(transfers, p, b) = {} /\ Waiters({}, p, b) = {}
    BY <1>2 DEF Readers, Waiters
  <2>3. PinsOwned(caches, transfers, {})
    <3>1. SUFFICES ASSUME NEW p \in Pod, NEW b \in Block
                   PROVE  caches[p].pins[b] = Cardinality(Readers(transfers, p, b))
                                                + Cardinality(Waiters({}, p, b))
      BY DEF PinsOwned
    <3>2. Cardinality(Readers(transfers, p, b)) = 0 /\ Cardinality(Waiters({}, p, b)) = 0
      BY <1>3, <2>2
    <3>3. caches[p].pins[b] = 0
      BY <2>1, EmptyFacts
    <3>4. QED
      BY <3>2, <3>3
  <2>4. BuffersOwned(caches, transfers)
    BY <1>2, <2>1, EmptyFacts DEF BuffersOwned
  <2>5. QED
    BY <1>2, <2>1, <2>3, <2>4, EmptyFacts DEF PodsInv
<1>5. Ledgered(caches, transfers, ready, Held)
  BY <1>2, <1>3, <1>4 DEF Ledgered, Events, NoDouble, Init
<1>6. Len(transfers) <= Cardinality(Arrived)
  <2>1. Cardinality(Arrived) \in Nat
    BY <1>1, ArrivedFacts DEF TypeOK, Arrived
  <2>2. QED
    BY <1>2, <2>1
<1>7. LoadInv
  <2>1. ASSUME NEW p \in Pod
        PROVE  /\ Range(load.histories[p]) = {} /\ InOrder(load.histories[p])
               /\ load.totals[p] = 0 /\ load.entries = {} /\ load.last = 0
    BY DEF Init, IdleLoad, Range, InOrder
  <2>2. load.entries = {} /\ load.last = 0
    BY DEF Init, IdleLoad
  <2>3. MissTokens({}) = 0
    <3>1. {} \in SUBSET EntryType /\ IsFiniteSet({})
      BY <1>3
    <3>2. QED
      BY <3>1, MissFacts
  <2>4. load.last <= now
    BY <2>2 DEF Init
  <2>5. WindowInv(load)
    BY <1>3, <2>1, <2>2, <2>3 DEF WindowInv
  <2>6. QED
    BY <2>4, <2>5 DEF LoadInv
<1>8. ClockInv /\ WaitInv /\ HandoverLosesOnlyTail
  BY <1>3 DEF ClockInv, WaitInv, HandoverLosesOnlyTail, Init
<1>9. QED
  BY <1>1, <1>5, <1>6, <1>7, <1>8 DEF CoreInv, EngineInv

-----------------------------------------------------------------------------
(* The steps of the loop *)

(* Time never goes back: nothing due is in the past.                       *)
LEMMA TickForward ==
    ASSUME CoreInv, Tick
    PROVE  now \in Nat /\ now' \in Nat /\ now' >= now /\ \A k \in NextEventTimes : k >= now'
<1>1. /\ TypeOK /\ Ledgered(caches, transfers, ready, Held) /\ ClockInv
      /\ now \in Nat
  BY DEF CoreInv, TypeOK
<1>2. stage = "wait" /\ now' = Min(NextEventTimes) /\ NextEventTimes # {}
  BY DEF Tick
<1>3. NextEventTimes \subseteq Nat /\ \A k \in NextEventTimes : k >= now
  <2>1. \A e \in ready : e.time \in Nat /\ e.time >= now
    <3>1. TAKE e \in ready
    <3>2. PICK i \in Flying(transfers) : e = EventOf(transfers, i)
      BY <1>1 DEF Ledgered, Events
    <3>3. e.time \in Nat
      BY <1>1, <3>2, FlyingType DEF Ledgered, EventOf, TransferType
    <3>4. QED
      BY <1>1, <1>2, <3>3 DEF ClockInv
  <2>2. due \in Nat /\ (Remaining # {} => due >= now)
    BY <1>1 DEF TypeOK, ClockInv
  <2>3. QED
    BY <2>1, <2>2 DEF NextEventTimes
<1>4. now' \in Nat /\ now' >= now /\ \A k \in NextEventTimes : k >= now'
  <2>1. Min(NextEventTimes) \in NextEventTimes /\ \A k \in NextEventTimes : Min(NextEventTimes) <= k
    BY <1>2, <1>3, MinFacts
  <2>2. QED
    BY <1>2, <1>3, <2>1
<1>5. QED
  BY <1>1, <1>4

(* The clock moves to the next event and no further.                       *)
LEMMA TickKeeps == CoreInv /\ Tick => CoreInv'
<1> SUFFICES ASSUME CoreInv, Tick PROVE CoreInv'
  OBVIOUS
<1>1. /\ TypeOK /\ Ledgered(caches, transfers, ready, Held) /\ Len(transfers) <= Cardinality(Arrived)
      /\ LoadInv /\ ClockInv /\ WaitInv
  BY DEF CoreInv
<1>2. /\ stage = "wait" /\ stage' = "deliver" /\ now' = Min(NextEventTimes) /\ NextEventTimes # {}
      /\ due' = due /\ caches' = caches /\ load' = load /\ transfers' = transfers
      /\ ready' = ready /\ pending' = pending /\ batch' = batch /\ served' = served
      /\ seen' = seen /\ demand' = demand
  BY DEF Tick
<1>3. now \in Nat /\ now' \in Nat /\ now' >= now /\ \A k \in NextEventTimes : k >= now'
  BY TickForward
<1>4. TypeOK'
  BY <1>1, <1>2, <1>3 DEF TypeOK
<1>5. Ledgered(caches, transfers, ready, Held)'
  BY <1>1, <1>2 DEF Held
<1>6. (Len(transfers) <= Cardinality(Arrived))'
  BY <1>1, <1>2 DEF Arrived
<1>7. LoadInv'
  <2>1. load.last \in Nat /\ now \in Nat /\ load.last <= now
    BY <1>1 DEF TypeOK, LoadType, LoadInv
  <2>2. QED
    BY <1>1, <1>2, <1>3, <2>1 DEF LoadInv
<1>8. ClockInv'
  <2>1. \A e \in ready : e.time >= now'
    BY <1>3 DEF NextEventTimes
  <2>2. Remaining # {} => due >= now'
    BY <1>3 DEF NextEventTimes
  <2>3. QED
    BY <1>2, <2>1, <2>2 DEF ClockInv, Remaining, Arrived
<1>9. WaitInv'
  BY <1>1, <1>2 DEF WaitInv
<1>10. QED
  BY <1>4, <1>5, <1>6, <1>7, <1>8, <1>9 DEF CoreInv

(* Delivery: the request that waited has its hit and joins the batch.      *)
LEMMA DeliverStep == CoreInv /\ Deliver => CoreInv'
<1> SUFFICES ASSUME CoreInv, Deliver PROVE CoreInv'
  OBVIOUS
<1>1. /\ TypeOK /\ Ledgered(caches, transfers, ready, Held) /\ Len(transfers) <= Cardinality(Arrived)
      /\ LoadInv /\ ClockInv /\ WaitInv
  BY DEF CoreInv
<1>2. /\ stage = "deliver" /\ stage' = stage /\ now' = now /\ due' = due /\ load' = load
      /\ served' = served /\ seen' = seen /\ demand' = demand
  BY DEF Deliver
<1>3. PICK e \in ReadyNow :
         LET t == transfers[e.transfer]
         IN  /\ caches' = [caches EXCEPT
                    ![t.target] = CompleteTransfer(@, e.transfer, t.chain),
                    ![t.source] = Unpin(@, t.chain)]
             /\ transfers' = [transfers EXCEPT ![e.transfer].status = "COMPLETED"]
             /\ ready' = ready \ {e}
             /\ LET waiting == {a \in pending : a.transfer = e.transfer}
                IN  pending' = pending \ waiting /\ batch' = batch \cup waiting
  BY DEF Deliver
<1>4. /\ transfers \in Seq(TransferType) /\ ready = Events(transfers)
      /\ NoDouble(transfers) /\ PodsInv(caches, transfers, {})
  BY <1>1, <1>2 DEF Ledgered, Held
<1>5. PICK i \in Flying(transfers) : e = EventOf(transfers, i)
  BY <1>4 DEF ReadyNow, Events
<1> DEFINE t == transfers[i]
           q == [caches EXCEPT ![t.target] = CompleteTransfer(@, i, t.chain),
                               ![t.source] = Unpin(@, t.chain)]
           less == [transfers EXCEPT ![i].status = "COMPLETED"]
           waiting == {a \in pending : a.transfer = i}
<1>6. /\ caches' = q /\ transfers' = less /\ ready' = ready \ {e}
      /\ pending' = pending \ waiting /\ batch' = batch \cup waiting
  <2>1. e.transfer = i
    BY <1>5 DEF EventOf
  <2>2. QED
    BY <1>3, <2>1
<1>7. i \in Transfer
  <2>1. i \in 1 .. Len(transfers) /\ Len(transfers) \in Nat
    BY <1>4 DEF Flying
  <2>2. /\ Cardinality(Arrived) \in Nat /\ Cardinality(Request) \in Nat
        /\ Cardinality(Arrived) <= Cardinality(Request)
    BY <1>1, ArrivedFacts DEF TypeOK, Arrived
  <2>3. i \in 1 .. Cardinality(Request)
    BY <1>1, <2>1, <2>2
  <2>4. QED
    BY <2>3, TransferIdAssumption
<1>8. /\ PodsInv(q, less, {}) /\ Published(q[t.target], t.chain)
      /\ \A p \in Pod : caches[p].pages \subseteq q[p].pages
  <2> HIDE DEF q, less, t
  <2>1. QED
    BY <1>4, <1>7, DeliverKeeps DEF q, less, t
<1>9. /\ less \in Seq(TransferType) /\ Len(less) = Len(transfers)
      /\ Flying(less) = Flying(transfers) \ {i}
      /\ \A j \in Flying(less) : less[j] = transfers[j]
      /\ Events(less) = Events(transfers) \ {EventOf(transfers, i)}
      /\ NoDouble(less)
  <2> HIDE DEF less
  <2>1. QED
    BY <1>4, CompletedFacts DEF less
<1> HIDE DEF q, less
<1>10. waiting \subseteq pending
  OBVIOUS
<1>11. TypeOK'
  BY <1>1, <1>2, <1>6, <1>10 DEF TypeOK
<1>12. Ledgered(caches, transfers, ready, Held)'
  <2>1. Held' = {}
    BY <1>2 DEF Held
  <2>2. ready' = Events(less)
    BY <1>4, <1>5, <1>6, <1>9
  <2>3. QED
    BY <1>6, <1>8, <1>9, <2>1, <2>2 DEF Ledgered
<1>13. (Len(transfers) <= Cardinality(Arrived))'
  BY <1>1, <1>2, <1>6, <1>9 DEF Arrived
<1>14. LoadInv' /\ ClockInv'
  BY <1>1, <1>2, <1>6 DEF LoadInv, ClockInv, Remaining, Arrived
<1>15. WaitInv'
  <2>1. IsFiniteSet(pending') /\ IsFiniteSet(batch')
    <3>1. IsFiniteSet(waiting) /\ IsFiniteSet(pending \ waiting) /\ IsFiniteSet(batch)
      BY <1>1, FS_Subset DEF WaitInv
    <3>2. QED
      BY <1>6, <3>1, FS_Union
  <2>2. ASSUME NEW a \in batch' PROVE Published(caches'[a.pod], a.hit)
    <3>1. CASE a \in batch
      <4>1. a.pod \in Pod
        BY <1>1, <3>1 DEF TypeOK, AssignmentRecord
      <4>2. Published(caches[a.pod], a.hit)
        BY <1>1, <3>1 DEF WaitInv
      <4>3. QED
        BY <1>6, <1>8, <4>1, <4>2 DEF Published
    <3>2. CASE a \in waiting
      <4>1. t.target = a.pod /\ t.chain = a.hit
        BY <1>1, <3>2 DEF WaitInv
      <4>2. QED
        BY <1>6, <1>8, <4>1
    <3>3. QED
      BY <1>6, <2>2, <3>1, <3>2
  <2>3. ASSUME NEW a \in pending'
        PROVE  /\ a.transfer \in Flying(less)
               /\ less[a.transfer].target = a.pod
               /\ less[a.transfer].chain = a.hit
    <3>1. a \in pending /\ a.transfer # i
      BY <1>6, <2>3
    <3>2. QED
      BY <1>1, <1>9, <3>1 DEF WaitInv
  <2>4. pending' \cup batch' = pending \cup batch
    BY <1>6, <1>10
  <2>5. (pending \cup batch # {} => ProactivePolicy = "NONE")'
    BY <1>1, <2>4 DEF WaitInv
  <2>6. QED
    BY <1>2, <1>6, <2>1, <2>2, <2>3, <2>5 DEF WaitInv
<1>16. QED
  BY <1>11, <1>12, <1>13, <1>14, <1>15 DEF CoreInv

(* The batch protects its hits: every event of this time was delivered.    *)
LEMMA ProtectStep == CoreInv /\ Protect => CoreInv'
<1> SUFFICES ASSUME CoreInv, Protect PROVE CoreInv'
  OBVIOUS
<1>1. /\ TypeOK /\ Ledgered(caches, transfers, ready, Held) /\ Len(transfers) <= Cardinality(Arrived)
      /\ LoadInv /\ ClockInv /\ WaitInv
  BY DEF CoreInv
<1>2. /\ stage = "deliver" /\ ReadyNow = {} /\ stage' = "resume"
      /\ caches' = [p \in Pod |-> PinEach(caches[p], {a \in batch : a.pod = p})]
      /\ now' = now /\ due' = due /\ load' = load /\ transfers' = transfers /\ ready' = ready
      /\ pending' = pending /\ batch' = batch /\ served' = served
      /\ seen' = seen /\ demand' = demand
  BY DEF Protect
<1>3. /\ transfers \in Seq(TransferType) /\ ready = Events(transfers)
      /\ NoDouble(transfers) /\ PodsInv(caches, transfers, {})
  BY <1>1, <1>2 DEF Ledgered, Held
<1>4. PodsInv(caches', transfers, batch)
  <2>1. /\ batch \in SUBSET AssignmentRecord /\ IsFiniteSet(batch)
        /\ \A a \in batch : Published(caches[a.pod], a.hit)
    BY <1>1 DEF TypeOK, WaitInv
  <2>2. QED
    BY <1>2, <1>3, <2>1, ProtectKeeps
<1>5. TypeOK'
  BY <1>1, <1>2 DEF TypeOK
<1>6. Ledgered(caches, transfers, ready, Held)'
  <2>1. Held' = batch
    BY <1>2 DEF Held
  <2>2. QED
    BY <1>2, <1>3, <1>4, <2>1 DEF Ledgered
<1>7. (Len(transfers) <= Cardinality(Arrived))'
  BY <1>1, <1>2 DEF Arrived
<1>8. LoadInv'
  BY <1>1, <1>2 DEF LoadInv
<1>9. ClockInv'
  <2>1. ASSUME NEW e \in ready PROVE e.time > now
    <3>1. e.time \in Nat
      <4>1. PICK i \in Flying(transfers) : e = EventOf(transfers, i)
        BY <1>3 DEF Events
      <4>2. QED
        BY <1>3, <4>1, FlyingType DEF EventOf, TransferType
    <3>2. e.time >= now /\ e.time # now /\ now \in Nat
      BY <1>1, <1>2 DEF ClockInv, ReadyNow, TypeOK
    <3>3. QED
      BY <3>1, <3>2
  <2>2. QED
    BY <1>1, <1>2, <2>1 DEF ClockInv, Remaining, Arrived
<1>10. WaitInv'
  <2>1. \A a \in batch' : Published(caches'[a.pod], a.hit)
    BY <1>2, <1>4 DEF PodsInv
  <2>2. QED
    BY <1>1, <1>2, <2>1 DEF WaitInv
<1>11. QED
  BY <1>5, <1>6, <1>7, <1>8, <1>9, <1>10 DEF CoreInv

(* The two steps that only move on in the loop.                            *)
LEMMA MoveOnStep == CoreInv /\ (BatchDone \/ ArrivalsDone) => CoreInv'
<1> SUFFICES ASSUME CoreInv, BatchDone \/ ArrivalsDone PROVE CoreInv'
  OBVIOUS
<1>1. /\ TypeOK /\ Ledgered(caches, transfers, ready, Held) /\ Len(transfers) <= Cardinality(Arrived)
      /\ LoadInv /\ ClockInv /\ WaitInv
  BY DEF CoreInv
<1>2. /\ now' = now /\ due' = due /\ caches' = caches /\ load' = load /\ transfers' = transfers
      /\ ready' = ready /\ pending' = pending /\ batch' = batch /\ served' = served
      /\ seen' = seen /\ demand' = demand
      /\ \/ stage = "resume" /\ stage' = "arrive" /\ batch = {}
         \/ stage = "arrive" /\ stage' = "wait"
  BY DEF BatchDone, ArrivalsDone
<1>3. Held' = Held
  BY <1>2 DEF Held
<1>4. TypeOK'
  BY <1>1, <1>2 DEF TypeOK
<1>5. Ledgered(caches, transfers, ready, Held)'
  BY <1>1, <1>2, <1>3
<1>6. (Len(transfers) <= Cardinality(Arrived))'
  BY <1>1, <1>2 DEF Arrived
<1>7. LoadInv'
  BY <1>1, <1>2 DEF LoadInv
<1>8. ClockInv'
  <2>1. \A e \in ready : e.time > now
    BY <1>1, <1>2 DEF ClockInv
  <2>2. \A e \in ready : e.time >= now
    <3>1. TAKE e \in ready
    <3>2. PICK i \in Flying(transfers) : e = EventOf(transfers, i)
      BY <1>1 DEF Ledgered, Events
    <3>3. e.time \in Nat /\ now \in Nat
      BY <1>1, <3>2, FlyingType DEF Ledgered, EventOf, TransferType, TypeOK
    <3>4. QED
      BY <2>1, <3>3
  <2>3. QED
    BY <1>1, <1>2, <2>1, <2>2 DEF ClockInv, Remaining, Arrived
<1>9. WaitInv'
  BY <1>1, <1>2 DEF WaitInv
<1>10. QED
  BY <1>4, <1>5, <1>6, <1>7, <1>8, <1>9 DEF CoreInv

-----------------------------------------------------------------------------
(* Starting a copy, finishing a request *)

(* The transfers in flight of a ledger stay as they are in the next.       *)
Continues(trs, more) == \A i \in Flying(trs) : i \in Flying(more) /\ more[i] = trs[i]

(* The record of a copy that starts now, and its event.                    *)
LEMMA RecordFacts ==
    ASSUME transfers \in Seq(TransferType), now \in Nat,
           NEW request \in Request, NEW type \in {"REACTIVE", "PROACTIVE"},
           NEW chain \in Block, NEW source \in Pod, NEW target \in Pod
    PROVE  LET rec  == TransferRecord(request, type, chain, source, target)
               more == Append(transfers, rec)
           IN  /\ rec \in TransferType
               /\ rec.status = "IN_FLIGHT" /\ rec.source = source /\ rec.target = target
               /\ rec.chain = chain /\ rec.type = type
               /\ ReadyEvent(request, chain) =
                     [time |-> rec.ready, request |-> rec.request, transfer |-> Len(transfers) + 1]
               /\ ReadyEvent(request, chain).time > now
               /\ Len(more) = Len(transfers) + 1
               /\ Continues(transfers, more)
               /\ NextTransferId \in Flying(more) /\ more[NextTransferId] = rec
<1> DEFINE rec == TransferRecord(request, type, chain, source, target)
           more == Append(transfers, rec)
           id == Len(transfers) + 1
           event == ReadyEvent(request, chain)
<1>1. now + WireTime(chain) \in Nat /\ now + WireTime(chain) > now
  BY WireFacts
<1>2. /\ rec \in TransferType
      /\ rec.status = "IN_FLIGHT" /\ rec.source = source /\ rec.target = target
      /\ rec.chain = chain /\ rec.type = type /\ rec.request = request
      /\ rec.ready = now + WireTime(chain)
  <2>1. rec = [request |-> request, type |-> type, chain |-> chain, source |-> source,
               target |-> target, start |-> now, ready |-> now + WireTime(chain),
               status |-> "IN_FLIGHT"]
    BY DEF TransferRecord
  <2> HIDE DEF rec
  <2>2. QED
    BY <1>1, <2>1 DEF TransferType
<1>3. event = [time |-> rec.ready, request |-> rec.request, transfer |-> id] /\ event.time > now
  <2>1. event = [time |-> now + WireTime(chain), request |-> request, transfer |-> id]
    BY DEF ReadyEvent, NextTransferId
  <2> HIDE DEF rec, event
  <2>2. QED
    BY <1>1, <1>2, <2>1
<1> HIDE DEF rec
<1>4. /\ Len(more) = id
      /\ Flying(more) = Flying(transfers) \cup {id}
      /\ more[id] = rec /\ \A i \in Flying(transfers) : more[i] = transfers[i]
  <2> HIDE DEF more, id
  <2>1. QED
    BY <1>2, AppendFacts DEF more, id
<1>5. id = NextTransferId
  BY DEF NextTransferId
<1> HIDE DEF more
<1>6. Continues(transfers, more) /\ id \in Flying(more)
  BY <1>4 DEF Continues
<1>7. QED
  BY <1>2, <1>3, <1>4, <1>5, <1>6 DEF rec, more, event

(* A copy whose preflight passed goes on the ledger and on the heap.       *)
LEMMA StartKeeps ==
    ASSUME NEW pods, NEW held \in SUBSET AssignmentRecord, IsFiniteSet(held),
           Ledgered(pods, transfers, ready, held), now \in Nat,
           NEW request \in Request, NEW type \in {"REACTIVE", "PROACTIVE"},
           NEW chain \in Block, NEW source \in Pod, NEW target \in Pod,
           CanCopy(pods, source, target, chain),
           type = "REACTIVE" \/ ~Covered(transfers, target, chain),
           NextTransferId \in Transfer
    PROVE  Ledgered(StartCopy(pods, NextTransferId, chain, source, target),
                    Append(transfers, TransferRecord(request, type, chain, source, target)),
                    ready \cup {ReadyEvent(request, chain)}, held)
<1> DEFINE rec == TransferRecord(request, type, chain, source, target)
           more == Append(transfers, rec)
           id == Len(transfers) + 1
           q == StartCopy(pods, id, chain, source, target)
           event == ReadyEvent(request, chain)
<1>1. /\ transfers \in Seq(TransferType) /\ ready = Events(transfers)
      /\ NoDouble(transfers) /\ PodsInv(pods, transfers, held)
  BY DEF Ledgered
<1>2. /\ rec \in TransferType
      /\ rec.status = "IN_FLIGHT" /\ rec.source = source /\ rec.target = target
      /\ rec.chain = chain /\ rec.type = type
      /\ event = [time |-> rec.ready, request |-> rec.request, transfer |-> id]
  BY <1>1, RecordFacts
<1>3. id = NextTransferId /\ id \in Transfer
  BY DEF NextTransferId
<1> HIDE DEF rec, event
<1>4. /\ more \in Seq(TransferType)
      /\ Events(more) = Events(transfers) \cup {[time |-> rec.ready, request |-> rec.request,
                                                 transfer |-> id]}
      /\ NoDouble(more)
  <2>1. rec.type = "PROACTIVE" => ~Covered(transfers, rec.target, rec.chain)
    BY <1>2
  <2> HIDE DEF more, id
  <2>2. QED
    BY <1>1, <1>2, <2>1, AppendFacts DEF more, id
<1>5. PodsInv(q, more, held)
  <2>1. CanCopy(pods, rec.source, rec.target, rec.chain)
    BY <1>2
  <2>2. PodsInv(StartCopy(pods, Len(transfers) + 1, rec.chain, rec.source, rec.target),
                Append(transfers, rec), held)
    BY <1>1, <1>2, <1>3, <2>1, CopyKeeps
  <2>3. QED
    BY <1>2, <2>2
<1>6. Ledgered(q, more, ready \cup {event}, held)
  <2>1. ready \cup {event} = Events(more)
    BY <1>1, <1>2, <1>4
  <2> HIDE DEF q, more
  <2>2. QED
    BY <1>4, <1>5, <2>1 DEF Ledgered
<1>7. QED
  BY <1>3, <1>6 DEF rec, event

(* What is left of held once request a is finished.                        *)
StillHeld(held, a, protected) == IF protected THEN held \ {a} ELSE held

(* What finishing request a leaves, from load ld and with the requests in  *)
(* rest still to be resumed.                                               *)
FinishLeaves(a, ld, rest) ==
    /\ Ledgered(caches', transfers', ready', rest)
    /\ Len(transfers') <= Len(transfers) + 1
    /\ ProactivePolicy = "NONE" => transfers' = transfers
    /\ Continues(transfers, transfers')
    /\ \A e \in ready' : e \in ready \/ e.time > now
    /\ load' \in LoadType /\ WindowInv(load') /\ load'.last <= now
    /\ Committed(load') = Committed(ld)
    /\ served' = served \cup {a}

(* _finish with its opportunity, from any load and demand a request may    *)
(* bring: the pods, the ledger, the heap and the load stay in step.        *)
LEMMA FinishStep ==
    ASSUME NEW held \in SUBSET AssignmentRecord, IsFiniteSet(held),
           Ledgered(caches, transfers, ready, held), now \in Nat,
           ProactivePolicy = "NONE" \/ NextTransferId \in Transfer,
           NEW a \in AssignmentRecord, NEW protected \in BOOLEAN, protected => a \in held,
           NEW ld \in LoadType, WindowInv(ld), ld.last <= now,
           NEW chains \in SUBSET Block, NEW history \in [Block -> Seq(Nat)],
           Finish(a, protected, ld, chains, history)
    PROVE  FinishLeaves(a, ld, StillHeld(held, a, protected))
<1> DEFINE pods == PodsAfter(a, protected)
           loads == LoadVector(ld, now)
           cs == Candidates(pods, transfers, chains)
           counts == DemandCounts(history, now)
           rest == StillHeld(held, a, protected)
<1>1. /\ Opportunity(a.request, pods, loads, cs, counts)
      /\ load' = Query(ld, now)
      /\ served' = served \cup {a}
  BY DEF Finish
<1>2. /\ transfers \in Seq(TransferType) /\ ready = Events(transfers)
      /\ NoDouble(transfers) /\ PodsInv(caches, transfers, held)
  BY DEF Ledgered
<1>3. PodsInv(pods, transfers, rest)
  BY <1>2, FinishKeeps DEF PodsAfter, StillHeld
<1>4. Ledgered(pods, transfers, ready, rest)
  BY <1>2, <1>3 DEF Ledgered
<1>5. rest \in SUBSET AssignmentRecord /\ IsFiniteSet(rest)
  BY FS_Subset DEF StillHeld
<1>6. /\ \A p \in Pod : loads[p] \in Nat
      /\ load' \in LoadType /\ WindowInv(load') /\ load'.last <= now
      /\ Committed(load') = Committed(ld)
  BY <1>1, QueryFacts DEF Committed
<1>7. \A b \in Block : counts[b] \in Nat
  BY DemandType
<1> HIDE DEF pods, loads, counts, rest
<1>8. CASE ProactivePolicy = "NONE" \/ Startable(pods, cs, counts) = {}
  <2>1. caches' = pods /\ transfers' = transfers /\ ready' = ready
    BY <1>1, <1>8 DEF Opportunity
  <2>2. Len(transfers) \in Nat
    BY <1>2
  <2>3. Len(transfers') <= Len(transfers) + 1
    BY <2>1, <2>2
  <2>4. QED
    BY <1>1, <1>4, <1>6, <2>1, <2>3 DEF rest, Continues, FinishLeaves
<1>9. CASE ProactivePolicy # "NONE" /\ Startable(pods, cs, counts) # {}
  <2> DEFINE chain == FirstOf(Startable(pods, cs, counts), counts)
             source == cs[chain].source
             target == LeastLoaded(ProactiveTargets(pods, cs, chain), loads)
             rec == TransferRecord(a.request, "PROACTIVE", chain, source, target)
             more == Append(transfers, rec)
  <2>1. /\ caches' = StartCopy(pods, NextTransferId, chain, source, target)
        /\ transfers' = more
        /\ ready' = ready \cup {ReadyEvent(a.request, chain)}
    BY <1>1, <1>9 DEF Opportunity
  <2>2. /\ chain \in Block /\ source \in Pod /\ target \in Pod
        /\ CanCopy(pods, source, target, chain)
        /\ ~Covered(transfers, target, chain)
    <3> HIDE DEF chain, source, target
    <3>1. QED
      BY <1>6, <1>7, <1>9, ChoiceFacts DEF chain, source, target
  <2> DEFINE request == a.request
             type == "PROACTIVE"
             event == ReadyEvent(request, chain)
  <2>3. /\ request \in Request /\ type \in {"REACTIVE", "PROACTIVE"}
        /\ NextTransferId \in Transfer /\ type = "PROACTIVE"
    BY <1>9 DEF AssignmentRecord
  <2>4. /\ more = Append(transfers, TransferRecord(request, type, chain, source, target))
        /\ event = ReadyEvent(a.request, chain) /\ event = ReadyEvent(request, chain)
    OBVIOUS
  <2> HIDE DEF chain, source, target, request, type, more, event
  <2>5. Ledgered(StartCopy(pods, NextTransferId, chain, source, target), more,
                 ready \cup {event}, rest)
    BY <1>4, <1>5, <2>2, <2>3, <2>4, StartKeeps
  <2>6. Len(more) = Len(transfers) + 1 /\ Continues(transfers, more) /\ event.time > now
    BY <1>2, <2>2, <2>3, <2>4, RecordFacts
  <2>7. Len(transfers) \in Nat
    BY <1>2
  <2>8. Len(transfers') <= Len(transfers) + 1
    BY <2>1, <2>7, <2>6
  <2>9. \A e \in ready' : e \in ready \/ e.time > now
    BY <2>1, <2>4, <2>6
  <2>10. QED
    BY <1>1, <1>6, <1>9, <2>1, <2>4, <2>8, <2>9, <2>5, <2>6 DEF rest, FinishLeaves
<1>10. QED
  BY <1>8, <1>9

(* The first of the batch is finished on the pages the batch pinned.       *)
LEMMA ResumeStep == CoreInv /\ Resume => CoreInv'
<1> SUFFICES ASSUME CoreInv, Resume PROVE CoreInv'
  OBVIOUS
<1>1. /\ TypeOK /\ Ledgered(caches, transfers, ready, Held) /\ Len(transfers) <= Cardinality(Arrived)
      /\ LoadInv /\ ClockInv /\ WaitInv
  BY DEF CoreInv
<1>2. /\ stage = "resume" /\ stage' = stage /\ now' = now /\ due' = due /\ pending' = pending
      /\ seen' = seen /\ demand' = demand
  BY DEF Resume
<1>3. PICK a \in batch : Finish(a, TRUE, load, seen, demand) /\ batch' = batch \ {a}
  BY DEF Resume
<1>4. Held = batch /\ Held' = batch \ {a}
  BY <1>2, <1>3 DEF Held
<1>5. ProactivePolicy = "NONE"
  BY <1>1, <1>3 DEF WaitInv
<1>6. /\ batch \in SUBSET AssignmentRecord /\ IsFiniteSet(batch) /\ a \in AssignmentRecord
      /\ now \in Nat /\ load \in LoadType /\ seen \in SUBSET Block
      /\ demand \in [Block -> Seq(Nat)] /\ WindowInv(load) /\ load.last <= now
  BY <1>1 DEF TypeOK, WaitInv, LoadInv
<1>7. /\ Ledgered(caches', transfers', ready', batch \ {a})
      /\ transfers' = transfers
      /\ \A e \in ready' : e \in ready \/ e.time > now
      /\ load' \in LoadType /\ WindowInv(load') /\ load'.last <= now
      /\ Committed(load') = Committed(load)
      /\ served' = served \cup {a}
  <2> DEFINE protected == TRUE
  <2>1. protected \in BOOLEAN /\ protected
    OBVIOUS
  <2>2. Finish(a, protected, load, seen, demand)
    BY <1>3
  <2>3. Ledgered(caches, transfers, ready, batch)
    BY <1>1, <1>4
  <2> HIDE DEF protected
  <2>4. FinishLeaves(a, load, StillHeld(batch, a, protected))
    BY <1>3, <1>5, <1>6, <2>1, <2>2, <2>3, FinishStep
  <2>5. StillHeld(batch, a, protected) = batch \ {a}
    BY <2>1 DEF StillHeld
  <2>6. QED
    BY <1>5, <2>4, <2>5 DEF FinishLeaves
<1>8. TypeOK'
  BY <1>1, <1>2, <1>3, <1>6, <1>7 DEF TypeOK
<1>9. Ledgered(caches, transfers, ready, Held)'
  BY <1>4, <1>7
<1>10. Arrived' = Arrived
  BY <1>7 DEF Arrived
<1>11. (Len(transfers) <= Cardinality(Arrived))'
  BY <1>1, <1>7, <1>10
<1>12. LoadInv'
  BY <1>2, <1>7 DEF LoadInv
<1>13. ClockInv'
  BY <1>1, <1>2, <1>7, <1>10 DEF ClockInv, Remaining
<1>14. WaitInv'
  <2>1. IsFiniteSet(batch')
    BY <1>3, <1>6, FS_Subset
  <2>2. \A x \in batch' : Published(caches'[x.pod], x.hit)
    BY <1>3, <1>7 DEF Ledgered, PodsInv
  <2>3. QED
    BY <1>1, <1>2, <1>5, <1>7, <2>1, <2>2 DEF WaitInv
<1>15. QED
  BY <1>8, <1>9, <1>11, <1>12, <1>13, <1>14 DEF CoreInv

-----------------------------------------------------------------------------
(* Arrivals *)

(* What an arrival finds: nothing waits in the batch, the request is new,  *)
(* there is a transfer id left for it, and the next one is not in the past. *)
LEMMA ArrivesFacts ==
    ASSUME CoreInv, NEW r, NEW n, Arrives(r, n)
    PROVE  /\ stage = "arrive" /\ batch = {} /\ Held = {}
           /\ r \in Request /\ r \notin Committed(load) /\ n \in Block /\ n \in Node
           /\ NextTransferId \in Transfer
           /\ due' \in Nat /\ due' >= now
<1>1. TypeOK /\ WaitInv /\ Len(transfers) <= Cardinality(Arrived) /\ transfers \in Seq(TransferType)
  BY DEF CoreInv, Ledgered
<1>2. /\ stage = "arrive" /\ r \in Remaining /\ n \in Block
      /\ IF Remaining = {r} THEN due' = now ELSE due' \in now .. now + MaxGap
  BY DEF Arrives, InReach
<1>3. batch = {} /\ Held = {}
  BY <1>1, <1>2 DEF WaitInv, Held
<1>4. now \in Nat /\ MaxGap \in Nat /\ load \in LoadType
  BY <1>1, TimingAssumption DEF TypeOK
<1>5. due' \in Nat /\ due' >= now
  BY <1>2, <1>4
<1>6. r \in Request /\ r \notin Committed(load)
  BY <1>2 DEF Remaining, Arrived
<1>7. NextTransferId \in Transfer
  <2>1. /\ Cardinality(Arrived) \in Nat /\ Cardinality(Request) \in Nat
        /\ Cardinality(Arrived) + 1 <= Cardinality(Request)
    BY <1>4, <1>6, ArrivedFacts DEF Arrived
  <2>2. Len(transfers) \in Nat
    BY <1>1
  <2>3. Len(transfers) + 1 \in 1 .. Cardinality(Request)
    BY <1>1, <2>1, <2>2
  <2>4. QED
    BY <2>3, TransferIdAssumption DEF NextTransferId
<1>8. QED
  BY <1>2, <1>3, <1>5, <1>6, <1>7 DEF Node

(* Where an arriving request is routed.                                    *)
LEMMA RouteFacts ==
    ASSUME CoreInv, NEW n \in Node
    PROVE  /\ \A p \in Pod : Sound(caches[p])
           /\ \A p \in Pod : Loads[p] \in Nat
           /\ Source(n) \in Pod
           /\ \A q \in Pod : HitDepth(caches, q, n) <= HitDepth(caches, Source(n), n)
           /\ RouteHit(n) \in Node
           /\ Transferable(caches, Source(n), n) \in Node
<1>1. \A p \in Pod : Sound(caches[p])
  BY DEF CoreInv, Ledgered, PodsInv
<1>2. \A p \in Pod : Loads[p] \in Nat
  BY QueryFacts DEF CoreInv, LoadInv, TypeOK, Loads
<1> DEFINE loads == Loads
<1> HIDE DEF loads
<1>3. \A p \in Pod : loads[p] \in Nat
  BY <1>2 DEF loads
<1>4. /\ AffinityPod(caches, loads, n) \in Pod
      /\ \A q \in Pod : HitDepth(caches, q, n) <= HitDepth(caches, AffinityPod(caches, loads, n), n)
  BY <1>1, <1>3, AffinityFacts
<1>5. Source(n) = AffinityPod(caches, loads, n)
  BY DEF Source, loads
<1>6. RouteHit(n) \in Node /\ Transferable(caches, Source(n), n) \in Node
  <2>1. Sound(caches[Source(n)])
    BY <1>1, <1>4, <1>5
  <2>2. QED
    BY <2>1, TransferableFacts DEF RouteHit
<1>7. QED
  BY <1>1, <1>2, <1>4, <1>5, <1>6

(* The target of a request that leaves its pod holds the transferable      *)
(* prefix already, or a transfer to it passed the preflight.               *)
LEMMA TargetFacts ==
    ASSUME CoreInv, NEW n \in Node, Feasible(n) # {}
    PROVE  /\ Target(n) \in Pod
           /\ IsDirect(n) => Published(caches[Target(n)], Transferable(caches, Source(n), n))
           /\ ~IsDirect(n) => CanCopy(caches, Source(n), Target(n), Transferable(caches, Source(n), n))
<1> DEFINE s == Source(n)
           m == Transferable(caches, s, n)
           S == FeasibleTargets(caches, s, m)
<1>1. S # {} /\ Target(n) = LeastLoaded(S, Loads)
  BY DEF Feasible, Target, ReactiveTarget
<1>2. S \subseteq Pod
  BY DEF FeasibleTargets, DirectTargets, CopyTargets, Others
<1>3. \A p \in Pod : Loads[p] \in Nat
  BY RouteFacts
<1>4. Target(n) \in S
  <2> DEFINE loads == Loads
  <2>1. \A p \in Pod : loads[p] \in Nat
    BY <1>3
  <2> HIDE DEF S, loads
  <2>2. LeastLoaded(S, loads) \in S
    BY <1>1, <1>2, <2>1, LeastLoadedFacts
  <2>3. QED
    BY <1>1, <2>2 DEF loads
<1>5. Target(n) \in DirectTargets(caches, s, m) \/ CanCopy(caches, s, Target(n), m)
  BY <1>4 DEF FeasibleTargets, CopyTargets
<1>6. IsDirect(n) <=> Target(n) \in DirectTargets(caches, s, m)
  BY DEF IsDirect
<1>7. QED
  BY <1>2, <1>4, <1>5, <1>6 DEF DirectTargets

(* A request that needs no transfer is committed to a pod and finished at  *)
(* once, as assignment a.                                                  *)
LEMMA ServeStep ==
    ASSUME CoreInv, NEW r, NEW n, Arrives(r, n),
           NEW a \in AssignmentRecord, NEW p \in Pod, NEW hit \in Node,
           Finish(a, FALSE, CommitLoad(load, r, p, MissOf(n, hit), now), SeenWith(n), DemandWith(n)),
           seen' = SeenWith(n), demand' = DemandWith(n),
           UNCHANGED <<now, stage, pending, batch>>
    PROVE  CoreInv'
<1> DEFINE miss == MissOf(n, hit)
           ld == CommitLoad(load, r, p, miss, now)
           chains == SeenWith(n)
           history == DemandWith(n)
<1>1. /\ TypeOK /\ Ledgered(caches, transfers, ready, Held) /\ Len(transfers) <= Cardinality(Arrived)
      /\ LoadInv /\ ClockInv /\ WaitInv
  BY DEF CoreInv
<1>2. /\ stage = "arrive" /\ batch = {} /\ Held = {}
      /\ r \in Request /\ r \notin Committed(load) /\ n \in Block /\ n \in Node
      /\ NextTransferId \in Transfer
      /\ due' \in Nat /\ due' >= now
  BY ArrivesFacts
<1>3. /\ Finish(a, FALSE, ld, chains, history)
      /\ seen' = chains /\ demand' = history
      /\ now' = now /\ stage' = stage /\ pending' = pending /\ batch' = batch
  OBVIOUS
<1>4. a \in AssignmentRecord
  OBVIOUS
<1>5. /\ now \in Nat /\ load \in LoadType /\ WindowInv(load) /\ load.last <= now
      /\ seen \subseteq Block /\ demand \in [Block -> Seq(Nat)]
  BY <1>1 DEF TypeOK, LoadInv
<1>6. ld \in LoadType /\ WindowInv(ld) /\ ld.last = now /\ Committed(ld) = Committed(load) \cup {r}
  <2>1. miss \in Nat
    BY <1>2, MissOfType
  <2> HIDE DEF miss
  <2>2. QED
    BY <1>2, <1>5, <2>1, CommitFacts
<1>7. chains \subseteq Block /\ history \in [Block -> Seq(Nat)]
  <2>1. Observed(n) \in Node /\ Chain[Observed(n)] \subseteq Block
    BY <1>2, LongestFacts, ChainFacts DEF Observed, FullPagePrefix
  <2>2. \A b \in Block : Append(demand[b], now) \in Seq(Nat)
    BY <1>5
  <2>3. QED
    BY <1>5, <2>1, <2>2 DEF SeenWith, DemandWith
<1> HIDE DEF ld, chains, history
<1>8. /\ Ledgered(caches', transfers', ready', {})
      /\ Len(transfers') <= Len(transfers) + 1
      /\ Continues(transfers, transfers')
      /\ ProactivePolicy = "NONE" => transfers' = transfers
      /\ \A e \in ready' : e \in ready \/ e.time > now
      /\ load' \in LoadType /\ WindowInv(load') /\ load'.last <= now
      /\ Committed(load') = Committed(ld)
      /\ served' = served \cup {a}
  <2> DEFINE protected == FALSE
             held == {}
  <2>1. protected \in BOOLEAN /\ ~protected /\ held \in SUBSET AssignmentRecord /\ IsFiniteSet(held)
    BY FS_EmptySet
  <2>2. Finish(a, protected, ld, chains, history) /\ Ledgered(caches, transfers, ready, held)
    BY <1>1, <1>2, <1>3
  <2>3. /\ ld \in LoadType /\ WindowInv(ld) /\ ld.last <= now /\ held = {} /\ now \in Nat
        /\ chains \in SUBSET Block /\ history \in [Block -> Seq(Nat)]
        /\ a \in AssignmentRecord
        /\ (ProactivePolicy = "NONE" \/ NextTransferId \in Transfer)
        /\ (protected => a \in held)
    BY <1>2, <1>4, <1>5, <1>6, <1>7
  <2> HIDE DEF protected, held
  <2>4. FinishLeaves(a, ld, StillHeld(held, a, protected))
    BY <2>1, <2>2, <2>3, FinishStep
  <2>5. StillHeld(held, a, protected) = {}
    BY <2>1, <2>3 DEF StillHeld
  <2>6. QED
    BY <2>4, <2>5 DEF FinishLeaves
<1>9. TypeOK'
  BY <1>1, <1>2, <1>3, <1>4, <1>7, <1>8 DEF TypeOK
<1>10. Ledgered(caches, transfers, ready, Held)'
  <2>1. Held' = {}
    BY <1>2, <1>3 DEF Held
  <2>2. QED
    BY <1>8, <2>1
<1>11. Arrived' = Arrived \cup {r}
  BY <1>6, <1>8 DEF Arrived
<1>12. (Len(transfers) <= Cardinality(Arrived))'
  <2>1. Cardinality(Arrived') = Cardinality(Arrived) + 1 /\ Cardinality(Arrived) \in Nat
    BY <1>2, <1>5, <1>11, ArrivedFacts DEF Arrived
  <2>2. Len(transfers) \in Nat /\ Len(transfers') \in Nat
    BY <1>1, <1>8 DEF Ledgered
  <2>3. QED
    BY <1>1, <1>8, <2>1, <2>2
<1>13. LoadInv'
  BY <1>3, <1>8 DEF LoadInv
<1>14. ClockInv'
  <2>1. \A e \in ready' : e.time > now
    BY <1>1, <1>2, <1>8 DEF ClockInv
  <2>2. QED
    BY <1>2, <1>3, <2>1 DEF ClockInv
<1>15. WaitInv'
  <2>1. \A x \in pending : /\ x.transfer \in Flying(transfers')
                           /\ transfers'[x.transfer].target = x.pod
                           /\ transfers'[x.transfer].chain = x.hit
    BY <1>1, <1>8 DEF WaitInv, Continues
  <2>2. QED
    BY <1>1, <1>2, <1>3, <2>1 DEF WaitInv
<1>16. QED
  BY <1>9, <1>10, <1>12, <1>13, <1>14, <1>15 DEF CoreInv

(* _on_request, no pod but the source is feasible: the source serves now.  *)
LEMMA AtSourceStep ==
    ASSUME CoreInv, NEW r, NEW n, NEW policy, ArriveAtSource(r, n, policy)
    PROVE  CoreInv'
<1> DEFINE s == Source(n)
           hit == RouteHit(n)
           a == Assignment(r, n, s, s, hit, hit, 0)
<1>1. /\ Arrives(r, n)
      /\ Finish(a, FALSE, CommitLoad(load, r, s, MissOf(n, hit), now), SeenWith(n), DemandWith(n))
      /\ seen' = SeenWith(n) /\ demand' = DemandWith(n)
      /\ UNCHANGED <<now, stage, pending, batch>>
  BY DEF ArriveAtSource, ServeNow
<1>2. r \in Request /\ n \in Block /\ n \in Node
  BY <1>1, ArrivesFacts
<1>3. s \in Pod /\ hit \in Node
  BY <1>2, RouteFacts
<1>4. a \in AssignmentRecord
  BY <1>2, <1>3 DEF Assignment, AssignmentRecord
<1> HIDE DEF s, hit, a
<1>5. QED
  BY <1>1, <1>3, <1>4, ServeStep

(* What a target that serves directly hits: nothing the source does not,   *)
(* and every full page of what the source does.                            *)
LEMMA DirectHit ==
    ASSUME CoreInv, NEW n \in Node, Feasible(n) # {}, IsDirect(n)
    PROVE  LET hit == Lookup(caches[Target(n)], n)
           IN  /\ Target(n) \in Pod /\ hit \in Node
               /\ Chain[hit] \subseteq Chain[RouteHit(n)]
               /\ (Chain[RouteHit(n)] \ Chain[hit]) \cap FullPage = {}
<1> DEFINE s == Source(n)
           t == Target(n)
           hit == Lookup(caches[t], n)
<1>1. /\ s \in Pod /\ Sound(caches[s]) /\ RouteHit(n) = Lookup(caches[s], n)
      /\ \A q \in Pod : HitDepth(caches, q, n) <= HitDepth(caches, s, n)
  BY RouteFacts DEF RouteHit
<1>2. /\ t \in Pod /\ Sound(caches[t])
      /\ Published(caches[t], Transferable(caches, s, n))
  BY RouteFacts, TargetFacts
<1>3. QED
  <2> HIDE DEF s, t
  <2>1. HitDepth(caches, t, n) <= HitDepth(caches, s, n)
    BY <1>1, <1>2
  <2>2. /\ hit \in Node
        /\ Chain[hit] \subseteq Chain[Lookup(caches[s], n)]
        /\ (Chain[Lookup(caches[s], n)] \ Chain[hit]) \cap FullPage = {}
    BY <1>1, <1>2, <2>1, DirectFacts
  <2> HIDE DEF hit
  <2>3. QED
    BY <1>1, <1>2, <2>2 DEF hit, t

(* _on_request, the direct path: the target serves now, on its own pages.  *)
LEMMA DirectStep ==
    ASSUME CoreInv, NEW r, NEW n, NEW policy, ArriveDirect(r, n, policy)
    PROVE  CoreInv'
<1> DEFINE t == Target(n)
           hit == Lookup(caches[t], n)
           a == Assignment(r, n, t, Source(n), RouteHit(n), hit, 0)
<1>1. /\ Arrives(r, n) /\ Feasible(n) # {} /\ IsDirect(n)
      /\ Finish(a, FALSE, CommitLoad(load, r, t, MissOf(n, hit), now), SeenWith(n), DemandWith(n))
      /\ seen' = SeenWith(n) /\ demand' = DemandWith(n)
      /\ UNCHANGED <<now, stage, pending, batch>>
  BY DEF ArriveDirect, ServeNow
<1>2. r \in Request /\ n \in Block /\ n \in Node
  BY <1>1, ArrivesFacts
<1>3. Source(n) \in Pod /\ RouteHit(n) \in Node
  BY <1>2, RouteFacts
<1>4. t \in Pod /\ hit \in Node
  BY <1>1, <1>2, DirectHit
<1> HIDE DEF t, hit
<1>5. a \in AssignmentRecord
  BY <1>2, <1>3, <1>4 DEF Assignment, AssignmentRecord
<1> HIDE DEF a
<1>6. QED
  BY <1>1, <1>4, <1>5, ServeStep

(* _start_reactive_plan: the request waits for a transfer that is in       *)
(* flight to its pod with all of its hit.                                  *)
LEMMA CopyStep ==
    ASSUME CoreInv, NEW r, NEW n, NEW policy, ArriveCopy(r, n, policy), ProactivePolicy = "NONE"
    PROVE  CoreInv'
<1> DEFINE chain == Transferable(caches, Source(n), n)
           source == Source(n)
           target == Target(n)
           rec == TransferRecord(r, "REACTIVE", chain, source, target)
           a == Assignment(r, n, target, source, RouteHit(n), chain, NextTransferId)
           miss == MissOf(n, chain)
<1>1. /\ TypeOK /\ Ledgered(caches, transfers, ready, Held) /\ Len(transfers) <= Cardinality(Arrived)
      /\ LoadInv /\ ClockInv /\ WaitInv
  BY DEF CoreInv
<1>2. /\ Arrives(r, n) /\ Reassign(n, policy) /\ Feasible(n) # {} /\ ~IsDirect(n)
      /\ caches' = StartCopy(caches, NextTransferId, chain, source, target)
      /\ transfers' = Append(transfers, rec)
      /\ ready' = ready \cup {ReadyEvent(r, chain)}
      /\ pending' = pending \cup {a}
      /\ load' = CommitLoad(load, r, target, miss, now)
      /\ seen' = SeenWith(n) /\ demand' = DemandWith(n)
      /\ now' = now /\ stage' = stage /\ batch' = batch /\ served' = served
  BY DEF ArriveCopy
<1>3. /\ stage = "arrive" /\ batch = {} /\ Held = {}
      /\ r \in Request /\ r \notin Committed(load) /\ n \in Block /\ n \in Node
      /\ NextTransferId \in Transfer
      /\ due' \in Nat /\ due' >= now
  BY <1>2, ArrivesFacts
<1>4. ProactivePolicy = "NONE"
  OBVIOUS
<1>5. /\ source \in Pod /\ target \in Pod /\ Sound(caches[source])
      /\ CanCopy(caches, source, target, chain) /\ chain \in Node
  BY <1>2, <1>3, RouteFacts, TargetFacts
<1>6. chain \in Block
  BY <1>5 DEF CanCopy, Node
<1>7. /\ RouteHit(n) \in Node /\ Chain[chain] \subseteq Chain[RouteHit(n)]
      /\ (Chain[RouteHit(n)] \ Chain[chain]) \cap FullPage = {}
  BY <1>3, <1>5, TransferableFacts DEF RouteHit
<1>8. /\ now \in Nat /\ load \in LoadType /\ WindowInv(load) /\ load.last <= now
      /\ seen \subseteq Block /\ demand \in [Block -> Seq(Nat)]
      /\ transfers \in Seq(TransferType)
  BY <1>1 DEF TypeOK, LoadInv, Ledgered
<1>9. a \in AssignmentRecord /\ a.hit = chain /\ a.routeHit = RouteHit(n)
      /\ a.transfer = NextTransferId /\ a.pod = target
  BY <1>3, <1>5, <1>7 DEF Assignment, AssignmentRecord
<1> HIDE DEF chain, source, target
<1>10. /\ load' \in LoadType /\ WindowInv(load') /\ load'.last = now
       /\ Committed(load') = Committed(load) \cup {r}
  <2>1. miss \in Nat
    BY <1>3, MissOfType
  <2> HIDE DEF miss
  <2>2. QED
    BY <1>2, <1>3, <1>5, <1>8, <2>1, CommitFacts
<1>11. seen' \subseteq Block /\ demand' \in [Block -> Seq(Nat)]
  <2>1. Observed(n) \in Node /\ Chain[Observed(n)] \subseteq Block
    BY <1>3, LongestFacts, ChainFacts DEF Observed, FullPagePrefix
  <2>2. \A b \in Block : Append(demand[b], now) \in Seq(Nat)
    BY <1>8
  <2>3. QED
    BY <1>2, <1>8, <2>1, <2>2 DEF SeenWith, DemandWith
<1> HIDE DEF a
<1>12. /\ Len(transfers') = Len(transfers) + 1 /\ Continues(transfers, transfers')
       /\ NextTransferId \in Flying(transfers')
       /\ transfers'[NextTransferId].target = target
       /\ transfers'[NextTransferId].chain = chain
       /\ ReadyEvent(r, chain).time > now
  <2> DEFINE type == "REACTIVE"
  <2>1. type \in {"REACTIVE", "PROACTIVE"} /\ rec = TransferRecord(r, type, chain, source, target)
    OBVIOUS
  <2> HIDE DEF type, rec
  <2>2. /\ transfers \in Seq(TransferType) /\ now \in Nat /\ r \in Request
        /\ chain \in Block /\ source \in Pod /\ target \in Pod
    BY <1>3, <1>5, <1>6, <1>8
  <2>3. rec.target = target /\ rec.chain = chain
    BY <2>1, <2>2, RecordFacts
  <2>4. ReadyEvent(r, chain).time > now
    BY <2>1, <2>2, RecordFacts
  <2> DEFINE more == Append(transfers, rec)
  <2>5. Len(more) = Len(transfers) + 1
    BY <2>1, <2>2, RecordFacts
  <2>6. Continues(transfers, more)
    BY <2>1, <2>2, RecordFacts
  <2>7. NextTransferId \in Flying(more)
    BY <2>1, <2>2, RecordFacts
  <2>8. more[NextTransferId] = rec
    <3>1. rec \in TransferType
      BY <2>1, <2>2, RecordFacts
    <3>2. QED
      BY <2>2, <3>1 DEF NextTransferId
  <2>9. transfers' = more
    BY <1>2
  <2> HIDE DEF more
  <2>10. QED
    BY <2>3, <2>4, <2>5, <2>6, <2>7, <2>8, <2>9
<1>13. Ledgered(caches', transfers', ready', {})
  <2> DEFINE type == "REACTIVE"
             held == {}
  <2>1. /\ type \in {"REACTIVE", "PROACTIVE"} /\ type = "REACTIVE"
        /\ held \in SUBSET AssignmentRecord /\ IsFiniteSet(held)
        /\ Ledgered(caches, transfers, ready, held)
        /\ rec = TransferRecord(r, type, chain, source, target)
    BY <1>1, <1>3, FS_EmptySet
  <2> HIDE DEF type, held, rec
  <2>2. Ledgered(StartCopy(caches, NextTransferId, chain, source, target),
                 Append(transfers, TransferRecord(r, type, chain, source, target)),
                 ready \cup {ReadyEvent(r, chain)}, held)
    BY <1>3, <1>5, <1>6, <1>8, <2>1, StartKeeps
  <2>3. QED
    BY <1>2, <2>1, <2>2 DEF held
<1>14. TypeOK'
  BY <1>1, <1>2, <1>3, <1>9, <1>10, <1>11 DEF TypeOK
<1>15. Ledgered(caches, transfers, ready, Held)'
  <2>1. Held' = {}
    BY <1>2, <1>3 DEF Held
  <2>2. QED
    BY <1>13, <2>1
<1>16. Arrived' = Arrived \cup {r}
  BY <1>10 DEF Arrived
<1>17. (Len(transfers) <= Cardinality(Arrived))'
  <2>1. Cardinality(Arrived') = Cardinality(Arrived) + 1 /\ Cardinality(Arrived) \in Nat
    BY <1>3, <1>8, <1>16, ArrivedFacts DEF Arrived
  <2>2. Len(transfers) \in Nat
    BY <1>8
  <2>3. QED
    BY <1>1, <1>12, <2>1, <2>2
<1>18. LoadInv'
  <2>1. now <= now
    BY <1>8
  <2>2. QED
    BY <1>2, <1>10, <2>1 DEF LoadInv
<1>19. ClockInv'
  <2>1. \A e \in ready' : e.time > now
    BY <1>1, <1>2, <1>3, <1>12 DEF ClockInv
  <2>2. QED
    BY <1>2, <1>3, <2>1 DEF ClockInv
<1>20. WaitInv'
  <2>1. \A x \in pending' : /\ x.transfer \in Flying(transfers')
                            /\ transfers'[x.transfer].target = x.pod
                            /\ transfers'[x.transfer].chain = x.hit
    BY <1>1, <1>2, <1>9, <1>12 DEF WaitInv, Continues
  <2>2. IsFiniteSet(pending')
    BY <1>1, <1>2, FS_AddElement DEF WaitInv
  <2>3. QED
    BY <1>1, <1>2, <1>3, <1>4, <2>1, <2>2 DEF WaitInv
<1>21. QED
  BY <1>14, <1>15, <1>17, <1>18, <1>19, <1>20 DEF CoreInv

-----------------------------------------------------------------------------
(* Handing over *)

(* Where handing over loses no full page and promises nothing more.        *)
KeepsFullPages(a) ==
    /\ Chain[a.hit] \subseteq Chain[a.routeHit]
    /\ (Chain[a.routeHit] \ Chain[a.hit]) \cap FullPage = {}

(* Requests that are known keep their promise; a new one gets one.         *)
LEMMA HandoverKept ==
    ASSUME CoreInv, HandoverLosesOnlyTail, [Next]_vars
    PROVE  HandoverLosesOnlyTail'
<1>1. ASSUME NEW a, KeepsFullPages(a),
             served' \cup pending' \cup batch' \subseteq (served \cup pending \cup batch) \cup {a}
      PROVE  HandoverLosesOnlyTail'
  BY <1>1 DEF KeepsFullPages, HandoverLosesOnlyTail
<1>2. ASSUME served' \cup pending' \cup batch' \subseteq served \cup pending \cup batch
      PROVE  HandoverLosesOnlyTail'
  BY <1>2 DEF HandoverLosesOnlyTail
<1>3. CASE Tick \/ Protect \/ BatchDone \/ ArrivalsDone \/ UNCHANGED vars
  BY <1>2, <1>3 DEF Tick, Protect, BatchDone, ArrivalsDone, vars
<1>4. CASE Deliver
  BY <1>2, <1>4 DEF Deliver
<1>5. CASE Resume
  BY <1>2, <1>5 DEF Resume, Finish
<1>6. ASSUME NEW r \in Request, NEW n \in Block, ArriveAtSource(r, n, RoutingPolicy)
      PROVE  HandoverLosesOnlyTail'
  <2> DEFINE a == Assignment(r, n, Source(n), Source(n), RouteHit(n), RouteHit(n), 0)
  <2>1. KeepsFullPages(a)
    BY DEF KeepsFullPages, Assignment
  <2>2. served' = served \cup {a} /\ pending' = pending /\ batch' = batch
    BY <1>6 DEF ArriveAtSource, ServeNow, Finish
  <2> HIDE DEF a
  <2>3. QED
    BY <1>1, <2>1, <2>2
<1>7. ASSUME NEW r \in Request, NEW n \in Block, ArriveDirect(r, n, RoutingPolicy)
      PROVE  HandoverLosesOnlyTail'
  <2> DEFINE a == Assignment(r, n, Target(n), Source(n), RouteHit(n), Lookup(caches[Target(n)], n), 0)
  <2>1. KeepsFullPages(a)
    <3>1. n \in Node /\ Feasible(n) # {} /\ IsDirect(n)
      BY <1>7 DEF ArriveDirect, Node
    <3>2. QED
      BY <3>1, DirectHit DEF KeepsFullPages, Assignment
  <2>2. served' = served \cup {a} /\ pending' = pending /\ batch' = batch
    BY <1>7 DEF ArriveDirect, ServeNow, Finish
  <2> HIDE DEF a
  <2>3. QED
    BY <1>1, <2>1, <2>2
<1>8. ASSUME NEW r \in Request, NEW n \in Block, ArriveCopy(r, n, RoutingPolicy)
      PROVE  HandoverLosesOnlyTail'
  <2> DEFINE chain == Transferable(caches, Source(n), n)
             a == Assignment(r, n, Target(n), Source(n), RouteHit(n), chain, NextTransferId)
  <2>1. KeepsFullPages(a)
    <3>1. Sound(caches[Source(n)]) /\ n \in Node
      BY RouteFacts DEF Node
    <3>2. Chain[chain] \subseteq Chain[RouteHit(n)]
          /\ (Chain[RouteHit(n)] \ Chain[chain]) \cap FullPage = {}
      BY <3>1, TransferableFacts DEF RouteHit
    <3>3. QED
      BY <3>2 DEF KeepsFullPages, Assignment
  <2>2. served' = served /\ pending' = pending \cup {a} /\ batch' = batch
    BY <1>8 DEF ArriveCopy
  <2> HIDE DEF a
  <2>3. QED
    BY <1>1, <2>1, <2>2
<1>9. QED
  BY <1>3, <1>4, <1>5, <1>6, <1>7, <1>8 DEF Next, Stop

-----------------------------------------------------------------------------
(* Theorems *)

(* The state but for the promises: stuttering keeps it.                    *)
LEMMA StutterKeeps == CoreInv /\ UNCHANGED vars => CoreInv'
<1> SUFFICES ASSUME CoreInv, UNCHANGED vars PROVE CoreInv'
  OBVIOUS
<1>1. CoreInv
  OBVIOUS
<1>2. QED
  BY <1>1 DEF vars, CoreInv, TypeOK, Held, LoadInv, ClockInv, WaitInv, Remaining, Arrived

(* Pods, ledger, heap, load window and waiting requests agree at every     *)
(* step of run, under any routing and proactive policy of the module.      *)
THEOREM EngineInvariant == Spec => []EngineInv
<1>1. Init => EngineInv
  BY InitKeeps
<1>2. EngineInv /\ [Next]_vars => EngineInv'
  <2>1. SUFFICES ASSUME EngineInv, [Next]_vars PROVE CoreInv'
    BY HandoverKept DEF EngineInv
  <2>2. CoreInv
    BY <2>1 DEF EngineInv
  <2>3. CASE Tick
    BY <2>2, <2>3, TickKeeps
  <2>4. CASE Deliver
    BY <2>2, <2>4, DeliverStep
  <2>5. CASE Protect
    BY <2>2, <2>5, ProtectStep
  <2>6. CASE Resume
    BY <2>2, <2>6, ResumeStep
  <2>7. CASE BatchDone \/ ArrivalsDone
    BY <2>2, <2>7, MoveOnStep
  <2>8. ASSUME NEW r \in Request, NEW n \in Block, ArriveAtSource(r, n, RoutingPolicy)
        PROVE  CoreInv'
    BY <2>2, <2>8, AtSourceStep
  <2>9. ASSUME NEW r \in Request, NEW n \in Block, ArriveDirect(r, n, RoutingPolicy)
        PROVE  CoreInv'
    BY <2>2, <2>9, DirectStep
  <2>10. ASSUME NEW r \in Request, NEW n \in Block, ArriveCopy(r, n, RoutingPolicy)
         PROVE  CoreInv'
    <3>1. ProactivePolicy = "NONE"
      BY <2>10, PolicyAssumption DEF ArriveCopy, Reassign
    <3>2. QED
      BY <2>2, <2>10, <3>1, CopyStep
  <2>11. CASE UNCHANGED vars
    BY <2>2, <2>11, StutterKeeps
  <2>12. QED
    BY <2>1, <2>3, <2>4, <2>5, <2>6, <2>7, <2>8, <2>9, <2>10, <2>11 DEF Next, Stop
<1>3. QED
  BY <1>1, <1>2, PTL DEF Spec

(* Pins and buffers, between handlers.                                     *)
LEMMA PinsAreOwned == CoreInv => ProtectionAccounted
<1>1. SUFFICES ASSUME CoreInv PROVE ProtectionAccounted
  OBVIOUS
<1>2. PinsOwned(caches, transfers, Held) /\ BuffersOwned(caches, transfers)
  BY <1>1 DEF CoreInv, Ledgered, PodsInv
<1>3. InFlightTransfers = Flying(transfers)
  BY DEF InFlightTransfers, Flying
<1>4. ASSUME NEW p \in Pod, NEW b \in Block PROVE caches[p].pins[b] = PinnedBy(p, b)
  <2>1. Readers(transfers, p, b) =
          {i \in InFlightTransfers : transfers[i].source = p /\ b \in Chain[transfers[i].chain]}
    BY <1>3 DEF Readers
  <2>2. Cardinality(Waiters(Held, p, b)) =
          IF stage = "resume" THEN Cardinality({a \in batch : a.pod = p /\ b \in Chain[a.hit]})
                              ELSE 0
    <3>1. CASE stage = "resume"
      BY <3>1 DEF Waiters, Held
    <3>2. CASE stage # "resume"
      <4>1. Waiters(Held, p, b) = {}
        BY <3>2 DEF Waiters, Held
      <4>2. QED
        BY <3>2, <4>1, FS_EmptySet
    <3>3. QED
      BY <3>1, <3>2
  <2>3. QED
    BY <1>2, <2>1, <2>2 DEF PinsOwned, PinnedBy
<1>5. QED
  BY <1>2, <1>3, <1>4 DEF ProtectionAccounted, BuffersOwned

(* Every pin and every buffer of every pod has an owner in the ledger or   *)
(* in the resumed batch, and goes with it (the pin and release calls of    *)
(* transfer.py and of _finish, engine.py).                                 *)
THEOREM ProtectionIsAccounted == Spec => []ProtectionAccounted
<1>1. EngineInv => ProtectionAccounted
  BY PinsAreOwned DEF EngineInv
<1>2. QED
  BY <1>1, EngineInvariant, PTL

(* What waits for a transfer, and the events to come.                      *)
LEMMA HitsAreThere == CoreInv => CommittedHitsKept
<1>1. SUFFICES ASSUME CoreInv PROVE CommittedHitsKept
  OBVIOUS
<1>2. /\ ready = Events(transfers) /\ ClockInv /\ WaitInv
      /\ \A i \in Flying(transfers) : Published(caches[transfers[i].source], transfers[i].chain)
  BY <1>1 DEF CoreInv, Ledgered, PodsInv
<1>3. InFlightTransfers = Flying(transfers)
  BY DEF InFlightTransfers, Flying
<1>4. {e.transfer : e \in ready} = InFlightTransfers
  <2>1. \A i \in Flying(transfers) : EventOf(transfers, i).transfer = i
    BY DEF EventOf
  <2>2. QED
    BY <1>2, <1>3, <2>1 DEF Events
<1>5. \A e \in ready : e.time = transfers[e.transfer].ready
  BY <1>2 DEF Events, EventOf
<1>6. OnTime
  BY <1>2, <1>4, <1>5 DEF OnTime, ClockInv
<1>7. QED
  BY <1>2, <1>3, <1>6 DEF CommittedHitsKept, WaitInv

(* What a request was promised is there when it is finished, and every     *)
(* event has its time and its turn: the "committed request Prefix is no    *)
(* longer available" of _finish never happens.                             *)
THEOREM CommittedHitsAreKept == Spec => []CommittedHitsKept
<1>1. EngineInv => CommittedHitsKept
  BY HitsAreThere DEF EngineInv
<1>2. QED
  BY <1>1, EngineInvariant, PTL

(* The running sums that routing compares are the tokens committed in the  *)
(* window (CommittedTokenLoad, load.py).                                   *)
THEOREM LoadIsTheWindow == Spec => []LoadIsWindow
<1>1. EngineInv => LoadIsWindow
  BY DEF EngineInv, CoreInv, LoadInv, WindowInv, LoadIsWindow, WindowTokens
<1>2. QED
  BY <1>1, EngineInvariant, PTL

(* Handing a request over costs it no full page of the prefix it was       *)
(* routed for (_reactive_assignment).                                      *)
THEOREM HandoverKeepsFullPages == Spec => []HandoverLosesOnlyTail
<1>1. EngineInv => HandoverLosesOnlyTail
  BY DEF EngineInv
<1>2. QED
  BY <1>1, EngineInvariant, PTL

(* No chain is on its way to a pod twice (inflight_cover_index).           *)
THEOREM NoChainIsCoveredTwice == Spec => []NoDoubleCoverage
<1>1. EngineInv => NoDoubleCoverage
  BY DEF EngineInv, CoreInv, Ledgered, NoDouble, NoDoubleCoverage, InFlightTransfers, Flying
<1>2. QED
  BY <1>1, EngineInvariant, PTL

-----------------------------------------------------------------------------
(***************************************************************************)
(* The routes of the capacity study                                        *)
(***************************************************************************)

-----------------------------------------------------------------------------
(* Corrected entries *)

(* A request has one entry.                                                *)
OneEntry(ld) == \A e, f \in ld.entries : e.request = f.request => e = f

(* reconcile_hit keeps the window: the queue holds the corrected entry in  *)
(* the place of the old one, and the sum follows exactly if it does.       *)
LEMMA ReconcileFacts ==
    ASSUME NEW ld \in LoadType, WindowInv(ld), OneEntry(ld),
           NEW r \in Committed(ld), NEW miss \in Nat
    PROVE  LET new == ReconcileHit(ld, r, miss)
           IN  /\ new \in LoadType /\ WindowInv(new) /\ OneEntry(new)
               /\ new.last = ld.last
               /\ new.entries = {Corrected(e, r, miss) : e \in ld.entries}
<1> DEFINE old == CHOOSE e \in ld.entries : e.request = r
           C(e) == Corrected(e, r, miss)
           E == {C(e) : e \in ld.entries}
           p == old.pod
           h == ld.histories[p]
           g == [i \in DOMAIN h |-> C(h[i])]
           queued == \E i \in DOMAIN h : h[i].request = r
           total == IF queued THEN ld.totals[p] + (miss - old.miss) ELSE ld.totals[p]
           new == ReconcileHit(ld, r, miss)
           H == [ld.histories EXCEPT ![p] = g]
           N == [ld.totals EXCEPT ![p] = total]
<1>1. old \in ld.entries /\ old.request = r
  BY DEF Committed
<1>2. /\ ld.entries \subseteq EntryType /\ ld.histories \in [Pod -> Seq(EntryType)]
      /\ ld.totals \in [Pod -> Nat] /\ ld.last \in Nat
      /\ IsFiniteSet(ld.entries) /\ \A e \in ld.entries : e.time <= ld.last
  BY DEF LoadType, WindowInv
<1>3. ld = [entries |-> ld.entries, histories |-> ld.histories, totals |-> ld.totals,
            last |-> ld.last]
  BY DEF LoadType
<1>4. \A e \in EntryType : /\ C(e) \in EntryType /\ C(e).request = e.request
                           /\ C(e).pod = e.pod /\ C(e).time = e.time
                           /\ e.request # r => C(e) = e
                           /\ e.request = r => C(e).miss = miss
  BY DEF Corrected, EntryType
<1>5. old \in EntryType /\ p \in Pod /\ old.miss \in Nat
  BY <1>1, <1>2 DEF EntryType
<1>6. new = [entries |-> E, histories |-> H, totals |-> N, last |-> ld.last]
  <2>1. new = [ld EXCEPT !.entries = E, !.histories = H, !.totals = N]
    BY <1>2, <1>5 DEF ReconcileHit
  <2> HIDE DEF E, H, N, new
  <2>2. QED
    BY <1>3, <2>1
<1>7. \A e \in ld.entries : e # old => e.request # r
  BY <1>1 DEF OneEntry
<1> HIDE DEF C, old, new
<1> DEFINE fixed == C(old)
<1>8. fixed \in EntryType /\ fixed.request = r /\ fixed.pod = p /\ fixed.time = old.time
      /\ fixed.miss = miss
  BY <1>1, <1>4, <1>5
<1>9. E = (ld.entries \ {old}) \cup {fixed}
  BY <1>1, <1>2, <1>4, <1>7
<1>10. IsFiniteSet(E) /\ E \subseteq EntryType
  <2>1. IsFiniteSet(ld.entries \ {old})
    BY <1>2, FS_Subset
  <2> HIDE DEF E, fixed
  <2>2. QED
    BY <1>2, <1>8, <1>9, <2>1, FS_AddElement
<1>11. \A x, y \in E : x.request = y.request => x = y
  <2>1. TAKE x, y \in E
  <2>2. PICK e \in ld.entries, f \in ld.entries : x = C(e) /\ y = C(f)
    OBVIOUS
  <2>3. x.request = e.request /\ y.request = f.request
    BY <1>2, <1>4, <2>2
  <2>4. QED
    BY <2>2, <2>3 DEF OneEntry
<1>12. \A x \in E : x.time <= ld.last
  BY <1>2, <1>4
<1>13. /\ h \in Seq(EntryType) /\ InOrder(h) /\ ld.totals[p] = MissTokens(Range(h))
       /\ Range(h) = {e \in ld.entries : e.pod = p /\ ld.last < e.time + LoadWindow}
  BY <1>2, <1>5 DEF WindowInv
<1> HIDE DEF h, p
<1>14. \A i \in DOMAIN h : h[i] \in Range(h) /\ h[i] \in ld.entries /\ h[i] \in EntryType
  BY <1>2, <1>13 DEF Range
<1>15. /\ g \in Seq(EntryType) /\ DOMAIN g = DOMAIN h
       /\ \A i \in DOMAIN h : g[i] = C(h[i])
  <2>1. DOMAIN h = 1 .. Len(h) /\ Len(h) \in Nat
    BY <1>13
  <2>2. \A i \in 1 .. Len(h) : C(h[i]) \in EntryType
    BY <1>4, <1>14, <2>1
  <2>3. QED
    BY <2>1, <2>2
<1> HIDE DEF g
<1>16. Range(g) = {C(e) : e \in Range(h)}
  <2>1. Range(g) = {g[i] : i \in DOMAIN g} /\ Range(h) = {h[i] : i \in DOMAIN h}
    BY DEF Range
  <2>2. QED
    BY <1>15, <2>1
<1>17. Range(g) = {x \in E : x.pod = p /\ ld.last < x.time + LoadWindow}
  <2>1. \A e \in ld.entries : C(e).pod = e.pod /\ C(e).time = e.time
    BY <1>2, <1>4
  <2>2. QED
    BY <1>13, <1>16, <2>1
<1>18. InOrder(g)
  <2>1. SUFFICES ASSUME NEW i \in DOMAIN g, NEW j \in DOMAIN g, i < j
                 PROVE  g[i] # g[j] /\ g[i].time <= g[j].time
    BY DEF InOrder
  <2>2. i \in DOMAIN h /\ j \in DOMAIN h /\ g[i] = C(h[i]) /\ g[j] = C(h[j])
    BY <1>15
  <2>3. h[i] # h[j] /\ h[i].time <= h[j].time
    BY <1>13, <2>1, <2>2 DEF InOrder
  <2>4. h[i] \in ld.entries /\ h[j] \in ld.entries /\ h[i] \in EntryType /\ h[j] \in EntryType
    BY <1>14, <2>2
  <2>5. h[i].request # h[j].request
    BY <2>3, <2>4 DEF OneEntry
  <2>6. QED
    BY <1>4, <2>2, <2>3, <2>4, <2>5
<1>19. total = MissTokens(Range(g)) /\ total \in Nat
  <2>1. Range(h) \subseteq EntryType /\ IsFiniteSet(Range(h))
    BY <1>2, <1>13, FS_Subset
  <2>2. MissTokens(Range(h)) \in Nat
    BY <2>1, MissFacts
  <2>3. CASE queued
    <3> DEFINE A == Range(h) \ {old}
    <3>1. old \in Range(h)
      BY <1>7, <1>14, <2>3
    <3>2. A \in SUBSET EntryType /\ IsFiniteSet(A) /\ old \in EntryType \ A
          /\ fixed \in EntryType \ A /\ Range(h) = A \cup {old}
      BY <1>5, <1>7, <1>8, <1>13, <2>1, <3>1, FS_Subset
    <3>3. Range(g) = A \cup {fixed}
      <4>1. \A e \in A : C(e) = e
        BY <1>2, <1>4, <1>7, <1>13
      <4>2. QED
        BY <1>16, <3>1, <4>1
    <3> HIDE DEF A, fixed
    <3>4. /\ MissTokens(A \cup {old}) = MissTokens(A) + old.miss
          /\ MissTokens(A \cup {fixed}) = MissTokens(A) + fixed.miss
          /\ MissTokens(A) \in Nat
      BY <3>2, MissFacts
    <3>5. ld.totals[p] = MissTokens(A) + old.miss /\ MissTokens(Range(g)) = MissTokens(A) + miss
      BY <1>8, <1>13, <3>2, <3>3, <3>4
    <3>6. total = ld.totals[p] + (miss - old.miss)
      BY <2>3
    <3> HIDE DEF total
    <3>7. QED
      BY <1>5, <3>4, <3>5, <3>6
  <2>4. CASE ~queued
    <3>1. Range(g) = Range(h)
      BY <1>4, <1>14, <1>16, <2>1, <2>4 DEF Range
    <3>2. QED
      BY <1>13, <2>2, <2>4, <3>1
  <2>5. QED
    BY <2>3, <2>4
<1> HIDE DEF total
<1>20. /\ H \in [Pod -> Seq(EntryType)] /\ H[p] = g
       /\ \A q \in Pod \ {p} : H[q] = ld.histories[q]
  BY <1>2, <1>5, <1>15
<1>21. /\ N \in [Pod -> Nat] /\ N[p] = total
       /\ \A q \in Pod \ {p} : N[q] = ld.totals[q]
  BY <1>2, <1>5, <1>19
<1> HIDE DEF H, N
<1>22. ASSUME NEW q \in Pod
       PROVE  /\ Range(H[q]) = {x \in E : x.pod = q /\ ld.last < x.time + LoadWindow}
              /\ InOrder(H[q]) /\ N[q] = MissTokens(Range(H[q]))
  <2>1. CASE q = p
    BY <1>17, <1>18, <1>19, <1>20, <1>21, <2>1
  <2>2. CASE q # p
    <3>1. /\ Range(ld.histories[q]) = {e \in ld.entries : e.pod = q /\ ld.last < e.time + LoadWindow}
          /\ InOrder(ld.histories[q]) /\ ld.totals[q] = MissTokens(Range(ld.histories[q]))
      BY DEF WindowInv
    <3>2. {e \in ld.entries : e.pod = q /\ ld.last < e.time + LoadWindow}
            = {x \in E : x.pod = q /\ ld.last < x.time + LoadWindow}
      <4>1. old.pod = p
        BY DEF p
      <4> HIDE DEF E, fixed
      <4>2. QED
        BY <1>8, <1>9, <2>2, <4>1
    <3>3. QED
      BY <1>20, <1>21, <2>2, <3>1, <3>2
  <2>3. QED
    BY <2>1, <2>2
<1>23. /\ new.entries = E /\ new.histories = H /\ new.totals = N /\ new.last = ld.last
  BY <1>6
<1> HIDE DEF E
<1>24. new \in LoadType
  BY <1>2, <1>6, <1>10, <1>20, <1>21 DEF LoadType
<1>25. WindowInv(new)
  BY <1>10, <1>12, <1>22, <1>23 DEF WindowInv
<1>26. OneEntry(new)
  BY <1>11, <1>23 DEF OneEntry
<1>27. QED
  BY <1>23, <1>24, <1>25, <1>26 DEF new, E, C

(* While the queue is the window, what a pure query sums is the entries of *)
(* the window as they stand corrected.                                     *)
LEMMA RequestObserved ==
    ASSUME NEW ld \in LoadType, WindowInv(ld), NEW t \in Nat, ld.last <= t, NEW p \in Pod
    PROVE  ObservedVector(ld, t)[p] =
               MissTokens({e \in ld.entries : e.pod = p /\ t < e.time + LoadWindow})
<1> DEFINE W == {e \in Range(ld.histories[p]) : t < e.time + LoadWindow /\ e.time <= t}
<1>1. /\ Range(ld.histories[p]) = {e \in ld.entries : e.pod = p /\ ld.last < e.time + LoadWindow}
      /\ \A e \in ld.entries : e.time <= ld.last /\ e.time \in Nat
      /\ ld.last \in Nat /\ LoadWindow \in Nat
  BY LoadWindowAssumption DEF WindowInv, LoadType, EntryType
<1>2. W = {e \in ld.entries : e.pod = p /\ t < e.time + LoadWindow}
  BY <1>1
<1>3. ObservedVector(ld, t)[p] = MissTokens(W)
  BY DEF ObservedVector
<1>4. QED
  BY <1>2, <1>3

-----------------------------------------------------------------------------
(* Corrected pins *)

(* _finish of a resumed request, whose pins have moved from the promised   *)
(* hit to the longer one it finds: its own pins are given back, and what   *)
(* others have pinned stays.                                               *)
LEMMA RepinFacts ==
    ASSUME NEW c, Sound(c), NEW n \in Node, NEW promised \in Node, NEW actual \in Node,
           Chain[promised] \subseteq Chain[actual], \A b \in Chain[promised] : c.pins[b] > 0
    PROVE  LET e == FinishOn(Repinned(c, promised, actual), n, actual, TRUE)
           IN  /\ Sound(e) /\ e.temporary = c.temporary
               /\ \A b \in Block : e.pins[b] =
                     IF b \in Chain[promised] THEN c.pins[b] - 1 ELSE c.pins[b]
               /\ KeepsPinned(c, e)
<1> DEFINE r == Repinned(c, promised, actual)
           protected == TRUE
           e == FinishOn(r, n, actual, protected)
<1>1. c.pins \in [Block -> Nat] /\ c.pages \subseteq Block /\ Chain[actual] \subseteq Block
  BY ChainFacts DEF Sound, Cache
<1>2. /\ Sound(r) /\ r.pages = c.pages /\ r.temporary = c.temporary
      /\ \A b \in Block : r.pins[b] =
            IF b \in Chain[actual] /\ b \notin Chain[promised] THEN c.pins[b] + 1 ELSE c.pins[b]
  <2>1. CASE promised = actual
    BY <2>1 DEF Repinned
  <2>2. CASE promised # actual
    <3> DEFINE d == Pin(c, actual)
    <3>1. /\ Sound(d) /\ d.pages = c.pages /\ d.temporary = c.temporary
          /\ \A b \in Block : d.pins[b] = IF b \in Chain[actual] THEN c.pins[b] + 1 ELSE c.pins[b]
      BY PinFacts
    <3>2. r = Unpin(d, promised)
      BY <2>2 DEF Repinned
    <3> HIDE DEF d, r
    <3>3. \A b \in Chain[promised] : d.pins[b] > 0
      BY <1>1, <3>1
    <3>4. /\ Sound(r) /\ r.pages = d.pages /\ r.temporary = d.temporary
          /\ \A b \in Block : r.pins[b] = IF b \in Chain[promised] THEN d.pins[b] - 1 ELSE d.pins[b]
      BY <3>1, <3>2, <3>3, UnpinFacts
    <3>5. \A b \in Block : r.pins[b] =
            IF b \in Chain[actual] /\ b \notin Chain[promised] THEN c.pins[b] + 1 ELSE c.pins[b]
      BY <1>1, <3>1, <3>4
    <3>6. QED
      BY <3>1, <3>4, <3>5
  <2>3. QED
    BY <2>1, <2>2
<1>3. protected \in BOOLEAN /\ protected
  OBVIOUS
<1>4. e = FinishOn(Repinned(c, promised, actual), n, actual, TRUE)
  OBVIOUS
<1> HIDE DEF r, protected
<1>5. \A b \in Chain[actual] : r.pins[b] > 0
  BY <1>1, <1>2
<1>6. /\ Sound(e) /\ e.temporary = r.temporary
      /\ \A b \in Block : e.pins[b] = IF b \in Chain[actual] THEN r.pins[b] - 1 ELSE r.pins[b]
      /\ KeepsPinned(r, e)
  <2>1. /\ Sound(r) /\ n \in Node /\ actual \in Node /\ protected \in BOOLEAN
        /\ (protected => \A b \in Chain[actual] : r.pins[b] > 0)
    BY <1>2, <1>3, <1>5
  <2>2. /\ Sound(e) /\ e.temporary = r.temporary
        /\ \A b \in Block : e.pins[b] =
              IF protected /\ b \in Chain[actual] THEN r.pins[b] - 1 ELSE r.pins[b]
        /\ KeepsPinned(r, e)
    BY <2>1, FinishFacts
  <2>3. QED
    BY <1>3, <2>2
<1> HIDE DEF e
<1>7. \A b \in Block : e.pins[b] = IF b \in Chain[promised] THEN c.pins[b] - 1 ELSE c.pins[b]
  BY <1>1, <1>2, <1>6
<1>8. KeepsPinned(c, e)
  <2>1. SUFFICES ASSUME NEW b \in c.pages, c.pins[b] > 0 PROVE b \in e.pages
    BY DEF KeepsPinned
  <2>2. b \in r.pages /\ r.pins[b] > 0
    BY <1>1, <1>2, <2>1
  <2>3. QED
    BY <1>6, <2>2 DEF KeepsPinned
<1>9. QED
  BY <1>2, <1>4, <1>6, <1>7, <1>8

-----------------------------------------------------------------------------
(* The inductive invariant *)

(* The assignments of the requests that have arrived.                      *)
Tracked == served \cup pending \cup batch

(* A request is in one place, under one assignment.                        *)
Unique ==
    /\ \A x, y \in Tracked : x.request = y.request => x = y
    /\ served \cap pending = {} /\ served \cap batch = {} /\ pending \cap batch = {}

(* The load window was charged what the assignment leaves to compute.      *)
Charged(x) ==
    \E e \in load.entries : e.request = x.request /\ e.pod = x.pod /\ e.miss = MissOf(x.path, x.hit)

OnPath(x) == Chain[x.hit] \subseteq Chain[x.path]

(* SavedLoadConsistent speaks of the served; it is kept because what still *)
(* waits is charged too, each request once.                                *)
StudyInv ==
    /\ PureQueries /\ ProactivePolicy = "NONE"
    /\ CoreInv
    /\ OneEntry(load)
    /\ Unique
    /\ \A x \in Tracked : Charged(x) /\ OnPath(x)
    /\ SwitchHonoured

(* Nothing has arrived.                                                    *)
LEMMA SwitchInitKeeps == SwitchInit => StudyInv
<1> SUFFICES ASSUME SwitchInit PROVE StudyInv
  OBVIOUS
<1>1. CoreInv
  BY InitKeeps DEF SwitchInit, EngineInv
<1>2. load.entries = {} /\ served = {} /\ pending = {} /\ batch = {}
  BY DEF SwitchInit, Init, IdleLoad
<1>3. QED
  BY <1>1, <1>2 DEF SwitchInit, StudyInv, OneEntry, Unique, Tracked, SwitchHonoured

(* A step that neither charges nor finishes a request.                     *)
LEMMA CarriedOver ==
    ASSUME StudyInv, CoreInv', load' = load, schedule' = schedule, served' = served,
           NEW moved \in SUBSET pending,
           pending' = pending \ moved, batch' = batch \cup moved
    PROVE  StudyInv'
<1>1. Tracked' = Tracked
  BY DEF Tracked
<1>2. Unique'
  BY <1>1 DEF StudyInv, Unique
<1>3. \A x \in Tracked' : Charged(x)' /\ OnPath(x)
  BY <1>1 DEF StudyInv, Charged
<1>4. SwitchHonoured'
  BY <1>1 DEF StudyInv, SwitchHonoured, Tracked
<1>5. QED
  BY <1>2, <1>3, <1>4 DEF StudyInv, OneEntry, OnPath

(* The steps that only move on in the loop, and delivery.                  *)
LEMMA QuietSteps ==
    ASSUME StudyInv, schedule' = schedule,
           Tick \/ Deliver \/ Protect \/ BatchDone \/ ArrivalsDone \/ UNCHANGED vars
    PROVE  StudyInv'
<1>1. CoreInv
  BY DEF StudyInv
<1>2. CASE Tick \/ Protect \/ BatchDone \/ ArrivalsDone \/ UNCHANGED vars
  <2> DEFINE moved == {}
  <2>1. CoreInv'
    BY <1>1, <1>2, TickKeeps, ProtectStep, MoveOnStep, StutterKeeps
  <2>2. load' = load /\ served' = served /\ pending' = pending /\ batch' = batch
    BY <1>2 DEF Tick, Protect, BatchDone, ArrivalsDone, vars
  <2>3. moved \in SUBSET pending /\ pending' = pending \ moved /\ batch' = batch \cup moved
    BY <2>2
  <2> HIDE DEF moved
  <2>4. QED
    BY <2>1, <2>2, <2>3, CarriedOver
<1>3. CASE Deliver
  <2>1. CoreInv'
    BY <1>1, <1>3, DeliverStep
  <2>2. PICK moved \in SUBSET pending : pending' = pending \ moved /\ batch' = batch \cup moved
    <3>1. PICK e \in ReadyNow :
             LET waiting == {a \in pending : a.transfer = e.transfer}
             IN  pending' = pending \ waiting /\ batch' = batch \cup waiting
      BY <1>3 DEF Deliver
    <3> DEFINE waiting == {a \in pending : a.transfer = e.transfer}
    <3>2. waiting \in SUBSET pending /\ pending' = pending \ waiting /\ batch' = batch \cup waiting
      BY <3>1
    <3> HIDE DEF waiting
    <3>3. QED
      BY <3>2
  <2>3. load' = load /\ served' = served
    BY <1>3 DEF Deliver
  <2>4. QED
    BY <2>1, <2>2, <2>3, CarriedOver
<1>4. QED
  BY <1>2, <1>3

-----------------------------------------------------------------------------
(* Finishing a request that waited *)

(* _finish with the hit it finds: the assignment, its pins and its charge  *)
(* are corrected together.                                                 *)
LEMMA ResumeActualStep ==
    ASSUME StudyInv, ResumeActual, schedule' = schedule
    PROVE  StudyInv'
<1>1. /\ TypeOK /\ Ledgered(caches, transfers, ready, Held) /\ Len(transfers) <= Cardinality(Arrived)
      /\ LoadInv /\ ClockInv /\ WaitInv /\ OneEntry(load) /\ Unique /\ SwitchHonoured
      /\ \A x \in Tracked : Charged(x) /\ OnPath(x)
  BY DEF StudyInv, CoreInv
<1>2. /\ stage = "resume" /\ stage' = stage /\ now' = now /\ due' = due /\ pending' = pending
      /\ seen' = seen /\ demand' = demand
  BY DEF ResumeActual
<1>3. ProactivePolicy = "NONE" /\ PureQueries
  BY DEF StudyInv
<1>4. PICK a \in batch :
         /\ caches' = PodsResumed(a) /\ transfers' = transfers /\ ready' = ready
         /\ load' = ReconciledLoad(a, FoundHit(a))
         /\ served' = served \cup {[a EXCEPT !.hit = FoundHit(a)]}
         /\ batch' = batch \ {a}
  BY <1>3 DEF ResumeActual, Opportunity, Query
<1> DEFINE found == FoundHit(a)
           b == [a EXCEPT !.hit = found]
           r == a.request
           miss == MissOf(a.path, found)
<1>5. /\ a \in AssignmentRecord /\ a \in Tracked /\ r \in Request /\ a.pod \in Pod
      /\ a.path \in Block /\ a.path \in Node /\ a.hit \in Node
      /\ batch \in SUBSET AssignmentRecord /\ IsFiniteSet(batch)
      /\ now \in Nat /\ load \in LoadType /\ WindowInv(load) /\ load.last <= now
  BY <1>1 DEF TypeOK, WaitInv, LoadInv, AssignmentRecord, Tracked, Node
<1>6. /\ transfers \in Seq(TransferType) /\ ready = Events(transfers)
      /\ NoDouble(transfers) /\ PodsInv(caches, transfers, batch)
  BY <1>1, <1>2 DEF Ledgered, Held
<1>7. Sound(caches[a.pod]) /\ caches \in [Pod -> Cache]
  BY <1>5, <1>6 DEF PodsInv
<1>8. found \in Node /\ Chain[found] = Chain[a.path] \cap caches[a.pod].pages
  BY <1>5, <1>7, HitFacts DEF FoundHit
<1>9. Chain[a.hit] \subseteq Chain[found]
  BY <1>1, <1>5, <1>8 DEF OnPath, WaitInv, Published
<1>10. /\ b \in AssignmentRecord /\ b.request = r /\ b.pod = a.pod /\ b.path = a.path
       /\ b.source = a.source /\ b.hit = found
  BY <1>5, <1>8 DEF AssignmentRecord
<1> HIDE DEF found
<1>11. PodsInv(caches', transfers, batch \ {a})
  <2> DEFINE c == caches[a.pod]
             e == FinishOn(Repinned(c, a.hit, found), a.path, found, TRUE)
             protected == TRUE
             held == batch
  <2>1. \A x \in Chain[a.hit] : c.pins[x] > 0
    BY <1>5, <1>6, PinnedFacts
  <2>2. /\ Sound(e) /\ e.temporary = c.temporary
        /\ \A x \in Block : e.pins[x] = IF x \in Chain[a.hit] THEN c.pins[x] - 1 ELSE c.pins[x]
        /\ KeepsPinned(c, e)
    <3> HIDE DEF c
    <3>1. QED
      BY <1>5, <1>7, <1>8, <1>9, <2>1, RepinFacts DEF c
  <2>3. caches' = [caches EXCEPT ![a.pod] = e]
    BY <1>4, <1>5, <1>7 DEF PodsResumed, found
  <2>4. /\ held \in SUBSET AssignmentRecord /\ IsFiniteSet(held)
        /\ PodsInv(caches, transfers, held) /\ protected \in BOOLEAN /\ protected
        /\ a \in held /\ a \in AssignmentRecord /\ held = batch
    BY <1>5, <1>6
  <2> HIDE DEF e, protected, held
  <2>5. PodsInv([caches EXCEPT ![a.pod] = e], transfers, IF protected THEN held \ {a} ELSE held)
    BY <1>6, <2>2, <2>4, SettleKeeps
  <2>6. QED
    BY <2>3, <2>4, <2>5
<1>12. PICK e \in load.entries : e.request = r /\ e.pod = a.pod /\ e.miss = MissOf(a.path, a.hit)
  BY <1>1, <1>5 DEF Charged
<1>13. miss \in Nat
  BY <1>5, MissOfType
<1>14. /\ load' \in LoadType /\ WindowInv(load') /\ OneEntry(load')
       /\ load'.last = load.last
       /\ load'.entries = {Corrected(x, r, miss) : x \in load.entries}
  <2>1. CASE a.hit = found
    <3>1. load' = load
      BY <1>4, <2>1 DEF ReconciledLoad, found
    <3>2. \A x \in load.entries : Corrected(x, r, miss) = x
      <4>1. TAKE x \in load.entries
      <4>2. x \in EntryType
        BY <1>5 DEF LoadType
      <4>3. x.request = r => x.miss = miss
        BY <1>1, <1>12, <2>1 DEF OneEntry
      <4>4. QED
        BY <4>2, <4>3 DEF Corrected, EntryType
    <3>3. {Corrected(x, r, miss) : x \in load.entries} = load.entries
      BY <3>2
    <3>4. QED
      BY <1>1, <1>5, <3>1, <3>3
  <2>2. CASE a.hit # found
    <3>1. load' = ReconcileHit(load, r, miss)
      BY <1>4, <2>2 DEF ReconciledLoad, found
    <3>2. r \in Committed(load)
      BY <1>12 DEF Committed
    <3> HIDE DEF r, miss
    <3>3. QED
      BY <1>1, <1>5, <1>13, <3>1, <3>2, ReconcileFacts
  <2>3. QED
    BY <2>1, <2>2
<1>15. \A x \in load.entries : /\ Corrected(x, r, miss).request = x.request
                               /\ Corrected(x, r, miss).pod = x.pod
                               /\ Corrected(x, r, miss).time = x.time
                               /\ x.request # r => Corrected(x, r, miss) = x
                               /\ x.request = r => Corrected(x, r, miss).miss = miss
  BY <1>5 DEF Corrected, LoadType, EntryType
<1>16. Committed(load') = Committed(load)
  BY <1>14, <1>15 DEF Committed
<1> DEFINE Fix(x) == Corrected(x, r, miss)
<1>17. load'.entries = {Fix(x) : x \in load.entries}
  BY <1>14
<1>18. Tracked' = (Tracked \ {a}) \cup {b} /\ served' = served \cup {b}
  BY <1>1, <1>2, <1>4 DEF Tracked, Unique, found
<1>19. \A x \in Tracked : x # a => x.request # r
  BY <1>1, <1>5 DEF Unique
<1>20. CoreInv'
  <2>1. TypeOK'
    BY <1>1, <1>2, <1>4, <1>5, <1>10, <1>14, <1>18 DEF TypeOK
  <2>2. Ledgered(caches, transfers, ready, Held)'
    <3>1. Held' = batch \ {a}
      BY <1>2, <1>4 DEF Held
    <3>2. QED
      BY <1>4, <1>6, <1>11, <3>1 DEF Ledgered
  <2>3. (Len(transfers) <= Cardinality(Arrived))'
    BY <1>1, <1>4, <1>16 DEF Arrived
  <2>4. LoadInv'
    BY <1>2, <1>5, <1>14 DEF LoadInv
  <2>5. ClockInv'
    BY <1>1, <1>2, <1>4, <1>16 DEF ClockInv, Remaining, Arrived
  <2>6. WaitInv'
    <3>1. IsFiniteSet(batch')
      BY <1>4, <1>5, FS_Subset
    <3>2. \A x \in batch' : Published(caches'[x.pod], x.hit)
      BY <1>4, <1>11 DEF PodsInv
    <3>3. QED
      BY <1>1, <1>2, <1>3, <1>4, <3>1, <3>2 DEF WaitInv
  <2>7. QED
    BY <2>1, <2>2, <2>3, <2>4, <2>5, <2>6 DEF CoreInv
<1> HIDE DEF b, r, miss, Fix
<1>21. Unique'
  <2>1. \A x \in Tracked' : x = b \/ (x \in Tracked /\ x # a /\ x.request # r)
    BY <1>18, <1>19
  <2>2. \A x, y \in Tracked' : x.request = y.request => x = y
    BY <1>1, <1>10, <2>1 DEF Unique
  <2>3. b \notin pending /\ b \notin batch \ {a}
    BY <1>10, <1>19, <1>1 DEF Tracked, Unique
  <2>4. QED
    BY <1>1, <1>2, <1>4, <1>18, <2>2, <2>3 DEF Unique
<1>22. \A x \in Tracked' : Charged(x)' /\ OnPath(x)'
  <2>1. TAKE x \in Tracked'
  <2>2. CASE x = b
    <3>1. Fix(e) \in load'.entries /\ Fix(e).request = r /\ Fix(e).pod = a.pod /\ Fix(e).miss = miss
      BY <1>12, <1>15, <1>17 DEF Fix
    <3>2. OnPath(b)
      BY <1>8, <1>10 DEF OnPath
    <3>3. QED
      BY <1>10, <2>2, <3>1, <3>2 DEF Charged, OnPath, miss
  <2>3. CASE x # b
    <3>1. x \in Tracked /\ x.request # r
      BY <1>18, <1>19, <2>3
    <3>2. PICK f \in load.entries :
             f.request = x.request /\ f.pod = x.pod /\ f.miss = MissOf(x.path, x.hit)
      BY <1>1, <3>1 DEF Charged
    <3>3. f \in load'.entries
      BY <1>15, <1>17, <3>1, <3>2 DEF Fix
    <3>4. QED
      BY <1>1, <3>1, <3>2, <3>3 DEF Charged, OnPath
  <2>4. QED
    BY <2>2, <2>3
<1>23. SwitchHonoured'
  <2>1. SUFFICES ASSUME NEW x \in Tracked', schedule \in {"C", "D"}, x.pod # x.source,
                        NEW g \in load'.entries, g.request = x.request
                 PROVE  IF schedule = "C" THEN g.time < SwitchAt ELSE g.time >= SwitchAt
    BY DEF SwitchHonoured, Tracked
  <2>2. PICK f \in load.entries : g = Fix(f)
    BY <1>17
  <2>3. g.request = f.request /\ g.time = f.time
    BY <1>15, <2>2 DEF Fix
  <2>4. PICK y \in Tracked : y.request = x.request /\ y.pod = x.pod /\ y.source = x.source
    BY <1>5, <1>10, <1>18 DEF r
  <2>5. QED
    BY <1>1, <2>1, <2>3, <2>4 DEF SwitchHonoured, Tracked
<1>24. QED
  BY <1>14, <1>20, <1>21, <1>22, <1>23 DEF StudyInv

-----------------------------------------------------------------------------
(* Arrivals *)

(* commit adds one entry and nothing else to the history of entries.       *)
LEMMA EntryAdded ==
    ASSUME StudyInv, NEW r, NEW p, NEW miss
    PROVE  CommitLoad(load, r, p, miss, now).entries =
               load.entries \cup {[request |-> r, pod |-> p, time |-> now, miss |-> miss]}
<1>1. load \in LoadType
  BY DEF StudyInv, CoreInv, TypeOK
<1>2. load = [entries |-> load.entries, histories |-> load.histories, totals |-> load.totals,
              last |-> load.last]
  BY <1>1 DEF LoadType
<1>3. QED
  BY <1>2 DEF CommitLoad, Vector

(* A hit is a prefix of the path.                                          *)
LEMMA HitOnPath ==
    ASSUME NEW c, Sound(c), NEW n \in Node
    PROVE  Lookup(c, n) \in Node /\ Chain[Lookup(c, n)] \subseteq Chain[n]
<1>1. Lookup(c, n) \in Node /\ Chain[Lookup(c, n)] = HitPages(c, n)
  BY HitFacts
<1>2. HitPages(c, n) = Chain[n] \cap c.pages
  BY HitFacts
<1>3. QED
  BY <1>1, <1>2

(* Which route the schedule takes decides whether a request may leave.     *)
LEMMA RouteTaken ==
    ASSUME NEW t, RouteAt(t) = "R_REQ_KV_TASK"
    PROVE  /\ schedule = "C" => ~(t >= SwitchAt)
           /\ schedule = "D" => t >= SwitchAt
<1>1. CASE schedule = "C"
  BY <1>1 DEF RouteAt
<1>2. CASE schedule = "D"
  BY <1>2 DEF RouteAt
<1>3. QED
  BY <1>1, <1>2

(* A request that arrives joins the others under an assignment of its own, *)
(* charged with what its hit leaves to compute.                            *)
LEMMA JoinKeeps ==
    ASSUME StudyInv, CoreInv', schedule' = schedule, NEW r, NEW n, Arrives(r, n),
           NEW a \in AssignmentRecord, a.request = r, a.path = n,
           Chain[a.hit] \subseteq Chain[n],
           load'.entries = load.entries \cup
               {[request |-> r, pod |-> a.pod, time |-> now, miss |-> MissOf(n, a.hit)]},
           a.pod = a.source \/ RouteAt(now) = "R_REQ_KV_TASK",
           batch' = batch,
           \/ served' = served \cup {a} /\ pending' = pending
           \/ served' = served /\ pending' = pending \cup {a}
    PROVE  StudyInv'
<1> DEFINE entry == [request |-> r, pod |-> a.pod, time |-> now, miss |-> MissOf(n, a.hit)]
<1>1. /\ CoreInv /\ OneEntry(load) /\ Unique /\ SwitchHonoured
      /\ \A x \in Tracked : Charged(x) /\ OnPath(x)
  BY DEF StudyInv
<1>2. r \notin Committed(load) /\ now \in Nat /\ SwitchAt \in Nat
  BY <1>1, ArrivesFacts, ScheduleAssumption DEF CoreInv, TypeOK
<1>3. \A e \in load.entries : e.request # r
  BY <1>2 DEF Committed
<1>4. \A x \in Tracked : x.request # r
  BY <1>1, <1>3 DEF Charged
<1>5. Tracked' = Tracked \cup {a} /\ a \notin Tracked
  BY <1>4 DEF Tracked
<1>6. entry.request = r /\ entry.pod = a.pod /\ entry.time = now /\ entry.miss = MissOf(n, a.hit)
      /\ load'.entries = load.entries \cup {entry}
  OBVIOUS
<1> HIDE DEF entry
<1>7. OneEntry(load')
  BY <1>1, <1>3, <1>6 DEF OneEntry
<1>8. Unique'
  <2>1. \A x, y \in Tracked' : x.request = y.request => x = y
    BY <1>1, <1>4, <1>5 DEF Unique
  <2>2. a \notin served /\ a \notin pending /\ a \notin batch
    BY <1>5 DEF Tracked
  <2>3. QED
    BY <1>1, <2>1, <2>2 DEF Unique
<1>9. \A x \in Tracked' : Charged(x)' /\ OnPath(x)'
  <2>1. TAKE x \in Tracked'
  <2>2. CASE x = a
    BY <1>6, <2>2 DEF Charged, OnPath
  <2>3. CASE x # a
    BY <1>1, <1>5, <1>6, <2>3 DEF Charged, OnPath
  <2>4. QED
    BY <2>2, <2>3
<1>10. SwitchHonoured'
  <2>1. SUFFICES ASSUME NEW x \in Tracked', schedule \in {"C", "D"}, x.pod # x.source,
                        NEW g \in load'.entries, g.request = x.request
                 PROVE  IF schedule = "C" THEN g.time < SwitchAt ELSE g.time >= SwitchAt
    BY DEF SwitchHonoured, Tracked
  <2>2. CASE x = a
    <3>1. g.time = now
      BY <1>3, <1>6, <2>1, <2>2
    <3>2. RouteAt(now) = "R_REQ_KV_TASK"
      BY <2>1, <2>2
    <3>3. (schedule = "C" => ~(now >= SwitchAt)) /\ (schedule = "D" => now >= SwitchAt)
      BY <3>2, RouteTaken
    <3>4. QED
      BY <1>2, <2>1, <3>1, <3>3
  <2>3. CASE x # a
    <3>1. x \in Tracked /\ g \in load.entries
      BY <1>4, <1>5, <1>6, <2>1, <2>3
    <3>2. QED
      BY <1>1, <2>1, <3>1 DEF SwitchHonoured, Tracked
  <2>4. QED
    BY <2>2, <2>3
<1>11. QED
  BY <1>1, <1>7, <1>8, <1>9, <1>10 DEF StudyInv

(* No pod but the source is feasible, or the gate is not passed.           *)
LEMMA AtSourceJoins ==
    ASSUME StudyInv, schedule' = schedule, NEW r, NEW n, NEW policy, ArriveAtSource(r, n, policy)
    PROVE  StudyInv'
<1> DEFINE s == Source(n)
           hit == RouteHit(n)
           a == Assignment(r, n, s, s, hit, hit, 0)
<1>1. CoreInv /\ PureQueries
  BY DEF StudyInv
<1>2. /\ Arrives(r, n)
      /\ load' = CommitLoad(load, r, s, MissOf(n, hit), now)
      /\ served' = served \cup {a} /\ pending' = pending /\ batch' = batch
  BY <1>1 DEF ArriveAtSource, ServeNow, Finish, Query
<1>3. r \in Request /\ n \in Block /\ n \in Node
  BY <1>1, <1>2, ArrivesFacts
<1>4. s \in Pod /\ hit \in Node /\ Chain[hit] \subseteq Chain[n]
  <2>1. s \in Pod /\ Sound(caches[s]) /\ hit = Lookup(caches[s], n)
    BY <1>1, <1>3, RouteFacts DEF RouteHit
  <2> HIDE DEF s, hit
  <2>2. QED
    BY <1>3, <2>1, HitOnPath
<1>5. CoreInv'
  BY <1>1, AtSourceStep
<1> HIDE DEF s, hit
<1>6. /\ a \in AssignmentRecord /\ a.request = r /\ a.path = n /\ a.pod = s /\ a.source = s
      /\ a.hit = hit
  BY <1>3, <1>4 DEF Assignment, AssignmentRecord
<1> HIDE DEF a
<1>7. load'.entries = load.entries \cup
          {[request |-> r, pod |-> a.pod, time |-> now, miss |-> MissOf(n, a.hit)]}
  BY <1>2, <1>6, EntryAdded
<1>8. QED
  BY <1>2, <1>4, <1>5, <1>6, <1>7, JoinKeeps

(* The direct path: the target hits no more than the source, so no more    *)
(* than the path.                                                          *)
LEMMA DirectJoins ==
    ASSUME StudyInv, schedule' = schedule, NEW r, NEW n, ArriveDirect(r, n, RouteAt(now))
    PROVE  StudyInv'
<1> DEFINE t == Target(n)
           hit == Lookup(caches[t], n)
           a == Assignment(r, n, t, Source(n), RouteHit(n), hit, 0)
<1>1. CoreInv /\ PureQueries
  BY DEF StudyInv
<1>2. /\ Arrives(r, n) /\ RouteAt(now) = "R_REQ_KV_TASK" /\ Feasible(n) # {} /\ IsDirect(n)
      /\ load' = CommitLoad(load, r, t, MissOf(n, hit), now)
      /\ served' = served \cup {a} /\ pending' = pending /\ batch' = batch
  BY <1>1 DEF ArriveDirect, Reassign, ServeNow, Finish, Query
<1>3. r \in Request /\ n \in Block /\ n \in Node
  BY <1>1, <1>2, ArrivesFacts
<1>4. /\ \A p \in Pod : Sound(caches[p])
      /\ Source(n) \in Pod /\ RouteHit(n) \in Node
  BY <1>1, <1>3, RouteFacts
<1>5. t \in Pod /\ hit \in Node /\ Chain[hit] \subseteq Chain[n]
  <2>1. t \in Pod
    BY <1>1, <1>2, <1>3, DirectHit
  <2>2. Sound(caches[t])
    BY <1>4, <2>1
  <2>3. QED
    BY <1>3, <2>1, <2>2, HitOnPath
<1>6. CoreInv'
  BY <1>1, DirectStep
<1> HIDE DEF t, hit
<1>7. /\ a \in AssignmentRecord /\ a.request = r /\ a.path = n /\ a.pod = t /\ a.hit = hit
  BY <1>3, <1>4, <1>5 DEF Assignment, AssignmentRecord
<1> HIDE DEF a
<1>8. load'.entries = load.entries \cup
          {[request |-> r, pod |-> a.pod, time |-> now, miss |-> MissOf(n, a.hit)]}
  BY <1>2, <1>7, EntryAdded
<1>9. QED
  BY <1>2, <1>5, <1>6, <1>7, <1>8, JoinKeeps

(* The request waits for a transfer of the transferable prefix, and is     *)
(* charged as if that were all it will hit.                                *)
LEMMA CopyJoins ==
    ASSUME StudyInv, schedule' = schedule, NEW r, NEW n, ArriveCopy(r, n, RouteAt(now))
    PROVE  StudyInv'
<1> DEFINE chain == Transferable(caches, Source(n), n)
           t == Target(n)
           a == Assignment(r, n, t, Source(n), RouteHit(n), chain, NextTransferId)
<1>1. CoreInv /\ ProactivePolicy = "NONE"
  BY DEF StudyInv
<1>2. /\ Arrives(r, n) /\ RouteAt(now) = "R_REQ_KV_TASK" /\ Feasible(n) # {} /\ ~IsDirect(n)
      /\ load' = CommitLoad(load, r, t, MissOf(n, chain), now)
      /\ served' = served /\ pending' = pending \cup {a} /\ batch' = batch
  BY DEF ArriveCopy, Reassign
<1>3. r \in Request /\ n \in Block /\ n \in Node /\ NextTransferId \in Transfer
  BY <1>1, <1>2, ArrivesFacts
<1>4. /\ Source(n) \in Pod /\ RouteHit(n) \in Node /\ Sound(caches[Source(n)])
      /\ t \in Pod
  BY <1>1, <1>2, <1>3, RouteFacts, TargetFacts
<1>5. chain \in Node /\ Chain[chain] \subseteq Chain[n]
  <2>1. Chain[Lookup(caches[Source(n)], n)] \subseteq Chain[n]
    BY <1>3, <1>4, HitOnPath
  <2>2. QED
    BY <1>3, <1>4, <2>1, TransferableFacts
<1>6. CoreInv'
  BY <1>1, CopyStep
<1> HIDE DEF t, chain
<1>7. /\ a \in AssignmentRecord /\ a.request = r /\ a.path = n /\ a.pod = t /\ a.hit = chain
  BY <1>3, <1>4, <1>5 DEF Assignment, AssignmentRecord
<1> HIDE DEF a
<1>8. load'.entries = load.entries \cup
          {[request |-> r, pod |-> a.pod, time |-> now, miss |-> MissOf(n, a.hit)]}
  BY <1>2, <1>7, EntryAdded
<1>9. QED
  BY <1>2, <1>5, <1>6, <1>7, <1>8, JoinKeeps

(* R_LEAST: the least loaded pod serves, whatever it holds.                *)
LEMMA LeastJoins ==
    ASSUME StudyInv, schedule' = schedule, NEW r, NEW n, ArriveLeast(r, n)
    PROVE  StudyInv'
<1> DEFINE p == LeastLoaded(Pod, Loads)
           hit == Lookup(caches[p], n)
           a == Assignment(r, n, p, p, hit, hit, 0)
<1>1. CoreInv /\ PureQueries
  BY DEF StudyInv
<1>2. /\ Arrives(r, n)
      /\ Finish(a, FALSE, CommitLoad(load, r, p, MissOf(n, hit), now), SeenWith(n), DemandWith(n))
      /\ seen' = SeenWith(n) /\ demand' = DemandWith(n)
      /\ UNCHANGED <<now, stage, pending, batch>>
  BY DEF ArriveLeast
<1>3. r \in Request /\ n \in Block /\ n \in Node
  BY <1>1, <1>2, ArrivesFacts
<1>4. (\A q \in Pod : Sound(caches[q])) /\ (\A q \in Pod : Loads[q] \in Nat)
  BY <1>1, <1>3, RouteFacts
<1>5. p \in Pod /\ hit \in Node /\ Chain[hit] \subseteq Chain[n]
  <2>1. p \in Pod
    <3> DEFINE loads == Loads
    <3>1. \A q \in Pod : loads[q] \in Nat
      BY <1>4
    <3> HIDE DEF loads
    <3>2. LeastLoaded(Pod, loads) \in Pod
      BY <3>1, PodAssumption, LeastLoadedFacts
    <3>3. QED
      BY <3>2 DEF loads
  <2> HIDE DEF p
  <2>2. QED
    BY <1>3, <1>4, <2>1, HitOnPath
<1>6. load' = CommitLoad(load, r, p, MissOf(n, hit), now) /\ served' = served \cup {a}
  BY <1>1, <1>2 DEF Finish, Query
<1> HIDE DEF p, hit
<1>7. /\ a \in AssignmentRecord /\ a.request = r /\ a.path = n /\ a.pod = p /\ a.source = p
      /\ a.hit = hit
  BY <1>3, <1>5 DEF Assignment, AssignmentRecord
<1> HIDE DEF a
<1>8. CoreInv'
  BY <1>1, <1>2, <1>5, <1>7, ServeStep
<1>9. load'.entries = load.entries \cup
          {[request |-> r, pod |-> a.pod, time |-> now, miss |-> MissOf(n, a.hit)]}
  BY <1>6, <1>7, EntryAdded
<1>10. QED
  BY <1>2, <1>5, <1>6, <1>7, <1>8, <1>9, JoinKeeps

-----------------------------------------------------------------------------
(* Theorems *)

(* Under every schedule, pods, ledger, load window and assignments agree   *)
(* at every step, each request is charged once and for what it computes,   *)
(* and none leaves its pod on the wrong side of the switch.                *)
THEOREM StudyInvariant == SwitchSpec => []StudyInv
<1>1. SwitchInit => StudyInv
  BY SwitchInitKeeps
<1>2. StudyInv /\ [SwitchNext]_switchvars => StudyInv'
  <2>1. SUFFICES ASSUME StudyInv, [SwitchNext]_switchvars PROVE StudyInv'
    OBVIOUS
  <2>2. schedule' = schedule
    BY <2>1 DEF SwitchNext, switchvars
  <2>3. CASE Tick \/ Deliver \/ Protect \/ BatchDone \/ ArrivalsDone \/ UNCHANGED vars
    BY <2>1, <2>2, <2>3, QuietSteps
  <2>4. CASE ResumeActual
    BY <2>1, <2>2, <2>4, ResumeActualStep
  <2>5. ASSUME NEW r \in Request, NEW n \in Block, ArriveBy(RouteAt(now), r, n)
        PROVE  StudyInv'
    BY <2>1, <2>2, <2>5, AtSourceJoins, DirectJoins, CopyJoins, LeastJoins DEF ArriveBy
  <2>6. QED
    BY <2>1, <2>3, <2>4, <2>5 DEF SwitchNext, switchvars, Stop
<1>3. QED
  BY <1>1, <1>2, PTL DEF SwitchSpec

(* The vector that routing reads and the running sums are the window over  *)
(* the entries as they stand corrected (reconcile_hit, stage0/load.py).    *)
THEOREM LedgersStayTogether == SwitchSpec => []LedgersAgree
<1>1. StudyInv => LedgersAgree
  <2>1. SUFFICES ASSUME StudyInv, NEW p \in Pod
                 PROVE  /\ ObservedVector(load, now)[p] =
                              MissTokens({e \in load.entries : e.pod = p /\ now < e.time + LoadWindow})
                        /\ load.totals[p] = MissTokens(Range(load.histories[p]))
    BY DEF LedgersAgree
  <2>2. load \in LoadType /\ WindowInv(load) /\ now \in Nat /\ load.last <= now
    BY <2>1 DEF StudyInv, CoreInv, TypeOK, LoadInv
  <2>3. QED
    BY <2>2, RequestObserved DEF WindowInv
<1>2. QED
  BY <1>1, StudyInvariant, PTL

(* "stage0_saved_load_consistent": every served request is charged the     *)
(* tokens it had to compute, on the pod that computed them.                *)
THEOREM ServedIsCharged == SwitchSpec => []SavedLoadConsistent
<1>1. StudyInv => SavedLoadConsistent
  BY DEF StudyInv, Tracked, Charged, SavedLoadConsistent
<1>2. QED
  BY <1>1, StudyInvariant, PTL

(* No request that arrived on the other side of the switch is handed to    *)
(* another pod, though transfers outlast the route they were started under *)
(* (_with_route, stage2/engine.py).                                        *)
THEOREM SwitchIsHonoured == SwitchSpec => []SwitchHonoured
<1>1. StudyInv => SwitchHonoured
  BY DEF StudyInv
<1>2. QED
  BY <1>1, StudyInvariant, PTL

(***************************************************************************)
(* The indexed engine of Stage 2                                           *)
(***************************************************************************)

-----------------------------------------------------------------------------
(* The exact index *)

Category == {"UNSEEN", "NO_SOURCE", "NO_TARGET", "INFLIGHT_COVERED", "ELIGIBLE"}

IndexType ==
    [holders  : [Block -> SUBSET Pod],
     covered  : [Block -> [Pod -> Int]],
     category : [Block -> Category]]

(* The proactive transfers that bring page b to pod p.                     *)
Coverers(trs, p, b) ==
    {i \in Flying(trs) : /\ trs[i].type = "PROACTIVE" /\ trs[i].target = p
                         /\ b \in Chain[trs[i].chain]}

PagesOf(pods) == [p \in Pod |-> pods[p].pages]

(* The index of pods with these pages, a ledger and the chains seen.       *)
Exact(ix, pages, trs, chains) ==
    /\ ix \in IndexType
    /\ \A b \in Block : ix.holders[b] = {p \in Pod : b \in FullPage /\ b \in pages[p]}
    /\ \A b \in Block, p \in Pod : ix.covered[b][p] = Cardinality(Coverers(trs, p, b))
    /\ \A b \in Block : ix.category[b] = IF b \in chains THEN Classify(ix, b) ELSE "UNSEEN"

(* A category is one of the four of the code.                              *)
LEMMA ClassifyType == ASSUME NEW ix, NEW b PROVE Classify(ix, b) \in Category \ {"UNSEEN"}
BY DEF Classify, Category

(* What _refresh leaves: the chains it is told of are classified, the      *)
(* others keep their category.                                             *)
LEMMA RefreshFacts ==
    ASSUME NEW ix \in IndexType, NEW S, NEW chains
    PROVE  /\ Refresh(ix, S, chains) \in IndexType
           /\ Refresh(ix, S, chains).holders = ix.holders
           /\ Refresh(ix, S, chains).covered = ix.covered
           /\ \A b \in Block : Refresh(ix, S, chains).category[b] =
                 IF b \in S \cap chains THEN Classify(ix, b) ELSE ix.category[b]
<1> DEFINE new == [b \in Block |-> IF b \in S \cap chains THEN Classify(ix, b) ELSE ix.category[b]]
<1>1. Refresh(ix, S, chains) = [ix EXCEPT !.category = new]
  BY DEF Refresh, IndexType
<1>2. new \in [Block -> Category]
  BY ClassifyType DEF IndexType
<1>3. \A b \in Block : new[b] = IF b \in S \cap chains THEN Classify(ix, b) ELSE ix.category[b]
  OBVIOUS
<1> HIDE DEF new
<1>4. QED
  BY <1>1, <1>2, <1>3 DEF IndexType

(* If holders and covers are right and the categories are right but for    *)
(* the chains in S, refreshing those makes an exact index.                 *)
LEMMA RefreshExact ==
    ASSUME NEW old, NEW pages0, NEW trs0, NEW chains0, Exact(old, pages0, trs0, chains0),
           NEW ix \in IndexType, ix.category = old.category,
           NEW pages, NEW trs, NEW chains, NEW S,
           \A b \in Block : ix.holders[b] = {p \in Pod : b \in FullPage /\ b \in pages[p]},
           \A b \in Block, p \in Pod : ix.covered[b][p] = Cardinality(Coverers(trs, p, b)),
           chains0 \subseteq chains, chains \ chains0 \subseteq S,
           \A b \in Block \ S : ix.holders[b] = old.holders[b] /\ ix.covered[b] = old.covered[b]
    PROVE  Exact(Refresh(ix, S, chains), pages, trs, chains)
<1> DEFINE r == Refresh(ix, S, chains)
<1>1. /\ r \in IndexType /\ r.holders = ix.holders /\ r.covered = ix.covered
      /\ \A b \in Block : r.category[b] =
            IF b \in S \cap chains THEN Classify(ix, b) ELSE ix.category[b]
  BY RefreshFacts
<1> HIDE DEF r
<1>2. \A b \in Block : Classify(r, b) = Classify(ix, b)
  BY <1>1 DEF Classify
<1>3. \A b \in Block \ S : Classify(ix, b) = Classify(old, b)
  BY DEF Classify
<1>4. ASSUME NEW b \in Block
      PROVE  r.category[b] = IF b \in chains THEN Classify(r, b) ELSE "UNSEEN"
  <2>1. old.category[b] = IF b \in chains0 THEN Classify(old, b) ELSE "UNSEEN"
    BY DEF Exact
  <2>2. CASE b \in S
    BY <2>1, <2>2, <1>1, <1>2
  <2>3. CASE b \notin S
    BY <2>1, <2>3, <1>1, <1>2, <1>3
  <2>4. QED
    BY <2>2, <2>3
<1>5. QED
  BY <1>1, <1>4 DEF Exact, r

(* observe: new chains are classified.                                     *)
LEMMA ObserveExact ==
    ASSUME NEW ix, NEW pages, NEW trs, NEW chains, Exact(ix, pages, trs, chains), NEW n
    PROVE  Exact(Observe(ix, n, chains), pages, trs, chains \cup Chain[n])
<1>1. /\ ix \in IndexType
      /\ \A b \in Block : ix.holders[b] = {p \in Pod : b \in FullPage /\ b \in pages[p]}
      /\ \A b \in Block, p \in Pod : ix.covered[b][p] = Cardinality(Coverers(trs, p, b))
  BY DEF Exact
<1> DEFINE S == Chain[n] \ chains
           more == chains \cup Chain[n]
<1>2. chains \subseteq more /\ more \ chains \subseteq S
  OBVIOUS
<1> HIDE DEF S, more
<1>3. Exact(Refresh(ix, S, more), pages, trs, more)
  BY <1>1, <1>2, RefreshExact
<1>4. QED
  BY <1>3 DEF Observe, S, more

(* resident: the pages named came or went on pod p.                        *)
LEMMA ResidentExact ==
    ASSUME NEW ix, NEW pages \in [Pod -> SUBSET Block], NEW trs, NEW chains,
           Exact(ix, pages, trs, chains),
           NEW p \in Pod, NEW blocks, NEW present \in BOOLEAN, NEW after \in [Pod -> SUBSET Block],
           \A q \in Pod \ {p} : after[q] = pages[q],
           after[p] = IF present THEN pages[p] \cup blocks ELSE pages[p] \ blocks
    PROVE  Exact(Resident(ix, p, blocks, present, chains), after, trs, chains)
<1> DEFINE known == blocks \cap FullPage
           held == [b \in Block |-> IF b \in known
                        THEN (IF present THEN ix.holders[b] \cup {p} ELSE ix.holders[b] \ {p})
                        ELSE ix.holders[b]]
           new == [ix EXCEPT !.holders = held]
<1>1. /\ ix \in IndexType
      /\ \A b \in Block : ix.holders[b] = {q \in Pod : b \in FullPage /\ b \in pages[q]}
      /\ \A b \in Block, q \in Pod : ix.covered[b][q] = Cardinality(Coverers(trs, q, b))
  BY DEF Exact
<1>2. Resident(ix, p, blocks, present, chains) = Refresh(new, known, chains)
  BY <1>1 DEF Resident, IndexType
<1>3. held \in [Block -> SUBSET Pod]
  BY <1>1 DEF IndexType
<1>4. ASSUME NEW b \in Block PROVE held[b] = {q \in Pod : b \in FullPage /\ b \in after[q]}
  <2>1. ix.holders[b] = {q \in Pod : b \in FullPage /\ b \in pages[q]}
    BY <1>1
  <2>2. CASE b \in known /\ present
    <3>1. held[b] = ix.holders[b] \cup {p}
      BY <2>2
    <3>2. b \in FullPage /\ b \in after[p]
      BY <2>2
    <3> HIDE DEF held
    <3>3. QED
      BY <2>1, <3>1, <3>2
  <2>3. CASE b \in known /\ ~present
    <3>1. held[b] = ix.holders[b] \ {p}
      BY <2>3
    <3>2. b \notin after[p]
      BY <2>3
    <3> HIDE DEF held
    <3>3. QED
      BY <2>1, <3>1, <3>2
  <2>4. CASE b \notin known
    <3>1. held[b] = ix.holders[b]
      BY <2>4
    <3>2. b \in FullPage => (b \in after[p] <=> b \in pages[p])
      BY <2>4
    <3> HIDE DEF held
    <3>3. QED
      BY <2>1, <3>1, <3>2
  <2>5. QED
    BY <2>2, <2>3, <2>4
<1>5. \A b \in Block \ known : held[b] = ix.holders[b]
  OBVIOUS
<1> HIDE DEF held
<1>6. /\ new \in IndexType /\ new.category = ix.category
      /\ new.holders = held /\ new.covered = ix.covered
  BY <1>1, <1>3 DEF IndexType
<1> HIDE DEF new, known
<1>7. /\ \A b \in Block : new.holders[b] = {q \in Pod : b \in FullPage /\ b \in after[q]}
      /\ \A b \in Block, q \in Pod : new.covered[b][q] = Cardinality(Coverers(trs, q, b))
      /\ \A b \in Block \ known : new.holders[b] = ix.holders[b] /\ new.covered[b] = ix.covered[b]
  BY <1>1, <1>4, <1>5, <1>6
<1>8. Exact(Refresh(new, known, chains), after, trs, chains)
  BY <1>6, <1>7, RefreshExact
<1>9. QED
  BY <1>2, <1>8

(* inflight: one more or one less proactive transfer covers the prefixes   *)
(* of its chain at its target.                                             *)
LEMMA InflightExact ==
    ASSUME NEW ix, NEW pages, NEW trs, NEW chains, Exact(ix, pages, trs, chains),
           NEW t \in TransferType, NEW change \in Int, NEW more,
           \A b \in Block, p \in Pod :
               Cardinality(Coverers(more, p, b)) =
                   IF t.type = "PROACTIVE" /\ p = t.target /\ b \in Chain[t.chain]
                     THEN Cardinality(Coverers(trs, p, b)) + change
                     ELSE Cardinality(Coverers(trs, p, b))
    PROVE  Exact(Inflight(ix, t, change, chains), pages, more, chains)
<1>1. /\ ix \in IndexType
      /\ \A b \in Block : ix.holders[b] = {q \in Pod : b \in FullPage /\ b \in pages[q]}
      /\ \A b \in Block, q \in Pod : ix.covered[b][q] = Cardinality(Coverers(trs, q, b))
      /\ \A b \in Block : ix.category[b] = IF b \in chains THEN Classify(ix, b) ELSE "UNSEEN"
  BY DEF Exact
<1>2. CASE t.type # "PROACTIVE"
  <2>1. Inflight(ix, t, change, chains) = ix
    BY <1>2 DEF Inflight
  <2>2. \A b \in Block, p \in Pod :
            Cardinality(Coverers(more, p, b)) = Cardinality(Coverers(trs, p, b))
    BY <1>2
  <2>3. QED
    BY <1>1, <2>1, <2>2 DEF Exact
<1>3. CASE t.type = "PROACTIVE"
  <2> DEFINE S == Chain[t.chain]
             cov == [b \in Block |-> [p \in Pod |->
                        IF b \in S /\ p = t.target THEN ix.covered[b][p] + change
                                                   ELSE ix.covered[b][p]]]
             new == [ix EXCEPT !.covered = cov]
  <2>1. Inflight(ix, t, change, chains) = Refresh(new, S, chains)
    BY <1>3, Zenon DEF Inflight
  <2>2. t.target \in Pod
    BY DEF TransferType
  <2>3. cov \in [Block -> [Pod -> Int]]
    BY <1>1, <2>2 DEF IndexType
  <2>4. ASSUME NEW b \in Block, NEW p \in Pod
        PROVE  cov[b][p] = IF p = t.target /\ b \in S THEN ix.covered[b][p] + change
                                                      ELSE ix.covered[b][p]
    BY <1>1, <2>2 DEF IndexType
  <2>5. \A b \in Block \ S : cov[b] = ix.covered[b]
    BY <1>1 DEF IndexType
  <2> HIDE DEF cov
  <2>6. /\ new \in IndexType /\ new.category = ix.category
        /\ new.holders = ix.holders /\ new.covered = cov
    BY <1>1, <2>3 DEF IndexType
  <2> HIDE DEF new
  <2>7. \A b \in Block, p \in Pod : new.covered[b][p] = Cardinality(Coverers(more, p, b))
    BY <1>1, <1>3, <2>4, <2>6
  <2> HIDE DEF S
  <2>8. /\ \A b \in Block : new.holders[b] = {q \in Pod : b \in FullPage /\ b \in pages[q]}
        /\ \A b \in Block \ S : new.holders[b] = ix.holders[b] /\ new.covered[b] = ix.covered[b]
    BY <1>1, <2>5, <2>6
  <2>9. Exact(Refresh(new, S, chains), pages, more, chains)
    BY <2>6, <2>7, <2>8, RefreshExact
  <2>10. QED
    BY <2>1, <2>9
<1>4. QED
  BY <1>2, <1>3

(* A transfer that starts covers the prefixes of its chain.                *)
LEMMA StartCovers ==
    ASSUME NEW trs \in Seq(TransferType), NEW rec \in TransferType, rec.status = "IN_FLIGHT",
           NEW b, NEW p
    PROVE  Cardinality(Coverers(Append(trs, rec), p, b)) =
               IF rec.type = "PROACTIVE" /\ p = rec.target /\ b \in Chain[rec.chain]
                 THEN Cardinality(Coverers(trs, p, b)) + 1
                 ELSE Cardinality(Coverers(trs, p, b))
<1> DEFINE more == Append(trs, rec)
           id == Len(trs) + 1
<1>1. /\ Flying(more) = Flying(trs) \cup {id} /\ id \notin Flying(trs)
      /\ more[id] = rec /\ \A i \in Flying(trs) : more[i] = trs[i]
  BY AppendFacts
<1>2. IsFiniteSet(Coverers(trs, p, b)) /\ Cardinality(Coverers(trs, p, b)) \in Nat
  <2>1. IsFiniteSet(Flying(trs))
    BY OwnersFinite, FS_EmptySet
  <2>2. Coverers(trs, p, b) \subseteq Flying(trs)
    BY DEF Coverers
  <2>3. QED
    BY <2>1, <2>2, FS_Subset, FS_CardinalityType
<1> HIDE DEF more, id
<1>3. CASE rec.type = "PROACTIVE" /\ p = rec.target /\ b \in Chain[rec.chain]
  <2>1. Coverers(more, p, b) = Coverers(trs, p, b) \cup {id} /\ id \notin Coverers(trs, p, b)
    BY <1>1, <1>3 DEF Coverers
  <2>2. QED
    BY <1>2, <1>3, <2>1, FS_AddElement DEF more
<1>4. CASE ~(rec.type = "PROACTIVE" /\ p = rec.target /\ b \in Chain[rec.chain])
  <2>1. Coverers(more, p, b) = Coverers(trs, p, b)
    BY <1>1, <1>4 DEF Coverers
  <2>2. QED
    BY <1>4, <2>1 DEF more
<1>5. QED
  BY <1>3, <1>4

(* A transfer that is complete covers nothing any more.                    *)
LEMMA EndUncovers ==
    ASSUME NEW trs \in Seq(TransferType), NEW i \in Flying(trs), NEW b, NEW p
    PROVE  Cardinality(Coverers([trs EXCEPT ![i].status = "COMPLETED"], p, b)) =
               IF trs[i].type = "PROACTIVE" /\ p = trs[i].target /\ b \in Chain[trs[i].chain]
                 THEN Cardinality(Coverers(trs, p, b)) + -1
                 ELSE Cardinality(Coverers(trs, p, b))
<1> DEFINE less == [trs EXCEPT ![i].status = "COMPLETED"]
           C == Coverers(trs, p, b)
<1>1. Flying(less) = Flying(trs) \ {i} /\ \A j \in Flying(less) : less[j] = trs[j]
  BY CompletedFacts
<1>2. IsFiniteSet(C) /\ Cardinality(C) \in Nat
  <2>1. IsFiniteSet(Flying(trs))
    BY OwnersFinite, FS_EmptySet
  <2>2. C \subseteq Flying(trs)
    BY DEF Coverers
  <2>3. QED
    BY <2>1, <2>2, FS_Subset, FS_CardinalityType
<1> HIDE DEF less
<1>3. Coverers(less, p, b) = C \ {i}
  BY <1>1 DEF Coverers
<1>4. i \in C <=> trs[i].type = "PROACTIVE" /\ p = trs[i].target /\ b \in Chain[trs[i].chain]
  BY DEF Coverers
<1> HIDE DEF C
<1>5. CASE i \in C
  <2>1. Cardinality(C \ {i}) = Cardinality(C) - 1
    BY <1>2, <1>5, FS_RemoveElement
  <2>2. QED
    BY <1>2, <1>3, <1>4, <1>5, <2>1 DEF less, C
<1>6. CASE i \notin C
  <2>1. C \ {i} = C
    BY <1>6
  <2>2. QED
    BY <1>3, <1>4, <1>6, <2>1 DEF less, C
<1>7. QED
  BY <1>5, <1>6

-----------------------------------------------------------------------------
(* The hooks of the handlers *)

(* The pages _finish leaves on its pod.                                    *)
LEMMA FinishPages ==
    ASSUME NEW c, Sound(c), NEW n \in Node, NEW hit \in Node
    PROVE  LET reused == RecordReuse(Pin(c, hit), hit)
               gone   == Victims(PlanPrompt(reused, n))
           IN  /\ reused.pages = c.pages
               /\ FinishOn(c, n, hit, FALSE).pages =
                     IF CanPlanPrompt(reused, n) THEN (c.pages \ gone) \cup Chain[n] ELSE c.pages
<1> DEFINE reused == RecordReuse(Pin(c, hit), hit)
           after == IF CanPlanPrompt(reused, n)
                      THEN PublishPrompt(reused, PlanPrompt(reused, n)) ELSE reused
           e == Unpin(after, hit)
<1>1. e = FinishOn(c, n, hit, FALSE)
  BY DEF FinishOn
<1>2. Sound(Pin(c, hit)) /\ Pin(c, hit).pages = c.pages
  BY PinFacts
<1>3. Sound(reused) /\ reused.pages = c.pages
  BY <1>2, ReuseFacts
<1> HIDE DEF reused
<1>4. /\ after \in Cache
      /\ after.pages = IF CanPlanPrompt(reused, n)
            THEN (c.pages \ Victims(PlanPrompt(reused, n))) \cup Chain[n] ELSE c.pages
  <2>1. CASE CanPlanPrompt(reused, n)
    BY <1>3, <2>1, PublishFacts DEF Sound
  <2>2. CASE ~CanPlanPrompt(reused, n)
    BY <1>3, <2>2 DEF Sound
  <2>3. QED
    BY <2>1, <2>2
<1> HIDE DEF after
<1>5. e.pages = after.pages
  BY <1>4 DEF Unpin, NextVersion, Cache
<1> HIDE DEF e
<1>6. QED
  BY <1>1, <1>3, <1>4, <1>5 DEF reused

(* The hooks called while a request is finished.                           *)
LEMMA IndexFinishExact ==
    ASSUME caches \in [Pod -> Cache], \A p \in Pod : Sound(caches[p]),
           NEW ix, NEW trs, NEW chains, Exact(ix, PagesOf(caches), trs, chains),
           NEW p \in Pod, NEW n \in Node, NEW hit \in Node
    PROVE  Exact(IndexFinish(ix, p, n, hit, chains),
                 PagesOf([caches EXCEPT ![p] = FinishOn(@, n, hit, FALSE)]), trs, chains)
<1> DEFINE c == caches[p]
           e == FinishOn(c, n, hit, FALSE)
           pods == [caches EXCEPT ![p] = e]
           reused == RecordReuse(Pin(c, hit), hit)
           gone == Victims(PlanPrompt(reused, n))
           between == [q \in Pod |-> IF q = p THEN c.pages \ gone ELSE caches[q].pages]
<1>1. /\ Sound(c) /\ c \in Cache
      /\ \A q \in Pod : caches[q].pages \in SUBSET Block
      /\ Chain[n] \in SUBSET Block
  BY ChainFacts DEF Sound, Cache
<1>2. /\ reused.pages = c.pages
      /\ e.pages = IF CanPlanPrompt(reused, n) THEN (c.pages \ gone) \cup Chain[n] ELSE c.pages
  BY <1>1, FinishPages
<1>3. PagesOf(caches) \in [Pod -> SUBSET Block] /\ \A q \in Pod : PagesOf(caches)[q] = caches[q].pages
  BY <1>1 DEF PagesOf
<1>4. /\ PagesOf(pods)[p] = e.pages
      /\ \A q \in Pod \ {p} : PagesOf(pods)[q] = caches[q].pages
  BY DEF PagesOf
<1>5. e.pages \in SUBSET Block
  BY <1>1, <1>2
<1>6. PagesOf(pods) \in [Pod -> SUBSET Block]
  BY <1>1, <1>4, <1>5 DEF PagesOf
<1>7. /\ between \in [Pod -> SUBSET Block] /\ between[p] = c.pages \ gone
      /\ \A q \in Pod \ {p} : between[q] = caches[q].pages
  BY <1>1
<1> DEFINE evicted == Resident(ix, p, gone, FALSE, chains)
           missing == Chain[n] \ (reused.pages \ gone)
<1>8. IndexFinish(ix, p, n, hit, chains) =
          IF CanPlanPrompt(reused, n) THEN Resident(evicted, p, missing, TRUE, chains) ELSE ix
  BY DEF IndexFinish
<1> HIDE DEF reused, gone, between, e, pods, c
<1>9. CASE CanPlanPrompt(reused, n)
  <2>1. Exact(evicted, between, trs, chains)
    <3>1. /\ \A q \in Pod \ {p} : between[q] = PagesOf(caches)[q]
          /\ between[p] = IF FALSE THEN PagesOf(caches)[p] \cup gone ELSE PagesOf(caches)[p] \ gone
      BY <1>3, <1>7 DEF c
    <3>2. QED
      BY <1>3, <1>7, <3>1, ResidentExact
  <2> HIDE DEF evicted
  <2>2. Exact(Resident(evicted, p, missing, TRUE, chains), PagesOf(pods), trs, chains)
    <3>1. /\ \A q \in Pod \ {p} : PagesOf(pods)[q] = between[q]
          /\ PagesOf(pods)[p] = between[p] \cup missing
      BY <1>2, <1>4, <1>7, <1>9
    <3> HIDE DEF missing
    <3>2. PagesOf(pods)[p] = IF TRUE THEN between[p] \cup missing ELSE between[p] \ missing
      BY <3>1
    <3>3. QED
      BY <1>6, <1>7, <2>1, <3>1, <3>2, ResidentExact
  <2>3. QED
    BY <1>8, <1>9, <2>2 DEF pods, e, c
<1>10. CASE ~CanPlanPrompt(reused, n)
  <2>1. PagesOf(pods) = PagesOf(caches)
    <3>1. \A q \in Pod : PagesOf(pods)[q] = PagesOf(caches)[q]
      BY <1>2, <1>3, <1>4, <1>10 DEF c
    <3>2. QED
      BY <1>3, <1>6, <3>1
  <2>2. QED
    BY <1>8, <1>10, <2>1 DEF pods, e, c
<1>11. QED
  BY <1>9, <1>10

(* The hooks of a transfer that starts.                                    *)
LEMMA IndexStartExact ==
    ASSUME NEW pods \in [Pod -> Cache], \A p \in Pod : Sound(pods[p]),
           NEW trs \in Seq(TransferType), NEW rec \in TransferType, rec.status = "IN_FLIGHT",
           NEW id \in Transfer, pods[rec.target].temporary[id] = 0,
           CanCopy(pods, rec.source, rec.target, rec.chain),
           NEW ix, NEW chains, Exact(ix, PagesOf(pods), trs, chains)
    PROVE  Exact(IndexStart(ix, pods, rec, chains),
                 PagesOf(StartCopy(pods, id, rec.chain, rec.source, rec.target)),
                 Append(trs, rec), chains)
<1> DEFINE n == rec.chain
           s == rec.source
           t == rec.target
           k == Depth(n)
           gone == Victims(PlanTemporary(pods[t], k))
           e == Pin(pods[s], n)
           f == ReserveTemporary(pods[t], id, PlanTemporary(pods[t], k))
           q == StartCopy(pods, id, n, s, t)
           evicted == Resident(ix, t, gone, FALSE, chains)
<1>1. s \in Pod /\ t \in Pod /\ n \in Node /\ s # t /\ CanPlanTemporary(pods[t], k) /\ k \in Nat
  BY ChainFacts DEF TransferType, Node, CanCopy
<1>2. \A p \in Pod : pods[p].pages \in SUBSET Block
  BY DEF Cache
<1>3. q = [pods EXCEPT ![s] = e, ![t] = f]
  BY <1>1 DEF StartCopy
<1>4. e.pages = pods[s].pages
  BY <1>1, PinFacts
<1>5. f.pages = pods[t].pages \ gone
  <2>1. /\ Sound(pods[t]) /\ pods[t].temporary[id] = 0
        /\ k \in Nat /\ CanPlanTemporary(pods[t], k)
    BY <1>1
  <2> HIDE DEF k, t
  <2>2. /\ Sound(f) /\ f.pins = pods[t].pins
        /\ f.temporary = [pods[t].temporary EXCEPT ![id] = k]
        /\ KeepsPinned(pods[t], f)
        /\ f.pages = pods[t].pages \ Victims(PlanTemporary(pods[t], k))
    BY <2>1, ReserveFacts
  <2>3. QED
    BY <2>2
<1>6. IndexStart(ix, pods, rec, chains) = Inflight(evicted, rec, 1, chains)
  BY DEF IndexStart
<1> HIDE DEF e, f, gone, k
<1>7. /\ PagesOf(q)[t] = pods[t].pages \ gone
      /\ \A p \in Pod \ {t} : PagesOf(q)[p] = pods[p].pages
  BY <1>1, <1>3, <1>4, <1>5 DEF PagesOf
<1> HIDE DEF q
<1>8. /\ PagesOf(pods) \in [Pod -> SUBSET Block] /\ PagesOf(q) \in [Pod -> SUBSET Block]
      /\ \A p \in Pod : PagesOf(pods)[p] = pods[p].pages
  BY <1>1, <1>2, <1>7 DEF PagesOf
<1>9. Exact(evicted, PagesOf(q), trs, chains)
  <2>1. /\ \A p \in Pod \ {t} : PagesOf(q)[p] = PagesOf(pods)[p]
        /\ PagesOf(q)[t] = IF FALSE THEN PagesOf(pods)[t] \cup gone ELSE PagesOf(pods)[t] \ gone
    BY <1>1, <1>7, <1>8
  <2>2. QED
    BY <1>1, <1>8, <2>1, ResidentExact
<1> HIDE DEF evicted
<1>10. \A b \in Block, p \in Pod :
          Cardinality(Coverers(Append(trs, rec), p, b)) =
              IF rec.type = "PROACTIVE" /\ p = rec.target /\ b \in Chain[rec.chain]
                THEN Cardinality(Coverers(trs, p, b)) + 1
                ELSE Cardinality(Coverers(trs, p, b))
  BY StartCovers
<1>11. Exact(Inflight(evicted, rec, 1, chains), PagesOf(q), Append(trs, rec), chains)
  BY <1>9, <1>10, InflightExact
<1>12. QED
  BY <1>6, <1>11 DEF q

(* The pages a delivery leaves at its target.                              *)
LEMMA DeliveredPages ==
    ASSUME NEW c \in Cache, NEW t \in Transfer, NEW n \in Node
    PROVE  CompleteTransfer(c, t, n).pages = c.pages \cup Chain[n]
<1> DEFINE f == [c EXCEPT !.temporary[t] = 0]
           h == Insert(f, n)
<1>1. f \in Cache /\ f.pages = c.pages
  BY BufferFacts
<1>2. CompleteTransfer(c, t, n) = NextVersion(h)
  BY DEF CompleteTransfer
<1> HIDE DEF f
<1>3. h \in Cache /\ h.pages = f.pages \cup Chain[n]
  BY <1>1, InsertFacts
<1> HIDE DEF h
<1>4. QED
  BY <1>1, <1>2, <1>3, VersionFacts

(* The hooks of a delivery.                                                *)
LEMMA IndexDeliveryExact ==
    ASSUME caches \in [Pod -> Cache], \A p \in Pod : Sound(caches[p]),
           transfers \in Seq(TransferType), NEW i \in Flying(transfers), i \in Transfer,
           transfers[i].source # transfers[i].target,
           seen \subseteq Block, Exact(index, PagesOf(caches), transfers, seen)
    PROVE  LET t == transfers[i]
               q == [caches EXCEPT ![t.target] = CompleteTransfer(@, i, t.chain),
                                   ![t.source] = Unpin(@, t.chain)]
           IN  Exact(IndexDelivery(index, t), PagesOf(q),
                     [transfers EXCEPT ![i].status = "COMPLETED"], seen)
<1> DEFINE t == transfers[i]
           n == t.chain
           c == caches[t.target]
           missing == Chain[n] \ c.pages
           e == CompleteTransfer(c, i, n)
           f == Unpin(caches[t.source], n)
           q == [caches EXCEPT ![t.target] = CompleteTransfer(@, i, n), ![t.source] = Unpin(@, n)]
           less == [transfers EXCEPT ![i].status = "COMPLETED"]
           arrived == Resident(index, t.target, missing, TRUE, seen)
<1>1. t \in TransferType /\ t.source \in Pod /\ t.target \in Pod /\ n \in Node
  BY FlyingType
<1>2. \A p \in Pod : caches[p].pages \in SUBSET Block
  BY DEF Cache
<1>3. e.pages = c.pages \cup Chain[n]
  <2>1. c \in Cache /\ n \in Node /\ i \in Transfer
    BY <1>1
  <2> HIDE DEF c, n
  <2>2. CompleteTransfer(c, i, n).pages = c.pages \cup Chain[n]
    BY <2>1, DeliveredPages
  <2>3. QED
    BY <2>2
<1>4. f.pages = caches[t.source].pages
  BY <1>1 DEF Unpin, NextVersion, Cache
<1>5. q = [caches EXCEPT ![t.target] = e, ![t.source] = f]
  BY <1>1
<1>6. IndexDelivery(index, t) = Inflight(arrived, t, -1, seen)
  BY DEF IndexDelivery
<1>7. \A b \in Block, p \in Pod :
          Cardinality(Coverers(less, p, b)) =
              IF t.type = "PROACTIVE" /\ p = t.target /\ b \in Chain[t.chain]
                THEN Cardinality(Coverers(transfers, p, b)) + -1
                ELSE Cardinality(Coverers(transfers, p, b))
  BY EndUncovers
<1> HIDE DEF e, f, less
<1>8. /\ PagesOf(q)[t.target] = c.pages \cup Chain[n]
      /\ \A p \in Pod \ {t.target} : PagesOf(q)[p] = caches[p].pages
  BY <1>1, <1>3, <1>4, <1>5 DEF PagesOf
<1>9. Chain[n] \subseteq Block
  BY <1>1, ChainFacts
<1> HIDE DEF q
<1>10. /\ PagesOf(caches) \in [Pod -> SUBSET Block] /\ PagesOf(q) \in [Pod -> SUBSET Block]
       /\ \A p \in Pod : PagesOf(caches)[p] = caches[p].pages
  BY <1>1, <1>2, <1>8, <1>9 DEF PagesOf
<1>11. Exact(arrived, PagesOf(q), transfers, seen)
  <2>1. \A p \in Pod \ {t.target} : PagesOf(q)[p] = PagesOf(caches)[p]
    BY <1>8, <1>10
  <2>2. PagesOf(q)[t.target] = IF TRUE THEN PagesOf(caches)[t.target] \cup missing
                                      ELSE PagesOf(caches)[t.target] \ missing
    BY <1>1, <1>8, <1>10
  <2> HIDE DEF missing
  <2>3. QED
    BY <1>1, <1>10, <2>1, <2>2, ResidentExact
<1> HIDE DEF arrived
<1>12. Exact(Inflight(arrived, t, -1, seen), PagesOf(q), less, seen)
  BY <1>1, <1>7, <1>11, InflightExact
<1>13. QED
  BY <1>6, <1>12 DEF q, less

-----------------------------------------------------------------------------
(* What the index answers *)

KnowsOf(ix, pods, trs, b) ==
    /\ ix.holders[b] = Holders(pods, b)
    /\ \A p \in Pod : ix.covered[b][p] > 0 <=> Covered(trs, p, b)
    /\ \A p \in Pod : ix.covered[b][p] = 0 <=> ~Covered(trs, p, b)

(* The chains of full pages a cache can hold are held when their last page *)
(* is, and covered when something in flight counts.                        *)
LEMMA HoldersFacts ==
    ASSUME NEW pods, \A p \in Pod : Sound(pods[p]), NEW trs \in Seq(TransferType),
           NEW chains \in SUBSET FullPage, NEW ix, Exact(ix, PagesOf(pods), trs, chains),
           NEW b \in chains
    PROVE  KnowsOf(ix, pods, trs, b)
<1>1. b \in Block /\ b \in FullPage
  BY PartialTailAssumption
<1>2. \A p \in Pod : b \in pods[p].pages <=> Published(pods[p], b)
  <2>1. TAKE p \in Pod
  <2>2. pods[p].pages \in SUBSET Block
        /\ \A x \in pods[p].pages : Parent[x] \in pods[p].pages \cup {Root}
    BY DEF Sound, Cache, PrefixClosed
  <2>3. b \in pods[p].pages => Chain[b] \subseteq pods[p].pages
    BY <2>2, ClosedByParent
  <2>4. b \in Chain[b]
    BY <1>1, ChainFacts DEF Node
  <2>5. QED
    BY <2>3, <2>4 DEF Published
<1>3. ix.holders[b] = Holders(pods, b)
  BY <1>1, <1>2 DEF Exact, PagesOf, Holders
<1>4. ASSUME NEW p \in Pod
      PROVE  /\ ix.covered[b][p] > 0 <=> Covered(trs, p, b)
             /\ ix.covered[b][p] = 0 <=> ~Covered(trs, p, b)
  <2> DEFINE C == Coverers(trs, p, b)
  <2>1. IsFiniteSet(C) /\ Cardinality(C) \in Nat
    <3>1. IsFiniteSet(Flying(trs))
      BY OwnersFinite, FS_EmptySet
    <3>2. C \subseteq Flying(trs)
      BY DEF Coverers
    <3>3. QED
      BY <3>1, <3>2, FS_Subset, FS_CardinalityType
  <2>2. C # {} <=> Covered(trs, p, b)
    BY DEF Coverers, Covered, Flying
  <2>3. ix.covered[b][p] = Cardinality(C)
    BY <1>1 DEF Exact
  <2> HIDE DEF C
  <2>4. Cardinality(C) = 0 <=> C = {}
    BY <2>1, FS_EmptySet
  <2>5. QED
    BY <2>1, <2>2, <2>3, <2>4
<1>5. QED
  BY <1>3, <1>4 DEF KnowsOf

(* A chain that was seen is eligible if the scan finds a source and a      *)
(* target, and the index answers the same two; if not, it knows why.       *)
LEMMA CategoryFacts ==
    ASSUME NEW pods, \A p \in Pod : Sound(pods[p]), NEW trs \in Seq(TransferType),
           NEW chains \in SUBSET FullPage, NEW ix, Exact(ix, PagesOf(pods), trs, chains),
           NEW b \in chains
    PROVE  LET scan == Candidates(pods, trs, chains)
           IN  /\ ix.category[b] = "ELIGIBLE" <=> b \in DOMAIN scan
               /\ b \in DOMAIN scan =>
                     scan[b] = [source  |-> Min(ix.holders[b]),
                                targets |-> {p \in Pod \ ix.holders[b] : ix.covered[b][p] = 0}]
               /\ b \notin DOMAIN scan =>
                     ix.category[b] =
                         IF Holders(pods, b) = {} THEN "NO_SOURCE"
                         ELSE IF Holders(pods, b) = Pod THEN "NO_TARGET" ELSE "INFLIGHT_COVERED"
<1> DEFINE scan == Candidates(pods, trs, chains)
<1>1. /\ ix.holders[b] = Holders(pods, b)
      /\ \A p \in Pod : ix.covered[b][p] > 0 <=> Covered(trs, p, b)
      /\ \A p \in Pod : ix.covered[b][p] = 0 <=> ~Covered(trs, p, b)
  <2>1. KnowsOf(ix, pods, trs, b)
    BY HoldersFacts
  <2>2. QED
    BY <2>1 DEF KnowsOf
<1>2. ix.category[b] = Classify(ix, b)
  BY PartialTailAssumption DEF Exact
<1>3. {p \in Pod \ ix.holders[b] : ix.covered[b][p] = 0} = EligibleTargets(pods, trs, b)
  BY <1>1 DEF EligibleTargets
<1>4. Holders(pods, b) \subseteq Pod
  BY DEF Holders
<1>5. (\A p \in Pod : p \in ix.holders[b] \/ ix.covered[b][p] > 0) <=> EligibleTargets(pods, trs, b) = {}
  BY <1>1 DEF EligibleTargets
<1>6. Holders(pods, b) = Pod => EligibleTargets(pods, trs, b) = {}
  BY DEF EligibleTargets
<1>7. b \in DOMAIN scan <=> Holders(pods, b) # {} /\ EligibleTargets(pods, trs, b) # {}
  BY DEF Candidates
<1>8. b \in DOMAIN scan => scan[b] = [source  |-> Min(Holders(pods, b)),
                                     targets |-> EligibleTargets(pods, trs, b)]
  BY DEF Candidates
<1> HIDE DEF scan
<1>9. ix.category[b] = IF Holders(pods, b) = {} THEN "NO_SOURCE"
                       ELSE IF Holders(pods, b) = Pod THEN "NO_TARGET"
                       ELSE IF EligibleTargets(pods, trs, b) = {} THEN "INFLIGHT_COVERED"
                       ELSE "ELIGIBLE"
  BY <1>1, <1>2, <1>5 DEF Classify
<1>10. ix.category[b] = "ELIGIBLE" <=> b \in DOMAIN scan
  BY <1>6, <1>7, <1>9
<1>11. b \notin DOMAIN scan =>
           ix.category[b] =
               IF Holders(pods, b) = {} THEN "NO_SOURCE"
               ELSE IF Holders(pods, b) = Pod THEN "NO_TARGET" ELSE "INFLIGHT_COVERED"
  BY <1>6, <1>7, <1>9
<1>12. b \in DOMAIN scan =>
           scan[b] = [source  |-> Min(ix.holders[b]),
                      targets |-> {p \in Pod \ ix.holders[b] : ix.covered[b][p] = 0}]
  BY <1>1, <1>3, <1>8
<1>13. QED
  BY <1>10, <1>11, <1>12 DEF scan

(* The candidates whose chains are in P.                                   *)
Among(cs, P) == [b \in P \cap DOMAIN cs |-> cs[b]]

(* The chains the view yields are those of the scan that were asked for.   *)
LEMMA ViewIsScan ==
    ASSUME NEW pods, \A p \in Pod : Sound(pods[p]), NEW trs \in Seq(TransferType),
           NEW chains \in SUBSET FullPage, NEW ix, Exact(ix, PagesOf(pods), trs, chains),
           NEW P \in SUBSET Block
    PROVE  IndexedCandidates(ix, P) = Among(Candidates(pods, trs, chains), P)
<1> DEFINE scan == Candidates(pods, trs, chains)
           answer(b) == [source  |-> Min(ix.holders[b]),
                         targets |-> {p \in Pod \ ix.holders[b] : ix.covered[b][p] = 0}]
<1>1. \A b \in Block \ chains : ix.category[b] # "ELIGIBLE"
  BY DEF Exact
<1>2. DOMAIN scan \subseteq chains
  BY DEF Candidates
<1>3. \A b \in chains : /\ ix.category[b] = "ELIGIBLE" <=> b \in DOMAIN scan
                        /\ b \in DOMAIN scan => scan[b] = answer(b)
  BY CategoryFacts
<1> HIDE DEF scan
<1>4. {x \in P : ix.category[x] = "ELIGIBLE"} = P \cap DOMAIN scan
  BY <1>1, <1>2, <1>3
<1>5. \A b \in P \cap DOMAIN scan : answer(b) = scan[b]
  BY <1>2, <1>3
<1>6. IndexedCandidates(ix, P) = [b \in {x \in P : ix.category[x] = "ELIGIBLE"} |-> answer(b)]
  BY DEF IndexedCandidates
<1> HIDE DEF answer
<1>7. QED
  BY <1>4, <1>5, <1>6 DEF scan, Among

(* An opportunity that sees the candidates with demand does what it would  *)
(* do if it saw all.                                                       *)
LEMMA ViewSuffices ==
    ASSUME NEW pods, NEW cs, DOMAIN cs \subseteq Block, NEW P,
           NEW counts, \A b \in Block : counts[b] \in Nat,
           \A b \in DOMAIN cs : counts[b] > 0 => b \in P
    PROVE  LET view == Among(cs, P)
               rows == Startable(pods, cs, counts)
           IN  /\ Startable(pods, view, counts) = rows
               /\ rows # {} =>
                     LET chain == FirstOf(rows, counts)
                     IN  /\ view[chain] = cs[chain]
                         /\ ProactiveTargets(pods, view, chain) = ProactiveTargets(pods, cs, chain)
<1> DEFINE view == Among(cs, P)
           rows == Startable(pods, cs, counts)
           chain == FirstOf(rows, counts)
<1>1. {b \in DOMAIN view : counts[b] > 0} = {b \in DOMAIN cs : counts[b] > 0}
  BY DEF Among
<1>2. Shortlist(view, counts) = Shortlist(cs, counts)
  BY <1>1 DEF Shortlist
<1>3. \A b \in Shortlist(cs, counts) : b \in P /\ b \in DOMAIN cs
  BY DEF Shortlist
<1>4. \A b \in Shortlist(cs, counts) : view[b] = cs[b]
  BY <1>3 DEF Among
<1> HIDE DEF view
<1>5. \A b \in Shortlist(cs, counts) : ProactiveTargets(pods, view, b) = ProactiveTargets(pods, cs, b)
  BY <1>4 DEF ProactiveTargets
<1>6. Startable(pods, view, counts) = rows
  BY <1>2, <1>5 DEF Startable
<1>7. rows \subseteq Shortlist(cs, counts) /\ rows \in SUBSET Block
  BY <1>3 DEF Startable
<1> HIDE DEF rows
<1>8. rows # {} => chain \in rows
  BY <1>7, FirstOfFacts
<1>9. rows # {} => /\ view[chain] = cs[chain]
                   /\ ProactiveTargets(pods, view, chain) = ProactiveTargets(pods, cs, chain)
  BY <1>4, <1>5, <1>7, <1>8
<1>10. QED
  BY <1>6, <1>9 DEF view, rows

-----------------------------------------------------------------------------
(* Active demand *)

Expiration == [time : Nat, request : Request, chain : Node]

Expiring(expirations, b) == {e \in expirations : b \in Chain[e.chain]}

(* The counts are what the expirations say, each of a request that asked,  *)
(* and a demand that is in the window at time t has not expired.           *)
ActiveInv(act, asked, history, t) ==
    /\ act = [expirations |-> act.expirations, counts |-> act.counts]
    /\ act.expirations \subseteq Expiration /\ IsFiniteSet(act.expirations)
    /\ \A e \in act.expirations : e.request \in asked
    /\ \A b \in Block : act.counts[b] = Cardinality(Expiring(act.expirations, b))
    /\ \A b \in Block : \A i \in DOMAIN history[b] :
          t < history[b][i] + HistoryWindow =>
              \E e \in act.expirations : e.time = history[b][i] + HistoryWindow /\ b \in Chain[e.chain]

(* Before the first request.                                               *)
LEMMA NoneActiveFacts == ActiveInv(NoneActive, {}, [b \in Block |-> << >>], 0)
<1>1. NoneActive.expirations = {} /\ \A b \in Block : NoneActive.counts[b] = 0
  BY DEF NoneActive
<1>2. NoneActive = [expirations |-> NoneActive.expirations, counts |-> NoneActive.counts]
  BY DEF NoneActive
<1>3. \A b \in Block : Expiring({}, b) = {}
  BY DEF Expiring
<1>4. IsFiniteSet({}) /\ Cardinality({}) = 0
  BY FS_EmptySet
<1>5. \A b \in Block : DOMAIN [x \in Block |-> << >>][b] = {}
  OBVIOUS
<1>6. QED
  BY <1>1, <1>2, <1>3, <1>4, <1>5 DEF ActiveInv

(* Time passes.                                                            *)
LEMMA ActiveLater ==
    ASSUME NEW act, NEW asked, NEW history \in [Block -> Seq(Nat)],
           NEW t \in Nat, ActiveInv(act, asked, history, t), NEW later \in Nat, t <= later
    PROVE  ActiveInv(act, asked, history, later)
<1>1. ASSUME NEW b \in Block, NEW i \in DOMAIN history[b], later < history[b][i] + HistoryWindow
      PROVE  t < history[b][i] + HistoryWindow
  <2>1. history[b][i] \in Nat
    OBVIOUS
  <2>2. QED
    BY <1>1, <2>1, HistoryAssumption
<1>2. QED
  BY <1>1 DEF ActiveInv

(* advance: what is due is counted no more.                                *)
LEMMA AdvanceFacts ==
    ASSUME NEW act, NEW asked, NEW history, NEW t \in Nat, ActiveInv(act, asked, history, t)
    PROVE  ActiveInv(Advance(act, t), asked, history, t)
<1> DEFINE due1 == Due(act, t)
           rest == act.expirations \ due1
           new == Advance(act, t)
<1>1. /\ act.expirations \subseteq Expiration /\ IsFiniteSet(act.expirations)
      /\ \A e \in act.expirations : e.request \in asked
      /\ \A b \in Block : act.counts[b] = Cardinality(Expiring(act.expirations, b))
      /\ \A b \in Block : \A i \in DOMAIN history[b] :
            t < history[b][i] + HistoryWindow =>
                \E e \in act.expirations :
                    e.time = history[b][i] + HistoryWindow /\ b \in Chain[e.chain]
  BY DEF ActiveInv
<1>2. /\ new = [expirations |-> new.expirations, counts |-> new.counts]
      /\ new.expirations = rest
      /\ \A b \in Block : new.counts[b] = act.counts[b] - Cardinality(Expiring(due1, b))
  BY DEF Advance, Expiring
<1>3. due1 = {e \in act.expirations : e.time <= t}
  BY DEF Due
<1> HIDE DEF due1, new
<1>4. rest \subseteq Expiration /\ IsFiniteSet(rest)
  BY <1>1, FS_Subset
<1>5. ASSUME NEW b \in Block PROVE new.counts[b] = Cardinality(Expiring(rest, b))
  <2> DEFINE A == Expiring(act.expirations, b)
             D == Expiring(due1, b)
  <2>1. IsFiniteSet(A) /\ A \subseteq act.expirations
    BY <1>1, FS_Subset DEF Expiring
  <2>2. Expiring(rest, b) = A \ D /\ A \cap D = D
    BY <1>3 DEF Expiring
  <2> HIDE DEF A, D
  <2>3. Cardinality(A \ D) = Cardinality(A) - Cardinality(A \cap D)
    BY <2>1, FS_Difference
  <2>4. QED
    BY <1>1, <1>2, <2>2, <2>3 DEF A, D
<1>6. ASSUME NEW b \in Block, NEW i \in DOMAIN history[b], t < history[b][i] + HistoryWindow
      PROVE  \E e \in rest : e.time = history[b][i] + HistoryWindow /\ b \in Chain[e.chain]
  <2>1. PICK e \in act.expirations : e.time = history[b][i] + HistoryWindow /\ b \in Chain[e.chain]
    BY <1>1, <1>6
  <2>2. e.time \in Nat /\ ~(e.time <= t)
    BY <1>1, <1>6, <2>1 DEF Expiration
  <2>3. QED
    BY <1>3, <2>1, <2>2
<1>7. QED
  BY <1>1, <1>2, <1>4, <1>5, <1>6 DEF ActiveInv, new

(* observe: a new request makes its chains active.                         *)
LEMMA ActivateFacts ==
    ASSUME NEW act, NEW asked, NEW history \in [Block -> Seq(Nat)], NEW t \in Nat,
           ActiveInv(act, asked, history, t), NEW r \in Request, r \notin asked, NEW n \in Node
    PROVE  ActiveInv(Activate(act, r, n, t), asked \cup {r},
                     [b \in Block |-> IF b \in Chain[n] THEN Append(history[b], t) ELSE history[b]], t)
<1> DEFINE x == [time |-> t + HistoryWindow, request |-> r, chain |-> n]
           new == Activate(act, r, n, t)
           more == act.expirations \cup {x}
           longer == [b \in Block |-> IF b \in Chain[n] THEN Append(history[b], t) ELSE history[b]]
<1>1. /\ act.expirations \subseteq Expiration /\ IsFiniteSet(act.expirations)
      /\ \A e \in act.expirations : e.request \in asked
      /\ \A b \in Block : act.counts[b] = Cardinality(Expiring(act.expirations, b))
      /\ \A b \in Block : \A i \in DOMAIN history[b] :
            t < history[b][i] + HistoryWindow =>
                \E e \in act.expirations :
                    e.time = history[b][i] + HistoryWindow /\ b \in Chain[e.chain]
  BY DEF ActiveInv
<1>2. /\ new = [expirations |-> new.expirations, counts |-> new.counts]
      /\ new.expirations = more
      /\ \A b \in Block : new.counts[b] = IF b \in Chain[n] THEN act.counts[b] + 1 ELSE act.counts[b]
  BY DEF Activate
<1>3. x \in Expiration /\ x \notin act.expirations /\ x.chain = n /\ x.request = r
      /\ x.time = t + HistoryWindow
  BY <1>1, HistoryAssumption DEF Expiration
<1> HIDE DEF new, x
<1>4. more \subseteq Expiration /\ IsFiniteSet(more)
  BY <1>1, <1>3, FS_AddElement
<1>5. ASSUME NEW b \in Block PROVE new.counts[b] = Cardinality(Expiring(more, b))
  <2> DEFINE A == Expiring(act.expirations, b)
  <2>1. IsFiniteSet(A)
    BY <1>1, FS_Subset DEF Expiring
  <2>2. x \notin A
    BY <1>3 DEF Expiring
  <2>3. Expiring(more, b) = IF b \in Chain[n] THEN A \cup {x} ELSE A
    BY <1>3 DEF Expiring
  <2> HIDE DEF A
  <2>4. Cardinality(A \cup {x}) = Cardinality(A) + 1
    BY <2>1, <2>2, FS_AddElement
  <2>5. QED
    BY <1>1, <1>2, <2>3, <2>4 DEF A
<1>6. ASSUME NEW b \in Block, NEW i \in DOMAIN longer[b], t < longer[b][i] + HistoryWindow
      PROVE  \E e \in more : e.time = longer[b][i] + HistoryWindow /\ b \in Chain[e.chain]
  <2>1. history[b] \in Seq(Nat)
    OBVIOUS
  <2>2. CASE i \in DOMAIN history[b]
    <3>1. longer[b][i] = history[b][i]
      BY <2>1, <2>2
    <3>2. QED
      BY <1>1, <1>6, <2>2, <3>1
  <2>3. CASE i \notin DOMAIN history[b]
    <3>1. b \in Chain[n] /\ longer[b][i] = t
      BY <2>1, <2>3
    <3>2. QED
      BY <1>3, <3>1
  <2>4. QED
    BY <2>2, <2>3
<1> HIDE DEF longer
<1>7. \A e \in more : e.request \in asked \cup {r}
  BY <1>1, <1>3
<1>8. ActiveInv(new, asked \cup {r}, longer, t)
  BY <1>2, <1>4, <1>5, <1>6, <1>7 DEF ActiveInv
<1>9. QED
  BY <1>8 DEF new, longer

(* A chain with demand in the window is listed.                            *)
LEMMA DemandIsActive ==
    ASSUME NEW act, NEW asked, NEW history \in [Block -> Seq(Nat)], NEW t \in Nat,
           ActiveInv(act, asked, history, t), NEW b \in Block, DemandCounts(history, t)[b] > 0
    PROVE  b \in Positive(act)
<1> DEFINE W == {i \in DOMAIN history[b] : history[b][i] <= t /\ t < history[b][i] + HistoryWindow}
           A == Expiring(act.expirations, b)
<1>1. Cardinality(W) > 0
  BY DEF DemandCounts, DemandCount
<1> HIDE DEF W
<1>2. W # {}
  <2>1. CASE W = {}
    <3>1. Cardinality(W) = 0
      BY <2>1, FS_EmptySet
    <3>2. FALSE
      BY <1>1, <3>1
    <3>3. QED
      BY <3>2
  <2>2. QED
    BY <2>1
<1>3. PICK i \in W : TRUE
  BY <1>2
<1>4. A # {}
  BY <1>3 DEF ActiveInv, Expiring, W
<1>5. IsFiniteSet(A)
  <2>1. A \subseteq act.expirations /\ IsFiniteSet(act.expirations)
    BY DEF Expiring, ActiveInv
  <2>2. QED
    BY <2>1, FS_Subset
<1>6. act.counts[b] = Cardinality(A)
  BY DEF ActiveInv
<1> HIDE DEF A
<1>7. Cardinality(A) \in Nat /\ Cardinality(A) # 0
  BY <1>4, <1>5, FS_CardinalityType, FS_EmptySet
<1>8. QED
  BY <1>6, <1>7 DEF Positive

-----------------------------------------------------------------------------
(* The engine *)

(* What a request observes are chains of full pages.                       *)
LEMMA ObservedFacts ==
    ASSUME NEW n \in Node
    PROVE  /\ Observed(n) \in Node /\ Chain[Observed(n)] \subseteq FullPage
           /\ Chain[Observed(n)] \subseteq Block
<1>1. /\ Observed(n) \in Node
      /\ Chain[Observed(n)] = PagesWithin(n, FullPage)
  BY LongestFacts DEF Observed, FullPagePrefix
<1>2. Chain[n] \subseteq Block /\ \A b \in Block : b \in Chain[b]
  BY ChainFacts DEF Node
<1>3. Chain[Observed(n)] \subseteq FullPage
  BY <1>1, <1>2 DEF PagesWithin
<1>4. QED
  BY <1>1, <1>3, ChainFacts

Stage2Inv ==
    /\ PureQueries /\ ProactivePolicy = "PERSISTENCE"
    /\ CoreInv
    /\ seen \subseteq FullPage
    /\ Exact(index, PagesOf(caches), transfers, seen)
    /\ ActiveInv(active, Arrived, demand, now)

(* The constant schedule of this engine is affinity routing with copies,   *)
(* and a query of the load changes nothing.                                *)
LEMMA ConstantPolicies ==
    ASSUME Stage2Inv
    PROVE  RoutingPolicy = "R_AFF" /\ ProactivePolicy # "NONE" /\ \A ld, t : Query(ld, t) = ld
BY PolicyAssumption DEF Stage2Inv, Query

(* Before the first request the index is exact: nothing is held, covered   *)
(* or seen.                                                                *)
LEMMA Stage2InitKeeps == Stage2Init => Stage2Inv
<1> SUFFICES ASSUME Stage2Init PROVE Stage2Inv
  OBVIOUS
<1>1. /\ Init /\ index = EmptyIndex /\ active = NoneActive
      /\ PureQueries /\ ProactivePolicy = "PERSISTENCE"
  BY DEF Stage2Init
<1>2. CoreInv
  BY <1>1, InitKeeps DEF EngineInv
<1>3. /\ caches = [p \in Pod |-> EmptyCache] /\ transfers = << >> /\ seen = {}
      /\ demand = [b \in Block |-> << >>] /\ now = 0 /\ load = IdleLoad
  BY <1>1 DEF Init
<1>4. Arrived = {}
  BY <1>3 DEF Arrived, Committed, IdleLoad
<1>5. \A p \in Pod : PagesOf(caches)[p] = {}
  BY <1>3 DEF PagesOf, EmptyCache
<1>6. \A p \in Pod, b \in Block : Cardinality(Coverers(transfers, p, b)) = 0
  <2>1. \A p \in Pod, b \in Block : Coverers(transfers, p, b) = {}
    BY <1>3 DEF Coverers, Flying
  <2>2. QED
    BY <2>1, FS_EmptySet
<1>7. EmptyIndex \in IndexType
  BY DEF EmptyIndex, IndexType, Category
<1>8. /\ \A b \in Block : EmptyIndex.holders[b] = {}
      /\ \A b \in Block, p \in Pod : EmptyIndex.covered[b][p] = 0
      /\ \A b \in Block : EmptyIndex.category[b] = "UNSEEN"
  BY DEF EmptyIndex
<1>9. Exact(index, PagesOf(caches), transfers, seen)
  BY <1>1, <1>3, <1>5, <1>6, <1>7, <1>8 DEF Exact
<1>10. ActiveInv(active, Arrived, demand, now)
  BY <1>1, <1>3, <1>4, NoneActiveFacts
<1>11. QED
  BY <1>1, <1>2, <1>3, <1>9, <1>10 DEF Stage2Inv

(* The assignment, the index and the active demand that the opportunity of *)
(* Stage2Arrive sees.                                                      *)
Served2(r, n) == Assignment(r, n, Source(n), Source(n), RouteHit(n), RouteHit(n), 0)

Published2(r, n) ==
    IndexFinish(Observe(index, Observed(n), seen), Source(n), n, RouteHit(n), SeenWith(n))

Advanced2(r, n) == Advance(Activate(active, r, Observed(n), now), now)

(* The opportunity of an arrival sees sound pods, an exact index and every *)
(* demand that is in the window.                                           *)
LEMMA ArrivalFacts ==
    ASSUME Stage2Inv, NEW r, NEW n, Arrives(r, n)
    PROVE  LET pods == PodsAfter(Served2(r, n), FALSE)
           IN  /\ r \in Request /\ n \in Block /\ Served2(r, n) \in AssignmentRecord
               /\ PodsInv(pods, transfers, {})
               /\ SeenWith(n) \subseteq FullPage
               /\ DemandWith(n) \in [Block -> Seq(Nat)]
               /\ Exact(Published2(r, n), PagesOf(pods), transfers, SeenWith(n))
               /\ ActiveInv(Advanced2(r, n), Arrived \cup {r}, DemandWith(n), now)
<1> DEFINE s == Source(n)
           hit == RouteHit(n)
           a == Served2(r, n)
           pods == PodsAfter(a, FALSE)
           x == Observed(n)
<1>1. /\ CoreInv /\ seen \subseteq FullPage
      /\ Exact(index, PagesOf(caches), transfers, seen)
      /\ ActiveInv(active, Arrived, demand, now)
  BY DEF Stage2Inv
<1>2. /\ Held = {} /\ r \in Request /\ r \notin Committed(load) /\ n \in Block /\ n \in Node
  BY <1>1, ArrivesFacts
<1>3. s \in Pod /\ hit \in Node /\ \A p \in Pod : Sound(caches[p])
  BY <1>1, <1>2, RouteFacts
<1>4. a = [request |-> r, path |-> n, pod |-> s, source |-> s,
           routeHit |-> hit, hit |-> hit, transfer |-> 0]
  BY DEF Served2, Assignment
<1> HIDE DEF s, hit, a
<1>5. a \in AssignmentRecord /\ a.pod = s /\ a.path = n /\ a.hit = hit
  BY <1>2, <1>3, <1>4 DEF AssignmentRecord
<1>6. /\ now \in Nat /\ demand \in [Block -> Seq(Nat)] /\ transfers \in Seq(TransferType)
      /\ PodsInv(caches, transfers, {}) /\ caches \in [Pod -> Cache]
  BY <1>1, <1>2 DEF CoreInv, TypeOK, Ledgered, PodsInv
<1>7. pods = [caches EXCEPT ![s] = FinishOn(@, n, hit, FALSE)]
  BY <1>5 DEF PodsAfter
<1>8. PodsInv(pods, transfers, {})
  <2> DEFINE protected == FALSE
             held == {}
  <2>1. /\ protected \in BOOLEAN /\ ~protected /\ held \in SUBSET AssignmentRecord
        /\ IsFiniteSet(held) /\ PodsInv(caches, transfers, held) /\ (protected => a \in held)
    BY <1>6, FS_EmptySet
  <2>2. pods = [caches EXCEPT ![a.pod] = FinishOn(@, a.path, a.hit, protected)]
    BY DEF PodsAfter
  <2> HIDE DEF protected, held, pods
  <2>3. PodsInv([caches EXCEPT ![a.pod] = FinishOn(@, a.path, a.hit, protected)], transfers,
                IF protected THEN held \ {a} ELSE held)
    BY <1>5, <1>6, <2>1, FinishKeeps
  <2>4. PodsInv(pods, transfers, held)
    BY <2>1, <2>2, <2>3
  <2>5. QED
    BY <2>4 DEF held
<1>9. x \in Node /\ Chain[x] \subseteq FullPage /\ Chain[x] \subseteq Block
  BY <1>2, ObservedFacts
<1>10. SeenWith(n) = seen \cup Chain[x] /\ SeenWith(n) \subseteq FullPage
  BY <1>1, <1>9 DEF SeenWith
<1>11. DemandWith(n) = [b \in Block |-> IF b \in Chain[x] THEN Append(demand[b], now) ELSE demand[b]]
  BY DEF DemandWith
<1>12. DemandWith(n) \in [Block -> Seq(Nat)]
  <2>1. \A b \in Block : Append(demand[b], now) \in Seq(Nat)
    BY <1>6
  <2>2. QED
    BY <1>6, <1>11, <2>1
<1> HIDE DEF x, pods
<1>13. Exact(Published2(r, n), PagesOf(pods), transfers, SeenWith(n))
  <2> DEFINE ix == Observe(index, x, seen)
  <2>1. Exact(ix, PagesOf(caches), transfers, SeenWith(n))
    BY <1>1, <1>10, ObserveExact
  <2>2. Published2(r, n) = IndexFinish(ix, s, n, hit, SeenWith(n))
    BY DEF Published2, s, hit, x
  <2> HIDE DEF ix
  <2>3. Exact(IndexFinish(ix, s, n, hit, SeenWith(n)),
              PagesOf([caches EXCEPT ![s] = FinishOn(@, n, hit, FALSE)]), transfers, SeenWith(n))
    BY <1>2, <1>3, <1>6, <2>1, IndexFinishExact
  <2>4. QED
    BY <1>7, <2>2, <2>3
<1>14. ActiveInv(Advanced2(r, n), Arrived \cup {r}, DemandWith(n), now)
  <2> DEFINE new == Activate(active, r, x, now)
  <2>1. r \notin Arrived
    BY <1>2 DEF Arrived
  <2> DEFINE asked == Arrived
             longer == [b \in Block |-> IF b \in Chain[x] THEN Append(demand[b], now) ELSE demand[b]]
  <2>2. ActiveInv(active, asked, demand, now) /\ r \notin asked
    BY <1>1, <2>1
  <2> HIDE DEF asked, new, longer
  <2>3. ActiveInv(new, asked \cup {r}, longer, now)
    BY <1>2, <1>6, <1>9, <2>2, ActivateFacts DEF new, longer
  <2>4. ActiveInv(new, Arrived \cup {r}, DemandWith(n), now)
    BY <1>11, <2>3 DEF asked, longer
  <2>5. ActiveInv(Advance(new, now), Arrived \cup {r}, DemandWith(n), now)
    BY <1>6, <2>4, AdvanceFacts
  <2>6. QED
    BY <2>5 DEF Advanced2, new, x
<1>15. QED
  BY <1>2, <1>5, <1>8, <1>10, <1>12, <1>13, <1>14 DEF pods, a

(* An opportunity that is offered the candidates with demand only.         *)
LEMMA SameOpportunity ==
    ASSUME NEW request, NEW pods, NEW loads, NEW cs, DOMAIN cs \subseteq Block, NEW P,
           NEW counts, \A b \in Block : counts[b] \in Nat,
           \A b \in DOMAIN cs : counts[b] > 0 => b \in P,
           Opportunity(request, pods, loads, Among(cs, P), counts)
    PROVE  Opportunity(request, pods, loads, cs, counts)
<1> DEFINE view == Among(cs, P)
           rows == Startable(pods, cs, counts)
           chain == FirstOf(rows, counts)
<1>1. /\ Startable(pods, view, counts) = rows
      /\ rows # {} => /\ view[chain] = cs[chain]
                      /\ ProactiveTargets(pods, view, chain) = ProactiveTargets(pods, cs, chain)
  BY ViewSuffices
<1>2. Opportunity(request, pods, loads, view, counts)
  OBVIOUS
<1> HIDE DEF view, rows
<1>3. CASE ProactivePolicy = "NONE" \/ rows = {}
  BY <1>1, <1>2, <1>3 DEF Opportunity, rows
<1>4. CASE ProactivePolicy # "NONE" /\ rows # {}
  <2>1. /\ view[chain].source = cs[chain].source
        /\ ProactiveTargets(pods, view, chain) = ProactiveTargets(pods, cs, chain)
    BY <1>1, <1>4
  <2>2. /\ caches' = StartCopy(pods, NextTransferId, chain, view[chain].source,
                               LeastLoaded(ProactiveTargets(pods, view, chain), loads))
        /\ transfers' = Append(transfers,
               TransferRecord(request, "PROACTIVE", chain, view[chain].source,
                              LeastLoaded(ProactiveTargets(pods, view, chain), loads)))
        /\ ready' = ready \cup {ReadyEvent(request, chain)}
    BY <1>1, <1>2, <1>4 DEF Opportunity
  <2>3. QED
    BY <1>4, <2>1, <2>2 DEF Opportunity, rows
<1>5. QED
  BY <1>3, <1>4

(* Serving a request with the index is serving it with the scan.           *)
LEMMA ArriveImplements ==
    ASSUME Stage2Inv, NEW r, NEW n, Stage2Arrive(r, n)
    PROVE  ArriveAtSource(r, n, RoutingPolicy)
<1> DEFINE a == Served2(r, n)
           ld == CommitLoad(load, r, Source(n), MissOf(n, RouteHit(n)), now)
           pods == PodsAfter(a, FALSE)
           chains == SeenWith(n)
           history == DemandWith(n)
           counts == DemandCounts(history, now)
           loads == LoadVector(ld, now)
           cs == Candidates(pods, transfers, chains)
           P == Positive(Advanced2(r, n))
<1>1. a.request = r /\ a.pod = Source(n) /\ a.hit = RouteHit(n)
  BY DEF Served2, Assignment
<1>2. /\ Arrives(r, n)
      /\ Opportunity(r, pods, loads, IndexedCandidates(Published2(r, n), P), counts)
      /\ load' = Query(ld, now) /\ served' = served \cup {a}
      /\ seen' = SeenWith(n) /\ demand' = DemandWith(n)
      /\ UNCHANGED <<now, stage, pending, batch>>
  BY DEF Stage2Arrive, Assignment, Served2, Published2, Advanced2
<1>3. /\ PodsInv(pods, transfers, {})
      /\ chains \subseteq FullPage /\ history \in [Block -> Seq(Nat)]
      /\ Exact(Published2(r, n), PagesOf(pods), transfers, chains)
      /\ ActiveInv(Advanced2(r, n), Arrived \cup {r}, history, now)
  BY <1>2, ArrivalFacts
<1>4. /\ transfers \in Seq(TransferType) /\ now \in Nat
      /\ \A p \in Pod : Sound(pods[p])
  BY <1>3 DEF Stage2Inv, CoreInv, TypeOK, Ledgered, PodsInv
<1>5. P \subseteq Block
  BY DEF Positive
<1> HIDE DEF pods, chains, history, loads, P
<1>6. IndexedCandidates(Published2(r, n), P) = Among(cs, P)
  BY <1>3, <1>4, <1>5, ViewIsScan
<1>7. \A b \in Block : counts[b] \in Nat /\ (counts[b] > 0 => b \in P)
  BY <1>3, <1>4, DemandType, DemandIsActive DEF P
<1>8. DOMAIN cs \subseteq Block
  BY <1>3, PartialTailAssumption DEF Candidates
<1> HIDE DEF counts, cs
<1>9. Opportunity(r, pods, loads, cs, counts)
  BY <1>2, <1>6, <1>7, <1>8, SameOpportunity
<1>10. Finish(a, FALSE, ld, chains, history)
  BY <1>1, <1>2, <1>9 DEF Finish, pods, loads, cs, counts
<1>11. ~Reassign(n, RoutingPolicy)
  BY ConstantPolicies DEF Reassign
<1>12. QED
  BY <1>2, <1>10, <1>11 DEF ArriveAtSource, ServeNow, a, Served2, ld, chains, history

(* The index is exact after the hooks of an arrival.                       *)
LEMMA ArriveKeepsIndex ==
    ASSUME Stage2Inv, NEW r, NEW n, Stage2Arrive(r, n)
    PROVE  /\ Exact(index', PagesOf(caches'), transfers', seen')
           /\ ActiveInv(active', Arrived', demand', now')
           /\ seen' \subseteq FullPage
<1> DEFINE a == Served2(r, n)
           ld == CommitLoad(load, r, Source(n), MissOf(n, RouteHit(n)), now)
           pods == PodsAfter(a, FALSE)
           chains == SeenWith(n)
           history == DemandWith(n)
           counts == DemandCounts(history, now)
           loads == LoadVector(ld, now)
           cs == Candidates(pods, transfers, chains)
<1>1. a.request = r
  BY DEF Served2, Assignment
<1>2. /\ Arrives(r, n)
      /\ index' = IF transfers' = transfers
                    THEN Published2(r, n)
                    ELSE IndexStart(Published2(r, n), pods, transfers'[NextTransferId], chains)
      /\ active' = Advanced2(r, n) /\ load' = Query(ld, now)
      /\ seen' = chains /\ demand' = history /\ now' = now
  BY DEF Stage2Arrive, Assignment, Served2, Published2, Advanced2
<1>3. /\ r \in Request /\ n \in Block /\ PodsInv(pods, transfers, {})
      /\ chains \subseteq FullPage /\ history \in [Block -> Seq(Nat)]
      /\ Exact(Published2(r, n), PagesOf(pods), transfers, chains)
      /\ ActiveInv(Advanced2(r, n), Arrived \cup {r}, history, now)
  BY <1>2, ArrivalFacts
<1>4. /\ NextTransferId \in Transfer /\ r \notin Committed(load) /\ n \in Node
      /\ Source(n) \in Pod /\ RouteHit(n) \in Node
  <2>1. CoreInv
    BY DEF Stage2Inv
  <2>2. NextTransferId \in Transfer /\ r \notin Committed(load) /\ n \in Node
    BY <1>2, <2>1, ArrivesFacts
  <2>3. QED
    BY <2>1, <2>2, RouteFacts
<1>5. /\ transfers \in Seq(TransferType) /\ now \in Nat
      /\ load \in LoadType /\ WindowInv(load) /\ load.last <= now
  BY DEF Stage2Inv, CoreInv, TypeOK, LoadInv, Ledgered
<1>6. ld \in LoadType /\ WindowInv(ld) /\ ld.last = now /\ Committed(ld) = Committed(load) \cup {r}
  <2> DEFINE miss == MissOf(n, RouteHit(n))
             p == Source(n)
  <2>1. miss \in Nat
    BY <1>4, MissOfType
  <2>2. p \in Pod
    BY <1>4
  <2> HIDE DEF miss, p
  <2>3. QED
    BY <1>3, <1>4, <1>5, <2>1, <2>2, CommitFacts DEF miss, p
<1>7. Arrived' = Arrived \cup {r}
  BY <1>2, <1>6, ConstantPolicies DEF Arrived
<1>8. \A p \in Pod : loads[p] \in Nat
  <2>1. ld.last <= now
    BY <1>5, <1>6
  <2>2. QED
    BY <1>5, <1>6, <2>1, QueryFacts
<1>9. \A b \in Block : counts[b] \in Nat
  BY <1>3, DemandType
<1>10. Opportunity(r, pods, loads, cs, counts)
  BY <1>1, ArriveImplements DEF ArriveAtSource, ServeNow, Finish, Served2
<1> HIDE DEF pods, chains, history, counts, loads, ld
<1>11. CASE Startable(pods, cs, counts) = {}
  <2>1. caches' = pods /\ transfers' = transfers
    BY <1>10, <1>11 DEF Opportunity
  <2>2. QED
    BY <1>2, <1>3, <1>7, <2>1
<1>12. CASE Startable(pods, cs, counts) # {}
  <2> DEFINE chain == FirstOf(Startable(pods, cs, counts), counts)
             source == cs[chain].source
             target == LeastLoaded(ProactiveTargets(pods, cs, chain), loads)
             rec == TransferRecord(r, "PROACTIVE", chain, source, target)
             id == NextTransferId
             ix == Published2(r, n)
  <2>1. /\ caches' = StartCopy(pods, id, chain, source, target)
        /\ transfers' = Append(transfers, rec)
    BY <1>10, <1>12, ConstantPolicies DEF Opportunity
  <2>2. /\ chain \in Block /\ source \in Pod /\ target \in Pod
        /\ CanCopy(pods, source, target, chain)
    <3>1. chains \in SUBSET Block
      BY <1>3, PartialTailAssumption
    <3> HIDE DEF chain, source, target
    <3>2. QED
      BY <1>8, <1>9, <1>12, <3>1, ChoiceFacts DEF chain, source, target, cs
  <2> HIDE DEF chain, source, target, ix
  <2>3. /\ rec \in TransferType /\ rec.status = "IN_FLIGHT"
        /\ rec.source = source /\ rec.target = target /\ rec.chain = chain
        /\ transfers'[id] = rec
        /\ Len(transfers') = Len(transfers) + 1
    <3> DEFINE type == "PROACTIVE"
               old == TransferRecord(r, type, chain, source, target)
               more == Append(transfers, old)
    <3>1. type \in {"REACTIVE", "PROACTIVE"} /\ r \in Request /\ old = rec
      BY <1>3
    <3> HIDE DEF type, rec
    <3>2. transfers \in Seq(TransferType) /\ now \in Nat
      BY <1>5
    <3>3. /\ old \in TransferType /\ old.status = "IN_FLIGHT"
          /\ old.source = source /\ old.target = target /\ old.chain = chain
      BY <2>2, <3>1, <3>2, RecordFacts
    <3>4. transfers' = more /\ old = TransferRecord(r, type, chain, source, target)
      BY <2>1, <3>1
    <3>5. more = Append(transfers, TransferRecord(r, type, chain, source, target))
      OBVIOUS
    <3> HIDE DEF more, old, id
    <3>6. Len(more) = Len(transfers) + 1
      BY <2>2, <3>1, <3>2, <3>5, RecordFacts
    <3>7. more[NextTransferId] = old
      BY <3>2, <3>3, <3>4, <3>5 DEF NextTransferId
    <3>8. QED
      BY <3>1, <3>3, <3>4, <3>6, <3>7 DEF id
  <2>4. transfers' # transfers
    <3>1. Len(transfers) \in Nat
      BY <1>5
    <3>2. QED
      BY <2>3, <3>1
  <2>5. index' = IndexStart(ix, pods, rec, chains)
    BY <1>2, <2>3, <2>4 DEF ix
  <2>6. pods[target].temporary[id] = 0
    <3>1. id \notin Flying(transfers)
      <4>1. Len(transfers) \in Nat /\ DOMAIN transfers = 1 .. Len(transfers)
        BY <1>5
      <4>2. QED
        BY <4>1 DEF Flying, NextTransferId
    <3>2. QED
      BY <1>3, <1>4, <2>2, <3>1 DEF PodsInv, BuffersOwned
  <2> HIDE DEF rec, id
  <2>7. /\ pods \in [Pod -> Cache] /\ \A p \in Pod : Sound(pods[p])
    BY <1>3 DEF PodsInv
  <2>8. /\ id \in Transfer /\ pods[rec.target].temporary[id] = 0
        /\ CanCopy(pods, rec.source, rec.target, rec.chain)
        /\ Exact(ix, PagesOf(pods), transfers, chains)
    BY <1>3, <1>4, <2>2, <2>3, <2>6 DEF id, ix
  <2>9. Exact(IndexStart(ix, pods, rec, chains),
              PagesOf(StartCopy(pods, id, rec.chain, rec.source, rec.target)),
              Append(transfers, rec), chains)
    BY <1>5, <2>3, <2>7, <2>8, IndexStartExact
  <2>10. QED
    BY <1>2, <1>3, <1>7, <2>1, <2>3, <2>5, <2>9
<1>13. QED
  BY <1>11, <1>12

(* The index is exact after the hooks of a delivery; the transfer it is    *)
(* told of is the one that was delivered.                                  *)
LEMMA DeliverKeepsIndex ==
    ASSUME Stage2Inv, Stage2Deliver
    PROVE  Exact(index', PagesOf(caches'), transfers', seen')
<1>1. /\ CoreInv /\ seen \subseteq FullPage /\ Exact(index, PagesOf(caches), transfers, seen)
      /\ Deliver
  BY DEF Stage2Inv, Stage2Deliver
<1>2. /\ transfers \in Seq(TransferType) /\ ready = Events(transfers)
      /\ PodsInv(caches, transfers, Held) /\ load \in LoadType
      /\ Len(transfers) <= Cardinality(Arrived)
  BY <1>1 DEF CoreInv, Ledgered, TypeOK
<1>3. PICK e \in ReadyNow :
         LET t == transfers[e.transfer]
         IN  /\ caches' = [caches EXCEPT
                    ![t.target] = CompleteTransfer(@, e.transfer, t.chain),
                    ![t.source] = Unpin(@, t.chain)]
             /\ transfers' = [transfers EXCEPT ![e.transfer].status = "COMPLETED"]
  BY <1>1 DEF Deliver
<1>4. PICK i \in Flying(transfers) : e = EventOf(transfers, i)
  BY <1>2 DEF ReadyNow, Events
<1> DEFINE t == transfers[i]
           q == [caches EXCEPT ![t.target] = CompleteTransfer(@, i, t.chain),
                               ![t.source] = Unpin(@, t.chain)]
           less == [transfers EXCEPT ![i].status = "COMPLETED"]
<1>5. caches' = q /\ transfers' = less /\ seen' = seen
  <2>1. e.transfer = i
    BY <1>4 DEF EventOf
  <2>2. QED
    BY <1>1, <1>3, <2>1 DEF Deliver
<1>6. i \in Transfer
  <2>1. i \in 1 .. Len(transfers) /\ Len(transfers) \in Nat
    BY <1>2 DEF Flying
  <2>2. /\ Cardinality(Arrived) \in Nat /\ Cardinality(Request) \in Nat
        /\ Cardinality(Arrived) <= Cardinality(Request)
    BY <1>2, ArrivedFacts DEF Arrived
  <2>3. i \in 1 .. Cardinality(Request)
    BY <1>2, <2>1, <2>2
  <2>4. QED
    BY <2>3, TransferIdAssumption
<1>7. (CHOOSE j \in InFlightTransfers : transfers'[j].status = "COMPLETED") = i
  <2>1. InFlightTransfers = Flying(transfers)
    BY DEF InFlightTransfers, Flying
  <2>2. Flying(less) = Flying(transfers) \ {i} /\ \A j \in Flying(less) : less[j] = transfers[j]
    BY <1>2, CompletedFacts
  <2>3. \A j \in Flying(transfers) : transfers[j].status = "IN_FLIGHT"
    BY DEF Flying
  <2>4. less[i].status = "COMPLETED"
    <3>1. i \in DOMAIN transfers /\ transfers[i] \in TransferType
      BY <1>2, FlyingType
    <3>2. transfers[i] = [transfers[i] EXCEPT !.status = transfers[i].status]
      BY <3>1 DEF TransferType
    <3>3. less[i] = [transfers[i] EXCEPT !.status = "COMPLETED"]
      BY <1>2, <3>1
    <3>4. QED
      BY <3>1, <3>3 DEF TransferType
  <2> HIDE DEF less
  <2>5. \A j \in InFlightTransfers : less[j].status = "COMPLETED" <=> j = i
    BY <2>1, <2>2, <2>3, <2>4
  <2>6. QED
    BY <1>5, <2>1, <2>5
<1>8. index' = IndexDelivery(index, t)
  BY <1>7 DEF Stage2Deliver
<1>9. /\ caches \in [Pod -> Cache] /\ \A p \in Pod : Sound(caches[p])
      /\ transfers[i].source # transfers[i].target
      /\ seen \subseteq Block
  BY <1>1, <1>2, PartialTailAssumption DEF PodsInv
<1>10. Exact(IndexDelivery(index, t), PagesOf(q), less, seen)
  BY <1>1, <1>2, <1>6, <1>9, IndexDeliveryExact
<1>11. QED
  BY <1>5, <1>8, <1>10

(* The batch is empty and its pins move no page.                           *)
LEMMA ProtectKeepsPages ==
    ASSUME CoreInv, Protect
    PROVE  PagesOf(caches') = PagesOf(caches)
<1>1. caches' = [p \in Pod |-> PinEach(caches[p], {a \in batch : a.pod = p})]
  BY DEF Protect
<1>2. ASSUME NEW p \in Pod PROVE caches'[p].pages = caches[p].pages
  <2> DEFINE c == caches[p]
             here == {a \in batch : a.pod = p}
  <2>1. Sound(c) /\ IsFiniteSet(here)
    BY FS_Subset DEF CoreInv, Ledgered, PodsInv, WaitInv
  <2>2. caches'[p] = PinEach(c, here)
    BY <1>1
  <2> HIDE DEF c, here
  <2>3. PinEach(c, here).pages = c.pages
    BY <2>1, PinEachFacts
  <2>4. QED
    BY <2>2, <2>3 DEF c
<1>3. QED
  BY <1>2 DEF PagesOf

(* Every step of the indexed engine is a step of the frozen loop and keeps *)
(* the index exact.                                                        *)
LEMMA Stage2Step ==
    ASSUME Stage2Inv, [Stage2Next]_stage2vars
    PROVE  [Next]_vars /\ Stage2Inv'
<1>1. /\ CoreInv /\ seen \subseteq FullPage
      /\ Exact(index, PagesOf(caches), transfers, seen)
      /\ ActiveInv(active, Arrived, demand, now)
  BY DEF Stage2Inv
<1>2. CASE (Tick \/ Protect \/ BatchDone \/ ArrivalsDone \/ Stop) /\ UNCHANGED <<index, active>>
  <2>1. index' = index /\ active' = active /\ [Next]_vars
    BY <1>2 DEF Next
  <2>2. CoreInv'
    BY <1>1, <1>2, TickKeeps, ProtectStep, MoveOnStep, StutterKeeps DEF Stop
  <2>3. /\ transfers' = transfers /\ seen' = seen /\ demand' = demand /\ load' = load
    BY <1>2 DEF Tick, Protect, BatchDone, ArrivalsDone, Stop, vars
  <2>4. PagesOf(caches') = PagesOf(caches)
    <3>1. CASE Protect
      BY <1>1, <3>1, ProtectKeepsPages
    <3>2. CASE Tick \/ BatchDone \/ ArrivalsDone \/ Stop
      <4>1. caches' = caches
        BY <3>2 DEF Tick, BatchDone, ArrivalsDone, Stop, vars
      <4>2. QED
        BY <4>1
    <3>3. QED
      BY <1>2, <3>1, <3>2
  <2>5. ActiveInv(active, Arrived, demand, now')
    <3>1. CASE Tick
      <4>1. now \in Nat /\ now' \in Nat /\ now <= now'
        BY <1>1, <3>1, TickForward
      <4>2. demand \in [Block -> Seq(Nat)]
        BY <1>1 DEF CoreInv, TypeOK
      <4> DEFINE later == now'
                 asked == Arrived
      <4>3. later \in Nat /\ now <= later /\ ActiveInv(active, asked, demand, now)
        BY <1>1, <4>1
      <4> HIDE DEF later, asked
      <4>4. ActiveInv(active, asked, demand, later)
        BY <4>1, <4>2, <4>3, ActiveLater
      <4>5. QED
        BY <4>4 DEF later, asked
    <3>2. CASE Protect \/ BatchDone \/ ArrivalsDone \/ Stop
      <4>1. now' = now
        BY <3>2 DEF Protect, BatchDone, ArrivalsDone, Stop, vars
      <4>2. QED
        BY <1>1, <4>1
    <3>3. QED
      BY <1>2, <3>1, <3>2
  <2>6. Arrived' = Arrived
    BY <2>3 DEF Arrived
  <2>7. QED
    BY <1>1, <2>1, <2>2, <2>3, <2>4, <2>5, <2>6 DEF Stage2Inv
<1>3. CASE Stage2Deliver
  <2>1. Deliver /\ active' = active
    BY <1>3 DEF Stage2Deliver
  <2>2. CoreInv' /\ [Next]_vars
    BY <1>1, <2>1, DeliverStep DEF Next
  <2>3. Exact(index', PagesOf(caches'), transfers', seen')
    BY <1>3, DeliverKeepsIndex
  <2>4. seen' = seen /\ demand' = demand /\ now' = now /\ Arrived' = Arrived
    BY <2>1 DEF Deliver, Arrived
  <2>5. QED
    BY <1>1, <2>1, <2>2, <2>3, <2>4 DEF Stage2Inv
<1>4. ASSUME NEW r \in Request, NEW n \in Block, Stage2Arrive(r, n)
      PROVE  [Next]_vars /\ Stage2Inv'
  <2>1. ArriveAtSource(r, n, RoutingPolicy)
    BY <1>4, ArriveImplements
  <2>2. CoreInv'
    BY <1>1, <2>1, AtSourceStep
  <2>3. Next
    BY <2>1 DEF Next
  <2>4. /\ Exact(index', PagesOf(caches'), transfers', seen')
        /\ ActiveInv(active', Arrived', demand', now')
        /\ seen' \subseteq FullPage
    BY <1>4, ArriveKeepsIndex
  <2>5. QED
    BY <2>2, <2>3, <2>4 DEF Stage2Inv
<1>5. CASE UNCHANGED stage2vars
  <2>1. UNCHANGED vars /\ index' = index /\ active' = active
    BY <1>5 DEF stage2vars
  <2>2. CoreInv'
    BY <1>1, <2>1, StutterKeeps
  <2>3. /\ transfers' = transfers /\ seen' = seen /\ demand' = demand /\ load' = load
        /\ caches' = caches /\ now' = now
    BY <2>1 DEF vars
  <2>4. Arrived' = Arrived
    BY <2>3 DEF Arrived
  <2>5. QED
    BY <1>1, <2>1, <2>2, <2>3, <2>4 DEF Stage2Inv
<1>6. QED
  BY <1>2, <1>3, <1>4, <1>5 DEF Stage2Next

-----------------------------------------------------------------------------
(* The index is exact, and the active demand complete, at every step.      *)
THEOREM Stage2Invariant == Stage2Spec => []Stage2Inv
<1>1. Stage2Init => Stage2Inv
  BY Stage2InitKeeps
<1>2. Stage2Inv /\ [Stage2Next]_stage2vars => Stage2Inv'
  BY Stage2Step
<1>3. QED
  BY <1>1, <1>2, PTL DEF Stage2Spec

(* The engine with the index implements the event loop with the scan: with *)
(* its index forgotten, every run of stage2/engine.py is one of the frozen *)
(* engine.py under affinity routing and the same proactive policy.         *)
THEOREM IndexedEngineImplements == Stage2Spec => Spec
<1>1. Stage2Init => Init
  BY DEF Stage2Init
<1>2. Stage2Inv /\ [Stage2Next]_stage2vars => [Next]_vars
  BY Stage2Step
<1>3. QED
  BY <1>1, <1>2, Stage2Invariant, PTL DEF Stage2Spec, Spec

(* Between handlers the index answers what the scan of candidates.py would *)
(* find, and knows the reason for every chain that is no candidate.        *)
THEOREM IndexAlwaysAgrees == Stage2Spec => []IndexAgrees
<1>1. Stage2Inv => IndexAgrees
  <2>1. SUFFICES ASSUME Stage2Inv PROVE IndexAgrees
    OBVIOUS
  <2> DEFINE scan == Candidates(caches, transfers, seen)
  <2>2. /\ seen \in SUBSET FullPage /\ Exact(index, PagesOf(caches), transfers, seen)
        /\ transfers \in Seq(TransferType) /\ \A p \in Pod : Sound(caches[p])
    BY <2>1 DEF Stage2Inv, CoreInv, Ledgered, PodsInv
  <2>3. IndexedCandidates(index, Block) = scan
    <3>1. IndexedCandidates(index, Block) = Among(scan, Block)
      BY <2>2, ViewIsScan
    <3>2. Block \cap DOMAIN scan = DOMAIN scan
      BY <2>2, PartialTailAssumption DEF Candidates
    <3>3. scan = [b \in DOMAIN scan |-> scan[b]]
      BY DEF Candidates
    <3> HIDE DEF scan
    <3>4. QED
      BY <3>1, <3>2, <3>3 DEF Among
  <2>4. \A b \in seen \ DOMAIN scan :
            index.category[b] =
                IF Holders(caches, b) = {} THEN "NO_SOURCE"
                ELSE IF Holders(caches, b) = Pod THEN "NO_TARGET" ELSE "INFLIGHT_COVERED"
    BY <2>2, CategoryFacts
  <2>5. QED
    BY <2>3, <2>4 DEF IndexAgrees
<1>2. QED
  BY <1>1, Stage2Invariant, PTL

(* What a request that is served starts is what the frozen engine would    *)
(* start of the pods the request left, or nothing if that would start      *)
(* nothing.                                                                *)
LEMMA ArriveDecides ==
    ASSUME Stage2Inv, NEW r, NEW n, Stage2Arrive(r, n), NEW a \in served' \ served
    PROVE  LET pods       == PodsAfter(a, FALSE)
               counts     == DemandCounts(demand', now)
               candidates == Candidates(pods, transfers, seen')
               rows       == Startable(pods, candidates, counts)
               chain      == FirstOf(rows, counts)
               started    == transfers'[NextTransferId]
           IN  /\ transfers' = transfers <=> rows = {}
               /\ rows # {} =>
                      /\ started.chain = chain
                      /\ started.source = candidates[chain].source
                      /\ started.target =
                             LeastLoaded(ProactiveTargets(pods, candidates, chain),
                                         LoadVector(load', now))
<1> DEFINE pods == PodsAfter(a, FALSE)
           counts == DemandCounts(demand', now)
           cs == Candidates(pods, transfers, seen')
           rows == Startable(pods, cs, counts)
           chain == FirstOf(rows, counts)
           source == cs[chain].source
           loads == LoadVector(load', now)
           target == LeastLoaded(ProactiveTargets(pods, cs, chain), loads)
           started == transfers'[NextTransferId]
           rec == TransferRecord(r, "PROACTIVE", chain, source, target)
<1>1. a = Served2(r, n) /\ a.request = r
  <2>1. served' = served \cup {Served2(r, n)}
    BY DEF Stage2Arrive, Served2
  <2>2. Served2(r, n).request = r
    BY DEF Served2, Assignment
  <2>3. QED
    BY <2>1, <2>2
<1>2. Opportunity(r, pods, loads, cs, counts)
  <2>1. ArriveAtSource(r, n, RoutingPolicy)
    BY ArriveImplements
  <2> DEFINE ld == CommitLoad(load, r, Source(n), MissOf(n, RouteHit(n)), now)
  <2>2. /\ Finish(Served2(r, n), FALSE, ld, SeenWith(n), DemandWith(n))
        /\ seen' = SeenWith(n) /\ demand' = DemandWith(n)
    BY <2>1 DEF ArriveAtSource, ServeNow, Served2
  <2>3. load' = Query(ld, now)
    BY <2>2 DEF Finish
  <2> HIDE DEF ld
  <2>4. load' = ld
    BY <2>3, ConstantPolicies
  <2>5. QED
    BY <1>1, <2>2, <2>4 DEF Finish
<1>3. transfers \in Seq(TransferType)
  BY DEF Stage2Inv, CoreInv, Ledgered
<1> HIDE DEF pods, counts, cs, loads, rows
<1>4. rows = {} => transfers' = transfers
  BY <1>2 DEF Opportunity, rows
<1>5. CASE rows # {}
  <2>1. transfers' = Append(transfers, rec)
    BY <1>2, <1>5, ConstantPolicies DEF Opportunity, rows
  <2>2. rec.chain = chain /\ rec.source = source /\ rec.target = target
    BY DEF TransferRecord
  <2> HIDE DEF rec, chain, source, target
  <2>3. Len(transfers) \in Nat /\ Len(transfers') = Len(transfers) + 1 /\ transfers'[Len(transfers) + 1] = rec
    BY <1>3, <2>1
  <2>4. transfers' # transfers
    BY <2>3
  <2>5. started = rec
    BY <2>3 DEF NextTransferId
  <2> HIDE DEF started
  <2>6. transfers' # transfers /\ started.chain = chain /\ started.source = source /\ started.target = target
    BY <2>2, <2>4, <2>5
  <2>7. QED
    BY <1>5, <2>6 DEF pods, counts, cs, loads, rows, chain, source, target, started
<1>6. QED
  BY <1>4, <1>5 DEF pods, counts, cs, loads, rows

(* Every copy the index decides is the copy the scan would have decided of *)
(* the same state (stage2/engine.py and index.py against candidates.py).   *)
THEOREM IndexDecidesAsScan == Stage2Spec => DecidesAsScan
<1> DEFINE Decides(a) ==
        LET pods       == PodsAfter(a, FALSE)
            counts     == DemandCounts(demand', now)
            candidates == Candidates(pods, transfers, seen')
            rows       == Startable(pods, candidates, counts)
            chain      == FirstOf(rows, counts)
            started    == transfers'[NextTransferId]
        IN  /\ transfers' = transfers <=> rows = {}
            /\ rows # {} =>
                   /\ started.chain = chain
                   /\ started.source = candidates[chain].source
                   /\ started.target =
                          LeastLoaded(ProactiveTargets(pods, candidates, chain),
                                      LoadVector(load', now))
<1>1. Stage2Inv /\ [Stage2Next]_stage2vars => [\A a \in served' \ served : Decides(a)]_stage2vars
  <2>1. SUFFICES ASSUME Stage2Inv, Stage2Next, NEW a \in served' \ served PROVE Decides(a)
    OBVIOUS
  <2>2. CASE (Tick \/ Protect \/ BatchDone \/ ArrivalsDone \/ Stop) /\ UNCHANGED <<index, active>>
    <3>1. served' = served
      BY <2>2 DEF Tick, Protect, BatchDone, ArrivalsDone, Stop, vars
    <3>2. QED
      BY <2>1, <3>1
  <2>3. CASE Stage2Deliver
    <3>1. served' = served
      BY <2>3 DEF Stage2Deliver, Deliver
    <3>2. QED
      BY <2>1, <3>1
  <2>4. ASSUME NEW r \in Request, NEW n \in Block, Stage2Arrive(r, n) PROVE Decides(a)
    BY <2>1, <2>4, ArriveDecides
  <2>5. QED
    BY <2>1, <2>2, <2>3, <2>4 DEF Stage2Next
<1>2. QED
  BY <1>1, Stage2Invariant, PTL DEF Stage2Spec, DecidesAsScan

(* The indexed engine never brings a chain to a pod twice either.          *)
THEOREM IndexCoversOnce == Stage2Spec => []NoDoubleCoverage
BY IndexedEngineImplements, NoChainIsCoveredTwice, PTL

(***************************************************************************)
(* The moves of Stage D2                                                   *)
(***************************************************************************)

-----------------------------------------------------------------------------
(* Counting in a deque *)

(* Among the entries A of a deque of length n, those among its first g and *)
(* the others, which stand g earlier once the first g are dropped.         *)
HeadOf(A, g) == {i \in 1 .. g : i \in A}

TailOf(A, n, g) == {i \in 1 .. (n - g) : i + g \in A}

(* What is counted in a deque is what is counted in these two parts.       *)
LEMMA CountSplit ==
    ASSUME NEW n \in Nat, NEW g \in 0 .. n, NEW A \in SUBSET (1 .. n)
    PROVE  /\ Cardinality(HeadOf(A, g)) \in Nat /\ Cardinality(TailOf(A, n, g)) \in Nat
           /\ Cardinality(A) = Cardinality(HeadOf(A, g)) + Cardinality(TailOf(A, n, g))
<1> DEFINE head == {i \in 1 .. g : i \in A}
           tail == {i \in 1 .. (n - g) : i + g \in A}
           rest == A \ head
           f == [i \in tail |-> i + g]
<1>1. g \in Nat /\ n - g \in Nat
  OBVIOUS
<1>2. IsFiniteSet(A) /\ IsFiniteSet(head) /\ IsFiniteSet(rest) /\ IsFiniteSet(tail)
  <2>1. IsFiniteSet(1 .. n) /\ IsFiniteSet(1 .. (n - g))
    BY <1>1, FS_Interval
  <2>2. head \subseteq A /\ rest \subseteq A /\ tail \subseteq 1 .. (n - g)
    OBVIOUS
  <2> HIDE DEF head, rest, tail
  <2>3. IsFiniteSet(A)
    BY <2>1, FS_Subset
  <2>4. QED
    BY <2>1, <2>2, <2>3, FS_Subset
<1>3. Cardinality(tail) = Cardinality(rest)
  <2>1. \A i \in tail : i \in Nat /\ i + g \in rest
    BY <1>1
  <2>2. f \in [tail -> rest] /\ \A i \in tail : f[i] = i + g
    BY <2>1
  <2>3. \A x \in rest : x - g \in tail /\ (x - g) + g = x
    BY <1>1
  <2> HIDE DEF f, tail, rest, head
  <2>4. \A i, j \in tail : f[i] = f[j] => i = j
    BY <1>1, <2>1, <2>2
  <2>5. \A x \in rest : \E i \in tail : f[i] = x
    BY <2>2, <2>3
  <2>6. f \in Bijection(tail, rest)
    BY <2>2, <2>4, <2>5 DEF Bijection, Injection, Surjection, IsInjective
  <2>7. QED
    BY <1>2, <2>6, FS_Bijection DEF ExistsBijection
<1>4. Cardinality(A) = Cardinality(head) + Cardinality(rest)
  <2>1. head \cup rest = A /\ head \cap rest = {}
    OBVIOUS
  <2> HIDE DEF head, rest
  <2>2. Cardinality(head \cup rest) =
           Cardinality(head) + Cardinality(rest) - Cardinality(head \cap rest)
    BY <1>2, FS_Union
  <2>3. Cardinality(head) \in Nat /\ Cardinality(rest) \in Nat /\ Cardinality(head \cap rest) = 0
    BY <1>2, <2>1, FS_CardinalityType, FS_EmptySet
  <2>4. Cardinality(head \cup rest) = Cardinality(A)
    BY <2>1, Zenon
  <2>5. QED
    BY <2>2, <2>3, <2>4
<1>5. Cardinality(head) \in Nat /\ Cardinality(tail) \in Nat
  BY <1>2, FS_CardinalityType
<1>6. head = HeadOf(A, g) /\ tail = TailOf(A, n, g)
  BY DEF HeadOf, TailOf
<1> HIDE DEF head, tail, rest
<1>7. Cardinality(A) = Cardinality(head) + Cardinality(tail)
  BY <1>3, <1>4
<1>8. QED
  BY <1>5, <1>6, <1>7, Zenon

(* One more entry is one more in the count, if it counts.                  *)
LEMMA CountMore ==
    ASSUME NEW n \in Nat, NEW A \in SUBSET (1 .. n), NEW B \in {A, A \cup {n + 1}}
    PROVE  Cardinality(B) = IF n + 1 \in B THEN Cardinality(A) + 1 ELSE Cardinality(A)
<1>1. IsFiniteSet(A) /\ n + 1 \notin A
  <2>1. IsFiniteSet(1 .. n)
    BY FS_Interval
  <2>2. IsFiniteSet(A)
    BY <2>1, FS_Subset
  <2>3. n + 1 \notin 1 .. n
    OBVIOUS
  <2>4. QED
    BY <2>2, <2>3
<1>2. Cardinality(A \cup {n + 1}) = Cardinality(A) + 1
  BY <1>1, FS_AddElement
<1>3. QED
  BY <1>1, <1>2

-----------------------------------------------------------------------------
(* The online history *)

OnlineEvent == [time : Nat, chain : Node]

OnlineType == [counts : [Block -> Int], events : Seq(OnlineEvent)]

(* The entries that name page b, and those of them that count at time t.   *)
Naming(events, b) == {i \in DOMAIN events : b \in Chain[events[i].chain]}

Live(events, b, t) == {i \in Naming(events, b) : t < events[i].time + HistoryWindow}

InDequeOrder(events, t) ==
    /\ \A i, j \in DOMAIN events : i <= j => events[i].time <= events[j].time
    /\ \A i \in DOMAIN events : events[i].time <= t

(* The counts are those of the deque, and whatever the deque has forgotten *)
(* will not count at any later time either.                                *)
OnlineInv(on, history, t) ==
    /\ on \in OnlineType
    /\ InDequeOrder(on.events, t)
    /\ \A b \in Block : on.counts[b] = Cardinality(Naming(on.events, b))
    /\ \A b \in Block, later \in Nat :
          later >= t => Cardinality(Live(on.events, b, later)) = DemandCount(history, b, later)

(* The entries of a deque.                                                 *)
LEMMA DequeFacts ==
    ASSUME NEW events \in Seq(OnlineEvent)
    PROVE  /\ Len(events) \in Nat /\ DOMAIN events = 1 .. Len(events)
           /\ \A i \in DOMAIN events : events[i].time \in Nat /\ events[i].chain \in Node
           /\ \A b, t : /\ Naming(events, b) \in SUBSET (1 .. Len(events))
                        /\ Live(events, b, t) \in SUBSET (1 .. Len(events))
<1>1. Len(events) \in Nat /\ DOMAIN events = 1 .. Len(events)
      /\ \A i \in DOMAIN events : events[i] \in OnlineEvent
  OBVIOUS
<1>2. \A e \in OnlineEvent : e.time \in Nat /\ e.chain \in Node
  BY DEF OnlineEvent
<1>3. QED
  BY <1>1, <1>2 DEF Naming, Live

(* The deque is in the order of time, so what is outdated is its head.     *)
LEMMA OutdatedFacts ==
    ASSUME NEW events \in Seq(OnlineEvent), InDequeOrder(events, now), now \in Nat
    PROVE  /\ Outdated(events) \in 0 .. Len(events)
           /\ \A i \in 1 .. Outdated(events) : events[i].time + HistoryWindow <= now
           /\ \A i \in (Outdated(events) + 1) .. Len(events) :
                 now < events[i].time + HistoryWindow
<1> DEFINE S == {k \in 0 .. Len(events) : \A i \in 1 .. k : events[i].time + HistoryWindow <= now}
           T == {Len(events) - k : k \in S}
<1>1. Len(events) \in Nat /\ DOMAIN events = 1 .. Len(events)
      /\ \A i \in 1 .. Len(events) : events[i].time \in Nat
  BY DequeFacts
<1>2. 0 \in S
  BY <1>1
<1>3. T \in SUBSET Nat /\ Len(events) \in T
  <2>1. \A k \in S : k \in 0 .. Len(events)
    OBVIOUS
  <2> HIDE DEF S
  <2>2. \A k \in S : Len(events) - k \in Nat
    BY <1>1, <2>1
  <2>3. Len(events) - 0 \in T /\ Len(events) - 0 = Len(events)
    BY <1>1, <1>2
  <2>4. QED
    BY <2>2, <2>3
<1>4. PICK l \in T : \A j \in T : l <= j
  <2> HIDE DEF T
  <2>1. QED
    BY <1>3, LeastNat
<1>5. PICK k \in S : l = Len(events) - k
  OBVIOUS
<1>6. \A y \in S : k >= y
  <2>1. TAKE y \in S
  <2>2. Len(events) - y \in T /\ y \in Nat /\ k \in Nat
    OBVIOUS
  <2>3. Len(events) - k <= Len(events) - y
    BY <1>4, <1>5, <2>2
  <2>4. QED
    BY <1>1, <2>2, <2>3
<1> DEFINE g == Outdated(events)
<1>7. g \in S /\ \A y \in S : g >= y
  <2>1. g = Max(S)
    BY DEF Outdated
  <2> HIDE DEF S, g
  <2>2. QED
    BY <1>6, <2>1 DEF Max
<1>8. g \in 0 .. Len(events) /\ (\A i \in 1 .. g : events[i].time + HistoryWindow <= now)
  <2> HIDE DEF g
  <2>1. QED
    BY <1>7
<1>9. g + 1 \notin S
  <2> HIDE DEF S, g
  <2>1. QED
    BY <1>7, <1>8
<1> HIDE DEF g
<1>10. ASSUME NEW i \in (g + 1) .. Len(events) PROVE now < events[i].time + HistoryWindow
  <2>1. g \in Nat /\ g + 1 \in 1 .. Len(events) /\ i \in 1 .. Len(events) /\ g + 1 <= i
    BY <1>1, <1>8
  <2>2. PICK j \in 1 .. (g + 1) : ~(events[j].time + HistoryWindow <= now)
    BY <1>9, <2>1
  <2>3. j = g + 1
    BY <1>8, <2>1, <2>2
  <2>4. events[g + 1].time <= events[i].time
    BY <1>1, <2>1 DEF InDequeOrder
  <2>5. events[i].time \in Nat /\ events[g + 1].time \in Nat /\ HistoryWindow \in Nat
    BY <1>1, <2>1, HistoryAssumption
  <2>6. QED
    BY <2>2, <2>3, <2>4, <2>5
<1>11. QED
  BY <1>8, <1>10 DEF g

(* _prepare drops from the deque what no longer counts and takes it off    *)
(* the counts, which are then those of the window.                         *)
LEMMA PreparedKeeps ==
    ASSUME NEW on, NEW history, OnlineInv(on, history, now), now \in Nat
    PROVE  /\ OnlineInv(Prepared(on), history, now)
           /\ \A b \in Block : Prepared(on).counts[b] = DemandCount(history, b, now)
<1> DEFINE events == on.events
           g == Outdated(events)
           left == SubSeq(events, g + 1, Len(events))
           head(b) == {i \in 1 .. g : b \in Chain[events[i].chain]}
<1>1. /\ on \in OnlineType /\ events \in Seq(OnlineEvent) /\ InDequeOrder(events, now)
      /\ \A b \in Block : on.counts[b] = Cardinality(Naming(events, b))
      /\ \A b \in Block, later \in Nat :
            later >= now => Cardinality(Live(events, b, later)) = DemandCount(history, b, later)
  BY DEF OnlineInv, OnlineType
<1>2. /\ Prepared(on).events = left
      /\ Prepared(on) = [counts |-> Prepared(on).counts, events |-> left]
      /\ Prepared(on).counts = [b \in Block |-> on.counts[b] - Cardinality(head(b))]
  BY DEF Prepared
<1> DEFINE n == Len(events)
<1> HIDE DEF events, g, left
<1>3. /\ n \in Nat /\ DOMAIN events = 1 .. n
      /\ \A i \in 1 .. n : events[i].time \in Nat /\ events[i].chain \in Node
      /\ \A b, t : Naming(events, b) \in SUBSET (1 .. n) /\ Live(events, b, t) \in SUBSET (1 .. n)
  BY <1>1, DequeFacts
<1> HIDE DEF n
<1>4. /\ g \in 0 .. n
      /\ \A i \in 1 .. g : events[i].time + HistoryWindow <= now
      /\ \A i \in (g + 1) .. n : now < events[i].time + HistoryWindow
  BY <1>1, OutdatedFacts DEF g, n
<1>5. /\ left \in Seq(OnlineEvent) /\ DOMAIN left = 1 .. (n - g)
      /\ \A i \in 1 .. (n - g) : left[i] = events[i + g] /\ i + g \in 1 .. n
  <2>1. n \in Nat /\ g \in 0 .. n /\ events \in Seq(OnlineEvent) /\ n = Len(events)
        /\ left = SubSeq(events, g + 1, n)
    BY <1>1, <1>3, <1>4 DEF n, left
  <2>2. Len(left) = n - g /\ left \in Seq(OnlineEvent)
    BY <2>1
  <2>3. \A i \in 1 .. (n - g) : left[i] = events[i + g]
    BY <2>1
  <2>4. QED
    BY <2>1, <2>2, <2>3
<1>6. ASSUME NEW b \in Block, NEW t \in Nat, t >= now
      PROVE  Cardinality(Live(left, b, t)) = Cardinality(Live(events, b, t))
  <2> DEFINE A == Live(events, b, t)
             first == HeadOf(A, g)
             rest == TailOf(A, n, g)
  <2>1. first = {}
    <3>1. SUFFICES ASSUME NEW i \in 1 .. g, i \in A PROVE FALSE
      BY DEF HeadOf
    <3>2. events[i].time \in Nat /\ events[i].time + HistoryWindow <= now /\ i \in 1 .. n
      BY <1>3, <1>4, <3>1
    <3>3. t < events[i].time + HistoryWindow
      BY <3>1 DEF Live
    <3>4. QED
      BY <1>6, <3>2, <3>3, HistoryAssumption
  <2>2. rest = Live(left, b, t)
    BY <1>3, <1>5 DEF Live, Naming, TailOf
  <2>3. A \in SUBSET (1 .. n)
    BY <1>3
  <2> HIDE DEF A
  <2>4. /\ Cardinality(A) = Cardinality(first) + Cardinality(rest)
        /\ Cardinality(rest) \in Nat
    BY <1>3, <1>4, <2>3, CountSplit
  <2>5. Cardinality(first) = 0
    BY <2>1, FS_EmptySet
  <2>6. Cardinality(A) = Cardinality(rest)
    BY <2>4, <2>5
  <2>7. QED
    BY <2>2, <2>6 DEF A
<1>7. ASSUME NEW b \in Block
      PROVE  Prepared(on).counts[b] = Cardinality(Naming(left, b))
  <2> DEFINE A == Naming(events, b)
             first == HeadOf(A, g)
             rest == TailOf(A, n, g)
  <2>1. first = head(b)
    BY <1>3, <1>4 DEF Naming, HeadOf
  <2>2. rest = Naming(left, b)
    BY <1>3, <1>5 DEF Naming, TailOf
  <2>3. A \in SUBSET (1 .. n)
    BY <1>3
  <2> HIDE DEF A
  <2>4. /\ Cardinality(A) = Cardinality(first) + Cardinality(rest)
        /\ Cardinality(first) \in Nat /\ Cardinality(rest) \in Nat
    BY <1>3, <1>4, <2>3, CountSplit
  <2> HIDE DEF head
  <2>5. Prepared(on).counts[b] = Cardinality(A) - Cardinality(first)
    BY <1>1, <1>2, <2>1 DEF A
  <2>6. QED
    BY <2>2, <2>4, <2>5
<1>8. InDequeOrder(left, now)
  <2>1. \A i, j \in 1 .. (n - g) : i <= j => i + g <= j + g
    BY <1>3, <1>4
  <2>2. QED
    BY <1>1, <1>3, <1>5, <2>1 DEF InDequeOrder
<1>9. Prepared(on) \in OnlineType
  <2>1. \A b \in Block : Prepared(on).counts[b] \in Int
    <3>1. TAKE b \in Block
    <3>2. Naming(left, b) \in SUBSET (1 .. Len(left)) /\ Len(left) \in Nat
      BY <1>5, DequeFacts
    <3>3. IsFiniteSet(1 .. Len(left))
      BY <3>2, FS_Interval
    <3>4. Cardinality(Naming(left, b)) \in Nat
      BY <3>2, <3>3, FS_Subset, FS_CardinalityType
    <3>5. QED
      BY <1>7, <3>4
  <2>2. Prepared(on).counts \in [Block -> Int]
    BY <1>2, <2>1
  <2>3. QED
    BY <1>2, <1>5, <2>2 DEF OnlineType
<1>10. OnlineInv(Prepared(on), history, now)
  BY <1>1, <1>2, <1>6, <1>7, <1>8, <1>9 DEF OnlineInv
<1>11. ASSUME NEW b \in Block
       PROVE  Prepared(on).counts[b] = DemandCount(history, b, now)
  <2>1. Live(left, b, now) = Naming(left, b)
    <3>1. \A i \in 1 .. (n - g) : i + g \in (g + 1) .. n
      BY <1>3, <1>4
    <3>2. \A i \in DOMAIN left : now < left[i].time + HistoryWindow
      BY <1>4, <1>5, <3>1
    <3>3. QED
      BY <3>2 DEF Live, Naming
  <2>2. now >= now
    OBVIOUS
  <2>3. Cardinality(Live(left, b, now)) = DemandCount(history, b, now)
    BY <1>1, <1>6, <2>2
  <2>4. QED
    BY <1>7, <2>1, <2>3
<1>12. QED
  BY <1>10, <1>11

(* observe registers an arrival in the deque, in the counts and, as the    *)
(* frozen engine does, in the demand.                                      *)
LEMMA ObserveKeeps ==
    ASSUME OnlineInv(online, demand, now), now \in Nat, demand \in [Block -> Seq(Nat)],
           NEW n \in Node
    PROVE  OnlineInv(ObserveOnline(online, n), DemandWith(n), now)
<1> DEFINE events == online.events
           m == Observed(n)
           event == [time |-> now, chain |-> m]
           more == Append(events, event)
           k == Len(events)
           counts == [b \in Block |-> IF b \in Chain[m] THEN online.counts[b] + 1
                                                        ELSE online.counts[b]]
<1>1. /\ online \in OnlineType /\ events \in Seq(OnlineEvent) /\ InDequeOrder(events, now)
      /\ \A b \in Block : online.counts[b] = Cardinality(Naming(events, b))
      /\ \A b \in Block, later \in Nat :
            later >= now => Cardinality(Live(events, b, later)) = DemandCount(demand, b, later)
  BY DEF OnlineInv, OnlineType
<1>2. m \in Node
  BY LongestFacts DEF Observed, FullPagePrefix
<1>3. event \in OnlineEvent /\ event.time = now /\ event.chain = m
  BY <1>2 DEF OnlineEvent
<1>4. ObserveOnline(online, n) = [counts |-> counts, events |-> more]
  <2>1. online = [counts |-> online.counts, events |-> online.events]
    BY <1>1 DEF OnlineType
  <2>2. ObserveOnline(online, n) = [online EXCEPT !.counts = counts, !.events = more]
    BY DEF ObserveOnline
  <2> HIDE DEF counts, more
  <2>3. QED
    BY <2>1, <2>2
<1> HIDE DEF event, m
<1>5. /\ k \in Nat /\ DOMAIN events = 1 .. k
      /\ \A i \in 1 .. k : events[i].time \in Nat
      /\ \A b, t : Naming(events, b) \in SUBSET (1 .. k) /\ Live(events, b, t) \in SUBSET (1 .. k)
  BY <1>1, DequeFacts
<1>6. /\ more \in Seq(OnlineEvent) /\ DOMAIN more = 1 .. (k + 1)
      /\ more[k + 1] = event /\ \A i \in 1 .. k : more[i] = events[i]
  BY <1>1, <1>3, <1>5
<1> HIDE DEF events, more, k
<1>7. ASSUME NEW b \in Block
      PROVE  Naming(more, b) = IF b \in Chain[m] THEN Naming(events, b) \cup {k + 1}
                                                 ELSE Naming(events, b)
  <2>1. 1 .. (k + 1) = (1 .. k) \cup {k + 1}
    BY <1>5
  <2>2. QED
    BY <1>3, <1>5, <1>6, <2>1 DEF Naming
<1>8. ASSUME NEW b \in Block
      PROVE  counts[b] = Cardinality(Naming(more, b))
  <2> DEFINE A == Naming(events, b)
             B == Naming(more, b)
  <2>1. A \in SUBSET (1 .. k) /\ B \in {A, A \cup {k + 1}} /\ (k + 1 \in B <=> b \in Chain[m])
        /\ online.counts[b] = Cardinality(A)
    <3>1. k + 1 \notin 1 .. k
      BY <1>5
    <3>2. QED
      BY <1>1, <1>5, <1>7, <3>1
  <2> HIDE DEF A, B
  <2>2. Cardinality(B) = IF k + 1 \in B THEN Cardinality(A) + 1 ELSE Cardinality(A)
    BY <1>5, <2>1, CountMore
  <2>3. QED
    BY <2>1, <2>2 DEF B
<1>9. ASSUME NEW b \in Block, NEW t \in Nat, t >= now
      PROVE  Cardinality(Live(more, b, t)) = DemandCount(DemandWith(n), b, t)
  <2> DEFINE counted == b \in Chain[m] /\ t < now + HistoryWindow
             h == demand[b]
             l == Len(h)
             j == Append(h, now)
             C == {i \in DOMAIN h : h[i] <= t /\ t < h[i] + HistoryWindow}
             D == {i \in DOMAIN DemandWith(n)[b] : /\ DemandWith(n)[b][i] <= t
                                                   /\ t < DemandWith(n)[b][i] + HistoryWindow}
             A == Live(events, b, t)
             B == Live(more, b, t)
  <2>1. /\ A \in SUBSET (1 .. k)
        /\ B = (IF counted THEN A \cup {k + 1} ELSE A)
    <3>1. Naming(events, b) \subseteq 1 .. k /\ k + 1 \notin 1 .. k
      <4>1. k + 1 \notin 1 .. k
        BY <1>5
      <4>2. Naming(events, b) \in SUBSET (1 .. k)
        BY <1>5
      <4>3. QED
        BY <4>1, <4>2
    <3>2. /\ more[k + 1].time = now
          /\ \A i \in Naming(events, b) : more[i].time = events[i].time
      BY <1>3, <1>6, <3>1
    <3>3. QED
      BY <1>7, <3>1, <3>2 DEF Live
  <2>2. Cardinality(B) = IF counted THEN Cardinality(A) + 1 ELSE Cardinality(A)
    <3>1. B \in {A, A \cup {k + 1}} /\ (k + 1 \in B <=> counted)
      <4>1. k + 1 \notin 1 .. k
        BY <1>5
      <4>2. QED
        BY <2>1, <4>1
    <3> HIDE DEF A, B, counted
    <3>2. Cardinality(B) = IF k + 1 \in B THEN Cardinality(A) + 1 ELSE Cardinality(A)
      BY <1>5, <2>1, <3>1, CountMore
    <3>3. QED
      BY <3>1, <3>2
  <2>3. h \in Seq(Nat) /\ l \in Nat /\ DOMAIN h = 1 .. l
    OBVIOUS
  <2>4. DOMAIN j = 1 .. (l + 1) /\ j[l + 1] = now /\ \A i \in 1 .. l : j[i] = h[i]
    BY <2>3
  <2>5. DemandWith(n)[b] = IF b \in Chain[m] THEN j ELSE h
    BY DEF DemandWith, m
  <2>6. D = IF counted THEN C \cup {l + 1} ELSE C
    <3> HIDE DEF h, l, j
    <3>1. 1 .. (l + 1) = (1 .. l) \cup {l + 1} /\ l + 1 \notin 1 .. l
      BY <2>3
    <3>2. CASE b \in Chain[m]
      <4>1. D = {i \in 1 .. (l + 1) : j[i] <= t /\ t < j[i] + HistoryWindow}
        BY <2>4, <2>5, <3>2
      <4>2. now <= t
        BY <1>9
      <4>3. QED
        BY <2>3, <2>4, <3>1, <3>2, <4>1, <4>2
    <3>3. CASE b \notin Chain[m]
      BY <2>5, <3>3
    <3>4. QED
      BY <3>2, <3>3
  <2>7. Cardinality(D) = IF counted THEN Cardinality(C) + 1 ELSE Cardinality(C)
    <3>1. C \in SUBSET (1 .. l) /\ D \in {C, C \cup {l + 1}} /\ (l + 1 \in D <=> counted)
      <4>1. C \in SUBSET (1 .. l)
        BY <2>3
      <4>2. l + 1 \notin 1 .. l
        BY <2>3
      <4> HIDE DEF C, D, l
      <4>3. QED
        BY <2>6, <4>1, <4>2
    <3>2. l \in Nat
      BY <2>3
    <3> HIDE DEF C, D, l, counted
    <3>3. Cardinality(D) = IF l + 1 \in D THEN Cardinality(C) + 1 ELSE Cardinality(C)
      BY <3>1, <3>2, CountMore
    <3>4. QED
      BY <3>1, <3>3
  <2>8. Cardinality(A) = DemandCount(demand, b, t) /\ Cardinality(C) = DemandCount(demand, b, t)
        /\ Cardinality(D) = DemandCount(DemandWith(n), b, t)
    BY <1>1, <1>9 DEF DemandCount
  <2> HIDE DEF A, B, C, D, counted
  <2>9. QED
    BY <2>2, <2>7, <2>8 DEF B
<1>10. InDequeOrder(more, now)
  <2>1. /\ \A i, j \in 1 .. k : i <= j => events[i].time <= events[j].time
        /\ \A i \in 1 .. k : events[i].time <= now
    BY <1>1, <1>5 DEF InDequeOrder
  <2>2. \A i \in 1 .. (k + 1) : more[i].time = IF i = k + 1 THEN now ELSE events[i].time
    BY <1>3, <1>5, <1>6
  <2>3. ASSUME NEW i \in 1 .. (k + 1), NEW j \in 1 .. (k + 1), i <= j
        PROVE  more[i].time <= more[j].time
    <3>1. CASE j = k + 1
      <4>1. more[j].time = now /\ more[i].time = IF i = k + 1 THEN now ELSE events[i].time
        BY <2>2, <3>1
      <4>2. i = k + 1 \/ i \in 1 .. k
        BY <1>5
      <4>3. QED
        BY <2>1, <4>1, <4>2
    <3>2. CASE j # k + 1
      <4>1. i \in 1 .. k /\ j \in 1 .. k /\ i # k + 1
        BY <1>5, <2>3, <3>2
      <4>2. more[j].time = events[j].time /\ more[i].time = events[i].time
        BY <2>2, <3>2, <4>1
      <4>3. QED
        BY <2>1, <2>3, <4>1, <4>2
    <3>3. QED
      BY <3>1, <3>2
  <2>4. \A i \in 1 .. (k + 1) : more[i].time <= now
    <3>1. \A i \in 1 .. (k + 1) : i = k + 1 \/ i \in 1 .. k
      BY <1>5
    <3>2. now <= now
      OBVIOUS
    <3>3. QED
      BY <2>1, <2>2, <3>1, <3>2
  <2>5. QED
    BY <1>6, <2>3, <2>4 DEF InDequeOrder
<1>11. ObserveOnline(online, n) \in OnlineType
  BY <1>1, <1>4, <1>6 DEF OnlineType
<1> HIDE DEF counts
<1>12. QED
  BY <1>4, <1>6, <1>8, <1>9, <1>10, <1>11 DEF OnlineInv

-----------------------------------------------------------------------------
(* The end of a move at its source *)

(* safe_release_suffix lets go of unpinned pages of the chain with what is *)
(* below them, and of nothing else.                                        *)
LEMMA SuffixFacts ==
    ASSUME NEW c, Sound(c), NEW n \in Node, NEW committed, NEW generations
    PROVE  LET e == SafeReleaseSuffix(c, committed, n, generations)
           IN  /\ Sound(e) /\ e.temporary = c.temporary
               /\ \A b \in Block : e.pins[b] = c.pins[b]
               /\ KeepsPinned(c, e)
               /\ c.pages \ e.pages \subseteq Chain[n]
<1> DEFINE gone == SafeSuffix(c, committed, n, generations)
           e == Evict(c, gone)
<1>1. c \in Cache /\ PrefixClosed(c) /\ WithinCapacity(c)
  BY DEF Sound
<1>2. gone \subseteq Chain[n] /\ Chain[n] \subseteq Block
  BY ChainFacts DEF SafeSuffix
<1>3. ASSUME NEW b \in gone
      PROVE  b \in c.pages /\ c.pins[b] = 0 /\ Children(c.pages \ gone, b) = {}
  <2>1. b \in Block /\ b \in Chain[b]
    BY <1>2, ChainFacts DEF Node
  <2>2. MayGo(c, committed, n, generations, b)
    BY <1>2, <2>1 DEF SafeSuffix
  <2>3. b \in c.pages /\ c.pins[b] = 0 /\ Children(c.pages, b) \subseteq Chain[n]
    BY <2>2 DEF MayGo
  <2>4. ASSUME NEW x \in c.pages, Parent[x] = b PROVE x \in gone
    <3>1. x \in Chain[n] /\ x \in Block /\ x \in Node
      BY <1>2, <2>3, <2>4 DEF Children, Node
    <3>2. \A y \in Chain[n] : x \in Chain[y] => b \in Chain[y]
      <4>1. TAKE y \in Chain[n]
      <4>2. HAVE x \in Chain[y]
      <4>3. Chain[x] \subseteq Chain[y]
        BY <1>2, <4>2, ChainAssumption DEF Node
      <4>4. b \in Chain[x]
        BY <2>1, <2>4, <3>1, ParentFacts
      <4>5. QED
        BY <4>3, <4>4
    <3>3. QED
      BY <3>1, <3>2 DEF SafeSuffix
  <2>5. QED
    BY <2>3, <2>4 DEF Children
<1> HIDE DEF gone
<1>4. /\ e \in Cache /\ PrefixClosed(e) /\ e.pages = c.pages \ gone
      /\ e.pins = [b \in Block |-> IF b \in gone THEN 0 ELSE c.pins[b]]
      /\ e.temporary = c.temporary
  BY <1>1, <1>2, <1>3, EvictFacts
<1> HIDE DEF e
<1>5. WithinCapacity(e)
  <2>1. TemporaryPages(e) = TemporaryPages(c)
    BY <1>4 DEF TemporaryPages, BufferSlots
  <2>2. /\ IsFiniteSet(c.pages) /\ Cardinality(c.pages) \in Nat
        /\ Cardinality(e.pages) \in Nat /\ TemporaryPages(c) \in Nat
    BY <1>1, <1>4, SizeFacts
  <2>3. Cardinality(e.pages) <= Cardinality(c.pages)
    <3>1. e.pages \in SUBSET c.pages
      BY <1>4
    <3>2. QED
      BY <2>2, <3>1, FS_Subset
  <2>4. QED
    BY <1>1, <2>1, <2>2, <2>3, CapacityAssumption DEF WithinCapacity, MemoryPages
<1> DEFINE f == SafeReleaseSuffix(c, committed, n, generations)
<1>6. f = IF gone = {} THEN c ELSE NextVersion(e)
  BY DEF SafeReleaseSuffix, Release, gone, e
<1> HIDE DEF f
<1>7. CASE gone = {}
  <2>1. f = c
    BY <1>6, <1>7
  <2>2. QED
    BY <2>1 DEF KeepsPinned, f
<1>8. CASE gone # {}
  <2>1. f = NextVersion(e)
    BY <1>6, <1>8
  <2>2. /\ f \in Cache /\ f.pages = e.pages /\ f.pins = e.pins /\ f.temporary = e.temporary
    BY <1>4, <2>1, VersionFacts
  <2>3. PrefixClosed(f) /\ WithinCapacity(f)
    BY <1>4, <1>5, <2>2 DEF PrefixClosed, WithinCapacity, MemoryPages, TemporaryPages, BufferSlots
  <2>4. \A b \in Block : f.pins[b] = c.pins[b]
    BY <1>3, <1>4, <2>2
  <2>5. KeepsPinned(c, f)
    BY <1>3, <1>4, <2>2 DEF KeepsPinned
  <2>6. c.pages \ f.pages \subseteq Chain[n]
    BY <1>2, <1>4, <2>2
  <2>7. QED
    BY <1>4, <2>2, <2>3, <2>4, <2>5, <2>6 DEF Sound, f
<1>9. QED
  BY <1>7, <1>8

(* A pod that only loses unpinned pages owes nobody anything.              *)
LEMMA ShrinkKeeps ==
    ASSUME NEW pods, NEW trs \in Seq(TransferType), PodsInv(pods, trs, {}),
           NEW p \in Pod, NEW e, Sound(e), e.temporary = pods[p].temporary,
           \A b \in Block : e.pins[b] = pods[p].pins[b], KeepsPinned(pods[p], e)
    PROVE  PodsInv([pods EXCEPT ![p] = e], trs, {})
<1> DEFINE q == [pods EXCEPT ![p] = e]
<1>1. /\ pods \in [Pod -> Cache] /\ (\A x \in Pod : Sound(pods[x]))
      /\ PinsOwned(pods, trs, {}) /\ BuffersOwned(pods, trs)
      /\ \A i \in Flying(trs) : /\ trs[i].source # trs[i].target
                                /\ Published(pods[trs[i].source], trs[i].chain)
  BY DEF PodsInv
<1>2. q \in [Pod -> Cache] /\ q[p] = e /\ \A x \in Pod \ {p} : q[x] = pods[x]
  BY <1>1 DEF Sound
<1> HIDE DEF q
<1>3. \A x \in Pod : /\ Sound(q[x]) /\ q[x].temporary = pods[x].temporary
                     /\ \A b \in Block : q[x].pins[b] = pods[x].pins[b]
                     /\ KeepsPinned(pods[x], q[x])
  <2>1. \A x \in Pod : KeepsPinned(pods[x], pods[x])
    BY DEF KeepsPinned
  <2>2. QED
    BY <1>1, <1>2, <2>1
<1>4. PinsOwned(q, trs, {}) /\ BuffersOwned(q, trs)
  BY <1>1, <1>3 DEF PinsOwned, BuffersOwned
<1>5. ASSUME NEW i \in Flying(trs) PROVE Published(q[trs[i].source], trs[i].chain)
  <2>1. trs[i].source \in Pod
    BY FlyingType
  <2>2. {} \in SUBSET AssignmentRecord /\ IsFiniteSet({})
    BY FS_EmptySet
  <2>3. \A b \in Chain[trs[i].chain] : pods[trs[i].source].pins[b] > 0
    BY <2>2, PinnedFacts
  <2>4. QED
    BY <1>1, <1>3, <2>1, <2>3, PublishedKept
<1>6. PodsInv(q, trs, {})
  BY <1>1, <1>2, <1>3, <1>4, <1>5 DEF PodsInv
<1>7. QED
  BY <1>6 DEF q

-----------------------------------------------------------------------------
(* The inductive invariant *)

(* Nothing ever waits for a move.                                          *)
MoveInv ==
    /\ RoutingPolicy = "R_AFF" /\ ~PureQueries
    /\ CoreInv
    /\ pending = {} /\ batch = {}
    /\ OnlineInv(online, demand, now)

(* No page leaves the cluster.                                             *)
Conserved == \A p \in Pod : \A b \in caches[p].pages : \E q \in Pod : b \in caches'[q].pages

(* The delivery of a move: the target has the chain before the source lets *)
(* go of any of it.                                                        *)
LEMMA DeliverMoveFacts ==
    ASSUME MoveInv, DeliverMove
    PROVE  CoreInv' /\ Conserved
<1>1. /\ TypeOK /\ Ledgered(caches, transfers, ready, Held) /\ Len(transfers) <= Cardinality(Arrived)
      /\ LoadInv /\ ClockInv /\ WaitInv /\ pending = {} /\ batch = {}
  BY DEF MoveInv, CoreInv
<1>2. /\ stage = "deliver" /\ stage' = stage /\ now' = now /\ due' = due /\ load' = load
      /\ pending' = pending /\ batch' = batch /\ served' = served /\ seen' = seen
      /\ demand' = demand
  BY DEF DeliverMove
<1>3. PICK e \in ReadyNow :
         LET t == transfers[e.transfer]
         IN  /\ caches' = [caches EXCEPT
                    ![t.target] = CompleteTransfer(@, e.transfer, t.chain),
                    ![t.source] = Released(@, e.transfer)]
             /\ transfers' = [transfers EXCEPT ![e.transfer].status = "COMPLETED"]
             /\ ready' = ready \ {e}
  BY DEF DeliverMove
<1>4. /\ transfers \in Seq(TransferType) /\ ready = Events(transfers)
      /\ NoDouble(transfers) /\ PodsInv(caches, transfers, {})
  BY <1>1, <1>2 DEF Ledgered, Held
<1>5. PICK i \in Flying(transfers) : e = EventOf(transfers, i)
  BY <1>4 DEF ReadyNow, Events
<1> DEFINE s == transfers[i].source
           t == transfers[i].target
           n == transfers[i].chain
           q == [caches EXCEPT ![t] = CompleteTransfer(@, i, n), ![s] = Unpin(@, n)]
           f == SafeReleaseSuffix(q[s], Unprotected, n, moves[i])
           less == [transfers EXCEPT ![i].status = "COMPLETED"]
<1>6. /\ caches' = [caches EXCEPT ![t] = CompleteTransfer(@, i, n), ![s] = Released(@, i)]
      /\ transfers' = less /\ ready' = ready \ {e}
  <2>1. e.transfer = i
    BY <1>5 DEF EventOf
  <2>2. QED
    BY <1>3, <2>1
<1>7. i \in Transfer
  <2>1. i \in 1 .. Len(transfers) /\ Len(transfers) \in Nat
    BY <1>4 DEF Flying
  <2>2. /\ Cardinality(Arrived) \in Nat /\ Cardinality(Request) \in Nat
        /\ Cardinality(Arrived) <= Cardinality(Request)
    BY <1>1, ArrivedFacts DEF TypeOK, Arrived
  <2>3. i \in 1 .. Cardinality(Request)
    BY <1>1, <2>1, <2>2
  <2>4. QED
    BY <2>3, TransferIdAssumption
<1>8. /\ PodsInv(q, less, {}) /\ Published(q[t], n)
      /\ \A p \in Pod : caches[p].pages \subseteq q[p].pages
  <2> HIDE DEF q, less
  <2>1. QED
    BY <1>4, <1>7, DeliverKeeps DEF q, less, s, t, n
<1>9. s \in Pod /\ t \in Pod /\ s # t /\ n \in Node /\ caches \in [Pod -> Cache]
  BY <1>4, FlyingType DEF PodsInv
<1>10. caches' = [q EXCEPT ![s] = f]
  <2>1. q[s] = Unpin(caches[s], n)
    BY <1>9
  <2>2. f = Released(caches[s], i)
    BY <2>1 DEF Released
  <2> HIDE DEF f, s, t, n
  <2>3. caches' = [caches EXCEPT ![t] = CompleteTransfer(@, i, n), ![s] = f]
    BY <1>6, <1>9, <2>2
  <2>4. QED
    BY <1>9, <2>3
<1>11. /\ less \in Seq(TransferType) /\ Len(less) = Len(transfers)
       /\ Flying(less) = Flying(transfers) \ {i}
       /\ Events(less) = Events(transfers) \ {EventOf(transfers, i)}
       /\ NoDouble(less)
  <2> HIDE DEF less
  <2>1. QED
    BY <1>4, CompletedFacts DEF less
<1> HIDE DEF q, less, s, t, n
<1>12. /\ Sound(f) /\ f.temporary = q[s].temporary
       /\ \A b \in Block : f.pins[b] = q[s].pins[b]
       /\ KeepsPinned(q[s], f)
       /\ q[s].pages \ f.pages \subseteq Chain[n]
  <2>1. Sound(q[s])
    BY <1>8, <1>9 DEF PodsInv
  <2>2. QED
    BY <1>9, <2>1, SuffixFacts
<1> HIDE DEF f
<1>13. PodsInv(caches', less, {})
  BY <1>8, <1>9, <1>10, <1>11, <1>12, ShrinkKeeps
<1>14. CoreInv'
  <2>1. TypeOK'
    BY <1>1, <1>2 DEF TypeOK
  <2>2. Ledgered(caches, transfers, ready, Held)'
    <3>1. Held' = {}
      BY <1>2 DEF Held
    <3>2. ready' = Events(less)
      BY <1>4, <1>5, <1>6, <1>11
    <3>3. QED
      BY <1>6, <1>11, <1>13, <3>1, <3>2 DEF Ledgered
  <2>3. (Len(transfers) <= Cardinality(Arrived))'
    BY <1>1, <1>2, <1>6, <1>11 DEF Arrived
  <2>4. LoadInv' /\ ClockInv'
    BY <1>1, <1>2, <1>6 DEF LoadInv, ClockInv, Remaining, Arrived
  <2>5. WaitInv'
    BY <1>1, <1>2 DEF WaitInv
  <2>6. QED
    BY <2>1, <2>2, <2>3, <2>4, <2>5 DEF CoreInv
<1>15. ASSUME NEW p \in Pod, NEW b \in caches[p].pages
       PROVE  \E x \in Pod : b \in caches'[x].pages
  <2>1. /\ q \in [Pod -> Cache] /\ b \in q[p].pages
        /\ caches'[s] = f /\ \A x \in Pod \ {s} : caches'[x] = q[x]
    BY <1>8, <1>9, <1>10 DEF PodsInv
  <2>2. CASE p # s \/ b \in f.pages
    BY <2>1, <2>2
  <2>3. CASE p = s /\ b \notin f.pages
    <3>1. b \in Chain[n]
      BY <1>12, <2>1, <2>3
    <3>2. b \in caches'[t].pages
      BY <1>8, <1>9, <2>1, <3>1 DEF Published
    <3>3. QED
      BY <1>9, <3>2
  <2>4. QED
    BY <2>2, <2>3
<1>16. QED
  BY <1>14, <1>15 DEF Conserved

(* _arrive of the move ablation is that of the frozen engine: where there  *)
(* is a candidate to score, the counts it is scored by are the window's.   *)
LEMMA MoveArriveIsArrive ==
    ASSUME MoveInv, NEW r, NEW n, MoveArrive(r, n)
    PROVE  /\ ArriveAtSource(r, n, RoutingPolicy)
           /\ OnlineInv(online', demand', now') /\ pending' = pending /\ batch' = batch
<1> DEFINE a == Assignment(r, n, Source(n), Source(n), RouteHit(n), RouteHit(n), 0)
           ld == CommitLoad(load, r, a.pod, MissOf(n, a.hit), now)
           pods == PodsAfter(a, FALSE)
           cs == Candidates(pods, transfers, SeenWith(n))
           observed == ObserveOnline(online, n)
           counted == IF DOMAIN cs = {} THEN observed ELSE Prepared(observed)
           loads == LoadVector(ld, now)
           window == DemandCounts(DemandWith(n), now)
<1>1. /\ Arrives(r, n)
      /\ Opportunity(r, pods, loads, cs, counted.counts)
      /\ online' = counted
      /\ load' = Query(ld, now)
      /\ served' = served \cup {a}
      /\ seen' = SeenWith(n)
      /\ demand' = DemandWith(n)
      /\ UNCHANGED <<now, stage, pending, batch>>
  BY DEF MoveArrive
<1>2. a.pod = Source(n) /\ a.hit = RouteHit(n) /\ a.request = r
  BY DEF Assignment
<1>3. CoreInv /\ OnlineInv(online, demand, now) /\ now \in Nat /\ demand \in [Block -> Seq(Nat)]
  BY DEF MoveInv, CoreInv, TypeOK
<1>4. n \in Node
  BY <1>1, <1>3, ArrivesFacts
<1>5. OnlineInv(observed, DemandWith(n), now)
  BY <1>3, <1>4, ObserveKeeps
<1> HIDE DEF observed, cs, pods, loads, ld, a
<1>6. OnlineInv(counted, DemandWith(n), now)
  BY <1>3, <1>5, PreparedKeeps
<1>7. Opportunity(r, pods, loads, cs, window)
  <2>1. CASE DOMAIN cs = {}
    <3>1. Startable(pods, cs, counted.counts) = {} /\ Startable(pods, cs, window) = {}
      BY <2>1 DEF Startable, Shortlist
    <3> HIDE DEF counted, window
    <3>2. QED
      BY <1>1, <3>1 DEF Opportunity
  <2>2. CASE DOMAIN cs # {}
    <3>1. counted = Prepared(observed) /\ \A b \in Block :
             counted.counts[b] = DemandCount(DemandWith(n), b, now)
      BY <1>3, <1>5, <2>2, PreparedKeeps
    <3>2. counted.counts = [b \in Block |-> counted.counts[b]]
      BY <1>6 DEF OnlineInv, OnlineType
    <3>3. window = [b \in Block |-> DemandCount(DemandWith(n), b, now)]
      BY DEF DemandCounts
    <3> HIDE DEF counted, window
    <3>4. counted.counts = window
      BY <3>1, <3>2, <3>3
    <3>5. QED
      BY <1>1, <3>4
  <2>3. QED
    BY <2>1, <2>2
<1>8. ~Reassign(n, RoutingPolicy)
  BY DEF MoveInv, Reassign
<1>9. ServeNow(r, n, Source(n), RouteHit(n))
  BY <1>1, <1>2, <1>7 DEF ServeNow, Finish, a, ld, pods, cs, loads
<1>10. ArriveAtSource(r, n, RoutingPolicy)
  BY <1>1, <1>8, <1>9 DEF ArriveAtSource
<1>11. QED
  BY <1>1, <1>6, <1>10

(* Initially the deque is empty and there is no demand to count.           *)
LEMMA MoveInitInv == MoveInit => MoveInv
<1> SUFFICES ASSUME MoveInit PROVE MoveInv
  OBVIOUS
<1>1. /\ Init /\ online = [counts |-> [b \in Block |-> 0], events |-> << >>]
      /\ demand = [b \in Block |-> << >>] /\ now = 0 /\ pending = {} /\ batch = {}
  BY DEF MoveInit, Init
<1>2. CoreInv
  BY <1>1, InitKeeps DEF EngineInv
<1>3. << >> \in Seq(OnlineEvent) /\ DOMAIN << >> = {}
  OBVIOUS
<1>4. online \in OnlineType
  BY <1>1, <1>3 DEF OnlineType
<1>5. InDequeOrder(online.events, now)
  BY <1>1, <1>3 DEF InDequeOrder
<1>6. ASSUME NEW b \in Block
      PROVE  /\ online.counts[b] = Cardinality(Naming(online.events, b))
             /\ \A t \in Nat : Cardinality(Live(online.events, b, t)) = DemandCount(demand, b, t)
  <2>1. Naming(online.events, b) = {} /\ \A t \in Nat : Live(online.events, b, t) = {}
    BY <1>1, <1>3 DEF Naming, Live
  <2>2. \A t \in Nat : {i \in DOMAIN demand[b] : /\ demand[b][i] <= t
                                                /\ t < demand[b][i] + HistoryWindow} = {}
    BY <1>1, <1>3
  <2>3. online.counts[b] = 0
    BY <1>1
  <2>4. QED
    BY <2>1, <2>2, <2>3, FS_EmptySet DEF DemandCount
<1>7. OnlineInv(online, demand, now)
  BY <1>1, <1>4, <1>5, <1>6 DEF OnlineInv
<1>8. QED
  BY <1>1, <1>2, <1>7 DEF MoveInit, MoveInv

(* Time only moves forward, and what holds at every later time stays true. *)
LEMMA LaterKeeps ==
    ASSUME NEW on, NEW history, NEW t \in Nat, OnlineInv(on, history, t),
           NEW later \in Nat, later >= t
    PROVE  OnlineInv(on, history, later)
<1>1. \A u \in Nat : u >= later => u >= t
  OBVIOUS
<1>2. \A i \in DOMAIN on.events : on.events[i].time <= later
  <2>1. \A i \in DOMAIN on.events : on.events[i].time \in Nat
    BY DequeFacts DEF OnlineInv, OnlineType
  <2>2. QED
    BY <2>1 DEF OnlineInv, InDequeOrder
<1>3. QED
  BY <1>1, <1>2 DEF OnlineInv, InDequeOrder

(* Every step keeps the invariant.                                         *)
LEMMA MoveStepInv == MoveInv /\ [MoveNext]_movevars => MoveInv'
<1> SUFFICES ASSUME MoveInv, [MoveNext]_movevars PROVE MoveInv'
  OBVIOUS
<1>1. /\ CoreInv /\ pending = {} /\ batch = {} /\ OnlineInv(online, demand, now)
      /\ now \in Nat
  BY DEF MoveInv, CoreInv, TypeOK
<1>2. CASE Tick /\ UNCHANGED <<moves, online>>
  <2>1. CoreInv' /\ now' \in Nat /\ now' >= now
    BY <1>1, <1>2, TickKeeps, TickForward
  <2>2. demand' = demand /\ online' = online /\ pending' = pending /\ batch' = batch
    BY <1>2 DEF Tick
  <2>3. OnlineInv(online, demand, now')
    BY <1>1, <2>1, LaterKeeps
  <2>4. QED
    BY <1>1, <2>1, <2>2, <2>3 DEF MoveInv
<1>3. CASE (Protect \/ BatchDone \/ ArrivalsDone) /\ UNCHANGED <<moves, online>>
  <2>1. CoreInv'
    BY <1>1, <1>3, ProtectStep, MoveOnStep
  <2>2. /\ now' = now /\ demand' = demand /\ online' = online
        /\ pending' = pending /\ batch' = batch
    BY <1>3 DEF Protect, BatchDone, ArrivalsDone
  <2>3. QED
    BY <1>1, <2>1, <2>2 DEF MoveInv
<1>4. CASE DeliverMove
  <2>1. CoreInv'
    BY <1>4, DeliverMoveFacts
  <2>2. /\ now' = now /\ demand' = demand /\ online' = online
        /\ pending' = pending /\ batch' = batch
    BY <1>4 DEF DeliverMove
  <2>3. QED
    BY <1>1, <2>1, <2>2 DEF MoveInv
<1>5. ASSUME NEW r \in Request, NEW n \in Block, MoveArrive(r, n) PROVE MoveInv'
  <2>1. /\ ArriveAtSource(r, n, RoutingPolicy)
        /\ OnlineInv(online', demand', now') /\ pending' = pending /\ batch' = batch
    BY <1>5, MoveArriveIsArrive
  <2>2. CoreInv'
    BY <1>1, <2>1, AtSourceStep
  <2>3. QED
    BY <1>1, <2>1, <2>2 DEF MoveInv
<1>6. CASE UNCHANGED <<vars, moves, online>>
  <2>1. CoreInv'
    BY <1>1, <1>6, StutterKeeps
  <2>2. /\ now' = now /\ demand' = demand /\ online' = online
        /\ pending' = pending /\ batch' = batch
    BY <1>6 DEF vars
  <2>3. QED
    BY <1>1, <2>1, <2>2 DEF MoveInv
<1>7. QED
  BY <1>2, <1>3, <1>4, <1>5, <1>6 DEF MoveNext, Stop, movevars

-----------------------------------------------------------------------------
(* The theorems *)

(* The invariants of the frozen event loop hold in the move ablation too,  *)
(* and the online history is exact (engine.py and history.py of            *)
(* task_main/stage_d2).                                                    *)
THEOREM MoveInvariant == MoveSpec => []MoveInv
<1>1. QED
  BY MoveInitInv, MoveStepInv, PTL DEF MoveSpec

(* The ledgers stay exact although a move takes more from its source than  *)
(* a pin: pins and buffers are those of the moves in flight, what a move   *)
(* reads stays, and no chain is on its way to a pod twice (transfer.py of  *)
(* task_main/stage_d2 with the loads and candidates it inherits).          *)
THEOREM MovesStayAccounted ==
    MoveSpec => [](ProtectionAccounted /\ CommittedHitsKept /\ LoadIsWindow /\ NoDoubleCoverage)
<1>1. MoveInv => ProtectionAccounted /\ CommittedHitsKept
  BY PinsAreOwned, HitsAreThere DEF MoveInv
<1>2. MoveInv => LoadIsWindow
  BY DEF MoveInv, CoreInv, LoadInv, WindowInv, LoadIsWindow, WindowTokens
<1>3. MoveInv => NoDoubleCoverage
  BY DEF MoveInv, CoreInv, Ledgered, NoDouble, NoDoubleCoverage, InFlightTransfers, Flying
<1>4. QED
  BY <1>1, <1>2, <1>3, MoveInvariant, PTL

(* However long the running counts were not brought up to date, once they  *)
(* are they are the counts of the window (count of StageD2DemandHistory    *)
(* and of ExternalDemandHistory answer alike).                             *)
THEOREM OnlineCountsAreWindow == MoveSpec => []OnlineIsWindow
<1>1. MoveInv => OnlineIsWindow
  <2> SUFFICES ASSUME MoveInv PROVE OnlineIsWindow
    OBVIOUS
  <2>1. OnlineInv(online, demand, now) /\ now \in Nat
    BY DEF MoveInv, CoreInv, TypeOK
  <2>2. QED
    BY <2>1, PreparedKeeps DEF OnlineIsWindow
<1>2. QED
  BY <1>1, MoveInvariant, PTL

(* No page disappears from the cluster at the end of a move: what the      *)
(* source lets go of is in the chain of the move, which the target has by  *)
(* then (complete of StageD2Transfers).                                    *)
THEOREM MovesLoseNothing == MoveSpec => MovesConserve
<1> DEFINE Kept == stage = "deliver" => Conserved
<1>1. MoveInv /\ [MoveNext]_movevars => [Kept]_movevars
  <2> SUFFICES ASSUME MoveInv, MoveNext, stage = "deliver" PROVE Conserved
    OBVIOUS
  <2>1. CASE DeliverMove
    BY <2>1, DeliverMoveFacts
  <2>2. CASE ~DeliverMove
    <3>1. \A p \in Pod : caches'[p].pages = caches[p].pages
      <4>1. Protect => \A p \in Pod : caches'[p].pages = caches[p].pages
        <5>1. SUFFICES ASSUME Protect, NEW p \in Pod PROVE caches'[p].pages = caches[p].pages
          OBVIOUS
        <5>2. caches'[p] = PinEach(caches[p], {a \in batch : a.pod = p})
          BY <5>1 DEF Protect
        <5>3. caches[p] \in Cache
          BY DEF MoveInv, CoreInv, Ledgered, PodsInv
        <5>4. QED
          BY <5>2, <5>3 DEF PinEach, Cache
      <4>2. QED
        BY <2>2, <4>1 DEF MoveNext, Tick, BatchDone, ArrivalsDone, Stop, Finished, MoveArrive, Arrives
    <3>2. QED
      BY <3>1 DEF Conserved
  <2>3. QED
    BY <2>1, <2>2
<1>2. QED
  BY MoveInvariant, <1>1, PTL DEF MoveSpec, MovesConserve, Conserved
=============================================================================
