------------------------ MODULE TaskMainCacheProofs -------------------------
(***************************************************************************)
(* The pod cache is sound for every trie, every capacity, any number of    *)
(* transfers and users and any interleaving of their calls.                *)
(*                                                                         *)
(* CacheInv is inductive.  Capacity alone is not: a commit trusts its      *)
(* plan, so the invariant must say what a fresh plan guarantees            *)
(* (FreshPlansExecutable), that pins stand for held paths (PinsAreHolds,   *)
(* or a victim could be held) and that buffers are as long as the paths    *)
(* they wait for (CallersInStep, or a delivery could overflow).            *)
(*                                                                         *)
(* From it follow the refinement of PageStore, that a refusal is forced    *)
(* (a heap that runs dry has popped everything that could go), and, with   *)
(* the order of the stamps (OrderInv), that eviction is least recently     *)
(* used first.  The caches of Stage 2 and Stage D2 add derived state to    *)
(* it; their proofs rest on the same invariant and follow below.           *)
(***************************************************************************)
EXTENDS IndexedCache, StageD2Cache, CacheLemmas, SequenceTheorems

(* Initially there is nothing to go wrong. *)
LEMMA InitCacheInv == Init => CacheInv
<1> SUFFICES ASSUME Init PROVE CacheInv
  OBVIOUS
<1>1. EmptyCache \in Cache
  BY DEF EmptyCache, Cache
<1>2. NoPlan \in Plan
  BY DEF NoPlan, Plan, Node
<1>3. TypeOK
  BY <1>1, <1>2 DEF Init, TypeOK, Node
<1>4. BufferSlots(cache) = {}
  <2>1. \A t \in Transfer : {t} \X (1 .. 0) = {}
    OBVIOUS
  <2>2. QED
    BY <2>1 DEF Init, EmptyCache, BufferSlots
<1>5. CacheSound
  <2>1. Cardinality({}) = 0
    BY FS_EmptySet
  <2>2. QED
    BY <1>4, <2>1, CapacityAssumption
       DEF Init, EmptyCache, CacheSound, WithinCapacity, PrefixClosed, MemoryPages, TemporaryPages
<1>6. PinsAreHolds
  <2>1. \A b \in Block : {u \in User : b \in Chain[held[u]]} = {}
    BY ChainAssumption DEF Init
  <2>2. QED
    BY <2>1, FS_EmptySet, ChainAssumption DEF Init, EmptyCache, PinsAreHolds, Published
<1>7. FreshPlansExecutable /\ CallersInStep
  BY DEF Init, NoPlan, EmptyCache, FreshPlansExecutable, CallersInStep, IsFresh, InFlight
<1>8. QED
  BY <1>3, <1>5, <1>6, <1>7 DEF CacheInv

-----------------------------------------------------------------------------
(* After a mutation no plan is fresh, whoever holds it: the version has    *)
(* moved past every plan that is out.                                      *)
LEMMA NothingFresh ==
    ASSUME CallersInStep, TypeOK, TypeOK',
           cache'.version = cache.version + 1,
           \A t \in Transfer : offer'[t] \in {offer[t], NoPlan},
           \A u \in User : draft'[u] \in {draft[u], NoPlan}
    PROVE  /\ \A t \in Transfer : /\ ~IsFresh(cache', offer'[t], "TEMPORARY")
                                  /\ offer'[t].version <= cache'.version
           /\ \A u \in User : /\ ~IsFresh(cache', draft'[u], "PROMPT")
                              /\ draft'[u].version <= cache'.version
<1>1. cache.version \in Nat
  BY DEF TypeOK, Cache
<1>2. \A t \in Transfer : offer[t].version \in Nat /\ offer[t].version <= cache.version
  BY DEF TypeOK, Plan, CallersInStep
<1>3. \A u \in User : draft[u].version \in Nat /\ draft[u].version <= cache.version
  BY DEF TypeOK, Plan, CallersInStep
<1>4. NoPlan.version = 0 /\ NoPlan.kind = "NONE"
  BY DEF NoPlan
<1>5. \A t \in Transfer : /\ ~IsFresh(cache', offer'[t], "TEMPORARY")
                          /\ offer'[t].version <= cache'.version
  BY <1>1, <1>2, <1>4 DEF IsFresh
<1>6. \A u \in User : /\ ~IsFresh(cache', draft'[u], "PROMPT")
                      /\ draft'[u].version <= cache'.version
  BY <1>1, <1>3, <1>4 DEF IsFresh
<1>7. QED
  BY <1>5, <1>6

(* So what fresh plans guarantee is guaranteed.                            *)
LEMMA MutationMakesStale ==
    ASSUME CallersInStep, TypeOK, TypeOK',
           cache'.version = cache.version + 1,
           \A t \in Transfer : offer'[t] \in {offer[t], NoPlan},
           \A u \in User : draft'[u] \in {draft[u], NoPlan}
    PROVE  /\ FreshPlansExecutable'
           /\ \A t \in Transfer : offer'[t].version <= cache'.version
           /\ \A u \in User : draft'[u].version <= cache'.version
BY NothingFresh DEF FreshPlansExecutable

-----------------------------------------------------------------------------
(* The preflights read the cache and make plans it can carry out.          *)

(* plan_temporary.                                                         *)
LEMMA PreflightTransferStep ==
    ASSUME CacheInv, NEW t \in Transfer, NEW n \in Block, PreflightTransfer(t, n)
    PROVE  CacheInv'
<1> DEFINE plan == PlanTemporary(cache, Depth(n))
<1>1. cache \in Cache /\ n \in Node /\ Depth(n) \in Nat
  BY ChainFacts DEF CacheInv, TypeOK, Node
<1>2. CanAdmit(cache, Depth(n), {})
  BY DEF PreflightTransfer, CanPlanTemporary
<1>3. CarriedOut(cache, plan, "TEMPORARY", Root, Depth(n), {})
  BY <1>1, <1>2, PlanFacts DEF PlanTemporary
<1>4. plan \in Plan
  <2>1. cache.version \in Nat
    BY <1>1 DEF Cache
  <2> HIDE DEF plan
  <2>2. QED
    BY <1>1, <1>3, <2>1 DEF CarriedOut, Plan, Node
<1>5. Executable(cache, plan)
  BY <1>3 DEF CarriedOut, Executable
<1> HIDE DEF plan
<1>6. /\ offer' = [offer EXCEPT ![t] = plan]
      /\ wire' = [wire EXCEPT ![t] = n]
      /\ UNCHANGED <<cache, draft, held>>
      /\ ~InFlight(t)
  BY DEF PreflightTransfer, plan
<1>7. TypeOK'
  BY <1>1, <1>4, <1>6 DEF CacheInv, TypeOK
<1>8. CacheSound' /\ PinsAreHolds'
  BY <1>6 DEF CacheInv, CacheSound, PinsAreHolds
<1>9. FreshPlansExecutable'
  BY <1>3, <1>5, <1>6 DEF CacheInv, TypeOK, FreshPlansExecutable, CarriedOut
<1>10. CallersInStep'
  <2>1. cache.version \in Nat
    BY <1>1 DEF Cache
  <2>2. QED
    BY <1>3, <1>6, <2>1 DEF CacheInv, TypeOK, CallersInStep, InFlight, CarriedOut
<1>11. QED
  BY <1>7, <1>8, <1>9, <1>10 DEF CacheInv

(* plan_prompt: what it counts as missing is missing when it commits.      *)
LEMMA PreflightPromptStep ==
    ASSUME CacheInv, NEW u \in User, NEW n \in Node, PreflightPrompt(u, n)
    PROVE  CacheInv'
<1> DEFINE plan == PlanPrompt(cache, n)
           hit  == HitPages(cache, n)
           left == cache.pages \ Victims(plan)
<1>1. cache \in Cache /\ cache.pages \in SUBSET Block /\ cache.version \in Nat
  BY DEF CacheInv, TypeOK, Cache
<1>2. hit = Chain[n] \cap cache.pages
  <2>1. \A b \in cache.pages : Chain[b] \subseteq cache.pages
    BY <1>1, ClosedByParent DEF CacheInv, CacheSound, PrefixClosed
  <2>2. \A b \in Chain[n] : b \in Chain[b]
    BY ChainFacts DEF Node
  <2>3. QED
    BY <2>1, <2>2 DEF HitPages, PagesWithin
<1>3. /\ Cardinality(Chain[n] \ cache.pages) = MissingPages(cache, n)
      /\ MissingPages(cache, n) \in Nat
  <2>1. /\ IsFiniteSet(Chain[n]) /\ Chain[n] \in SUBSET Block
    BY ChainFacts
  <2>2. Cardinality(Chain[n] \ cache.pages) = Cardinality(Chain[n]) - Cardinality(hit)
    BY <1>2, <2>1, FS_Difference
  <2>3. Cardinality(Chain[n] \ cache.pages) \in Nat
    BY <1>1, <2>1, PagesGrow
  <2>4. QED
    BY <2>2, <2>3 DEF MissingPages, Depth
<1>4. CanAdmit(cache, MissingPages(cache, n), hit)
  BY DEF PreflightPrompt, CanPlanPrompt
<1>5. CarriedOut(cache, plan, "PROMPT", n, MissingPages(cache, n), hit)
  BY <1>1, <1>3, <1>4, PlanFacts DEF PlanPrompt
<1>6. plan \in Plan
  <2> HIDE DEF plan
  <2>1. QED
    BY <1>1, <1>3, <1>5 DEF CarriedOut, Plan
<1>7. Executable(cache, plan)
  BY <1>5 DEF CarriedOut, Executable
<1>8. Chain[n] \ left = Chain[n] \ cache.pages
  BY <1>2, <1>5 DEF CarriedOut
<1> HIDE DEF plan
<1>9. /\ draft' = [draft EXCEPT ![u] = plan]
      /\ UNCHANGED <<cache, wire, offer, held>>
  BY DEF PreflightPrompt, plan
<1>10. TypeOK'
  BY <1>6, <1>9 DEF CacheInv, TypeOK
<1>11. CacheSound' /\ PinsAreHolds'
  BY <1>9 DEF CacheInv, CacheSound, PinsAreHolds
<1>12. FreshPlansExecutable'
  BY <1>3, <1>5, <1>7, <1>8, <1>9 DEF CacheInv, TypeOK, FreshPlansExecutable, CarriedOut
<1>13. CallersInStep'
  BY <1>1, <1>5, <1>9 DEF CacheInv, TypeOK, CallersInStep, InFlight, CarriedOut
<1>14. QED
  BY <1>10, <1>11, <1>12, <1>13 DEF CacheInv

(* Dropping a plan only forgets it. *)
LEMMA DiscardStep ==
    ASSUME CacheInv,
           \/ \E t \in Transfer : DiscardOffer(t)
           \/ \E u \in User : DiscardDraft(u)
    PROVE  CacheInv'
<1>1. NoPlan \in Plan /\ NoPlan.kind = "NONE" /\ NoPlan.version = 0
  BY DEF NoPlan, Plan, Node
<1>2. cache.version \in Nat
  BY DEF CacheInv, TypeOK, Cache
<1>3. ASSUME NEW t \in Transfer, DiscardOffer(t) PROVE CacheInv'
  <2>1. /\ offer' = [offer EXCEPT ![t] = NoPlan]
        /\ wire' = [wire EXCEPT ![t] = Root]
        /\ offer[t] # NoPlan
        /\ UNCHANGED <<cache, draft, held>>
    BY <1>3 DEF DiscardOffer
  <2>2. TypeOK'
    BY <1>1, <2>1 DEF CacheInv, TypeOK, Node
  <2>3. CacheSound' /\ PinsAreHolds'
    BY <2>1 DEF CacheInv, CacheSound, PinsAreHolds
  <2>4. FreshPlansExecutable'
    BY <1>1, <2>1 DEF CacheInv, TypeOK, FreshPlansExecutable, IsFresh
  <2>5. CallersInStep'
    BY <1>1, <1>2, <2>1 DEF CacheInv, TypeOK, CallersInStep, InFlight
  <2>6. QED
    BY <2>2, <2>3, <2>4, <2>5 DEF CacheInv
<1>4. ASSUME NEW u \in User, DiscardDraft(u) PROVE CacheInv'
  <2>1. /\ draft' = [draft EXCEPT ![u] = NoPlan]
        /\ UNCHANGED <<cache, wire, offer, held>>
    BY <1>4 DEF DiscardDraft
  <2>2. TypeOK'
    BY <1>1, <2>1 DEF CacheInv, TypeOK
  <2>3. CacheSound' /\ PinsAreHolds'
    BY <2>1 DEF CacheInv, CacheSound, PinsAreHolds
  <2>4. FreshPlansExecutable'
    BY <1>1, <2>1 DEF CacheInv, TypeOK, FreshPlansExecutable, IsFresh
  <2>5. CallersInStep'
    BY <1>1, <1>2, <2>1 DEF CacheInv, TypeOK, CallersInStep, InFlight
  <2>6. QED
    BY <2>2, <2>3, <2>4, <2>5 DEF CacheInv
<1>5. QED
  BY <1>3, <1>4

-----------------------------------------------------------------------------
(* The commits *)

(* Unpinned victims are on nobody's path, so evicting them takes nothing   *)
(* from a user and leaves every pin count as it was.                       *)
LEMMA EvictionSparesHolds ==
    ASSUME CacheInv, NEW V \in SUBSET Block, \A b \in V : cache.pins[b] = 0
    PROVE  /\ \A u \in User : Chain[held[u]] \subseteq cache.pages \ V
           /\ Evict(cache, V).pins = cache.pins
<1>1. ASSUME NEW u \in User PROVE Chain[held[u]] \subseteq cache.pages \ V
  <2>1. SUFFICES ASSUME NEW b \in V, b \in Chain[held[u]] PROVE FALSE
    BY DEF CacheInv, PinsAreHolds, Published
  <2>2. IsFiniteSet({x \in User : b \in Chain[held[x]]})
    BY UserAssumption, FS_Subset
  <2>3. Cardinality({x \in User : b \in Chain[held[x]]}) = 0
    BY DEF CacheInv, PinsAreHolds
  <2>4. {x \in User : b \in Chain[held[x]]} = {}
    BY <2>2, <2>3, FS_EmptySet
  <2>5. QED
    BY <2>1, <2>4
<1>2. cache \in Cache /\ cache.pins \in [Block -> Nat]
  BY DEF CacheInv, TypeOK, Cache
<1>3. Evict(cache, V).pins = [b \in Block |-> IF b \in V THEN 0 ELSE cache.pins[b]]
  BY <1>2, EvictFacts
<1>4. Evict(cache, V).pins = cache.pins
  BY <1>2, <1>3
<1>5. QED
  BY <1>1, <1>4

(* reserve_temporary evicts what the plan named and sets the room aside.   *)
LEMMA ReserveStep ==
    ASSUME CacheInv, NEW t \in Transfer, Reserve(t)
    PROVE  CacheInv'
<1> DEFINE plan == offer[t]
           V    == Victims(plan)
           e    == Evict(cache, V)
<1>1. /\ IsFresh(cache, plan, "TEMPORARY")
      /\ ~InFlight(t)
      /\ cache' = NextVersion([e EXCEPT !.temporary[t] = plan.additional])
      /\ offer' = [offer EXCEPT ![t] = NoPlan]
      /\ UNCHANGED <<wire, draft, held>>
  BY DEF Reserve, ReserveTemporary
<1>2. /\ Executable(cache, plan) /\ plan.additional = Depth(wire[t])
      /\ plan.additional \in Nat
  BY <1>1 DEF CacheInv, TypeOK, Plan, FreshPlansExecutable
<1>3. /\ V \in SUBSET Block
      /\ \A b \in V : cache.pins[b] = 0 /\ Children(cache.pages \ V, b) = {}
      /\ Cardinality(cache.pages \ V) + TemporaryPages(cache) + plan.additional <= Capacity
  BY <1>2 DEF Executable, CacheInv, TypeOK, Cache
<1>4. cache \in Cache /\ cache.version \in Nat
  BY DEF CacheInv, TypeOK, Cache
<1>5. /\ e \in Cache
      /\ e.pages = cache.pages \ V
      /\ e.temporary = cache.temporary
      /\ e.version = cache.version
      /\ PrefixClosed(e)
  BY <1>3, <1>4, EvictFacts DEF CacheInv, CacheSound
<1>6. e.pins = cache.pins /\ \A u \in User : Chain[held[u]] \subseteq cache.pages \ V
  BY <1>3, EvictionSparesHolds
<1> HIDE DEF plan, V, e
<1>7. /\ cache' \in Cache
      /\ cache'.pages = e.pages
      /\ cache'.pins = e.pins
      /\ cache'.temporary = [cache.temporary EXCEPT ![t] = plan.additional]
      /\ cache'.version = cache.version + 1
  <2> DEFINE f == [e EXCEPT !.temporary[t] = plan.additional]
  <2>1. /\ f \in Cache
        /\ f.temporary = [e.temporary EXCEPT ![t] = plan.additional]
        /\ f.pages = e.pages /\ f.pins = e.pins /\ f.version = e.version
    BY <1>2, <1>5, BufferFacts
  <2> HIDE DEF f
  <2>2. cache' = NextVersion(f)
    BY <1>1 DEF f
  <2>3. QED
    BY <1>5, <2>1, <2>2, VersionFacts
<1>8. TypeOK'
  <2>1. NoPlan \in Plan
    BY DEF NoPlan, Plan, Node
  <2>2. QED
    BY <1>1, <1>7, <2>1 DEF CacheInv, TypeOK
<1>9. CacheSound'
  <2>1. cache.temporary[t] = 0
    BY <1>1, <1>4 DEF InFlight, Cache
  <2>2. TemporaryPages(cache') = TemporaryPages(cache) + plan.additional
    BY <1>2, <1>4, <1>7, <2>1, BufferGrows
  <2>3. WithinCapacity(cache')
    <3>1. Cardinality(cache'.pages) = Cardinality(cache.pages \ V)
      BY <1>5, <1>7
    <3>2. Cardinality(cache'.pages) \in Nat /\ TemporaryPages(cache) \in Nat
      BY <1>4, <1>7, SizeFacts
    <3>3. QED
      BY <1>2, <1>3, <2>2, <3>1, <3>2, CapacityAssumption DEF WithinCapacity, MemoryPages
  <2>4. PrefixClosed(cache')
    BY <1>5, <1>7 DEF PrefixClosed
  <2>5. QED
    BY <2>3, <2>4 DEF CacheSound
<1>10. PinsAreHolds'
  BY <1>1, <1>5, <1>6, <1>7 DEF CacheInv, PinsAreHolds, Published
<1>11. \A x \in Transfer : offer'[x] \in {offer[x], NoPlan}
  BY <1>1 DEF CacheInv, TypeOK
<1>12. /\ FreshPlansExecutable'
       /\ \A x \in Transfer : offer'[x].version <= cache'.version
       /\ \A u \in User : draft'[u].version <= cache'.version
  BY <1>1, <1>7, <1>8, <1>11, MutationMakesStale DEF CacheInv
<1>13. CallersInStep'
  <2>1. \A x \in Transfer : offer'[x] # NoPlan => x # t /\ offer'[x] = offer[x]
    BY <1>1 DEF CacheInv, TypeOK
  <2>2. \A x \in Transfer : cache'.temporary[x] =
            IF x = t THEN plan.additional ELSE cache.temporary[x]
    BY <1>4, <1>7 DEF Cache
  <2>3. QED
    BY <1>1, <1>2, <1>12, <2>1, <2>2 DEF CacheInv, CallersInStep, InFlight
<1>14. QED
  BY <1>8, <1>9, <1>10, <1>12, <1>13 DEF CacheInv

(* publish_prompt evicts what the plan named and inserts the path.         *)
LEMMA PublishStep ==
    ASSUME CacheInv, NEW u \in User, Publish(u)
    PROVE  CacheInv'
<1> DEFINE plan == draft[u]
           V    == Victims(plan)
           e    == Evict(cache, V)
           n    == plan.path
           f    == Insert(e, n)
<1>1. /\ IsFresh(cache, plan, "PROMPT")
      /\ cache' = NextVersion(f)
      /\ draft' = [draft EXCEPT ![u] = NoPlan]
      /\ UNCHANGED <<wire, offer, held>>
  BY DEF Publish, PublishPrompt
<1>2. /\ Executable(cache, plan)
      /\ plan.additional = Cardinality(Chain[n] \ (cache.pages \ V))
      /\ n \in Node
  BY <1>1 DEF CacheInv, TypeOK, Plan, FreshPlansExecutable
<1>3. /\ V \in SUBSET Block
      /\ \A b \in V : cache.pins[b] = 0 /\ Children(cache.pages \ V, b) = {}
      /\ Cardinality(cache.pages \ V) + TemporaryPages(cache) + plan.additional <= Capacity
  BY <1>2 DEF Executable, CacheInv, TypeOK, Cache
<1>4. cache \in Cache /\ cache.version \in Nat
  BY DEF CacheInv, TypeOK, Cache
<1>5. /\ e \in Cache
      /\ e.pages = cache.pages \ V
      /\ e.temporary = cache.temporary
      /\ e.version = cache.version
      /\ PrefixClosed(e)
  BY <1>3, <1>4, EvictFacts DEF CacheInv, CacheSound
<1>6. e.pins = cache.pins /\ \A x \in User : Chain[held[x]] \subseteq cache.pages \ V
  BY <1>3, EvictionSparesHolds
<1> HIDE DEF plan, V, e, n
<1>7. /\ f \in Cache
      /\ f.pages = e.pages \cup Chain[n]
      /\ f.pins = e.pins
      /\ f.temporary = e.temporary
      /\ f.version = e.version
      /\ PrefixClosed(f)
  BY <1>2, <1>5, InsertFacts
<1> HIDE DEF f
<1>8. /\ cache' \in Cache
      /\ cache'.pages = (cache.pages \ V) \cup Chain[n]
      /\ cache'.pins = cache.pins
      /\ cache'.temporary = cache.temporary
      /\ cache'.version = cache.version + 1
      /\ PrefixClosed(cache')
  BY <1>1, <1>5, <1>6, <1>7, VersionFacts DEF PrefixClosed
<1>9. TypeOK'
  <2>1. NoPlan \in Plan
    BY DEF NoPlan, Plan, Node
  <2>2. QED
    BY <1>1, <1>8, <2>1 DEF CacheInv, TypeOK
<1>10. CacheSound'
  <2>1. TemporaryPages(cache') = TemporaryPages(cache)
    BY <1>8 DEF TemporaryPages, BufferSlots
  <2>2. Chain[n] \in SUBSET Block /\ cache.pages \ V \in SUBSET Block
    BY <1>2, <1>4, ChainFacts DEF Cache
  <2>3. Cardinality(cache'.pages) = Cardinality(cache.pages \ V) + plan.additional
    BY <1>2, <1>8, <2>2, PagesGrow
  <2>4. /\ Cardinality(cache.pages \ V) \in Nat
        /\ TemporaryPages(cache) \in Nat
        /\ plan.additional \in Nat
    BY <1>2, <1>4, <2>2, SizeFacts, PagesGrow
  <2>5. WithinCapacity(cache')
    BY <1>3, <2>1, <2>3, <2>4, CapacityAssumption DEF WithinCapacity, MemoryPages
  <2>6. QED
    BY <1>8, <2>5 DEF CacheSound
<1>11. PinsAreHolds'
  BY <1>1, <1>6, <1>8 DEF CacheInv, PinsAreHolds, Published
<1>12. \A x \in User : draft'[x] \in {draft[x], NoPlan}
  BY <1>1 DEF CacheInv, TypeOK
<1>13. /\ FreshPlansExecutable'
       /\ \A x \in Transfer : offer'[x].version <= cache'.version
       /\ \A x \in User : draft'[x].version <= cache'.version
  BY <1>1, <1>8, <1>9, <1>12, MutationMakesStale DEF CacheInv
<1>14. CallersInStep'
  BY <1>1, <1>8, <1>13 DEF CacheInv, CallersInStep, InFlight
<1>15. QED
  BY <1>9, <1>10, <1>11, <1>13, <1>14 DEF CacheInv

(* complete_transfer gives the buffer back and inserts the path it waited  *)
(* for: at most as many pages as the buffer held.                          *)
LEMMA CompleteStep ==
    ASSUME CacheInv, NEW t \in Transfer, Complete(t)
    PROVE  CacheInv'
<1> DEFINE k == cache.temporary[t]
           n == wire[t]
           e == [cache EXCEPT !.temporary[t] = 0]
           f == Insert(e, n)
<1>1. /\ InFlight(t)
      /\ k = Depth(n)
      /\ cache' = NextVersion(f)
      /\ wire' = [wire EXCEPT ![t] = Root]
      /\ UNCHANGED <<offer, draft, held>>
  BY DEF Complete, CompleteTransfer
<1>2. cache \in Cache /\ cache.version \in Nat /\ k \in Nat /\ n \in Node
  BY DEF CacheInv, TypeOK, Cache
<1>3. /\ e \in Cache
      /\ e.temporary = [cache.temporary EXCEPT ![t] = 0]
      /\ e.pages = cache.pages
      /\ e.pins = cache.pins
      /\ e.version = cache.version
  BY <1>2, BufferFacts
<1>4. PrefixClosed(e)
  BY <1>3 DEF CacheInv, CacheSound, PrefixClosed
<1> HIDE DEF e
<1>5. /\ f \in Cache
      /\ f.pages = e.pages \cup Chain[n]
      /\ f.pins = e.pins
      /\ f.temporary = e.temporary
      /\ f.version = e.version
      /\ PrefixClosed(f)
  BY <1>2, <1>3, <1>4, InsertFacts
<1> HIDE DEF f
<1>6. /\ cache' \in Cache
      /\ cache'.pages = cache.pages \cup Chain[n]
      /\ cache'.pins = cache.pins
      /\ cache'.temporary = [cache.temporary EXCEPT ![t] = 0]
      /\ cache'.version = cache.version + 1
      /\ PrefixClosed(cache')
  BY <1>1, <1>3, <1>5, VersionFacts DEF PrefixClosed
<1>7. TypeOK'
  BY <1>1, <1>6 DEF CacheInv, TypeOK, Node
<1>8. CacheSound'
  <2>1. cache'.temporary[t] = 0 /\ cache.temporary = [cache'.temporary EXCEPT ![t] = k]
    BY <1>2, <1>6 DEF Cache
  <2>2. TemporaryPages(cache) = TemporaryPages(cache') + k
    BY <1>2, <1>6, <2>1, BufferGrows
  <2>3. Chain[n] \in SUBSET Block /\ cache.pages \in SUBSET Block
    BY <1>2, ChainFacts DEF Cache
  <2>4. /\ Cardinality(cache'.pages) = Cardinality(cache.pages) + Cardinality(Chain[n] \ cache.pages)
        /\ Cardinality(Chain[n] \ cache.pages) <= k
        /\ Cardinality(Chain[n] \ cache.pages) \in Nat
    BY <1>1, <1>6, <2>3, PagesGrow DEF Depth
  <2>5. MemoryPages(cache) <= Capacity
    BY DEF CacheInv, CacheSound, WithinCapacity
  <2>6. /\ Cardinality(cache.pages) \in Nat
        /\ TemporaryPages(cache) \in Nat /\ TemporaryPages(cache') \in Nat
    BY <1>2, <1>6, SizeFacts
  <2>7. MemoryPages(cache') <= Capacity
    <3> HIDE DEF k
    <3>1. QED
      BY <1>2, <2>2, <2>4, <2>5, <2>6, CapacityAssumption DEF MemoryPages
  <2>8. QED
    BY <1>6, <2>7 DEF CacheSound, WithinCapacity
<1>9. PinsAreHolds'
  BY <1>1, <1>6 DEF CacheInv, PinsAreHolds, Published
<1>10. /\ FreshPlansExecutable'
       /\ \A x \in Transfer : offer'[x].version <= cache'.version
       /\ \A x \in User : draft'[x].version <= cache'.version
  BY <1>1, <1>6, <1>7, MutationMakesStale DEF CacheInv
<1>11. CallersInStep'
  <2>1. \A x \in Transfer : cache'.temporary[x] = IF x = t THEN 0 ELSE cache.temporary[x]
    BY <1>2, <1>6 DEF Cache
  <2>2. \A x \in Transfer : wire'[x] = IF x = t THEN Root ELSE wire[x]
    BY <1>1 DEF CacheInv, TypeOK
  <2>3. QED
    BY <1>1, <1>10, <2>1, <2>2 DEF CacheInv, CallersInStep, InFlight
<1>12. QED
  BY <1>7, <1>8, <1>9, <1>10, <1>11 DEF CacheInv

(* A mutation that touches neither pages nor buffers cannot break the      *)
(* capacity or the prefixes.                                               *)
LEMMA SamePagesSound ==
    ASSUME CacheSound, cache'.pages = cache.pages, cache'.temporary = cache.temporary
    PROVE  CacheSound'
BY DEF CacheSound, WithinCapacity, PrefixClosed, MemoryPages, TemporaryPages, BufferSlots

(* pin adds one to the count of every page of the path, and one user to    *)
(* those who hold it.                                                      *)
LEMMA PinStep ==
    ASSUME CacheInv, NEW u \in User, NEW n \in Node, PinPath(u, n)
    PROVE  CacheInv'
<1> DEFINE pins   == [b \in Block |-> IF b \in Chain[n] THEN cache.pins[b] + 1 ELSE cache.pins[b]]
           e      == [cache EXCEPT !.pins = pins]
           who(b) == {x \in User : b \in Chain[held[x]]}
<1>1. /\ held[u] = Root
      /\ Chain[n] \subseteq cache.pages
      /\ cache' = NextVersion(e)
      /\ held' = [held EXCEPT ![u] = n]
      /\ UNCHANGED <<wire, offer, draft>>
  BY DEF PinPath, Pin, Published, CacheInv, TypeOK, Cache
<1>2. cache \in Cache /\ cache.pins \in [Block -> Nat]
  BY DEF CacheInv, TypeOK, Cache
<1>3. pins \in [Block -> Nat]
  BY <1>2
<1>4. /\ \A b \in Chain[n] : b \in Block => pins[b] = cache.pins[b] + 1
      /\ \A b \in Block \ Chain[n] : pins[b] = cache.pins[b]
  OBVIOUS
<1> HIDE DEF pins
<1>5. /\ e \in Cache
      /\ e.pages = cache.pages /\ e.pins = pins
      /\ e.temporary = cache.temporary /\ e.version = cache.version
  BY <1>2, <1>3 DEF Cache
<1> HIDE DEF e
<1>6. /\ cache' \in Cache
      /\ cache'.pages = cache.pages /\ cache'.pins = pins
      /\ cache'.temporary = cache.temporary
      /\ cache'.version = cache.version + 1
  BY <1>1, <1>5, VersionFacts
<1>7. TypeOK'
  BY <1>1, <1>6 DEF CacheInv, TypeOK
<1>8. CacheSound'
  BY <1>6, SamePagesSound DEF CacheInv
<1>9. PinsAreHolds'
  <2>1. \A x \in User : held'[x] = IF x = u THEN n ELSE held[x]
    BY <1>1 DEF CacheInv, TypeOK
  <2>2. \A x \in User : Published(cache', held'[x])
    BY <1>1, <1>6, <2>1 DEF CacheInv, PinsAreHolds, Published
  <2>3. ASSUME NEW b \in Block
        PROVE  cache'.pins[b] = Cardinality({x \in User : b \in Chain[held'[x]]})
    <3>1. /\ cache.pins[b] = Cardinality(who(b))
          /\ IsFiniteSet(who(b))
          /\ u \notin who(b)
      BY <1>1, UserAssumption, FS_Subset, ChainAssumption DEF CacheInv, PinsAreHolds
    <3>2. {x \in User : b \in Chain[held'[x]]} =
              IF b \in Chain[n] THEN who(b) \cup {u} ELSE who(b)
      BY <2>1, <3>1
    <3> HIDE DEF who
    <3>3. Cardinality(who(b) \cup {u}) = Cardinality(who(b)) + 1
      BY <3>1, FS_AddElement
    <3>4. QED
      BY <1>4, <1>6, <3>1, <3>2, <3>3
  <2>4. QED
    BY <2>2, <2>3 DEF PinsAreHolds
<1>10. /\ FreshPlansExecutable'
       /\ \A x \in Transfer : offer'[x].version <= cache'.version
       /\ \A x \in User : draft'[x].version <= cache'.version
  BY <1>1, <1>6, <1>7, MutationMakesStale DEF CacheInv
<1>11. CallersInStep'
  BY <1>1, <1>6, <1>10 DEF CacheInv, CallersInStep, InFlight
<1>12. QED
  BY <1>7, <1>8, <1>9, <1>10, <1>11 DEF CacheInv

(* unpin undoes one pin; its own guard keeps the counts natural.           *)
LEMMA UnpinStep ==
    ASSUME CacheInv, NEW u \in User, UnpinPath(u)
    PROVE  CacheInv'
<1> DEFINE n      == held[u]
           pins   == [b \in Block |-> IF b \in Chain[n] THEN cache.pins[b] - 1 ELSE cache.pins[b]]
           e      == [cache EXCEPT !.pins = pins]
           who(b) == {x \in User : b \in Chain[held[x]]}
<1>1. /\ \A b \in Chain[n] : cache.pins[b] > 0
      /\ cache' = NextVersion(e)
      /\ held' = [held EXCEPT ![u] = Root]
      /\ UNCHANGED <<wire, offer, draft>>
  BY DEF UnpinPath, Unpin, CacheInv, TypeOK, Cache
<1>2. cache \in Cache /\ cache.pins \in [Block -> Nat]
  BY DEF CacheInv, TypeOK, Cache
<1>3. pins \in [Block -> Nat]
  BY <1>1, <1>2
<1>4. /\ \A b \in Chain[n] : b \in Block => pins[b] = cache.pins[b] - 1
      /\ \A b \in Block \ Chain[n] : pins[b] = cache.pins[b]
  OBVIOUS
<1> HIDE DEF pins
<1>5. /\ e \in Cache
      /\ e.pages = cache.pages /\ e.pins = pins
      /\ e.temporary = cache.temporary /\ e.version = cache.version
  BY <1>2, <1>3 DEF Cache
<1> HIDE DEF e
<1>6. /\ cache' \in Cache
      /\ cache'.pages = cache.pages /\ cache'.pins = pins
      /\ cache'.temporary = cache.temporary
      /\ cache'.version = cache.version + 1
  BY <1>1, <1>5, VersionFacts
<1>7. TypeOK'
  BY <1>1, <1>6 DEF CacheInv, TypeOK, Node
<1>8. CacheSound'
  BY <1>6, SamePagesSound DEF CacheInv
<1>9. PinsAreHolds'
  <2>1. \A x \in User : held'[x] = IF x = u THEN Root ELSE held[x]
    BY <1>1 DEF CacheInv, TypeOK
  <2>2. \A x \in User : Published(cache', held'[x])
    BY <1>6, <2>1, ChainAssumption DEF CacheInv, PinsAreHolds, Published
  <2>3. ASSUME NEW b \in Block
        PROVE  cache'.pins[b] = Cardinality({x \in User : b \in Chain[held'[x]]})
    <3>1. /\ cache.pins[b] = Cardinality(who(b))
          /\ IsFiniteSet(who(b))
          /\ u \in who(b) <=> b \in Chain[n]
      BY UserAssumption, FS_Subset DEF CacheInv, PinsAreHolds
    <3>2. {x \in User : b \in Chain[held'[x]]} = who(b) \ {u}
      BY <2>1, ChainAssumption
    <3> HIDE DEF who, n
    <3>3. u \in who(b) => Cardinality(who(b) \ {u}) = Cardinality(who(b)) - 1
      BY <3>1, FS_RemoveElement
    <3>4. u \notin who(b) => who(b) \ {u} = who(b)
      OBVIOUS
    <3>5. QED
      BY <1>4, <1>6, <3>1, <3>2, <3>3, <3>4
  <2>4. QED
    BY <2>2, <2>3 DEF PinsAreHolds
<1>10. /\ FreshPlansExecutable'
       /\ \A x \in Transfer : offer'[x].version <= cache'.version
       /\ \A x \in User : draft'[x].version <= cache'.version
  BY <1>1, <1>6, <1>7, MutationMakesStale DEF CacheInv
<1>11. CallersInStep'
  BY <1>1, <1>6, <1>10 DEF CacheInv, CallersInStep, InFlight
<1>12. QED
  BY <1>7, <1>8, <1>9, <1>10, <1>11 DEF CacheInv

(* record_reuse moves access orders, which no invariant mentions.          *)
LEMMA ReuseStep ==
    ASSUME CacheInv, NEW n \in Node, Reuse(n)
    PROVE  CacheInv'
<1>1. CASE n = Root
  <2>1. UNCHANGED vars
    BY <1>1 DEF Reuse, RecordReuse, vars
  <2>2. QED
    BY <2>1 DEF vars, CacheInv, TypeOK, CacheSound, PinsAreHolds, FreshPlansExecutable,
                CallersInStep, InFlight
<1>2. CASE n # Root
  <2> DEFINE stamp == [b \in Block |-> IF b \in Chain[n] THEN cache.accesses + Depth(b)
                                                         ELSE cache.stamp[b]]
             e == [cache EXCEPT !.stamp = stamp, !.accesses = cache.accesses + Depth(n)]
  <2>1. cache \in Cache /\ cache.accesses \in Nat /\ cache.stamp \in [Block -> Nat]
    BY DEF CacheInv, TypeOK, Cache
  <2>2. stamp \in [Block -> Nat] /\ cache.accesses + Depth(n) \in Nat
    BY <2>1, ChainFacts DEF Node
  <2>3. cache' = NextVersion(e) /\ UNCHANGED <<wire, offer, draft, held>>
    BY <1>2, <2>1 DEF Reuse, RecordReuse, Cache
  <2> HIDE DEF stamp
  <2>4. /\ e \in Cache
        /\ e.pages = cache.pages /\ e.pins = cache.pins
        /\ e.temporary = cache.temporary /\ e.version = cache.version
    BY <2>1, <2>2 DEF Cache
  <2> HIDE DEF e
  <2>5. /\ cache' \in Cache
        /\ cache'.pages = cache.pages /\ cache'.pins = cache.pins
        /\ cache'.temporary = cache.temporary
        /\ cache'.version = cache.version + 1
    BY <2>3, <2>4, VersionFacts
  <2>6. TypeOK'
    BY <2>3, <2>5 DEF CacheInv, TypeOK
  <2>7. CacheSound'
    BY <2>5, SamePagesSound DEF CacheInv
  <2>8. PinsAreHolds'
    BY <2>3, <2>5 DEF CacheInv, PinsAreHolds, Published
  <2>9. /\ FreshPlansExecutable'
        /\ \A x \in Transfer : offer'[x].version <= cache'.version
        /\ \A x \in User : draft'[x].version <= cache'.version
    BY <2>3, <2>5, <2>6, MutationMakesStale DEF CacheInv
  <2>10. CallersInStep'
    BY <2>3, <2>5, <2>9 DEF CacheInv, CallersInStep, InFlight
  <2>11. QED
    BY <2>6, <2>7, <2>8, <2>9, <2>10 DEF CacheInv
<1>3. QED
  BY <1>1, <1>2

-----------------------------------------------------------------------------
(* Every step of the cache and of its callers keeps the invariant.         *)
LEMMA StepCacheInv == CacheInv /\ [Next]_vars => CacheInv'
<1> SUFFICES ASSUME CacheInv, [Next]_vars PROVE CacheInv'
  OBVIOUS
<1>1. ASSUME NEW t \in Transfer, NEW n \in Block, PreflightTransfer(t, n) PROVE CacheInv'
  BY <1>1, PreflightTransferStep
<1>2. ASSUME NEW u \in User, NEW n \in Node, PreflightPrompt(u, n) PROVE CacheInv'
  BY <1>2, PreflightPromptStep
<1>3. ASSUME \/ \E t \in Transfer : DiscardOffer(t)
             \/ \E u \in User : DiscardDraft(u)
      PROVE  CacheInv'
  BY <1>3, DiscardStep
<1>4. ASSUME NEW t \in Transfer, Reserve(t) PROVE CacheInv'
  BY <1>4, ReserveStep
<1>5. ASSUME NEW u \in User, Publish(u) PROVE CacheInv'
  BY <1>5, PublishStep
<1>6. ASSUME NEW t \in Transfer, Complete(t) PROVE CacheInv'
  BY <1>6, CompleteStep
<1>7. ASSUME NEW u \in User, NEW n \in Node, PinPath(u, n) PROVE CacheInv'
  BY <1>7, PinStep
<1>8. ASSUME NEW u \in User, UnpinPath(u) PROVE CacheInv'
  BY <1>8, UnpinStep
<1>9. ASSUME NEW n \in Node, Reuse(n) PROVE CacheInv'
  BY <1>9, ReuseStep
<1>10. CASE UNCHANGED vars
  BY <1>10 DEF vars, CacheInv, TypeOK, CacheSound, PinsAreHolds, FreshPlansExecutable,
               CallersInStep, InFlight
<1>11. QED
  BY <1>1, <1>2, <1>3, <1>4, <1>5, <1>6, <1>7, <1>8, <1>9, <1>10 DEF Next

(* The inductive invariant holds in every state a cache can reach.         *)
THEOREM CacheInvariant == Spec => []CacheInv
BY InitCacheInv, StepCacheInv, PTL DEF Spec

(* Pin counts never fall below zero and every plan is well formed          *)
(* (assert_invariants, cache.py).                                          *)
THEOREM TypeCorrect == Spec => []TypeOK
<1>1. CacheInv => TypeOK
  BY DEF CacheInv
<1>2. QED
  BY <1>1, CacheInvariant, PTL

(* assert_invariants of cache.py never raises: published and buffered      *)
(* pages fit the capacity and every page has its prefix.                   *)
THEOREM CacheSafe == Spec => []CacheSound
<1>1. CacheInv => CacheSound
  BY DEF CacheInv
<1>2. QED
  BY <1>1, CacheInvariant, PTL

(* A pinned path stays published until its last unpin, and pin counts are  *)
(* exactly the users that hold the page.                                   *)
THEOREM PinsSafe == Spec => []PinsAreHolds
<1>1. CacheInv => PinsAreHolds
  BY DEF CacheInv
<1>2. QED
  BY <1>1, CacheInvariant, PTL

(* A plan that validate_plan accepts can be carried out: the version stamp *)
(* is enough to make preflight and commit one atomic decision.             *)
THEOREM PlansSafe == Spec => []FreshPlansExecutable
<1>1. CacheInv => FreshPlansExecutable
  BY DEF CacheInv
<1>2. QED
  BY <1>1, CacheInvariant, PTL

-----------------------------------------------------------------------------
(* The cache implements PageStore: every call is a step of the store or    *)
(* leaves it alone.                                                        *)

(* An empty cache is an empty store.                                       *)
LEMMA StoreInitFacts == Init => Store!StoreInit
BY DEF Init, EmptyCache, Store!StoreInit

(* A path that is closed under parents is closed under prefixes.           *)
LEMMA PagesClosed ==
    ASSUME CacheInv'
    PROVE  \A b \in cache'.pages : Chain[b] \subseteq cache'.pages
<1>1. cache'.pages \in SUBSET Block /\ \A b \in cache'.pages : Parent[b] \in cache'.pages \cup {Root}
  BY DEF CacheInv, TypeOK, Cache, CacheSound, PrefixClosed
<1>2. QED
  BY <1>1, ClosedByParent

(* The instance counts as the cache does. *)
LEMMA SameCount == \A S : Store!Cardinality(S) = Cardinality(S)
BY DEF Cardinality, Store!Cardinality

(* What is published and promised fits after every call.                   *)
LEMMA FitsNext == CacheInv' => Store!Fits
BY SameCount
   DEF CacheInv, CacheSound, WithinCapacity, MemoryPages, TemporaryPages, BufferSlots,
       Store!Fits, Store!PromisedSlots

(* Making room for a plan is what the store calls keeping the rest.        *)
LEMMA RoomKeeps ==
    ASSUME CacheInv, CacheInv', NEW V \in SUBSET Block, NEW n \in Node,
           \A b \in V : cache.pins[b] = 0,
           cache'.pages = (cache.pages \ V) \cup Chain[n]
    PROVE  Store!Keeps(cache.pages \ V, n)
<1>1. \A u \in User : Chain[held[u]] \subseteq cache.pages \ V
  BY EvictionSparesHolds
<1>2. \A b \in (cache.pages \ V) \cup Chain[n] : Chain[b] \subseteq (cache.pages \ V) \cup Chain[n]
  BY PagesClosed
<1>3. QED
  BY <1>1, <1>2 DEF Store!Keeps, Store!HeldPages

(* reserve_temporary promises room, and drops only what nobody holds.      *)
LEMMA ReserveIsPromise ==
    ASSUME CacheInv, CacheInv', NEW t \in Transfer, Reserve(t)
    PROVE  Store!Promise
<1> DEFINE V == Victims(offer[t])
           n == wire[t]
<1>1. /\ IsFresh(cache, offer[t], "TEMPORARY") /\ ~InFlight(t)
      /\ cache' = ReserveTemporary(cache, t, offer[t])
      /\ held' = held
  BY DEF Reserve
<1>2. Executable(cache, offer[t]) /\ offer[t].additional = Depth(n)
  BY <1>1 DEF CacheInv, FreshPlansExecutable
<1>3. n \in Block
  <2>1. offer[t] # NoPlan
    BY <1>1 DEF IsFresh, NoPlan
  <2>2. QED
    BY <2>1 DEF CacheInv, CallersInStep
<1>4. V \in SUBSET Block /\ \A b \in V : cache.pins[b] = 0
  BY <1>2 DEF Executable, CacheInv, TypeOK, Cache
<1> HIDE DEF V
<1>5. /\ cache'.pages = cache.pages \ V
      /\ cache'.temporary = [cache.temporary EXCEPT ![t] = Depth(n)]
  BY <1>1, <1>2 DEF ReserveTemporary, NextVersion, Evict, V, CacheInv, TypeOK, Cache
<1>6. Store!Keeps(cache.pages \ V, Root)
  <2>1. cache'.pages = (cache.pages \ V) \cup Chain[Root] /\ Root \in Node
    BY <1>5, ChainAssumption DEF Node
  <2>2. QED
    BY <1>4, <2>1, RoomKeeps
<1>7. cache.temporary[t] = 0 /\ cache.pages \ V \in SUBSET Block
  BY <1>1 DEF InFlight, CacheInv, TypeOK, Cache
<1>8. Store!Fits
  BY FitsNext
<1>9. QED
  BY <1>1, <1>3, <1>5, <1>6, <1>7, <1>8, SameCount DEF Store!Promise, Store!Depth, Depth

(* publish_prompt admits one path.                                         *)
LEMMA PublishIsAdmit ==
    ASSUME CacheInv, CacheInv', NEW u \in User, Publish(u)
    PROVE  Store!Admit
<1> DEFINE V == Victims(draft[u])
           n == draft[u].path
<1>1. /\ IsFresh(cache, draft[u], "PROMPT")
      /\ cache' = PublishPrompt(cache, draft[u])
      /\ held' = held
  BY DEF Publish
<1>2. Executable(cache, draft[u]) /\ n \in Node
  BY <1>1 DEF CacheInv, FreshPlansExecutable, TypeOK, Plan
<1>3. V \in SUBSET Block /\ \A b \in V : cache.pins[b] = 0
  BY <1>2 DEF Executable, CacheInv, TypeOK, Cache
<1> HIDE DEF V, n
<1>4. /\ cache'.pages = (cache.pages \ V) \cup Chain[n]
      /\ cache'.temporary = cache.temporary
  <2> DEFINE e == Evict(cache, V)
             f == Insert(e, n)
  <2>1. cache \in Cache
    BY DEF CacheInv, TypeOK
  <2>2. e \in Cache /\ e.pages = cache.pages \ V /\ e.temporary = cache.temporary
    BY <1>3, <2>1, EvictFacts
  <2> HIDE DEF e
  <2>3. f \in Cache /\ f.pages = e.pages \cup Chain[n] /\ f.temporary = e.temporary
    BY <1>2, <2>2, InsertFacts
  <2>4. cache' = NextVersion(f)
    BY <1>1 DEF PublishPrompt, V, n, e
  <2> HIDE DEF f
  <2>5. QED
    BY <2>2, <2>3, <2>4, VersionFacts
<1>5. Store!Keeps(cache.pages \ V, n)
  BY <1>2, <1>3, <1>4, RoomKeeps
<1>6. cache.pages \ V \in SUBSET Block
  BY DEF CacheInv, TypeOK, Cache
<1>7. Store!Fits
  BY FitsNext
<1>8. QED
  BY <1>1, <1>2, <1>4, <1>5, <1>6, <1>7 DEF Store!Admit, Store!Node, Node

(* complete_transfer brings its path and drops nothing.                    *)
LEMMA CompleteIsDeliver ==
    ASSUME CacheInv, NEW t \in Transfer, Complete(t)
    PROVE  Store!Deliver
<1> DEFINE n == wire[t]
           e == [cache EXCEPT !.temporary[t] = 0]
           f == Insert(e, n)
<1>1. /\ cache.temporary[t] > 0 /\ cache.temporary[t] = Depth(n)
      /\ cache' = NextVersion(f)
      /\ held' = held
  BY DEF Complete, InFlight, CompleteTransfer
<1>2. cache \in Cache /\ n \in Node
  BY DEF CacheInv, TypeOK
<1>3. n \in Block
  BY <1>1, <1>2, ChainFacts DEF Node
<1>4. /\ e \in Cache /\ e.pages = cache.pages
      /\ e.temporary = [cache.temporary EXCEPT ![t] = 0]
  BY <1>2, BufferFacts
<1> HIDE DEF e
<1>5. f \in Cache /\ f.pages = e.pages \cup Chain[n] /\ f.temporary = e.temporary
  BY <1>2, <1>4, InsertFacts
<1> HIDE DEF f
<1>6. /\ cache'.pages = cache.pages \cup Chain[n]
      /\ cache'.temporary = [cache.temporary EXCEPT ![t] = 0]
  BY <1>1, <1>4, <1>5, VersionFacts
<1>7. QED
  BY <1>1, <1>3, <1>6, SameCount DEF Store!Deliver, Store!Depth, Depth

(* Every step of the cache is a step of the store.                         *)
LEMMA StoreStep ==
    ASSUME CacheInv, CacheInv', [Next]_vars
    PROVE  [Store!StoreNext]_(Store!storeVars)
<1>1. ASSUME UNCHANGED <<cache, held>> PROVE UNCHANGED Store!storeVars
  BY <1>1 DEF Store!storeVars
<1>2. ASSUME NEW t \in Transfer, NEW n \in Block, PreflightTransfer(t, n)
      PROVE  UNCHANGED <<cache, held>>
  BY <1>2 DEF PreflightTransfer
<1>3. ASSUME NEW u \in User, NEW n \in Node, PreflightPrompt(u, n)
      PROVE  UNCHANGED <<cache, held>>
  BY <1>3 DEF PreflightPrompt
<1>4. ASSUME \/ \E t \in Transfer : DiscardOffer(t)
             \/ \E u \in User : DiscardDraft(u)
      PROVE  UNCHANGED <<cache, held>>
  BY <1>4 DEF DiscardOffer, DiscardDraft
<1>5. ASSUME NEW u \in User, NEW n \in Node, PinPath(u, n) PROVE Store!Hold
  <2>1. /\ cache' = Pin(cache, n) /\ Chain[n] \subseteq cache.pages
        /\ held[u] = Root /\ held' = [held EXCEPT ![u] = n]
    BY <1>5 DEF PinPath, Published
  <2>2. cache'.pages = cache.pages /\ cache'.temporary = cache.temporary
    BY <2>1 DEF Pin, NextVersion, CacheInv, TypeOK, Cache
  <2>3. QED
    BY <2>1, <2>2 DEF Store!Hold, Store!Node, Node
<1>6. ASSUME NEW u \in User, UnpinPath(u) PROVE Store!Release
  <2>1. cache' = Unpin(cache, held[u]) /\ held' = [held EXCEPT ![u] = Root]
    BY <1>6 DEF UnpinPath
  <2>2. cache'.pages = cache.pages /\ cache'.temporary = cache.temporary
    BY <2>1 DEF Unpin, NextVersion, CacheInv, TypeOK, Cache
  <2>3. QED
    BY <2>1, <2>2 DEF Store!Release
<1>7. ASSUME NEW n \in Node, Reuse(n) PROVE UNCHANGED Store!storeVars
  <2>1. cache' = RecordReuse(cache, n) /\ held' = held
    BY <1>7 DEF Reuse
  <2>2. cache'.pages = cache.pages /\ cache'.temporary = cache.temporary
    BY <2>1 DEF RecordReuse, NextVersion, CacheInv, TypeOK, Cache
  <2>3. QED
    BY <2>1, <2>2 DEF Store!storeVars
<1>8. CASE UNCHANGED vars
  BY <1>8 DEF vars, Store!storeVars
<1>9. QED
  BY <1>1, <1>2, <1>3, <1>4, <1>5, <1>6, <1>7, <1>8,
     ReserveIsPromise, PublishIsAdmit, CompleteIsDeliver DEF Next, Store!StoreNext

(* The pod cache implements PageStore: whatever victims it picks, held     *)
(* paths stay, promised room is there at delivery and the capacity holds.  *)
THEOREM CacheImplementsStore == Spec => StoreRefined
<1>1. CacheInv /\ CacheInv' /\ [Next]_vars => [Store!StoreNext]_(Store!storeVars)
  BY StoreStep
<1>2. QED
  BY <1>1, StoreInitFacts, CacheInvariant, PTL DEF Spec, StoreRefined, Store!StoreSpec

-----------------------------------------------------------------------------
(* Refusals *)

(* A published page below a reclaimable one is reclaimable.                *)
LEMMA ReclaimableGoesDown ==
    ASSUME NEW c, Sound(c), NEW protected,
           NEW b \in Reclaimable(c, protected), NEW y \in c.pages, b \in Chain[y]
    PROVE  y \in Reclaimable(c, protected)
<1>1. \A x \in c.pages : y \in Chain[x] => b \in Chain[x]
  BY ChainAssumption DEF Sound, Cache, Node
<1>2. QED
  BY <1>1 DEF Reclaimable

(* The loop of _plan only ever pops reclaimable pages, for every page is   *)
(* popped after all that was published below it.                           *)
LEMMA PopsAreReclaimable ==
    ASSUME NEW c, Sound(c), NEW protected, NEW k \in Nat,
           NEW s \in [1 .. k -> c.pages], IsEvictionOrder(c, s, protected)
    PROVE  Popped(s) \subseteq Reclaimable(c, protected)
<1> DEFINE R == Reclaimable(c, protected)
           Bad == {i \in 1 .. k : s[i] \notin R}
           gone(i) == {s[j] : j \in 1 .. (i - 1)}
<1>1. SUFFICES ASSUME Bad # {} PROVE FALSE
  BY DEF Popped
<1>2. PICK i \in Bad : \A j \in Bad : i <= j
  <2>1. Bad \in SUBSET Nat
    OBVIOUS
  <2> HIDE DEF Bad
  <2>2. QED
    BY <1>1, <2>1, LeastNat
<1> DEFINE b == s[i]
<1>3. /\ i \in 1 .. k /\ b \notin R
      /\ \A j \in 1 .. (i - 1) : s[j] \in R
  BY <1>2
<1>4. /\ b \in c.pages /\ b \notin protected /\ c.pins[b] = 0
      /\ Children(c.pages \ gone(i), b) = {}
  BY <1>3 DEF IsEvictionOrder, IsOldest, HeapPages
<1>5. /\ c.pages \subseteq Block
      /\ \A x \in c.pages : Chain[x] \subseteq c.pages
  <2>1. c.pages \in SUBSET Block /\ \A x \in c.pages : Parent[x] \in c.pages \cup {Root}
    BY DEF Sound, Cache, PrefixClosed
  <2>2. QED
    BY <2>1, ClosedByParent
<1>6. ASSUME NEW x \in c.pages, b \in Chain[x]
      PROVE  c.pins[x] = 0 /\ x \notin protected
  <2>1. CASE x = b
    BY <1>4, <2>1
  <2>2. CASE x # b
    <3>1. PICK y \in Chain[x] : Parent[y] = b
      <4>1. x \in Node
        BY <1>5 DEF Node
      <4>2. QED
        BY <1>6, <2>2, <4>1, ChildOnPath
    <3>2. y \in gone(i)
      BY <1>4, <1>5, <3>1 DEF Children
    <3>3. y \in R
      BY <1>3, <3>2
    <3>4. QED
      BY <1>6, <3>1, <3>3 DEF Reclaimable
  <2>3. QED
    BY <2>1, <2>2
<1>7. b \in R
  BY <1>4, <1>6 DEF Reclaimable
<1>8. QED
  BY <1>3, <1>7

(* While a reclaimable page is left, so is a page the heap can pop next:   *)
(* the loop of _plan never runs dry early.                                 *)
LEMMA NextPopExists ==
    ASSUME NEW c, Sound(c), NEW protected, NEW V \in SUBSET Block,
           Reclaimable(c, protected) \ V # {}
    PROVE  \E b \in c.pages : IsOldest(c, b, HeapPages(c, V, protected))
<1> DEFINE R == Reclaimable(c, protected)
           H == HeapPages(c, V, protected)
           Heights == {Cardinality(Block) - Depth(b) : b \in R \ V}
           Stamps == {c.stamp[b] : b \in H}
<1>1. /\ c \in Cache /\ R \subseteq c.pages /\ H \subseteq c.pages /\ c.pages \subseteq Block
  BY DEF Sound, Cache, Reclaimable, HeapPages
<1>2. \A b \in Block : Depth(b) \in Nat /\ Cardinality(Block) - Depth(b) \in Nat
  <2>1. TAKE b \in Block
  <2>2. Depth(b) <= Cardinality(Block) /\ Cardinality(Block) \in Nat /\ Depth(b) \in Nat
    <3>1. Chain[b] \subseteq Block /\ Depth(b) \in Nat
      BY ChainFacts DEF Node
    <3>2. QED
      BY <3>1, BlockAssumption, FS_Subset, FS_CardinalityType DEF Depth
  <2>3. QED
    BY <2>2
<1>3. PICK b \in R \ V : \A x \in R \ V : Depth(x) <= Depth(b)
  <2>1. Heights \in SUBSET Nat /\ Heights # {}
    BY <1>1, <1>2
  <2>2. PICK h \in Heights : \A j \in Heights : h <= j
    <3> HIDE DEF Heights
    <3>1. QED
      BY <2>1, LeastNat
  <2>3. PICK b \in R \ V : h = Cardinality(Block) - Depth(b)
    BY <2>2
  <2>4. ASSUME NEW x \in R \ V PROVE Depth(x) <= Depth(b)
    <3>1. h <= Cardinality(Block) - Depth(x)
      BY <2>2
    <3>2. Cardinality(Block) \in Nat /\ Depth(x) \in Nat /\ Depth(b) \in Nat
      BY <1>1, <1>2, BlockAssumption, FS_CardinalityType
    <3>3. QED
      BY <2>3, <3>1, <3>2
  <2>5. QED
    BY <2>4
<1>4. Children(c.pages \ V, b) = {}
  <2>1. SUFFICES ASSUME NEW y \in c.pages \ V, Parent[y] = b PROVE FALSE
    BY DEF Children
  <2>2. b \in Block /\ y \in Block /\ b \in Chain[y] /\ Depth(y) = Depth(b) + 1
    BY <1>1, <2>1, ParentFacts, ChainFacts
  <2>3. y \in R \ V
    BY <2>2, ReclaimableGoesDown
  <2>4. QED
    BY <1>2, <1>3, <2>2, <2>3
<1>5. b \in H
  <2>1. b \in Chain[b]
    BY <1>1, ChainFacts DEF Node
  <2>2. QED
    BY <1>3, <1>4, <2>1 DEF Reclaimable, HeapPages
<1>6. Stamps \in SUBSET Nat /\ Stamps # {}
  BY <1>1, <1>5 DEF Cache
<1>7. PICK k \in Stamps : \A j \in Stamps : k <= j
  <2> HIDE DEF Stamps
  <2>1. QED
    BY <1>6, LeastNat
<1>8. PICK o \in H : c.stamp[o] = k
  BY <1>7
<1>9. IsOldest(c, o, H)
  BY <1>7, <1>8 DEF IsOldest
<1>10. QED
  BY <1>1, <1>8, <1>9

(* As many pages as are reclaimable can be popped, one by one.             *)
LEMMA OrdersExist ==
    ASSUME NEW c, Sound(c), NEW protected, NEW k \in Nat,
           k <= Cardinality(Reclaimable(c, protected))
    PROVE  \E s \in [1 .. k -> c.pages] : IsEvictionOrder(c, s, protected)
<1> DEFINE R == Reclaimable(c, protected)
           Has(m) == \E s \in [1 .. m -> c.pages] : IsEvictionOrder(c, s, protected)
           Bad == {m \in 0 .. k : ~Has(m)}
<1>1. SUFFICES ASSUME Bad # {} PROVE FALSE
  <2>1. Bad = {} => Has(k)
    OBVIOUS
  <2>2. QED
    BY <2>1
<1>2. PICK m \in Bad : \A j \in Bad : m <= j
  <2>1. Bad \in SUBSET Nat
    OBVIOUS
  <2> HIDE DEF Bad
  <2>2. QED
    BY <1>1, <2>1, LeastNat
<1>3. m \in 0 .. k /\ ~Has(m) /\ (m # 0 => m - 1 \in 0 .. k /\ m - 1 \notin Bad)
  <2> HIDE DEF Has
  <2>1. m \in 0 .. k /\ ~Has(m)
    OBVIOUS
  <2> HIDE DEF Bad
  <2>2. QED
    BY <1>2, <2>1
<1>4. m # 0
  <2>1. ASSUME m = 0 PROVE FALSE
    <3> DEFINE s == [i \in 1 .. 0 |-> Root]
    <3>1. s \in [1 .. 0 -> c.pages] /\ IsEvictionOrder(c, s, protected)
      BY DEF IsEvictionOrder
    <3>2. QED
      BY <1>3, <2>1, <3>1
  <2>2. QED
    BY <2>1
<1>5. PICK s \in [1 .. (m - 1) -> c.pages] : IsEvictionOrder(c, s, protected)
  <2>1. Has(m - 1)
    <3> HIDE DEF Has
    <3>1. QED
      BY <1>3, <1>4
  <2>2. QED
    BY <2>1
<1> DEFINE V == Popped(s)
<1>6. V \subseteq R /\ V \in SUBSET Block /\ R \ V # {}
  <2>1. m - 1 \in Nat /\ c.pages \subseteq Block /\ R \subseteq c.pages
    BY <1>3, <1>4 DEF Sound, Cache, Reclaimable
  <2>2. V \subseteq R
    BY <1>5, <2>1, PopsAreReclaimable
  <2>3. Cardinality(V) <= m - 1 /\ IsFiniteSet(V)
    <3>1. IsFiniteSet(1 .. (m - 1)) /\ Cardinality(1 .. (m - 1)) = m - 1
      BY <2>1, FS_Interval
    <3>2. s \in Surjection(1 .. (m - 1), V)
      BY DEF Surjection, Popped
    <3>3. QED
      BY <3>1, <3>2, FS_Surjection
  <2>4. V # R
    <3>1. m - 1 < Cardinality(R) /\ Cardinality(R) \in Nat
      <4>1. Cardinality(R) \in Nat
        BY <2>1, BlockAssumption, FS_Subset, FS_CardinalityType
      <4>2. QED
        BY <1>3, <4>1
    <3>2. QED
      BY <2>1, <2>3, <3>1
  <2>5. QED
    BY <2>1, <2>2, <2>4
<1>7. PICK b \in c.pages : IsOldest(c, b, HeapPages(c, V, protected))
  BY <1>6, NextPopExists
<1> DEFINE more == [i \in 1 .. m |-> IF i = m THEN b ELSE s[i]]
<1>8. more \in [1 .. m -> c.pages]
  BY <1>3, <1>4
<1>9. ASSUME NEW i \in 1 .. m
      PROVE  IsOldest(c, more[i], HeapPages(c, {more[j] : j \in 1 .. (i - 1)}, protected))
  <2>1. {more[j] : j \in 1 .. (i - 1)} = {s[j] : j \in 1 .. (i - 1)}
    <3>1. \A j \in 1 .. (i - 1) : more[j] = s[j]
      BY <1>3
    <3> HIDE DEF more
    <3>2. QED
      BY <3>1
  <2>2. CASE i = m
    <3>1. {s[j] : j \in 1 .. (i - 1)} = V
      BY <2>2 DEF Popped
    <3>2. more[i] = b
      BY <2>2
    <3>3. QED
      BY <1>7, <2>1, <3>1, <3>2
  <2>3. CASE i # m
    <3>1. i \in DOMAIN s /\ more[i] = s[i]
      BY <1>3, <2>3
    <3>2. QED
      BY <1>5, <2>1, <3>1 DEF IsEvictionOrder
  <2>4. QED
    BY <2>2, <2>3
<1>10. Has(m)
  <2>1. DOMAIN more = 1 .. m
    OBVIOUS
  <2> HIDE DEF more
  <2>2. IsEvictionOrder(c, more, protected)
    BY <1>9, <2>1 DEF IsEvictionOrder
  <2>3. QED
    BY <1>8, <2>2
<1>11. QED
  BY <1>3, <1>10

(* _plan answers a plan exactly when enough pages could be freed.          *)
LEMMA AdmitsWhenItCan ==
    ASSUME NEW c, Sound(c), NEW additional \in Nat, NEW protected
    PROVE  CanAdmit(c, additional, protected)
              <=> Needed(c, additional) <= Cardinality(Reclaimable(c, protected))
<1> DEFINE R == Reclaimable(c, protected)
           k == Needed(c, additional)
<1>1. c \in Cache /\ k \in Nat
  BY SizeFacts, CapacityAssumption DEF Sound, Needed
<1>2. IsFiniteSet(c.pages) /\ Cardinality(c.pages) \in Nat /\ R \subseteq c.pages
  BY <1>1, SizeFacts DEF Reclaimable
<1>3. ASSUME k <= Cardinality(R) PROVE CanAdmit(c, additional, protected)
  <2>1. PICK s \in [1 .. k -> c.pages] : IsEvictionOrder(c, s, protected)
    <3> HIDE DEF k
    <3>1. QED
      BY <1>1, <1>3, OrdersExist
  <2>2. s \in EvictionOrders(c, additional, protected)
    BY <2>1 DEF EvictionOrders
  <2>3. QED
    BY <2>2 DEF CanAdmit
<1>4. ASSUME CanAdmit(c, additional, protected) PROVE k <= Cardinality(R)
  <2>1. PICK s \in EvictionOrders(c, additional, protected) : TRUE
    BY <1>4 DEF CanAdmit
  <2>2. s \in [1 .. k -> c.pages] /\ IsEvictionOrder(c, s, protected)
    BY DEF EvictionOrders
  <2>3. Popped(s) \subseteq R
    <3> HIDE DEF k
    <3>1. QED
      BY <1>1, <2>2, PopsAreReclaimable
  <2>4. Cardinality(c.pages \ Popped(s)) = Cardinality(c.pages) - k
    BY <1>1, EvictionOrderFacts
  <2>5. Cardinality(c.pages \ Popped(s)) = Cardinality(c.pages) - Cardinality(Popped(s))
    <3>1. c.pages \cap Popped(s) = Popped(s)
      BY <1>2, <2>3
    <3>2. QED
      BY <1>2, <3>1, FS_Difference
  <2>6. Cardinality(Popped(s)) <= Cardinality(R) /\ Cardinality(Popped(s)) \in Nat
    BY <1>2, <2>3, FS_Subset, FS_CardinalityType
  <2>7. QED
    BY <1>1, <1>2, <2>4, <2>5, <2>6
<1>5. QED
  BY <1>3, <1>4

(* A pod refuses pages only when it must: what stops an admission is the   *)
(* capacity, the pins and the hit being extended, never the order in which *)
(* the private heap of _plan happens to expose its leaves.                 *)
THEOREM RefusalsForced == Spec => []RefusalsAreForced
<1>1. CacheInv => RefusalsAreForced
  <2>1. SUFFICES ASSUME CacheInv PROVE RefusalsAreForced
    OBVIOUS
  <2>2. Sound(cache)
    BY <2>1 DEF CacheInv, TypeOK, CacheSound, Sound
  <2>3. \A k \in 1 .. Capacity + 1 :
            CanPlanTemporary(cache, k) <=> Needed(cache, k) <= Cardinality(Reclaimable(cache, {}))
    BY <2>2, AdmitsWhenItCan, CapacityAssumption DEF CanPlanTemporary
  <2>4. \A n \in Node :
            CanPlanPrompt(cache, n) <=>
                Needed(cache, MissingPages(cache, n))
                    <= Cardinality(Reclaimable(cache, HitPages(cache, n)))
    BY <2>2, HitFacts, AdmitsWhenItCan DEF CanPlanPrompt
  <2>5. QED
    BY <2>3, <2>4 DEF RefusalsAreForced
<1>2. QED
  BY CacheInvariant, <1>1, PTL

-----------------------------------------------------------------------------
(* Least recently used first *)

(* The access orders of published pages are distinct and behind the        *)
(* counter, so the heap of _plan never has a tie to break.                 *)
Stamped(c) ==
    /\ \A b \in c.pages : c.stamp[b] <= c.accesses
    /\ \A b, d \in c.pages : b # d => c.stamp[b] # c.stamp[d]

(* A plan that passes validate_plan still pops its victims in the order    *)
(* the heap would choose now.                                              *)
PlansOrdered ==
    /\ \A t \in Transfer :
          IsFresh(cache, offer[t], "TEMPORARY") =>
              offer[t].evictions \in EvictionOrders(cache, offer[t].additional, {})
    /\ \A u \in User :
          IsFresh(cache, draft[u], "PROMPT") =>
              draft[u].evictions \in
                  EvictionOrders(cache, draft[u].additional, HitPages(cache, draft[u].path))

(* The inductive invariant of the order.                                   *)
OrderInv == CacheInv /\ Stamped(cache) /\ PlansOrdered

(* The pages of a path outside S have different ranks, one to their number. *)
LEMMA RanksDiffer ==
    ASSUME NEW n \in Node, NEW S
    PROVE  LET new     == Chain[n] \ S
               rank(b) == Cardinality(Chain[b] \ S)
           IN  /\ Cardinality(new) \in Nat
               /\ \A b \in new : rank(b) \in 1 .. Cardinality(new)
               /\ \A b, d \in new : b # d => rank(b) # rank(d)
<1> DEFINE new     == Chain[n] \ S
           rank(b) == Cardinality(Chain[b] \ S)
<1>1. /\ Chain[n] \subseteq Block /\ IsFiniteSet(new) /\ Cardinality(new) \in Nat
  BY ChainFacts, FS_Subset, FS_CardinalityType
<1>2. ASSUME NEW b \in new
      PROVE  /\ b \in Chain[b] /\ Chain[b] \ S \subseteq new
             /\ IsFiniteSet(Chain[b] \ S) /\ rank(b) \in 1 .. Cardinality(new)
  <2>1. b \in Chain[b] /\ Chain[b] \subseteq Chain[n]
    BY <1>1, ChainFacts, ChainAssumption DEF Node
  <2>2. IsFiniteSet(Chain[b] \ S) /\ rank(b) \in Nat /\ rank(b) <= Cardinality(new)
    BY <1>1, <2>1, FS_Subset, FS_CardinalityType
  <2>3. rank(b) # 0
    BY <2>1, <2>2, FS_EmptySet
  <2>4. QED
    BY <1>1, <2>1, <2>2, <2>3
<1>3. ASSUME NEW b \in new, NEW d \in new, b # d, Chain[b] \subseteq Chain[d]
      PROVE  rank(b) < rank(d)
  <2>1. d \in Block /\ Chain[d] = Chain[Parent[d]] \cup {d} /\ d \notin Chain[Parent[d]]
        /\ Parent[d] \in Node
    BY <1>1, ChainAssumption, ParentAssumption
  <2>2. b \in Chain[Parent[d]]
    BY <1>2, <1>3, <2>1
  <2>3. d \notin Chain[b]
    BY <2>1, <2>2, ChainAssumption
  <2>4. Chain[b] \ S \subseteq Chain[d] \ S /\ Chain[b] \ S # Chain[d] \ S
    BY <1>2, <1>3, <2>3
  <2>5. QED
    BY <1>2, <2>4, FS_Subset, FS_CardinalityType
<1>4. ASSUME NEW b \in new, NEW d \in new, b # d PROVE rank(b) # rank(d)
  <2>1. Chain[b] \subseteq Chain[d] \/ Chain[d] \subseteq Chain[b]
    BY PathOrdered
  <2>2. rank(b) \in Nat
    BY <1>2
  <2>3. rank(d) \in Nat
    BY <1>2
  <2>4. rank(b) < rank(d) \/ rank(d) < rank(b)
    BY <1>3, <1>4, <2>1
  <2> HIDE DEF rank
  <2>5. QED
    BY <2>2, <2>3, <2>4
<1>5. QED
  BY <1>1, <1>2, <1>4

(* Fewer pages with the access orders they had are still told apart.       *)
LEMMA StampedShrinks ==
    ASSUME NEW c, NEW e, Stamped(c), e.pages \subseteq c.pages, e.accesses = c.accesses,
           \A b \in e.pages : e.stamp[b] = c.stamp[b]
    PROVE  Stamped(e)
BY DEF Stamped

(* _evict takes access orders away and gives none.                         *)
LEMMA StampedEvict ==
    ASSUME NEW c \in Cache, Stamped(c), NEW gone \in SUBSET Block
    PROVE  Stamped(Evict(c, gone))
<1> DEFINE e == Evict(c, gone)
<1>1. /\ e.pages = c.pages \ gone /\ e.accesses = c.accesses
      /\ e.stamp = [b \in Block |-> IF b \in gone THEN 0 ELSE c.stamp[b]]
  BY DEF Evict, Cache
<1>2. \A b \in e.pages : e.stamp[b] = c.stamp[b]
  BY <1>1 DEF Cache
<1> HIDE DEF e
<1>3. Stamped(e)
  BY <1>1, <1>2, StampedShrinks
<1>4. QED
  BY <1>3 DEF e

(* _insert numbers the missing pages past every access order given so far. *)
LEMMA StampedInsert ==
    ASSUME NEW c \in Cache, Stamped(c), NEW n \in Node
    PROVE  Stamped(Insert(c, n))
<1> DEFINE new     == Chain[n] \ c.pages
           rank(b) == Cardinality(Chain[b] \ c.pages)
           e       == Insert(c, n)
<1>1. /\ e.pages = c.pages \cup new /\ e.accesses = c.accesses + Cardinality(new)
      /\ e.stamp = [b \in Block |-> IF b \in new THEN c.accesses + rank(b) ELSE c.stamp[b]]
  BY DEF Insert, Cache
<1>2. /\ Cardinality(new) \in Nat
      /\ \A b \in new : rank(b) \in 1 .. Cardinality(new)
      /\ \A b, d \in new : b # d => rank(b) # rank(d)
  BY RanksDiffer
<1>3. c.accesses \in Nat /\ c.pages \subseteq Block /\ new \subseteq Block
      /\ \A b \in c.pages : c.stamp[b] \in Nat
  BY ChainFacts DEF Cache
<1> HIDE DEF new, rank, e
<1>4. \A b \in new : e.stamp[b] = c.accesses + rank(b)
  BY <1>1, <1>3
<1>5. \A b \in c.pages \ new : e.stamp[b] = c.stamp[b]
  BY <1>1, <1>3
<1>6. \A b \in e.pages : e.stamp[b] <= e.accesses
  BY <1>1, <1>2, <1>3, <1>4, <1>5 DEF Stamped
<1>7. \A b, d \in e.pages : b # d => e.stamp[b] # e.stamp[d]
  BY <1>1, <1>2, <1>3, <1>4, <1>5 DEF Stamped
<1>8. QED
  BY <1>6, <1>7 DEF Stamped, e

(* record_reuse does the same for the pages of the hit.                    *)
LEMMA StampedReuse ==
    ASSUME NEW c, Sound(c), Stamped(c), NEW n \in Node, Published(c, n)
    PROVE  Stamped(RecordReuse(c, n))
<1> DEFINE new     == Chain[n] \ {}
           rank(b) == Cardinality(Chain[b] \ {})
           e       == RecordReuse(c, n)
<1>1. CASE n = Root
  BY <1>1 DEF RecordReuse
<1>2. CASE n # Root
  <2>1. /\ e.pages = c.pages /\ e.accesses = c.accesses + Cardinality(new)
        /\ e.stamp = [b \in Block |-> IF b \in new THEN c.accesses + rank(b) ELSE c.stamp[b]]
    <3>1. Chain[n] = new /\ \A b : Depth(b) = rank(b)
      <4>1. \A S : S \ {} = S
        OBVIOUS
      <4>2. QED
        BY <4>1 DEF Depth
    <3> HIDE DEF new, rank
    <3>2. e = NextVersion([c EXCEPT
                !.stamp    = [b \in Block |-> IF b \in Chain[n] THEN c.accesses + Depth(b) ELSE @[b]],
                !.accesses = @ + Depth(n)])
      BY <1>2 DEF RecordReuse
    <3>3. Depth(n) = Cardinality(new)
      BY <3>1 DEF Depth
    <3>4. QED
      BY <3>1, <3>2, <3>3 DEF NextVersion, Sound, Cache
  <2>2. /\ Cardinality(new) \in Nat
        /\ \A b \in new : rank(b) \in 1 .. Cardinality(new)
        /\ \A b, d \in new : b # d => rank(b) # rank(d)
    BY RanksDiffer
  <2>3. c.accesses \in Nat /\ c.pages \subseteq Block /\ new \subseteq c.pages
        /\ \A b \in c.pages : c.stamp[b] \in Nat
    BY DEF Sound, Cache, Published
  <2> HIDE DEF new, rank, e
  <2>4. \A b \in new : e.stamp[b] = c.accesses + rank(b)
    BY <2>1, <2>3
  <2>5. \A b \in c.pages \ new : e.stamp[b] = c.stamp[b]
    BY <2>1, <2>3
  <2>6. \A b \in e.pages : e.stamp[b] <= e.accesses
    BY <2>1, <2>2, <2>3, <2>4, <2>5 DEF Stamped
  <2>7. \A b, d \in e.pages : b # d => e.stamp[b] # e.stamp[d]
    BY <2>1, <2>2, <2>3, <2>4, <2>5 DEF Stamped
  <2>8. QED
    BY <2>6, <2>7 DEF Stamped, e
<1>3. QED
  BY <1>1, <1>2

(* Initially no page is published and no plan is out.                     *)
LEMMA InitOrderInv == Init => OrderInv
<1> SUFFICES ASSUME Init PROVE OrderInv
  OBVIOUS
<1>1. Stamped(cache)
  BY DEF Init, EmptyCache, Stamped
<1>2. PlansOrdered
  BY DEF Init, NoPlan, IsFresh, PlansOrdered
<1>3. QED
  BY <1>1, <1>2, InitCacheInv DEF OrderInv

(* A preflight answers the order its private heap popped; it leaves the    *)
(* cache and the other plans alone.                                        *)
LEMMA PreflightKeepsOrder ==
    ASSUME OrderInv, CacheInv',
           \/ \E t \in Transfer, n \in Block : PreflightTransfer(t, n)
           \/ \E u \in User, n \in Node : PreflightPrompt(u, n)
    PROVE  OrderInv'
<1>1. /\ TypeOK /\ Stamped(cache) /\ PlansOrdered
  BY DEF OrderInv, CacheInv
<1>2. cache' = cache
  BY DEF PreflightTransfer, PreflightPrompt
<1>3. \A additional, protected, kind, n : CanAdmit(cache, additional, protected) =>
          LET plan == AdmissionPlan(cache, kind, n, additional, protected)
          IN  /\ plan.evictions \in EvictionOrders(cache, additional, protected)
              /\ plan.additional = additional /\ plan.path = n
  BY DEF CanAdmit, AdmissionPlan
<1>4. CASE \E t \in Transfer, n \in Block : PreflightTransfer(t, n)
  <2>1. PICK t \in Transfer, n \in Block : PreflightTransfer(t, n)
    BY <1>4
  <2> DEFINE plan == PlanTemporary(cache, Depth(n))
  <2>2. /\ plan.evictions \in EvictionOrders(cache, Depth(n), {}) /\ plan.additional = Depth(n)
    BY <1>3, <2>1 DEF PreflightTransfer, PlanTemporary, CanPlanTemporary
  <2>3. /\ offer' = [offer EXCEPT ![t] = plan] /\ draft' = draft
    BY <2>1 DEF PreflightTransfer
  <2> HIDE DEF plan
  <2>4. PlansOrdered'
    BY <1>1, <1>2, <2>2, <2>3 DEF PlansOrdered, TypeOK
  <2>5. QED
    BY <1>1, <1>2, <2>4 DEF OrderInv
<1>5. CASE \E u \in User, n \in Node : PreflightPrompt(u, n)
  <2>1. PICK u \in User, n \in Node : PreflightPrompt(u, n)
    BY <1>5
  <2> DEFINE plan == PlanPrompt(cache, n)
  <2>2. /\ plan.evictions \in EvictionOrders(cache, MissingPages(cache, n), HitPages(cache, n))
        /\ plan.additional = MissingPages(cache, n) /\ plan.path = n
    BY <1>3, <2>1 DEF PreflightPrompt, PlanPrompt, CanPlanPrompt
  <2>3. /\ draft' = [draft EXCEPT ![u] = plan] /\ offer' = offer
    BY <2>1 DEF PreflightPrompt
  <2> HIDE DEF plan
  <2>4. PlansOrdered'
    BY <1>1, <1>2, <2>2, <2>3 DEF PlansOrdered, TypeOK
  <2>5. QED
    BY <1>1, <1>2, <2>4 DEF OrderInv
<1>6. QED
  BY <1>4, <1>5

(* A plan that is dropped leaves the others as they are.                   *)
LEMMA DiscardKeepsOrder ==
    ASSUME OrderInv, CacheInv',
           \/ \E t \in Transfer : DiscardOffer(t)
           \/ \E u \in User : DiscardDraft(u)
    PROVE  OrderInv'
<1>1. /\ TypeOK /\ Stamped(cache) /\ PlansOrdered
  BY DEF OrderInv, CacheInv
<1>2. cache' = cache /\ NoPlan.kind = "NONE"
  BY DEF DiscardOffer, DiscardDraft, NoPlan
<1>3. \A t \in Transfer : offer'[t] \in {offer[t], NoPlan}
  BY <1>1 DEF DiscardOffer, DiscardDraft, TypeOK
<1>4. \A u \in User : draft'[u] \in {draft[u], NoPlan}
  BY <1>1 DEF DiscardOffer, DiscardDraft, TypeOK
<1>5. PlansOrdered'
  BY <1>1, <1>2, <1>3, <1>4 DEF PlansOrdered, IsFresh
<1>6. QED
  BY <1>1, <1>2, <1>5 DEF OrderInv

(* A mutation makes every plan stale, and the access orders it leaves are  *)
(* told apart.                                                             *)
LEMMA MutationKeepsOrder ==
    ASSUME OrderInv, CacheInv',
           \/ \E t \in Transfer : Reserve(t) \/ Complete(t)
           \/ \E u \in User : Publish(u) \/ UnpinPath(u) \/ \E n \in Node : PinPath(u, n)
    PROVE  OrderInv'
<1>1. /\ CacheInv /\ TypeOK /\ CallersInStep /\ Stamped(cache) /\ PlansOrdered
      /\ cache \in Cache /\ TypeOK'
  BY DEF OrderInv, CacheInv, TypeOK
<1>2. \A t \in Transfer : offer'[t] \in {offer[t], NoPlan}
  BY <1>1 DEF Reserve, Complete, Publish, PinPath, UnpinPath, TypeOK
<1>3. \A u \in User : draft'[u] \in {draft[u], NoPlan}
  BY <1>1 DEF Reserve, Complete, Publish, PinPath, UnpinPath, TypeOK
<1>4. \E c \in Cache : /\ cache' = NextVersion(c) /\ Stamped(c)
                       /\ c.version = cache.version
  <2>1. ASSUME NEW t \in Transfer, Reserve(t)
        PROVE  \E c \in Cache : cache' = NextVersion(c) /\ Stamped(c) /\ c.version = cache.version
    <3> DEFINE e == Evict(cache, Victims(offer[t]))
               c == [e EXCEPT !.temporary[t] = offer[t].additional]
    <3>1. Victims(offer[t]) \in SUBSET Block /\ offer[t].additional \in Nat
      BY <1>1, <2>1
         DEF Reserve, CacheInv, FreshPlansExecutable, Executable, TypeOK, Cache, Plan
    <3>2. e \in Cache /\ e.version = cache.version /\ Stamped(e)
      BY <1>1, <3>1, EvictFacts, StampedEvict
    <3> HIDE DEF e
    <3>3. c \in Cache /\ c.version = e.version /\ c.pages = e.pages
      BY <3>1, <3>2, BufferFacts
    <3>4. c.accesses = e.accesses /\ c.stamp = e.stamp
      BY <3>2 DEF Cache
    <3>5. cache' = NextVersion(c)
      BY <2>1 DEF Reserve, ReserveTemporary, e
    <3> HIDE DEF c
    <3>6. Stamped(c)
      BY <3>2, <3>3, <3>4, StampedShrinks
    <3>7. QED
      BY <3>2, <3>3, <3>5, <3>6
  <2>2. ASSUME NEW u \in User, Publish(u)
        PROVE  \E c \in Cache : cache' = NextVersion(c) /\ Stamped(c) /\ c.version = cache.version
    <3> DEFINE e == Evict(cache, Victims(draft[u]))
               n == draft[u].path
    <3>1. Victims(draft[u]) \in SUBSET Block /\ n \in Node
      BY <1>1, <2>2
         DEF Publish, CacheInv, FreshPlansExecutable, Executable, TypeOK, Cache, Plan
    <3>2. e \in Cache /\ e.version = cache.version /\ Stamped(e)
      BY <1>1, <3>1, EvictFacts, StampedEvict
    <3>3. cache' = NextVersion(Insert(e, n))
      BY <2>2 DEF Publish, PublishPrompt
    <3> HIDE DEF e, n
    <3>4. QED
      BY <3>1, <3>2, <3>3, InsertFacts, StampedInsert
  <2>3. ASSUME NEW t \in Transfer, Complete(t)
        PROVE  \E c \in Cache : cache' = NextVersion(c) /\ Stamped(c) /\ c.version = cache.version
    <3> DEFINE e == [cache EXCEPT !.temporary[t] = 0]
               n == wire[t]
    <3>1. /\ e \in Cache /\ e.version = cache.version /\ e.pages = cache.pages
          /\ e.accesses = cache.accesses /\ e.stamp = cache.stamp
      <4>1. 0 \in Nat
        OBVIOUS
      <4>2. e \in Cache /\ e.version = cache.version /\ e.pages = cache.pages
        BY <1>1, <4>1, BufferFacts
      <4>3. e.accesses = cache.accesses /\ e.stamp = cache.stamp
        BY <1>1 DEF Cache
      <4>4. QED
        BY <4>2, <4>3
    <3>2. n \in Node
      BY <1>1 DEF TypeOK
    <3>3. cache' = NextVersion(Insert(e, n))
      BY <2>3 DEF Complete, CompleteTransfer
    <3> HIDE DEF e, n
    <3>4. Stamped(e)
      BY <1>1, <3>1, StampedShrinks
    <3>5. QED
      BY <3>1, <3>2, <3>3, <3>4, InsertFacts, StampedInsert
  <2>4. ASSUME NEW u \in User, UnpinPath(u) \/ \E n \in Node : PinPath(u, n)
        PROVE  \E c \in Cache : cache' = NextVersion(c) /\ Stamped(c) /\ c.version = cache.version
    <3>1. PICK pins : cache' = NextVersion([cache EXCEPT !.pins = pins])
      BY <2>4 DEF UnpinPath, PinPath, Unpin, Pin
    <3> DEFINE c == [cache EXCEPT !.pins = pins]
    <3>2. /\ c.pages = cache.pages /\ c.stamp = cache.stamp /\ c.accesses = cache.accesses
          /\ c.version = cache.version /\ c.generation = cache.generation
          /\ c.temporary = cache.temporary /\ c.births = cache.births /\ c.pins = pins
          /\ NextVersion(c).pins = pins
      BY <1>1 DEF Cache, NextVersion
    <3>3. cache'.pins \in [Block -> Nat]
      BY <1>1 DEF TypeOK, Cache
    <3>4. c \in Cache
      BY <1>1, <3>1, <3>2, <3>3 DEF Cache
    <3> HIDE DEF c
    <3>5. Stamped(c)
      BY <1>1, <3>2, StampedShrinks
    <3>6. QED
      BY <3>1, <3>2, <3>4, <3>5 DEF c
  <2>5. QED
    BY <2>1, <2>2, <2>3, <2>4
<1>5. PICK c \in Cache : cache' = NextVersion(c) /\ Stamped(c) /\ c.version = cache.version
  BY <1>4
<1>6. Stamped(cache')
  <2>1. /\ cache'.pages = c.pages /\ cache'.stamp = c.stamp /\ cache'.accesses = c.accesses
    BY <1>5 DEF NextVersion, Cache
  <2>2. QED
    BY <1>5, <2>1, StampedShrinks
<1>7. cache'.version = cache.version + 1
  BY <1>5, VersionFacts
<1>8. /\ \A t \in Transfer : ~IsFresh(cache', offer'[t], "TEMPORARY")
      /\ \A u \in User : ~IsFresh(cache', draft'[u], "PROMPT")
  BY <1>1, <1>2, <1>3, <1>7, NothingFresh
<1>9. PlansOrdered'
  BY <1>8 DEF PlansOrdered
<1>10. QED
  BY <1>6, <1>9 DEF OrderInv

(* record_reuse is a mutation unless the hit is empty.                     *)
LEMMA ReuseKeepsOrder ==
    ASSUME OrderInv, CacheInv', NEW n \in Node, Reuse(n)
    PROVE  OrderInv'
<1>1. /\ CacheInv /\ TypeOK /\ CallersInStep /\ Stamped(cache) /\ PlansOrdered
      /\ cache \in Cache /\ TypeOK' /\ Sound(cache)
  BY DEF OrderInv, CacheInv, TypeOK, CacheSound, Sound
<1>2. /\ Published(cache, n) /\ cache' = RecordReuse(cache, n)
      /\ offer' = offer /\ draft' = draft
  BY DEF Reuse
<1>3. Stamped(cache')
  BY <1>1, <1>2, StampedReuse
<1>4. CASE n = Root
  <2>1. cache' = cache
    BY <1>2, <1>4 DEF RecordReuse
  <2>2. PlansOrdered'
    BY <1>1, <1>2, <2>1 DEF PlansOrdered
  <2>3. QED
    BY <1>3, <2>2 DEF OrderInv
<1>5. CASE n # Root
  <2>1. cache'.version = cache.version + 1
    BY <1>1, <1>2, <1>5 DEF RecordReuse, NextVersion, Cache
  <2>2. /\ \A t \in Transfer : ~IsFresh(cache', offer'[t], "TEMPORARY")
        /\ \A u \in User : ~IsFresh(cache', draft'[u], "PROMPT")
    BY <1>1, <1>2, <2>1, NothingFresh
  <2>3. PlansOrdered'
    BY <2>2 DEF PlansOrdered
  <2>4. QED
    BY <1>3, <2>3 DEF OrderInv
<1>6. QED
  BY <1>4, <1>5

(* The order is kept by every call.                                        *)
LEMMA StepOrderInv == OrderInv /\ [Next]_vars => OrderInv'
<1> SUFFICES ASSUME OrderInv, [Next]_vars PROVE OrderInv'
  OBVIOUS
<1>1. CacheInv'
  BY StepCacheInv DEF OrderInv
<1>2. CASE UNCHANGED vars
  BY <1>1, <1>2 DEF vars, OrderInv, PlansOrdered
<1>3. ASSUME NEW n \in Node, Reuse(n) PROVE OrderInv'
  BY <1>1, <1>3, ReuseKeepsOrder
<1>4. CASE \/ \E t \in Transfer, n \in Block : PreflightTransfer(t, n)
           \/ \E u \in User, n \in Node : PreflightPrompt(u, n)
  BY <1>1, <1>4, PreflightKeepsOrder
<1>5. CASE \/ \E t \in Transfer : DiscardOffer(t)
           \/ \E u \in User : DiscardDraft(u)
  BY <1>1, <1>5, DiscardKeepsOrder
<1>6. CASE \/ \E t \in Transfer : Reserve(t) \/ Complete(t)
           \/ \E u \in User : Publish(u) \/ UnpinPath(u) \/ \E n \in Node : PinPath(u, n)
  BY <1>1, <1>6, MutationKeepsOrder
<1>7. QED
  BY <1>2, <1>3, <1>4, <1>5, <1>6 DEF Next

(* The victims of a fresh plan are older than every leaf it could have     *)
(* taken instead.                                                          *)
LEMMA VictimsAreOldest ==
    ASSUME NEW c \in Cache, Stamped(c), NEW additional \in Nat, NEW protected,
           NEW s \in EvictionOrders(c, additional, protected),
           NEW gone \in Popped(s), NEW left \in c.pages,
           left \notin Popped(s), left \notin protected,
           c.pins[left] = 0, Children(c.pages, left) = {}
    PROVE  c.stamp[gone] < c.stamp[left]
<1>1. PICK i \in DOMAIN s : gone = s[i]
  BY DEF Popped
<1> DEFINE prior == {s[j] : j \in 1 .. (i - 1)}
<1>2. DOMAIN s = 1 .. Needed(c, additional) /\ Needed(c, additional) \in Nat
  BY SizeFacts, CapacityAssumption DEF EvictionOrders, Needed
<1>3. prior \subseteq Popped(s)
  BY <1>2 DEF Popped
<1>4. IsOldest(c, gone, HeapPages(c, prior, protected))
  BY <1>1 DEF EvictionOrders, IsEvictionOrder
<1>5. left \in HeapPages(c, prior, protected)
  BY <1>3 DEF HeapPages, Children
<1>6. /\ gone \in c.pages /\ c.stamp[gone] <= c.stamp[left] /\ gone # left
  BY <1>4, <1>5 DEF IsOldest, HeapPages
<1>7. c.stamp[gone] \in Nat /\ c.stamp[left] \in Nat /\ c.stamp[gone] # c.stamp[left]
  BY <1>6 DEF Stamped, Cache
<1>8. QED
  BY <1>6, <1>7

(* Eviction is least recently used first, whatever happened between the    *)
(* preflight and the commit: a leaf that could have gone but stayed was    *)
(* used after every page that went (_plan and _evict, cache.py).           *)
THEOREM EvictsOldestFirst == Spec => OldestLeafFirst
<1> DEFINE OlderThan(gone, left) ==
               (/\ cache.pins[left] = 0
                /\ Children(cache.pages, left) = {}
                /\ Children(cache'.pages, left) = {})
                   => \/ cache.stamp[gone] < cache.stamp[left]
                      \/ \E u \in User : left \in Chain[draft[u].path]
           Fair == \A gone \in cache.pages \ cache'.pages, left \in cache.pages \cap cache'.pages :
                       OlderThan(gone, left)
<1>1. OrderInv /\ [Next]_vars => [Fair]_vars
  <2> SUFFICES ASSUME OrderInv, Next PROVE Fair
    OBVIOUS
  <2>1. /\ TypeOK /\ cache \in Cache /\ Sound(cache) /\ Stamped(cache) /\ PlansOrdered
        /\ FreshPlansExecutable
    BY DEF OrderInv, CacheInv, TypeOK, CacheSound, Sound
  <2>2. ASSUME cache.pages \subseteq cache'.pages PROVE Fair
    BY <2>2
  <2>3. ASSUME NEW t \in Transfer, Reserve(t) PROVE Fair
    <3> DEFINE plan == offer[t]
    <3>1. /\ IsFresh(cache, plan, "TEMPORARY")
          /\ cache' = ReserveTemporary(cache, t, plan)
      BY <2>3 DEF Reserve
    <3>2. /\ plan.evictions \in EvictionOrders(cache, plan.additional, {})
          /\ Victims(plan) \in SUBSET Block /\ plan.additional \in Nat
      BY <2>1, <3>1 DEF PlansOrdered, FreshPlansExecutable, Executable, TypeOK, Plan, Cache
    <3>3. cache'.pages = cache.pages \ Victims(plan)
      BY <2>1, <3>1, <3>2 DEF ReserveTemporary, NextVersion, Evict, Cache
    <3> HIDE DEF plan
    <3>4. ASSUME NEW gone \in cache.pages \ cache'.pages, NEW left \in cache.pages \cap cache'.pages
          PROVE  OlderThan(gone, left)
      BY <2>1, <3>2, <3>3, VictimsAreOldest DEF Victims
    <3> HIDE DEF OlderThan
    <3>5. QED
      BY <3>4
  <2>4. ASSUME NEW u \in User, Publish(u) PROVE Fair
    <3> DEFINE plan == draft[u]
    <3>1. /\ IsFresh(cache, plan, "PROMPT")
          /\ cache' = PublishPrompt(cache, plan)
      BY <2>4 DEF Publish
    <3>2. /\ plan.evictions \in EvictionOrders(cache, plan.additional, HitPages(cache, plan.path))
          /\ Victims(plan) \in SUBSET Block /\ plan.additional \in Nat /\ plan.path \in Node
      BY <2>1, <3>1 DEF PlansOrdered, FreshPlansExecutable, Executable, TypeOK, Plan, Cache
    <3>3. cache'.pages = (cache.pages \ Victims(plan)) \cup Chain[plan.path]
      <4> DEFINE e == Evict(cache, Victims(plan))
      <4>1. e \in Cache /\ e.pages = cache.pages \ Victims(plan)
        BY <2>1, <3>2, EvictFacts
      <4>2. cache' = NextVersion(Insert(e, plan.path))
        BY <3>1 DEF PublishPrompt
      <4> HIDE DEF e, plan
      <4>3. QED
        BY <3>2, <4>1, <4>2, InsertFacts, VersionFacts
    <3>4. ASSUME NEW left \in cache.pages, left \in Chain[plan.path]
          PROVE  \E x \in User : left \in Chain[draft[x].path]
      BY <3>4
    <3>5. HitPages(cache, plan.path) \subseteq Chain[plan.path]
      BY DEF HitPages, PagesWithin
    <3> HIDE DEF plan
    <3>6. ASSUME NEW gone \in cache.pages \ cache'.pages, NEW left \in cache.pages \cap cache'.pages
          PROVE  OlderThan(gone, left)
      <4>1. CASE left \in Chain[plan.path]
        BY <3>4, <4>1
      <4>2. CASE left \notin Chain[plan.path]
        <5>1. left \notin HitPages(cache, plan.path) /\ left \notin Popped(plan.evictions)
              /\ gone \in Popped(plan.evictions)
          BY <3>3, <3>5, <4>2 DEF Victims
        <5>2. QED
          BY <2>1, <3>2, <5>1, VictimsAreOldest
      <4>3. QED
        BY <4>1, <4>2
    <3> HIDE DEF OlderThan
    <3>7. QED
      BY <3>6
  <2>5. ASSUME NEW t \in Transfer, Complete(t) PROVE Fair
    <3> DEFINE e == [cache EXCEPT !.temporary[t] = 0]
               n == wire[t]
    <3>1. 0 \in Nat
      OBVIOUS
    <3>2. e \in Cache /\ e.pages = cache.pages
      BY <2>1, <3>1, BufferFacts
    <3>3. n \in Node
      BY <2>1 DEF TypeOK
    <3>4. cache' = NextVersion(Insert(e, n))
      BY <2>5 DEF Complete, CompleteTransfer
    <3> HIDE DEF e, n, Fair
    <3>5. cache.pages \subseteq cache'.pages
      BY <3>2, <3>3, <3>4, InsertFacts, VersionFacts
    <3>6. QED
      BY <2>2, <3>5
  <2>6. ASSUME NEW n \in Node, Reuse(n) PROVE Fair
    <3>1. cache'.pages = cache.pages
      BY <2>1, <2>6, ReuseFacts DEF Reuse
    <3> HIDE DEF Fair
    <3>2. QED
      BY <2>2, <3>1
  <2>7. CASE \/ \E u \in User : UnpinPath(u) \/ \E n \in Node : PinPath(u, n)
             \/ \E t \in Transfer : DiscardOffer(t) \/ \E n \in Block : PreflightTransfer(t, n)
             \/ \E u \in User : DiscardDraft(u) \/ \E n \in Node : PreflightPrompt(u, n)
    <3>1. cache'.pages = cache.pages
      BY <2>1, <2>7 DEF UnpinPath, PinPath, Unpin, Pin, NextVersion, Cache, DiscardOffer,
                        DiscardDraft, PreflightTransfer, PreflightPrompt
    <3> HIDE DEF Fair
    <3>2. QED
      BY <2>2, <3>1
  <2> HIDE DEF Fair
  <2>8. QED
    BY <2>3, <2>4, <2>5, <2>6, <2>7 DEF Next
<1>2. Spec => []OrderInv
  BY InitOrderInv, StepOrderInv, PTL DEF Spec
<1>3. [Fair]_vars => [\A gone \in cache.pages \ cache'.pages, left \in cache.pages \cap cache'.pages :
          (/\ cache.pins[left] = 0
           /\ Children(cache.pages, left) = {}
           /\ Children(cache'.pages, left) = {})
              => \/ cache.stamp[gone] < cache.stamp[left]
                 \/ \E u \in User : left \in Chain[draft[u].path]]_vars
  OBVIOUS
<1> HIDE DEF Fair
<1>4. QED
  BY <1>1, <1>2, <1>3, PTL DEF Spec, OldestLeafFirst

-----------------------------------------------------------------------------
(***************************************************************************)
(* The cache of Stage 2.  Each of the pieces a summary is made of is what  *)
(* a walk over the cache would give.  That a call writes the rows of all   *)
(* the pages it touches follows from its definition; that the count of     *)
(* pinned pages outlives an eviction does not: it needs that no victim is  *)
(* pinned when the plan is carried out, which is CacheInv.                 *)
(***************************************************************************)

PinnedPages(c) == {x \in c.pages : c.pins[x] > 0}

RowsExact == rows = [x \in cache.pages |-> PageState(cache, x)]

PinsCounted == pinned = Cardinality(PinnedPages(cache))

EvictionsEncoded == encoded = evicted /\ evicted \in Seq(Block \X Nat)

(* A memo is never of the future, and one of the present tells the truth.  *)
MemoExact ==
    /\ memo.version \in Int /\ memo.version <= cache.version
    /\ memo.version = cache.version => memo.summary = Summary(cache, evicted)

Pieces == RowsExact /\ PinsCounted /\ EvictionsEncoded

IndexedInv == CacheInv /\ Pieces /\ MemoExact

-----------------------------------------------------------------------------
(* The pieces *)

(* Pieces that are exact make an exact summary.                            *)
LEMMA PiecesMakeSummary ==
    Pieces => SummaryOf(cache, rows, pinned, encoded) = Summary(cache, evicted)
BY DEF Pieces, RowsExact, PinsCounted, EvictionsEncoded, PinnedPages, Summary

\* The call leaves the pages outside S alone.
Spares(S) ==
    \A x \in Block \ S :
        /\ x \in cache'.pages <=> x \in cache.pages
        /\ cache'.pins[x] = cache.pins[x]
        /\ cache'.stamp[x] = cache.stamp[x]
        /\ cache'.generation[x] = cache.generation[x]

(* Rows stay exact when the touched pages are written anew. *)
LEMMA RowsKept ==
    ASSUME RowsExact, cache.pages \subseteq Block, cache'.pages \subseteq Block,
           NEW S, RefreshBytes(S), Spares(S)
    PROVE  RowsExact'
<1>1. DOMAIN rows = cache.pages /\ \A x \in cache.pages : rows[x] = PageState(cache, x)
  BY DEF RowsExact
<1>2. (DOMAIN rows \ S) \cup (S \cap cache'.pages) = cache'.pages
  BY <1>1 DEF Spares
<1>3. \A x \in cache'.pages :
         (IF x \in S THEN PageState(cache', x) ELSE rows[x]) = PageState(cache', x)
  BY <1>1 DEF Spares, PageState
<1>4. rows' = [x \in cache'.pages |->
                  IF x \in S THEN PageState(cache', x) ELSE rows[x]]
  BY <1>2 DEF RefreshBytes
<1>5. rows' = [x \in cache'.pages |-> PageState(cache', x)]
  BY <1>3, <1>4
<1>6. QED
  BY <1>5 DEF RowsExact

(* A page nobody holds has no pins, so pinned pages are published.         *)
LEMMA HeldArePublished ==
    ASSUME NEW pages, NEW pins, NEW h,
           \A u \in User : Chain[h[u]] \subseteq pages,
           \A x \in Block : pins[x] = Cardinality({u \in User : x \in Chain[h[u]]}),
           NEW x \in Block, pins[x] > 0
    PROVE  x \in pages
<1>1. Cardinality({u \in User : x \in Chain[h[u]]}) # 0
  OBVIOUS
<1>2. PICK u \in User : x \in Chain[h[u]]
  BY <1>1, FS_EmptySet
<1>3. QED
  BY <1>2

(* The pinned pages are those with a pin, published or not.                *)
LEMMA PinnedArePublished ==
    ASSUME CacheInv
    PROVE  /\ PinnedPages(cache) = {x \in Block : cache.pins[x] > 0}
           /\ cache.pages \subseteq Block /\ cache.pins \in [Block -> Nat]
           /\ cache.version \in Nat /\ cache \in Cache
<1>1. cache \in Cache /\ cache.pages \subseteq Block
  BY DEF CacheInv, TypeOK, Cache
<1>2. \A x \in Block : cache.pins[x] > 0 => x \in cache.pages
  BY HeldArePublished DEF CacheInv, PinsAreHolds, Published
<1>3. QED
  BY <1>1, <1>2 DEF PinnedPages, Cache

(* The same of the next state.                                             *)
LEMMA PinnedArePublishedNext ==
    ASSUME CacheInv'
    PROVE  /\ PinnedPages(cache') = {x \in Block : cache'.pins[x] > 0}
           /\ cache'.pages \subseteq Block /\ cache'.version \in Nat
<1>1. cache' \in Cache /\ cache'.pages \subseteq Block
  BY DEF CacheInv, TypeOK, Cache
<1>2. \A x \in Block : cache'.pins[x] > 0 => x \in cache'.pages
  BY HeldArePublished DEF CacheInv, PinsAreHolds, Published
<1>3. QED
  BY <1>1, <1>2 DEF PinnedPages, Cache

(* The calls that pin nothing leave the count right. *)
LEMMA CountKept ==
    ASSUME CacheInv, CacheInv', PinsCounted, cache'.pins = cache.pins, pinned' = pinned
    PROVE  PinsCounted'
<1>1. PinnedPages(cache') = PinnedPages(cache)
  BY PinnedArePublished, PinnedArePublishedNext
<1>2. QED
  BY <1>1 DEF PinsCounted

(* Whole chunks end within a sequence, whatever their size. *)
LEMMA FullChunks ==
    ASSUME NEW n \in Nat, NEW k \in Nat \ {0}
    PROVE  (n \div k) * k \in Nat /\ (n \div k) * k <= n
OBVIOUS

(* A sequence that was extended is its old beginning and the rest of it.   *)
LEMMA CutAnywhere ==
    ASSUME NEW S, NEW old \in Seq(S), NEW more \in Seq(S),
           NEW full \in Nat, full <= Len(old)
    PROVE  SubSeq(old, 1, full) \o SubSeq(old \o more, full + 1, Len(old \o more)) = old \o more
<1> DEFINE new   == old \o more
           left  == SubSeq(old, 1, full)
           right == SubSeq(new, full + 1, Len(new))
<1>1. /\ new \in Seq(S) /\ Len(new) \in Nat /\ full <= Len(new)
      /\ \A i \in 1 .. Len(old) : new[i] = old[i]
  BY ConcatProperties
<1> HIDE DEF new
<1>2. /\ left \in Seq(S) /\ Len(left) = full
      /\ \A i \in 1 .. full : left[i] = old[i]
  OBVIOUS
<1>3. /\ right \in Seq(S) /\ Len(right) = Len(new) - full
      /\ \A i \in 1 .. (Len(new) - full) : right[i] = new[full + i]
  BY <1>1
<1> HIDE DEF left, right
<1>4. /\ left \o right \in Seq(S) /\ Len(left \o right) = Len(new)
      /\ \A i \in 1 .. Len(new) : (left \o right)[i] = IF i <= full THEN left[i] ELSE right[i - full]
  BY <1>1, <1>2, <1>3, ConcatProperties
<1>5. ASSUME NEW i \in 1 .. Len(new) PROVE (left \o right)[i] = new[i]
  <2>1. CASE i <= full
    <3>1. i \in 1 .. full /\ i \in 1 .. Len(old)
      BY <1>1, <2>1
    <3>2. (left \o right)[i] = left[i]
      BY <1>4, <2>1
    <3>3. QED
      BY <1>1, <1>2, <3>1, <3>2
  <2>2. CASE ~ (i <= full)
    <3>1. i - full \in 1 .. (Len(new) - full) /\ full + (i - full) = i
      BY <1>1, <2>2
    <3>2. (left \o right)[i] = right[i - full]
      BY <1>4, <2>2
    <3>3. right[i - full] = new[full + (i - full)]
      BY <1>3, <3>1
    <3>4. QED
      BY <3>1, <3>2, <3>3
  <2>3. QED
    BY <2>1, <2>2
<1>6. left \o right = new
  BY <1>1, <1>4, <1>5, SeqEqual
<1>7. QED
  BY <1>6 DEF left, right, new

(* Evictions are encoded from the start of the last chunk that was not     *)
(* full.                                                                   *)
LEMMA EncodedKept ==
    ASSUME EvictionsEncoded, NEW s \in Seq(Block), RecordEvictions(s),
           cache.generation \in [Block -> Nat]
    PROVE  EvictionsEncoded'
<1> DEFINE more == [i \in DOMAIN s |-> <<s[i], cache.generation[s[i]]>>]
           full == (Len(evicted) \div ChunkSize) * ChunkSize
<1>1. more \in Seq(Block \X Nat) /\ evicted \in Seq(Block \X Nat) /\ encoded = evicted
  BY DEF EvictionsEncoded
<1>2. evicted' = evicted \o more
  BY DEF RecordEvictions
<1>3. full \in Nat /\ full <= Len(evicted)
  <2>1. Len(evicted) \in Nat /\ ChunkSize \in Nat \ {0}
    BY <1>1, ChunkAssumption, LenProperties
  <2>2. QED
    BY <2>1, FullChunks
<1>4. encoded' = SubSeq(evicted, 1, full) \o SubSeq(evicted', full + 1, Len(evicted'))
  BY <1>1 DEF RecordEvictions
<1> HIDE DEF more, full
<1>5. encoded' = evicted'
  BY <1>1, <1>2, <1>3, <1>4, CutAnywhere
<1>6. evicted' \in Seq(Block \X Nat)
  BY <1>1, <1>2
<1>7. QED
  BY <1>5, <1>6 DEF EvictionsEncoded

(* A call that moves the version keeps the memo right, whether it makes    *)
(* one or leaves an old one.                                               *)
LEMMA MemoKept ==
    ASSUME MemoExact, Pieces', cache.version \in Nat, cache'.version = cache.version + 1,
           memo' = memo \/ Memoize
    PROVE  MemoExact'
<1>1. SummaryOf(cache', rows', pinned', encoded') = Summary(cache', evicted')
  BY DEF Pieces, RowsExact, PinsCounted, EvictionsEncoded, PinnedPages, Summary
<1>2. CASE memo' = memo
  BY <1>2 DEF MemoExact
<1>3. CASE Memoize
  BY <1>1, <1>3 DEF MemoExact, Memoize
<1>4. QED
  BY <1>2, <1>3

-----------------------------------------------------------------------------
(* The calls *)

(* Initially there is nothing in any piece.                                *)
LEMMA IndexedInitInv == IndexedInit => IndexedInv
<1> SUFFICES ASSUME IndexedInit PROVE IndexedInv
  OBVIOUS
<1>1. CacheInv /\ cache = EmptyCache
  BY InitCacheInv DEF IndexedInit, Init
<1>2. PinnedPages(cache) = {} /\ cache.pages = {} /\ cache.version = 0
  BY <1>1 DEF EmptyCache, PinnedPages
<1>3. RowsExact
  BY <1>2 DEF IndexedInit, RowsExact
<1>4. PinsCounted
  BY <1>2, FS_EmptySet DEF IndexedInit, PinsCounted
<1>5. EvictionsEncoded
  BY DEF IndexedInit, EvictionsEncoded
<1>6. MemoExact
  BY <1>2 DEF IndexedInit, MemoExact
<1>7. QED
  BY <1>1, <1>3, <1>4, <1>5, <1>6 DEF IndexedInv, Pieces

\* What publishing a path may touch.
(* _insert writes the missing pages of its path only.                      *)
LEMMA InsertSpares ==
    ASSUME NEW x \in Cache, NEW n \in Node, NEW y \in Block \ Chain[n]
    PROVE  /\ y \in Insert(x, n).pages <=> y \in x.pages
           /\ Insert(x, n).pins = x.pins
           /\ Insert(x, n).stamp[y] = x.stamp[y]
           /\ Insert(x, n).generation[y] = x.generation[y]
BY DEF Insert, Cache

(* _evict writes its victims only.                                         *)
LEMMA EvictSpares ==
    ASSUME NEW x \in Cache, NEW gone, NEW y \in Block \ gone
    PROVE  /\ y \in Evict(x, gone).pages <=> y \in x.pages
           /\ Evict(x, gone).pins[y] = x.pins[y]
           /\ Evict(x, gone).stamp[y] = x.stamp[y]
           /\ Evict(x, gone).generation[y] = x.generation[y]
BY DEF Evict, Cache

(* reserve_temporary refreshes the victims and encodes them.               *)
LEMMA IndexedReserveKeeps ==
    ASSUME IndexedInv, CacheInv', NEW t \in Transfer, IndexedReserve(t)
    PROVE  IndexedInv'
<1> DEFINE V == Victims(offer[t])
           e == Evict(cache, V)
<1>1. /\ IsFresh(cache, offer[t], "TEMPORARY")
      /\ cache' = NextVersion([e EXCEPT !.temporary[t] = offer[t].additional])
  BY DEF IndexedReserve, Reserve, ReserveTemporary
<1>2. Executable(cache, offer[t]) /\ offer[t].evictions \in Seq(Block)
  BY <1>1 DEF IndexedInv, CacheInv, TypeOK, Plan, FreshPlansExecutable
<1>3. /\ cache \in Cache /\ cache.generation \in [Block -> Nat] /\ cache.version \in Nat
      /\ V \in SUBSET Block /\ \A y \in V : cache.pins[y] = 0
  BY <1>2 DEF Executable, IndexedInv, CacheInv, TypeOK, Cache
<1>4. e \in Cache /\ e.version = cache.version /\ e.pins = cache.pins
  BY <1>3, EvictFacts, EvictionSparesHolds DEF IndexedInv
<1> HIDE DEF V, e
<1>5. /\ cache'.pages = e.pages /\ cache'.pins = e.pins /\ cache'.stamp = e.stamp
      /\ cache'.generation = e.generation /\ cache'.version = e.version + 1
  BY <1>1, <1>4 DEF NextVersion, Cache
<1>6. Spares(V)
  <2>1. \A y \in Block \ V : /\ y \in e.pages <=> y \in cache.pages
                            /\ e.stamp[y] = cache.stamp[y]
                            /\ e.generation[y] = cache.generation[y]
    BY <1>3, EvictSpares DEF e
  <2>2. QED
    BY <1>4, <1>5, <2>1 DEF Spares
<1>7. RowsExact'
  BY <1>6, RowsKept, PinnedArePublished, PinnedArePublishedNext
     DEF IndexedInv, Pieces, IndexedReserve, V
<1>8. PinsCounted'
  BY <1>4, <1>5, CountKept DEF IndexedInv, Pieces, IndexedReserve
<1>9. EvictionsEncoded'
  BY <1>2, <1>3, EncodedKept DEF IndexedInv, Pieces, IndexedReserve
<1>10. MemoExact'
  BY <1>3, <1>4, <1>5, <1>7, <1>8, <1>9, MemoKept DEF IndexedInv, Pieces, IndexedReserve
<1>11. QED
  BY <1>7, <1>8, <1>9, <1>10 DEF IndexedInv, Pieces

(* publish_prompt refreshes the victims and the path.                      *)
LEMMA IndexedPublishKeeps ==
    ASSUME IndexedInv, CacheInv', NEW u \in User, IndexedPublish(u)
    PROVE  IndexedInv'
<1> DEFINE V == Victims(draft[u])
           n == draft[u].path
           e == Evict(cache, V)
           f == Insert(e, n)
<1>1. IsFresh(cache, draft[u], "PROMPT") /\ cache' = NextVersion(f)
  BY DEF IndexedPublish, Publish, PublishPrompt
<1>2. Executable(cache, draft[u]) /\ draft[u].evictions \in Seq(Block) /\ n \in Node
  BY <1>1 DEF IndexedInv, CacheInv, TypeOK, Plan, FreshPlansExecutable
<1>3. /\ cache \in Cache /\ cache.generation \in [Block -> Nat] /\ cache.version \in Nat
      /\ V \in SUBSET Block /\ \A y \in V : cache.pins[y] = 0
  BY <1>2 DEF Executable, IndexedInv, CacheInv, TypeOK, Cache
<1>4. e \in Cache /\ e.version = cache.version /\ e.pins = cache.pins
  BY <1>3, EvictFacts, EvictionSparesHolds DEF IndexedInv
<1>5. f \in Cache /\ f.version = cache.version /\ f.pins = cache.pins
  BY <1>2, <1>4, InsertFacts
<1>6. \A y \in Block \ (V \cup Chain[n]) :
         /\ y \in f.pages <=> y \in cache.pages
         /\ f.stamp[y] = cache.stamp[y] /\ f.generation[y] = cache.generation[y]
  <2> TAKE y \in Block \ (V \cup Chain[n])
  <2>1. /\ y \in e.pages <=> y \in cache.pages
        /\ e.stamp[y] = cache.stamp[y] /\ e.generation[y] = cache.generation[y]
    BY <1>3, EvictSpares
  <2>2. /\ y \in f.pages <=> y \in e.pages
        /\ f.stamp[y] = e.stamp[y] /\ f.generation[y] = e.generation[y]
    BY <1>2, <1>4, InsertSpares
  <2>3. QED
    BY <2>1, <2>2
<1> HIDE DEF V, n, e, f
<1>7. /\ cache'.pages = f.pages /\ cache'.pins = f.pins /\ cache'.stamp = f.stamp
      /\ cache'.generation = f.generation /\ cache'.version = f.version + 1
  BY <1>1, <1>5 DEF NextVersion, Cache
<1>8. Spares(V \cup Chain[n])
  BY <1>5, <1>6, <1>7 DEF Spares
<1>9. RowsExact'
  BY <1>8, RowsKept, PinnedArePublished, PinnedArePublishedNext
     DEF IndexedInv, Pieces, IndexedPublish, V, n
<1>10. PinsCounted'
  BY <1>5, <1>7, CountKept DEF IndexedInv, Pieces, IndexedPublish
<1>11. EvictionsEncoded'
  BY <1>2, <1>3, EncodedKept DEF IndexedInv, Pieces, IndexedPublish
<1>12. MemoExact'
  BY <1>3, <1>5, <1>7, <1>9, <1>10, <1>11, MemoKept DEF IndexedInv, Pieces, IndexedPublish
<1>13. QED
  BY <1>9, <1>10, <1>11, <1>12 DEF IndexedInv, Pieces

(* complete_transfer refreshes the path.                                   *)
LEMMA IndexedCompleteKeeps ==
    ASSUME IndexedInv, CacheInv', NEW t \in Transfer, IndexedComplete(t)
    PROVE  IndexedInv'
<1> DEFINE n == wire[t]
           e == [cache EXCEPT !.temporary[t] = 0]
           f == Insert(e, n)
<1>1. cache' = NextVersion(f)
  BY DEF IndexedComplete, Complete, CompleteTransfer
<1>2. cache \in Cache /\ n \in Node /\ cache.version \in Nat
  BY DEF IndexedInv, CacheInv, TypeOK, Cache
<1>3. /\ e \in Cache /\ e.version = cache.version /\ e.pins = cache.pins /\ e.pages = cache.pages
      /\ e.stamp = cache.stamp /\ e.generation = cache.generation
  BY <1>2, BufferFacts DEF Cache
<1> HIDE DEF e
<1>4. f \in Cache /\ f.version = cache.version /\ f.pins = cache.pins
  BY <1>2, <1>3, InsertFacts
<1>5. \A y \in Block \ Chain[n] :
         /\ y \in f.pages <=> y \in cache.pages
         /\ f.stamp[y] = cache.stamp[y] /\ f.generation[y] = cache.generation[y]
  BY <1>2, <1>3, InsertSpares
<1> HIDE DEF n, f
<1>6. /\ cache'.pages = f.pages /\ cache'.pins = f.pins /\ cache'.stamp = f.stamp
      /\ cache'.generation = f.generation /\ cache'.version = f.version + 1
  BY <1>1, <1>4 DEF NextVersion, Cache
<1>7. Spares(Chain[n])
  BY <1>4, <1>5, <1>6 DEF Spares
<1>8. RowsExact'
  BY <1>7, RowsKept, PinnedArePublished, PinnedArePublishedNext
     DEF IndexedInv, Pieces, IndexedComplete, n
<1>9. PinsCounted'
  BY <1>4, <1>6, CountKept DEF IndexedInv, Pieces, IndexedComplete
<1>10. EvictionsEncoded'
  BY DEF IndexedInv, Pieces, EvictionsEncoded, IndexedComplete
<1>11. MemoExact'
  BY <1>2, <1>4, <1>6, <1>8, <1>9, <1>10, MemoKept DEF IndexedInv, Pieces, IndexedComplete
<1>12. QED
  BY <1>8, <1>9, <1>10, <1>11 DEF IndexedInv, Pieces

(* The size of a set as that of two parts of it.                           *)
LEMMA CardinalityOfParts ==
    ASSUME NEW S, NEW T, IsFiniteSet(S), IsFiniteSet(T), S \cap T = {}
    PROVE  /\ Cardinality(S \cup T) = Cardinality(S) + Cardinality(T)
           /\ Cardinality(S) \in Nat /\ Cardinality(T) \in Nat
<1>1. Cardinality(S) \in Nat /\ Cardinality(T) \in Nat
  BY FS_CardinalityType
<1>2. Cardinality(S \cup T) = Cardinality(S) + Cardinality(T) - Cardinality(S \cap T)
  BY FS_Union
<1>3. Cardinality(S \cap T) = 0
  BY FS_EmptySet
<1>4. QED
  BY <1>1, <1>2, <1>3

(* A page enters the pinned ones with its first pin.                       *)
LEMMA IndexedPinKeeps ==
    ASSUME IndexedInv, CacheInv', NEW u \in User, NEW n \in Node, IndexedPin(u, n)
    PROVE  IndexedInv'
<1>1. cache' = Pin(cache, n)
  BY DEF IndexedPin, PinPath
<1>2. /\ cache \in Cache /\ cache.version \in Nat /\ cache.pins \in [Block -> Nat]
      /\ Chain[n] \subseteq Block
  BY ChainAssumption DEF IndexedInv, CacheInv, TypeOK, Cache
<1>3. /\ cache'.pages = cache.pages /\ cache'.stamp = cache.stamp
      /\ cache'.generation = cache.generation /\ cache'.version = cache.version + 1
      /\ cache'.pins = [y \in Block |-> IF y \in Chain[n] THEN cache.pins[y] + 1 ELSE cache.pins[y]]
  BY <1>1, <1>2 DEF Pin, NextVersion, Cache
<1>4. Spares(Chain[n])
  BY <1>2, <1>3 DEF Spares
<1>5. RowsExact'
  BY <1>4, RowsKept, PinnedArePublished, PinnedArePublishedNext DEF IndexedInv, Pieces, IndexedPin
<1>6. PinsCounted'
  <2>1. /\ PinnedPages(cache') = PinnedPages(cache) \cup NewlyPinned(n)
        /\ PinnedPages(cache) \cap NewlyPinned(n) = {}
        /\ PinnedPages(cache) \subseteq Block /\ NewlyPinned(n) \subseteq Block
    <3>1. /\ PinnedPages(cache) = {y \in Block : cache.pins[y] > 0}
          /\ PinnedPages(cache') = {y \in Block : cache'.pins[y] > 0}
      BY PinnedArePublished, PinnedArePublishedNext DEF IndexedInv
    <3>2. \A y \in Block : cache'.pins[y] > 0 <=> cache.pins[y] > 0 \/ y \in NewlyPinned(n)
      BY <1>2, <1>3 DEF NewlyPinned
    <3>3. QED
      BY <1>2, <3>1, <3>2 DEF NewlyPinned
  <2>2. IsFiniteSet(PinnedPages(cache)) /\ IsFiniteSet(NewlyPinned(n))
    BY <2>1, BlockAssumption, FS_Subset
  <2>3. Cardinality(PinnedPages(cache')) = Cardinality(PinnedPages(cache)) + Cardinality(NewlyPinned(n))
    BY <2>1, <2>2, CardinalityOfParts
  <2>4. QED
    BY <2>3 DEF PinsCounted, IndexedInv, Pieces, IndexedPin
<1>7. EvictionsEncoded'
  BY DEF IndexedInv, Pieces, EvictionsEncoded, IndexedPin
<1>8. MemoExact'
  BY <1>2, <1>3, <1>5, <1>6, <1>7, MemoKept DEF IndexedInv, Pieces, IndexedPin
<1>9. QED
  BY <1>5, <1>6, <1>7, <1>8 DEF IndexedInv, Pieces

(* And leaves them with its last.                                          *)
LEMMA IndexedUnpinKeeps ==
    ASSUME IndexedInv, CacheInv', NEW u \in User, IndexedUnpin(u)
    PROVE  IndexedInv'
<1> DEFINE n == held[u]
<1>1. cache' = Unpin(cache, n) /\ \A y \in Chain[n] : cache.pins[y] > 0
  BY DEF IndexedUnpin, UnpinPath
<1>2. /\ cache \in Cache /\ cache.version \in Nat /\ cache.pins \in [Block -> Nat]
      /\ Chain[n] \subseteq Block
  BY ChainAssumption DEF IndexedInv, CacheInv, TypeOK, Cache
<1>3. /\ cache'.pages = cache.pages /\ cache'.stamp = cache.stamp
      /\ cache'.generation = cache.generation /\ cache'.version = cache.version + 1
      /\ cache'.pins = [y \in Block |-> IF y \in Chain[n] THEN cache.pins[y] - 1 ELSE cache.pins[y]]
  BY <1>1, <1>2 DEF Unpin, NextVersion, Cache
<1>4. Spares(Chain[n])
  BY <1>2, <1>3 DEF Spares
<1>5. RowsExact'
  BY <1>4, RowsKept, PinnedArePublished, PinnedArePublishedNext DEF IndexedInv, Pieces, IndexedUnpin
<1>6. PinsCounted'
  <2>1. /\ PinnedPages(cache) = PinnedPages(cache') \cup NewlyFree(n)
        /\ PinnedPages(cache') \cap NewlyFree(n) = {}
        /\ PinnedPages(cache') \subseteq Block /\ NewlyFree(n) \subseteq Block
    <3>1. /\ PinnedPages(cache) = {y \in Block : cache.pins[y] > 0}
          /\ PinnedPages(cache') = {y \in Block : cache'.pins[y] > 0}
      BY PinnedArePublished, PinnedArePublishedNext DEF IndexedInv
    <3>2. \A y \in Block : cache'.pins[y] > 0 <=> cache.pins[y] > 0 /\ y \notin NewlyFree(n)
      BY <1>1, <1>2, <1>3 DEF NewlyFree
    <3>3. \A y \in NewlyFree(n) : y \in Block /\ cache.pins[y] > 0
      BY <1>2 DEF NewlyFree
    <3>4. QED
      BY <1>2, <3>1, <3>2, <3>3
  <2>2. IsFiniteSet(PinnedPages(cache')) /\ IsFiniteSet(NewlyFree(n))
    BY <2>1, BlockAssumption, FS_Subset
  <2>3. /\ Cardinality(PinnedPages(cache)) = Cardinality(PinnedPages(cache')) + Cardinality(NewlyFree(n))
        /\ Cardinality(PinnedPages(cache')) \in Nat /\ Cardinality(NewlyFree(n)) \in Nat
    BY <2>1, <2>2, CardinalityOfParts
  <2>4. QED
    BY <2>3 DEF PinsCounted, IndexedInv, Pieces, IndexedUnpin
<1>7. EvictionsEncoded'
  BY DEF IndexedInv, Pieces, EvictionsEncoded, IndexedUnpin
<1>8. MemoExact'
  BY <1>2, <1>3, <1>5, <1>6, <1>7, MemoKept DEF IndexedInv, Pieces, IndexedUnpin
<1>9. QED
  BY <1>5, <1>6, <1>7, <1>8 DEF IndexedInv, Pieces

(* A hit of no page leaves everything as it was, the version too.          *)
LEMMA IndexedReuseKeeps ==
    ASSUME IndexedInv, CacheInv', NEW n \in Node, IndexedReuse(n)
    PROVE  IndexedInv'
<1>1. cache' = RecordReuse(cache, n)
  BY DEF IndexedReuse, Reuse
<1>2. /\ cache \in Cache /\ cache.version \in Nat /\ Chain[n] \subseteq Block
  BY ChainAssumption DEF IndexedInv, CacheInv, TypeOK, Cache
<1>3. /\ cache'.pages = cache.pages /\ cache'.pins = cache.pins /\ cache'.generation = cache.generation
      /\ \A y \in Block \ Chain[n] : cache'.stamp[y] = cache.stamp[y]
      /\ cache' = cache \/ cache'.version = cache.version + 1
  BY <1>1, <1>2 DEF RecordReuse, NextVersion, Cache
<1>4. Spares(Chain[n])
  BY <1>2, <1>3 DEF Spares
<1>5. RowsExact'
  BY <1>4, RowsKept, PinnedArePublished, PinnedArePublishedNext DEF IndexedInv, Pieces, IndexedReuse
<1>6. PinsCounted'
  BY <1>3, CountKept DEF IndexedInv, Pieces, IndexedReuse
<1>7. EvictionsEncoded'
  BY DEF IndexedInv, Pieces, EvictionsEncoded, IndexedReuse
<1>8. MemoExact'
  <2>1. CASE cache' = cache
    BY <2>1 DEF IndexedInv, MemoExact, IndexedReuse
  <2>2. CASE cache'.version = cache.version + 1
    BY <1>2, <1>5, <1>6, <1>7, <2>2, MemoKept DEF IndexedInv, Pieces, IndexedReuse
  <2>3. QED
    BY <1>3, <2>1, <2>2
<1>9. QED
  BY <1>5, <1>6, <1>7, <1>8 DEF IndexedInv, Pieces

(* A call that leaves cache and pieces alone.                              *)
LEMMA UntouchedKeeps ==
    ASSUME IndexedInv, CacheInv', cache' = cache, UNCHANGED kept
    PROVE  IndexedInv'
BY DEF IndexedInv, Pieces, RowsExact, PinsCounted, EvictionsEncoded, MemoExact, kept

(* Preflights are such calls.                                              *)
LEMMA PreflightUntouched == Preflight => UNCHANGED <<cache, kept>> /\ [Next]_vars
BY DEF Preflight, Next, DiscardOffer, DiscardDraft, PreflightTransfer, PreflightPrompt

(* A step of the indexed cache is one of the cache.                        *)
LEMMA IndexedIsCache == [IndexedNext]_indexedvars => [Next]_vars
<1>1. IndexedNext => Next \/ Preflight
  BY DEF IndexedNext, Next, IndexedReserve, IndexedComplete, IndexedPublish, IndexedUnpin,
         IndexedPin, IndexedReuse
<1>2. QED
  BY <1>1, PreflightUntouched DEF indexedvars

(* Every call keeps the pieces exact.                                      *)
LEMMA IndexedStep == IndexedInv /\ [IndexedNext]_indexedvars => IndexedInv'
<1> SUFFICES ASSUME IndexedInv, [IndexedNext]_indexedvars PROVE IndexedInv'
  OBVIOUS
<1>1. CacheInv'
  BY IndexedIsCache, StepCacheInv DEF IndexedInv
<1>2. CASE Preflight
  BY <1>1, <1>2, PreflightUntouched, UntouchedKeeps
<1>3. ASSUME NEW t \in Transfer, IndexedReserve(t) PROVE IndexedInv'
  BY <1>1, <1>3, IndexedReserveKeeps
<1>4. ASSUME NEW t \in Transfer, IndexedComplete(t) PROVE IndexedInv'
  BY <1>1, <1>4, IndexedCompleteKeeps
<1>5. ASSUME NEW u \in User, IndexedPublish(u) PROVE IndexedInv'
  BY <1>1, <1>5, IndexedPublishKeeps
<1>6. ASSUME NEW u \in User, IndexedUnpin(u) PROVE IndexedInv'
  BY <1>1, <1>6, IndexedUnpinKeeps
<1>7. ASSUME NEW u \in User, NEW n \in Node, IndexedPin(u, n) PROVE IndexedInv'
  BY <1>1, <1>7, IndexedPinKeeps
<1>8. ASSUME NEW n \in Node, IndexedReuse(n) PROVE IndexedInv'
  BY <1>1, <1>8, IndexedReuseKeeps
<1>9. CASE UNCHANGED indexedvars
  BY <1>1, <1>9, UntouchedKeeps DEF indexedvars, vars
<1>10. QED
  BY <1>2, <1>3, <1>4, <1>5, <1>6, <1>7, <1>8, <1>9 DEF IndexedNext

-----------------------------------------------------------------------------
(* Whatever calls came before, a summary put together from the kept pieces *)
(* or taken from the memo is that of the cache (full_check of              *)
(* stage2/cache.py never fails).                                           *)
THEOREM SummariesExact == IndexedSpec => []SummaryExact
<1>1. IndexedInv => SummaryExact
  BY PiecesMakeSummary DEF IndexedInv, MemoExact, Reported, SummaryExact
<1>2. QED
  BY <1>1, IndexedInitInv, IndexedStep, PTL DEF IndexedSpec

-----------------------------------------------------------------------------
(***************************************************************************)
(* The cache of Stage D2.  It keeps the invariants of the pod cache, plans *)
(* from its cached order what the frozen planner would, and releases after *)
(* a move exactly what nobody else needs.                                  *)
(***************************************************************************)
(* The cached eviction order *)

(* Stamps are distinct, so two orders of one cache agree as far as both    *)
(* go: at the first difference both would pop the oldest page of one heap. *)
LEMMA OrdersAgree ==
    ASSUME NEW c \in Cache, Stamped(c), NEW protected, NEW j \in Nat, NEW k \in Nat,
           NEW s \in [1 .. j -> c.pages], IsEvictionOrder(c, s, protected),
           NEW r \in [1 .. k -> c.pages], IsEvictionOrder(c, r, protected)
    PROVE  \A i \in (1 .. j) \cap (1 .. k) : s[i] = r[i]
<1> DEFINE Bad == {i \in (1 .. j) \cap (1 .. k) : s[i] # r[i]}
<1>1. SUFFICES ASSUME Bad # {} PROVE FALSE
  OBVIOUS
<1>2. PICK i \in Bad : \A m \in Bad : i <= m
  <2>1. Bad \in SUBSET Nat
    OBVIOUS
  <2> HIDE DEF Bad
  <2>2. QED
    BY <1>1, <2>1, LeastNat
<1>3. /\ i \in 1 .. j /\ i \in 1 .. k /\ s[i] # r[i]
      /\ \A m \in 1 .. (i - 1) : s[m] = r[m]
  BY <1>2
<1> DEFINE gone == {s[m] : m \in 1 .. (i - 1)}
           H    == HeapPages(c, gone, protected)
<1>4. gone = {r[m] : m \in 1 .. (i - 1)}
  BY <1>3
<1>5. IsOldest(c, s[i], H) /\ IsOldest(c, r[i], H)
  <2> HIDE DEF gone
  <2>1. IsOldest(c, r[i], H)
    BY <1>3, <1>4 DEF IsEvictionOrder
  <2>2. IsOldest(c, s[i], H)
    BY <1>3 DEF IsEvictionOrder, gone
  <2>3. QED
    BY <2>1, <2>2
<1>6. H \subseteq c.pages
  BY DEF HeapPages
<1> HIDE DEF H
<1>7. /\ s[i] \in c.pages /\ r[i] \in c.pages
      /\ c.stamp[s[i]] <= c.stamp[r[i]] /\ c.stamp[r[i]] <= c.stamp[s[i]]
  BY <1>5, <1>6 DEF IsOldest
<1>8. c.stamp[s[i]] \in Nat /\ c.stamp[r[i]] \in Nat
  BY <1>7 DEF Cache
<1>9. QED
  BY <1>3, <1>7, <1>8 DEF Stamped

(* The beginning of a sequence.                                            *)
LEMMA Beginning ==
    ASSUME NEW S, NEW s \in Seq(S), NEW j \in Nat, j <= Len(s)
    PROVE  /\ SubSeq(s, 1, j) \in Seq(S) /\ Len(SubSeq(s, 1, j)) = j
           /\ \A i \in 1 .. j : SubSeq(s, 1, j)[i] = s[i]
OBVIOUS

(* The beginning of an order is an order.                                  *)
LEMMA OrderPrefix ==
    ASSUME NEW c, NEW protected, NEW k \in Nat, NEW j \in 0 .. k,
           NEW s \in [1 .. k -> c.pages], IsEvictionOrder(c, s, protected)
    PROVE  /\ SubSeq(s, 1, j) \in [1 .. j -> c.pages]
           /\ IsEvictionOrder(c, SubSeq(s, 1, j), protected)
<1> DEFINE r == SubSeq(s, 1, j)
<1>1. s \in Seq(c.pages) /\ Len(s) = k /\ DOMAIN s = 1 .. k
  OBVIOUS
<1>2. r \in [1 .. j -> c.pages] /\ DOMAIN r = 1 .. j /\ \A i \in 1 .. j : r[i] = s[i]
  <2>1. j \in Nat /\ j <= Len(s)
    BY <1>1
  <2>2. r \in Seq(c.pages) /\ Len(r) = j /\ \A i \in 1 .. j : r[i] = s[i]
    BY <1>1, <2>1, Beginning
  <2> HIDE DEF r
  <2>3. QED
    BY <2>1, <2>2
<1> HIDE DEF r
<1>3. ASSUME NEW i \in 1 .. j
      PROVE  IsOldest(c, r[i], HeapPages(c, {r[m] : m \in 1 .. (i - 1)}, protected))
  <2>1. {r[m] : m \in 1 .. (i - 1)} = {s[m] : m \in 1 .. (i - 1)}
    BY <1>2
  <2>2. IsOldest(c, s[i], HeapPages(c, {s[m] : m \in 1 .. (i - 1)}, protected))
    BY <1>1 DEF IsEvictionOrder
  <2>3. QED
    BY <1>2, <2>1, <2>2
<1>4. QED
  BY <1>2, <1>3 DEF IsEvictionOrder, r

(* An order pops no page twice.                                            *)
LEMMA PopsDistinct ==
    ASSUME NEW c, NEW protected, NEW k \in Nat,
           NEW s \in [1 .. k -> c.pages], IsEvictionOrder(c, s, protected)
    PROVE  IsFiniteSet(Popped(s)) /\ Cardinality(Popped(s)) = k
<1>1. IsFiniteSet(1 .. k) /\ Cardinality(1 .. k) = k
  BY FS_Interval
<1>2. s \in Surjection(1 .. k, Popped(s))
  BY DEF Surjection, Popped
<1>3. \A i \in 1 .. k : s[i] \notin {s[m] : m \in 1 .. (i - 1)}
  BY DEF IsEvictionOrder, IsOldest, HeapPages
<1>4. \A i, m \in 1 .. k : i < m => s[i] # s[m]
  BY <1>3
<1>5. s \in Injection(1 .. k, Popped(s))
  <2>1. \A i, m \in 1 .. k : s[i] = s[m] => i = m
    BY <1>4
  <2>2. QED
    BY <1>2, <2>1 DEF Injection, Surjection, IsInjective
<1>6. QED
  BY <1>1, <1>2, <1>5, FS_Surjection

(* Popped until the heap is empty.                                         *)
Exhausts(c, s) ==
    /\ Len(s) \in Nat /\ s \in [1 .. Len(s) -> c.pages]
    /\ IsEvictionOrder(c, s, {})
    /\ HeapPages(c, Popped(s), {}) = {}

(* Such an order exists: what can be reclaimed is popped to the last page, *)
(* and then nothing is left that could go.                                 *)
LEMMA ExhaustingOrder ==
    ASSUME NEW c, Sound(c)
    PROVE  Exhausts(c, TemporaryEvictionOrder(c))
<1> DEFINE R == Reclaimable(c, {})
           k == Cardinality(R)
<1>1. /\ c.pages \subseteq Block /\ R \subseteq c.pages
      /\ IsFiniteSet(R) /\ k \in Nat /\ k \in 0 .. Cardinality(c.pages)
      /\ \A x \in c.pages : Chain[x] \subseteq c.pages
  <2>1. c.pages \in SUBSET Block /\ R \subseteq c.pages
    BY DEF Sound, Cache, Reclaimable
  <2> HIDE DEF R
  <2>2. IsFiniteSet(c.pages) /\ IsFiniteSet(R) /\ k \in Nat /\ Cardinality(c.pages) \in Nat
        /\ k <= Cardinality(c.pages)
    BY <2>1, BlockAssumption, FS_Subset, FS_CardinalityType
  <2>3. \A x \in c.pages : Chain[x] \subseteq c.pages
    BY <2>1, ClosedByParent DEF Sound, PrefixClosed
  <2>4. QED
    BY <2>1, <2>2, <2>3
<1>2. PICK s \in [1 .. k -> c.pages] : IsEvictionOrder(c, s, {})
  BY <1>1, OrdersExist
<1>3. Popped(s) = R
  <2>1. Popped(s) \subseteq R
    BY <1>1, <1>2, PopsAreReclaimable
  <2>2. Cardinality(Popped(s)) = k
    BY <1>1, <1>2, PopsDistinct
  <2> HIDE DEF R
  <2>3. QED
    BY <1>1, <2>1, <2>2, FS_Subset
<1>4. HeapPages(c, R, {}) = {}
  <2>1. SUFFICES ASSUME NEW b \in HeapPages(c, R, {}) PROVE FALSE
    OBVIOUS
  <2>2. b \in c.pages /\ b \notin R /\ c.pins[b] = 0 /\ Children(c.pages \ R, b) = {}
    BY <2>1 DEF HeapPages
  <2>3. ASSUME NEW x \in c.pages, b \in Chain[x] PROVE c.pins[x] = 0
    <3>1. CASE x = b
      BY <2>2, <3>1
    <3>2. CASE x # b
      <4>1. PICK y \in Chain[x] : Parent[y] = b
        BY <1>1, <2>3, <3>2, ChildOnPath DEF Node
      <4>2. y \in R
        BY <1>1, <2>2, <2>3, <4>1 DEF Children
      <4>3. QED
        BY <2>3, <4>1, <4>2 DEF Reclaimable
    <3>3. QED
      BY <3>1, <3>2
  <2>4. b \in R
    BY <2>2, <2>3 DEF Reclaimable
  <2>5. QED
    BY <2>2, <2>4
<1> DEFINE All == UNION {[1 .. m -> c.pages] : m \in 0 .. Cardinality(c.pages)}
           Whole(r) == IsEvictionOrder(c, r, {}) /\ HeapPages(c, Popped(r), {}) = {}
           order == TemporaryEvictionOrder(c)
<1>5. s \in All /\ Whole(s)
  BY <1>1, <1>2, <1>3, <1>4
<1>6. order = CHOOSE r \in All : Whole(r)
  BY DEF TemporaryEvictionOrder
<1>7. order \in All /\ Whole(order)
  <2> HIDE DEF All, Whole, order
  <2>1. QED
    BY <1>5, <1>6
<1>8. Len(order) \in Nat /\ order \in [1 .. Len(order) -> c.pages]
  <2> HIDE DEF order
  <2>1. PICK m \in 0 .. Cardinality(c.pages) : order \in [1 .. m -> c.pages]
    BY <1>7
  <2>2. m \in Nat
    BY <2>1
  <2>3. QED
    BY <2>1, <2>2
<1>9. QED
  BY <1>7, <1>8 DEF Exhausts

(* Every plan the frozen planner makes is the beginning of that order.     *)
LEMMA OrderPlans ==
    ASSUME NEW c, Sound(c), Stamped(c), NEW order, Exhausts(c, order), NEW k \in Nat
    PROVE  /\ Needed(c, k) <= Len(order) <=> CanPlanTemporary(c, k)
           /\ CanPlanTemporary(c, k) =>
                 PlanTemporary(c, k).evictions = SubSeq(order, 1, Needed(c, k))
<1> DEFINE m == Needed(c, k)
           l == Len(order)
           cut == SubSeq(order, 1, m)
<1>1. c \in Cache /\ m \in Nat /\ l \in Nat /\ order \in [1 .. l -> c.pages]
      /\ IsEvictionOrder(c, order, {}) /\ HeapPages(c, Popped(order), {}) = {}
  BY SizeFacts, CapacityAssumption DEF Sound, Needed, Exhausts
<1> HIDE DEF m, l
<1>2. EvictionOrders(c, k, {}) = {s \in [1 .. m -> c.pages] : IsEvictionOrder(c, s, {})}
  BY DEF EvictionOrders, m
<1>3. ASSUME m <= l
      PROVE  cut \in EvictionOrders(c, k, {})
  <2>1. m \in 0 .. l
    BY <1>1, <1>3
  <2>2. QED
    BY <1>1, <1>2, <2>1, OrderPrefix
<1>4. ASSUME NEW s \in EvictionOrders(c, k, {})
      PROVE  m <= l /\ s = cut
  <2>1. s \in [1 .. m -> c.pages] /\ IsEvictionOrder(c, s, {})
    BY <1>2
  <2>2. \A i \in (1 .. m) \cap (1 .. l) : s[i] = order[i]
    BY <1>1, <2>1, OrdersAgree
  <2>3. m <= l
    <3>1. SUFFICES ASSUME l < m PROVE FALSE
      BY <1>1
    <3>2. l + 1 \in 1 .. m /\ 1 .. ((l + 1) - 1) = 1 .. l
      BY <1>1, <3>1
    <3>3. {s[i] : i \in 1 .. l} = Popped(order)
      <4>1. \A i \in 1 .. l : s[i] = order[i]
        BY <1>1, <2>2, <3>1
      <4>2. DOMAIN order = 1 .. l
        BY <1>1
      <4>3. QED
        BY <4>1, <4>2 DEF Popped
    <3>4. IsOldest(c, s[l + 1], HeapPages(c, {s[i] : i \in 1 .. ((l + 1) - 1)}, {}))
      BY <2>1, <3>2 DEF IsEvictionOrder
    <3>5. s[l + 1] \in HeapPages(c, Popped(order), {})
      BY <3>2, <3>3, <3>4 DEF IsOldest
    <3>6. QED
      BY <1>1, <3>5
  <2>4. cut \in [1 .. m -> c.pages] /\ IsEvictionOrder(c, cut, {})
    BY <1>2, <1>3, <2>3
  <2>5. \A i \in 1 .. m : s[i] = cut[i]
    <3> HIDE DEF cut
    <3>1. \A i \in (1 .. m) \cap (1 .. m) : s[i] = cut[i]
      BY <1>1, <2>1, <2>4, OrdersAgree
    <3>2. QED
      BY <3>1
  <2>6. s = cut
    <3> HIDE DEF cut
    <3>1. s = [i \in 1 .. m |-> s[i]] /\ cut = [i \in 1 .. m |-> cut[i]]
      BY <2>1, <2>4
    <3>2. QED
      BY <2>5, <3>1
  <2>7. QED
    BY <2>3, <2>6
<1> HIDE DEF cut
<1>5. m <= l <=> CanPlanTemporary(c, k)
  BY <1>3, <1>4 DEF CanPlanTemporary, CanAdmit
<1>6. ASSUME CanPlanTemporary(c, k)
      PROVE  PlanTemporary(c, k).evictions = cut
  <2>1. PlanTemporary(c, k).evictions = CHOOSE s \in EvictionOrders(c, k, {}) : TRUE
    BY DEF PlanTemporary, AdmissionPlan
  <2>2. EvictionOrders(c, k, {}) # {}
    BY <1>6 DEF CanPlanTemporary, CanAdmit
  <2>3. PlanTemporary(c, k).evictions \in EvictionOrders(c, k, {})
    BY <2>1, <2>2
  <2>4. QED
    BY <1>4, <2>3
<1>7. QED
  BY <1>5, <1>6 DEF m, l, cut

-----------------------------------------------------------------------------
(* The inductive invariant *)

D2Types ==
    /\ committed \in [Block -> Nat]
    /\ promised \in [User -> Node]
    /\ moving \in [User -> [Block -> Nat]]

(* A memo is never of the future, and one of the present holds the order   *)
(* of now.                                                                 *)
MemoCurrent ==
    /\ orderMemo.version \in Int /\ orderMemo.version <= cache.version
    /\ orderMemo.version = cache.version => Exhausts(cache, orderMemo.order)

(* Committed protections count the users whose promise holds the page.     *)
PromisesCounted ==
    \A b \in Block : committed[b] = Cardinality({u \in User : b \in Chain[promised[u]]})

(* Whoever moves a path still holds it, in the generations noted.          *)
MovesNoted ==
    \A u \in User : moving[u] # NotMoving =>
        held[u] \in Block /\ moving[u] = SourceGenerations(cache, held[u])

D2Inv == OrderInv /\ D2Types /\ MemoCurrent /\ PromisesCounted /\ MovesNoted

(* What OrderInv says of the cache.                                        *)
LEMMA CacheOfInv ==
    ASSUME OrderInv
    PROVE  /\ Sound(cache) /\ Stamped(cache) /\ cache \in Cache /\ cache.pages \in SUBSET Block
           /\ cache.version \in Nat /\ cache.pins \in [Block -> Nat]
           /\ cache.generation \in [Block -> Nat]
           /\ held \in [User -> Node] /\ wire \in [Transfer -> Node]
           /\ offer \in [Transfer -> Plan] /\ draft \in [User -> Plan]
           /\ \A x \in cache.pages : Chain[x] \subseteq cache.pages
           /\ \A u \in User : Chain[held[u]] \subseteq cache.pages
<1>1. CacheInv /\ Stamped(cache)
  BY DEF OrderInv
<1>2. Sound(cache)
  BY <1>1 DEF CacheInv, TypeOK, CacheSound, Sound
<1>3. /\ cache \in Cache /\ cache.pages \in SUBSET Block
      /\ cache.version \in Nat /\ cache.pins \in [Block -> Nat]
      /\ cache.generation \in [Block -> Nat]
  BY <1>2 DEF Sound, Cache
<1>4. \A x \in cache.pages : Chain[x] \subseteq cache.pages
  BY <1>2, <1>3, ClosedByParent DEF Sound, PrefixClosed
<1>5. /\ held \in [User -> Node] /\ wire \in [Transfer -> Node]
      /\ offer \in [Transfer -> Plan] /\ draft \in [User -> Plan]
      /\ \A u \in User : Chain[held[u]] \subseteq cache.pages
  BY <1>1 DEF CacheInv, TypeOK, PinsAreHolds, Published
<1>6. QED
  BY <1>1, <1>2, <1>3, <1>4, <1>5

(* Initially nothing is promised or moved, and the memo is of no version.  *)
LEMMA D2InitInv == D2Init => D2Inv
<1> SUFFICES ASSUME D2Init PROVE D2Inv
  OBVIOUS
<1>1. /\ OrderInv /\ cache = EmptyCache /\ orderMemo = NoMemo
      /\ committed = [b \in Block |-> 0] /\ promised = [u \in User |-> Root]
      /\ moving = [u \in User |-> NotMoving]
  BY InitOrderInv DEF D2Init, Init
<1>2. D2Types
  BY <1>1 DEF D2Types, NotMoving, Node
<1>3. MemoCurrent
  BY <1>1 DEF MemoCurrent, NoMemo, EmptyCache
<1>4. PromisesCounted
  <2>1. \A b \in Block : {u \in User : b \in Chain[promised[u]]} = {}
    BY <1>1, ChainAssumption
  <2>2. QED
    BY <1>1, <2>1, FS_EmptySet DEF PromisesCounted
<1>5. MovesNoted
  BY <1>1 DEF MovesNoted
<1>6. QED
  BY <1>1, <1>2, <1>3, <1>4, <1>5 DEF D2Inv

(* The order a preflight reads, kept or made, exhausts the cache as it is. *)
LEMMA CurrentMemoFacts ==
    ASSUME OrderInv, MemoCurrent
    PROVE  /\ CurrentMemo(orderMemo, cache).version = cache.version
           /\ Exhausts(cache, CurrentMemo(orderMemo, cache).order)
<1>1. CASE orderMemo.version = cache.version
  BY <1>1 DEF MemoCurrent, CurrentMemo
<1>2. CASE orderMemo.version # cache.version
  <2>1. CurrentMemo(orderMemo, cache) =
            [version |-> cache.version, order |-> TemporaryEvictionOrder(cache)]
    BY <1>2 DEF CurrentMemo
  <2>2. QED
    BY <2>1, CacheOfInv, ExhaustingOrder
<1>3. QED
  BY <1>1, <1>2

(* So a plan read from it is the plan of the frozen planner.               *)
LEMMA MemoPlans ==
    ASSUME OrderInv, MemoCurrent, NEW k \in Nat
    PROVE  /\ CanPlanFromMemo(orderMemo, cache, k) <=> CanPlanTemporary(cache, k)
           /\ CanPlanTemporary(cache, k) => PlanFromMemo(orderMemo, cache, k) = PlanTemporary(cache, k)
<1> DEFINE order == CurrentMemo(orderMemo, cache).order
<1>1. Sound(cache) /\ Stamped(cache) /\ Exhausts(cache, order)
  BY CacheOfInv, CurrentMemoFacts
<1> HIDE DEF order
<1>2. /\ Needed(cache, k) <= Len(order) <=> CanPlanTemporary(cache, k)
      /\ CanPlanTemporary(cache, k) =>
             PlanTemporary(cache, k).evictions = SubSeq(order, 1, Needed(cache, k))
  BY <1>1, OrderPlans
<1>3. CanPlanFromMemo(orderMemo, cache, k) <=> Needed(cache, k) <= Len(order)
  BY DEF CanPlanFromMemo, order
<1>4. PlanFromMemo(orderMemo, cache, k) =
          [version |-> cache.version, kind |-> "TEMPORARY", path |-> Root,
           additional |-> k, evictions |-> SubSeq(order, 1, Needed(cache, k))]
  BY DEF PlanFromMemo, order
<1>5. PlanTemporary(cache, k) =
          [version |-> cache.version, kind |-> "TEMPORARY", path |-> Root,
           additional |-> k, evictions |-> PlanTemporary(cache, k).evictions]
  BY DEF PlanTemporary, AdmissionPlan
<1>6. QED
  BY <1>2, <1>3, <1>4, <1>5

-----------------------------------------------------------------------------
(* The calls of the pod cache *)

(* No call gives a page that is held another generation.                   *)
LEMMA HeldKeepGeneration ==
    ASSUME CacheInv, [Next]_vars, NEW u \in User, NEW b \in Chain[held[u]]
    PROVE  cache'.generation[b] = cache.generation[b]
<1>1. /\ cache \in Cache /\ b \in cache.pages /\ b \in Block
      /\ cache.generation \in [Block -> Nat]
  BY DEF CacheInv, TypeOK, PinsAreHolds, Published, Cache
<1>2. CASE cache' = cache
  BY <1>2
<1>3. ASSUME NEW V \in SUBSET Block, \A x \in V : cache.pins[x] = 0
      PROVE  b \notin V /\ b \in Evict(cache, V).pages
             /\ Evict(cache, V).generation[b] = cache.generation[b]
             /\ Evict(cache, V).generation \in [Block -> Nat]
  <2>1. Chain[held[u]] \subseteq cache.pages \ V
    BY <1>3, EvictionSparesHolds
  <2>2. Evict(cache, V).generation = [x \in Block |-> IF x \in V THEN 0 ELSE cache.generation[x]]
        /\ Evict(cache, V).pages = cache.pages \ V
    BY <1>1 DEF Evict, Cache
  <2>3. QED
    BY <1>1, <2>1, <2>2
<1>4. ASSUME NEW c, c \in Cache, b \in c.pages, NEW n
      PROVE  Insert(c, n).generation[b] = c.generation[b]
  <2>1. \E f : Insert(c, n).generation =
            [x \in Block |-> IF x \in Chain[n] \ c.pages THEN f[x] ELSE c.generation[x]]
    <3> DEFINE f == [x \in Block |-> c.births + Cardinality(Chain[x] \ c.pages)]
    <3>1. Insert(c, n).generation =
            [x \in Block |-> IF x \in Chain[n] \ c.pages THEN c.births + Cardinality(Chain[x] \ c.pages)
                                                         ELSE c.generation[x]]
      BY <1>4 DEF Insert, Cache
    <3>2. Insert(c, n).generation =
            [x \in Block |-> IF x \in Chain[n] \ c.pages THEN f[x] ELSE c.generation[x]]
      BY <3>1
    <3>3. QED
      BY <3>2
  <2>2. QED
    BY <1>1, <1>4, <2>1
<1>5. ASSUME NEW t \in Transfer, Reserve(t) PROVE cache'.generation[b] = cache.generation[b]
  <2> DEFINE V == Victims(offer[t])
  <2>1. V \in SUBSET Block /\ \A x \in V : cache.pins[x] = 0
    BY <1>1, <1>5 DEF Reserve, CacheInv, FreshPlansExecutable, Executable, Cache
  <2>2. cache'.generation = Evict(cache, V).generation
    BY <1>1, <1>5 DEF Reserve, ReserveTemporary, NextVersion, Evict, Cache
  <2> HIDE DEF V
  <2>3. QED
    BY <1>3, <2>1, <2>2
<1>6. ASSUME NEW v \in User, Publish(v) PROVE cache'.generation[b] = cache.generation[b]
  <2> DEFINE V == Victims(draft[v])
             e == Evict(cache, V)
             i == Insert(e, draft[v].path)
  <2>1. V \in SUBSET Block /\ \A x \in V : cache.pins[x] = 0
    BY <1>1, <1>6 DEF Publish, CacheInv, FreshPlansExecutable, Executable, Cache
  <2>2. cache' = NextVersion(i)
    BY <1>6 DEF Publish, PublishPrompt
  <2> HIDE DEF V
  <2>3. e \in Cache /\ b \in e.pages /\ e.generation[b] = cache.generation[b]
    BY <1>1, <1>3, <2>1, EvictFacts
  <2> HIDE DEF e
  <2>4. draft[v].path \in Node
    BY DEF CacheInv, TypeOK, Plan
  <2>5. i \in Cache /\ i.generation[b] = cache.generation[b]
    BY <1>4, <2>3, <2>4, InsertFacts
  <2> HIDE DEF i
  <2>6. QED
    BY <2>2, <2>5 DEF NextVersion, Cache
<1>7. ASSUME NEW t \in Transfer, Complete(t) PROVE cache'.generation[b] = cache.generation[b]
  <2> DEFINE e == [cache EXCEPT !.temporary[t] = 0]
             i == Insert(e, wire[t])
  <2>1. cache' = NextVersion(i)
    BY <1>7 DEF Complete, CompleteTransfer
  <2>2. e \in Cache /\ b \in e.pages /\ e.generation[b] = cache.generation[b]
    BY <1>1 DEF Cache
  <2> HIDE DEF e
  <2>3. wire[t] \in Node
    BY DEF CacheInv, TypeOK
  <2>4. i \in Cache /\ i.generation[b] = cache.generation[b]
    BY <1>4, <2>2, <2>3, InsertFacts
  <2> HIDE DEF i
  <2>5. QED
    BY <2>1, <2>4 DEF NextVersion, Cache
<1>8. CASE \/ \E v \in User : UnpinPath(v) \/ \E n \in Node : PinPath(v, n)
           \/ \E n \in Node : Reuse(n)
  <2>1. cache'.generation = cache.generation
    BY <1>1, <1>8 DEF UnpinPath, PinPath, Reuse, Unpin, Pin, RecordReuse, NextVersion, Cache
  <2>2. QED
    BY <2>1
<1>9. CASE \/ UNCHANGED vars
           \/ \E t \in Transfer : DiscardOffer(t) \/ \E n \in Block : PreflightTransfer(t, n)
           \/ \E v \in User : DiscardDraft(v) \/ \E n \in Node : PreflightPrompt(v, n)
  BY <1>2, <1>9 DEF vars, DiscardOffer, PreflightTransfer, DiscardDraft, PreflightPrompt
<1>10. QED
  BY <1>5, <1>6, <1>7, <1>8, <1>9 DEF Next

(* Every call either leaves the cache alone or moves its version.          *)
LEMMA VersionMoves ==
    ASSUME CacheInv, [Next]_vars
    PROVE  cache' = cache \/ cache'.version = cache.version + 1
<1>1. cache \in Cache
  BY DEF CacheInv, TypeOK
<1>2. ASSUME NEW t \in Transfer, NEW k \in Nat, NEW e, e \in Cache
      PROVE  NextVersion(e).version = e.version + 1
             /\ NextVersion([e EXCEPT !.temporary[t] = k]).version = e.version + 1
  BY <1>2 DEF NextVersion, Cache
<1>3. ASSUME NEW t \in Transfer, Reserve(t) PROVE cache'.version = cache.version + 1
  BY <1>1, <1>3 DEF Reserve, ReserveTemporary, NextVersion, Evict, Cache
<1>4. ASSUME NEW u \in User, Publish(u) PROVE cache'.version = cache.version + 1
  BY <1>1, <1>4 DEF Publish, PublishPrompt, NextVersion, Insert, Evict, Cache
<1>5. ASSUME NEW t \in Transfer, Complete(t) PROVE cache'.version = cache.version + 1
  BY <1>1, <1>5 DEF Complete, CompleteTransfer, NextVersion, Insert, Cache
<1>6. CASE \E u \in User : UnpinPath(u) \/ \E n \in Node : PinPath(u, n)
  BY <1>1, <1>6 DEF UnpinPath, PinPath, Unpin, Pin, NextVersion, Cache
<1>7. ASSUME NEW n \in Node, Reuse(n) PROVE cache' = cache \/ cache'.version = cache.version + 1
  BY <1>1, <1>7 DEF Reuse, RecordReuse, NextVersion, Cache
<1>8. CASE \/ UNCHANGED vars
           \/ \E t \in Transfer : DiscardOffer(t) \/ \E n \in Block : PreflightTransfer(t, n)
           \/ \E v \in User : DiscardDraft(v) \/ \E n \in Node : PreflightPrompt(v, n)
  BY <1>8 DEF vars, DiscardOffer, PreflightTransfer, DiscardDraft, PreflightPrompt
<1>9. QED
  BY <1>3, <1>4, <1>5, <1>6, <1>7, <1>8 DEF Next

(* A memo survives: the cache is as it was, or the version has moved on.   *)
LEMMA MemoOutdated ==
    ASSUME OrderInv, MemoCurrent, orderMemo' = orderMemo,
           cache' = cache \/ (cache'.version \in Nat /\ cache'.version > cache.version)
    PROVE  MemoCurrent'
<1>1. cache.version \in Nat
  BY CacheOfInv
<1>2. CASE cache' = cache
  BY <1>2 DEF MemoCurrent
<1>3. CASE cache'.version \in Nat /\ cache'.version > cache.version
  BY <1>1, <1>3 DEF MemoCurrent
<1>4. QED
  BY <1>2, <1>3

(* Two caches that agree on the generations of a path.                     *)
LEMMA SameGenerations ==
    ASSUME NEW c, NEW e, NEW n, \A b \in Chain[n] : e.generation[b] = c.generation[b]
    PROVE  SourceGenerations(e, n) = SourceGenerations(c, n)
BY DEF SourceGenerations

(* A call of the pod cache keeps what Stage D2 adds, as long as nobody     *)
(* lets go of a path that is being moved.                                  *)
LEMMA CallKeepsD2 ==
    ASSUME D2Inv, [Next]_vars, UNCHANGED <<committed, promised, moving>>, MemoCurrent',
           \A u \in User : moving[u] # NotMoving => held'[u] = held[u]
    PROVE  D2Inv'
<1>1. OrderInv /\ CacheInv /\ D2Types /\ PromisesCounted /\ MovesNoted
  BY DEF D2Inv, OrderInv
<1>2. OrderInv'
  BY <1>1, StepOrderInv
<1>3. D2Types' /\ PromisesCounted'
  BY <1>1 DEF D2Types, PromisesCounted
<1>4. ASSUME NEW u \in User, moving[u] # NotMoving
      PROVE  held'[u] \in Block /\ moving[u] = SourceGenerations(cache', held'[u])
  <2>1. held'[u] = held[u] /\ held[u] \in Block /\ moving[u] = SourceGenerations(cache, held[u])
    BY <1>1, <1>4 DEF MovesNoted
  <2>2. \A b \in Chain[held[u]] : cache'.generation[b] = cache.generation[b]
    BY <1>1, HeldKeepGeneration
  <2>3. SourceGenerations(cache', held[u]) = SourceGenerations(cache, held[u])
    BY <2>2, SameGenerations
  <2>4. QED
    BY <2>1, <2>3
<1>5. MovesNoted'
  BY <1>4 DEF MovesNoted
<1>6. QED
  BY <1>2, <1>3, <1>5 DEF D2Inv

(* The calls of the pod cache; a path that is being moved is unpinned by   *)
(* the end of its move only.                                               *)
LEMMA InheritedStep ==
    ASSUME D2Inv, Inherited
    PROVE  D2Inv'
<1>1. OrderInv /\ CacheInv /\ MemoCurrent /\ MovesNoted /\ held \in [User -> Node]
  BY DEF D2Inv, OrderInv, CacheInv, TypeOK
<1>2. Next /\ UNCHANGED <<orderMemo, committed, promised, moving>>
  BY DEF Inherited, Next
<1>3. MemoCurrent'
  <2>1. cache' = cache \/ cache'.version = cache.version + 1
    BY <1>1, <1>2, VersionMoves
  <2>2. cache.version \in Nat
    BY <1>1, CacheOfInv
  <2>3. QED
    BY <1>1, <1>2, <2>1, <2>2, MemoOutdated
<1>4. ASSUME NEW u \in User, moving[u] # NotMoving PROVE held'[u] = held[u]
  <2>1. held[u] # Root
    BY <1>1, <1>4, BlockAssumption DEF MovesNoted
  <2>2. CASE \E t \in Transfer : DiscardOffer(t) \/ Reserve(t) \/ Complete(t)
    BY <2>2 DEF DiscardOffer, Reserve, Complete
  <2>3. CASE \E v \in User : DiscardDraft(v) \/ Publish(v) \/ \E n \in Node : PreflightPrompt(v, n)
    BY <2>3 DEF DiscardDraft, Publish, PreflightPrompt
  <2>4. ASSUME NEW v \in User, NEW n \in Node, PinPath(v, n) PROVE held'[u] = held[u]
    BY <1>1, <2>1, <2>4 DEF PinPath
  <2>5. ASSUME NEW v \in User, moving[v] = NotMoving, UnpinPath(v) PROVE held'[u] = held[u]
    BY <1>1, <1>4, <2>5 DEF UnpinPath
  <2>6. CASE \E n \in Node : Reuse(n)
    BY <2>6 DEF Reuse
  <2>7. QED
    BY <2>2, <2>3, <2>4, <2>5, <2>6 DEF Inherited
<1>5. QED
  BY <1>2, <1>3, <1>4, CallKeepsD2

(* A preflight from the memo is a preflight of the frozen planner, or the  *)
(* answer None.                                                            *)
LEMMA MemoPreflightStep ==
    ASSUME D2Inv, NEW t \in Transfer, NEW n \in Block, PreflightFromMemo(t, n)
    PROVE  [Next]_vars /\ D2Inv'
<1>1. OrderInv /\ MemoCurrent /\ Depth(n) \in Nat
  BY ChainFacts DEF D2Inv, Node
<1>2. /\ CanPlanFromMemo(orderMemo, cache, Depth(n)) <=> CanPlanTemporary(cache, Depth(n))
      /\ CanPlanTemporary(cache, Depth(n)) =>
             PlanFromMemo(orderMemo, cache, Depth(n)) = PlanTemporary(cache, Depth(n))
  BY <1>1, MemoPlans
<1>3. [Next]_vars
  <2>1. CASE CanPlanTemporary(cache, Depth(n))
    <3>1. PreflightTransfer(t, n)
      BY <1>2, <2>1 DEF PreflightFromMemo, PreflightTransfer
    <3>2. QED
      BY <3>1 DEF Next
  <2>2. CASE ~CanPlanTemporary(cache, Depth(n))
    BY <1>2, <2>2 DEF PreflightFromMemo, vars
  <2>3. QED
    BY <2>1, <2>2
<1>4. /\ cache' = cache /\ held' = held /\ orderMemo' = CurrentMemo(orderMemo, cache)
      /\ UNCHANGED <<committed, promised, moving>>
  BY DEF PreflightFromMemo
<1>5. MemoCurrent'
  BY <1>1, <1>4, CurrentMemoFacts, CacheOfInv DEF MemoCurrent
<1>6. QED
  BY <1>3, <1>4, <1>5, CallKeepsD2

(* A move begins with a pin; the pages keep their generations.             *)
LEMMA StartMoveStep ==
    ASSUME D2Inv, NEW u \in User, NEW n \in Block, StartMove(u, n)
    PROVE  D2Inv'
<1>1. /\ OrderInv /\ CacheInv /\ D2Types /\ MemoCurrent /\ PromisesCounted /\ MovesNoted
      /\ n \in Node
  BY DEF D2Inv, OrderInv, Node
<1>2. /\ PinPath(u, n) /\ Next
      /\ moving' = [moving EXCEPT ![u] = SourceGenerations(cache, n)]
      /\ UNCHANGED <<orderMemo, committed, promised>>
  BY <1>1 DEF StartMove, Next
<1>3. OrderInv'
  BY <1>1, <1>2, StepOrderInv
<1>4. cache \in Cache /\ cache.generation \in [Block -> Nat] /\ held \in [User -> Node]
      /\ cache.version \in Nat
  BY <1>1, CacheOfInv
<1>5. /\ cache'.generation = cache.generation /\ cache'.version = cache.version + 1
      /\ held' = [held EXCEPT ![u] = n] /\ held[u] = Root
  BY <1>2, <1>4 DEF PinPath, Pin, NextVersion, Cache
<1>6. MemoCurrent'
  BY <1>1, <1>2, <1>4, <1>5, MemoOutdated
<1>7. D2Types' /\ PromisesCounted'
  <2>1. SourceGenerations(cache, n) \in [Block -> Nat]
    BY <1>4 DEF SourceGenerations
  <2>2. QED
    BY <1>1, <1>2, <2>1 DEF D2Types, PromisesCounted
<1>8. ASSUME NEW v \in User, moving'[v] # NotMoving
      PROVE  held'[v] \in Block /\ moving'[v] = SourceGenerations(cache', held'[v])
  <2>1. \A m : SourceGenerations(cache', m) = SourceGenerations(cache, m)
    BY <1>5, SameGenerations
  <2>2. CASE v = u
    BY <1>1, <1>2, <1>4, <1>5, <2>1, <2>2 DEF D2Types
  <2>3. CASE v # u
    BY <1>1, <1>2, <1>4, <1>5, <1>8, <2>1, <2>3 DEF D2Types, MovesNoted
  <2>4. QED
    BY <2>2, <2>3
<1>9. QED
  BY <1>3, <1>6, <1>7, <1>8 DEF D2Inv, MovesNoted

-----------------------------------------------------------------------------
(* The calls of Stage D2 *)

(* A mutation that publishes nothing and touches no access order.          *)
LEMMA ShrinkStep ==
    ASSUME OrderInv, cache' \in Cache, held' \in [User -> Node],
           cache'.version > cache.version, UNCHANGED <<wire, offer, draft>>,
           cache'.temporary = cache.temporary, cache'.accesses = cache.accesses,
           cache'.pages \subseteq cache.pages, PrefixClosed(cache'),
           \A b \in cache'.pages : cache'.stamp[b] = cache.stamp[b],
           PinsAreHolds'
    PROVE  OrderInv'
<1>1. /\ CacheInv /\ TypeOK /\ CallersInStep /\ Stamped(cache) /\ WithinCapacity(cache)
      /\ cache \in Cache /\ cache.version \in Nat /\ cache'.version \in Nat
      /\ offer \in [Transfer -> Plan] /\ draft \in [User -> Plan]
  BY DEF OrderInv, CacheInv, TypeOK, CacheSound, Cache
<1>2. TypeOK'
  BY <1>1 DEF TypeOK
<1>3. CacheSound'
  <2>1. TemporaryPages(cache') = TemporaryPages(cache)
    BY DEF TemporaryPages, BufferSlots
  <2>2. /\ IsFiniteSet(cache.pages) /\ Cardinality(cache.pages) \in Nat
        /\ Cardinality(cache'.pages) \in Nat /\ TemporaryPages(cache) \in Nat
    BY <1>1, SizeFacts
  <2>3. Cardinality(cache'.pages) <= Cardinality(cache.pages)
    BY <2>2, FS_Subset
  <2>4. WithinCapacity(cache')
    BY <1>1, <2>1, <2>2, <2>3, CapacityAssumption DEF WithinCapacity, MemoryPages
  <2>5. QED
    BY <2>4 DEF CacheSound
<1>4. /\ \A t \in Transfer : /\ offer[t].version \in Nat /\ offer[t].version <= cache.version
                             /\ offer'[t].version <= cache'.version
                             /\ ~IsFresh(cache', offer'[t], "TEMPORARY")
      /\ \A u \in User : /\ draft[u].version \in Nat /\ draft[u].version <= cache.version
                         /\ draft'[u].version <= cache'.version
                         /\ ~IsFresh(cache', draft'[u], "PROMPT")
  <2>1. /\ \A t \in Transfer : offer[t].version \in Nat /\ offer[t].version <= cache.version
        /\ \A u \in User : draft[u].version \in Nat /\ draft[u].version <= cache.version
    BY <1>1 DEF CallersInStep, Plan
  <2>2. offer' = offer /\ draft' = draft
    OBVIOUS
  <2>3. QED
    BY <1>1, <2>1, <2>2 DEF IsFresh
<1>5. FreshPlansExecutable' /\ PlansOrdered'
  BY <1>4 DEF FreshPlansExecutable, PlansOrdered
<1>6. CallersInStep'
  BY <1>1, <1>4 DEF CallersInStep, InFlight
<1>7. Stamped(cache')
  BY <1>1 DEF Stamped
<1>8. QED
  BY <1>2, <1>3, <1>5, <1>6, <1>7 DEF OrderInv, CacheInv

(* A committed protection moves the version and nothing else of the cache. *)
LEMMA VersionOnlyStep ==
    ASSUME D2Inv, cache' = NextVersion(cache), UNCHANGED <<wire, offer, draft, held, orderMemo, moving>>,
           promised' \in [User -> Node], committed' \in [Block -> Nat], PromisesCounted'
    PROVE  D2Inv'
<1>1. /\ OrderInv /\ D2Types /\ MemoCurrent /\ MovesNoted
      /\ cache \in Cache /\ cache.version \in Nat /\ held \in [User -> Node]
      /\ PrefixClosed(cache) /\ PinsAreHolds
  BY CacheOfInv DEF D2Inv, OrderInv, CacheInv, CacheSound
<1>2. /\ cache' \in Cache /\ cache'.version = cache.version + 1 /\ cache'.pages = cache.pages
      /\ cache'.pins = cache.pins /\ cache'.temporary = cache.temporary
      /\ cache'.accesses = cache.accesses /\ cache'.stamp = cache.stamp
      /\ cache'.generation = cache.generation
  BY <1>1 DEF NextVersion, Cache
<1>3. PinsAreHolds'
  BY <1>1, <1>2 DEF PinsAreHolds, Published
<1>4. OrderInv'
  BY <1>1, <1>2, <1>3, ShrinkStep DEF PrefixClosed
<1>5. MemoCurrent'
  BY <1>1, <1>2, MemoOutdated
<1>6. MovesNoted'
  BY <1>1, <1>2, SameGenerations DEF MovesNoted
<1>7. D2Types'
  BY <1>1 DEF D2Types
<1>8. QED
  BY <1>4, <1>5, <1>6, <1>7 DEF D2Inv

(* One more promise, one more count on each of its pages.                  *)
LEMMA ProtectStep ==
    ASSUME D2Inv, NEW u \in User, NEW n \in Block, ProtectCommitted(u, n)
    PROVE  D2Inv'
<1>1. /\ committed \in [Block -> Nat] /\ promised \in [User -> Node] /\ PromisesCounted
      /\ n \in Node
  BY DEF D2Inv, D2Types, Node
<1>2. /\ promised[u] = Root
      /\ committed' = [b \in Block |-> IF b \in Chain[n] THEN committed[b] + 1 ELSE committed[b]]
      /\ promised' = [promised EXCEPT ![u] = n]
      /\ cache' = NextVersion(cache) /\ UNCHANGED <<wire, offer, draft, held, orderMemo, moving>>
  BY DEF ProtectCommitted
<1>3. promised' \in [User -> Node] /\ committed' \in [Block -> Nat]
  BY <1>1, <1>2
<1>4. ASSUME NEW b \in Block
      PROVE  committed'[b] = Cardinality({v \in User : b \in Chain[promised'[v]]})
  <2> DEFINE who == {v \in User : b \in Chain[promised[v]]}
  <2>1. committed[b] = Cardinality(who) /\ IsFiniteSet(who) /\ u \notin who
    BY <1>1, <1>2, UserAssumption, FS_Subset, ChainAssumption DEF PromisesCounted
  <2>2. {v \in User : b \in Chain[promised'[v]]} = IF b \in Chain[n] THEN who \cup {u} ELSE who
    BY <1>1, <1>2, <2>1
  <2>3. committed'[b] = IF b \in Chain[n] THEN committed[b] + 1 ELSE committed[b]
    BY <1>2
  <2> HIDE DEF who
  <2>4. Cardinality(who \cup {u}) = Cardinality(who) + 1
    BY <2>1, FS_AddElement
  <2>5. QED
    BY <2>1, <2>2, <2>3, <2>4
<1>5. QED
  BY <1>2, <1>3, <1>4, VersionOnlyStep DEF PromisesCounted

(* And one less.                                                           *)
LEMMA UnprotectStep ==
    ASSUME D2Inv, NEW u \in User, UnprotectCommitted(u)
    PROVE  D2Inv'
<1> DEFINE n == promised[u]
<1>1. /\ committed \in [Block -> Nat] /\ promised \in [User -> Node] /\ PromisesCounted
      /\ n \in Node
  BY DEF D2Inv, D2Types
<1>2. /\ committed' = [b \in Block |-> IF b \in Chain[n] THEN committed[b] - 1 ELSE committed[b]]
      /\ promised' = [promised EXCEPT ![u] = Root]
      /\ cache' = NextVersion(cache) /\ UNCHANGED <<wire, offer, draft, held, orderMemo, moving>>
  BY DEF UnprotectCommitted
<1>3. ASSUME NEW b \in Block
      PROVE  /\ committed'[b] = Cardinality({v \in User : b \in Chain[promised'[v]]})
             /\ committed'[b] \in Nat
  <2> DEFINE who == {v \in User : b \in Chain[promised[v]]}
  <2>1. committed[b] = Cardinality(who) /\ IsFiniteSet(who) /\ (u \in who <=> b \in Chain[n])
    BY <1>1, UserAssumption, FS_Subset DEF PromisesCounted
  <2>2. {v \in User : b \in Chain[promised'[v]]} = who \ {u}
    BY <1>1, <1>2, ChainAssumption
  <2>3. committed'[b] = IF b \in Chain[n] THEN committed[b] - 1 ELSE committed[b]
    BY <1>2
  <2> HIDE DEF who, n
  <2>4. u \in who => Cardinality(who \ {u}) = Cardinality(who) - 1
    BY <2>1, FS_RemoveElement
  <2>5. u \notin who => who \ {u} = who
    OBVIOUS
  <2>6. IsFiniteSet(who \ {u}) /\ Cardinality(who \ {u}) \in Nat
    BY <2>1, FS_Subset, FS_CardinalityType
  <2>7. QED
    BY <2>1, <2>2, <2>3, <2>4, <2>5, <2>6
<1>4. promised' \in [User -> Node]
  BY <1>1, <1>2 DEF Node
<1>5. committed' \in [Block -> Nat]
  <2>1. committed' = [b \in Block |-> committed'[b]]
    BY <1>2
  <2>2. QED
    BY <1>3, <2>1
<1>6. QED
  BY <1>2, <1>3, <1>4, <1>5, VersionOnlyStep DEF PromisesCounted

(* A set of users that contains u has one element if and only if u is      *)
(* alone.                                                                  *)
LEMMA Alone ==
    ASSUME NEW S \in SUBSET User, NEW u \in S
    PROVE  Cardinality(S) - 1 = 0 <=> S = {u}
<1>1. IsFiniteSet(S) /\ Cardinality(S) \in Nat
  BY UserAssumption, FS_Subset, FS_CardinalityType
<1>2. Cardinality(S) = 1 <=> \E x : S = {x}
  BY <1>1, FS_Singleton
<1>3. QED
  BY <1>1, <1>2

(* Nobody has been promised a page without a committed protection.         *)
LEMMA Unpromised ==
    ASSUME PromisesCounted, NEW b \in Block
    PROVE  committed[b] = 0 <=> \A v \in User : b \notin Chain[promised[v]]
<1> DEFINE S == {v \in User : b \in Chain[promised[v]]}
<1>1. IsFiniteSet(S) /\ committed[b] = Cardinality(S)
  BY UserAssumption, FS_Subset DEF PromisesCounted
<1>2. S = {} <=> \A v \in User : b \notin Chain[promised[v]]
  OBVIOUS
<1> HIDE DEF S
<1>3. QED
  BY <1>1, <1>2, FS_EmptySet

\* The cache once the mover has given back its pins.
Unpinned(u) == Unpin(cache, held[u])

\* What the end of the move releases.
Gone(u) == SafeSuffix(Unpinned(u), committed, held[u], moving[u])

(* The pins of the mover go first, and nothing else changes.               *)
LEMMA UnpinnedFacts ==
    ASSUME D2Inv, NEW u \in User, CompleteMove(u)
    PROVE  /\ held[u] \in Block /\ Chain[held[u]] \subseteq cache.pages
           /\ Sound(Unpinned(u))
           /\ Unpinned(u).pages = cache.pages /\ Unpinned(u).temporary = cache.temporary
           /\ Unpinned(u).stamp = cache.stamp /\ Unpinned(u).accesses = cache.accesses
           /\ Unpinned(u).generation = cache.generation
           /\ Unpinned(u).version = cache.version + 1
           /\ \A b \in Block : Unpinned(u).pins[b] =
                 IF b \in Chain[held[u]] THEN cache.pins[b] - 1 ELSE cache.pins[b]
<1>1. /\ Sound(cache) /\ cache \in Cache /\ Chain[held[u]] \subseteq cache.pages
      /\ held[u] \in Block /\ held[u] \in Node
  BY CacheOfInv DEF D2Inv, MovesNoted, CompleteMove, Node
<1>2. \A b \in Chain[held[u]] : cache.pins[b] > 0
  BY DEF CompleteMove
<1>3. /\ Sound(Unpinned(u))
      /\ Unpinned(u).pages = cache.pages /\ Unpinned(u).temporary = cache.temporary
      /\ \A b \in Block : Unpinned(u).pins[b] =
            IF b \in Chain[held[u]] THEN cache.pins[b] - 1 ELSE cache.pins[b]
  BY <1>1, <1>2, UnpinFacts DEF Unpinned
<1>4. /\ Unpinned(u).stamp = cache.stamp /\ Unpinned(u).accesses = cache.accesses
      /\ Unpinned(u).generation = cache.generation
      /\ Unpinned(u).version = cache.version + 1
  BY <1>1 DEF Unpinned, Unpin, NextVersion, Cache
<1>5. QED
  BY <1>1, <1>3, <1>4

(* The test of the walk at one page of the chain, in terms of who holds    *)
(* and who was promised it.                                                *)
LEMMA MayGoMeans ==
    ASSUME D2Inv, NEW u \in User, CompleteMove(u), NEW x \in Chain[held[u]]
    PROVE  MayGo(Unpinned(u), committed, held[u], moving[u], x) <=>
               /\ \A v \in User : x \notin Chain[promised[v]] /\ (v # u => x \notin Chain[held[v]])
               /\ Children(cache.pages, x) \subseteq Chain[held[u]]
<1> DEFINE S == {v \in User : x \in Chain[held[v]]}
<1>1. /\ x \in Block /\ x \in cache.pages
      /\ Unpinned(u).pages = cache.pages /\ Unpinned(u).generation = cache.generation
      /\ Unpinned(u).pins[x] = cache.pins[x] - 1
  <2>1. Chain[held[u]] \subseteq cache.pages /\ cache.pages \in SUBSET Block
    BY UnpinnedFacts, CacheOfInv DEF D2Inv
  <2>2. x \in Block /\ x \in cache.pages
    BY <2>1
  <2>3. QED
    BY <2>2, UnpinnedFacts
<1>2. cache.generation[x] = moving[u][x]
  BY <1>1 DEF D2Inv, MovesNoted, CompleteMove, SourceGenerations
<1>3. cache.pins[x] = Cardinality(S)
  BY <1>1 DEF D2Inv, OrderInv, CacheInv, PinsAreHolds
<1>4. Cardinality(S) - 1 = 0 <=> S = {u}
  <2>1. S \in SUBSET User /\ u \in S
    OBVIOUS
  <2> HIDE DEF S
  <2>2. QED
    BY <2>1, Alone
<1>5. S = {u} <=> \A v \in User : v # u => x \notin Chain[held[v]]
  OBVIOUS
<1>6. committed[x] = 0 <=> \A v \in User : x \notin Chain[promised[v]]
  BY <1>1, Unpromised DEF D2Inv
<1> HIDE DEF S
<1>7. QED
  BY <1>1, <1>2, <1>3, <1>4, <1>5, <1>6 DEF MayGo

(* The walk releases the pages of the chain that nobody else needs: what   *)
(* hangs below a page it passes hangs below it on the chain, link by link. *)
LEMMA SuffixIsFree ==
    ASSUME D2Inv, NEW u \in User, CompleteMove(u)
    PROVE  Gone(u) = {b \in Chain[held[u]] : FreeOfOthers(u, b)}
<1> DEFINE n == held[u]
           May(x) == MayGo(Unpinned(u), committed, n, moving[u], x)
           Other(x) == \A v \in User : x \notin Chain[promised[v]] /\ (v # u => x \notin Chain[held[v]])
<1>1. /\ n \in Block /\ Chain[n] \subseteq cache.pages /\ cache.pages \subseteq Block
      /\ \A x \in cache.pages : Chain[x] \subseteq cache.pages
  BY UnpinnedFacts, CacheOfInv DEF D2Inv
<1>2. \A x \in Chain[n] : May(x) <=> Other(x) /\ Children(cache.pages, x) \subseteq Chain[n]
  BY MayGoMeans
<1>3. Gone(u) = {b \in Chain[n] : \A x \in Chain[n] : b \in Chain[x] => May(x)}
  BY DEF Gone, SafeSuffix
<1>4. \A b : FreeOfOthers(u, b) <=>
          \A x \in cache.pages : b \in Chain[x] => x \in Chain[n] /\ Other(x)
  BY DEF FreeOfOthers
<1> HIDE DEF May, Other
<1>5. ASSUME NEW b \in Chain[n], FreeOfOthers(u, b), NEW x \in Chain[n], b \in Chain[x]
      PROVE  May(x)
  <2>1. Other(x)
    BY <1>1, <1>4, <1>5
  <2>2. ASSUME NEW y \in cache.pages, Parent[y] = x PROVE y \in Chain[n]
    <3>1. y \in Block /\ Chain[y] = Chain[Parent[y]] \cup {y}
      BY <1>1, <2>2, ParentFacts
    <3>2. b \in Chain[y]
      BY <1>5, <2>2, <3>1
    <3>3. QED
      BY <1>4, <1>5, <2>2, <3>2
  <2>3. QED
    BY <1>2, <2>1, <2>2 DEF Children
<1>6. ASSUME NEW b \in Chain[n], \A x \in Chain[n] : b \in Chain[x] => May(x),
             NEW x \in cache.pages, b \in Chain[x]
      PROVE  x \in Chain[n] /\ Other(x)
  <2> DEFINE P == {m \in Chain[x] : b \in Chain[m] /\ m \notin Chain[n]}
  <2>1. Chain[x] \subseteq Block /\ x \in Chain[x] /\ x \in Node /\ x \in Block
    BY <1>1, ChainFacts DEF Node
  <2>2. P = {}
    <3>1. SUFFICES ASSUME P # {} PROVE FALSE
      OBVIOUS
    <3>2. PICK m \in P : m = Root \/ (m \in Block /\ Parent[m] \notin P)
      <4>1. P \in SUBSET Node
        BY <2>1 DEF Node
      <4> HIDE DEF P
      <4>2. QED
        BY <3>1, <4>1, TopOf
    <3>3. m \in Chain[x] /\ b \in Chain[m] /\ m \notin Chain[n] /\ m \in Block /\ m # Root
      BY <2>1, <3>2, BlockAssumption
    <3> DEFINE d == Parent[m]
    <3>4. d \in Node /\ Chain[m] = Chain[d] \cup {m}
      BY <3>3, ParentFacts
    <3>5. b \in Chain[d]
      BY <3>3, <3>4
    <3>6. d \in Block /\ d \in Chain[d]
      BY <3>4, <3>5, ChainFacts DEF Node
    <3>7. d \in Chain[x]
      BY <2>1, <3>3, <3>4, <3>6, ChainAssumption
    <3>8. d \in Chain[n]
      BY <3>2, <3>3, <3>5, <3>7
    <3>9. Children(cache.pages, d) \subseteq Chain[n]
      BY <1>2, <1>6, <3>5, <3>8
    <3>10. m \in Children(cache.pages, d)
      BY <1>1, <3>3 DEF Children
    <3>11. QED
      BY <3>3, <3>9, <3>10
  <2>3. x \in Chain[n]
    BY <1>6, <2>1, <2>2
  <2>4. QED
    BY <1>2, <1>6, <2>3
<1>7. QED
  BY <1>3, <1>4, <1>5, <1>6

(* What goes at the end of a move is held by nobody else and strands no    *)
(* page.                                                                   *)
LEMMA GoneFacts ==
    ASSUME D2Inv, NEW u \in User, CompleteMove(u)
    PROVE  /\ Gone(u) \in SUBSET Block /\ Gone(u) \subseteq Chain[held[u]]
           /\ \A b \in Gone(u) : /\ Unpinned(u).pins[b] = 0
                                 /\ Children(cache.pages \ Gone(u), b) = {}
                                 /\ \A v \in User : v # u => b \notin Chain[held[v]]
<1>1. /\ held[u] \in Block /\ Chain[held[u]] \subseteq cache.pages /\ cache.pages \subseteq Block
      /\ \A x \in cache.pages : Chain[x] \subseteq cache.pages
  BY UnpinnedFacts, CacheOfInv DEF D2Inv
<1>2. Gone(u) = {b \in Chain[held[u]] : FreeOfOthers(u, b)}
  BY SuffixIsFree
<1>3. \A b \in Block : b \in Chain[b]
  BY ChainFacts DEF Node
<1>4. ASSUME NEW b \in Gone(u)
      PROVE  /\ Unpinned(u).pins[b] = 0
             /\ Children(cache.pages \ Gone(u), b) = {}
             /\ \A v \in User : v # u => b \notin Chain[held[v]]
  <2>1. b \in Chain[held[u]] /\ b \in cache.pages /\ b \in Block /\ b \in Chain[b]
        /\ FreeOfOthers(u, b)
    BY <1>1, <1>2, <1>3
  <2>2. Unpinned(u).pins[b] = 0
    BY <2>1 DEF Gone, SafeSuffix, MayGo
  <2>3. \A v \in User : v # u => b \notin Chain[held[v]]
    BY <2>1 DEF FreeOfOthers
  <2>4. ASSUME NEW y \in cache.pages, Parent[y] = b PROVE y \in Gone(u)
    <3>1. y \in Block /\ Chain[y] = Chain[b] \cup {y}
      BY <1>1, <2>4, ParentFacts
    <3>2. y \in Chain[held[u]]
      BY <2>1, <2>4, <3>1 DEF FreeOfOthers
    <3>3. \A x \in cache.pages : y \in Chain[x] => b \in Chain[x]
      <4>1. TAKE x \in cache.pages
      <4>2. y \in Chain[x] => Chain[y] \subseteq Chain[x]
        BY <1>1, ChainAssumption DEF Node
      <4>3. QED
        BY <2>1, <3>1, <4>2
    <3>4. FreeOfOthers(u, y)
      BY <2>1, <3>3 DEF FreeOfOthers
    <3>5. QED
      BY <1>2, <3>2, <3>4
  <2>5. QED
    BY <2>2, <2>3, <2>4 DEF Children
<1>5. QED
  BY <1>1, <1>2, <1>4

(* The cache after a move has ended.                                       *)
LEMMA ReleasedFacts ==
    ASSUME D2Inv, NEW u \in User, CompleteMove(u)
    PROVE  /\ cache' \in Cache /\ cache'.version > cache.version
           /\ cache'.pages = cache.pages \ Gone(u) /\ cache'.temporary = cache.temporary
           /\ cache'.accesses = cache.accesses
           /\ \A b \in cache'.pages : /\ cache'.stamp[b] = cache.stamp[b]
                                      /\ cache'.generation[b] = cache.generation[b]
           /\ \A b \in Block : cache'.pins[b] = Unpinned(u).pins[b]
           /\ PrefixClosed(cache')
<1> DEFINE c == Unpinned(u)
           gone == Gone(u)
           e == Evict(c, gone)
<1>1. /\ Sound(c) /\ c \in Cache /\ c.pages = cache.pages /\ c.temporary = cache.temporary
      /\ c.stamp = cache.stamp /\ c.accesses = cache.accesses
      /\ c.generation = cache.generation /\ c.version = cache.version + 1
      /\ cache.version \in Nat /\ PrefixClosed(c) /\ cache.pages \subseteq Block
  BY UnpinnedFacts, CacheOfInv DEF D2Inv, Sound
<1>2. /\ gone \in SUBSET Block
      /\ \A b \in gone : c.pins[b] = 0 /\ Children(c.pages \ gone, b) = {}
  BY <1>1, GoneFacts
<1>3. cache' = IF gone = {} THEN c ELSE NextVersion(e)
  BY DEF CompleteMove, SafeReleaseSuffix, Release, Unpinned, Gone
<1> HIDE DEF c, gone
<1>4. /\ e \in Cache /\ e.pages = c.pages \ gone /\ e.temporary = c.temporary
      /\ e.version = c.version /\ PrefixClosed(e)
      /\ e.pins = [b \in Block |-> IF b \in gone THEN 0 ELSE c.pins[b]]
  BY <1>1, <1>2, EvictFacts
<1>5. /\ e.accesses = c.accesses
      /\ \A b \in Block \ gone : e.stamp[b] = c.stamp[b] /\ e.generation[b] = c.generation[b]
  BY <1>1 DEF Evict, Cache
<1>6. \A b \in Block : e.pins[b] = c.pins[b]
  BY <1>2, <1>4
<1> HIDE DEF e
<1>7. CASE gone = {}
  BY <1>1, <1>3, <1>7 DEF c, gone
<1>8. CASE gone # {}
  <2>1. cache' = NextVersion(e)
    BY <1>3, <1>8
  <2>2. /\ cache' \in Cache /\ cache'.version = e.version + 1 /\ cache'.pages = e.pages
        /\ cache'.pins = e.pins /\ cache'.temporary = e.temporary
        /\ cache'.accesses = e.accesses /\ cache'.stamp = e.stamp
        /\ cache'.generation = e.generation
    BY <1>4, <2>1 DEF NextVersion, Cache
  <2>3. PrefixClosed(cache')
    BY <1>4, <2>2 DEF PrefixClosed
  <2>4. cache'.version > cache.version
    BY <1>1, <1>4, <2>2
  <2>5. cache'.pages = cache.pages \ gone /\ cache'.temporary = cache.temporary
        /\ cache'.accesses = cache.accesses
    BY <1>1, <1>4, <1>5, <2>2
  <2>6. \A b \in cache'.pages : /\ cache'.stamp[b] = cache.stamp[b]
                               /\ cache'.generation[b] = cache.generation[b]
    BY <1>1, <1>5, <2>2, <2>5
  <2>7. \A b \in Block : cache'.pins[b] = c.pins[b]
    BY <1>6, <2>2
  <2>8. QED
    BY <2>2, <2>3, <2>4, <2>5, <2>6, <2>7 DEF c, gone
<1>9. QED
  BY <1>7, <1>8

(* The end of a move takes what nobody else holds, so every other hold,    *)
(* promise and move stands.                                                *)
LEMMA CompleteMoveStep ==
    ASSUME D2Inv, NEW u \in User, CompleteMove(u)
    PROVE  D2Inv'
<1>1. /\ OrderInv /\ CacheInv /\ D2Types /\ MemoCurrent /\ PromisesCounted /\ MovesNoted
      /\ held \in [User -> Node] /\ cache.pins \in [Block -> Nat]
      /\ \A v \in User : Chain[held[v]] \subseteq cache.pages
  BY CacheOfInv DEF D2Inv, OrderInv
<1>2. /\ held' = [held EXCEPT ![u] = Root] /\ moving' = [moving EXCEPT ![u] = NotMoving]
      /\ UNCHANGED <<wire, offer, draft, orderMemo, committed, promised>>
  BY DEF CompleteMove
<1>3. /\ cache' \in Cache /\ cache'.version \in Nat /\ cache'.version > cache.version
      /\ cache'.pages = cache.pages \ Gone(u) /\ cache'.temporary = cache.temporary
      /\ cache'.accesses = cache.accesses
      /\ \A b \in cache'.pages : /\ cache'.stamp[b] = cache.stamp[b]
                                 /\ cache'.generation[b] = cache.generation[b]
      /\ PrefixClosed(cache')
  BY ReleasedFacts DEF Cache
<1>4. \A b \in Block : cache'.pins[b] = IF b \in Chain[held[u]] THEN cache.pins[b] - 1 ELSE cache.pins[b]
  BY ReleasedFacts, UnpinnedFacts
<1>5. \A v \in User : held'[v] = IF v = u THEN Root ELSE held[v]
  BY <1>1, <1>2
<1>6. \A v \in User : Chain[held'[v]] \subseteq cache'.pages
  <2>1. \A v \in User : v # u => Chain[held[v]] \cap Gone(u) = {}
    BY GoneFacts
  <2>2. QED
    BY <1>1, <1>3, <1>5, <2>1, ChainAssumption
<1>7. ASSUME NEW b \in Block
      PROVE  cache'.pins[b] = Cardinality({v \in User : b \in Chain[held'[v]]})
  <2> DEFINE who == {v \in User : b \in Chain[held[v]]}
  <2>1. cache.pins[b] = Cardinality(who) /\ IsFiniteSet(who) /\ (u \in who <=> b \in Chain[held[u]])
    BY <1>1, UserAssumption, FS_Subset DEF CacheInv, PinsAreHolds
  <2>2. {v \in User : b \in Chain[held'[v]]} = who \ {u}
    BY <1>5, ChainAssumption
  <2> HIDE DEF who
  <2>3. u \in who => Cardinality(who \ {u}) = Cardinality(who) - 1
    BY <2>1, FS_RemoveElement
  <2>4. u \notin who => who \ {u} = who
    OBVIOUS
  <2>5. QED
    BY <1>4, <2>1, <2>2, <2>3, <2>4
<1>8. PinsAreHolds'
  BY <1>6, <1>7 DEF PinsAreHolds, Published
<1>9. held' \in [User -> Node]
  BY <1>1, <1>2 DEF Node
<1>10. OrderInv'
  <2>1. cache'.pages \subseteq cache.pages
    BY <1>3
  <2>2. QED
    BY <1>1, <1>2, <1>3, <1>8, <1>9, <2>1, ShrinkStep
<1>11. MemoCurrent'
  BY <1>1, <1>2, <1>3, MemoOutdated
<1>12. D2Types' /\ PromisesCounted'
  BY <1>1, <1>2 DEF D2Types, PromisesCounted, NotMoving
<1>13. ASSUME NEW v \in User, moving'[v] # NotMoving
       PROVE  held'[v] \in Block /\ moving'[v] = SourceGenerations(cache', held'[v])
  <2>1. v # u /\ moving'[v] = moving[v] /\ held'[v] = held[v]
    BY <1>1, <1>2, <1>5, <1>13 DEF D2Types
  <2>2. held[v] \in Block /\ moving[v] = SourceGenerations(cache, held[v])
    BY <1>1, <1>13, <2>1 DEF MovesNoted
  <2>3. \A b \in Chain[held[v]] : cache'.generation[b] = cache.generation[b]
    BY <1>3, <1>6, <2>1
  <2>4. QED
    BY <2>1, <2>2, <2>3, SameGenerations
<1>14. QED
  BY <1>10, <1>11, <1>12, <1>13 DEF D2Inv, MovesNoted

(* Every call keeps the invariant.                                         *)
LEMMA D2StepInv == D2Inv /\ [D2Next]_d2vars => D2Inv'
<1> SUFFICES ASSUME D2Inv, [D2Next]_d2vars PROVE D2Inv'
  OBVIOUS
<1>1. CASE UNCHANGED d2vars
  <2>1. [Next]_vars /\ UNCHANGED <<cache, held, orderMemo, committed, promised, moving>>
    BY <1>1 DEF d2vars, vars
  <2>2. MemoCurrent'
    BY <2>1 DEF D2Inv, MemoCurrent
  <2>3. QED
    BY <2>1, <2>2, CallKeepsD2
<1>2. CASE Inherited
  BY <1>2, InheritedStep
<1>3. ASSUME NEW t \in Transfer, NEW n \in Block, PreflightFromMemo(t, n) PROVE D2Inv'
  BY <1>3, MemoPreflightStep
<1>4. ASSUME NEW u \in User, NEW n \in Block, ProtectCommitted(u, n) \/ StartMove(u, n)
      PROVE  D2Inv'
  BY <1>4, ProtectStep, StartMoveStep
<1>5. ASSUME NEW u \in User, UnprotectCommitted(u) \/ CompleteMove(u) PROVE D2Inv'
  BY <1>5, UnprotectStep, CompleteMoveStep
<1>6. QED
  BY <1>1, <1>2, <1>3, <1>4, <1>5 DEF D2Next

-----------------------------------------------------------------------------
(* The theorems *)

(* The cache of Stage D2 keeps every invariant of the pod cache, plans and *)
(* stamps included, and the invariants of what it adds (cache.py and       *)
(* transfer.py of task_main/stage_d2).                                     *)
THEOREM D2Invariant == D2Spec => []D2Inv
<1>1. QED
  BY D2InitInv, D2StepInv, PTL DEF D2Spec

(* As long as the cached order passes its version test it is the order the *)
(* planner of the base class would pop now: every transfer is planned, or  *)
(* refused, alike (_build_temporary_eviction_order and plan_temporary).    *)
THEOREM CachedOrderIsCurrent == D2Spec => []CachedOrderCurrent
<1>1. D2Inv => CachedOrderCurrent
  <2> SUFFICES ASSUME D2Inv PROVE CachedOrderCurrent
    OBVIOUS
  <2>1. OrderInv /\ MemoCurrent /\ \A k \in 1 .. Capacity + 1 : k \in Nat
    BY CapacityAssumption DEF D2Inv
  <2>2. QED
    BY <2>1, MemoPlans DEF CachedOrderCurrent
<1>2. QED
  BY D2Invariant, <1>1, PTL

(* The end of a move releases the maximal safe suffix: every page of the   *)
(* chain that nobody else holds, was promised or extends, and no other,    *)
(* whatever happened to the chain meanwhile (safe_release_suffix).         *)
THEOREM ReleasesAreMaximal == D2Spec => ReleaseIsMaximal
<1> DEFINE Ends(u) == moving[u] # NotMoving /\ moving'[u] = NotMoving
           Maximal == \A u \in User : Ends(u) =>
                          cache.pages \ cache'.pages = {b \in Chain[held[u]] : FreeOfOthers(u, b)}
<1>1. D2Inv /\ [D2Next]_d2vars => [Maximal]_d2vars
  <2> SUFFICES ASSUME D2Inv, D2Next, NEW u \in User, Ends(u)
               PROVE  cache.pages \ cache'.pages = {b \in Chain[held[u]] : FreeOfOthers(u, b)}
    OBVIOUS
  <2>1. moving \in [User -> [Block -> Nat]] /\ moving'[u] # moving[u]
    BY DEF D2Inv, D2Types
  <2>2. ASSUME NEW v \in User, NEW n \in Block, StartMove(v, n) PROVE FALSE
    <3>1. held[v] = Root /\ moving' = [moving EXCEPT ![v] = SourceGenerations(cache, n)]
      BY <2>2 DEF StartMove, PinPath
    <3>2. moving[v] = NotMoving
      BY <3>1, BlockAssumption DEF D2Inv, MovesNoted
    <3>3. QED
      BY <2>1, <3>1, <3>2
  <2>3. ASSUME NEW v \in User, CompleteMove(v) PROVE v = u
    BY <2>1, <2>3 DEF CompleteMove
  <2>4. CompleteMove(u)
    <3>1. UNCHANGED moving => FALSE
      BY <2>1
    <3>2. QED
      BY <2>2, <2>3, <3>1 DEF D2Next, Inherited, PreflightFromMemo, ProtectCommitted, UnprotectCommitted
  <2>5. cache'.pages = cache.pages \ Gone(u)
    BY <2>4, ReleasedFacts
  <2>6. Gone(u) \subseteq cache.pages
    BY <2>4, GoneFacts, UnpinnedFacts
  <2>7. QED
    BY <2>4, <2>5, <2>6, SuffixIsFree
<1>2. QED
  BY D2Invariant, <1>1, PTL DEF D2Spec, ReleaseIsMaximal
=============================================================================
