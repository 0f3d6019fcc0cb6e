------------------------------ MODULE MoveOps -------------------------------
(***************************************************************************)
(* What StageD2Cache of task_main/stage_d2/cache.py adds to the cache: the *)
(* eviction order computed once per version, and the release of the source *)
(* of a move.                                                              *)
(*                                                                         *)
(* committed[b] is _committed_protections; generations is the vector noted *)
(* at the start of a move, of which only the pages of its chain are read;  *)
(* memo is the cached order with the version it was built for.             *)
(***************************************************************************)
EXTENDS CacheOps, Integers

NoMemo == [version |-> -1, order |-> << >>]

(* _build_temporary_eviction_order: the heap of _plan, popped until it is  *)
(* empty.                                                                  *)
TemporaryEvictionOrder(c) ==
    CHOOSE s \in UNION {[1 .. k -> c.pages] : k \in 0 .. Cardinality(c.pages)} :
        IsEvictionOrder(c, s, {}) /\ HeapPages(c, Popped(s), {}) = {}

CurrentMemo(memo, c) ==
    IF memo.version = c.version
      THEN memo
      ELSE [version |-> c.version, order |-> TemporaryEvictionOrder(c)]

CanPlanFromMemo(memo, c, wire) == Needed(c, wire) <= Len(CurrentMemo(memo, c).order)

PlanFromMemo(memo, c, wire) ==
    [version    |-> c.version,
     kind       |-> "TEMPORARY",
     path       |-> Root,
     additional |-> wire,
     evictions  |-> SubSeq(CurrentMemo(memo, c).order, 1, Needed(c, wire))]

SourceGenerations(c, n) == [b \in Block |-> IF b \in Chain[n] THEN c.generation[b] ELSE 0]

-----------------------------------------------------------------------------
(* The walk of _assess_suffix from the end of chain n towards its root     *)

\* Mutant: only a leaf may go.
MayGoLeaf(c, committed, n, generations, b) ==
    /\ b \in c.pages
    /\ c.generation[b] = generations[b]
    /\ committed[b] = 0
    /\ c.pins[b] = 0
    /\ Children(c.pages, b) = {}

(* The walk goes on over page b: resident still, not protected, not        *)
(* pinned, and without a child but the pages released before it.           *)
MayGo(c, committed, n, generations, b) ==
    /\ b \in c.pages
    /\ c.generation[b] = generations[b]
    /\ committed[b] = 0
    /\ c.pins[b] = 0
    /\ Children(c.pages, b) \subseteq Chain[n]

\* Mutant: what hangs below a released page is released with it.
SafeSuffixSubtree(c, committed, n, generations) ==
    {x \in c.pages : \E b \in Chain[n] \cap Chain[x] :
                         c.pins[b] = 0 /\ c.generation[b] = generations[b]}

(* The walk stops at the first page that must stay. *)
SafeSuffix(c, committed, n, generations) ==
    {b \in Chain[n] : \A x \in Chain[n] :
                          b \in Chain[x] => MayGo(c, committed, n, generations, x)}

Release(c, gone) == IF gone = {} THEN c ELSE NextVersion(Evict(c, gone))

SafeReleaseSuffix(c, committed, n, generations) ==
    Release(c, SafeSuffix(c, committed, n, generations))
=============================================================================
