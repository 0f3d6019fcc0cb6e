--------------------------- MODULE TaskMainCache ----------------------------
(***************************************************************************)
(* One pod's cache under every legal sequence of calls.                    *)
(*                                                                         *)
(* A call that admits pages is two calls: a read-only preflight            *)
(* (plan_temporary, plan_prompt) that answers a plan stamped with the      *)
(* cache's version, and a commit (reserve_temporary, publish_prompt) that  *)
(* refuses a plan whose stamp is stale.  Several plans may be out at once: *)
(* a router preflights every target before it commits one.                 *)
(*                                                                         *)
(* A user is a caller that pins a path: a request being finished, the      *)
(* source end of a transfer, a request that waits for a transfer.          *)
(***************************************************************************)
EXTENDS CacheOps

CONSTANTS
    User,       \* callers that pin a path, one path at a time
    MaxVersion  \* bound: cache states after this many mutations end the run

ASSUME UserAssumption == IsFiniteSet(User)
ASSUME MaxVersionAssumption == MaxVersion \in Nat

VARIABLES
    cache,  \* the TaskMainCache object
    wire,   \* wire[t] is the path transfer t carries, Root for none
    offer,  \* offer[t] is the plan preflighted for transfer t, or NoPlan
    draft,  \* draft[u] is the prompt plan user u has out, or NoPlan
    held    \* held[u] is the path user u has pinned, Root for none

vars == <<cache, wire, offer, draft, held>>

NoPlan ==
    [version |-> 0, kind |-> "NONE", path |-> Root, additional |-> 0, evictions |-> << >>]

InFlight(t) == cache.temporary[t] > 0

Init ==
    /\ cache = EmptyCache
    /\ wire = [t \in Transfer |-> Root]
    /\ offer = [t \in Transfer |-> NoPlan]
    /\ draft = [u \in User |-> NoPlan]
    /\ held = [u \in User |-> Root]

-----------------------------------------------------------------------------
(* Preflight: reads only *)

PreflightTransfer(t, n) ==
    /\ ~InFlight(t)
    /\ offer[t] = NoPlan
    /\ Chain[n] \subseteq FullPage
    /\ CanPlanTemporary(cache, Depth(n))
    /\ offer' = [offer EXCEPT ![t] = PlanTemporary(cache, Depth(n))]
    /\ wire' = [wire EXCEPT ![t] = n]
    /\ UNCHANGED <<cache, draft, held>>

PreflightPrompt(u, n) ==
    /\ draft[u] = NoPlan
    /\ CanPlanPrompt(cache, n)
    /\ draft' = [draft EXCEPT ![u] = PlanPrompt(cache, n)]
    /\ UNCHANGED <<cache, wire, offer, held>>

(* A plan that loses the choice, or that its commit refuses as stale.      *)
DiscardOffer(t) ==
    /\ offer[t] # NoPlan
    /\ offer' = [offer EXCEPT ![t] = NoPlan]
    /\ wire' = [wire EXCEPT ![t] = Root]
    /\ UNCHANGED <<cache, draft, held>>

DiscardDraft(u) ==
    /\ draft[u] # NoPlan
    /\ draft' = [draft EXCEPT ![u] = NoPlan]
    /\ UNCHANGED <<cache, wire, offer, held>>

-----------------------------------------------------------------------------
(* Commit *)

Reserve(t) ==
    /\ cache.version < MaxVersion
    /\ ~InFlight(t)
    /\ IsFresh(cache, offer[t], "TEMPORARY")
    /\ cache' = ReserveTemporary(cache, t, offer[t])
    /\ offer' = [offer EXCEPT ![t] = NoPlan]
    /\ UNCHANGED <<wire, draft, held>>

Publish(u) ==
    /\ cache.version < MaxVersion
    /\ IsFresh(cache, draft[u], "PROMPT")
    /\ cache' = PublishPrompt(cache, draft[u])
    /\ draft' = [draft EXCEPT ![u] = NoPlan]
    /\ UNCHANGED <<wire, offer, held>>

Complete(t) ==
    /\ cache.version < MaxVersion
    /\ InFlight(t)
    /\ cache.temporary[t] = Depth(wire[t])
    /\ cache' = CompleteTransfer(cache, t, wire[t])
    /\ wire' = [wire EXCEPT ![t] = Root]
    /\ UNCHANGED <<offer, draft, held>>

PinPath(u, n) ==
    /\ cache.version < MaxVersion
    /\ held[u] = Root
    /\ Published(cache, n)
    /\ cache' = Pin(cache, n)
    /\ held' = [held EXCEPT ![u] = n]
    /\ UNCHANGED <<wire, offer, draft>>

\* Mutant: a path can be released twice.
UnpinPathAgain(u) ==
    /\ cache.version < MaxVersion
    /\ Published(cache, held[u])
    /\ cache' = Unpin(cache, held[u])
    /\ UNCHANGED <<wire, offer, draft, held>>

UnpinPath(u) ==
    /\ cache.version < MaxVersion
    /\ Published(cache, held[u])
    /\ \A b \in Chain[held[u]] : cache.pins[b] > 0
    /\ cache' = Unpin(cache, held[u])
    /\ held' = [held EXCEPT ![u] = Root]
    /\ UNCHANGED <<wire, offer, draft>>

Reuse(n) ==
    /\ cache.version < MaxVersion
    /\ Published(cache, n)
    /\ cache' = RecordReuse(cache, n)
    /\ UNCHANGED <<wire, offer, draft, held>>

Next ==
    \/ \E t \in Transfer : \/ \E n \in Block : PreflightTransfer(t, n)
                           \/ DiscardOffer(t)
                           \/ Reserve(t)
                           \/ Complete(t)
    \/ \E u \in User : \/ \E n \in Node : PreflightPrompt(u, n) \/ PinPath(u, n)
                       \/ DiscardDraft(u)
                       \/ Publish(u)
                       \/ UnpinPath(u)
    \/ \E n \in Node : Reuse(n)

Spec == Init /\ [][Next]_vars

-----------------------------------------------------------------------------
(* Properties *)

Plan ==
    [version : Nat, kind : {"NONE", "TEMPORARY", "PROMPT"}, path : Node,
     additional : Nat, evictions : Seq(Block)]

(* Every variable holds a value of its kind; pin counts are naturals, so   *)
(* no unpin drives one below zero (cache.py, assert_invariants).           *)
TypeOK ==
    /\ cache \in Cache
    /\ wire \in [Transfer -> Node]
    /\ offer \in [Transfer -> Plan]
    /\ draft \in [User -> Plan]
    /\ held \in [User -> Node]

(* Published and buffered pages fit the capacity, and no page outlives its *)
(* prefix: assert_invariants of cache.py never raises, whatever plans were *)
(* out when the commits came.                                              *)
CacheSound == WithinCapacity(cache) /\ PrefixClosed(cache)

(* The pin count of a page is the number of users whose path holds it, and *)
(* every pinned path is still published: neither an admission nor a        *)
(* delivery removes a page under a user's feet.                            *)
PinsAreHolds ==
    /\ \A u \in User : Published(cache, held[u])
    /\ \A b \in Block : cache.pins[b] = Cardinality({u \in User : b \in Chain[held[u]]})

(* What a commit relies on: evicting the victims of plan, in any state it  *)
(* is still fresh for, removes published, unpinned pages and strands no    *)
(* child, and leaves room for what the plan adds.                          *)
Executable(c, plan) ==
    LET kept == c.pages \ Victims(plan)
    IN  /\ Victims(plan) \subseteq c.pages
        /\ \A b \in Victims(plan) : c.pins[b] = 0 /\ Children(kept, b) = {}
        /\ Cardinality(kept) + TemporaryPages(c) + plan.additional <= Capacity

(* A plan that passes validate_plan can be carried out to the letter, no   *)
(* matter how many mutations happened between the preflight and the        *)
(* commit: the version stamp catches every change that matters, so _evict  *)
(* never asserts and publish_prompt inserts the pages it planned.          *)
FreshPlansExecutable ==
    /\ \A t \in Transfer :
          IsFresh(cache, offer[t], "TEMPORARY") =>
              Executable(cache, offer[t]) /\ offer[t].additional = Depth(wire[t])
    /\ \A u \in User :
          IsFresh(cache, draft[u], "PROMPT") =>
              /\ Executable(cache, draft[u])
              /\ draft[u].additional =
                     Cardinality(Chain[draft[u].path] \ (cache.pages \ Victims(draft[u])))

(* Bookkeeping between the cache and its callers: no plan is dated in the  *)
(* future, a transfer with a plan out has a path and no buffer yet, and a  *)
(* buffer is as long as the path its transfer carries, so that             *)
(* complete_transfer never finds a buffer of another length.               *)
CallersInStep ==
    /\ \A t \in Transfer :
          /\ offer[t].version <= cache.version
          /\ offer[t] # NoPlan => ~InFlight(t) /\ wire[t] \in Block
          /\ InFlight(t) => cache.temporary[t] = Depth(wire[t])
    /\ \A u \in User : draft[u].version <= cache.version

(* The inductive invariant the proofs carry. *)
CacheInv ==
    TypeOK /\ CacheSound /\ PinsAreHolds /\ FreshPlansExecutable /\ CallersInStep

(* The pages an admission could free at all: those below which nothing is  *)
(* pinned or protected.                                                    *)
Reclaimable(c, protected) ==
    {b \in c.pages : \A x \in c.pages : b \in Chain[x] => c.pins[x] = 0 /\ x \notin protected}

(* An admission is refused only when it is impossible: the leaf-by-leaf    *)
(* greedy choice of _plan finds a plan whenever enough pages could be      *)
(* freed, so CACHE_ADMISSION_SKIP and SKIP_NO_CAPACITY are never spurious. *)
RefusalsAreForced ==
    /\ \A k \in 1 .. Capacity + 1 :
          CanPlanTemporary(cache, k) <=> Needed(cache, k) <= Cardinality(Reclaimable(cache, {}))
    /\ \A n \in Node :
          CanPlanPrompt(cache, n) <=>
              Needed(cache, MissingPages(cache, n))
                  <= Cardinality(Reclaimable(cache, HitPages(cache, n)))

(* A leaf that could have gone but stayed was used after every page that   *)
(* went, unless the admission was extending it: eviction is least recently *)
(* used first.                                                             *)
OldestLeafFirst ==
    [][\A gone \in cache.pages \ cache'.pages, left \in cache.pages \cap cache'.pages :
          (/\ cache.pins[left] = 0
           /\ Children(cache.pages, left) = {}
           /\ Children(cache'.pages, left) = {})
              => \/ cache.stamp[gone] < cache.stamp[left]
                 \/ \E u \in User : left \in Chain[draft[u].path]]_vars

(* The cache does what PageStore promises. *)
Store == INSTANCE PageStore WITH published <- cache.pages, promised <- cache.temporary
StoreRefined == Store!StoreSpec
=============================================================================
