---------------------------- MODULE StageD2Cache ----------------------------
(***************************************************************************)
(* The cache of task_main/stage_d2/cache.py under every legal sequence of  *)
(* calls: those of TaskMainCache, with transfers planned from the cached   *)
(* eviction order, and the source side of moves.  A user that moves a path *)
(* pins it like any other, and at the end releases what nobody else needs. *)
(***************************************************************************)
EXTENDS TaskMainCache, MoveOps

CONSTANT MaxPlans  \* bound: plans out at one time

ASSUME MaxPlansAssumption == MaxPlans \in Nat \ {0}

VARIABLES
    orderMemo,  \* _temporary_plan_version and _temporary_eviction_order
    committed,  \* _committed_protections
    promised,   \* promised[u] is the path u has protected, Root for none
    moving      \* moving[u] are the generations u noted, NotMoving for none

d2vars == <<vars, orderMemo, committed, promised, moving>>

NotMoving == [b \in Block |-> 0]

D2Init ==
    /\ Init
    /\ orderMemo = NoMemo
    /\ committed = [b \in Block |-> 0]
    /\ promised = [u \in User |-> Root]
    /\ moving = [u \in User |-> NotMoving]

PlansOut ==
    Cardinality({t \in Transfer : offer[t] # NoPlan}) + Cardinality({u \in User : draft[u] # NoPlan})

(* plan_temporary: the order is brought up to date even if the answer is   *)
(* None.                                                                   *)
PreflightFromMemo(t, n) ==
    /\ ~InFlight(t)
    /\ offer[t] = NoPlan /\ PlansOut < MaxPlans
    /\ Chain[n] \subseteq FullPage
    /\ orderMemo' = CurrentMemo(orderMemo, cache)
    /\ IF CanPlanFromMemo(orderMemo, cache, Depth(n))
         THEN /\ offer' = [offer EXCEPT ![t] = PlanFromMemo(orderMemo, cache, Depth(n))]
              /\ wire' = [wire EXCEPT ![t] = n]
         ELSE UNCHANGED <<offer, wire>>
    /\ UNCHANGED <<cache, draft, held, committed, promised, moving>>

(* protect_committed: the path need not be published yet. *)
ProtectCommitted(u, n) ==
    /\ cache.version < MaxVersion
    /\ promised[u] = Root /\ n # Root
    /\ committed' = [b \in Block |-> IF b \in Chain[n] THEN committed[b] + 1 ELSE committed[b]]
    /\ promised' = [promised EXCEPT ![u] = n]
    /\ cache' = NextVersion(cache)
    /\ UNCHANGED <<wire, offer, draft, held, orderMemo, moving>>

UnprotectCommitted(u) ==
    /\ cache.version < MaxVersion
    /\ promised[u] # Root
    /\ committed' =
           [b \in Block |-> IF b \in Chain[promised[u]] THEN committed[b] - 1 ELSE committed[b]]
    /\ promised' = [promised EXCEPT ![u] = Root]
    /\ cache' = NextVersion(cache)
    /\ UNCHANGED <<wire, offer, draft, held, orderMemo, moving>>

(* The source side of StageD2Transfers.start. *)
StartMove(u, n) ==
    /\ PinPath(u, n)
    /\ n # Root /\ Chain[n] \subseteq FullPage
    /\ moving' = [moving EXCEPT ![u] = SourceGenerations(cache, n)]
    /\ UNCHANGED <<orderMemo, committed, promised>>

(* The source side of complete: the pin goes first, then the suffix that   *)
(* is safe to release.                                                     *)
CompleteMove(u) ==
    /\ cache.version < MaxVersion
    /\ moving[u] # NotMoving
    /\ Published(cache, held[u])
    /\ \A b \in Chain[held[u]] : cache.pins[b] > 0
    /\ cache' = SafeReleaseSuffix(Unpin(cache, held[u]), committed, held[u], moving[u])
    /\ held' = [held EXCEPT ![u] = Root]
    /\ moving' = [moving EXCEPT ![u] = NotMoving]
    /\ UNCHANGED <<wire, offer, draft, orderMemo, committed, promised>>

Inherited ==
    /\ \/ \E t \in Transfer : DiscardOffer(t) \/ Reserve(t) \/ Complete(t)
       \/ \E u \in User : \/ \E n \in Node : \/ PlansOut < MaxPlans /\ PreflightPrompt(u, n)
                                             \/ PinPath(u, n)
                          \/ DiscardDraft(u)
                          \/ Publish(u)
                          \/ moving[u] = NotMoving /\ UnpinPath(u)
       \/ \E n \in Node : Reuse(n)
    /\ UNCHANGED <<orderMemo, committed, promised, moving>>

D2Next ==
    \/ Inherited
    \/ \E t \in Transfer, n \in Block : PreflightFromMemo(t, n)
    \/ \E u \in User : \/ \E n \in Block : ProtectCommitted(u, n) \/ StartMove(u, n)
                       \/ UnprotectCommitted(u)
                       \/ CompleteMove(u)

D2Spec == D2Init /\ [][D2Next]_d2vars

-----------------------------------------------------------------------------
(* Properties *)

(* Every preflight against one version consumes a prefix of one sequence:  *)
(* as long as the cached order passes its version test, it is the order    *)
(* the planner of the base class would compute now                         *)
(* (_build_temporary_eviction_order).                                      *)
CachedOrderCurrent ==
    orderMemo.version = cache.version =>
        \A k \in 1 .. Capacity + 1 :
            /\ CanPlanFromMemo(orderMemo, cache, k) <=> CanPlanTemporary(cache, k)
            /\ CanPlanTemporary(cache, k) =>
                   PlanFromMemo(orderMemo, cache, k) = PlanTemporary(cache, k)

(* What a move may take away: the pages of its chain below which there is  *)
(* nothing but the chain, and nothing that someone else holds or has been  *)
(* promised.                                                               *)
FreeOfOthers(u, b) ==
    \A x \in cache.pages : b \in Chain[x] =>
        /\ x \in Chain[held[u]]
        /\ \A v \in User : x \notin Chain[promised[v]] /\ (v # u => x \notin Chain[held[v]])

(* A move releases the maximal safe suffix of its chain: every page that   *)
(* nobody else needs, and no other.                                        *)
ReleaseIsMaximal ==
    [][\A u \in User : (moving[u] # NotMoving /\ moving'[u] = NotMoving) =>
          cache.pages \ cache'.pages = {b \in Chain[held[u]] : FreeOfOthers(u, b)}]_d2vars
=============================================================================
