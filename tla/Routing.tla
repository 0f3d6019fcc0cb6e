------------------------------ MODULE Routing -------------------------------
(***************************************************************************)
(* Where a request goes: the read-only half of _arrive in                  *)
(* task_main/engine.py, with task_main/routing.py and the preflight of     *)
(* task_main/transfer.py.  caches is the list of pod caches, loads the     *)
(* load vector of the arrival, n the path of the request.                  *)
(***************************************************************************)
EXTENDS CacheOps, CommittedTokenLoad

CONSTANT Theta  \* the reactive gate compares the source with Theta times the target

ASSUME ThetaAssumption == Theta \in Nat \ {0}

(* The pod of S that is least by (load, pod id). *)
LeastLoaded(S, loads) ==
    CHOOSE p \in S : \A q \in S :
        loads[p] < loads[q] \/ (loads[p] = loads[q] /\ p <= q)

HitDepth(caches, p, n) == Cardinality(HitPages(caches[p], n))

(* affinity_route: the longest local prefix, then the least load. *)
AffinityPod(caches, loads, n) ==
    LeastLoaded({p \in Pod : \A q \in Pod : HitDepth(caches, q, n) <= HitDepth(caches, p, n)},
                loads)

Others(source) == Pod \ {source}

(* least_other_pod and reactive_gate. *)
Overloaded(source, loads) ==
    /\ Others(source) # {}
    /\ loads[source] > Theta * loads[LeastLoaded(Others(source), loads)]

(* What a transfer could carry of the hit at the source. *)
Transferable(caches, source, n) == FullPagePrefix(Lookup(caches[source], n))

(* preflight_chain: the target could buffer the whole of path n, and the   *)
(* source has it.                                                          *)
CanCopy(caches, source, target, n) ==
    /\ n # Root
    /\ source # target
    /\ Published(caches[source], n)
    /\ CanPlanTemporary(caches[target], Depth(n))

\* Mutant: any part of the prefix makes a target direct.
DirectTargetsPartial(caches, source, n) == {p \in Others(source) : HitPages(caches[p], n) # {}}

(* Targets that need no transfer, and targets that can take one. *)
DirectTargets(caches, source, n) == {p \in Others(source) : Published(caches[p], n)}

CopyTargets(caches, source, n) ==
    {p \in Others(source) \ DirectTargets(caches, source, n) : CanCopy(caches, source, p, n)}

(* The target _reactive_assignment picks once the gate is passed. *)
FeasibleTargets(caches, source, n) ==
    DirectTargets(caches, source, n) \cup CopyTargets(caches, source, n)

ReactiveTarget(caches, loads, source, n) ==
    LeastLoaded(FeasibleTargets(caches, source, n), loads)
=============================================================================
