---------------------------- MODULE Stage2Engine ----------------------------
(***************************************************************************)
(* The engine of the active capacity study, task_main/stage2/engine.py     *)
(* under a constant schedule: affinity routing and a proactive policy that *)
(* decides from the ResidenceIndex.  Caches and transfers are those of the *)
(* frozen engine with a hook at each change of what is resident or on the  *)
(* wire; the hooks are called here with the pages the handler inserts and  *)
(* evicts, one after the other as it does.                                 *)
(*                                                                         *)
(* Every request is finished on arrival, with the hit it was routed for,   *)
(* so the corrections of CapacityStudyEngine never come into play.         *)
(***************************************************************************)
EXTENDS CapacityStudyEngine, ResidenceIndex

VARIABLES
    index,   \* the IndexedUniverse, but for seen
    active   \* what IndexedDemand adds to the demand

stage2vars == <<vars, index, active>>

(* Stage2Config.validate asks for a proactive policy under this schedule. *)
Stage2Init ==
    /\ PureQueries /\ ProactivePolicy = "PERSISTENCE"
    /\ Init /\ index = EmptyIndex /\ active = NoneActive

-----------------------------------------------------------------------------

(* The hooks called while _finish publishes its prompt on pod p: first     *)
(* those of the evictions, then those of the pages that are missing then.  *)
IndexFinish(ix, p, n, hit, chains) ==
    LET reused  == RecordReuse(Pin(caches[p], hit), hit)
        gone    == Victims(PlanPrompt(reused, n))
        evicted == Resident(ix, p, gone, FALSE, chains)
    IN  IF CanPlanPrompt(reused, n)
          THEN Resident(evicted, p, Chain[n] \ (reused.pages \ gone), TRUE, chains)
          ELSE ix

(* The hooks of a transfer that starts on pods: the evictions that make    *)
(* room for it, then the cover of its chain.                               *)
IndexStart(ix, pods, t, chains) ==
    LET gone == Victims(PlanTemporary(pods[t.target], Depth(t.chain)))
    IN  Inflight(Resident(ix, t.target, gone, FALSE, chains), t, 1, chains)

(* The hooks of a delivery, as the transfer is when it is complete.        *)
IndexDelivery(ix, t) ==
    LET missing == Chain[t.chain] \ caches[t.target].pages
    IN  Inflight(Resident(ix, t.target, missing, TRUE, seen), t, -1, seen)

(* _arrive under R_AFF, _finish and the opportunity. *)
Stage2Arrive(r, n) ==
    LET assigned   == Assignment(r, n, Source(n), Source(n), RouteHit(n), RouteHit(n), 0)
        ld         == CommitLoad(load, r, assigned.pod, MissOf(n, assigned.hit), now)
        pods       == PodsAfter(assigned, FALSE)
        chains     == SeenWith(n)
        published  == IndexFinish(Observe(index, Observed(n), seen), assigned.pod, n, assigned.hit, chains)
        advanced   == Advance(Activate(active, r, Observed(n), now), now)
        candidates == IndexedCandidates(published, Positive(advanced))
    IN  /\ Arrives(r, n)
        /\ Opportunity(r, pods, LoadVector(ld, now), candidates, DemandCounts(DemandWith(n), now))
        /\ index' = IF transfers' = transfers
                      THEN published
                      ELSE IndexStart(published, pods, transfers'[NextTransferId], chains)
        /\ active' = advanced
        /\ load' = Query(ld, now)
        /\ served' = served \cup {assigned}
        /\ seen' = chains
        /\ demand' = DemandWith(n)
        /\ UNCHANGED <<now, stage, pending, batch>>

Stage2Deliver ==
    /\ Deliver
    /\ LET id == CHOOSE i \in InFlightTransfers : transfers'[i].status = "COMPLETED"
       IN  index' = IndexDelivery(index, transfers[id])
    /\ UNCHANGED active

Stage2Next ==
    \/ (Tick \/ Protect \/ BatchDone \/ ArrivalsDone \/ Stop) /\ UNCHANGED <<index, active>>
    \/ Stage2Deliver
    \/ \E r \in Request, n \in Block : Stage2Arrive(r, n)

Stage2Spec == Stage2Init /\ [][Stage2Next]_stage2vars

-----------------------------------------------------------------------------
(* Properties *)

(* Between handlers the index knows what the scan of the frozen engine     *)
(* would find: the same chains, sources and targets, and for every chain   *)
(* that is no candidate the reason the scan would count.                   *)
IndexAgrees ==
    LET scan == Candidates(caches, transfers, seen)
    IN  /\ IndexedCandidates(index, Block) = scan
        /\ \A b \in seen \ DOMAIN scan :
              index.category[b] =
                  IF Holders(caches, b) = {} THEN "NO_SOURCE"
                  ELSE IF Holders(caches, b) = Pod THEN "NO_TARGET" ELSE "INFLIGHT_COVERED"

(* Every copy the index decides is the copy the frozen engine would make   *)
(* of the same state: equal chain, source and target, or none at all.      *)
(* The decision is replayed on the pods as the request left them.          *)
DecidesAsScan ==
    [][\A a \in served' \ served :
          LET pods       == PodsAfter(a, FALSE)
              counts     == DemandCounts(demand', now)
              candidates == Candidates(pods, transfers, seen')
              rows       == Startable(pods, candidates, counts)
              chain      == FirstOf(rows, counts)
              started    == transfers'[NextTransferId]
          IN  /\ transfers' = transfers <=> rows = {}
              /\ rows # {} =>
                     /\ started.chain = chain
                     /\ started.source = candidates[chain].source
                     /\ started.target =
                            LeastLoaded(ProactiveTargets(pods, candidates, chain),
                                        LoadVector(load', now))]_stage2vars
=============================================================================
