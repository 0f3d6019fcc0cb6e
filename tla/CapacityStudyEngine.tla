------------------------ MODULE CapacityStudyEngine ------------------------
(***************************************************************************)
(* The engine of the capacity study, task_main/stage0/engine.py.  It is    *)
(* the event loop of TaskMainEngine with two changes: a request that       *)
(* waited for a transfer is finished with the hit it finds then, and its   *)
(* load entry is corrected to it; and a request may be routed by load      *)
(* alone.  The versions built on it begin with PureQueries.                *)
(***************************************************************************)
EXTENDS TaskMainEngine

(* The cache of the pod with the pins of the batch moved from the hit that *)
(* was promised to the one that is there.                                  *)
Repinned(c, promised, actual) ==
    IF promised = actual THEN c ELSE Unpin(Pin(c, actual), promised)

ReconciledLoad(a, actual) ==
    IF a.hit = actual THEN load ELSE ReconcileHit(load, a.request, MissOf(a.path, actual))

FoundHit(a) == Lookup(caches[a.pod], a.path)

(* _finish of a request of the batch.  For a request that is finished on   *)
(* arrival the hit is the one just looked up and _finish changes nothing.  *)
PodsResumed(a) ==
    [caches EXCEPT ![a.pod] =
        FinishOn(Repinned(@, a.hit, FoundHit(a)), a.path, FoundHit(a), TRUE)]

ResumeActual ==
    /\ stage = "resume"
    /\ \E a \in batch :
          /\ \A x \in batch : a.request <= x.request
          /\ LET ld == ReconciledLoad(a, FoundHit(a))
             IN  /\ Opportunity(a.request, PodsResumed(a), LoadVector(ld, now),
                                Candidates(PodsResumed(a), transfers, seen),
                                DemandCounts(demand, now))
                 /\ load' = Query(ld, now)
          /\ served' = served \cup {[a EXCEPT !.hit = FoundHit(a)]}
          /\ batch' = batch \ {a}
    /\ UNCHANGED <<now, stage, due, pending, seen, demand>>

(* _arrive under R_LEAST: the least loaded pod, whatever it holds. *)
ArriveLeast(r, n) ==
    LET pod == LeastLoaded(Pod, Loads)
        hit == Lookup(caches[pod], n)
    IN  /\ Arrives(r, n)
        /\ Finish(Assignment(r, n, pod, pod, hit, hit, 0), FALSE,
                  CommitLoad(load, r, pod, MissOf(n, hit), now), SeenWith(n), DemandWith(n))
        /\ seen' = SeenWith(n)
        /\ demand' = DemandWith(n)
        /\ UNCHANGED <<now, stage, pending, batch>>

-----------------------------------------------------------------------------
(* Properties *)

(* The vector that routing reads is the window over the entries as they    *)
(* stand corrected, and the running sums still are the sums of the queues, *)
(* whether the corrected entry had left its queue or not                   *)
(* (stage0/load.py, reconcile_hit).                                        *)
LedgersAgree ==
    \A p \in Pod :
        /\ ObservedVector(load, now)[p] =
               MissTokens({e \in load.entries : e.pod = p /\ now < e.time + LoadWindow})
        /\ load.totals[p] = MissTokens(Range(load.histories[p]))

(* "stage0_saved_load_consistent": the tokens charged for a request are    *)
(* the ones it had to compute, on the pod that computed them.              *)
SavedLoadConsistent ==
    \A a \in served :
        \E e \in load.entries :
            e.request = a.request /\ e.pod = a.pod /\ e.miss = MissOf(a.path, a.hit)
=============================================================================
