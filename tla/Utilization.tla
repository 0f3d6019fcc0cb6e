---------------------------- MODULE Utilization -----------------------------
(***************************************************************************)
(* task_main/stage2/utilization.py: what became of every proactive copy,   *)
(* read from an index of the hits by pod, page and residency generation    *)
(* instead of a walk over all the hits of the pod, and also over the whole *)
(* life of the copy.  The counts of single pages and the sums over rows    *)
(* are left out.                                                           *)
(***************************************************************************)
EXTENDS FinalMetrics

(* uses[target, page, generation] *)
UsesOf(p, b, generation) ==
    {u \in result.reuses :
        u.target = p /\ b \in Chain[u.path] /\ u.generations[b] = generation}

\* Mutant: a hit at the very time of delivery counts.
ChainUsesAtReady(i) ==
    LET copy == CopyOf(i)
    IN  {u \in UsesOf(copy.target, copy.chain, copy.generations[copy.chain]) :
            /\ copy.time <= u.time /\ u.time <= Visibility
            /\ copy.chain \in Chain[u.path]
            /\ \A b \in Chain[copy.chain] : u.generations[b] = copy.generations[b]}

(* The hits of the last page of the copy after it was ready that go        *)
(* through the whole chain as it was delivered.                            *)
ChainUses(i) ==
    LET copy == CopyOf(i)
    IN  {u \in UsesOf(copy.target, copy.chain, copy.generations[copy.chain]) :
            /\ copy.time < u.time /\ u.time <= Visibility
            /\ copy.chain \in Chain[u.path]
            /\ \A b \in Chain[copy.chain] : u.generations[b] = copy.generations[b]}

(* lifetime_first; the code stops at it, in the window or not. *)
FirstUse(i) ==
    CHOOSE u \in ChainUses(i) :
        \A x \in ChainUses(i) : u.time < x.time \/ (u.time = x.time /\ u.request <= x.request)

UsedInWindow(i) == ChainUses(i) # {} /\ FirstUse(i).time <= Deadline(i)

IndexedStatus(i) ==
    IF Censored(i) THEN "CENSORED" ELSE IF UsedInWindow(i) THEN "USED" ELSE "UNUSED"

(* The copy's pages in the final state, with the generations it had. *)
StillResident(i) ==
    LET copy == CopyOf(i)
        last == caches[copy.target]
    IN  \A b \in Chain[copy.chain] : b \in last.pages /\ last.generation[b] = copy.generations[b]

Lifecycle(i) ==
    IF ChainUses(i) # {} THEN "USED"
    ELSE IF StillResident(i) THEN "UNRESOLVED_STILL_RESIDENT"
    ELSE "ENDED_WITHOUT_FULL_CHAIN_USE"

-----------------------------------------------------------------------------
(* Properties *)

(* The verdict on a copy is what really became of it: censored if its      *)
(* window is not all visible, used if in the window (ready, ready + W] a   *)
(* request hit, at the target, the whole chain while every page of it had  *)
(* been there ever since the delivery, else unused; and over its life,     *)
(* used, or still there to the last page, or gone.  The scan of            *)
(* final_metrics.py and the index of Stage 2 agree on it.  Both have only  *)
(* residency generations to tell that no page left the target and came     *)
(* back (final_metrics.py:123, utilization.py:45).                         *)
WasteExact ==
    Finished =>
        \A i \in DOMAIN result.actions :
            LET id    == result.actions[i].transfer
                start == transfers[id].ready
                hits  == {u.time : u \in {t \in touched : t.copy = id /\ start < t.time}}
            IN  /\ IndexedStatus(i) = IF start + FutureWindow > Visibility THEN "CENSORED"
                                      ELSE IF \E t \in hits : t <= start + FutureWindow THEN "USED"
                                      ELSE "UNUSED"
                /\ Lifecycle(i) = IF hits # {} THEN "USED"
                                  ELSE IF id \in intact THEN "UNRESOLVED_STILL_RESIDENT"
                                  ELSE "ENDED_WITHOUT_FULL_CHAIN_USE"
                /\ i \in EvalActions => CopyStatus(i) = IndexedStatus(i)
=============================================================================
