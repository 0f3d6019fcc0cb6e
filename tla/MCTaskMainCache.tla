-------------------------- MODULE MCTaskMainCache ---------------------------
(* One cache over the pages of SmallTrie. *)
EXTENDS IndexedCache, SmallTrie

(* The counters only matter relative to each other: the access orders as   *)
(* an order of the published pages, the version as the freshness of the    *)
(* plans that are out.  States that agree on this view have the same       *)
(* futures, up to the values of the counters.  Of what a summary is made   *)
(* of the view has only whether it is right: TaskMainCacheProofs shows     *)
(* that every step from every state keeps it so.                           *)
PlanView(plan, kind) ==
    IF IsFresh(cache, plan, kind) THEN plan.path ELSE plan.kind

MCView ==
    <<cache.pages, cache.pins, cache.temporary, wire, held,
      {p \in cache.pages \X cache.pages : cache.stamp[p[1]] < cache.stamp[p[2]]},
      [t \in Transfer |-> PlanView(offer[t], "TEMPORARY")],
      [u \in User |-> PlanView(draft[u], "PROMPT")],
      SummaryExact>>
=============================================================================
