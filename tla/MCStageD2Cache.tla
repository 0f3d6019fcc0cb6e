--------------------------- MODULE MCStageD2Cache ---------------------------
(* One cache over the pages of SmallTrie. *)
EXTENDS StageD2Cache, SmallTrie

(* The counters as in MCTaskMainCache, the cached order as long as it is   *)
(* used, and the noted generations as the pages they still match.          *)
MCView ==
    <<cache.pages, cache.pins, cache.temporary, wire, held, committed, promised,
      {p \in cache.pages \X cache.pages : cache.stamp[p[1]] < cache.stamp[p[2]]},
      [t \in Transfer |-> IF IsFresh(cache, offer[t], "TEMPORARY") THEN offer[t].path ELSE offer[t].kind],
      [u \in User |-> IF IsFresh(cache, draft[u], "PROMPT") THEN draft[u].path ELSE draft[u].kind],
      IF orderMemo.version = cache.version THEN orderMemo.order ELSE <<Root>>,
      [u \in User |-> {x \in Chain[held[u]] : moving[u][x] = cache.generation[x]}]>>

MCSymmetry == Permutations(User)
=============================================================================
