--------------------------- MODULE MCPrefixCache ----------------------------
(***************************************************************************)
(* One cache of the earlier simulator that is filled directly, as preloads *)
(* and tests do, over the pages of SmallTrie.  Under the calls of the      *)
(* event loop it is part of Simulator.                                     *)
(***************************************************************************)
EXTENDS PrefixOps, SmallTrie

VARIABLE cache \* the PrefixCache object

Init == cache = EmptyPrefixCache

Preload(n) == CanPublish(cache, n) /\ cache' = Publish(cache, n)

Next == \E n \in Block : Preload(n)

Spec == Init /\ [][Next]_cache

-----------------------------------------------------------------------------
(* publish is a "capacity-safe, idempotent direct publish helper": a path  *)
(* no longer than the capacity can be published, as nothing is pinned or   *)
(* reserved here.                                                          *)
PublishIsSafe == \A n \in Block : Depth(n) <= Capacity => CanPublish(cache, n)

-----------------------------------------------------------------------------
(* Counters matter relative to each other only, and an entry that has gone *)
(* stale is never current again.                                           *)
MCView ==
    <<cache.pages, cache.pins, cache.private, cache.temporary,
      <<cache.resident, cache.pinned, cache.privatePages, cache.temporaryPages>>,
      {p \in cache.pages \X cache.pages : cache.stamp[p[1]] < cache.stamp[p[2]]},
      {e.page : e \in {x \in cache.heap : IsCurrent(cache, x)}}>>
=============================================================================
