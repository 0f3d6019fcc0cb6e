----------------------------- MODULE Proactive ------------------------------
(***************************************************************************)
(* The decision an opportunity makes: which chain to copy, from where and  *)
(* to where (task_main/candidates.py, policies.py with the PERSISTENCE     *)
(* policy, proactive.py).  Everything here only reads.                     *)
(*                                                                         *)
(* seen is CandidateUniverse.seen, the full-page chains of every request   *)
(* that arrived; demand[b] are the arrival times ExternalDemandHistory has *)
(* registered for the chain that ends in b; transfers is the ledger.       *)
(***************************************************************************)
EXTENDS Routing

CONSTANTS
    HistoryWindow,  \* history_window_ms, in ticks
    ShortlistK,     \* shortlist_k
    Rank            \* Rank[b] places the chain that ends in b in chain_id order

ASSUME HistoryAssumption == HistoryWindow \in Nat \ {0} /\ ShortlistK \in Nat
ASSUME RankAssumption ==
    /\ Rank \in [Block -> Nat]
    /\ \A x, y \in Block : Rank[x] = Rank[y] => x = y

(* ExternalDemandHistory.count *)
DemandCount(demand, b, now) ==
    Cardinality({i \in DOMAIN demand[b] : /\ demand[b][i] <= now
                                          /\ now < demand[b][i] + HistoryWindow})

Holders(caches, b) == {p \in Pod : Published(caches[p], b)}

(* inflight_cover_index: an equal or deeper proactive chain is on its way. *)
Covered(transfers, p, b) ==
    \E i \in DOMAIN transfers :
        /\ transfers[i].type = "PROACTIVE"
        /\ transfers[i].status = "IN_FLIGHT"
        /\ transfers[i].target = p
        /\ b \in Chain[transfers[i].chain]

EligibleTargets(caches, transfers, b) ==
    {p \in Pod \ Holders(caches, b) : ~Covered(transfers, p, b)}

(* materialize: the chains of the universe that have a source and a        *)
(* target, each with both.                                                 *)
Candidates(caches, transfers, seen) ==
    [b \in {x \in seen : /\ Holders(caches, x) # {}
                         /\ EligibleTargets(caches, transfers, x) # {}} |->
        [source |-> Min(Holders(caches, b)), targets |-> EligibleTargets(caches, transfers, b)]]

DemandCounts(demand, now) == [b \in Block |-> DemandCount(demand, b, now)]

(* The order of the shortlist: count, then depth, then chain id. *)
RanksBefore(counts, x, y) ==
    \/ counts[x] > counts[y]
    \/ counts[x] = counts[y] /\ Depth(x) > Depth(y)
    \/ counts[x] = counts[y] /\ Depth(x) = Depth(y) /\ Rank[x] < Rank[y]

Shortlist(candidates, counts) ==
    LET positive == {b \in DOMAIN candidates : counts[b] > 0}
    IN  {b \in positive : Cardinality({x \in positive : RanksBefore(counts, x, b)}) < ShortlistK}

(* _resolve_target: the eligible targets whose preflight answers a plan. *)
ProactiveTargets(caches, candidates, b) ==
    {p \in candidates[b].targets : CanCopy(caches, candidates[b].source, p, b)}

(* The rows that are not skipped with SKIP_NO_CAPACITY; execute starts the *)
(* first of them.                                                          *)
Startable(caches, candidates, counts) ==
    {b \in Shortlist(candidates, counts) : ProactiveTargets(caches, candidates, b) # {}}

FirstOf(rows, counts) ==
    CHOOSE b \in rows : \A x \in rows \ {b} : RanksBefore(counts, b, x)
=============================================================================
