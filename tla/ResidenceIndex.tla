--------------------------- MODULE ResidenceIndex ---------------------------
(***************************************************************************)
(* The index of task_main/stage2/index.py: for every chain that was seen,  *)
(* who holds it and which pods are getting it, kept up to date by hooks in *)
(* the caches and transfers, where the frozen engine scans all of them at  *)
(* every opportunity.                                                      *)
(*                                                                         *)
(*   holders    holders, by last block of the chain                        *)
(*   covered    covered, by chain and pod                                  *)
(*   category   categories; UNSEEN for a chain that has none.  structural  *)
(*              is the set of ELIGIBLE chains, reasons counts the others.  *)
(*                                                                         *)
(* active is the part IndexedDemand adds: the expirations still to come    *)
(* and the counts of the chains that have any.                             *)
(***************************************************************************)
EXTENDS Proactive

EmptyIndex ==
    [holders  |-> [b \in Block |-> {}],
     covered  |-> [b \in Block |-> [p \in Pod |-> 0]],
     category |-> [b \in Block |-> "UNSEEN"]]

Classify(index, b) ==
    IF index.holders[b] = {} THEN "NO_SOURCE"
    ELSE IF index.holders[b] = Pod THEN "NO_TARGET"
    ELSE IF \A p \in Pod : p \in index.holders[b] \/ index.covered[b][p] > 0
           THEN "INFLIGHT_COVERED"
    ELSE "ELIGIBLE"

(* _refresh, for each of the chains that end in chains. *)
Refresh(index, chains, seen) ==
    [index EXCEPT
        !.category = [b \in Block |-> IF b \in chains \cap seen THEN Classify(index, b) ELSE @[b]]]

(* observe of the universe: the prefixes of n that are new. *)
Observe(index, n, seen) == Refresh(index, Chain[n] \ seen, seen \cup Chain[n])

\* Mutant: the hook in _evict is missing.
ResidentInsertOnly(index, p, blocks, present, seen) ==
    LET known == blocks \cap FullPage
    IN  Refresh([index EXCEPT
                    !.holders = [b \in Block |-> IF b \in known /\ present THEN @[b] \cup {p}
                                                                           ELSE @[b]]],
                known, seen)

(* resident, the hook of _insert and _evict; a page that ends no chain of  *)
(* full pages is ignored.                                                  *)
Resident(index, p, blocks, present, seen) ==
    LET known == blocks \cap FullPage
        after(holding) == IF present THEN holding \cup {p} ELSE holding \ {p}
    IN  Refresh([index EXCEPT
                    !.holders = [b \in Block |-> IF b \in known THEN after(@[b]) ELSE @[b]]],
                known, seen)

\* Mutant: only the chain that is sent is covered, not its prefixes.
InflightEndpoint(index, t, change, seen) ==
    IF t.type # "PROACTIVE"
      THEN index
      ELSE Refresh([index EXCEPT !.covered[t.chain][t.target] = @ + change], {t.chain}, seen)

(* inflight, the hook of start and complete. *)
Inflight(index, t, change, seen) ==
    IF t.type # "PROACTIVE"
      THEN index
      ELSE Refresh([index EXCEPT
                       !.covered = [b \in Block |-> [p \in Pod |->
                            IF b \in Chain[t.chain] /\ p = t.target THEN @[b][p] + change
                                                                   ELSE @[b][p]]]],
                   Chain[t.chain], seen)

(* The chains that CandidateView yields, each with its source and targets. *)
IndexedCandidates(index, positive) ==
    [b \in {x \in positive : index.category[x] = "ELIGIBLE"} |->
        [source  |-> Min(index.holders[b]),
         targets |-> {p \in Pod \ index.holders[b] : index.covered[b][p] = 0}]]

-----------------------------------------------------------------------------
(* Demand *)

NoneActive == [expirations |-> {}, counts |-> [b \in Block |-> 0]]

(* observe of IndexedDemand *)
Activate(active, request, n, now) ==
    [expirations |-> active.expirations \cup
                         {[time |-> now + HistoryWindow, request |-> request, chain |-> n]},
     counts      |-> [b \in Block |-> IF b \in Chain[n] THEN active.counts[b] + 1
                                                        ELSE active.counts[b]]]

Due(active, now) == {e \in active.expirations : e.time <= now}

(* advance *)
Advance(active, now) ==
    [expirations |-> active.expirations \ Due(active, now),
     counts      |-> [b \in Block |->
         active.counts[b] - Cardinality({e \in Due(active, now) : b \in Chain[e.chain]})]]

Positive(active) == {b \in Block : active.counts[b] > 0}
=============================================================================
