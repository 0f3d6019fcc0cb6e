------------------------------ MODULE Policies ------------------------------
(***************************************************************************)
(* The proactive policies of task_main/policies.py, the histories they     *)
(* read (task_main/history.py) and the decision ProactiveController makes  *)
(* with each of them (task_main/proactive.py): which rows are scored, in   *)
(* which order they are tried, and why each of the others is not started.  *)
(*                                                                         *)
(* Proactive has the PERSISTENCE decision alone, as a choice of one row;   *)
(* here the whole shortlist is kept, with the fate of each row.            *)
(*                                                                         *)
(* Scores are integers.  Benefit, congestion and transfer cost are the     *)
(* terms of cost_score times ten; transfer seconds are PageCost/CostUnit   *)
(* a page.  Decay[age] stands for exp(-age/decay_ms), to some scale.       *)
(***************************************************************************)
EXTENDS Proactive

Sequence == INSTANCE SequencesExt

CONSTANTS
    FutureWindow,  \* future_window_ms, in ticks
    Visibility,    \* visibility_end_ms, in ticks
    Decay,         \* Decay[age]: what a reuse of that age adds to a recency score
    BucketBounds,  \* the five bounds of bucket()
    WeightTenths,  \* WEIGHTS, in tenths
    PageCost, CostUnit

ASSUME WindowAssumption == FutureWindow \in Nat \ {0} /\ Visibility \in Nat
ASSUME DecayAssumption ==
    \A age \in DOMAIN Decay : age \in Nat /\ Decay[age] \in Nat \ {0}
ASSUME BucketAssumption ==
    /\ BucketBounds \in [1 .. 5 -> Nat]
    /\ WeightTenths \in [1 .. 6 -> Nat]
    /\ \A i \in 1 .. 6 : WeightTenths[i] >= 13
\* Capacity pages are on the wire for less than eight seconds.
ASSUME CostAssumption ==
    PageCost \in Nat /\ CostUnit \in Nat \ {0} /\ Capacity * PageCost < 8 * CostUnit

-----------------------------------------------------------------------------
(* Histories *)

(* bucket: the last bound is inclusive, the others are not. *)
Bucket(tokens) ==
    1 + Cardinality({i \in 1 .. 4 : BucketBounds[i] <= tokens})
      + (IF tokens > BucketBounds[5] THEN 1 ELSE 0)

(* Those of a set of arrivals or reuses, records with a path and a time,   *)
(* whose full pages lead through the chain that ends in b.                 *)
Asking(arrivals, b) == {x \in arrivals : b \in Chain[FullPagePrefix(x.path)]}

\* Mutant: a request at the right end of the window is not seen.
FutureCountOpen(observation, b, now) ==
    Cardinality({x \in Asking(observation, b) : now < x.time /\ x.time < now + FutureWindow})

(* FutureDemandIndex.count, over (now, now + FutureWindow]. *)
FutureCount(observation, b, now) ==
    Cardinality({x \in Asking(observation, b) : now < x.time /\ x.time <= now + FutureWindow})

(* FUTURE_WINDOW_CENSORED *)
BeyondVisibility(now) == now + FutureWindow > Visibility

(* ReuseHistory.score: every completed request that hit the chain counts,  *)
(* the less the longer ago.  The path of a reuse is the hit.               *)
RecencyScore(reuses, b, now) ==
    MapThenSumSet(LAMBDA x : Decay[now - x.time], {x \in Asking(reuses, b) : x.time <= now})

(* benefit, in tenths; PERSISTENCE_COST_AWARE fixes h = W. *)
Benefit(arrivals, b, now) ==
    MapThenSumSet(LAMBDA x : WeightTenths[x.bucket],
                  {x \in Asking(arrivals, b) : x.time <= now /\ now < x.time + HistoryWindow})

-----------------------------------------------------------------------------
(* cost_terms and cost_gate *)

(* benefit - 0.5 * load/peak - 0.1 * seconds > 0, in tenths and multiplied *)
(* out; an idle cluster has no congestion.                                 *)
PassesCostGate(benefit, congestion, peak, pages) ==
    IF peak = 0 THEN benefit * CostUnit > pages * PageCost
                ELSE (benefit * peak - 5 * congestion) * CostUnit > pages * PageCost * peak

-----------------------------------------------------------------------------
(* shortlist *)

CostAware == "PERSISTENCE_COST_AWARE"

CountsDemand(policy) == policy \in {"PERSISTENCE", CostAware}

Positive(candidates, scores) == {b \in DOMAIN candidates : scores[b] > 0}

(* quantile at 0.9, times ten: interpolated between two order statistics.  *)
UpperDecile(values) ==
    LET place == (Len(values) - 1) * 9
        low   == values[place \div 10 + 1]
        high  == values[(place + 9) \div 10 + 1]
    IN  10 * low + (high - low) * (place % 10)

Ascending(rows, scores) ==
    LET sorted == Sequence!SetToSortSeq(rows, LAMBDA x, y : RanksBefore(scores, y, x))
    IN  [i \in DOMAIN sorted |-> scores[sorted[i]]]

RecentRows(positive, scores) ==
    {b \in positive : 10 * scores[b] >= UpperDecile(Ascending(positive, scores))}

(* The rows of the shortlist.  RECENCY keeps the top decile, PERSISTENCE   *)
(* the first K, FUTURE_DEMAND all that will be asked for.                  *)
RowSet(policy, candidates, scores) ==
    LET positive == Positive(candidates, scores)
    IN  CASE policy = "RECENCY" /\ positive # {} -> RecentRows(positive, scores)
          [] CountsDemand(policy)                -> Shortlist(candidates, scores)
          [] OTHER                               -> positive

-----------------------------------------------------------------------------
(* execute *)

(* _resolve_target: every target is preflighted; with none feasible the    *)
(* least loaded one stands in the record.  rank 0 is None.                 *)
Resolution(pods, loads, candidates, b) ==
    LET targets  == candidates[b].targets
        feasible == ProactiveTargets(pods, candidates, b)
        first    == LeastLoaded(targets, loads)
        target   == IF feasible = {} THEN first ELSE LeastLoaded(feasible, loads)
        rank     == Cardinality({p \in targets : p = LeastLoaded({p, target}, loads)})
    IN  [target     |-> target,
         structural |-> Cardinality(targets),
         feasible   |-> Cardinality(feasible),
         rank       |-> IF feasible = {} THEN 0 ELSE rank,
         lowest     |-> first \in feasible]

Resolved(pods, loads, candidates, rows) ==
    [i \in DOMAIN rows |-> Resolution(pods, loads, candidates, rows[i])]

(* What stops row b with resolution found, if anything does. *)
Obstacle(policy, loads, benefit, b, found) ==
    IF policy = CostAware /\ ~PassesCostGate(benefit, loads[found.target],
                                             Max({loads[p] : p \in Pod}), Depth(b))
      THEN "COST_GATE_REJECTED"
    ELSE IF found.feasible = 0 THEN "SKIP_NO_CAPACITY"
    ELSE "SELECTED"

Unresolved(candidates, loads, b) ==
    [target |-> LeastLoaded(candidates[b].targets, loads),
     structural |-> 0, feasible |-> 0, rank |-> 0, lowest |-> FALSE]

(* The CandidateDecisionRecord of row i when row start is started (0: no   *)
(* row is).  Only the demand policies resolve rows they never reach.       *)
Decision(policy, loads, candidates, scores, rows, resolved, fates, start, i) ==
    LET reached == start = 0 \/ i <= start
        chain   == rows[i]
    IN  [chain     |-> chain,
         source    |-> candidates[chain].source,
         score     |-> scores[chain],
         evaluated |-> reached \/ CountsDemand(policy),
         found     |-> IF reached \/ CountsDemand(policy)
                         THEN resolved[i]
                         ELSE Unresolved(candidates, loads, chain),
         status    |-> IF reached THEN fates[i] ELSE "NOT_ATTEMPTED_CAP_REACHED"]

(* A reason that materialize counted, the first by name. *)
FirstReason(pods, transfers, chains) ==
    IF \E b \in chains : /\ Holders(pods, b) \notin {{}, Pod}
                         /\ EligibleTargets(pods, transfers, b) = {}
      THEN "INFLIGHT_COVERED"
    ELSE IF chains = {} \/ \E b \in chains : Holders(pods, b) = {} THEN "NO_SOURCE"
    ELSE "NO_TARGET"

(* Why there is no row at all. *)
EmptyReason(pods, transfers, chains, candidates, censored) ==
    IF censored THEN "FUTURE_WINDOW_CENSORED"
    ELSE IF DOMAIN candidates = {} THEN FirstReason(pods, transfers, chains)
    ELSE "ZERO_SCORE"

(* The rows are tried in their order, and the first that nothing stops is  *)
(* started.  start = 0 says that none is.                                  *)
Attempt(policy, pods, loads, candidates, scores, benefits, positive, rows, empty) ==
    LET resolved == Resolved(pods, loads, candidates, rows)
        fates    == [i \in DOMAIN rows |->
                        Obstacle(policy, loads, benefits[rows[i]], rows[i], resolved[i])]
        selected == {i \in DOMAIN rows : fates[i] = "SELECTED"}
        start    == IF selected = {} THEN 0 ELSE Min(selected)
    IN  [structural |-> Cardinality(DOMAIN candidates),
         positive   |-> Cardinality(positive),
         shortlist  |-> Len(rows),
         attempted  |-> IF start = 0 THEN Len(rows) ELSE start,
         start      |-> start,
         status     |-> IF rows = << >> THEN empty
                        ELSE IF start = 0 THEN fates[Len(rows)]
                        ELSE "STARTED",
         decisions  |-> [i \in DOMAIN rows |->
                            Decision(policy, loads, candidates, scores, rows, resolved, fates, start, i)]]

(* execute, with the candidates as materialize finds them. *)
ExecuteOn(policy, pods, loads, candidates, scores, benefits, censored, empty) ==
    Attempt(policy, pods, loads, candidates, scores, benefits,
            IF censored THEN {} ELSE Positive(candidates, scores),
            IF censored
              THEN << >>
              ELSE Sequence!SetToSortSeq(RowSet(policy, candidates, scores),
                                         LAMBDA x, y : RanksBefore(scores, x, y)),
            empty)

Execute(policy, pods, loads, transfers, chains, scores, benefits, now) ==
    LET candidates == Candidates(pods, transfers, chains)
        censored   == policy = "FUTURE_DEMAND" /\ BeyondVisibility(now)
    IN  ExecuteOn(policy, pods, loads, candidates, scores, benefits, censored,
                  EmptyReason(pods, transfers, chains, candidates, censored))
=============================================================================
