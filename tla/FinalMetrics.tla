---------------------------- MODULE FinalMetrics ----------------------------
(***************************************************************************)
(* What is computed of a finished replay: the checks of build_summary      *)
(* (task_main/metrics.py) and at the end of run (engine.py), the metrics   *)
(* of task_main/final_metrics.py, and the checks of validate_metrics       *)
(* (validation.py).  Everything reads; a failed check raises and the run   *)
(* has no result.                                                          *)
(***************************************************************************)
EXTENDS Replay

CONSTANTS EvalStart, EvalEnd,  \* evaluation_start_ms, evaluation_end_ms
          GiniWindow           \* 300000 ms

ASSUME EvaluationAssumption ==
    /\ EvalStart \in Nat /\ EvalEnd \in Nat /\ EvalStart < EvalEnd /\ EvalEnd <= Visibility
    /\ GiniWindow \in Nat \ {0} /\ (EvalEnd - EvalStart) % GiniWindow = 0

Total(f(_), S) == MapThenSumSet(f, S)

EventsOf(type) == {i \in DOMAIN result.events : result.events[i].type = type}

(* Counter(row.f for row in events of the type) is 1 on S and 0 elsewhere. *)
OncePerRequest(type, S) ==
    /\ {result.events[i].request : i \in EventsOf(type)} = S
    /\ Cardinality(EventsOf(type)) = Cardinality(S)

OncePerTransfer(type) ==
    /\ {result.events[i].transfer : i \in EventsOf(type)} = DOMAIN transfers
    /\ Cardinality(EventsOf(type)) = Len(transfers)

RecordOf(request) == CHOOSE x \in result.requests : x.request = request

-----------------------------------------------------------------------------
(* build_summary *)

RequestsConserved ==
    /\ {x.request : x \in result.requests} = Request
    /\ Cardinality(result.requests) = Cardinality(Request)
    /\ {result.opportunities[i].request : i \in DOMAIN result.opportunities} = Request
    /\ Len(result.opportunities) = Cardinality(Request)
    /\ {e.request : e \in load.entries} = Request
    /\ OncePerRequest("FINAL_ASSIGNMENT", Request)
    /\ OncePerRequest("REQUEST_COMPLETE", Request)

TransfersConserved ==
    /\ OncePerTransfer("TRANSFER_START") /\ OncePerTransfer("TRANSFER_COMPLETE")
    /\ \A i \in DOMAIN transfers : transfers[i].status = "COMPLETED" /\ transfers[i].chain # Root

RecordsConsistent ==
    \A x \in result.requests :
        /\ x.facts.gate /\ x.facts.transferable = 0 => x.pod = x.source /\ x.transfer = 0
        /\ x.hitTokens + x.miss = x.tokens
        /\ \E e \in load.entries :
              /\ e.request = x.request /\ e.pod = x.pod
              /\ e.miss = x.miss /\ e.time = x.facts.arrival
        /\ x.completion = IF x.transfer = 0 THEN x.facts.arrival ELSE transfers[x.transfer].ready

CachesDrained ==
    \A p \in Pod : TemporaryPages(caches[p]) = 0 /\ \A b \in Block : caches[p].pins[b] = 0

OpportunitiesTimed ==
    \A i \in DOMAIN result.opportunities :
        result.opportunities[i].time = RecordOf(result.opportunities[i].request).completion

SummaryAccepted ==
    /\ RequestsConserved /\ TransfersConserved /\ RecordsConsistent
    /\ CachesDrained /\ OpportunitiesTimed

-----------------------------------------------------------------------------
(* the checks run adds *)

FeasibilityConsistent(evaluated, found) ==
    IF ~evaluated
      THEN found.feasible = 0 /\ found.rank = 0 /\ ~found.lowest
      ELSE /\ found.structural > 0 /\ found.feasible <= found.structural
           /\ IF found.feasible = 0 THEN found.rank = 0
                                    ELSE found.rank \in 1 .. found.structural

ActionsAccepted ==
    /\ Cardinality({result.actions[i].opportunity : i \in DOMAIN result.actions}) = Len(result.actions)
    /\ \A i \in DOMAIN result.actions : result.actions[i].status = "COMPLETED"
    /\ {result.actions[i].transfer : i \in DOMAIN result.actions} =
           {i \in DOMAIN transfers : transfers[i].type = "PROACTIVE"}
    /\ \A x \in result.requests : FeasibilityConsistent(x.facts.evaluated, x.facts)
    /\ \A i \in DOMAIN result.decisions :
          FeasibilityConsistent(result.decisions[i].evaluated, result.decisions[i].found)

-----------------------------------------------------------------------------
(* request_metrics and gini_metrics *)

Within(lo, hi) == {x \in result.requests : lo <= x.facts.arrival /\ x.facts.arrival < hi}

Cohort == Within(EvalStart, EvalEnd)

Members(i) == {x \in Cohort : Bucket(x.tokens) = i}

(* One row per bucket, of requests, input tokens and saved tokens. *)
BucketRow(i) ==
    << Cardinality(Members(i)),
       Total(LAMBDA x : x.tokens, Members(i)),
       Total(LAMBDA x : x.hitTokens, Members(i)) >>

GiniWindows == {k \in EvalStart .. (EvalEnd - 1) : (k - EvalStart) % GiniWindow = 0}

PodCounts(start) ==
    [p \in Pod |-> Cardinality({x \in Within(start, start + GiniWindow) : x.pod = p})]

RequestMetricsAccepted ==
    /\ Total(LAMBDA i : BucketRow(i)[1], 1 .. 6) = Cardinality(Cohort)
    /\ Total(LAMBDA i : BucketRow(i)[2], 1 .. 6) = Total(LAMBDA x : x.tokens, Cohort)
    /\ Total(LAMBDA i : BucketRow(i)[3], 1 .. 6) = Total(LAMBDA x : x.hitTokens, Cohort)
    /\ Cardinality(GiniWindows) = (EvalEnd - EvalStart) \div GiniWindow
    /\ Total(LAMBDA k : Total(LAMBDA p : PodCounts(k)[p], Pod), GiniWindows) = Cardinality(Cohort)

-----------------------------------------------------------------------------
(* network_metrics *)

Started(lo, hi, type) ==
    {i \in DOMAIN transfers :
        lo <= transfers[i].start /\ transfers[i].start < hi /\ transfers[i].type = type}

\* Mutant: the tail begins after the evaluation's last tick.
PhasesOverlap == { <<0, EvalStart>>, <<EvalStart, EvalEnd + 1>>, <<EvalEnd, Visibility>> }

(* PRE_EVAL, EVAL and TAIL.  FULL_RUN is every transfer there is. *)
Phases == { <<0, EvalStart>>, <<EvalStart, EvalEnd>>, <<EvalEnd, Visibility>> }

WirePages(S) == Total(LAMBDA i : Depth(transfers[i].chain), S)

(* network_phase_conservation *)
NetworkAccepted ==
    \A type \in {"REACTIVE", "PROACTIVE"} :
        LET all == {i \in DOMAIN transfers : transfers[i].type = type}
        IN  /\ Total(LAMBDA ph : Cardinality(Started(ph[1], ph[2], type)), Phases) = Cardinality(all)
            /\ Total(LAMBDA ph : WirePages(Started(ph[1], ph[2], type)), Phases) = WirePages(all)

-----------------------------------------------------------------------------
(* wasted_metrics *)

EvalActions ==
    {i \in DOMAIN result.actions :
        LET start == transfers[result.actions[i].transfer].start
        IN  EvalStart <= start /\ start < EvalEnd}

CopyOf(i) == CHOOSE x \in result.copies : x.transfer = result.actions[i].transfer

Deadline(i) == transfers[result.actions[i].transfer].ready + FutureWindow

Censored(i) == Deadline(i) > Visibility

\* Mutant: the pages may have left and come back.
UsesAnyResidency(i) ==
    LET copy == CopyOf(i)
    IN  {u \in result.reuses :
            /\ u.target = copy.target
            /\ copy.time < u.time /\ u.time <= Deadline(i)
            /\ copy.chain \in Chain[u.path]}

(* The reuses that count for action i: after it was ready, at its target,  *)
(* through its chain, of the very pages it delivered or found there.       *)
Uses(i) ==
    LET copy == CopyOf(i)
    IN  {u \in result.reuses :
            /\ u.target = copy.target
            /\ copy.time < u.time /\ u.time <= Deadline(i)
            /\ copy.chain \in Chain[u.path]
            /\ \A b \in Chain[copy.chain] : u.generations[b] = copy.generations[b]}

(* "missing copy residency evidence" *)
CopiesEvidenced ==
    \A i \in DOMAIN result.actions :
        /\ Cardinality({x \in result.copies : x.transfer = result.actions[i].transfer}) = 1
        /\ CopyOf(i).chain = transfers[result.actions[i].transfer].chain

CopyStatus(i) ==
    IF Censored(i) THEN "CENSORED" ELSE IF Uses(i) = {} THEN "UNUSED" ELSE "USED"

Classified(status) == {i \in EvalActions : CopyStatus(i) = status}

WastedAccepted ==
    /\ CopiesEvidenced
    /\ Cardinality(EvalActions) = Cardinality(Started(EvalStart, EvalEnd, "PROACTIVE"))
    /\ Total(LAMBDA s : Cardinality(Classified(s)), {"CENSORED", "UNUSED", "USED"}) =
           Cardinality(EvalActions)

-----------------------------------------------------------------------------
(* validate_metrics *)

ReusesMatchRequests ==
    \A u \in result.reuses :
        LET x == RecordOf(u.request)
        IN  x.pod = u.target /\ x.completion = u.time /\ x.hit = u.path

CostScoresAccepted ==
    PolicyOf = CostAware =>
        \A i \in DOMAIN result.decisions : result.decisions[i].status # "COST_GATE_REJECTED"

MetricsAccepted ==
    /\ RequestMetricsAccepted /\ NetworkAccepted /\ WastedAccepted
    /\ ReusesMatchRequests /\ CostScoresAccepted

-----------------------------------------------------------------------------
(* Properties *)

(* A replay never ends in the AssertionError of its own validation: none   *)
(* of these checks of what was recorded can fail, in whatever order        *)
(* transfers, completions and arrivals met.                                *)
ReplayAccepted == Finished => SummaryAccepted /\ ActionsAccepted /\ MetricsAccepted

(* What the oracle of line 3 foresaw comes true: the score of a copy is    *)
(* the number of requests for its chain that arrive in the window that     *)
(* starts after the decision, a request exactly at its end included, as    *)
(* one exactly at the end of visibility (policies.py:48).                  *)
ForesightComesTrue ==
    Finished /\ Foresees =>
        \A i \in DOMAIN result.actions :
            LET t     == transfers[result.actions[i].transfer]
                until == t.start + FutureWindow
                came  == {x \in result.requests :
                             /\ t.chain \in Chain[Observed(x.path)]
                             /\ x.facts.arrival > t.start /\ x.facts.arrival <= until}
                after == {x \in input : /\ x.time = Visibility /\ x.time = until
                                        /\ t.chain \in Chain[Observed(x.path)]}
            IN  /\ until <= Visibility
                /\ result.actions[i].score = Cardinality(came) + Cardinality(after)
=============================================================================
