------------------------------- MODULE Replay -------------------------------
(***************************************************************************)
(* A whole replay with everything it records: TaskMainEngine under each    *)
(* line of the experiment matrix (task_main/config.py), with the records   *)
(* of task_main/records.py that engine.py, proactive.py and cache.py write *)
(* on the way, which the metrics and the validation of a run work on.      *)
(*                                                                         *)
(* The proactive policies need affinity routing, where every request is    *)
(* finished on arrival, so an opportunity that can start a copy is part of *)
(* an arrival.  ProactivePolicy is not used here, the line takes its place *)
(* (it is set to "NONE").                                                  *)
(***************************************************************************)
EXTENDS TaskMainEngine, Policies

CONSTANTS
    Line,      \* the lines of the matrix under study
    OracleGap  \* bound: ticks between two arrivals an oracle is told of

ASSUME LineAssumption == Line \subseteq 1 .. 7 /\ ProactivePolicy = "NONE"
ASSUME OracleAssumption == OracleGap \subseteq 0 .. MaxGap /\ 0 \notin Request

VARIABLES
    line,    \* line_id of the configuration
    input,   \* the requests: for the oracle its observation, else those that came
    result,  \* the RunResult in the making
    intact,  \* ghost: proactive copies all of whose pages never left the target
    touched  \* ghost: the requests that hit an intact copy, with their time

replayvars == <<vars, line, input, result, intact, touched>>

(* Lines 4 and 5 differ in HistoryWindow alone. *)
RoutingOf == IF line = 2 THEN "R_REQ_KV_TASK" ELSE "R_AFF"

PolicyOf ==
    << "NONE", "NONE", "FUTURE_DEMAND", "PERSISTENCE", "PERSISTENCE", "RECENCY", CostAware >>[line]

Foresees == PolicyOf = "FUTURE_DEMAND"

InputTokens(n) == MissOf(n, Root)

Input(r, n, time) ==
    [request |-> r, path |-> n, time |-> time, bucket |-> Bucket(InputTokens(n))]

(* The traces an oracle may be given: requests by arrival, then perhaps    *)
(* one right at the end of visibility, which is observed and not replayed. *)
Observations ==
    LET time(gap, r) == MapThenSumSet(LAMBDA q : gap[q], {q \in DOMAIN gap : q <= r})
        traces == {{Input(r, path[r], time(gap, r)) : r \in Request} :
                      path \in [Request -> Block], gap \in [Request \ {Min(Request)} -> OracleGap]}
    IN  {t \cup extra : t \in {u \in traces : \A x \in u : x.time < Visibility},
                        extra \in {{}} \cup {{Input(0, n, Visibility)} : n \in Block}}

EmptyResult ==
    [requests |-> {}, opportunities |-> << >>, decisions |-> << >>, actions |-> << >>,
     copies |-> {}, reuses |-> {}, diagnostics |-> {}, events |-> << >>]

ReplayInit ==
    /\ Init
    /\ line \in Line
    /\ input \in IF Foresees THEN Observations ELSE {{}}
    /\ result = EmptyResult
    /\ intact = {}
    /\ touched = {}

-----------------------------------------------------------------------------
(* Records *)

Event(type, request, transfer) ==
    [time |-> now, type |-> type, request |-> request, transfer |-> transfer]

Generations(c, n) == [b \in Chain[n] |-> c.generation[b]]

(* The routing facts of a request, frozen when it is assigned; rank 0 is   *)
(* None.  fallback: the gate was passed and no target could be had.        *)
Diagnostics(r, n) ==
    LET evaluated == Reassign(n, RoutingOf)
        feasible  == IF evaluated THEN Feasible(n) ELSE {}
        first     == LeastLoaded(Others(Source(n)), Loads)
        chosen    == IF feasible = {} THEN first ELSE Target(n)
    IN  [request      |-> r,
         arrival      |-> now,
         gate         |-> RoutingOf = "R_REQ_KV_TASK" /\ Overloaded(Source(n), Loads),
         transferable |-> Depth(Transferable(caches, Source(n), n)),
         evaluated    |-> evaluated,
         structural   |-> Cardinality(Others(Source(n))),
         feasible     |-> Cardinality(feasible),
         rank         |-> IF feasible = {}
                            THEN 0
                            ELSE Cardinality({p \in Others(Source(n)) :
                                                 p = LeastLoaded({p, chosen}, Loads)}),
         lowest       |-> evaluated /\ first \in feasible,
         fallback     |-> evaluated /\ feasible = {}]

(* The RequestRecord that _finish adds. *)
RequestRecord(a, facts) ==
    LET reused == RecordReuse(Pin(caches[a.pod], a.hit), a.hit)
    IN  [request    |-> a.request,
         facts      |-> facts,
         completion |-> now,
         path       |-> a.path,
         source     |-> a.source,
         pod        |-> a.pod,
         hit        |-> a.hit,
         tokens     |-> InputTokens(a.path),
         hitTokens  |-> InputTokens(a.hit),
         miss       |-> MissOf(a.path, a.hit),
         transfer   |-> a.transfer,
         skipped    |-> ~CanPlanPrompt(reused, a.path)]

ReuseEvent(a) ==
    [request |-> a.request, time |-> now, path |-> a.hit, target |-> a.pod,
     generations |-> Generations(caches[a.pod], a.hit)]

(* record_reuse says nothing of an empty hit. *)
ReusesWith(a) == result.reuses \cup (IF a.hit = Root THEN {} ELSE {ReuseEvent(a)})

(* The OpportunityRecord; transfer 0 is None. *)
OpportunityRecord(request, verdict, transfer) ==
    [request |-> request, time |-> now, structural |-> verdict.structural,
     positive |-> verdict.positive, shortlist |-> verdict.shortlist,
     attempted |-> verdict.attempted, status |-> verdict.status, transfer |-> transfer]

NoVerdict ==
    [structural |-> 0, positive |-> 0, shortlist |-> 0, attempted |-> 0, start |-> 0,
     status |-> "NONE", decisions |-> << >>]

(* What _finish of assignment a adds to the results; transfer is the one   *)
(* its opportunity starts, 0 for none.                                     *)
Recorded(old, a, facts, verdict, transfer) ==
    LET record == RequestRecord(a, facts)
        start  == IF transfer = 0
                    THEN << >>
                    ELSE << Event("TRANSFER_START", a.request, transfer) >>
        action == [opportunity |-> Len(old.opportunities) + 1, request |-> a.request,
                   transfer |-> transfer, status |-> "IN_FLIGHT",
                   score |-> IF transfer = 0 THEN 0 ELSE verdict.decisions[verdict.start].score]
    IN  [old EXCEPT
            !.requests      = @ \cup {record},
            !.reuses        = ReusesWith(a),
            !.opportunities = Append(@, OpportunityRecord(a.request, verdict, transfer)),
            !.decisions     = @ \o verdict.decisions,
            !.actions       = IF transfer = 0 THEN @ ELSE Append(@, action),
            !.events        = @ \o << Event("REQUEST_COMPLETE", a.request, a.transfer),
                                      Event(IF record.skipped THEN "CACHE_ADMISSION_SKIP" ELSE "PUBLISHED",
                                            a.request, a.transfer),
                                      Event("OPPORTUNITY", a.request, a.transfer) >> \o start]

(* What _arrive adds before that. *)
Routed(old, r, facts, transfer) ==
    [old EXCEPT
        !.diagnostics = @ \cup {facts},
        !.events      = @ \o << Event("REQUEST_ARRIVAL", r, 0), Event("FINAL_ASSIGNMENT", r, transfer) >>
                          \o IF transfer = 0 THEN << >> ELSE << Event("TRANSFER_START", r, transfer) >>]

(* The ghosts after a handler that delivered the copies in new. *)
Witness(new) ==
    /\ intact' = {i \in intact \cup new :
                     Published(caches'[transfers[i].target], transfers[i].chain)}
    /\ touched' = touched \cup
           {[copy |-> i, request |-> a.request, time |-> now] :
               <<i, a>> \in {x \in intact \X (served' \ served) :
                               /\ transfers[x[1]].target = x[2].pod
                               /\ transfers[x[1]].chain \in Chain[x[2].hit]}}

-----------------------------------------------------------------------------
(* Arrivals *)

(* Only requests before the end of visibility are replayed                 *)
(* (separate_input_roles), and an oracle's trace is the one it was given.  *)
FromInput(r, n) ==
    IF Foresees
      THEN /\ Input(r, n, now) \in input
           /\ Remaining # {r} =>
                  due' = Min({x.time : x \in {y \in input : y.request \in Remaining \ {r}}})
           /\ UNCHANGED input
      ELSE /\ due' < Visibility
           /\ input' = input \cup {Input(r, n, now)}

(* The score of each chain that ends in b, by the policy of the line, with *)
(* the histories as they stand once assignment a is finished.              *)
Scores(a) ==
    [b \in Block |->
        CASE Foresees                -> FutureCount(input, b, now)
          [] PolicyOf = "RECENCY"    -> RecencyScore(ReusesWith(a), b, now)
          [] CountsDemand(PolicyOf)  -> DemandCount(DemandWith(a.path), b, now)]

Benefits(a) == [b \in Block |-> Benefit(input', b, now)]

(* The end of _finish: what the verdict starts, if anything. *)
Serve(assigned, pods, ld, verdict, facts, row) ==
    /\ IF verdict.start = 0
         THEN /\ caches' = pods
              /\ UNCHANGED <<transfers, ready>>
              /\ result' = Recorded(Routed(result, assigned.request, facts, 0), assigned, facts, verdict, 0)
         ELSE /\ caches' = StartCopy(pods, NextTransferId, row.chain, row.source, row.found.target)
              /\ transfers' = Append(transfers,
                     TransferRecord(assigned.request, "PROACTIVE", row.chain, row.source, row.found.target))
              /\ ready' = ready \cup {ReadyEvent(assigned.request, row.chain)}
              /\ result' = Recorded(Routed(result, assigned.request, facts, 0), assigned, facts, verdict,
                                    NextTransferId)
    /\ load' = Query(ld, now)
    /\ served' = served \cup {assigned}
    /\ seen' = SeenWith(assigned.path)
    /\ demand' = DemandWith(assigned.path)
    /\ UNCHANGED <<now, stage, pending, batch>>

Decide(assigned, pods, ld, verdict, facts) ==
    Serve(assigned, pods, ld, verdict, facts, verdict.decisions[verdict.start])

(* An arrival under affinity routing, up to the copy it may start. *)
ServeAffine(r, n) ==
    LET assigned == Assignment(r, n, Source(n), Source(n), RouteHit(n), RouteHit(n), 0)
        ld       == CommitLoad(load, r, assigned.pod, MissOf(n, assigned.hit), now)
        pods     == PodsAfter(assigned, FALSE)
    IN  Decide(assigned, pods, ld,
               Execute(PolicyOf, pods, LoadVector(ld, now), transfers, SeenWith(n),
                       Scores(assigned), Benefits(assigned), now),
               Diagnostics(r, n))

ProactiveArrival(r, n) ==
    /\ PolicyOf # "NONE"
    /\ Arrives(r, n)
    /\ FromInput(r, n)
    /\ ServeAffine(r, n)

RecordedPlain(assigned, facts) ==
    Recorded(Routed(result, assigned.request, facts, 0), assigned, facts, NoVerdict, 0)

(* The lines without a policy: the actions of TaskMainEngine, recorded. *)
PlainArrival(r, n) ==
    /\ PolicyOf = "NONE"
    /\ \/ /\ ArriveAtSource(r, n, RoutingOf) \/ ArriveDirect(r, n, RoutingOf)
          /\ LET assigned == CHOOSE x \in served' : x.request = r
             IN  result' = RecordedPlain(assigned, Diagnostics(r, n))
       \/ /\ ArriveCopy(r, n, RoutingOf)
          /\ result' = Routed(result, r, Diagnostics(r, n), NextTransferId)
    /\ FromInput(r, n)

ReplayArrival(r, n) ==
    /\ ProactiveArrival(r, n) \/ PlainArrival(r, n)
    /\ Witness({})
    /\ UNCHANGED line

-----------------------------------------------------------------------------
(* The rest of the loop *)

(* What run notes of a proactive copy that was just published. *)
CopyObservation(t, id) ==
    [transfer |-> id, target |-> t.target, time |-> now, chain |-> t.chain,
     generations |-> Generations(caches'[t.target], t.chain)]

ReplayDeliver ==
    /\ Deliver
    /\ LET id == CHOOSE i \in InFlightTransfers : transfers'[i].status = "COMPLETED"
           t  == transfers[id]
           proactive == t.type = "PROACTIVE"
           log == Append(result.events, Event("TRANSFER_COMPLETE", t.request, id))
       IN  /\ result' = [result EXCEPT
                  !.events  = log,
                  !.copies  = IF proactive THEN @ \cup {CopyObservation(t, id)} ELSE @,
                  !.actions = [i \in DOMAIN @ |->
                                  IF @[i].transfer = id THEN [@[i] EXCEPT !.status = "COMPLETED"]
                                                        ELSE @[i]]]
           /\ Witness(IF proactive THEN {id} ELSE {})
    /\ UNCHANGED <<line, input>>

(* Only requests that waited are resumed, and none does under a policy. *)
ReplayResume ==
    /\ Resume
    /\ LET resumed == CHOOSE x \in batch : x \notin batch'
           facts == CHOOSE x \in result.diagnostics : x.request = resumed.request
       IN  result' = Recorded(result, resumed, facts, NoVerdict, 0)
    /\ Witness({})
    /\ UNCHANGED <<line, input>>

ReplayNext ==
    \/ (Tick \/ Protect \/ BatchDone \/ ArrivalsDone \/ Stop)
           /\ UNCHANGED <<line, input, result, intact, touched>>
    \/ ReplayDeliver
    \/ ReplayResume
    \/ \E r \in Request, n \in Block : ReplayArrival(r, n)

ReplaySpec == ReplayInit /\ [][ReplayNext]_replayvars

(* The loop keeps running until there is nothing left to do: weak fairness *)
(* of ReplayNext with its ENABLED spelt out.  Every state that is not      *)
(* Finished has a step, which is checked as the absence of deadlock.       *)
ReplayKeepsRunning == []<>Finished \/ []<><<ReplayNext>>_replayvars

FairReplaySpec == ReplaySpec /\ ReplayKeepsRunning
=============================================================================
