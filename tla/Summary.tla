------------------------------ MODULE Summary -------------------------------
(***************************************************************************)
(* What SimulatorEngine.run reports when it has served all requests: a     *)
(* result per request, the summary simulator/metrics.py makes of them, the *)
(* diagnostics of pressure.py, the audits of the routing policies and the  *)
(* verdict on every proactive copy.                                        *)
(*                                                                         *)
(* A run with copies is summarised for its DEVELOPMENT split, which is the *)
(* time before RangeEnd; a run without is summarised as a whole.  Tokens   *)
(* and bytes are counted in pages, rates and means are left as the amounts *)
(* they are made of, percentiles are multiplied by 100.                    *)
(***************************************************************************)
EXTENDS Simulator

CONSTANTS
    RangeEnd, \* warmup_start_ms, the end of the DEVELOPMENT split
    Horizon,  \* oracle_horizon_ms
    Widths    \* windows_ms

ASSUME SummaryAssumption ==
    /\ {RangeEnd, Horizon} \subseteq Nat \ {0}
    /\ IsFiniteSet(Widths) /\ Widths \subseteq Nat \ {0}

P == INSTANCE Pressure

-----------------------------------------------------------------------------
(* Results *)

\* Mutant: the time on the wire counts as time in the queue.
ResultQueued(r) ==
    LET run == node.runs[r]
    IN  [id |-> r, pod |-> run.pod, arrival |-> run.arrival, start |-> run.start, done |-> run.done,
         input |-> Depth(run.path), route |-> Depth(run.routed), hit |-> Depth(run.hit),
         miss |-> Depth(run.path) - Depth(run.hit), inserted |-> run.inserted,
         wait |-> IF run.assisted THEN Wire(run.transfer.path) ELSE 0,
         queueTime |-> run.start - run.arrival,
         serviceTime |-> Service(run.path, run.hit), latency |-> run.done - run.arrival,
         error |-> Service(run.path, run.routed) - Service(run.path, run.hit),
         targetError |-> run.ticket.service - Service(run.path, run.hit),
         source |-> run.transfer.source,
         assisted |-> run.assisted, ticket |-> run.ticket.state,
         wirePages |-> IF run.assisted THEN Depth(run.transfer.path) ELSE 0,
         plan |-> run.plan, fallback |-> run.fallback, gate |-> run.gate,
         blocked |-> run.blocked, replans |-> run.replans]

(* The RequestResult that OnServiceDone makes of a request.  What is not   *)
(* on the wire counts as time in the queue, the wait for a ticket as well. *)
Result(r) ==
    LET run == node.runs[r]
        wait == IF run.assisted THEN Wire(run.transfer.path) ELSE 0
    IN  [id |-> r, pod |-> run.pod, arrival |-> run.arrival, start |-> run.start, done |-> run.done,
         input |-> Depth(run.path), route |-> Depth(run.routed), hit |-> Depth(run.hit),
         miss |-> Depth(run.path) - Depth(run.hit), inserted |-> run.inserted,
         wait |-> wait, queueTime |-> run.start - run.arrival - wait,
         serviceTime |-> Service(run.path, run.hit), latency |-> run.done - run.arrival,
         error |-> Service(run.path, run.routed) - Service(run.path, run.hit),
         targetError |-> run.ticket.service - Service(run.path, run.hit),
         source |-> run.transfer.source,
         assisted |-> run.assisted, ticket |-> run.ticket.state,
         wirePages |-> IF run.assisted THEN Depth(run.transfer.path) ELSE 0,
         plan |-> run.plan, fallback |-> run.fallback, gate |-> run.gate,
         blocked |-> run.blocked, replans |-> run.replans]

\* No ticket is still on its way when its request is done.
RequestResult ==
    [id : Request, pod : Pod, arrival : Nat, start : Nat, done : Nat, input : Nat, route : Nat,
     hit : Nat, miss : Nat, inserted : Nat, wait : Nat, queueTime : Nat, serviceTime : Nat,
     latency : Nat, error : Int, targetError : Int, source : Pod \cup {Absent}, assisted : BOOLEAN,
     ticket : {"NONE", "COMPLETED", "FALLBACK", "TIMED_OUT", "CANCELLED"}, wirePages : Nat,
     plan : {"NONE", "DIRECT", "COPY"}, fallback : BOOLEAN, blocked : BOOLEAN, replans : Nat,
     gate : {"UNCLASSIFIED", "NO_CACHE_SOURCE", "NO_TRANSFERABLE_PREFIX", "CACHE_HIT_GATE_REJECT",
             "SOURCE_IS_BEST_TARGET", "TARGET_ALREADY_HAS_PREFIX", "RELATIVE_GATE_REJECT",
             "ABSOLUTE_GATE_REJECT", "TRANSFER_SELECTED"}]

AllResults == {Result(r) : r \in Request}

Scoped == mode.action # "NONE"

ScopedResults == {x \in AllResults : Scoped => x.arrival < RangeEnd}

\* The time that is summarised.
ScopeEnd == IF Scoped THEN RangeEnd ELSE past[Len(past)].end

-----------------------------------------------------------------------------
(* metrics.py *)

Total(S, figure(_)) == MapThenSumSet(figure, S)

\* A mean is given by its sum and its count.
Distribution(f) ==
    IF DOMAIN f = {} THEN [count |-> 0, sum |-> 0, p50 |-> 0, p90 |-> 0, p95 |-> 0, p99 |-> 0]
    ELSE [count |-> Cardinality(DOMAIN f), sum |-> MapThenSumSet(LAMBDA x : f[x], DOMAIN f),
          p50 |-> Percentile(f, 50), p90 |-> Percentile(f, 90),
          p95 |-> Percentile(f, 95), p99 |-> Percentile(f, 99)]

(* _pod_summary of pod p.  In a split, only requests of the split make a   *)
(* pod busy, and only for the time inside of it.                           *)
PodSummary(results, p) ==
    LET own == {x \in results : x.pod = p}
        inside(x) == Max({0, Min({x.done, ScopeEnd}) - x.start})
    IN  [routed |-> Cardinality(own),
         input |-> Total(own, LAMBDA x : x.input), route |-> Total(own, LAMBDA x : x.route),
         hit |-> Total(own, LAMBDA x : x.hit), miss |-> Total(own, LAMBDA x : x.miss),
         queueTime |-> Distribution([x \in own |-> x.queueTime]),
         serviceTime |-> Distribution([x \in own |-> x.serviceTime]),
         latency |-> Distribution([x \in own |-> x.latency]),
         busy |-> IF Scoped THEN Total(own, inside) ELSE Total(own, LAMBDA x : x.serviceTime),
         resident |-> node.pods[p].cache.resident,
         temporary |-> node.pods[p].cache.temporaryPages,
         endpointBusy |-> node.pods[p].wired,
         finalLoad |-> Load(node, p)]

\* summary["cluster"]
ClusterSummary(s) ==
    [requests |-> P!Gini([p \in Pod |-> s.pods[p].routed]),
     input |-> P!Gini([p \in Pod |-> s.pods[p].input]),
     miss |-> P!Gini([p \in Pod |-> s.pods[p].miss]),
     busy |-> P!Gini([p \in Pod |-> s.pods[p].busy]),
     hit |-> Total(s.results, LAMBDA x : x.hit),
     latency |-> Distribution([x \in s.results |-> x.latency])]

(* load_estimation: how far the estimate a request was routed by was from  *)
(* its service time, by kind of request and by pair of pods.               *)
EstimateErrors(results) ==
    LET assisted == {x \in results : x.assisted}
        errors(S) == Distribution([x \in S |-> x.error])
        between(x) == <<x.source, x.pod>>
    IN  [all |-> errors(results), assisted |-> errors(assisted), direct |-> errors(results \ assisted),
         pairs |-> [e \in {between(x) : x \in assisted} |-> errors({x \in assisted : between(x) = e})],
         target |-> Distribution([x \in {y \in assisted : y.ticket # "NONE"} |-> x.targetError])]

(* The transfers of a split are counted by its results, those of a whole   *)
(* replay by the counters of the loop.                                     *)
TransferSummary(results) ==
    LET assisted == {x \in results : x.assisted}
        wait == Distribution([x \in assisted |-> x.wait])
    IN  IF Scoped
          THEN [created |-> Cardinality({x \in results : x.ticket # "NONE"}),
                completed |-> Cardinality(assisted),
                wirePages |-> Total(results, LAMBDA x : x.wirePages),
                timedOut |-> Cardinality({x \in results : x.ticket = "TIMED_OUT"}), wait |-> wait]
          ELSE [created |-> node.stats.created, completed |-> node.stats.completed,
                wirePages |-> node.stats.wirePages, timedOut |-> node.stats.timedOut, wait |-> wait]

(* The memory of a split is that of its intervals, unclipped. *)
Resource ==
    LET inside == SelectSeq(past, LAMBDA x : x.start < ScopeEnd)
        held(x, f) == {x.pods[p][f] : p \in Pod}
    IN  [peak |-> [f \in P!Memory |->
                      Max({0} \cup UNION {held(x, f) : x \in Sequence!ToSet(inside)})],
         last |-> [f \in P!Memory |->
                      IF inside = <<>> THEN 0
                      ELSE MapThenSumSet(LAMBDA p : inside[Len(inside)].pods[p][f], Pod)]]

-----------------------------------------------------------------------------
(* The audits of the policies *)

B0GateAudit(results) ==
    LET selected == {x \in results : x.ticket # "NONE"}
        count(S) == Cardinality(S)
    IN  [total |-> count(results), local |-> count(results \ selected),
         selected |-> count(selected),
         completed |-> count({x \in selected : x.assisted}),
         fallback |-> count({x \in selected : ~x.assisted}),
         hindered |-> count({x \in selected : x.blocked}),
         prevented |-> count({x \in selected : x.blocked /\ ~x.assisted}),
         replans |-> Total(selected, LAMBDA x : x.replans),
         outcomes |-> [g \in {x.gate : x \in results} |-> count({x \in results : x.gate = g})]]

EctAudit(results) ==
    LET copies == {x \in results : x.plan = "COPY"}
        completed == {x \in copies : x.assisted}
    IN  [direct |-> Cardinality({x \in results : x.plan = "DIRECT"}),
         selected |-> Cardinality(copies), started |-> Cardinality(completed),
         completed |-> Cardinality(completed), failed |-> Cardinality(copies \ completed),
         fallback |-> Cardinality({x \in copies : x.fallback}),
         replans |-> Total(results, LAMBDA x : x.replans)]

-----------------------------------------------------------------------------
(* The verdicts on proactive copies *)

(* FutureDemandIndex.first_future_arrival; a run under ECT has no index. *)
FirstDemand(x) ==
    LET times == {node.runs[r].arrival : r \in {y \in Request : x.hash \in Chain[node.runs[y].path]}}
        after == {t \in times : x.start < t /\ t <= x.start + Horizon}
    IN  IF IsEct \/ after = {} THEN Absent ELSE Min(after)

Verdict(x) ==
    IF x.ready + Horizon > TriggerEnd THEN "CENSORED"
    ELSE IF x.pages = {} THEN "DUPLICATE_WIRE"
    ELSE IF x.score = 0 THEN "NO_FUTURE_DEMAND"
    ELSE IF FirstDemand(x) # Absent /\ FirstDemand(x) <= x.ready THEN "TOO_LATE"
    ELSE IF x.firstUse # Absent THEN "USEFUL"
    ELSE IF x.lost # Absent THEN "EVICTED_BEFORE_USE"
    ELSE "NOT_USED_AT_TARGET"

(* The record of a copy. *)
ActionRecord(x) ==
    [verdict |-> Verdict(x),
     hadTime |-> FirstDemand(x) # Absent /\ x.ready < FirstDemand(x),
     used |-> x.firstUse # Absent,
     evictedUnused |-> x.lost # Absent /\ x.firstUse = Absent,
     created |-> Cardinality(x.pages),
     duplicate |-> Depth(x.path) - Cardinality(x.pages),
     hitPages |-> x.hits, distinctHit |-> Cardinality(x.used),
     wasted |-> Depth(x.path) - Cardinality(x.used)]

\* summary["proactive"], from the records of all copies.
ProactiveSummary(records) ==
    LET copies == DOMAIN records
        sum(figure(_)) == MapThenSumSet(LAMBDA i : figure(records[i]), copies)
        created == {i \in copies : records[i].created > 0}
        used == {i \in created : records[i].used}
        wire(S) == MapThenSumSet(LAMBDA i : Depth(node.copies[i].path), S)
        offers(S) == {<<node.copies[i].start, node.copies[i].hash>> : i \in S}
    IN  [wirePages |-> wire(copies), created |-> Cardinality(created),
         used |-> Cardinality(used), usefulWire |-> wire(used),
         newPages |-> sum(LAMBDA x : x.created), duplicate |-> sum(LAMBDA x : x.duplicate),
         hitPages |-> sum(LAMBDA x : x.hitPages), distinctHit |-> sum(LAMBDA x : x.distinctHit),
         wasted |-> wire(copies) - sum(LAMBDA x : x.distinctHit),
         candidates |-> Cardinality(offers(copies)),
         anyUsed |-> Cardinality(offers({i \in copies : records[i].used})),
         breakdown |-> [v \in {records[i].verdict : i \in copies} |->
                           Cardinality({i \in copies : records[i].verdict = v})]]

(* network_cost: what of the time of the endpoints was not for copies was  *)
(* for requests.                                                           *)
NetworkCost ==
    LET total == MapThenSumSet(LAMBDA p : node.pods[p].wired, Pod)
        copies == MapThenSumSet(LAMBDA i : 2 * Wire(node.copies[i].path), DOMAIN node.copies)
    IN  [reactiveWire |-> node.stats.wirePages, reactiveBusy |-> total - copies, copiesBusy |-> copies]

-----------------------------------------------------------------------------
(* The report *)

Report ==
    [results |-> ScopedResults, pods |-> [p \in Pod |-> PodSummary(ScopedResults, p)],
     transfer |-> TransferSummary(ScopedResults), resource |-> Resource,
     pressure |-> P!Diagnostics(ScopedResults, past, Widths, [lo |-> 0, hi |-> ScopeEnd]),
     actions |-> [i \in DOMAIN node.copies |-> ActionRecord(node.copies[i])]]

VARIABLE report  \* what run returns, NoReport before

NoReport == [results |-> {}]

SummaryInit == Init /\ report = NoReport

Summarize ==
    /\ node.outcome = "done" /\ report = NoReport
    /\ report' = Report
    /\ UNCHANGED vars

SummaryNext == (Next /\ UNCHANGED report) \/ Summarize

SummarySpec == SummaryInit /\ [][SummaryNext]_<<vars, report>>

-----------------------------------------------------------------------------
(* Properties *)

\* The windows, taken together, say of each pod and of the cluster what the
\* requests, the endpoints and the figures for the whole time say.
WindowsAgree(w) ==
    LET windows == report.pressure.windows[w]
        overall == report.pressure.overall
        cluster == ClusterSummary(report)
        sum(figure(_)) == MapThenSumSet(LAMBDA k : figure(windows[k]), DOMAIN windows)
        area(p, f) == sum(LAMBDA x : x.held[p].area[f])
        queued(x) == Max({0, Min({x.start, ScopeEnd}) - (x.start - x.queueTime)})
        end == Min({ScopeEnd, past[Len(past)].end})
    IN  /\ \A p \in Pod :
              LET pod == report.pods[p]
                  own == {x \in report.results : x.pod = p}
              IN  /\ sum(LAMBDA x : x.requested[p].requests) = pod.routed
                  /\ sum(LAMBDA x : x.requested[p].completed) = pod.routed
                  /\ sum(LAMBDA x : x.requested[p].hit) = pod.hit
                  /\ sum(LAMBDA x : x.requested[p].missed) = pod.miss
                  /\ sum(LAMBDA x : x.requested[p].queueWait) = pod.queueTime.sum
                  /\ sum(LAMBDA x : x.held[p].observed) = overall.duration
                  /\ area(p, "running") = pod.busy
                  /\ area(p, "queue") <= Total(own, queued)
                  /\ ~Tickets => area(p, "queue") = Total(own, queued)
                  /\ area(p, "source") + area(p, "target") <= pod.endpointBusy
                  /\ ~Scoped => area(p, "source") + area(p, "target") = pod.endpointBusy
        /\ sum(LAMBDA x : x.stranded.queueWhileIdle) = overall.busyWhileIdle
        /\ sum(LAMBDA x : x.stranded.requests) = overall.queuedTimeWhileIdle
        /\ \A f \in P!Memory :
              /\ report.resource.peak[f]
                    = Max({windows[k].held[p].peak[f] : k \in DOMAIN windows, p \in Pod})
              /\ report.resource.last[f]
                    = MapThenSumSet(LAMBDA p : windows[(end - 1) \div w].held[p].last[f], Pod)
        /\ \A k \in DOMAIN windows :
              windows[k].stranded.capacity <= windows[k].stranded.queueWhileIdle
        /\ DOMAIN windows = {0} =>
              /\ windows[0].cluster.requests = cluster.requests
              /\ windows[0].cluster.missed = cluster.miss
              /\ windows[0].cluster.busy = cluster.busy

\* The counters of the loop say what the results say, and no time is lost
\* between arrival and end.
TotalsAgree ==
    LET stats == node.stats
        b0 == B0GateAudit(report.results)
        ect == EctAudit(report.results)
        cluster == ClusterSummary(report)
        errors == EstimateErrors(report.results)
    IN  /\ AllResults \subseteq RequestResult
        /\ stats.created = Cardinality({x \in AllResults : x.ticket # "NONE"})
        /\ stats.timedOut = Cardinality({x \in AllResults : x.ticket = "TIMED_OUT"})
        /\ stats.completed = Cardinality({x \in AllResults : x.assisted})
        /\ stats.started = stats.completed /\ stats.newPages <= stats.wirePages
        /\ stats.wirePages = Total(AllResults, LAMBDA x : x.wirePages)
        /\ stats.replans = Total(AllResults, LAMBDA x : x.replans)
        /\ NetworkCost.reactiveBusy = 2 * Total(AllResults, LAMBDA x : x.wait)
        /\ \A x \in AllResults :
              x.latency = x.wait + x.queueTime + x.serviceTime
        /\ errors.all.sum = errors.assisted.sum + errors.direct.sum
        /\ errors.assisted.sum = MapThenSumSet(LAMBDA e : errors.pairs[e].sum, DOMAIN errors.pairs)
        /\ \A p \in Pod : report.pods[p].finalLoad = 0 /\ report.pods[p].temporary = 0
        /\ \A g \in {cluster.requests, cluster.input, cluster.miss, cluster.busy} :
              0 <= g[1] /\ g[1] < g[2]
        /\ cluster.latency.p50 <= cluster.latency.p90 /\ cluster.latency.p95 <= cluster.latency.p99
        /\ Tickets /\ ~IsEct =>
              \A x \in report.results : x.gate = "TRANSFER_SELECTED" <=> x.ticket # "NONE"
        /\ b0.selected = report.transfer.created /\ b0.completed + b0.fallback = b0.selected
        /\ IsEct => ect.direct + ect.completed + ect.fallback = Cardinality(report.results)

\* A copy is credited with just the pages it brought that requests found at
\* its target, until they went.
VerdictsAgree ==
    LET s == ProactiveSummary(report.actions)
        found(x, y) == IF y.pod = x.target /\ y.start >= x.ready
                         THEN Cardinality(Chain[node.runs[y.id].hit] \cap x.pages) ELSE 0
        finds(x) == Total(AllResults, LAMBDA y : found(x, y))
        at(p) == {i \in DOMAIN node.copies : node.copies[i].target = p}
    IN  /\ \A i \in DOMAIN node.copies :
              LET x == node.copies[i]
              IN  /\ x.hits <= finds(x)
                  /\ x.lost = Absent => x.hits = finds(x)
                  /\ x.lost # Absent => x.ready <= x.lost
                  /\ x.firstUse # Absent =>
                        \E y \in AllResults : y.start = x.firstUse /\ found(x, y) > 0
        /\ \A p \in Pod :
              MapThenSumSet(LAMBDA i : node.copies[i].hits, at(p))
                <= Total({y \in AllResults : y.pod = p}, LAMBDA y : y.hit)
        /\ s.distinctHit <= s.newPages /\ s.newPages + s.duplicate = s.wirePages
        /\ s.distinctHit <= s.hitPages /\ s.anyUsed <= s.candidates

(* What a finished run reports is one account, though it is kept in three  *)
(* ways, by intervals, by requests and by counters: busy time, queues,     *)
(* transfers, hits and credits come out the same, split or not.            *)
FiguresAgree ==
    report # NoReport => (\A w \in Widths : WindowsAgree(w)) /\ TotalsAgree /\ VerdictsAgree
=============================================================================
