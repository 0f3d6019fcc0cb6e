--------------------------- MODULE TaskMainEngine ---------------------------
(***************************************************************************)
(* The event loop of task_main/engine.py over N pods: run, _arrive,        *)
(* _reactive_assignment, _finish, and the transfers of task_main/          *)
(* transfer.py.                                                            *)
(*                                                                         *)
(* The program is one thread, so a step is a handler.  What varies is the  *)
(* trace: the paths of the requests and their arrival times, which the     *)
(* model picks as it goes.  One iteration of the loop in run is a walk     *)
(* through four stages, each a step the code takes with the pods in a      *)
(* state of its own:                                                       *)
(*                                                                         *)
(*   wait      choose the time of the next event                           *)
(*   deliver   complete the transfers that are ready now, one by one       *)
(*   resume    finish the requests that waited for them, by request id     *)
(*   arrive    take the requests that arrive now, one by one               *)
(*                                                                         *)
(* Between deliver and resume the hits of the whole batch are pinned.      *)
(***************************************************************************)
EXTENDS Proactive

CONSTANTS
    Request,         \* request ids, ordered as numbers
    RoutingPolicy,   \* "R_AFF" or "R_REQ_KV_TASK"
    ProactivePolicy, \* "NONE" or "PERSISTENCE"
    Tokens,          \* Tokens[b] is the number of tokens of page b
    PageTime,        \* ticks one page spends on the wire
    MaxGap,          \* bound: ticks between two arrivals
    Skew             \* bound: how far an id may run ahead of the arrival order

ASSUME RequestAssumption == Request \subseteq Nat /\ IsFiniteSet(Request)
\* A request has one transfer at most, so the ledger never needs more ids.
ASSUME TransferIdAssumption == Transfer = 1 .. Cardinality(Request)
ASSUME PolicyAssumption ==
    /\ RoutingPolicy \in {"R_AFF", "R_REQ_KV_TASK"}
    /\ ProactivePolicy \in {"NONE", "PERSISTENCE"}
    /\ ProactivePolicy # "NONE" => RoutingPolicy = "R_AFF"
ASSUME TimingAssumption ==
    PageTime \in Nat \ {0} /\ MaxGap \in Nat /\ Skew \in Nat /\ Tokens \in [Block -> Nat]

VARIABLES
    now,        \* the time of the current event
    stage,      \* where run stands in its loop
    due,        \* the arrival time of the next request of the trace
    caches,     \* caches[p] is the TaskMainCache of pod p
    load,       \* the CommittedTokenLoad
    transfers,  \* IndependentTransfers.records, by transfer id
    ready,      \* _ready: the wire events still to come
    pending,    \* _pending: the assignments that wait for a transfer
    batch,      \* ready_requests: assignments whose transfer is complete
    served,     \* _requests, the assignments of the completed requests
    seen,       \* CandidateUniverse.seen
    demand      \* ExternalDemandHistory.events, the times per chain

vars == <<now, stage, due, caches, load, transfers, ready, pending, batch, served, seen, demand>>

Arrived == Committed(load)

Remaining == Request \ Arrived

Init ==
    /\ now = 0
    /\ stage = "wait"
    /\ due = 0
    /\ caches = [p \in Pod |-> EmptyCache]
    /\ load = IdleLoad
    /\ transfers = << >>
    /\ ready = {}
    /\ pending = {}
    /\ batch = {}
    /\ served = {}
    /\ seen = {}
    /\ demand = [b \in Block |-> << >>]

-----------------------------------------------------------------------------
(* Transfers *)

(* start: pin the source, reserve the whole wire at the target. *)
StartCopy(pods, id, n, source, target) ==
    [pods EXCEPT
        ![source] = Pin(@, n),
        ![target] = ReserveTemporary(@, id, PlanTemporary(@, Depth(n)))]

NextTransferId == Len(transfers) + 1

WireTime(n) == Depth(n) * PageTime

TransferRecord(request, type, n, source, target) ==
    [request |-> request, type |-> type, chain |-> n, source |-> source, target |-> target,
     start |-> now, ready |-> now + WireTime(n), status |-> "IN_FLIGHT"]

(* The event pushed on the heap for a transfer that starts now. *)
ReadyEvent(request, n) ==
    [time |-> now + WireTime(n), request |-> request, transfer |-> NextTransferId]

InFlightTransfers == {i \in DOMAIN transfers : transfers[i].status = "IN_FLIGHT"}

-----------------------------------------------------------------------------
(* Completion of a request *)

Assignment(request, n, pod, source, routeHit, hit, transfer) ==
    [request |-> request, path |-> n, pod |-> pod, source |-> source,
     routeHit |-> routeHit, hit |-> hit, transfer |-> transfer]

(* _finish, on the cache of the final pod: pin the hit unless the batch    *)
(* did, touch it, publish the prompt if there is room, unpin.              *)
FinishOn(c, n, hit, protected) ==
    LET pinned == IF protected THEN c ELSE Pin(c, hit)
        reused == RecordReuse(pinned, hit)
        after  == IF CanPlanPrompt(reused, n)
                    THEN PublishPrompt(reused, PlanPrompt(reused, n))
                    ELSE reused
    IN  Unpin(after, hit)

(* _finish from the opportunity on: the completed request may start one    *)
(* proactive copy.  pods, loads, candidates and counts are the pods, the   *)
(* load vector, the candidates and the demand the opportunity sees.        *)
Opportunity(request, pods, loads, candidates, counts) ==
    LET rows   == Startable(pods, candidates, counts)
        chain  == FirstOf(rows, counts)
        source == candidates[chain].source
        target == LeastLoaded(ProactiveTargets(pods, candidates, chain), loads)
    IN  IF ProactivePolicy = "NONE" \/ rows = {}
          THEN caches' = pods /\ UNCHANGED <<transfers, ready>>
          ELSE /\ caches' = StartCopy(pods, NextTransferId, chain, source, target)
               /\ transfers' = Append(transfers,
                      TransferRecord(request, "PROACTIVE", chain, source, target))
               /\ ready' = ready \cup {ReadyEvent(request, chain)}

PodsAfter(a, protected) ==
    [caches EXCEPT ![a.pod] = FinishOn(@, a.path, a.hit, protected)]

Finish(a, protected, ld, chains, history) ==
    LET pods == PodsAfter(a, protected)
    IN  /\ Opportunity(a.request, pods, LoadVector(ld, now),
                       Candidates(pods, transfers, chains), DemandCounts(history, now))
        /\ load' = Query(ld, now)
        /\ served' = served \cup {a}

-----------------------------------------------------------------------------
(* The loop *)

NextEventTimes == {e.time : e \in ready} \cup (IF Remaining = {} THEN {} ELSE {due})

\* Mutant: arrivals are served before the transfers of an earlier time.
TickToArrival ==
    /\ stage = "wait"
    /\ NextEventTimes # {}
    /\ now' = IF Remaining = {} THEN Min(NextEventTimes) ELSE due
    /\ stage' = "deliver"
    /\ UNCHANGED <<due, caches, load, transfers, ready, pending, batch, served, seen, demand>>

Tick ==
    /\ stage = "wait"
    /\ NextEventTimes # {}
    /\ now' = Min(NextEventTimes)
    /\ stage' = "deliver"
    /\ UNCHANGED <<due, caches, load, transfers, ready, pending, batch, served, seen, demand>>

ReadyNow == {e \in ready : e.time = now}

(* Heap order among the events of one time. *)
PoppedFirst(e, events) ==
    \A f \in events :
        e.request < f.request \/ (e.request = f.request /\ e.transfer <= f.transfer)

\* Mutant: the buffer's owner is released instead of the source.
DeliverUnpinsTarget ==
    /\ stage = "deliver"
    /\ \E e \in ReadyNow :
          LET t == transfers[e.transfer]
          IN  /\ PoppedFirst(e, ReadyNow)
              /\ caches' = [caches EXCEPT
                     ![t.target] = Unpin(CompleteTransfer(@, e.transfer, t.chain), t.chain)]
              /\ transfers' = [transfers EXCEPT ![e.transfer].status = "COMPLETED"]
              /\ ready' = ready \ {e}
              /\ LET waiting == {a \in pending : a.transfer = e.transfer}
                 IN  pending' = pending \ waiting /\ batch' = batch \cup waiting
    /\ UNCHANGED <<now, stage, due, load, served, seen, demand>>

(* complete, and what run does with the request that waited. *)
Deliver ==
    /\ stage = "deliver"
    /\ \E e \in ReadyNow :
          LET t == transfers[e.transfer]
          IN  /\ PoppedFirst(e, ReadyNow)
              /\ caches' = [caches EXCEPT
                     ![t.target] = CompleteTransfer(@, e.transfer, t.chain),
                     ![t.source] = Unpin(@, t.chain)]
              /\ transfers' = [transfers EXCEPT ![e.transfer].status = "COMPLETED"]
              /\ ready' = ready \ {e}
              /\ LET waiting == {a \in pending : a.transfer = e.transfer}
                 IN  pending' = pending \ waiting /\ batch' = batch \cup waiting
    /\ UNCHANGED <<now, stage, due, load, served, seen, demand>>

(* A pin per assignment of the batch that ends on the pod. *)
PinEach(c, here) ==
    [c EXCEPT
        !.pins    = [b \in Block |-> @[b] + Cardinality({a \in here : b \in Chain[a.hit]})],
        !.version = @ + Cardinality(here)]

Protect ==
    /\ stage = "deliver"
    /\ ReadyNow = {}
    /\ caches' = [p \in Pod |-> PinEach(caches[p], {a \in batch : a.pod = p})]
    /\ stage' = "resume"
    /\ UNCHANGED <<now, due, load, transfers, ready, pending, batch, served, seen, demand>>

Resume ==
    /\ stage = "resume"
    /\ \E a \in batch :
          /\ \A x \in batch : a.request <= x.request
          /\ Finish(a, TRUE, load, seen, demand)
          /\ batch' = batch \ {a}
    /\ UNCHANGED <<now, stage, due, pending, seen, demand>>

BatchDone ==
    /\ stage = "resume"
    /\ batch = {}
    /\ stage' = "arrive"
    /\ UNCHANGED <<now, due, caches, load, transfers, ready, pending, batch, served, seen, demand>>

(* No request arrives now any more: back to the head of the loop. *)
ArrivalsDone ==
    /\ stage = "arrive"
    /\ Remaining = {} \/ due # now
    /\ stage' = "wait"
    /\ UNCHANGED <<now, due, caches, load, transfers, ready, pending, batch, served, seen, demand>>

-----------------------------------------------------------------------------
(* Arrival of a request *)

(* The ids the next request of the trace may have, left being unused.      *)
InReach(left) == {x \in left : Cardinality({y \in left : y < x}) <= Skew}

(* The trace: the next request is r with path n.  Requests are sorted by   *)
(* arrival time and, at one time, by id.                                   *)
Arrives(r, n) ==
    /\ stage = "arrive"
    /\ due = now
    /\ r \in InReach(Remaining)
    /\ \A e \in load.entries : e.time = now => e.request < r
    /\ n \in Block
    /\ IF Remaining = {r}
         THEN due' = now
         ELSE /\ due' \in now .. now + MaxGap
              /\ due' = now => \E x \in InReach(Remaining \ {r}) : x > r

Observed(n) == FullPagePrefix(n)

SeenWith(n) == seen \cup Chain[Observed(n)]

DemandWith(n) ==
    [b \in Block |-> IF b \in Chain[Observed(n)] THEN Append(demand[b], now) ELSE demand[b]]

Loads == LoadVector(load, now)

Source(n) == AffinityPod(caches, Loads, n)

RouteHit(n) == Lookup(caches[Source(n)], n)

MissOf(n, hit) == SumFunctionOnSet(Tokens, Chain[n] \ Chain[hit])

(* The gate of the reactive policy is passed and there is a prefix to use  *)
(* elsewhere.                                                              *)
Reassign(n, policy) ==
    /\ policy = "R_REQ_KV_TASK"
    /\ Overloaded(Source(n), Loads)
    /\ Transferable(caches, Source(n), n) # Root

Feasible(n) == FeasibleTargets(caches, Source(n), Transferable(caches, Source(n), n))

Target(n) == ReactiveTarget(caches, Loads, Source(n), Transferable(caches, Source(n), n))

IsDirect(n) == Target(n) \in DirectTargets(caches, Source(n), Transferable(caches, Source(n), n))

(* A request that needs no transfer is committed and finished at once on   *)
(* pod p, where it hits path hit.                                          *)
ServeNow(r, n, p, hit) ==
    /\ Finish(Assignment(r, n, p, Source(n), RouteHit(n), hit, 0), FALSE,
              CommitLoad(load, r, p, MissOf(n, hit), now), SeenWith(n), DemandWith(n))
    /\ seen' = SeenWith(n)
    /\ demand' = DemandWith(n)
    /\ UNCHANGED <<now, stage, pending, batch>>

ArriveAtSource(r, n, policy) ==
    /\ Arrives(r, n)
    /\ Reassign(n, policy) => Feasible(n) = {}
    /\ ServeNow(r, n, Source(n), RouteHit(n))

ArriveDirect(r, n, policy) ==
    /\ Arrives(r, n)
    /\ Reassign(n, policy) /\ Feasible(n) # {} /\ IsDirect(n)
    /\ ServeNow(r, n, Target(n), Lookup(caches[Target(n)], n))

\* Mutant: the assignment waits, and nothing will wake it.
ArriveCopyUnheaped(r, n, policy) ==
    LET chain  == Transferable(caches, Source(n), n)
        source == Source(n)
        target == Target(n)
    IN  /\ Arrives(r, n)
        /\ Reassign(n, policy) /\ Feasible(n) # {} /\ ~IsDirect(n)
        /\ caches' = StartCopy(caches, NextTransferId, chain, source, target)
        /\ transfers' = Append(transfers, TransferRecord(r, "REACTIVE", chain, source, target))
        /\ pending' = pending \cup
               {Assignment(r, n, target, source, RouteHit(n), chain, NextTransferId)}
        /\ load' = CommitLoad(load, r, target, MissOf(n, chain), now)
        /\ seen' = SeenWith(n)
        /\ demand' = DemandWith(n)
        /\ UNCHANGED <<now, stage, batch, served, ready>>

(* _start_reactive_plan: only the prefix on the wire is promised as hit.   *)
ArriveCopy(r, n, policy) ==
    LET chain  == Transferable(caches, Source(n), n)
        source == Source(n)
        target == Target(n)
    IN  /\ Arrives(r, n)
        /\ Reassign(n, policy) /\ Feasible(n) # {} /\ ~IsDirect(n)
        /\ caches' = StartCopy(caches, NextTransferId, chain, source, target)
        /\ transfers' = Append(transfers, TransferRecord(r, "REACTIVE", chain, source, target))
        /\ ready' = ready \cup {ReadyEvent(r, chain)}
        /\ pending' = pending \cup
               {Assignment(r, n, target, source, RouteHit(n), chain, NextTransferId)}
        /\ load' = CommitLoad(load, r, target, MissOf(n, chain), now)
        /\ seen' = SeenWith(n)
        /\ demand' = DemandWith(n)
        /\ UNCHANGED <<now, stage, batch, served>>

(* run is over; everything it started must be drained. *)
Finished == stage = "wait" /\ NextEventTimes = {}

Stop == Finished /\ UNCHANGED vars

Next ==
    \/ Tick
    \/ Deliver
    \/ Protect
    \/ Resume
    \/ BatchDone
    \/ \E r \in Request, n \in Block :
          \/ ArriveAtSource(r, n, RoutingPolicy)
          \/ ArriveDirect(r, n, RoutingPolicy)
          \/ ArriveCopy(r, n, RoutingPolicy)
    \/ ArrivalsDone
    \/ Stop

Spec == Init /\ [][Next]_vars

-----------------------------------------------------------------------------
(* Properties *)

AssignmentRecord ==
    [request : Request, path : Block, pod : Pod, source : Pod, routeHit : Node, hit : Node,
     transfer : Transfer \cup {0}]

PinnedBy(p, b) ==
    Cardinality({i \in InFlightTransfers : transfers[i].source = p /\ b \in Chain[transfers[i].chain]})
        + (IF stage = "resume" THEN Cardinality({a \in batch : a.pod = p /\ b \in Chain[a.hit]})
                               ELSE 0)

(* Protection has an owner and ends with it: between handlers the pins of  *)
(* a page are the transfers it is being read for and the resumed requests  *)
(* that were promised it, and a buffer is the wire of a transfer in        *)
(* flight.  At the end of the run nothing is pinned and nothing reserved.  *)
ProtectionAccounted ==
    \A p \in Pod :
        /\ \A b \in Block : caches[p].pins[b] = PinnedBy(p, b)
        /\ \A i \in Transfer :
              caches[p].temporary[i] =
                  IF i \in InFlightTransfers /\ transfers[i].target = p
                    THEN Depth(transfers[i].chain)
                    ELSE 0

\* Events happen at their time and in the order of section 13 of the
\* protocol: nothing due is in the past, the heap holds exactly the transfers
\* in flight, and no request is finished or routed at a time at which a
\* transfer is still to be delivered.
OnTime ==
    /\ {e.transfer : e \in ready} = InFlightTransfers
    /\ \A e \in ready :
          /\ e.time = transfers[e.transfer].ready
          /\ IF stage \in {"resume", "arrive"} THEN e.time > now ELSE e.time >= now
    /\ Remaining # {} => due >= now

(* What a request was promised when it was routed is there when it is      *)
(* finished, whatever was published or copied in between, so the           *)
(* "committed request Prefix is no longer available" of _finish never      *)
(* happens: until delivery the source holds the prefix and the target has  *)
(* it on the way, and from delivery to its turn the target holds it.  Each *)
(* event has its time and its turn.                                        *)
CommittedHitsKept ==
    /\ OnTime
    /\ \A a \in pending :
          /\ a.transfer \in InFlightTransfers
          /\ transfers[a.transfer].target = a.pod
          /\ transfers[a.transfer].chain = a.hit
          /\ Published(caches[transfers[a.transfer].source], a.hit)
    /\ \A a \in batch : Published(caches[a.pod], a.hit)

(* The running sums that routing reads are the tokens committed to the pod *)
(* in the last LoadWindow ticks, the left end excluded (load.py).          *)
LoadIsWindow == \A p \in Pod : load.totals[p] = WindowTokens(load, p)

(* Handing a request to another pod costs it no full page of the prefix it *)
(* was routed for, and promises nothing that prefix did not have.          *)
HandoverLosesOnlyTail ==
    \A a \in served \cup pending \cup batch :
        /\ Chain[a.hit] \subseteq Chain[a.routeHit]
        /\ (Chain[a.routeHit] \ Chain[a.hit]) \cap FullPage = {}

(* No proactive copy is started for a chain that an earlier proactive copy *)
(* still brings to the same pod, on its own or as the prefix of a deeper   *)
(* chain.                                                                  *)
NoDoubleCoverage ==
    \A i, j \in InFlightTransfers :
        (/\ i < j
         /\ transfers[i].type = "PROACTIVE" /\ transfers[j].type = "PROACTIVE"
         /\ transfers[i].target = transfers[j].target)
            => transfers[j].chain \notin Chain[transfers[i].chain]

(* The run ends, every request of the trace is finished exactly once by    *)
(* then and none waits for a transfer ("undrained reactive requests").     *)
AllServed ==
    <>[](/\ Finished
         /\ pending = {} /\ batch = {}
         /\ {a.request : a \in served} = Request
         /\ Cardinality(served) = Cardinality(Request))
=============================================================================
