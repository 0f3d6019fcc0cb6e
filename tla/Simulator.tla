----------------------------- MODULE Simulator ------------------------------
(***************************************************************************)
(* The event loop of the earlier simulator, SimulatorEngine.run in         *)
(* simulator/engine.py, with its proactive copies.  One step takes the     *)
(* first event of the heap and handles it: events of one time are ordered  *)
(* by priority, then by insertion.  The trace is not fixed beforehand: the *)
(* path of a request and the time of the next are chosen when it arrives.  *)
(*                                                                         *)
(* Proactive candidates are ranked by what has been seen, by PERSIST,      *)
(* RECENCY or COST_AWARE.  FUTURE_DEMAND, which reads the trace ahead, and *)
(* the probes and forced copies of O2P and O2A are left out.  The figures  *)
(* a run reports of itself are in Summary; here is what it keeps for them. *)
(***************************************************************************)
EXTENDS ReactiveNode

CONSTANTS
    Mode,       \* the configurations to run
    Rank,       \* the numbers of the hashes
    RequestPath,\* bound: the paths of the trace
    Gap,        \* bound: ticks between two arrivals
    Phase,      \* trigger_phase_ms
    Period,     \* trigger_period_ms
    TriggerEnd, \* oracle_visibility_end_ms
    History,    \* persistence_history_ms
    TopK,       \* persistence_top_k
    TaskWeight, \* task_weight, by the length of a path
    Decay,      \* what an arrival counts for in RECENCY, by its age
    Quantile,   \* recency_selection_quantile, in percent
    ValueRef,   \* cost_v_ref, over horizon / history, the scale of value_hat
    TimeRef,    \* cost_t_ref_ms
    MaxActions, \* max_proactive_actions_per_tick
    Fanout,     \* proactive_fanout_targets
    PageBytes,  \* page_bytes
    Rate,       \* proactive_byte_rate, in bytes per tick
    Burst       \* proactive_burst_bytes

ASSUME SimulatorAssumption ==
    /\ Request = 1 .. Cardinality(Request)
    /\ RequestPath \subseteq Block /\ Gap \subseteq Nat /\ Rank \in Injection(Block, Nat)
    /\ Mode \subseteq [routing : {"R_AFF", "R_LEAST", "R_REQ_KV_SIMPLE", "R_REQ_KV",
                                  "R_REQ_KV_TASK", "R_REACTIVE_ECT_V1"},
                       action : {"NONE", "COPY", "MOVE_SAFE"}, noEvict : BOOLEAN,
                       strategy : {"PERSIST", "RECENCY", "COST_AWARE"}]
    /\ TaskWeight \in [{Depth(n) : n \in Block} -> Nat] /\ Decay \in [0 .. TriggerEnd -> Nat \ {0}]
    /\ \A t \in 1 .. TriggerEnd : Decay[t] <= Decay[t - 1]
    /\ Quantile \in 0 .. 100 /\ {ValueRef, TimeRef} \subseteq Nat \ {0}
    /\ {Phase, Period, TriggerEnd, History, TopK, MaxActions, PageBytes, Rate, Burst} \subseteq Nat
    /\ Period > 0 /\ Fanout \in {1, 2}

VARIABLES
    node,   \* what the handlers share
    due,    \* the time of the next arrival, Absent after the last
    tick,   \* the time of the next trigger, Absent after the last
    past,   \* pressure_intervals
    brought \* history: the copy that brought a page, 0 for none

vars == <<mode, node, due, tick, past, brought>>

NoPages == [p \in Pod |-> [x \in Block |-> 0]]

FirstTick(m) == IF m.action = "NONE" \/ Phase >= TriggerEnd THEN Absent ELSE Phase

Init ==
    /\ mode \in Mode
    /\ node = [now |-> 0, pods |-> [p \in Pod |-> EmptyPod], runs |-> [r \in Request |-> EmptyRun],
               gate |-> <<>>, events |-> <<>>, copies |-> <<>>, nextTicket |-> 0,
               \* ticket ids are transfer ids; next to ECT the copies start behind them
               nextTransfer |-> IF mode.routing = "R_REACTIVE_ECT_V1" /\ mode.action # "NONE"
                                  THEN Cardinality(Request) ELSE 0,
               tokens |-> Burst, refilled |-> 0, stats |-> NoStats,
               replicas |-> NoPages, gone |-> [p \in Pod |-> {}], outcome |-> "running"]
    /\ due = IF Request = {} THEN Absent ELSE 0
    /\ tick = FirstTick(mode)
    /\ past = <<>>
    /\ brought = NoPages

-----------------------------------------------------------------------------
(* Candidates *)

Arrived(w) == {r \in Request : w.runs[r].state # "NONE"}

Seen(w) == {w.runs[r].path : r \in Arrived(w)}

KnownPages(w) == UNION {Chain[n] : n \in Seen(w)}

(* online_hashes: ends of requests, pages where paths part, and resident   *)
(* leaves.                                                                 *)
Candidates(w) ==
    LET known == KnownPages(w)
        leaves == {x \in known : \E p \in Pod :
                      x \in w.pods[p].cache.pages /\ Below(w.pods[p].cache.pages, x) = {}}
    IN  Seen(w) \cup {x \in known : Cardinality(Below(known, x)) > 1} \cup leaves

Sources(w, n) == {p \in Pod : Holds(w, p, n)}

Demand(w, n) == {r \in Arrived(w) : n \in Chain[w.runs[r].path]}

Recent(w, n) == {r \in Demand(w, n) : w.runs[r].arrival > w.now - History}

Persistence(w, n) == Cardinality(Recent(w, n))

Recency(w, n) == SumFunction([r \in Demand(w, n) |-> Decay[w.now - w.runs[r].arrival]])

Value(w, n) == SumFunction([r \in Recent(w, n) |-> TaskWeight[Depth(w.runs[r].path)]])

Score(w, n) ==
    CASE mode.strategy = "PERSIST" -> Persistence(w, n)
      [] mode.strategy = "RECENCY" -> Recency(w, n)
      [] mode.strategy = "COST_AWARE" -> Value(w, n)

(* The rank of x: higher scores first, then deeper pages, then hashes.     *)
RankIn(items, x) ==
    LET key(y) == <<-y.score, -Depth(y.hash), Rank[y.hash]>>
    IN  1 + Cardinality({y \in items : Before(key(y), key(x))})

ByScore(items) ==
    [i \in 1 .. Cardinality(items) |-> CHOOSE x \in items : RankIn(items, x) = i]

\* Element k, counted from 0, of the values of f when they are sorted.
Ordered(f, k) ==
    CHOOSE v \in {f[x] : x \in DOMAIN f} :
        /\ Cardinality({x \in DOMAIN f : f[x] < v}) <= k
        /\ Cardinality({x \in DOMAIN f : f[x] <= v}) > k

(* 100 times the q-th percentile, which lies between two neighbours. *)
Percentile(f, q) ==
    LET position == (Cardinality(DOMAIN f) - 1) * q
        low == position \div 100
        part == position % 100
    IN  IF part = 0 THEN 100 * Ordered(f, low)
        ELSE (100 - part) * Ordered(f, low) + part * Ordered(f, low + 1)

(* The shortlist of a tick: the first TopK, or under RECENCY what reaches  *)
(* the quantile.  What every pod has, or none, is no candidate.            *)
Ranked(w) ==
    LET scored == {[hash |-> n, score |-> Score(w, n)] : n \in Candidates(w)}
        positive == {x \in scored : x.score > 0 /\ Sources(w, x.hash) \notin {{}, Pod}}
        all == ByScore(positive)
        threshold == Percentile([x \in positive |-> x.score], Quantile)
    IN  IF mode.strategy = "RECENCY" THEN ByScore({x \in positive : 100 * x.score >= threshold})
          ELSE SubSeq(all, 1, Min({TopK, Len(all)}))

(* cost_aware_score: half the relative load of the target and a tenth of   *)
(* the relative time on the wire are set against the value.  Only the sign *)
(* of it is looked at, so it is multiplied out.                            *)
Worthwhile(w, n, m, t) ==
    LET most == Max({Load(w, p) : p \in Pod})
        gain == 10 * TimeRef * Value(w, n) - ValueRef * Wire(m)
    IN  IF most = 0 THEN gain > 0 ELSE 2 * most * gain > 10 * TimeRef * ValueRef * Load(w, t)

-----------------------------------------------------------------------------
(* TRIGGER_TICK *)

\* Mutant: the time that counts for the refill is never noted.
RefillAgain(w) == [w EXCEPT !.tokens = Min({Burst, @ + Rate * (w.now - w.refilled)})]

(* TokenBucket.refill; both can_afford and consume begin with it. *)
Refill(w) ==
    [w EXCEPT !.tokens = Min({Burst, @ + Rate * (w.now - w.refilled)}), !.refilled = w.now]

\* can_afford and consume, after the refill
Affordable(w, m) == PageBytes * Depth(m) <= w.tokens

InFlight(w, n, p) == \E i \in ActiveCopies(w) : w.copies[i].hash = n /\ w.copies[i].target = p

Idle(w, n) == {p \in Sources(w, n) : ~Busy(w, p)}

HasFree(c, k) == MemoryUsed(c) + k <= Capacity

(* The copy of prefix m of candidate n from s to t. *)
StartCopy(w, n, m, s, t) ==
    LET id == w.nextTransfer
        ready == w.now + Wire(m)
        sent == [Reserve([w EXCEPT !.nextTransfer = @ + 1], id, s, t, m) EXCEPT
            !.tokens = @ - PageBytes * Depth(m),
            !.copies = Append(@, [id |-> id, hash |-> n, path |-> m, source |-> s, target |-> t,
                                  start |-> w.now, ready |-> ready, active |-> TRUE,
                                  score |-> Score(w, n), pages |-> {}, used |-> {},
                                  hits |-> 0, firstUse |-> Absent, lost |-> Absent])]
    IN  Schedule(sent, ready, "PROACTIVE_TRANSFER_COMPLETE", Len(sent.copies))

(* One turn for one target.  A state x of the loops is the node w, the     *)
(* number of copies started, the targets tried, and whether to leave.      *)
Turn(x, n, m) ==
    LET s == Best(Idle(x.w, n), LAMBDA p : <<Load(x.w, p), p>>)
        targets == {p \in Pod \ ({s} \cup x.tried) :
                       ~Holds(x.w, p, m) /\ ~Busy(x.w, p) /\ ~InFlight(x.w, n, p)}
        t == Best(targets, LAMBDA p : <<Load(x.w, p), -Depth(Hit(x.w, p, n)), p>>)
        w == Refill(x.w)
        k == Depth(m)
    IN  IF x.leave \/ x.started >= MaxActions \/ Idle(x.w, n) = {} \/ targets = {}
          THEN [x EXCEPT !.leave = TRUE]
        ELSE IF mode.strategy = "COST_AWARE" /\ ~Worthwhile(x.w, n, m, t)
          THEN [x EXCEPT !.tried = @ \cup {t}]
        ELSE IF ~Affordable(w, m) THEN [x EXCEPT !.w = w, !.leave = TRUE]
        ELSE IF \/ mode.noEvict /\ ~HasFree(w.pods[t].cache, k)
                \/ ~CanAdmit(w.pods[t].cache, k)
          THEN [x EXCEPT !.w = w, !.tried = @ \cup {t}]
        ELSE IF ~CanReserve(w, t, m)
          THEN [x EXCEPT !.w = Unreserved([w EXCEPT !.nextTransfer = @ + 1], s, t, m)]
        ELSE [x EXCEPT !.w = StartCopy(w, n, m, s, t), !.started = @ + 1, !.tried = @ \cup {t}]

SecondTurn(x, n, m) == IF Fanout = 1 THEN x ELSE Turn(x, n, m)

(* All turns of one candidate.  Tickets that wait go first. *)
Offer(x, candidate) ==
    LET n == candidate.hash
        m == FullPagePrefix(n)
    IN  IF x.started >= MaxActions \/ x.w.gate # <<>> \/ Idle(x.w, n) = {} \/ m = Root THEN x
        ELSE SecondTurn(Turn([x EXCEPT !.tried = {}, !.leave = FALSE], n, m), n, m)

OnTick(w) ==
    LET list == Ranked(w)
        after[i \in 0 .. Len(list)] ==
            IF i = 0 THEN [w |-> w, started |-> 0, tried |-> {}, leave |-> FALSE]
            ELSE Offer(after[i - 1], list[i])
        x == after[Len(list)]
    IN  Count(Count(x.w, "triggers", 1), "idleTriggers", IF x.started = 0 THEN 1 ELSE 0)

(* emit_history_candidate_audit: what a tick might copy, and where to.  A  *)
(* candidate without an idle source has no rank, though it does take its   *)
(* place on the shortlist.                                                 *)
AuditOf(w) ==
    LET scored == {[hash |-> n, score |-> Persistence(w, n)] : n \in Candidates(w)}
        positive == {x \in scored : x.score > 0 /\ Sources(w, x.hash) # Pod /\ Idle(w, x.hash) # {}}
        source(n) == Best(Idle(w, n), LAMBDA p : <<Load(w, p), p>>)
        legal(n, m) ==
            {p \in Pod \ {source(n)} :
                /\ w.gate = <<>> /\ m # Root /\ Affordable(w, m)
                /\ ~Holds(w, p, m) /\ ~Busy(w, p) /\ ~InFlight(w, n, p)
                /\ mode.noEvict => HasFree(w.pods[p].cache, Depth(m))
                /\ CanAdmit(w.pods[p].cache, Depth(m))}
    IN  {[hash |-> x.hash, score |-> x.score, rank |-> RankIn(positive, x),
          legal |-> legal(x.hash, FullPagePrefix(x.hash))] : x \in positive}

\* Mutant: the audit reads the bucket as it was left.
HistoryAuditUnfilled(w) == AuditOf(w)

HistoryAudit(w) == AuditOf(Refill(w))

-----------------------------------------------------------------------------
(* PROACTIVE_TRANSFER_COMPLETE *)

\* Mutant: the copy is credited with its whole path.
CreditedWhole(w, i) ==
    LET x == w.copies[i]
    IN  [w EXCEPT !.copies[i].pages = Chain[x.path], !.replicas[x.target] =
            [y \in Block |-> IF y \in Chain[x.path] THEN i ELSE @[y]]]

(* The copy is credited with the pages behind the hit it found. *)
Credited(w, i) ==
    LET x == w.copies[i]
        new == Chain[x.path] \ Chain[Hit(w, x.target, x.path)]
    IN  [w EXCEPT !.copies[i].pages = new,
                  !.replicas[x.target] = [y \in Block |-> IF y \in new THEN i ELSE @[y]]]

(* What other transfers take from the source only tells two reasons for a  *)
(* blocked release apart: it is pinned.                                    *)
OnCopied(w, i) ==
    LET x == w.copies[i]
        released(c) == IF mode.action = "MOVE_SAFE" THEN ReleaseSuffix(c, x.path) ELSE c
        landed == [Released(Credited(w, i), x) EXCEPT
            !.pods[x.target].cache = CommitTransferTemporary(@, x.id, x.path)]
        done == [landed EXCEPT
            !.pods[x.source].cache = released(Unpin(@, x.path)), !.copies[i].active = FALSE]
    IN  Check(WakeGate(done),
              Missing(w.pods[x.target].cache, x.path) <= w.pods[x.target].cache.temporary[x.id])

-----------------------------------------------------------------------------
(* The loop *)

Priority(kind) ==
    CASE kind \in {"SERVICE_DONE", "TRANSFER_COMPLETE", "PROACTIVE_TRANSFER_COMPLETE"} -> 0
      [] kind = "TRANSFER_TIMEOUT" -> 1
      [] kind = "REQUEST_ARRIVAL" -> 2
      [] kind \in {"TRANSFER_ENQUEUE", "TRANSFER_ADMIT"} -> 3
      [] kind = "SERVICE_START" -> 4
      [] kind = "TRIGGER_TICK" -> 5

NextRequest == Cardinality(Arrived(node)) + 1

(* The heap: what handlers scheduled, the next arrival and the next tick.  *)
Heap ==
    {[time |-> node.events[i].time, kind |-> node.events[i].kind, id |-> node.events[i].id,
      at |-> i] : i \in DOMAIN node.events}
    \cup {e \in {[time |-> due, kind |-> "REQUEST_ARRIVAL", id |-> NextRequest, at |-> 0],
                 [time |-> tick, kind |-> "TRIGGER_TICK", id |-> 0, at |-> 0]} : e.time # Absent}

First == Best(Heap, LAMBDA e : <<e.time, Priority(e.kind), e.at>>)

\* The first event, as a set: none unless it is of this kind.
Popped(kind) ==
    {e \in Heap : node.outcome = "running" /\ e.kind = kind /\ e = First}

\* Mutant: evictions are not looked up before an event is handled.
NotReconciled(w) == w

(* reconcile_evictions: a page that has gone takes its credit along, and   *)
(* its copy learns when the first went.                                    *)
Reconciled(w) ==
    LET hit(i) == \E p \in Pod : \E x \in w.gone[p] : w.replicas[p][x] = i
    IN  [w EXCEPT
            !.replicas = [p \in Pod |-> [x \in Block |-> IF x \in w.gone[p] THEN 0 ELSE @[p][x]]],
            !.copies = [i \in DOMAIN @ |->
                IF @[i].lost = Absent /\ hit(i) THEN [@[i] EXCEPT !.lost = w.now] ELSE @[i]]]

(* The state in which the handler of event e begins. *)
Taken(e) ==
    [Reconciled(node) EXCEPT !.now = e.time,
                             !.events = IF e.at = 0 THEN @ ELSE Sequence!RemoveAt(@, e.at)]

(* What is noted of the time since the last event, up to t: of each pod,   *)
(* what it did and held meanwhile, and its load at both ends.              *)
Interval(w, t) ==
    [start |-> w.now, end |-> t,
     pods |-> [p \in Pod |->
        LET pod == w.pods[p]
        IN  [before |-> Load(w, p), after |-> Load([w EXCEPT !.now = t], p),
             queue |-> pod.queue, running |-> pod.running # Absent,
             queued |-> SumFunction([r \in Range(pod.queue) |-> w.runs[r].estimate]),
             remote |-> SumFunction(pod.pressure),
             resident |-> pod.cache.resident, private |-> pod.cache.privatePages,
             temporary |-> pod.cache.temporaryPages, used |-> MemoryUsed(pod.cache),
             source |-> pod.sends, target |-> pod.receives]]]

Pages(w, p) == w.pods[p].cache.pages

(* The handler of the first event has made w of the node; pages that came  *)
(* belong to the copy with number i.                                       *)
Handled(w, i) ==
    /\ node' = [w EXCEPT !.gone = [p \in Pod |-> Pages(node, p) \ Pages(w, p)]]
    /\ past' = IF w.now > node.now THEN Append(past, Interval(node, w.now)) ELSE past
    /\ brought' = [p \in Pod |-> [x \in Block |->
          CASE x \in Pages(w, p) \ Pages(node, p) -> i
            [] x \notin Pages(w, p) -> 0
            [] OTHER -> brought[p][x]]]
    /\ UNCHANGED mode

On(kind, handler(_, _)) ==
    /\ \E e \in Popped(kind) : Handled(handler(Taken(e), e.id), 0)
    /\ UNCHANGED <<due, tick>>

Arrival ==
    /\ \E e \in Popped("REQUEST_ARRIVAL"), n \in RequestPath :
          Handled(OnArrival(Taken(e), e.id, n), 0)
    /\ IF NextRequest = Cardinality(Request) THEN due' = Absent
       ELSE \E gap \in Gap : due' = due + gap
    /\ UNCHANGED tick

Enqueue == On("TRANSFER_ENQUEUE", LAMBDA w, r : Schedule(w, w.now, "TRANSFER_ADMIT", r))

Admit == On("TRANSFER_ADMIT", OnAdmit)

Expire == On("TRANSFER_TIMEOUT", OnTimeout)

Complete == On("TRANSFER_COMPLETE", OnComplete)

ServiceStart == On("SERVICE_START", OnServiceStart)

ServiceDone == On("SERVICE_DONE", OnServiceDone)

Trigger ==
    /\ \E e \in Popped("TRIGGER_TICK") : Handled(OnTick(Taken(e)), 0)
    /\ tick' = IF tick + Period < TriggerEnd THEN tick + Period ELSE Absent
    /\ UNCHANGED due

Copied ==
    /\ \E e \in Popped("PROACTIVE_TRANSFER_COMPLETE") : Handled(OnCopied(Taken(e), e.id), e.id)
    /\ UNCHANGED <<due, tick>>

(* The checks at the end of run: everything has drained, *)
Drained ==
    /\ \A r \in Request : node.runs[r].state = "DONE" /\ node.runs[r].owner = Absent
    /\ node.gate = <<>>
    /\ \A p \in Pod :
          LET pod == node.pods[p]
          IN  /\ pod.queue = <<>> /\ pod.running = Absent /\ pod.busy = Absent
              /\ ~pod.sends /\ ~pod.receives
              /\ \A r \in Request : pod.pressure[r] = 0

\* under ECT every request has a plan, and a COPY was completed or fell back,
EctPartition ==
    LET selected(type) == {r \in Request : node.runs[r].plan = type}
        assisted == {r \in Request : node.runs[r].assisted}
    IN  /\ selected("DIRECT") \cup selected("COPY") = Request
        /\ assisted \subseteq selected("COPY")
        /\ Cardinality(selected("COPY") \ assisted)
              = Cardinality({r \in selected("COPY") : node.runs[r].fallback})

\* every request of TASK stopped at one of its gates or passed it,
TaskPartition ==
    LET stats == node.stats
    IN  /\ \A r \in Request :
              node.runs[r].gate \in {"NO_CACHE_SOURCE", "NO_TRANSFERABLE_PREFIX", "SOURCE_IS_BEST_TARGET",
                                    "RELATIVE_GATE_REJECT", "TARGET_ALREADY_HAS_PREFIX",
                                    "TRANSFER_SELECTED"}
        /\ stats.completed <= stats.started /\ stats.started <= stats.created

\* history_current_only, which two of the routes combine with copies
HistoryOnly == mode.action # "NONE" /\ mode.routing \in {"R_REQ_KV", "R_REACTIVE_ECT_V1"}

\* and every decision to copy was carried out, with tokens that were there.
CopiesBalance ==
    /\ 0 <= node.tokens /\ node.tokens <= Burst
    /\ ActiveCopies(node) = {}
    /\ node.stats.idleTriggers + Len(node.copies) = node.stats.triggers

Balanced ==
    /\ Drained
    /\ IsEct => EctPartition
    /\ IsTask => TaskPartition
    /\ HistoryOnly => CopiesBalance

Finish ==
    /\ node.outcome = "running" /\ Heap = {}
    /\ node' = [Reconciled(node) EXCEPT !.outcome = IF Balanced THEN "done" ELSE "assertion"]
    /\ UNCHANGED <<mode, due, tick, past, brought>>

Next ==
    \/ Arrival \/ Enqueue \/ Admit \/ Expire \/ Complete
    \/ ServiceStart \/ ServiceDone \/ Trigger \/ Copied \/ Finish

Spec == Init /\ [][Next]_vars

-----------------------------------------------------------------------------
(* Properties *)

(* No trace makes one of the assertions of the loop, of the cache or of    *)
(* the end of the run fail: the run serves every request, or stops at a    *)
(* request that finds no room.                                             *)
NeverAsserts == node.outcome # "assertion"

\* The transfers that have pod p at one end.
Reactive(p, end) == {r \in WaitingFor(node) : node.runs[r].transfer[end] = p}
Proactive(p, end) == {i \in ActiveCopies(node) : node.copies[i][end] = p}

(* Pins, reservations, endpoints and announced load are held by exactly    *)
(* those that need them: a request in service, a transfer on the wire, a   *)
(* ticket that waits or travels.  Nothing leaks when a ticket is planned   *)
(* anew, times out, falls back or is refused.                              *)
HoldsAccounted ==
    node.outcome = "running" =>
    /\ \A p \in Pod :
        LET pod == node.pods[p]
            ids(end) == {node.runs[r].transfer.id : r \in Reactive(p, end)}
                        \cup {node.copies[i].id : i \in Proactive(p, end)}
            wires == SumFunction([r \in Reactive(p, "target") |-> Depth(node.runs[r].transfer.path)])
                     + SumFunction([i \in Proactive(p, "target") |-> Depth(node.copies[i].path)])
        IN  /\ \A x \in Block : pod.cache.pins[x] =
                  Cardinality({r \in Reactive(p, "source") : x \in Chain[node.runs[r].transfer.path]})
                  + Cardinality({i \in Proactive(p, "source") : x \in Chain[node.copies[i].path]})
                  + (IF pod.running # Absent /\ x \in Chain[node.runs[pod.running].hit] THEN 1 ELSE 0)
            /\ pod.cache.temporaryPages = wires
            /\ pod.busy = Absent => ids("source") \cup ids("target") = {}
            /\ pod.busy # Absent => ids("source") \cup ids("target") = {pod.busy}
            /\ pod.sends <=> ids("source") # {}
            /\ pod.receives <=> ids("target") # {}
            /\ \A r \in Request : pod.cache.private[r] # Absent <=> pod.running = r
            /\ \A r \in Request : pod.pressure[r] > 0 <=> node.runs[r].ticket.owner = p
    /\ \A r \in Request :
          /\ node.runs[r].ticket.owner # Absent <=>
                node.runs[r].ticket.state \in {"QUEUED", "TRANSFER_RUNNING"}
          /\ r \in Range(node.gate) <=> node.runs[r].ticket.state = "QUEUED"

(* The running counters of a cache are what they count, everything fits,   *)
(* and no page has lost its parent, also after reservations that failed    *)
(* half-way and after releases of a part of a path.                        *)
CountersAgree ==
    \A p \in Pod :
        LET held == node.pods[p].cache
            running == node.pods[p].running
            pinned == {x \in Block : held.pins[x] > 0}
        IN  /\ held.resident = Cardinality(held.pages)
            /\ held.pinned = Cardinality(pinned) /\ pinned \subseteq held.pages
            /\ held.privatePages = IF running = Absent THEN 0 ELSE held.private[running]
            /\ MemoryUsed(held) <= Capacity
            /\ \A x \in held.pages : Parent[x] \in held.pages \cup {Root}

(* The heap is cleaned lazily and yet complete: a page that may be evicted *)
(* is always found, so the most that can_admit_temporary lets through can  *)
(* be reserved, and what is less as well.                                  *)
AdmissionExact ==
    \A p \in Pod :
        LET held == node.pods[p].cache
            most == Capacity - held.pinned - held.privatePages - held.temporaryPages
        IN  most >= 0 => Admitted(held, most)

\* after are the copies when a tick has begun in state w.
Foretold(w, after) ==
    LET shortlist == {x.hash : x \in Range(Ranked(w))}
        feasible == {x \in HistoryAudit(w) : x.legal # {} /\ x.hash \in shortlist}
        foremost == CHOOSE x \in feasible : \A y \in feasible : x.rank <= y.rank
        made == after[Len(w.copies) + 1]
    IN  IF feasible = {} THEN Len(after) = Len(w.copies)
        ELSE /\ Len(after) > Len(w.copies)
             /\ made.hash = foremost.hash /\ made.target \in foremost.legal

(* What an audit finds feasible on the shortlist of a PERSIST tick is what *)
(* the tick does: it copies the first such candidate to one of its legal   *)
(* targets, and nothing when there is none.                                *)
AuditExact ==
    mode.strategy = "PERSIST" => \A e \in Popped("TRIGGER_TICK") :
        Foretold(Taken(e), OnTick(Taken(e)).copies)

(* Whoever asks beforehand is told the truth: a cache that is asked what   *)
(* it can admit, and an audit that is asked what a tick would do.          *)
PreflightExact == AdmissionExact /\ AuditExact

(* The copies of any interval fit the burst and what the bucket gained.    *)
BudgetKept ==
    \A i, j \in DOMAIN node.copies :
        i <= j => SumFunction([k \in i .. j |-> PageBytes * Depth(node.copies[k].path)])
                    <= Burst + Rate * (node.copies[j].start - node.copies[i].start)

(* The copy a page is credited to is the one that brought it, and a page   *)
(* that has gone keeps its credit no longer than until the next event.     *)
CreditIsDue ==
    \A p \in Pod : \A x \in Block :
        IF x \in Pages(node, p) THEN node.replicas[p][x] = brought[p][x]
        ELSE node.replicas[p][x] = 0 \/ x \in node.gone[p]
=============================================================================
