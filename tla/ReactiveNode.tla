---------------------------- MODULE ReactiveNode ----------------------------
(***************************************************************************)
(* What the handlers of SimulatorEngine.run in simulator/engine.py share   *)
(* and what they do to it on behalf of requests: routing, tickets, the     *)
(* gate, transfers and service.                                            *)
(*                                                                         *)
(* The nested functions of run all work on the same local variables and    *)
(* call each other, so they are operators on one record w, and a handler   *)
(* is a composition of them.  The modules pod, tickets, routing, service,  *)
(* transfer, reactive_ect and events are no longer in the tree; what they  *)
(* provide is taken from the way run uses it.                              *)
(*                                                                         *)
(* Time is in ticks, tokens are counted in pages.                          *)
(***************************************************************************)
EXTENDS PrefixOps, Sequences, FiniteSetsExt, Functions

Sequence == INSTANCE SequencesExt

CONSTANTS
    Pod,         \* 0 .. num_pods - 1
    Theta,       \* theta_simple and relative_load_threshold
    LoadGap,     \* absolute_load_gap_ms
    HitPercent,  \* cache_hit_threshold
    Timeout,     \* admission_timeout_ms
    BaseService, \* base_latency_ms
    PageService, \* the time to compute a page
    PageTime     \* the time of a page on the wire

ASSUME NodeAssumption ==
    /\ IsFiniteSet(Pod) /\ Pod \subseteq Nat /\ Cardinality(Pod) >= 2
    /\ {Theta, LoadGap, HitPercent, Timeout, PageService} \subseteq Nat
    /\ {BaseService, PageTime} \subseteq Nat \ {0}

VARIABLE mode  \* the configuration: routing_policy, proactive_action, no_evict

EmptyPod ==
    [cache |-> EmptyPrefixCache, queue |-> <<>>, running |-> Absent, until |-> 0,
     pressure |-> [r \in Request |-> 0], busy |-> Absent, armed |-> FALSE,
     sends |-> FALSE, receives |-> FALSE, wired |-> 0]

NoTicket == [state |-> "NONE", id |-> Absent, source |-> Absent, target |-> Absent,
             path |-> Root, owner |-> Absent, service |-> 0]

NoTransfer == [id |-> Absent, source |-> Absent, target |-> Absent, path |-> Root, ready |-> 0]

EmptyRun ==
    [path |-> Root, arrival |-> 0, state |-> "NONE", pod |-> Absent, owner |-> Absent,
     estimate |-> 0, hit |-> Root, ticket |-> NoTicket, transfer |-> NoTransfer,
     plan |-> "NONE", fallback |-> FALSE, assisted |-> FALSE, start |-> 0, done |-> 0,
     routed |-> Root, inserted |-> 0, gate |-> "UNCLASSIFIED", blocked |-> FALSE, replans |-> 0]

(* What of transfer_stats and proactive_stats the end of run goes by. *)
NoStats ==
    [created |-> 0, started |-> 0, completed |-> 0, timedOut |-> 0, fallbacks |-> 0,
     wirePages |-> 0, newPages |-> 0, replans |-> 0, triggers |-> 0, idleTriggers |-> 0]

Count(w, field, k) == [w EXCEPT !.stats[field] = @ + k]

(* An AssertionError ends the run; what it leaves does not matter. *)
Check(w, ok) == IF ok THEN w ELSE [w EXCEPT !.outcome = "assertion"]

Schedule(w, time, kind, id) ==
    [w EXCEPT !.events = Append(@, [time |-> time, kind |-> kind, id |-> id])]

(* The two places that schedule a SERVICE_START. *)
StartSoon(w, p) ==
    Check(Schedule([w EXCEPT !.pods[p].armed = TRUE], w.now, "SERVICE_START", Head(w.pods[p].queue)),
          ~w.pods[p].armed)

WakeGate(w) == IF w.gate = <<>> THEN w ELSE Schedule(w, w.now, "TRANSFER_ADMIT", Head(w.gate))

-----------------------------------------------------------------------------
(* Loads and routes *)

Hit(w, p, n) == LongestWithin(n, w.pods[p].cache.pages)

Holds(w, p, n) == Chain[n] \subseteq w.pods[p].cache.pages

Service(n, hit) == BaseService + PageService * (Depth(n) - Depth(hit))

Wire(m) == PageTime * Depth(m)

(* load_ms: what is running, what is queued, and what tickets announce. *)
Load(w, p) ==
    LET pod == w.pods[p]
    IN  (IF pod.running = Absent THEN 0 ELSE pod.until - w.now)
          + SumFunction([r \in Range(pod.queue) |-> w.runs[r].estimate])
          + SumFunction(pod.pressure)

Before(x, y) ==
    \E i \in DOMAIN x : x[i] < y[i] /\ \A j \in 1 .. i - 1 : x[j] = y[j]

Best(S, key(_)) == CHOOSE x \in S : \A y \in S \ {x} : Before(key(x), key(y))

Affinity(w, n) == Best(Pod, LAMBDA p : <<-Depth(Hit(w, p, n)), Load(w, p), p>>)

Least(w) == Best(Pod, LAMBDA p : <<Load(w, p), p>>)

BestTarget(w, n, s) ==
    Best(Pod \ {s}, LAMBDA p : <<Load(w, p), -Depth(Hit(w, p, n)), p>>)

(* transferable_prefix_pages: a partial tail does not travel. *)
Transferable(w, s, n) == FullPagePrefix(Hit(w, s, n))

-----------------------------------------------------------------------------
(* A request gets a pod *)

\* Mutant: start_scheduled is not looked at.
EnqueueReadyAlways(w, r, p) ==
    LET run == w.runs[r]
        hit == Hit(w, p, run.path)
        placed == [w EXCEPT
            !.runs[r] = [@ EXCEPT !.state = "READY", !.pod = p, !.owner = p, !.routed = hit,
                                  !.estimate = Service(run.path, hit)],
            !.pods[p].queue = Append(@, r)]
        checked == Check(placed, run.owner = Absent /\ run.ticket.owner = Absent)
    IN  IF w.pods[p].running = Absent THEN StartSoon(checked, p) ELSE checked

EnqueueReady(w, r, p) ==
    LET run == w.runs[r]
        hit == Hit(w, p, run.path)
        placed == [w EXCEPT
            !.runs[r] = [@ EXCEPT !.state = "READY", !.pod = p, !.owner = p, !.routed = hit,
                                  !.estimate = Service(run.path, hit)],
            !.pods[p].queue = Append(@, r)]
        checked == Check(placed, run.owner = Absent /\ run.ticket.owner = Absent)
    IN  IF w.pods[p].running = Absent /\ ~w.pods[p].armed THEN StartSoon(checked, p) ELSE checked

\* Mutant: the pressure stays where an earlier plan put it.
DropPressureNever(w, r) == [w EXCEPT !.runs[r].ticket.owner = Absent]

DropPressure(w, r) ==
    LET p == w.runs[r].ticket.owner
    IN  IF p = Absent THEN w
        ELSE [w EXCEPT !.pods[p].pressure[r] = 0, !.runs[r].ticket.owner = Absent]

LeaveGate(w, r, state) ==
    [w EXCEPT !.gate = Sequence!RemoveAt(@, CHOOSE i \in DOMAIN @ : @[i] = r), !.runs[r].ticket.state = state]

(* fallback_aff: a ticket keeps the reason it was given up for. *)
FallbackAff(w, r) ==
    LET t == w.runs[r].ticket
        freed == IF t.state = "NONE" THEN w
                 ELSE LeaveGate(DropPressure(w, r), r,
                          IF t.state \in {"TIMED_OUT", "CANCELLED"} THEN t.state ELSE "FALLBACK")
    IN  EnqueueReady(Count(freed, "fallbacks", 1), r, Affinity(freed, w.runs[r].path))

(* The part create_b0_ticket, create_ect_ticket and the replans share: the *)
(* ticket names its endpoints, and its service weighs on the target.       *)
Plan(w, r, s, t, m, service) ==
    [w EXCEPT !.runs[r].ticket = [@ EXCEPT !.source = s, !.target = t, !.path = m, !.owner = t,
                                                 !.service = service],
              !.pods[t].pressure[r] = service]

CreateTicket(w, r, s, t, m, service) ==
    LET made == [Plan(w, r, s, t, m, service) EXCEPT
                    !.runs[r].ticket = [@ EXCEPT !.state = "QUEUED", !.id = w.nextTicket],
                    !.nextTicket = @ + 1, !.gate = Append(@, r), !.stats.created = @ + 1]
    IN  Schedule(Schedule(made, w.now, "TRANSFER_ENQUEUE", r), w.now + Timeout, "TRANSFER_TIMEOUT", r)

-----------------------------------------------------------------------------
(* R_REQ_KV and R_REQ_KV_TASK *)

IsTask == mode.routing = "R_REQ_KV_TASK"

IsEct == mode.routing = "R_REACTIVE_ECT_V1"

SmallHit(n, m) == 100 * Depth(m) < HitPercent * Depth(n)

NotLoaded(w, s, t) == Load(w, s) <= Theta * Load(w, t)

TargetOf(w, n, s) == IF IsTask THEN Least(w) ELSE BestTarget(w, n, s)

(* The service a ticket announces, with the longer of the prefix that is   *)
(* to come and the one that is there.                                      *)
Planned(w, t, n, m) ==
    Service(n, IF Holds(w, t, m) THEN Hit(w, t, n) ELSE m)

(* The gate at which a request stops, or passes all.  KV asks whether the  *)
(* target has the prefix already before its two load gates, TASK after its *)
(* gate.                                                                   *)
KvGate(w, n, s, m, t) ==
    IF SmallHit(n, m) THEN "CACHE_HIT_GATE_REJECT"
    ELSE IF Load(w, s) <= Load(w, t) THEN "SOURCE_IS_BEST_TARGET"
    ELSE IF Holds(w, t, m) THEN "TARGET_ALREADY_HAS_PREFIX"
    ELSE IF NotLoaded(w, s, t) THEN "RELATIVE_GATE_REJECT"
    ELSE IF Load(w, s) - Load(w, t) < LoadGap THEN "ABSOLUTE_GATE_REJECT"
    ELSE "TRANSFER_SELECTED"

TaskGate(w, s, m, t) ==
    IF m = Root THEN "NO_TRANSFERABLE_PREFIX"
    ELSE IF t = s THEN "SOURCE_IS_BEST_TARGET"
    ELSE IF NotLoaded(w, s, t) THEN "RELATIVE_GATE_REJECT"
    ELSE IF Holds(w, t, m) THEN "TARGET_ALREADY_HAS_PREFIX"
    ELSE "TRANSFER_SELECTED"

B0Arrival(w, r) ==
    LET n == w.runs[r].path
        s == Affinity(w, n)
        m == Transferable(w, s, n)
        t == TargetOf(w, n, s)
        gate == IF Hit(w, s, n) = Root THEN "NO_CACHE_SOURCE"
                ELSE IF IsTask THEN TaskGate(w, s, m, t) ELSE KvGate(w, n, s, m, t)
        noted == [w EXCEPT !.runs[r].gate = gate]
    IN  CASE gate = "TRANSFER_SELECTED" -> CreateTicket(noted, r, s, t, m, Planned(w, t, n, m))
          [] gate = "TARGET_ALREADY_HAS_PREFIX" -> EnqueueReady(noted, r, t)
          [] OTHER -> FallbackAff(noted, r)

-----------------------------------------------------------------------------
(* Transfers of requests *)

Busy(w, p) == w.pods[p].busy # Absent

(* Pin at the source, reserve at the target, take both endpoints; a        *)
(* refusal undoes the pin, not the evictions.  A page that is not there    *)
(* cannot be pinned: that is a KeyError.                                   *)
Reserve(w, id, s, t, m) ==
    LET sender == [w.pods[s] EXCEPT !.cache = Pin(@, m), !.busy = id, !.sends = TRUE,
                                    !.wired = @ + Wire(m)]
        receiver == [w.pods[t] EXCEPT !.cache = ReserveTransferTemporary(@, id, Depth(m)),
                                      !.busy = id, !.receives = TRUE, !.wired = @ + Wire(m)]
        sending == [w EXCEPT !.pods[s] = sender]
    IN  Check([sending EXCEPT !.pods[t] = receiver], id \notin DOMAIN w.pods[t].cache.temporary)

(* Both ends of transfer x are free again. *)
Released(w, x) ==
    LET sent == [w EXCEPT !.pods[x.source] = [@ EXCEPT !.busy = Absent, !.sends = FALSE]]
        received == [sent EXCEPT !.pods[x.target] = [@ EXCEPT !.busy = Absent, !.receives = FALSE]]
    IN  Check(received,
              /\ w.pods[x.source].busy = x.id /\ w.pods[x.target].busy = x.id
              /\ w.pods[x.source].sends /\ w.pods[x.target].receives)

CanReserve(w, t, m) == Admitted(w.pods[t].cache, Depth(m))

Unreserved(w, s, t, m) ==
    LET unpinned == [w EXCEPT !.pods[s].cache = Unpin(Pin(@, m), m)]
    IN  Check([unpinned EXCEPT !.pods[t].cache = Room(@, Depth(m))], Holds(w, s, m))

StartTransfer(w, r, id, s, t, m) ==
    LET ready == w.now + Wire(m)
        sent == [Reserve(w, id, s, t, m) EXCEPT
            !.runs[r] = [@ EXCEPT !.state = "WAITING_TRANSFER",
                                  !.transfer = [id |-> id, source |-> s, target |-> t, path |-> m,
                                                ready |-> ready]],
            !.stats.started = @ + 1]
    IN  Check(Schedule(sent, ready, "TRANSFER_COMPLETE", r), Holds(w, s, m))

(* reactive_ect_endpoint_blocked, b0_capacity_blocked and their likes. *)
Blocked(w, r) == [w EXCEPT !.runs[r].blocked = TRUE]

(* The plan is another one than before. *)
Replanned(w, r) == Count([w EXCEPT !.runs[r].replans = @ + 1], "replans", 1)

Replan(w, r, s, t, m, service) ==
    LET k == w.runs[r].ticket
        planned == Plan(w, r, s, t, m, service)
    IN  IF k.source = s /\ k.target = t THEN planned ELSE Replanned(planned, r)

(* A ticket that has been planned anew starts if both ends are idle and    *)
(* the target has room; otherwise it waits.                                *)
TryTicket(w, r) ==
    LET k == w.runs[r].ticket
    IN  IF Busy(w, k.source) \/ Busy(w, k.target) THEN IF IsEct THEN Blocked(w, r) ELSE w
        ELSE IF CanReserve(w, k.target, k.path)
          THEN StartTransfer(LeaveGate(w, r, "TRANSFER_RUNNING"), r, k.id, k.source, k.target, k.path)
        ELSE Blocked(Unreserved(w, k.source, k.target, k.path), r)

CancelToAff(w, r) == FallbackAff([w EXCEPT !.runs[r].ticket.state = "CANCELLED"], r)

(* A ticket of R_REQ_KV or R_REQ_KV_TASK at TRANSFER_ADMIT: nothing is     *)
(* looked at while an endpoint of the old plan is busy; then all gates are *)
(* passed again, in another order than at arrival.                         *)
AdmitB0(w, r) ==
    LET n == w.runs[r].path
        old == w.runs[r].ticket
        v == DropPressure(w, r)
        s == Affinity(v, n)
        m == Transferable(v, s, n)
        t == TargetOf(v, n, s)
        tried == TryTicket(Replan(v, r, s, t, m, Planned(v, t, n, m)), r)
        refused == [tried EXCEPT !.runs[r].blocked = w.runs[r].blocked]
    IN  IF Busy(w, old.source) \/ Busy(w, old.target) THEN Blocked(w, r)
        ELSE IF m = Root \/ (IsTask /\ t = s) THEN CancelToAff(v, r)
        ELSE IF Holds(v, t, m) THEN EnqueueReady(LeaveGate(v, r, "CANCELLED"), r, t)
        ELSE IF \/ NotLoaded(v, s, t)
                \/ ~IsTask /\ (SmallHit(n, m) \/ Load(v, s) - Load(v, t) < LoadGap)
          THEN CancelToAff(v, r)
        ELSE IF Depth(m) > Capacity /\ ~Busy(v, s) /\ ~Busy(v, t) THEN CancelToAff(refused, r)
        ELSE tried

-----------------------------------------------------------------------------
(* R_REACTIVE_ECT_V1: estimated completion times *)

WaitingFor(w) == {r \in Request : w.runs[r].state = "WAITING_TRANSFER"}

ActiveCopies(w) == {i \in DOMAIN w.copies : w.copies[i].active}

(* active_transfer_completion_times of the transfer at pod p. *)
FreeAt(w, p) ==
    IF ~Busy(w, p) THEN w.now
    ELSE Max({w.runs[r].transfer.ready : r \in {x \in WaitingFor(w) : w.runs[x].transfer.id = w.pods[p].busy}}
             \cup {w.copies[i].ready : i \in {x \in ActiveCopies(w) : w.copies[x].id = w.pods[p].busy}})

(* endpoint_ready_times: the tickets before id are served in turn. *)
EndpointReady(w, id) ==
    LET after(k, ready) ==
            LET done == Max({ready[k.source], ready[k.target]}) + Wire(k.path)
            IN  [ready EXCEPT ![k.source] = done, ![k.target] = done]
        served[i \in 0 .. Len(w.gate)] ==
            IF i = 0 THEN [p \in Pod |-> FreeAt(w, p)]
            ELSE LET k == w.runs[w.gate[i]].ticket
                 IN  IF k.id < id THEN after(k, served[i - 1]) ELSE served[i - 1]
    IN  served[Len(w.gate)]

(* conflicting_copy_paths: what is on its way or about to be. *)
Conflicts(w, r) ==
    {<<w.runs[x].transfer.target, w.runs[x].transfer.path>> : x \in WaitingFor(w) \ {r}}
    \cup {<<w.runs[x].ticket.target, w.runs[x].ticket.path>> :
             x \in {y \in Request \ ({r} \cup WaitingFor(w)) : w.runs[y].ticket.state = "QUEUED"}}
    \cup {<<w.copies[i].target, w.copies[i].path>> : i \in ActiveCopies(w)}

DirectPlans(w, r) ==
    {[type |-> "DIRECT", source |-> Absent, target |-> p, path |-> Root,
      service |-> Service(w.runs[r].path, Hit(w, p, w.runs[r].path)),
      ect |-> Load(w, p) + Service(w.runs[r].path, Hit(w, p, w.runs[r].path))] : p \in Pod}

CopyPlans(w, r, id) ==
    LET n == w.runs[r].path
        ready == EndpointReady(w, id)
        blocked == Conflicts(w, r)
        delay(s, t, m) == Max({ready[s], ready[t]}) - w.now + Wire(m)
    IN  {[type |-> "COPY", source |-> e[1], target |-> e[2], path |-> e[3],
          service |-> Service(n, e[3]),
          ect |-> Max({Load(w, e[2]), delay(e[1], e[2], e[3])}) + Service(n, e[3])] :
            e \in {x \in {<<s, t, Transferable(w, s, n)>> : s \in Pod, t \in Pod} :
                      /\ x[1] # x[2] /\ ~Holds(w, x[2], x[3])
                      /\ <<x[2], x[3]>> \notin blocked}}

BestPlan(plans) ==
    Best(plans, LAMBDA x : <<x.ect, IF x.type = "DIRECT" THEN 0 ELSE 1, x.target, x.source>>)

Plans(w, r, id) == DirectPlans(w, r) \cup CopyPlans(w, r, id)

\* create_ect_ticket
EctTicket(w, r, x) ==
    Check(CreateTicket(w, r, x.source, x.target, x.path, x.service),
          x.type = "COPY" /\ x.source # Absent)

EctArrival(w, r) ==
    LET x == BestPlan(Plans(w, r, w.nextTicket))
        noted == [w EXCEPT !.runs[r].plan = x.type]
    IN  IF x.type = "DIRECT" THEN EnqueueReady(noted, r, x.target) ELSE EctTicket(noted, r, x)

FallbackEct(w, r, state) ==
    LET left == [LeaveGate(DropPressure(w, r), r, state) EXCEPT !.runs[r].fallback = TRUE]
        freed == Count(Replanned(left, r), "fallbacks", 1)
    IN  EnqueueReady(freed, r, BestPlan(DirectPlans(freed, r)).target)

AdmitEct(w, r) ==
    LET v == DropPressure(w, r)
        x == BestPlan(Plans(v, r, v.runs[r].ticket.id))
    IN  IF x.type = "DIRECT" THEN FallbackEct(v, r, "CANCELLED")
        ELSE TryTicket(Replan(v, r, x.source, x.target, x.path, x.service), r)

-----------------------------------------------------------------------------
(* R_REQ_KV_SIMPLE: one try, no ticket *)

SimpleArrival(w, r) ==
    LET n == w.runs[r].path
        s == Affinity(w, n)
        t == Least(w)
        m == Transferable(w, s, n)
        id == w.nextTransfer
    IN  IF Hit(w, s, n) = Root \/ s = t THEN EnqueueReady(w, r, s)
        ELSE IF Holds(w, t, m) THEN EnqueueReady(w, r, t)
        ELSE IF NotLoaded(w, s, t) THEN EnqueueReady(w, r, s)
        ELSE Schedule([w EXCEPT !.nextTransfer = @ + 1,
                                !.runs[r].transfer = [id |-> id, source |-> s, target |-> t,
                                                      path |-> m, ready |-> 0]],
                      w.now, "TRANSFER_ADMIT", r)

AdmitSimple(w, r) ==
    LET x == w.runs[r].transfer
        next == IF Busy(w, x.source) \/ Busy(w, x.target) THEN FallbackAff(w, r)
                ELSE IF CanReserve(w, x.target, x.path)
                  THEN StartTransfer(w, r, x.id, x.source, x.target, x.path)
                ELSE FallbackAff(Unreserved(w, x.source, x.target, x.path), r)
    IN  Check(next, x.id # Absent /\ w.runs[r].state = "ARRIVED")

-----------------------------------------------------------------------------
(* The events of a request *)

Tickets == mode.routing \in {"R_REQ_KV", "R_REQ_KV_TASK", "R_REACTIVE_ECT_V1"}

OnArrival(w, r, n) ==
    LET v == [w EXCEPT !.runs[r] = [@ EXCEPT !.path = n, !.arrival = w.now, !.state = "ARRIVED"]]
        next == CASE IsEct -> EctArrival(v, r)
                  [] mode.routing \in {"R_REQ_KV", "R_REQ_KV_TASK"} -> B0Arrival(v, r)
                  [] mode.routing = "R_REQ_KV_SIMPLE" -> SimpleArrival(v, r)
                  [] mode.routing = "R_LEAST" -> EnqueueReady(v, r, Least(v))
                  [] OTHER -> EnqueueReady(v, r, Affinity(v, n))
    IN  Check(next, w.runs[r].state = "NONE")

(* The gate is read once; every ticket in it gets its turn, also behind    *)
(* one that has to wait.                                                   *)
OnAdmit(w, r) ==
    LET after[i \in 0 .. Len(w.gate)] ==
            IF i = 0 THEN w
            ELSE IF IsEct THEN AdmitEct(after[i - 1], w.gate[i])
            ELSE AdmitB0(after[i - 1], w.gate[i])
    IN  IF Tickets THEN after[Len(w.gate)] ELSE AdmitSimple(w, r)

OnTimeout(w, r) ==
    IF w.runs[r].ticket.state # "QUEUED" THEN w
    ELSE LET v == Count(w, "timedOut", 1)
         IN  WakeGate(IF IsEct THEN FallbackEct(v, r, "TIMED_OUT")
                      ELSE FallbackAff([v EXCEPT !.runs[r].ticket.state = "TIMED_OUT"], r))

(* The credit for pages that are there for another reason is withdrawn. *)
Uncredit(w, p, pages) ==
    [w EXCEPT !.replicas[p] = [x \in Block |-> IF x \in pages THEN 0 ELSE @[x]]]

OnComplete(w, r) ==
    LET x == w.runs[r].transfer
        held == w.pods[x.target].cache
        new == Chain[x.path] \ held.pages
        stats == [w.stats EXCEPT !.completed = @ + 1, !.wirePages = @ + Depth(x.path),
                                 !.newPages = @ + Cardinality(new)]
        landed == [Released(w, x) EXCEPT
            !.pods[x.target].cache = CommitTransferTemporary(@, x.id, x.path)]
        freed == [landed EXCEPT !.pods[x.source].cache = Unpin(@, x.path), !.runs[r].assisted = TRUE,
                                !.stats = stats]
        closed == IF w.runs[r].ticket.state = "NONE" THEN freed
                  ELSE [DropPressure(freed, r) EXCEPT !.runs[r].ticket.state = "COMPLETED"]
    IN  Check(WakeGate(EnqueueReady(Uncredit(closed, x.target, new), r, x.target)),
              w.runs[r].state = "WAITING_TRANSFER" /\ Cardinality(new) <= held.temporary[x.id])

(* The copies that brought pages of hit have been of use. *)
Used(w, p, hit) ==
    [w EXCEPT !.copies = [i \in DOMAIN w.copies |->
        LET pages == {x \in Chain[hit] : w.replicas[p][x] = i}
        IN  IF pages = {} THEN w.copies[i]
            ELSE [w.copies[i] EXCEPT !.used = @ \cup pages, !.hits = @ + Cardinality(pages),
                                     !.firstUse = IF @ = Absent THEN w.now ELSE @]]]

(* The hit is looked up again; if what is left finds no room the run ends  *)
(* with a CapacityAdmissionError.                                          *)
OnServiceStart(w, r) ==
    LET p == w.runs[r].pod
        n == w.runs[r].path
        hit == Hit(w, p, n)
        k == Depth(n) - Depth(hit)
        held == PinAndRefresh(w.pods[p].cache, hit)
        until == w.now + Service(n, hit)
        idle == [w EXCEPT !.pods[p].armed = FALSE]
        started == [Used(idle, p, hit) EXCEPT
            !.pods[p] = [@ EXCEPT !.cache = ReserveActivePrivate(held, r, k), !.running = r,
                                  !.queue = Tail(w.pods[p].queue), !.until = until],
            !.runs[r] = [@ EXCEPT !.start = w.now, !.hit = hit, !.estimate = 0,
                                  !.state = "RUNNING"]]
    IN  IF w.pods[p].queue = <<>> \/ w.pods[p].running # Absent THEN idle
        ELSE IF Admitted(held, k)
          THEN Check(Schedule(started, until, "SERVICE_DONE", r),
                     Head(w.pods[p].queue) = r /\ w.runs[r].owner = p /\ held.private[r] = Absent)
        ELSE [idle EXCEPT !.pods[p].cache = Unpin(Room(held, k), hit), !.outcome = "refused"]

OnServiceDone(w, r) ==
    LET p == w.runs[r].pod
        n == w.runs[r].path
        held == w.pods[p].cache
        new == Chain[n] \ held.pages
        done == Uncredit([w EXCEPT
            !.pods[p] = [@ EXCEPT !.cache = Unpin(CommitActive(held, r, n), w.runs[r].hit),
                                  !.running = Absent],
            !.runs[r] = [@ EXCEPT !.owner = Absent, !.state = "DONE", !.done = w.now,
                                  !.inserted = Cardinality(new)]], p, new)
        next == IF w.pods[p].queue = <<>> THEN done ELSE StartSoon(done, p)
    IN  Check(WakeGate(next),
              /\ w.runs[r].state = "RUNNING" /\ w.pods[p].running = r /\ w.runs[r].owner = p
              /\ Cardinality(new) <= held.private[r])
=============================================================================
