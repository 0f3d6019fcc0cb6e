------------------------------ MODULE Pressure ------------------------------
(***************************************************************************)
(* simulator/pressure.py: what a run makes of its intervals and its        *)
(* requests - how far the loads of the pods were apart, for how long work  *)
(* queued while another pod was idle, and all of it again per time window. *)
(*                                                                         *)
(* An interval is a record [start, end, pods]; pods gives for each pod the *)
(* load at both ends and what held in between.  A request is a record with *)
(* pod, arrival, start, done, queueTime, hit and miss.  Intervals count in *)
(* a range [lo, hi] of time, requests everywhere.                          *)
(*                                                                         *)
(* Quotients are left to the reader: a mean is given by its area, a Gini   *)
(* coefficient as a fraction, a midpoint by its double.  Percentiles are   *)
(* asked for in percent.  The areas of the remaining service time are left *)
(* out.                                                                    *)
(***************************************************************************)
EXTENDS Integers, Sequences, FiniteSetsExt

CONSTANT Pod

(* _gini of the values of f: a numerator and a denominator. *)
Gini(f) ==
    LET total == MapThenSumSet(LAMBDA p : f[p], Pod)
        rank(p) == Cardinality({q \in Pod : f[q] < f[p] \/ (f[q] = f[p] /\ q <= p)})
        n == Cardinality(Pod)
    IN  IF total = 0 THEN <<0, 1>>
        ELSE <<2 * MapThenSumSet(LAMBDA p : rank(p) * f[p], Pod) - (n + 1) * total, n * total>>

(* The least value up to which q percent of the weight of the samples lie. *)
WeightedPercentile(samples, q) ==
    LET weight(S) == MapThenSumSet(LAMBDA x : x.weight, S)
        least[S \in {samples}] ==
            LET share == q * weight(S)
            IN  CHOOSE v \in {x.value : x \in S} : /\ 100 * weight({x \in S : x.value <= v}) >= share
                                                  /\ 100 * weight({x \in S : x.value < v}) < share
    IN  IF samples = {} THEN 0 ELSE least[samples]

-----------------------------------------------------------------------------
(* Intervals *)

\* Mutant: an interval counts in full in every window it reaches.
OverlapWhole(x, lo, hi) == IF x.start < hi /\ lo < x.end THEN x.end - x.start ELSE 0

Overlap(x, lo, hi) == Max({0, Min({x.end, hi}) - Max({x.start, lo})})

\* The intervals that have a part between lo and hi.
Near(xs, lo, hi) == {i \in DOMAIN xs : Overlap(xs[i], lo, hi) > 0}

(* A load falls evenly, or not at all, between the ends of an interval; an *)
(* interval that is clipped at t has this load there.                      *)
LoadAt(x, p, t) ==
    x.pods[p].before
      + ((x.pods[p].after - x.pods[p].before) * (t - x.start)) \div (x.end - x.start)

LoadsAt(x, t) == [p \in Pod |-> LoadAt(x, p, t)]

HasQueue(x) == \E p \in Pod : x.pods[p].queue # <<>>

Idle(x, p) == ~x.pods[p].running /\ x.pods[p].queue = <<>>

QueueAndIdle(x) == HasQueue(x) /\ \E p \in Pod : Idle(x, p)

\* No work is announced to the idle pod either.
Stranded(x) == HasQueue(x) /\ \E p \in Pod : Idle(x, p) /\ x.pods[p].remote = 0

Spread(f) == Max({f[p] : p \in Pod}) - Min({f[p] : p \in Pod})

\* The gap at the midpoint of what is in the range.
LoadGapAt(x, range) ==
    Spread([p \in Pod |-> LoadAt(x, p, Max({x.start, range.lo})) + LoadAt(x, p, Min({x.end, range.hi}))])

Queued(x) == MapThenSumSet(LAMBDA p : Len(x.pods[p].queue), Pod)

(* The figures for the whole of the time. *)
Overall(xs, range) ==
    LET inside == Near(xs, range.lo, range.hi)
        uneven == {i \in inside : QueueAndIdle(xs[i])}
        time(i) == Overlap(xs[i], range.lo, range.hi)
        gaps == {[value |-> LoadGapAt(xs[i], range), weight |-> time(i), at |-> i] : i \in inside}
        ids(x) == UNION {{x.pods[p].queue[k] : k \in DOMAIN x.pods[p].queue} : p \in Pod}
    IN  [gap |-> [q \in {50, 90, 95, 99} |-> WeightedPercentile(gaps, q)],
         maxGap |-> Max({0} \cup {g.value : g \in gaps}),
         busyWhileIdle |-> MapThenSumSet(time, uneven),
         duration |-> MapThenSumSet(time, inside),
         queuedWhileIdle |-> UNION {ids(xs[i]) : i \in uneven},
         queuedTimeWhileIdle |-> MapThenSumSet(LAMBDA i : Queued(xs[i]) * time(i), uneven)]

-----------------------------------------------------------------------------
(* Windows: window k of width w is the time from k * w up to (k + 1) * w *)

(* The windows some request or some interval has a part in. *)
Touched(results, xs, w, range) ==
    LET spanned(lo, hi) == IF lo < hi THEN lo \div w .. (hi - 1) \div w ELSE {}
        of(r) == {r.arrival \div w, r.done \div w} \cup spanned(r.start - r.queueTime, r.start + 1)
        during(x) == spanned(Max({x.start, range.lo}), Min({x.end, range.hi}))
    IN  UNION {of(r) : r \in results} \cup UNION {during(xs[i]) : i \in DOMAIN xs}

Memory == {"resident", "private", "temporary", "used"}

\* The amounts whose areas something else gives as well; the areas of the
\* memory, of remaining work and of announced load are summed in the same way.
Amounts == {"queue", "running", "source", "target"}

Amount(pod, field) ==
    CASE field = "queue" -> Len(pod.queue)
      [] field \in {"running", "source", "target"} -> IF pod[field] THEN 1 ELSE 0
      [] OTHER -> pod[field]

(* What the requests of pod p add to the window from lo to hi: they have   *)
(* waited, by their own account, in the queueTime before their start.      *)
Requested(results, p, lo, hi) ==
    LET own == {r \in results : r.pod = p}
        within(t) == lo <= t /\ t < hi
        started == {r \in own : within(r.start)}
        waits(r) == Overlap([start |-> r.start - r.queueTime, end |-> r.start], lo, hi)
    IN  [requests |-> Cardinality({r \in own : within(r.arrival)}),
         completed |-> Cardinality({r \in own : within(r.done)}),
         missed |-> MapThenSumSet(LAMBDA r : r.miss, started),
         hit |-> MapThenSumSet(LAMBDA r : r.hit, started),
         queueWait |-> MapThenSumSet(waits, own)]

(* What the intervals add: the time each amount was held for, the most of  *)
(* it, and the memory held last.  loadArea is doubled.                     *)
Held(xs, p, lo, hi) ==
    LET near == Near(xs, lo, hi)
        left(i) == LoadAt(xs[i], p, Max({xs[i].start, lo}))
        right(i) == LoadAt(xs[i], p, Min({xs[i].end, hi}))
        time(i) == Overlap(xs[i], lo, hi)
        of(i, field) == Amount(xs[i].pods[p], field)
    IN  [area |-> [f \in Amounts |-> MapThenSumSet(LAMBDA i : of(i, f) * time(i), near)],
         peak |-> [f \in Memory \cup {"queue"} |-> Max({0} \cup {of(i, f) : i \in near})],
         last |-> [f \in Memory |-> IF near = {} THEN 0 ELSE of(Max(near), f)],
         observed |-> MapThenSumSet(time, near),
         loadArea |-> MapThenSumSet(LAMBDA i : (left(i) + right(i)) * time(i), near),
         maxLoad |-> Max({0} \cup {left(i) : i \in near} \cup {right(i) : i \in near})]

(* How long, and how much, work queued in the window while a pod was idle. *)
StrandedIn(xs, lo, hi) ==
    LET time(i) == Overlap(xs[i], lo, hi)
        uneven == {i \in Near(xs, lo, hi) : QueueAndIdle(xs[i])}
        queued(x) == MapThenSumSet(LAMBDA p : x.pods[p].queued, Pod)
    IN  [queueWhileIdle |-> MapThenSumSet(time, uneven),
         capacity |-> MapThenSumSet(time, {i \in uneven : Stranded(xs[i])}),
         requests |-> MapThenSumSet(LAMBDA i : Queued(xs[i]) * time(i), uneven),
         work |-> MapThenSumSet(LAMBDA i : queued(xs[i]) * time(i), uneven),
         gap |-> Max({0} \cup {Spread(LoadsAt(xs[i], Max({xs[i].start, lo}))) : i \in uneven}
                         \cup {Spread(LoadsAt(xs[i], Min({xs[i].end, hi}))) : i \in uneven})]

Amassed(results, xs, w, k, range) ==
    LET lo == Max({k * w, range.lo})
        hi == Min({(k + 1) * w, range.hi})
    IN  [requested |-> [p \in Pod |-> Requested(results, p, k * w, (k + 1) * w)],
         held |-> [p \in Pod |-> Held(xs, p, lo, hi)], stranded |-> StrandedIn(xs, lo, hi)]

(* record["cluster"] of a window. *)
Unevenness(x) ==
    [requests |-> Gini([p \in Pod |-> x.requested[p].requests]),
     missed |-> Gini([p \in Pod |-> x.requested[p].missed]),
     busy |-> Gini([p \in Pod |-> x.held[p].area["running"]]),
     meanGap |-> Spread([p \in Pod |-> x.held[p].loadArea]),
     maxGap |-> Spread([p \in Pod |-> x.held[p].maxLoad])]

Window(results, xs, w, k, range) ==
    LET x == Amassed(results, xs, w, k, range)
    IN  [requested |-> x.requested, held |-> x.held, stranded |-> x.stranded, cluster |-> Unevenness(x)]

(* pressure_diagnostics *)
Diagnostics(results, xs, widths, range) ==
    [overall |-> Overall(xs, range),
     windows |-> [w \in widths |-> [k \in Touched(results, xs, w, range) |->
                                        Window(results, xs, w, k, range)]]]
=============================================================================
