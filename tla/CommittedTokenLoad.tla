------------------------- MODULE CommittedTokenLoad -------------------------
(***************************************************************************)
(* CommittedTokenLoad in task_main/load.py: the miss tokens each pod was   *)
(* assigned during the last LoadWindow ticks, as a record and operators    *)
(* from one value of it to the next.                                       *)
(*                                                                         *)
(*   entries    every entry ever committed                                 *)
(*   histories  _histories: per pod, the entries still counted             *)
(*   totals     _totals: per pod, the running sum of its history           *)
(*   last       _last_time                                                 *)
(*                                                                         *)
(* The running sums are what routing reads; they are kept by adding at one *)
(* end of a queue and subtracting at the other, so they agree with the     *)
(* window only if the queue is in time order and every query prunes.       *)
(***************************************************************************)
EXTENDS Integers, Sequences, FiniteSetsExt, Functions

CONSTANTS
    Pod,        \* pod ids, ordered as numbers
    LoadWindow, \* LOAD_WINDOW_MS, in ticks
    PureQueries \* the class is ObservationalLoad of stage0/load.py

ASSUME PodAssumption == Pod \subseteq Nat /\ IsFiniteSet(Pod) /\ Pod # {}
ASSUME LoadWindowAssumption == LoadWindow \in Nat \ {0} /\ PureQueries \in BOOLEAN

IdleLoad ==
    [entries   |-> {},
     histories |-> [p \in Pod |-> << >>],
     totals    |-> [p \in Pod |-> 0],
     last      |-> 0]

\* Mutant: an entry exactly LoadWindow old is kept.
ExpiredClosed(history, now) ==
    Max({k \in 0 .. Len(history) : \A i \in 1 .. k : history[i].time + LoadWindow < now})

(* How many entries at the head of a history have left the window, whose   *)
(* left end is open.                                                       *)
Expired(history, now) ==
    Max({k \in 0 .. Len(history) : \A i \in 1 .. k : history[i].time + LoadWindow <= now})

(* The tokens of a set of entries; no two entries are of one request.      *)
MissTokens(entries) == SumFunctionOnSet([e \in entries |-> e.miss], entries)

(* vector: prune, then read totals of the result. *)
Vector(load, now) ==
    LET gone(p) == Expired(load.histories[p], now)
    IN  [load EXCEPT
            !.last      = now,
            !.histories = [p \in Pod |-> SubSeq(@[p], gone(p) + 1, Len(@[p]))],
            !.totals    = [p \in Pod |-> @[p] - MissTokens({load.histories[p][i] : i \in 1 .. gone(p)})]]

(* ObservationalLoad.vector: the sum over the window of each history, with *)
(* no change of the object.                                                *)
ObservedVector(load, now) ==
    [p \in Pod |->
        MissTokens({e \in Range(load.histories[p]) : /\ now < e.time + LoadWindow
                                                     /\ e.time <= now})]

(* What a query answers, and the object it leaves. *)
LoadVector(load, now) ==
    IF PureQueries THEN ObservedVector(load, now) ELSE Vector(load, now).totals

Query(load, now) == IF PureQueries THEN load ELSE Vector(load, now)

(* commit: one entry for a request that has none. *)
CommitLoad(load, request, pod, miss, now) ==
    LET entry  == [request |-> request, pod |-> pod, time |-> now, miss |-> miss]
        pruned == Vector(load, now)
    IN  [pruned EXCEPT
            !.entries        = @ \cup {entry},
            !.histories[pod] = Append(@, entry),
            !.totals[pod]    = @ + miss]

Committed(load) == {e.request : e \in load.entries}

-----------------------------------------------------------------------------
(* ObservationalLoad of stage0/load.py: a load window whose entries are    *)
(* corrected when a request turns out to hit more than it was promised.    *)

Corrected(e, request, miss) == IF e.request = request THEN [e EXCEPT !.miss = miss] ELSE e

\* Mutant: an entry that has left the queue is still settled in the sum.
ReconcileHitAlways(load, request, miss) ==
    LET old == CHOOSE e \in load.entries : e.request = request
    IN  [load EXCEPT
            !.entries            = {Corrected(e, request, miss) : e \in @},
            !.histories[old.pod] = [i \in DOMAIN @ |-> Corrected(@[i], request, miss)],
            !.totals[old.pod]    = @ + (miss - old.miss)]

\* Mutant: only the queue is corrected.
ReconcileHitInQueue(load, request, miss) ==
    LET old == CHOOSE e \in load.entries : e.request = request
    IN  [load EXCEPT
            !.histories[old.pod] = [i \in DOMAIN @ |-> Corrected(@[i], request, miss)]]

(* reconcile_hit: the entry keeps its time; the queue and its sum follow   *)
(* if the entry is still in the queue.                                     *)
ReconcileHit(load, request, miss) ==
    LET old    == CHOOSE e \in load.entries : e.request = request
        queued == \E i \in DOMAIN load.histories[old.pod] :
                      load.histories[old.pod][i].request = request
    IN  [load EXCEPT
            !.entries            = {Corrected(e, request, miss) : e \in @},
            !.histories[old.pod] = [i \in DOMAIN @ |-> Corrected(@[i], request, miss)],
            !.totals[old.pod]    = IF queued THEN @ + (miss - old.miss) ELSE @]

-----------------------------------------------------------------------------
(* What totals should be: the tokens committed to the pod in the window    *)
(* that ends at the last query.                                            *)
WindowTokens(load, p) ==
    MissTokens({e \in load.entries : e.pod = p /\ load.last < e.time + LoadWindow})
=============================================================================
