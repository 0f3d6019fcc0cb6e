--------------------------- MODULE StageD2Engine ----------------------------
(***************************************************************************)
(* The engine of the move ablation, task_main/stage_d2/engine.py with      *)
(* action MOVE: the loop of TaskMainEngine in which a proactive copy, once *)
(* it is at its target, lets go of what the source need not keep, and in   *)
(* which demand is counted online (stage_d2/history.py).                   *)
(*                                                                         *)
(* StageD2Config fixes affinity routing, so every transfer is a move, no   *)
(* request waits for one, and no committed protection is ever taken.       *)
(* Targets are planned by PlanTemporary; that the cached order of the D2   *)
(* cache gives the same plans is CachedOrderCurrent of StageD2Cache.       *)
(***************************************************************************)
EXTENDS TaskMainEngine, MoveOps

VARIABLES
    moves,  \* move_metadata: the generations noted for each transfer
    online  \* the running counts and the deque of StageD2DemandHistory

movevars == <<vars, moves, online>>

Unprotected == [b \in Block |-> 0]

MoveInit ==
    /\ RoutingPolicy = "R_AFF" /\ ~PureQueries
    /\ Init
    /\ moves = << >>
    /\ online = [counts |-> [b \in Block |-> 0], events |-> << >>]

-----------------------------------------------------------------------------
(* Online demand.  The events of one arrival share their time and expire   *)
(* together, so the deque holds one entry for all of them.                 *)

ObserveOnline(on, n) ==
    [on EXCEPT
        !.counts = [b \in Block |-> IF b \in Chain[Observed(n)] THEN @[b] + 1 ELSE @[b]],
        !.events = Append(@, [time |-> now, chain |-> Observed(n)])]

\* Mutant: an event exactly one window old is kept.
OutdatedClosed(events) ==
    Max({k \in 0 .. Len(events) : \A i \in 1 .. k : events[i].time + HistoryWindow < now})

(* The events at the head of the deque that have left the window. *)
Outdated(events) ==
    Max({k \in 0 .. Len(events) : \A i \in 1 .. k : events[i].time + HistoryWindow <= now})

(* _prepare; time never goes back here, so it is never refused. *)
Prepared(on) ==
    LET gone == Outdated(on.events)
        expired(b) == Cardinality({i \in 1 .. gone : b \in Chain[on.events[i].chain]})
    IN  [counts |-> [b \in Block |-> on.counts[b] - expired(b)],
         events |-> SubSeq(on.events, gone + 1, Len(on.events))]

-----------------------------------------------------------------------------

(* The generations that start notes for the move it adds to the ledger. *)
NoteMove ==
    moves' = IF transfers' = transfers
               THEN moves
               ELSE LET t == transfers'[NextTransferId]
                    IN  Append(moves, SourceGenerations(caches'[t.source], t.chain))

(* _arrive and _finish: as ArriveAtSource, with the online counts, which   *)
(* are only brought up to date when there is a candidate to score.         *)
MoveArrive(r, n) ==
    LET assigned   == Assignment(r, n, Source(n), Source(n), RouteHit(n), RouteHit(n), 0)
        ld         == CommitLoad(load, r, assigned.pod, MissOf(n, assigned.hit), now)
        pods       == PodsAfter(assigned, FALSE)
        candidates == Candidates(pods, transfers, SeenWith(n))
        observed   == ObserveOnline(online, n)
        counted    == IF DOMAIN candidates = {} THEN observed ELSE Prepared(observed)
    IN  /\ Arrives(r, n)
        /\ Opportunity(r, pods, LoadVector(ld, now), candidates, counted.counts)
        /\ NoteMove
        /\ online' = counted
        /\ load' = Query(ld, now)
        /\ served' = served \cup {assigned}
        /\ seen' = SeenWith(n)
        /\ demand' = DemandWith(n)
        /\ UNCHANGED <<now, stage, pending, batch>>

(* The source at the end of move id: unpinned, then rid of the suffix that *)
(* is safe to release.                                                     *)
Released(c, id) ==
    SafeReleaseSuffix(Unpin(c, transfers[id].chain), Unprotected, transfers[id].chain, moves[id])

(* StageD2Transfers.complete: the target first, then the source. *)
DeliverMove ==
    /\ stage = "deliver"
    /\ \E e \in ReadyNow :
          LET t == transfers[e.transfer]
          IN  /\ PoppedFirst(e, ReadyNow)
              /\ caches' = [caches EXCEPT
                     ![t.target] = CompleteTransfer(@, e.transfer, t.chain),
                     ![t.source] = Released(@, e.transfer)]
              /\ transfers' = [transfers EXCEPT ![e.transfer].status = "COMPLETED"]
              /\ ready' = ready \ {e}
    /\ UNCHANGED <<now, stage, due, load, pending, batch, served, seen, demand, moves, online>>

MoveNext ==
    \/ (Tick \/ Protect \/ BatchDone \/ ArrivalsDone \/ Stop) /\ UNCHANGED <<moves, online>>
    \/ DeliverMove
    \/ \E r \in Request, n \in Block : MoveArrive(r, n)

MoveSpec == MoveInit /\ [][MoveNext]_movevars

-----------------------------------------------------------------------------
(* Properties *)

(* No block disappears from the cluster by being moved, be it in the chain *)
(* of the move or an extension of it that others brought to the source     *)
(* meanwhile: what a delivery takes from the source is published at the    *)
(* target by then (stage_d2/transfer.py, complete).                        *)
MovesConserve ==
    [][stage = "deliver" =>
          \A p \in Pod : \A b \in caches[p].pages : \E q \in Pod : b \in caches'[q].pages]_movevars

(* The online counts are the counts over the window that the frozen engine *)
(* takes from its buckets ("Exact Persistence counts with one monotonic    *)
(* sliding-window update"), however long they were not brought up to date. *)
OnlineIsWindow == \A b \in Block : Prepared(online).counts[b] = DemandCount(demand, b, now)
=============================================================================
