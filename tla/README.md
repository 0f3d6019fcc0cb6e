# A TLA+ model of the KV-cache balancing simulator

The repository simulates a cluster of inference pods that keep the KV pages of
prompts they have served. A request goes to the pod that holds the longest
prefix of its prompt; when that pod is much busier than another one, the prefix
may be sent over the network and the request finished elsewhere; and when a
request completes, a popular chain of pages may be copied to a further pod ahead
of demand. The program is a discrete-event simulation in one thread. Its numbers
are worth something only if a few delicate invariants hold over every order in
which arrivals, transfers and completions can meet. This directory states those
invariants, checks them with TLC on small clusters, and proves with TLAPS those of
the cache, of the event loop and of its studies, and of the earlier simulator for every
cluster and every trace, and those of the case runner and of the matrix drivers for any
number of processes and kills.

All source paths below are relative to `src/src/simulator/task_main/` unless
they begin with `src/`.

## 1. Inventory

| Component | State | Operations | Talks to |
|---|---|---|---|
| Pod cache, `cache.py` | published pages with pins, recency stamps and residency generations; buffers of transfers in flight; a version counter | `plan_temporary`, `plan_prompt` (read-only), `reserve_temporary`, `publish_prompt`, `complete_transfer`, `pin`, `unpin`, `record_reuse` | called by everything; calls nothing |
| Trace, `trace.py` | none; one tree of pages per replay | `validate_requests`, `full_page_prefix` | feeds the engine |
| Load window, `load.py` | per pod a queue of committed miss tokens and its running sum | `vector`, `commit` | read by routing and by the choice of proactive targets |
| Routing, `routing.py` | none | `affinity_route`, `reactive_gate`, `least_feasible` | reads caches and load |
| Transfers, `transfer.py` | the ledger of transfers | `preflight_chain`, `start`, `complete` | pins the source cache, buffers on the target cache |
| Event loop, `engine.py` | the clock, the heap of wire events, the waiting requests, the results | `run`, `_arrive`, `_reactive_assignment`, `_finish` | owns all of the above |
| Proactive copy, `candidates.py`, `history.py`, `policies.py`, `proactive.py` | the chains seen so far, arrival times per chain | `observe`, `materialize`, `shortlist`, `execute` | called at each completion; starts transfers |
| Metrics, `task_main/metrics.py`, `final_metrics.py`, `validation.py`, `reporting.py` and others | none | pure functions of a finished run, which raise when its records disagree | read the records of the event loop |
| Configuration, `config.py`, `isolation.py` | none | the seven lines of the matrix, construction checks, import guard | |
| Stage 0, `stage0/` | the load window, with corrections | `reconcile_hit` | replaces routing and load |
| Stage 1, `src/scripts/task_main_stage1/` | a directory per attempt | one replay per case | runs the Stage 0 engine |
| Stage 2, `stage2/` | incremental residence index, summaries kept in pieces, streamed ledgers | index hooks, `summary`, a route switch at a fixed time | extends the engine and the cache |
| Stage D1, `stage_d1/` | none | a routing ablation, diagnostics | extends the engine |
| Stage D2, `stage_d2/` | a cached eviction order, releases | safe release of the source after a move | extends cache, transfers and engine |
| Case runner, `run.py` and `common.py` of `src/scripts/task_main_stage2/`, with `stage2/ledger.py` | checkpoint, ledger segments and result files | begin, resume, save, publish, tidy up | runs the Stage 2 engine |
| Matrix drivers, `run_matrix.py` (for pilot and formal runs), `run_stage_d1.py`, `run_stage_d2.py` | source record, checkpoint, manifest, files of every replay, tables | launch, resume, register, compare, publish | replay every case twice in a pool of processes |
| Legacy cache, `src/src/simulator/cache.py` | tree of pages with counters and a lazily cleaned heap, reservations | `pin`, `reserve`, `commit`, `publish`, `release` and others | called by the legacy simulator and by tests |
| Profiling, smoke runs, preflights, summaries, figures, consolidation | none | read a trace or results, write a report | |
| Legacy simulator, `src/src/simulator/engine.py`, `oracle.py`, `strategies.py`, `metrics.py`, `pressure.py` | the clock, a heap of typed events, per request a state, a ticket and a transfer, per pod a queue, its service and announced load, the gate, copies in flight, the token bucket; counters and intervals for the report | one handler per event type in `run`; `summarize`, `pressure_diagnostics` | owns pods and caches; seven modules it imports are gone |

### What is hard here

Nothing runs in parallel, yet almost everything is concurrent. A transfer is two
moments with arbitrary arrivals, completions and other transfers in between; a
request that waits for one is routed under one state of the cluster and finished
under another. The places where this bites:

- **Plan, then commit.** Admission is planned by a read-only preflight and
  carried out later; a router preflights every target before it commits one.
  Only a version stamp decides whether a plan still holds.
- **Shared capacity.** Published pages, buffers in flight and new admissions
  count against one capacity, on both sides of a transfer.
- **Protection without an owner field.** A pin is a counter. Who holds it, and
  who gives it back, is spread over the transfer, the resume batch and `_finish`.
- **Promises.** The hit of a request is committed, to its load as well, when it
  is routed. Between then and its completion other requests publish and evict.
- **Simultaneous events.** All deliveries of a time come before all resumed
  requests, and those before all arrivals of that time.
- **The window.** Running sums of a queue with an open left end.
- **Repetition.** Opportunities come faster than copies arrive.
- **Draining.** A waiting request depends on one heap entry.
- **Derived state.** Stage 2 and D2 keep indices, orders, summaries and counts up to
  date next to what they are derived from, and D2 releases after the fact. The legacy
  cache does the same with its heap and counters.
- **Tickets.** In the legacy simulator a request that waits for a transfer is planned anew
  whenever something ends, with its load announced at one pod after the other, until it
  is admitted, cancelled or timed out, while copies ahead of demand compete for the
  same endpoints.
- **Records.** A finished run is compared with its own records, from several sides;
  a legal but rare order of events must not make two of them disagree.
- **Processes that die.** The runner of Stage 2 and the drivers of the matrices write
  files that a later process goes on from.

`PROJECT.json` lists each of these at its line, with the properties that cover it
or the reason none does yet.

### What makes each component correct

- Pod cache: capacity and prefix closure after every call; a pinned page stays;
  a plan the version check lets through can be carried out to the letter; an
  admission is refused only if it is impossible; least recently used leaves go
  first and only when room is needed; generations are never reused.
- Load window: the running sum is the sum over the window.
- Routing: a handover loses nothing but the partial tail, and promises nothing
  that was not there.
- Transfers and event loop: committed hits survive until they are used; every pin
  and buffer has an owner and ends with it; events keep their order; every
  request is finished once and nothing is left over.
- Proactive copy: no chain is sent to a pod that is already getting it.
- Policies and metrics: foresight is what happens, a copy is judged by what became
  of it, and a run that is right passes its own validation.
- Stage 2: index and summaries agree with the scans they replace, through a route switch.
- D2: a release never removes a page that somebody reads or that came back under
  a new generation; no block disappears from the cluster by being moved.
- Runner: a case that is killed and resumed gives the results of one that is not.
- Matrix drivers: PASS means that every case was replayed twice with one result, by
  the source on record; what is verified is never lost.
- Legacy cache: counters are what they count, the heap finds every page that may go.
- Legacy simulator: none of its assertions fires, reservations are enough at their commit;
  pins, buffers, endpoints and announced load belong to whoever needs them; copies keep
  to their budget, and pages are credited to the copy that brought them; an audit of what a
  tick might copy tells what the tick does, and the report by windows, by requests and by
  counters is one account.

## 2. Modules

```
PrefixTrie ── CacheOps ── TaskMainCache ── IndexedCache
    │            │    │         └─ StageD2Cache
    │            │    └─ MoveOps ──┘   │
    ├─ PageStore │                     └────────────────────┐
    │            └── Routing ── Proactive ── TaskMainEngine ── StageD2Engine
    │ CommittedTokenLoad ─┘        │  │           │  └─ CapacityStudyEngine ── RouteSwitch
    │                              │  └─ ResidenceIndex ──────┴── Stage2Engine
    │                              └─ Policies ── Replay ── FinalMetrics ── Utilization
    └─ PrefixOps ── MCPrefixCache
           └── ReactiveNode ── Simulator ── Summary     Pressure (an instance in Summary)

CaseRunner                 MatrixRunner

TrieLemmas ── CacheLemmas ── TaskMainCacheProofs    (IndexedCache and StageD2Cache too)
     │             └── EngineProofs    (the loop, RouteSwitch, Stage2Engine, StageD2Engine)
     └── ReactiveNodeProofs ── SimulatorProofs    (the earlier simulator)
CaseRunnerProofs           MatrixRunnerProofs
```

`PageStore` is the abstract store that `TaskMainCache` refines. Every module that
is checked has an `MC` module; those of caches and engines add the pages of `SmallTrie`.

**PrefixTrie.** The universe of pages. `validate_requests` gives every page hash
one parent for the whole replay, so the page lists of requests are the paths of
one tree, and a list is named by its last page. `Chain[n]` is the set of pages of
a path; its length is `Depth(n)`. A path that can be extended ends in a full page
(`PartialTailAssumption`), which the trace checks enforce through page identity.

**CacheOps.** The fields of one `TaskMainCache` object as a record, each method
as an operator from record to record. The planner `_plan` keeps a private heap of
unpinned leaves and pops the one least recently used, pushing its parent when that
becomes a leaf. The module states it as a set of legal eviction orders: at each
position the oldest page among those the heap holds by then. Stamps of published
pages are distinct, so at most one order qualifies and `CHOOSE` picks what the
code computes. `lru_time` is not kept: the clock of the loop never goes back and
the code breaks ties by the access order, which alone gives the same order.

**TaskMainCache.** One cache under every legal sequence of calls. Callers are
`Transfer`s, which reserve and complete, and `User`s, which pin, extend and
release paths. Preflight and commit are separate actions and any number of plans
may be out, so every staleness the version stamp must catch can arise. The model
allows more interleavings than the engine produces: what it establishes holds for
any caller that follows the methods' preconditions, those of the later stages
included.

**PageStore.** What the cache promises, with no word of plans, versions, stamps or
generations: held paths stay, promised room is there on delivery, a delivery drops
nothing, paths are closed, the capacity holds. `TaskMainCache` implements it under
`published <- cache.pages, promised <- cache.temporary`.

**IndexedCache.** The cache of Stage 2, around the calls of `TaskMainCache`: each
writes anew the encoded rows of the pages it touches, counts pins, encodes evictions
by chunks and may keep the whole summary. `Summary` is the walk of `TaskMainCache.summary`,
`Reported` what `IndexedCache.summary` answers. A digest stands for what it is taken of.

**CommittedTokenLoad.** The queues, the running sums, `vector` with its pruning and
`commit`, and the sum the window ought to have.

**Routing.** The affinity pod, the gate, direct and copy targets, the least loaded
feasible one. `CanCopy` is `preflight_chain`.

**Proactive.** Demand counts, candidates, the cover of chains in flight, the
shortlist of the PERSISTENCE policy and the row that is started.

**Policies.** `policies.py` and `history.py` in full, with the decision of
`ProactiveController`: future demand, persistence, recency with decay and the cost
gate, the shortlist in its order, and the verdict on every row that is tried. Scores
are integers; `Decay[age]` stands for the exponential.

**TaskMainEngine.** The loop over all pods. One iteration of `run` is a walk through
four stages; each transition of the model is one handler, run to its end:

| Action | Code |
|---|---|
| `Tick` | head of the `while` in `run`: the time of the next event |
| `Deliver` | one pop of the ready heap: `IndependentTransfers.complete`, the waiting request joins the batch |
| `Protect` | the pins of the whole batch |
| `Resume` | `_finish` of the next request of the batch, the proactive copy included |
| `BatchDone` | the batch is over |
| `ArriveAtSource` | `_arrive` that stays at the affinity pod: no policy, gate closed, nothing to carry or no feasible target; commits and finishes at once |
| `ArriveDirect` | `_arrive` handed to a pod that has the prefix already |
| `ArriveCopy` | `_arrive` that starts a transfer and waits |
| `ArrivalsDone` | end of the inner `while` over arrivals |
| `Stop` | the run is over |

The trace is not a constant: each arrival picks its id and its path, and the time
of the arrival after it, so one run of TLC covers every trace within the bounds.
`FinishOn` is `_finish` on its cache: pin unless protected, `record_reuse`, publish
the prompt if a plan exists, unpin. `Opportunity` is its second half.

**CapacityStudyEngine.** Stage 0. Queries of the load no longer
prune (`PureQueries`), and a request is finished with the hit it finds then, not the
one it was promised: `_finish` moves the pins of the batch from one to the other and
corrects the load entry, in the queue too if it is still there. `ResumeActual` takes
the place of `Resume`; `ArriveLeast` is the arrival under `R_LEAST`, which is also
that of Stage D1. `_finish` on arrival finds the hit that was just looked up, so
there it is the frozen one.

**Replay, FinalMetrics, Utilization.** `Replay` is the engine under each line of the
experiment matrix, with every record it writes on the way. The oracle of line 3 is
given its observation in advance (`Observations`), which may have a request at the very
end of visibility that is never replayed. Two ghosts, `intact` and `touched`, note which
copies never lost a page and who hit them. `FinalMetrics` has `build_summary`, the
checks at the end of `run`, the metrics with integers and `validate_metrics`;
`Utilization` the verdicts of Stage 2, read from an index by page and generation.

**MoveOps, StageD2Cache.** The D2 cache: the eviction order kept per version, from
which transfers are planned, the committed protections, and the release of the
source of a move, `SafeSuffix`, walked from the end of the chain to its root. The
target side of a move is an ordinary transfer to the cache it arrives at, and the
source side a pinned path whose end releases (`StartMove`, `CompleteMove`); both meet
in one cache in any order. `MaxPlans` bounds the plans out at one time.

**StageD2Engine.** The loop with moves. The configuration of the ablation fixes
affinity routing, so every transfer is a move, no request waits, and no committed
protection is taken; those are covered by `StageD2Cache`. `MoveArrive` is `_arrive`
and `_finish` with the online demand counts, `DeliverMove` the delivery to the target
and, after it, the release at the source. Plans are computed as in the frozen cache:
`CachedOrderCurrent`, proved for every cache, says that the cached order yields the same.

**ResidenceIndex, Stage2Engine.** The active study of Stage 2. The index is a record
of holders, cover counts and categories with one operator per hook; the engine calls
them with the pages each handler evicts and inserts, in its order, and decides from
the index. `Stage2Arrive` is an arrival, `Stage2Deliver` a delivery.

**RouteSwitch.** The route ablation of Stage 2: the engine of the capacity study with
the routing policy of each arrival given by `RouteAt`; the schedule is chosen at the
start, the two constant ones, which are the plain capacity study, included.

**CaseRunner.** `run_case` as any number of processes on one case: `verify_done`
(`Launch`), the lock, restore or begin, the four writes of `save_checkpoint` one by one,
batches, the export and rename, and the two steps of tidying up. `Abort` ends a process
between any two of them and frees the lock, be it a kill or an exception. A file is a
set of the decisions in it, or the engine pickled in it; an engine is the number of
batches done and its ledger. The hash of a file stands for its content.

| Phase of a runner | Next |
|---|---|
| `idle` | `Launch` if the case is not complete, else `SkipComplete` |
| `verified` | `Refused`, `Restore` or `Begin` |
| `pickle`, `mark`, `unlink`, `start` | the writes of a checkpoint; `start` after the first one only |
| `run`, `flush` | a batch, then the ledger and the checkpoint callback |
| `tidy segments`, `tidy engines` | after `Publish` |

**MatrixRunner.** `run_matrix.py`, `run_stage_d1.py` and `run_stage_d2.py`, whose
differences depend on `driver`. The parent opens a run or recovers one (`Start`, `Resume`,
`Recover`, `Open`, `RefuseToOpen`), collects replays, compares them and publishes; a
worker takes a replay, makes its files and finishes them with the evidence file. Exceptions
and interrupts run the handler (`Halt`), `Kill` does not, and leaves the workers behind.
`Edit` changes the source. The several writes of the handler are one step. Recovery under
D2 checks the file set only, and D2 may leave a checkpoint that says PASS while its tables
are moved aside, which is why PASS is read from checkpoint and manifest together.
As `src/scripts/task_main/README.md` asks, a run is resumed only when no process of the
last launch is left; edits are not taken back. `run_matrix` does not look at its source
again after it has recorded it, D1 and D2 do.

| Phase of the parent | Next |
|---|---|
| `down` | `Start` to open a run, `Resume` to take one up again |
| `opening` | `Open`, with the first checkpoint |
| `recovering` | `Recover` what the checkpoint does not know, then `Open`, or `RefuseToOpen` when files have changed or replays differ |
| `running` | `Collect` a replay, then `registering`; all done: `publishing` |
| `registering` | `Register`, or `Reject` when replays or gates differ |
| `publishing`, `replacing`, `closing`, `reporting` | tables aside, old ones away, new ones in place, checkpoint, manifest |

**PrefixOps, MCPrefixCache.** The cache of the earlier simulator with its heap as a set of
entries that go stale, its running counters and its reservations, as operators.
`MCPrefixCache` is one that is filled by `publish`; the calls of the event loop are those
of `Simulator`.

**ReactiveNode, Simulator, Summary, Pressure.** The event loop of the earlier simulator. `run` is one function
with nested ones that share its variables; here those variables are one record, the nested
functions operators from record to record (`ReactiveNode`), and the branch of the loop for
an event type is an action that takes the first event of the heap (`Simulator`):

| Action | Event | Lines of `src/src/simulator/engine.py` |
|---|---|---|
| `Arrival` | `REQUEST_ARRIVAL`, under six routings | 1296–1343 |
| `Enqueue`, `Admit` | `TRANSFER_ENQUEUE`, `TRANSFER_ADMIT`: every waiting ticket is planned anew and may start | 1345–1652 |
| `Expire` | `TRANSFER_TIMEOUT` | 1348–1361 |
| `Complete` | `TRANSFER_COMPLETE` | 1654–1702 |
| `ServiceStart`, `ServiceDone` | `SERVICE_START`, `SERVICE_DONE` | 1704–1844 |
| `Trigger` | `TRIGGER_TICK`: copies are chosen and started | 853–1212 |
| `Copied` | `PROACTIVE_TRANSFER_COMPLETE`, with the release of a move | 1214–1291 |
| `Finish` | the heap is empty: the checks at the end | 1846–1853 |

The configuration is the variable `mode`, chosen in `Init`. An assertion of the code is
`Check`, which ends the run; `Handled` notes which pages came by which copy, for
`CreditIsDue`. `Popped` is the first event of the heap, as a set. Candidates of a tick are
scored by `Persistence`, `Recency` or `Value` and cut to the shortlist (`Ranked`); under
COST_AWARE a target must be `Worthwhile`. The exponential of RECENCY is a table that falls
with age, the weight of a request one by the length of its path, and the signs of scores are
compared after multiplying out. `HistoryAudit` is `emit_history_candidate_audit`, read in any
state a tick begins in; a run that really emits audits starts no copies.

`past` holds an interval for every stretch of time between two events, with what the pods
did and held. After `done`, `Summarize` makes the report (`Summary`): a result per request
(`Result`), what `metrics.py` makes of them per pod and for the cluster, the audits of the
policies, the verdict on every copy, and the windows of `pressure.py` (`Pressure`). Means are
left as sums and counts, percentiles multiplied by 100, Gini coefficients as pairs.

 The modules `pod`, `tickets`, `routing`, `service`, `transfer`, `reactive_ect`
and `events` are no longer in the tree: the loop cannot be started as it stands, and what
these modules did is taken from the way the loop calls them (`Load`, `Affinity`,
`EndpointReady`, `CopyPlans` and others, marked external in `PROJECT.json`). The model
thus says of the loop that it is right if they did what their callers expect.

**TrieLemmas, CacheLemmas and the Proofs modules.** See section 5.

**SmallTrie and the MC modules.** One small trie, and the views of section 3.

## 3. Runs

| Run | Question | Bounds |
|---|---|---|
| `cache` (`MCCachePlans.cfg`) | May plans, commits, pins and releases be interleaved at will? `TypeOK`, `CacheSound`, `FreshPlansExecutable`, `RefusalsAreForced`, `PinsAreHolds`, `OldestLeafFirst`, `StoreRefined`, and for Stage 2 `SummaryExact` | 4 pages on 3 paths, one a partial tail; capacity 3; 1 transfer, 2 users; chunks of 2 evictions; 109,758 states |
| `engine_reactive` (`MCReactive.cfg`) | Reactive handover: `ProtectionAccounted`, `CommittedHitsKept`, `LoadIsWindow`, `HandoverLosesOnlyTail` | 2 pods of 2 pages, 4 requests over 4 pages, 2 ticks of wire per page, gaps 0 to 2, ids out of order by 1; 206,108 states |
| `replay` (`MCReplay.cfg`) | Lines 1, 2, 3, 6 and 7 of the matrix with all records: `ReplayAccepted`, `WasteExact`, `ForesightComesTrue`, `AllServed` | 2 pods of 2 pages, 4 requests, 1 tick of wire per page, windows of 2 ticks, visibility to tick 4; 72,243 states |
| `study_routes` (`MCRoutes.cfg`) | Stage 0 under both routings and both switches: `LedgersAgree`, `SavedLoadConsistent`, `SwitchHonoured` | as `engine_reactive`, 3 ticks per page, switch at tick 3; 748,376 states |
| `d2_cache` (`MCMoves.cfg`) | Releases, pins, promises and cached plans on one cache: `CachedOrderCurrent`, `ReleaseIsMaximal` | 3 pages on 2 paths, capacity 3, 1 transfer, 2 users up to symmetry, one plan out; 65,900 states |
| `d2_engine` (`MCMoveEngine.cfg`) | Moves ahead of demand: `OnlineIsWindow`, `MovesConserve` | 3 pods of 3 pages, 4 requests, 2 ticks of wire per page; 82,672 states |
| `stage2_index` (`MCIndex.cfg`) | Does the index decide what the scan would? `IndexAgrees`, `NoDoubleCoverage`, `DecidesAsScan` | as `d2_engine`; 81,555 states |
| `case_runner` (`MCRunner.cfg`) | Is a case that is killed and started again finished, once? `ResumeAccepted`, `ExportedOnce`, `NeverReplayed`, `CaseCompletes` | 2 runners, 3 batches, segments of 2 decisions, 2 kills, 14 file names; 44,411 states |
| `matrix` (`MCMatrix.cfg`) | What does a verdict of the drivers mean, and does a run get to one? `PassSound`, `VerifiedStays`, `RunPasses` | 2 cases with a gate, 2 results, all three drivers, 2 workers, 2 faults, 1 edit; 797,659 states |
| `legacy_engine` (`MCSimulator.cfg`) | Does the earlier event loop keep its own assertions and leave nothing behind? `NeverAsserts`, `HoldsAccounted`, `CountersAgree`, `PreflightExact`, `BudgetKept`, `CreditIsDue`; is its report one account? `FiguresAgree` | 3 pods of 3 pages, 5 requests over 2 paths, six configurations with three strategies, timeouts of 1 tick, gaps 0 and 7, a trigger every 3 ticks, a split of 12 ticks in windows of 8 and of 60; 34,635 states |
| `matrix_opening` (`MCMatrixOpening.cfg`) | violated: `InterruptedCanResume` | as `matrix`, 1 fault |
| `legacy_preload` (`MCPreload.cfg`) | violated: `PublishIsSafe` | 4 pages, capacity 2; one cache |

The first ten pass. Deadlock is checked in all of them but `matrix` and `legacy_engine`: the caches always
accept some call, the engines stop only in `Finished`, where `Stop` stutters, and a case
that is complete is skipped (`SkipComplete`). A matrix run may really stop for good:
killed before its first checkpoint, it can be neither started nor resumed. A run of the earlier
simulator ends, with `done`, or with `refused` when a request finds no room.

The last two state what the repository says of the code and TLC finds it is not so:

- `InterruptedCanResume`. The README of `src/scripts/task_main` says to resume when the
  process is interrupted and source and configuration have not changed. A launch makes
  the output directory and records the source before it writes the first checkpoint
  (`run_matrix.py:196`); killed in between, `--resume` refuses the run for want of a
  checkpoint and a fresh start because the directory exists.
- `PublishIsSafe`. The legacy `publish` calls itself capacity-safe. It makes room for the
  pages that are missing, and may evict for that a page of the very path it publishes
  (`src/src/simulator/cache.py:349`); then it inserts more pages than it made room for,
  and the admission fails although nothing is pinned.

What the properties say, beyond their comments in the modules:

- `FreshPlansExecutable` is the reason `_evict` never asserts. It relates a plan
  made in one state to the state it is committed in, over any sequence of calls
  between; leaving the version step out of `pin` breaks it.
- `RefusalsAreForced` compares the greedy planner with what any planner could do:
  the pages below which nothing is pinned or protected.
- `CommittedHitsKept` is why the "committed request Prefix is no longer available"
  error of `_finish` never appears. It crosses three owners: the source pin while
  the wire is busy, the target buffer, and the batch pins.
- `ProtectionAccounted` gives every pin and buffer an owner in the ledger or in
  the batch. With `Finished` it says that nothing leaks.
- `SummaryExact` compares what many calls left behind in pieces with a walk over the
  pages; a page pinned twice, or evicted to make room in a call about other pages, breaks
  a piece that is not written.
- `ReplayAccepted` says that no assertion of the metrics and validation code can fire
  after a replay, `WasteExact` that the verdicts they reach by generations are those of
  the ghosts, which know which pages stayed, for both implementations.
- `ReplayAccepted` includes that line 7, whose cost gate nothing fails with the weights of the
  code, rejects no copy for its cost; the gate that compares line 7 with line 5 relies on it.
  `CostAssumption` and `BucketAssumption` state what that needs: a full cache takes less than
  eight seconds on the wire, and a weight is at least 1.3.
- `ForesightComesTrue` relates a score to arrivals that lie in its future, at both ends
  of the window and of visibility.
- `NoDoubleCoverage` speaks of chains and of deeper chains that cover them, on one
  target, among copies in flight.
- `LedgersAgree` relates three records of one fact: the entries, the queues and their
  running sums, over a correction that comes when the entry has left the queue.
- `ReleaseIsMaximal` compares the walk with the pages that nobody else needs, in terms
  of holders and promises rather than counters.
- `MovesConserve` is the point of copy-then-release: what others hung below the chain
  at the source during the wire time is not lost either.
- `ResumeAccepted` asks of every state in which the processes may have died whether the
  disk still holds a way on; `ExportedOnce` holds although dead processes leave segments
  with decisions that are written again. Both depend on the order of the writes.
- `PassSound` is what later stages take a PASS for. It spans files written by the parent
  and by workers, at different times, some of them of a launch that is dead by then.
  `VerifiedStays` holds against workers that outlive their parent.
- `PreflightExact` compares the heap, whose entries go stale, with the pages that could
  be evicted one after the other; and the audit of candidates with the tick that follows.
- `NeverAsserts` covers every assertion of the loop and of the caches that the model has a
  place for: a reservation that is too small at its commit, a second owner of a request, a
  second start of a pod, an endpoint that belongs to another transfer, a queue or ticket that
  is left at the end, an ECT plan to copy that neither copied nor fell back.
- `HoldsAccounted` counts pins, buffers, endpoints and announced load against the requests,
  tickets and copies that hold them, over replans that move a ticket from pod to pod.
- `BudgetKept` bounds the copies of *every* interval between two starts by burst and rate,
  although the bucket is refilled in two places and capped.
- `CreditIsDue` relates the credits, which are withdrawn late and by reading the log of
  evictions, to a ghost that knows which copy brought which page.
- `FiguresAgree` holds busy time, queues, hits, transfers, endpoints and memory as the windows
  have them against what results and counters have, with and without a split, and the credit
  of a copy against the hits of the requests at its target.
- `DecidesAsScan` replays every decision with the scan the index replaces, on the pods
  as the request left them; `IndexAgrees` says the same of the state between handlers.

**Bounds.** `MaxVersion` caps the mutations of a cache. The counters of a cache
only matter relative to each other, and `MCView` identifies states that differ in
nothing else: recency as an order, versions as the freshness of the plans that are
out. Under this view the cache runs are finite without the cap (the number of
states is the same for 12 and 60 mutations), so the cap of 40 excludes nothing.
The properties read the counters only through those relations, or from one step to the
next. Of the pieces of a summary the view keeps only whether they are right, so TLC
takes the step of every call from one representative of each view; that a step keeps
them right from *every* state is `SummariesExact` in section 5. Capacity 3 against
two paths of two pages that share a page, and one of its own, makes evictions of
leaves, of parents that become leaves, and refusals; a transfer and two users make a
buffer, a delivery of pages that are already there, and a page pinned twice.

In the engine four requests are the least that give two requests resumed at one
time on one pod after two that set up their prefixes. Two pages per pod are the
least that hold a prefix and its extension, and so little room that everything
admitted competes with something promised: dropping the pin test from the planner
breaks `CommittedHitsKept` in `engine_reactive`, and so does resuming a batch
without pinning it first, which with three pages per pod goes unnoticed. In `stage2_index` and `d2_engine`
the pods have three pages, because a chain and its own prefix must both fit the
buffers of one pod before `NoDoubleCoverage` can fail. The situations the properties
need were confirmed reachable: in the reactive run batches of two on one pod, an
admission that is skipped, a direct target, a direct handover that loses the tail, a
fallback for want of room, two transfers in flight at once, a delivery of pages the
target has by then; in `stage2_index` three transfers, two of them in flight at
once, and such a delivery.

In the other runs: corrections of entries inside and outside the window, and releases
that are full, partial and empty, moves that share part of a source chain and three
moves in one run, and requests that wait across the route switch were confirmed
reachable. `study_routes` takes three ticks per page, so that a request arrives and
prunes the window between a commitment of two ticks before and its correction.

In `case_runner` three batches and segments of two decisions give a segment that is
filled between checkpoints and one that is forced by a checkpoint; two kills give a
runner that is killed while another one waits with an outdated look at the result, and
one that finds the case published when it renames (`PublishedAlready`). The file names
never run out (`NameLeft` holds throughout).

In `legacy_engine` five requests give two waiting tickets behind a busy
pod, one of which is planned anew for another target. Confirmed reachable: tickets that are
completed, cancelled, timed out and under ECT replanned, two of them waiting at once,
a quantile that cuts the ranking, candidates COST_AWARE turns down for one target and copies to
another, three copies in one run, copies that find part of their path present, copies refused by
`noEvict`, moves that release, and requests refused for want of room. Requests arrive, wait
and end on both sides of the end of the split; windows of 8 ticks cut intervals and services,
a window of 60 holds them all. The history of 9 ticks is left behind by the longest runs.

In `replay` visibility ends within the trace, so windows end before, at and after it;
evaluation is ticks 1 and 2, so copies start before, in and after it; a tail under `d`
makes two prompts of two pages with nothing in common, which empty a pod of a copy.
In `matrix` the two lines form a gate, so that replays may agree within each line and
not between them; two workers outlive a killed parent together; two faults kill a run
and the resumed run; one edit makes two sources.

`MaxGap` (ticks between arrivals) lets arrivals coincide with each other and with a
delivery, and fall on both sides of it. `LoadWindow` is 2 or 3 ticks, so entries
leave the window during a run, also exactly at its end. `Skew` is how far an id may
run ahead of the arrival order. `PageTime` is the wire time of a page; at 2 ticks
arrivals and opportunities come during a transfer. `Theta` is the factor of the
gate, 2 in the code too; `HistoryWindow` and `ShortlistK` are the parameters of the
policy. Tokens are 3 for a full page and 1 for a partial one, so that a handover of
a partial tail leaves the gate open for another request; only sums and comparisons
of them matter.

**Fairness.** `replay` assumes `ReplayKeepsRunning`: if the loop is not finished,
it takes another step. That is `WF_replayvars` of the next-state relation with its ENABLED
spelt out, which TLC evaluates far more cheaply; the two agree because the run finds no
deadlock. It is the weakest assumption that says anything, one thread that is
scheduled at all. No fairness is assumed between actions: which handler comes next
is decided by the loop. A trace always has a next request while ids are left, for a
trace is a finite list. `case_runner` assumes that a process which runs goes on running
(`WF` of its steps) and that whoever finds the case undone starts it again with
`--resume`, as the run book in `src/scripts/task_main_stage2/README.md` says (`SF` of
`Launch`: between two starts the case may be locked, or started without the flag and
refused). Kills are bounded by `MaxFaults`; without a bound nothing need ever finish. `matrix` assumes `WF` of `Progress`: processes
that run go on running, and an interrupted run is resumed, as the README of
`src/scripts/task_main` says; opening a run, faults and edits need not happen. `RunPasses`
excuses a run whose source was edited or whose replays differ.

## 4. What is only model-checked

- The records and metrics of a replay: `ReplayAccepted`, `ForesightComesTrue`, `WasteExact`.
  They relate folds over the whole history of a run to ghosts; what the folds compute for
  every history would need induction over data.
- Of the legacy simulator `NeverAsserts`, which is not true of every configuration: with more
  than one action per tick, which `config.py:143` allows, two copies of one tick fail the
  accounting at the end (`engine.py:2259`, section 6). It is checked for one action, the default.
  The proofs of section 5 therefore do not use it: what they say of a run holds until an
  assertion fails, which ends it.
- Of `PreflightExact` the half about the audit, `AuditExact`. It does not hold for every value of
  the constants either: an audit lists every target that could take a copy, while a tick asks at
  most `proactive_fanout_targets` of them, so with more targets than turns it may miss the only
  one with room. The run has two turns for the two targets a copy can have among three pods.
- `FiguresAgree`: sums over all intervals of a run, again folds over its history.
- Liveness: `AllServed`, `CaseCompletes`, `RunPasses`. TLAPS reasons neither about ENABLED nor
  about fairness with data.
- The two claims of the repository that fail.

## 5. Proofs

`TaskMainCacheProofs.tla` proves for every trie, capacity and set of transfers and
users:

| Theorem | Says |
|---|---|
| `CacheInvariant` | `Spec => []CacheInv`: the inductive invariant below |
| `TypeCorrect` | `TypeOK` |
| `CacheSafe` | `CacheSound`: capacity and prefix closure |
| `PinsSafe` | `PinsAreHolds`: pinned paths stay published, pin counts are the holders |
| `PlansSafe` | `FreshPlansExecutable`: a plan that passes the version check can be carried out |
| `CacheImplementsStore` | `StoreRefined`: the cache implements `PageStore` |
| `RefusalsForced` | `RefusalsAreForced`: an admission is refused only if no choice of victims would do |
| `EvictsOldestFirst` | `OldestLeafFirst`: what goes is older than every leaf that could have gone |

They rest on the assumptions `PrefixTrie`, `CacheOps` and `TaskMainCache` declare:
the pages form a finite tree whose paths `Chain` lists, partial pages are leaves of
it, transfers and users are finite sets, the capacity is a natural number. TLC
evaluates each of them in the runs. Nothing else is assumed.

**The argument.** No property is inductive alone. `CacheSound` needs to know what a
commit evicts, and that was chosen in another state: so the invariant carries
`FreshPlansExecutable`, which says of every plan that is out what its commit relies
on, *if* its stamp is current. This is preserved because every mutation raises the
version and every stamp is at most the version (`CallersInStep`), so after a
mutation no older plan is fresh, while a preflight establishes it from the definition
of the planner. That a prefix stays closed when victims go needs that no victim
strands a child, part of `Executable`. Pins are safe because victims have no pins
(`Executable` again) and a page on a held path has one (`PinsAreHolds`, which
needs the exact count to survive the unpin of another user on a shared page).
A delivery fits because the buffer it gives up is as long as the chain it brings
(`CallersInStep`), whatever part of the chain was published meanwhile. The
conjunction of the five is `CacheInv`.

The planner is greedy, `RefusalsAreForced` speaks of what any planner could do. A page is
reclaimable when nothing pinned or protected hangs below it. As long as one is left, the
deepest of them is a leaf the heap holds, and among the finitely many in the heap one is the
oldest: so every order that is shorter than the number of reclaimable pages can be extended
(`NextPopExists`, `OrdersExist`), and none pops a page that is not reclaimable.

`OldestLeafFirst` needs `OrderInv`: published pages have distinct stamps, at most the
counter (`Stamped`), and a plan that is fresh was chosen by the stamps of now (`PlansOrdered`).
The stamps matter because a plan is made in one state and carried out in another; a touch
moves the version, so an order that is outdated is not fresh.

`TrieLemmas.tla` and `CacheLemmas.tla` have the facts about the operators: paths and their prefixes,
sums over finite sets and how they grow (by the least counterexample, for the folds are recursive
functions on sets), the sum of the buffers as a cardinality, the eviction orders of the
planner and what carrying one out removes, and that publishing a path with its missing
pages keeps prefixes closed. The refinement maps `Reserve` to `Promise`, `Publish` to `Admit`,
`Complete` to `Deliver`, `PinPath` and `UnpinPath` to `Hold` and `Release`, and
everything else to a stutter.

The caches of Stage 2 and D2 take the steps of this one and add to them, so their proofs stand in
the same module and begin with `CacheInv`. For the indexed cache `SummariesExact` is
`IndexedSpec => []SummaryExact`, for every trie, capacity, set of callers and chunk size (`ChunkAssumption`: at least one). Each piece
is exact: the rows are those of the published pages, the pin count is the number of pinned
pages, the encoded evictions are the evictions, and the memo tells the truth if it has the
version of the present. The rows survive because each call refreshes every page whose state
it changes, victims included (`Spares`, `RowsKept`). The pin count survives evictions, which do not
touch it, because no victim is pinned, and that is part of `CacheInv`. That evictions
are encoded from the start of the last chunk without loss or repetition is `CutAnywhere`. A
memo is never of a later version than the present (`MemoExact`), so a call that moves the
version outdates an old one.

For the cache of the move ablation the module proves:

| Theorem | Says |
|---|---|
| `D2Invariant` | `D2Spec => []D2Inv`: the inductive invariant below |
| `CachedOrderIsCurrent` | `CachedOrderCurrent`: the cached order plans and refuses as the frozen planner would |
| `ReleasesAreMaximal` | `ReleaseIsMaximal`: the source of a move gives up every page of the chain nobody else needs, and no other |

**The argument.** The frozen planner pops as many pages as one transfer needs, the D2 planner pops
all it can, keeps the order and cuts prefixes off it. Everything reclaimable can be popped, and
stamps are distinct, so there is one complete order and every plan is a prefix of it
(`Exhausts`). The memo is that order of the cache as it is *if* its version is the present one
(`MemoCurrent`); that a call which moves no version moves no order either is what the proof goes
through call by call. For the release, `MovesNoted` says that whoever moves a path still holds
it, in the generations noted when the move began (a held page is not evicted, so not reborn);
pin counts are the holders (`PinsAreHolds`) and committed protections the promises still
out (`PromisesCounted`). What hangs below a page of the chain hangs below it link by
link, so the walk from the end to the first page that is needed stops exactly there.

`EngineProofs.tla` proves of the event loop, for every trace (ids, paths and gaps between arrivals), any
number of pods and requests, every wire time, window, gate and policy:

| Theorem | Says |
|---|---|
| `EngineInvariant` | `Spec => []EngineInv`: the inductive invariant below |
| `ProtectionIsAccounted` | `ProtectionAccounted`: every pin and every buffer has an owner |
| `CommittedHitsAreKept` | `CommittedHitsKept`: what was promised is there when it is used |
| `LoadIsTheWindow` | `LoadIsWindow`: the running sums are the sums over the window |
| `HandoverKeepsFullPages` | `HandoverLosesOnlyTail` |
| `NoChainIsCoveredTwice` | `NoDoubleCoverage` |

They rest on the assumptions of `PrefixTrie`, `CacheOps`, `CommittedTokenLoad`, `Routing`,
`Proactive` and `TaskMainEngine`: finitely many pods and requests, a transfer id per request,
positive wire time and window, and that the matrix never combines handovers with copies ahead
of demand (`PolicyAssumption`).

**The argument.** The loop keeps one fact in several places: a transfer is an entry of the
ledger, an event in the heap, pins at the source, a buffer at the target and perhaps a waiting
request. `CoreInv` says that they agree. `Ledgered`: the heap is the ledger's transfers in
flight; each cache is sound, and each page has as many pins as transfers in flight from that pod
and, during `resume`, requests of the batch hold it; each buffer is that of a transfer in
flight to the pod, as long as its chain. From this everything about caches follows by the
lemmas of `CacheLemmas`, with the one cache a handler touches in the place of `cache`: victims
have no pins, so no chain in flight and no hit of the batch loses a page. `WaitInv` carries a
promise over the wire: who waits is assigned the transfer in flight to its pod with the chain
it was promised, who is in the batch finds its hit published. That an arrival which is
finished at once cannot disturb those who wait is the same fact about pins. `ClockInv` says
that nothing due lies in the past, so time moves to the least of finitely many events and no
delivery is overtaken. `WindowInv` relates queues, entries and running sums; it is kept by
pruning because what goes is exactly what is outside the window, whose sum is split off
(`SumUnion`).

`NoDoubleCoverage` is part of `Ledgered` (as `NoDouble`, over the ledger): a copy is started only
for a candidate that nothing in flight to its target covers.

Of the capacity study the module proves, for every schedule, the two constant ones being the plain capacity
study:

| Theorem | Says |
|---|---|
| `StudyInvariant` | `SwitchSpec => []StudyInv`: the inductive invariant below |
| `LedgersStayTogether` | `LedgersAgree`: entries, queues and sums are one ledger |
| `ServedIsCharged` | `SavedLoadConsistent`: a served request is charged what it computed, where it did |
| `SwitchIsHonoured` | `SwitchHonoured`: no handover on the wrong side of the switch |

**The argument.** `StudyInv` is `CoreInv`, which needs the handlers of the study in place of those
of the loop, and that every request that has arrived is in one place (`Unique`), has one entry
(`OneEntry`) and is charged, from its arrival on, what its assignment leaves to compute
(`Charged`). A correction changes hit and charge together; that the entry to change is *the* entry of
the request is `OneEntry`, and that the corrected hit lies on its path, so that the charge is not
negative, is `OnPath`. A correction may come after the entry has left its queue; then the
sums do not change, and the window they stand for does not contain it. The invariant is not
`EngineInv`: a request that waits may find more than it was promised, so `HandoverLosesOnlyTail`
does not hold in a study.

Of the indexed engine it proves, for every trace, number of pods and history window:

| Theorem | Says |
|---|---|
| `Stage2Invariant` | `Stage2Spec => []Stage2Inv`: the inductive invariant below |
| `IndexedEngineImplements` | `Stage2Spec => Spec`: the indexed engine implements the event loop |
| `IndexAlwaysAgrees` | `IndexAgrees`: between handlers the index answers what the scan would find |
| `IndexDecidesAsScan` | `DecidesAsScan`: each copy has the chain, source and target of the scan |
| `IndexCoversOnce` | `NoDoubleCoverage` |

**The argument.** The index is *exact* after each hook, not only between handlers (`Exact`): the
holders of a page are the pods that have it, a cover count is the number of proactive transfers
in flight that bring the page to the pod, a category is what holders and counts classify the
chain as. An eviction or insertion touches the pages it names and reclassifies them;
a delivery first lowers the counts and then inserts; each hook is one lemma. Whole chains are
looked up by their last page, which is enough because caches are closed under prefixes, and a
count per page is enough because a chain that covers another contains its last page. That only
chains with active demand are listed loses none: a demand within the window is not due
(`ActiveInv`), and a chain without demand is never shortlisted. So the view the engine decides
from makes the same choice as the scan, each step of the engine is a step of `TaskMainEngine`, and
its invariants hold without a proof of their own.

Of the move ablation it proves, for every trace, number of pods, wire time and history window:

| Theorem | Says |
|---|---|
| `MoveInvariant` | `MoveSpec => []MoveInv`: the inductive invariant below |
| `MovesStayAccounted` | `ProtectionAccounted`, `CommittedHitsKept`, `LoadIsWindow` and `NoDoubleCoverage` hold with moves too |
| `OnlineCountsAreWindow` | `OnlineIsWindow`: the running counts are the counts over the window |
| `MovesLoseNothing` | `MovesConserve`: every page a source lets go of is on some pod afterwards |

**The argument.** `MoveInv` is `CoreInv` without waiting requests, and `OnlineInv` of the deque.
The deque forgets, so it is not the history; `OnlineInv` says instead what it counts at *every later
time*: for each page and each time from now on, the entries still in the window are as many as
the history has. What `Prepared` drops is in the window of no later time, so dropping it keeps this,
and after it the counts are those of the window (`PreparedKeeps`). Once the counts agree,
an arrival of the ablation is an arrival of the event loop (`MoveArriveIsArrive`) and its
lemmas apply. A delivery is that of the loop and then a release at the source: pages
without pins, from the end of a chain that the target has by then. They are in no chain in
flight and in no hit, and the target has them, so neither `CoreInv` nor the cluster loses
anything.

`CaseRunnerProofs.tla` proves for any number of processes, batches, kills and file
names:

| Theorem | Says |
|---|---|
| `RunnerAlwaysSound` | `Spec => []RunnerInv`: the inductive invariant below |
| `AlwaysResumable` | `ResumeAccepted`: a case without a result that nobody works on is taken up by `--resume` |
| `AlwaysExportedOnce` | `ExportedOnce`: a result has the decision of every batch exactly once |
| `CheckpointNeverGoesBack` | `NeverReplayed`: the checkpoint only moves forward, a result is final |

They rest on `RunnerAssumption` alone: there is at least one batch, a segment has at
least one decision, and the values that stand for "none" are not files, runners, marks
or results.

**The argument.** Every engine, pickled or in memory, *accounts* for its decisions: each
batch done has its decision in memory or in exactly one of the segments the ledger
names. An engine is *intact* when those segments are on disk with the contents it
wrote. The invariant says that the pickle `resume.json` names is intact until there is a
result, and that so is the engine of the runner with the lock, which is at least as far
as the mark. It is inductive because a new file has a name that nothing on disk or in
memory mentions, so a write disturbs no segment an intact engine names, and because the
only pickle that goes before the result is the one `resume.json` named before. The
segments of killed runners may lie around: no engine that is marked names them, and an
export reads only what its engine names. That the runner past the lock is the only one
(`OneWorker`) is what lets each step be looked at alone.

`MatrixRunnerProofs.tla` proves for every set of cases and gates, each driver, any number
of workers, faults and edits:

| Theorem | Says |
|---|---|
| `MatrixInvariant` | `Spec => []Inv`: the inductive invariant below |
| `PassIsSound` | `PassSound`: what a verdict of PASS stands for |
| `VerifiedStaysSo` | `VerifiedStays`: a registered replay stays registered and untouched |

They rest on `MatrixAssumption` and `NoneAssumption` (gates are pairs of cases, at least one
worker, the values for "none" and "partial" are nothing else).

**The argument.** A verdict is made of memory, memory of files, and files of processes that may be
dead. `Registration` says that what the checkpoint or the parent's memory has of a replay
is what its complete files say. `Ages` says when those files were made: by a source no
older than the one on record and no newer than the present one. So when `SameSource` finds
the present source equal to the record at the end, every replay in between was made by it,
although none of them was looked at again. `Stages` says what each phase of the parent, and of
a worker, has behind it, in particular that a run which is busy again after a PASS has taken
it back in the manifest, so that PASS is never read from two files of different times.

`ReactiveNodeProofs.tla` and `SimulatorProofs.tla` prove of the earlier simulator, for every
trace, trie, number of pods and requests, capacity, budget and configuration, any number of
actions per tick included:

| Theorem | Says |
|---|---|
| `LegacyInvariant` | `Spec => []LoopInv`: the inductive invariant below |
| `HoldsStayAccounted` | `HoldsAccounted`: pins, buffers, endpoints and announced load belong to whoever needs them |
| `CountersStay` | until an assertion fails, `CountersAgree`: the counters of a cache are what they count |
| `AdmissionStaysExact` | until an assertion fails, `AdmissionExact`: the heap finds every page that may go |
| `BudgetStaysKept` | until an assertion fails, `BudgetKept`: every interval keeps to burst and rate |
| `CreditStaysDue` | until an assertion fails, `CreditIsDue`: credits are with the copy that brought the page |

They rest on the assumptions of `PrefixTrie`, `PrefixOps`, `ReactiveNode` and `Simulator`: a finite
tree of pages, finitely many pods and at least two, service and wire times that are positive,
distinct ranks of hashes. A property that speaks of caches or books is stated until an
assertion fails because a handler that fails a `Check` leaves them half written, and the run ends
there.

**The argument.** While a run goes on, `NodeInv` says five things of the one record the nested
functions share. `Lives`: a request is queued, in service or waiting as its state says, once.
`Ticketed`: an open ticket has announced its load at one pod and nowhere else, and the gate holds
the tickets that are queued. `Flying`: every transfer on the wire, of a request or of a copy, has
its two pods to itself, its path pinned at the source and its room at the target, and no other
pod is busy. `Serving`: private pages belong to the request in service. `Posted`: what is
scheduled can be handled. A pod has at most one transfer and one service, so the pins of a cache
are those of two paths at most, and `CacheOk(c, m, h)` is the invariant of a cache whose pins are
those of `m`, which a transfer reads, and of `h`, which a service reads. It also has what makes the
lazily cleaned heap right: each page that may go has an entry that is not stale (`Findable`), so an
eviction that stops has removed everything that could go (`EvictStep`, `IsEviction`).
Handlers go through states in which the request at hand is neither here nor there;
`NodeInv(w, r)` leaves that one out, and one lemma per nested function says where it is left out
and where it is back. An admission is a round over the gate in which tickets leave it
(`IsRound`): what a turn does to one ticket leaves the others' announced load alone.
`LoopInv` adds the loop: no event is overdue, the bucket is what rate and payments since any
earlier start make it at most (`Thrifty`, from which `Within` follows for every interval,
although the bucket is refilled in two places and capped), and pages that went since the last event
are noted in `gone`, so that a credit that is still there although its page is not, is one that
the next event withdraws.

Out of the prover's reach, so left to TLC: liveness and ENABLED, and what a definition
by recursion computes for all inputs. No module here declares a recursive operator. The sums
over finite sets, which are folds of the community modules, are the exception to the second:
`TrieLemmas` proves what the engines need of them by hand, by the least counterexample.

## 6. What is not modelled

- Wire time as 14 MiB per page at 25 GB/s and the float clock: time is in ticks,
  and rounding is outside the model.
- Of the records the digests and the fields that repeat others; of the metrics the Gini
  coefficients and `reporting.py`; the comparison of two runs field by field
  (`equivalence.py`) and `future_access.py`, which nothing reads.
- Of Stage 0 the occupancy samples and failure reasons, of Stage 2 the sliding form of the
  future window, the peaks of a cache, the sets of changed pages that shorten its
  invariant checks and the counts of single pages of the utilization report, of D1 the cached
  sort order and the diagnostics, of D2 predicted releases, records and reports. D1 and
  D2 look a chain up by its last page; `PrefixClosed`, part of `CacheSound`, makes that
  the full lookup.
- The path of `StageD2Transfers.complete` on which the target commit raises: the replay
  is aborted there, and nothing of the caches makes it raise.
- Of the case runner the manifest, the worker pool, the check that source and head did
  not change, and writes that the machine loses after the process has made them: the
  checkpoint is synced to disk, ledger segments are not.
- Of the matrix drivers the authorisation flags, the progress file, and the evidence that
  D1 and D2 take from earlier runs.
- The runner of Stage 1: one pass without checkpoints to resume from, a directory of its
  own for each attempt, a marker and one rename; a killed case is replayed from its start.
  Its optimised engine keeps a summary per version, the simple form of what `IndexedCache`
  models.
- Profiling, smoke runs, preflights, summaries, figures, `consolidate.py`: sequential scripts
  that read a trace or results and write a report. These are a large
  part of the lines of the repository; what they can get wrong is arithmetic on files.
- Of the legacy simulator the strategy FUTURE_DEMAND, which reads the trace ahead; the O2P and
  O2A probes and forced copies; the counters of skipped candidates and the fields of the audit
  that only count; the areas of remaining service time and the files `write_outputs` makes.
  The areas are left out for a reason: an interval that is clipped keeps the values of
  remaining service it had at its uncut ends (`pressure.py:38`), so at the ends of a split they
  are not what the requests say. Two more things were met while modelling. With more than one
  action per tick a `history_current_only` run is accepted and ends in "P1 decision accounting
  mismatch", for ticks without a copy and copies no longer add up to ticks (`engine.py:2259`);
  the model keeps to one. And `emit_history_candidate_audit` calls itself the exact pipeline
  (`engine.py:708`), but ranks only candidates with an idle source while a tick cuts its
  shortlist before it asks for one: `AuditExact` compares the two on the shortlist. Its imports are gone (`docs/analysis/legacy_code_cleanup_final.md`),
  and the import guard of the present simulator rejects it.
- `_copy_or_fallback` and `IndependentTransfers.preflight`, which the loop does not
  call.

## 7. Plan

The order is by weight: first what every stage of the simulator rests on (done),
then what later stages add to it.

1. Done: the pod cache, its abstract store, and their proofs.
2. Done: the event loop with reactive and proactive transfers.
3. Done: move instead of copy (Stage D2), the load corrections of Stage 0, the residence
   index, the summaries and the route switch of Stage 2; the case runner.
4. Done: the policies, the records of a replay, the metrics and their validation, the verdicts
   of the utilization report; the matrix drivers; the legacy cache, the legacy event loop with
   its strategies, and its report.
5. Done: theorems for the cache and its versions of Stage 2 and D2, the event loop, the capacity
   study with its route switch, the indexed engine, the move ablation, the case runner, the
   matrix drivers, and the earlier simulator.
6. Next: that no `Check` of a handler of the earlier simulator fails, whatever the number of
   actions per tick, from an invariant that also counts the events of each request in the heap.
7. Then: FUTURE_DEMAND in the legacy simulator; the sliding future window of Stage 2 against
   `Policies`; the runner of Stage 1.
