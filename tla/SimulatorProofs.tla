--------------------------- MODULE SimulatorProofs ---------------------------
(***************************************************************************)
(* Proofs about the earlier simulator, second part: service, proactive     *)
(* copies, the steps of the loop, and what follows for every trace.        *)
(*                                                                         *)
(* The invariant is LoopInv.  While a run goes on it is NodeInv of the     *)
(* node, the balance of the token bucket, and what is known of the heap;   *)
(* of a run that has ended without a failed assertion it keeps what the    *)
(* caches, the budget and the credits of pages are.                        *)
(***************************************************************************)
EXTENDS ReactiveNodeProofs

-----------------------------------------------------------------------------
(* The hits of a service on copies *)

\* The copies are the same but for what is noted of their use.
SameCopies(w, v) ==
    /\ DOMAIN v.copies = DOMAIN w.copies
    /\ \A i \in DOMAIN w.copies :
          LET x == w.copies[i]
              y == v.copies[i]
          IN  /\ y.active = x.active /\ y.id = x.id /\ y.source = x.source /\ y.target = x.target
              /\ y.path = x.path /\ y.start = x.start

(* Notes on copies, credits and tokens disturb nothing.                    *)
LEMMA BooksOk ==
    ASSUME NEW w, NEW h, NodeInv(w, h), NEW v \in World, SameCopies(w, v),
           v.now = w.now, v.pods = w.pods, v.runs = w.runs, v.gate = w.gate, v.events = w.events,
           v.outcome = w.outcome
    PROVE  NodeInv(v, h)
<1>1. w \in World /\ Lives(w) /\ Ticketed(w, h) /\ Flying(w, h) /\ Serving(w) /\ Posted(w)
  BY DEF NodeInv
<1>2. Lives(v) /\ Ticketed(v, h)
  BY <1>1 DEF Lives, LifeOf, Ticketed, Bound, Settled
<1>3. Posted(v)
  BY <1>1 DEF Posted, Ready, SameCopies
<1>4. (\A p \in Pod : SameHold(w.pods[p], v.pods[p])) /\ SameMoves(w, v, h, h)
  BY SMTT(30) DEF SameHold, SameMoves, SameCopies
<1>5. Serving(v) /\ \A p \in Pod : HitOf(v, p) = HitOf(w, p)
  BY <1>1 DEF Serving, HitOf
<1>6. Flying(v, h)
  BY <1>1, <1>4, <1>5, FlyingFrame
<1>7. v.outcome = "running"
  BY DEF NodeInv
<1>8. QED
  BY <1>2, <1>3, <1>5, <1>6, <1>7 DEF NodeInv

\* All but the copies is the same.
ButCopies(w, v) ==
    /\ v.now = w.now /\ v.pods = w.pods /\ v.runs = w.runs /\ v.gate = w.gate /\ v.events = w.events
    /\ v.outcome = w.outcome /\ v.tokens = w.tokens /\ v.refilled = w.refilled
    /\ v.replicas = w.replicas /\ v.gone = w.gone /\ v.nextTicket = w.nextTicket
    /\ v.nextTransfer = w.nextTransfer /\ v.stats = w.stats

\* What the use of hit at pod p writes on copy i.
NoteOf(w, p, hit, i) ==
    LET pages == {x \in Chain[hit] : w.replicas[p][x] = i}
    IN  [w.copies[i] EXCEPT !.used = @ \cup pages, !.hits = @ + Cardinality(pages),
                            !.firstUse = IF @ = Absent THEN w.now ELSE @]

UsedBy(w, v, p, hit) ==
    /\ v = [w EXCEPT !.copies = v.copies]
    /\ v.copies = [i \in DOMAIN w.copies |-> v.copies[i]]
    /\ \A i \in DOMAIN w.copies : v.copies[i] = w.copies[i] \/ v.copies[i] = NoteOf(w, p, hit, i)

(* Used writes on copies only, and starts none.                            *)
LEMMA UsedKeeps ==
    ASSUME NEW w, NEW p, NEW hit, Fields \subseteq DOMAIN w
    PROVE  UsedBy(w, Used(w, p, hit), p, hit)
<1> DEFINE pages(i) == {x \in Chain[hit] : w.replicas[p][x] = i}
           f == [i \in DOMAIN w.copies |->
                   IF pages(i) = {} THEN w.copies[i]
                   ELSE [w.copies[i] EXCEPT !.used = @ \cup pages(i), !.hits = @ + Cardinality(pages(i)),
                                            !.firstUse = IF @ = Absent THEN w.now ELSE @]]
           v == Used(w, p, hit)
<1>1. v = [w EXCEPT !.copies = f]
  BY DEF Used
<1>2. f = [i \in DOMAIN w.copies |-> f[i]]
  BY Zenon
<1>3. ASSUME NEW i \in DOMAIN w.copies
      PROVE  f[i] = w.copies[i] \/ f[i] = NoteOf(w, p, hit, i)
  <2>1. NoteOf(w, p, hit, i)
          = [w.copies[i] EXCEPT !.used = @ \cup pages(i), !.hits = @ + Cardinality(pages(i)),
                                !.firstUse = IF @ = Absent THEN w.now ELSE @]
    BY DEF NoteOf
  <2>2. f[i] = IF pages(i) = {} THEN w.copies[i] ELSE NoteOf(w, p, hit, i)
    BY Zenon, <2>1
  <2> HIDE DEF f, pages
  <2>3. QED
    BY <2>2
<1> HIDE DEF f, v
<1>4. v.copies = f
  BY <1>1 DEF Fields
<1>5. QED
  BY <1>1, <1>2, <1>3, <1>4 DEF UsedBy, v

(* Noting the use of copies changes no plan.                               *)
LEMMA UsedOk ==
    ASSUME NEW w \in World, NEW p \in Pod, NEW hit \in Node, NEW v, v = Used(w, p, hit)
    PROVE  v \in World /\ ButCopies(w, v) /\ SameCopies(w, v)
<1>1. w.copies \in Seq(CopyRecord) /\ Fields \subseteq DOMAIN w /\ w.now \in Nat
  BY DEF World, Fields
<1>2. UsedBy(w, v, p, hit)
  BY <1>1, UsedKeeps
<1>3. IsFiniteSet(Chain[hit]) /\ Chain[hit] \subseteq Block
  BY ChainFacts
<1>4. ASSUME NEW i \in DOMAIN w.copies
      PROVE  /\ v.copies[i] \in CopyRecord
             /\ LET x == w.copies[i]
                    y == v.copies[i]
                IN  /\ y.active = x.active /\ y.id = x.id /\ y.source = x.source
                    /\ y.target = x.target /\ y.path = x.path /\ y.start = x.start
  <2> DEFINE x == w.copies[i]
             y == v.copies[i]
             pages == {b \in Chain[hit] : w.replicas[p][b] = i}
             n == x.hits + Cardinality(pages)
             first == IF x.firstUse = Absent THEN w.now ELSE x.firstUse
  <2>1. x \in CopyRecord
    BY SMTT(30), <1>1, ElementOfSeq
  <2>2. y = x \/ y = [x EXCEPT !.used = @ \cup pages, !.hits = n, !.firstUse = first]
    BY Zenon, <1>2 DEF UsedBy, NoteOf
  <2>3. pages \subseteq Block /\ IsFiniteSet(pages)
    BY <1>3, FS_Subset
  <2>4. Cardinality(pages) \in Nat
    BY <2>3, FS_CardinalityType
  <2> HIDE DEF pages, x
  <2>5. x.hits \in Nat /\ x.firstUse \in Int
    BY <2>1 DEF CopyRecord
  <2>6. n \in Nat /\ first \in Int
    BY <1>1, <2>4, <2>5
  <2> HIDE DEF y, n, first
  <2>7. /\ y \in CopyRecord
        /\ y.active = x.active /\ y.id = x.id /\ y.source = x.source
        /\ y.target = x.target /\ y.path = x.path /\ y.start = x.start
    BY ZenonT(40), <2>1, <2>2, <2>3, <2>6 DEF CopyRecord
  <2>8. QED
    BY <2>7 DEF x, y
<1>5. v.copies \in Seq(CopyRecord)
  <2>1. DOMAIN w.copies = 1 .. Len(w.copies) /\ Len(w.copies) \in Nat
    BY <1>1, LenProperties
  <2>2. v.copies = [i \in DOMAIN w.copies |-> v.copies[i]]
    BY <1>2 DEF UsedBy
  <2>3. v.copies \in [1 .. Len(w.copies) -> CopyRecord]
    BY <1>4, <2>1, <2>2
  <2>4. QED
    BY <2>1, <2>3, SeqDef
<1>6. v \in World /\ ButCopies(w, v)
  <2>1. v = [w EXCEPT !.copies = v.copies]
    BY <1>2 DEF UsedBy
  <2>2. QED
    BY <1>5, <2>1 DEF ButCopies, World
<1>7. DOMAIN v.copies = DOMAIN w.copies
  BY <1>2 DEF UsedBy
<1>8. QED
  BY <1>4, <1>6, <1>7 DEF SameCopies

-----------------------------------------------------------------------------
(* Service *)

\* m is what a transfer has pinned at pod p, Root for nothing.
Lent(w, h, p, m) ==
    /\ m \in Node /\ CacheOk(w.pods[p].cache, m, HitOf(w, p))
    /\ ~w.pods[p].sends => m = Root
    /\ \A k \in Keys(w, h) : SourceOf(w, k) = p => PathOf(w, k) = m

(* What a pod has pinned for its transfer.                                 *)
LEMMA LentExists ==
    ASSUME NEW w, NEW h, Flying(w, h), NEW p \in Pod
    PROVE  \E m : Lent(w, h, p, m)
<1>1. \A k \in Keys(w, h) : Flown(w, k)
  BY DEF Flying
<1>2. CASE ~w.pods[p].sends
  <2>1. CacheOk(w.pods[p].cache, Root, HitOf(w, p))
    BY <1>2 DEF Flying
  <2>2. Root \in Node
    BY DEF Node
  <2>3. \A k \in Keys(w, h) : SourceOf(w, k) # p
    BY <1>1, <1>2 DEF Flown
  <2>4. QED
    BY <2>1, <2>2, <2>3 DEF Lent
<1>3. CASE w.pods[p].sends
  <2>1. w.pods[p].busy # Absent
    BY <1>3 DEF Flying
  <2>2. PICK k \in Keys(w, h) : p \in {SourceOf(w, k), GoalOf(w, k)}
    BY <2>1 DEF Flying
  <2>3. SourceOf(w, k) = p
    BY <1>1, <1>3, <2>2 DEF Flown
  <2>4. PathOf(w, k) \in Node /\ CacheOk(w.pods[p].cache, PathOf(w, k), HitOf(w, p))
    BY <1>1, <2>3 DEF Flown
  <2>5. \A l \in Keys(w, h) : SourceOf(w, l) = p => l = k
    BY <2>3 DEF Flying
  <2>6. QED
    BY <1>3, <2>4, <2>5 DEF Lent
<1>4. QED
  BY <1>2, <1>3

(* What pod p serves is no matter to the transfers.                        *)
LEMMA ServedFlying ==
    ASSUME NEW w \in World, NEW v, NEW h, Flying(w, h), NEW p \in Pod, NEW m, Lent(w, h, p, m),
           SameMoves(w, v, h, h),
           \A q \in Pod \ {p} : SameHold(w.pods[q], v.pods[q]) /\ HitOf(v, q) = HitOf(w, q),
           CacheOk(v.pods[p].cache, m, HitOf(v, p)),
           SameTemporary(w.pods[p].cache, v.pods[p].cache),
           v.pods[p].busy = w.pods[p].busy, v.pods[p].sends = w.pods[p].sends,
           v.pods[p].receives = w.pods[p].receives
    PROVE  Flying(v, h)
<1>1. /\ Keys(v, h) = Keys(w, h)
      /\ \A k \in Keys(w, h) : /\ IdOf(v, k) = IdOf(w, k) /\ SourceOf(v, k) = SourceOf(w, k)
                               /\ GoalOf(v, k) = GoalOf(w, k) /\ PathOf(v, k) = PathOf(w, k)
  BY KeysFrame
<1>2. \A q \in Pod : /\ v.pods[q].busy = w.pods[q].busy /\ v.pods[q].sends = w.pods[q].sends
                     /\ v.pods[q].receives = w.pods[q].receives
                     /\ SameTemporary(w.pods[q].cache, v.pods[q].cache)
  BY DEF SameHold, SameTemporary
<1>3. ASSUME NEW k \in Keys(w, h)
      PROVE  Flown(v, k)
  <2>1. Flown(w, k) /\ SourceOf(w, k) \in Pod /\ GoalOf(w, k) \in Pod
    BY DEF Flying, Flown
  <2>2. CacheOk(v.pods[SourceOf(w, k)].cache, PathOf(w, k), HitOf(v, SourceOf(w, k)))
    <3>1. CASE SourceOf(w, k) = p
      BY <3>1 DEF Lent
    <3>2. CASE SourceOf(w, k) # p
      BY <2>1, <3>2 DEF Flown, SameHold
    <3>3. QED
      BY <3>1, <3>2
  <2>3. QED
    BY <1>1, <1>2, <2>1, <2>2 DEF Flown, SameTemporary
<1>4. \A k, l \in Keys(w, h) :
          k # l => {SourceOf(v, k), GoalOf(v, k)} \cap {SourceOf(v, l), GoalOf(v, l)} = {}
  BY <1>1 DEF Flying
<1>5. ASSUME NEW q \in Pod
      PROVE  LET pod == v.pods[q]
             IN  /\ pod.busy # Absent => \E k \in Keys(w, h) : q \in {SourceOf(v, k), GoalOf(v, k)}
                 /\ pod.sends => pod.busy # Absent
                 /\ pod.receives => pod.busy # Absent
                 /\ ~pod.sends => CacheOk(pod.cache, Root, HitOf(v, q))
                 /\ ~pod.receives => DOMAIN pod.cache.temporary = {} /\ pod.cache.temporaryPages = 0
  <2>1. ~v.pods[q].sends => CacheOk(v.pods[q].cache, Root, HitOf(v, q))
    <3>1. CASE q = p
      BY <1>2, <3>1 DEF Lent
    <3>2. CASE q # p
      BY <1>2, <3>2 DEF Flying, SameHold
    <3>3. QED
      BY <3>1, <3>2
  <2>2. QED
    BY <1>1, <1>2, <2>1 DEF Flying, SameTemporary
<1>6. QED
  BY <1>1, <1>3, <1>4, <1>5 DEF Flying

(* A note on a pod that leaves its cache, its endpoint and its work alone. *)
LEMMA PodNoteOk ==
    ASSUME NEW w, NEW h, NodeInv(w, h), NEW v \in World, Others(w, v),
           \A q \in Pod : SameHold(w.pods[q], v.pods[q]) /\ SameWork(w.pods[q], v.pods[q])
    PROVE  NodeInv(v, h) /\ Tame(w, v)
<1>1. w \in World /\ Lives(w) /\ Ticketed(w, h) /\ Flying(w, h) /\ Serving(w) /\ Posted(w)
      /\ w.outcome = "running"
  BY SMTT(30) DEF NodeInv
<1>2. Lives(v) /\ Ticketed(v, h) /\ Posted(v)
  BY <1>1 DEF Lives, LifeOf, Ticketed, Bound, Settled, Posted, Ready, Others, SameWork
<1>3. SameMoves(w, v, h, h)
  BY DEF SameMoves, Others
<1>4. Serving(v) /\ \A p \in Pod : HitOf(v, p) = HitOf(w, p)
  <2>1. v.runs = w.runs
    BY DEF Others
  <2>2. QED
    BY <1>1, <2>1, ServingFrame
<1>5. Flying(v, h)
  BY <1>1, <1>3, <1>4, FlyingFrame
<1>6. Tame(w, v)
  BY DEF Tame, Others, SameHold, Pages
<1>7. QED
  BY <1>1, <1>2, <1>4, <1>5, <1>6 DEF NodeInv, Others

-----------------------------------------------------------------------------
(* The beginning and the end of a service *)

\* v is w with another pod p and another request r.
Both(w, v, p, pod, r, run) ==
    v = [w EXCEPT !.pods = [w.pods EXCEPT ![p] = pod], !.runs = [w.runs EXCEPT ![r] = run]]

(* One pod and one request are replaced.                                   *)
LEMMA BothFacts ==
    ASSUME NEW w \in World, NEW p \in Pod, NEW pod \in PodRecord, NEW r \in Request,
           NEW run \in RunRecord, NEW v, Both(w, v, p, pod, r, run)
    PROVE  /\ v \in World
           /\ v.now = w.now /\ v.gate = w.gate /\ v.events = w.events /\ v.copies = w.copies
           /\ v.tokens = w.tokens /\ v.refilled = w.refilled /\ v.replicas = w.replicas
           /\ v.gone = w.gone /\ v.outcome = w.outcome
           /\ v.pods[p] = pod /\ v.runs[r] = run
           /\ \A q \in Pod \ {p} : v.pods[q] = w.pods[q]
           /\ \A q \in Request \ {r} : v.runs[q] = w.runs[q]
<1> DEFINE pods == [w.pods EXCEPT ![p] = pod]
           runs == [w.runs EXCEPT ![r] = run]
<1>1. w.pods \in [Pod -> PodRecord] /\ w.runs \in [Request -> RunRecord]
  BY DEF World
<1>2. pods \in [Pod -> PodRecord] /\ runs \in [Request -> RunRecord]
  BY <1>1
<1>3. /\ pods[p] = pod /\ runs[r] = run
      /\ \A q \in Pod \ {p} : pods[q] = w.pods[q]
      /\ \A q \in Request \ {r} : runs[q] = w.runs[q]
  BY <1>1
<1>4. v = [w EXCEPT !.pods = pods, !.runs = runs]
  BY DEF Both
<1> HIDE DEF pods, runs
<1>5. /\ v \in World
      /\ v.now = w.now /\ v.gate = w.gate /\ v.events = w.events /\ v.copies = w.copies
      /\ v.tokens = w.tokens /\ v.refilled = w.refilled /\ v.replicas = w.replicas
      /\ v.gone = w.gone /\ v.outcome = w.outcome /\ v.pods = pods /\ v.runs = runs
  BY <1>2, <1>4 DEF World
<1>6. QED
  BY <1>3, <1>5

\* Pod p, with the pages m on loan, is free or serves r, and will be free or serve r.
Changing(w, p, m, pod, r, run) ==
    /\ Lent(w, Absent, p, m)
    /\ pod.pressure = w.pods[p].pressure /\ \A q \in Request : In(pod.queue, q) => In(w.pods[p].queue, q)
    /\ pod.busy = w.pods[p].busy /\ pod.sends = w.pods[p].sends
    /\ pod.receives = w.pods[p].receives
    /\ SameTemporary(w.pods[p].cache, pod.cache)
    /\ w.runs[r].state \in {"READY", "RUNNING"} /\ w.runs[r].owner = p
    /\ run.pod = w.runs[r].pod /\ run.path = w.runs[r].path /\ run.ticket = w.runs[r].ticket
    /\ run.arrival = w.runs[r].arrival

Starts(w, p, m, pod, r, run) ==
    /\ w.pods[p].running = Absent /\ pod.running = r
    /\ run.state = "RUNNING" /\ run.owner = p
    /\ CacheOk(pod.cache, m, run.hit)
    /\ pod.cache.privatePages = Depth(run.path) - Depth(run.hit)
    /\ \A x \in Request :
          pod.cache.private[x] = IF x = r THEN pod.cache.privatePages ELSE w.pods[p].cache.private[x]
    /\ Chain[run.hit] \subseteq Chain[run.path]

Ends(w, p, m, pod, r, run) ==
    /\ w.pods[p].running = r /\ pod.running = Absent
    /\ run.state = "DONE" /\ run.owner = Absent
    /\ CacheOk(pod.cache, m, Root) /\ pod.cache.privatePages = 0
    /\ pod.cache.private = [w.pods[p].cache.private EXCEPT ![r] = Absent]

(* A service that starts or ends keeps the invariant.                      *)
LEMMA ChangingOk ==
    ASSUME NEW w, NodeInv(w, Absent), NEW p \in Pod, NEW pod \in PodRecord, NEW r \in Request,
           NEW run \in RunRecord, NEW v, Both(w, v, p, pod, r, run), NEW m, Changing(w, p, m, pod, r, run),
           Starts(w, p, m, pod, r, run) \/ Ends(w, p, m, pod, r, run)
    PROVE  NodeInv(v, Absent)
<1>1. /\ w \in World /\ Lives(w) /\ Ticketed(w, Absent) /\ Flying(w, Absent) /\ Serving(w)
      /\ Posted(w) /\ w.outcome = "running" /\ w.pods[p] \in PodRecord /\ r # Absent
  BY RequestFacts DEF NodeInv, World
<1>2. /\ v \in World
      /\ v.now = w.now /\ v.gate = w.gate /\ v.events = w.events /\ v.copies = w.copies
      /\ v.outcome = w.outcome /\ v.pods[p] = pod /\ v.runs[r] = run
      /\ \A q \in Pod \ {p} : v.pods[q] = w.pods[q]
      /\ \A q \in Request \ {r} : v.runs[q] = w.runs[q]
  BY <1>1, BothFacts
<1>3. \A q \in Pod \ {p} : w.pods[q].running # r
  BY <1>1 DEF Lives, LifeOf, Changing
<1>4. \A q \in Request : LifeOf(w, q) /\ Bound(w, q) /\ Settled(w, q)
  BY <1>1, RequestFacts DEF Lives, Ticketed
<1>5. \A q \in Pod : /\ v.pods[q].pressure = w.pods[q].pressure
                     /\ \A x \in Request : In(v.pods[q].queue, x) => In(w.pods[q].queue, x)
  BY <1>2 DEF Changing
<1>6. LifeOf(v, r)
  <2>1. v.runs[r].owner # Absent <=> v.runs[r].state \in {"READY", "RUNNING"}
    BY <1>2, RequestFacts DEF Starts, Ends
  <2>2. v.runs[r].pod = w.runs[r].pod /\ w.runs[r].pod = p
    BY <1>2, <1>4, RequestFacts DEF LifeOf, Changing
  <2>3. v.runs[r].owner # Absent => v.runs[r].owner = p
    BY <1>2 DEF Starts, Ends
  <2>4. ASSUME NEW q \in Pod, v.pods[q].running = r
        PROVE  v.runs[r].state = "RUNNING" /\ v.runs[r].owner = q
    <3>1. q = p
      BY <1>2, <1>3, <2>4
    <3>2. Starts(w, p, m, pod, r, run)
      BY <1>1, <1>2, <2>4, <3>1 DEF Ends
    <3>3. QED
      BY <1>2, <3>1, <3>2 DEF Starts
  <2>5. v.runs[r].path \in Block /\ v.runs[r].arrival <= v.now
    BY <1>2, <1>4 DEF LifeOf, Changing
  <2>6. QED
    BY <2>1, <2>2, <2>3, <2>4, <2>5 DEF LifeOf
<1>7. ASSUME NEW q \in Request \ {r}
      PROVE  LifeOf(v, q)
  <2>1. v.runs[q] = w.runs[q] /\ v.pods[p].running # q
    BY <1>2, RequestFacts DEF Starts, Ends
  <2>2. \A x \in Pod : v.pods[x].running = q => w.pods[x].running = q
    BY <1>2, <2>1
  <2>3. QED
    BY <1>2, <1>4, <1>5, <2>1, <2>2 DEF LifeOf
<1>8. w.runs[r].state \in {"READY", "RUNNING"} /\ v.runs[r].ticket = w.runs[r].ticket
      /\ v.runs[r].state \in {"RUNNING", "DONE"}
  BY <1>2 DEF Changing, Starts, Ends
<1>9. Ticketed(v, Absent)
  <2>1. Bound(v, r) /\ Settled(v, r)
    BY <1>2, <1>4, <1>5, <1>8 DEF Bound, Settled
  <2>2. \A q \in Request \ {r} : Bound(v, q) /\ Settled(v, q)
    BY SMTT(30), <1>2, <1>4, <1>5 DEF Bound, Settled
  <2>3. QED
    BY <1>1, <1>2, <2>1, <2>2 DEF Ticketed
<1>10. SameMoves(w, v, Absent, Absent)
  <2>1. \A q \in Request : v.runs[q].state = "WAITING_TRANSFER" <=> w.runs[q].state = "WAITING_TRANSFER"
    BY <1>2, <1>8
  <2>2. \A q \in Request : w.runs[q].state = "WAITING_TRANSFER" => v.runs[q].transfer = w.runs[q].transfer
    BY <1>2, <1>8
  <2>3. QED
    BY <1>2, <2>1, <2>2 DEF SameMoves
<1>11. \A q \in Pod \ {p} : /\ SameHold(w.pods[q], v.pods[q]) /\ HitOf(v, q) = HitOf(w, q)
                            /\ w.pods[q].running # Absent =>
                                  v.runs[w.pods[q].running] = w.runs[w.pods[q].running]
  <2>1. \A q \in Pod \ {p} : w.pods[q].running # Absent => w.pods[q].running \in Request \ {r}
    BY <1>1, <1>3 DEF World, PodRecord
  <2>2. QED
    BY <1>2, <2>1 DEF SameHold, HitOf
<1>12. CacheOk(pod.cache, m, HitOf(v, p))
  BY <1>1, <1>2 DEF Starts, Ends, HitOf
<1>13. Flying(v, Absent)
  <2>1. /\ v.pods[p].busy = w.pods[p].busy /\ v.pods[p].sends = w.pods[p].sends
        /\ v.pods[p].receives = w.pods[p].receives
        /\ SameTemporary(w.pods[p].cache, v.pods[p].cache) /\ Lent(w, Absent, p, m)
    BY <1>2 DEF Changing
  <2>2. CacheOk(v.pods[p].cache, m, HitOf(v, p))
    BY <1>2, <1>12
  <2>3. \A q \in Pod \ {p} : SameHold(w.pods[q], v.pods[q]) /\ HitOf(v, q) = HitOf(w, q)
    BY <1>11
  <2>4. QED
    BY <1>1, <1>10, <2>1, <2>2, <2>3, ServedFlying
<1>14. Serving(v)
  <2>1. ASSUME NEW q \in Pod \ {p}
        PROVE  LET pod1 == v.pods[q]
                   run1 == v.runs[pod1.running]
               IN  /\ \A x \in Request : pod1.cache.private[x] # Absent <=> pod1.running = x
                   /\ pod1.running = Absent => pod1.cache.privatePages = 0
                   /\ pod1.running # Absent =>
                         /\ pod1.cache.privatePages = pod1.cache.private[pod1.running]
                         /\ pod1.cache.privatePages = Depth(run1.path) - Depth(run1.hit)
                         /\ Chain[run1.hit] \subseteq Chain[run1.path]
    BY SMTT(30), <1>1, <1>2, <1>11 DEF Serving
  <2>2. w.pods[p].cache.private \in [Request -> Int]
    BY <1>1 DEF PodRecord, PrefixCache
  <2>3. \A x \in Request : w.pods[p].cache.private[x] # Absent <=> w.pods[p].running = x
    BY <1>1 DEF Serving
  <2>4. CASE Starts(w, p, m, pod, r, run)
    <3>1. pod.cache.privatePages # Absent
      BY <1>12, RequestFacts DEF CacheOk, Counted, Absent
    <3>2. \A x \in Request : pod.cache.private[x] = IF x = r THEN pod.cache.privatePages
                                                    ELSE w.pods[p].cache.private[x]
      BY <2>2, <2>4 DEF Starts
    <3>3. \A x \in Request : pod.cache.private[x] # Absent <=> x = r
      BY <2>3, <2>4, <3>1, <3>2, RequestFacts DEF Starts
    <3>4. pod.running = r
      BY <2>4 DEF Starts
    <3>5. /\ \A x \in Request : pod.cache.private[x] # Absent <=> pod.running = x
          /\ pod.running # Absent
          /\ pod.cache.privatePages = pod.cache.private[pod.running]
          /\ pod.cache.privatePages = Depth(run.path) - Depth(run.hit)
          /\ Chain[run.hit] \subseteq Chain[run.path]
      BY SMTT(30), <1>1, <2>4, <3>2, <3>3, <3>4 DEF Starts
    <3>6. QED
      BY ZenonT(60), <1>2, <2>1, <3>4, <3>5 DEF Serving
  <2>5. CASE Ends(w, p, m, pod, r, run)
    <3>1. \A x \in Request : pod.cache.private[x] = IF x = r THEN Absent ELSE w.pods[p].cache.private[x]
      BY <2>2, <2>5 DEF Ends
    <3>2. \A x \in Request : pod.cache.private[x] = Absent
      BY <2>3, <2>5, <3>1 DEF Ends
    <3>3. pod.running = Absent /\ pod.cache.privatePages = 0
      BY <2>5 DEF Ends
    <3>4. \A x \in Request : pod.cache.private[x] # Absent <=> pod.running = x
      BY <3>2, <3>3, RequestFacts
    <3>5. QED
      BY <1>2, <2>1, <3>3, <3>4 DEF Serving
  <2>6. QED
    BY SMTT(30), <2>4, <2>5
<1>15. Posted(v)
  <2>1. \A q \in Request : w.runs[q].pod \in Pod => v.runs[q].pod \in Pod
    BY <1>2 DEF Changing
  <2>2. QED
    BY <1>1, <1>2, <2>1 DEF Posted, Ready
<1>16. Lives(v)
  BY <1>6, <1>7 DEF Lives
<1>17. QED
  BY <1>1, <1>2, <1>9, <1>13, <1>14, <1>15, <1>16 DEF NodeInv

-----------------------------------------------------------------------------
(* What a service does to the cache of its pod *)

(* The cache when a service starts, and when it cannot.                    *)
LEMMA BeginCaches ==
    ASSUME NEW w, NodeInv(w, Absent), NEW p \in Pod, w.pods[p].running = Absent, NEW n \in Node,
           NEW m, Lent(w, Absent, p, m), NEW r \in Request
    PROVE  LET c == w.pods[p].cache
               hit == Hit(w, p, n)
               held == PinAndRefresh(c, hit)
               k == Depth(n) - Depth(hit)
               e == ReserveActivePrivate(held, r, k)
               f == Unpin(Room(held, k), hit)
           IN  /\ k \in Nat
               /\ Admitted(held, k) =>
                     /\ CacheOk(e, m, hit) /\ e.pages \subseteq c.pages
                     /\ \A x \in Request : e.private[x] = IF x = r THEN k ELSE c.private[x]
                     /\ e.privatePages = k
                     /\ SameTemporary(c, e)
               /\ ~Admitted(held, k) =>
                     /\ CacheOk(f, m, Root) /\ f.pages = c.pages /\ SamePrivate(c, f)
<1> DEFINE c == w.pods[p].cache
           hit == Hit(w, p, n)
           held == PinAndRefresh(c, hit)
           k == Depth(n) - Depth(hit)
           e == ReserveActivePrivate(held, r, k)
           f == Unpin(Room(held, k), hit)
<1>1. w \in World /\ Serving(w)
  BY DEF NodeInv
<1>2. /\ hit \in Node /\ Chain[hit] \subseteq c.pages /\ Depth(n) \in Nat /\ Depth(hit) \in Nat
      /\ Depth(hit) <= Depth(n)
  BY <1>1, HitFacts DEF Pages
<1>3. k \in Nat
  BY <1>2
<1>4. CacheOk(c, m, Root) /\ c.privatePages = 0
  BY <1>1 DEF Lent, HitOf, Serving
<1> HIDE DEF c, hit, k
<1>5. CacheOk(held, m, hit) /\ SamePages(c, held)
  BY SMTT(30), <1>2, <1>4, RefreshOk
<1> HIDE DEF held
<1>6. CASE Admitted(held, k)
  <2>1. /\ CacheOk(e, m, hit) /\ e.pages \subseteq held.pages
        /\ e.private = [held.private EXCEPT ![r] = k] /\ e.privatePages = held.privatePages + k
        /\ e.temporary = held.temporary /\ e.temporaryPages = held.temporaryPages
    BY <1>3, <1>5, <1>6, ReservePrivateOk
  <2>2. held.pages = c.pages /\ held.private = c.private /\ held.privatePages = 0
        /\ held.temporary = c.temporary /\ held.temporaryPages = c.temporaryPages
    BY <1>4, <1>5 DEF SamePages
  <2> HIDE DEF e
  <2>3. e.privatePages = k /\ SameTemporary(c, e) /\ e.pages \subseteq c.pages
    BY <1>3, <2>1, <2>2 DEF SameTemporary
  <2>4. \A x \in Request : e.private[x] = IF x = r THEN k ELSE c.private[x]
    <3>1. held.private \in [Request -> Int]
      BY <1>5 DEF CacheOk, PrefixCache
    <3>2. QED
      BY <2>1, <2>2, <3>1
  <2>5. QED
    BY <1>3, <1>6, <2>1, <2>3, <2>4 DEF e, held, hit, k, c
<1>7. CASE ~Admitted(held, k)
  <2>1. Room(held, k) = held
    BY <1>3, <1>5, <1>7, RoomOk
  <2>2. CacheOk(held, hit, m)
    BY <1>5, PinsCommute
  <2>3. f = Unpin(held, hit)
    BY <2>1
  <2>4. CacheOk(f, Root, m) /\ SamePages(held, f)
    BY <2>2, <2>3, UnpinOk
  <2> HIDE DEF f
  <2>5. CacheOk(f, m, Root)
    BY <2>4, PinsCommute
  <2>6. f.pages = c.pages /\ SamePrivate(c, f)
    BY <1>5, <2>4 DEF SamePages, SamePrivate
  <2>7. QED
    BY <1>3, <1>7, <2>5, <2>6 DEF f, held, hit, k, c
<1>8. QED
  BY <1>6, <1>7

(* The cache when a service ends.                                          *)
LEMMA EndCaches ==
    ASSUME NEW w, NodeInv(w, Absent), NEW p \in Pod, NEW r \in Request, w.pods[p].running = r,
           NEW n \in Node, NEW m, Lent(w, Absent, p, m),
           Cardinality(Chain[n] \ w.pods[p].cache.pages) <= w.pods[p].cache.private[r]
    PROVE  LET c == w.pods[p].cache
               e == Unpin(CommitActive(c, r, n), w.runs[r].hit)
           IN  /\ CacheOk(e, m, Root) /\ e.pages = c.pages \cup Chain[n]
               /\ e.private = [c.private EXCEPT ![r] = Absent] /\ e.privatePages = 0
               /\ SameTemporary(c, e)
<1> DEFINE c == w.pods[p].cache
           hit == w.runs[r].hit
           d == CommitActive(c, r, n)
           e == Unpin(d, hit)
<1>1. w \in World /\ Serving(w) /\ r # Absent /\ w.pods[p] \in PodRecord
  BY SMTT(30), RequestFacts DEF NodeInv, World
<1>2. CacheOk(c, m, hit)
  BY <1>1 DEF Lent, HitOf
<1>3. c.privatePages = c.private[r]
  BY <1>1 DEF Serving
<1> HIDE DEF c, hit
<1>4. c \in PrefixCache /\ Closed(c.pages) /\ c.privatePages \in Nat
  BY <1>2 DEF CacheOk, Counted, PrefixCache
<1>5. Missing(c, n) <= c.private[r]
  <2>1. Missing(c, n) = Cardinality(Chain[n] \ c.pages)
    BY <1>4, MissingFacts
  <2>2. QED
    BY <2>1 DEF c
<1>6. c.private[r] <= c.privatePages
  BY <1>3, <1>4
<1>7. /\ CacheOk(d, m, hit) /\ d.pages = c.pages \cup Chain[n]
      /\ d.private = [c.private EXCEPT ![r] = Absent]
      /\ d.privatePages = c.privatePages - c.private[r]
      /\ d.temporary = c.temporary /\ d.temporaryPages = c.temporaryPages
  BY SMTT(30), <1>2, <1>5, <1>6, CommitActiveOk
<1> HIDE DEF d
<1>8. CacheOk(e, Root, m) /\ SamePages(d, e)
  BY <1>7, PinsCommute, UnpinOk
<1> HIDE DEF e
<1>9. CacheOk(e, m, Root)
  BY <1>8, PinsCommute
<1>10. d.privatePages = 0
  BY <1>3, <1>4, <1>7
<1>11. /\ e.pages = c.pages \cup Chain[n] /\ e.private = [c.private EXCEPT ![r] = Absent]
       /\ e.privatePages = 0 /\ SameTemporary(c, e)
  BY <1>7, <1>8, <1>10 DEF SamePages, SameTemporary
<1>12. QED
  BY <1>9, <1>11 DEF e, d, c, hit

-----------------------------------------------------------------------------
(* SERVICE_DONE *)

(* The end of a service keeps the invariant.                               *)
LEMMA OnServiceDoneOk ==
    ASSUME NEW w, NodeInv(w, Absent), NEW r \in Request,
           NEW v, v = OnServiceDone(w, r), v.outcome = "running"
    PROVE  NodeInv(v, Absent) /\ Loyal(w, v, 0) /\ Unmoved(w, v)
<1> DEFINE p == w.runs[r].pod
           n == w.runs[r].path
           held == w.pods[p].cache
           new == Chain[n] \ held.pages
           e == Unpin(CommitActive(held, r, n), w.runs[r].hit)
           pod == [w.pods[p] EXCEPT !.cache = e, !.running = Absent]
           k == Cardinality(new)
           run == [w.runs[r] EXCEPT !.owner = Absent, !.state = "DONE", !.done = w.now, !.inserted = k]
           moved == [w EXCEPT !.pods[p] = [@ EXCEPT !.cache = e, !.running = Absent],
                              !.runs[r] = [@ EXCEPT !.owner = Absent, !.state = "DONE", !.done = w.now,
                                                    !.inserted = k]]
           done == Uncredit(moved, p, new)
           next == IF w.pods[p].queue = <<>> THEN done ELSE StartSoon(done, p)
           woken == WakeGate(next)
           ok == /\ w.runs[r].state = "RUNNING" /\ w.pods[p].running = r /\ w.runs[r].owner = p
                 /\ Cardinality(new) <= held.private[r]
<1>1. v = Check(woken, ok)
  BY Zenon DEF OnServiceDone
<1>2. /\ w \in World /\ Fields \subseteq DOMAIN w /\ w.runs[r] \in RunRecord /\ n \in Node
      /\ w.pods \in [Pod -> PodRecord] /\ w.runs \in [Request -> RunRecord]
      /\ w.runs[r].hit \in Node /\ w.now \in Nat
  BY Parts
<1>3. Fields \subseteq DOMAIN moved
  BY <1>2 DEF Fields
<1> HIDE DEF woken, next, done
<1>4. Kept(moved, done, r) /\ Fields \subseteq DOMAIN done
  <2> HIDE DEF moved
  <2>1. Kept(moved, done, r)
    BY <1>3 DEF Kept, Books, Fields, Uncredit, done
  <2>2. QED
    BY <1>3, <2>1, KeptFields
<1>5. Kept(done, next, r) /\ Fields \subseteq DOMAIN next
  <2> HIDE DEF moved, new
  <2>1. Kept(done, next, r)
    BY <1>4, KeptStart, KeptSame DEF next
  <2>2. QED
    BY <1>4, <2>1, KeptFields
<1>6. Kept(next, woken, r) /\ Fields \subseteq DOMAIN woken
  <2>1. Kept(next, woken, r)
    BY <1>5, KeptWake DEF woken
  <2>2. QED
    BY <1>5, <2>1, KeptFields
<1>7. ok /\ v = woken
  <2> HIDE DEF ok
  <2>1. QED
    BY <1>1, <1>6, CheckFacts DEF Fields
<1>8. next.outcome = "running" /\ done.outcome = "running"
  BY Zenon, <1>5, <1>6, <1>7 DEF Kept, Books
<1>9. p \in Pod /\ LifeOf(w, r) /\ w.runs[r].state = "RUNNING"
  <2>1. LifeOf(w, r)
    BY DEF NodeInv, Lives
  <2>2. QED
    BY Zenon, <1>7, <2>1 DEF LifeOf
<1>10. PICK m : Lent(w, Absent, p, m)
  BY <1>9, LentExists DEF NodeInv
<1>11. /\ CacheOk(e, m, Root) /\ e.pages = held.pages \cup Chain[n]
       /\ e.private = [held.private EXCEPT ![r] = Absent] /\ e.privatePages = 0
       /\ SameTemporary(held, e)
  BY Zenon, <1>2, <1>7, <1>9, <1>10, EndCaches
<1>12. k \in Nat
  <2>1. IsFiniteSet(Chain[n])
    BY SMTT(30), <1>2, ChainFacts
  <2>2. IsFiniteSet(new)
    BY <2>1, FS_Subset
  <2>3. QED
    BY <2>2, FS_CardinalityType
<1>13. /\ w.pods[p] \in PodRecord /\ e \in PrefixCache
  BY Zenon, <1>2, <1>9, <1>11 DEF CacheOk
<1> HIDE DEF e, k
<1>14. /\ pod \in PodRecord /\ pod.cache = e /\ pod.running = Absent
       /\ pod.pressure = w.pods[p].pressure /\ pod.queue = w.pods[p].queue
       /\ pod.busy = w.pods[p].busy /\ pod.sends = w.pods[p].sends
       /\ pod.receives = w.pods[p].receives
  BY <1>13 DEF PodRecord
<1>15. /\ run \in RunRecord /\ run.owner = Absent /\ run.state = "DONE"
       /\ run.pod = w.runs[r].pod /\ run.path = w.runs[r].path /\ run.ticket = w.runs[r].ticket
       /\ run.arrival = w.runs[r].arrival
  <2>1. Absent \in Int /\ w.now \in Int
    BY <1>2, RequestFacts
  <2>2. QED
    BY <1>2, <1>12, <2>1 DEF RunRecord, RunStates
<1>16. Both(w, moved, p, pod, r, run)
  BY <1>2, <1>9 DEF Both, World
<1> HIDE DEF pod, run, moved
<1>17. Changing(w, p, m, pod, r, run)
  BY Zenon, <1>7, <1>10, <1>11, <1>14, <1>15 DEF Changing
<1>18. Ends(w, p, m, pod, r, run)
  BY Zenon, <1>7, <1>11, <1>14, <1>15 DEF Ends
<1>19. NodeInv(moved, Absent)
  BY <1>9, <1>14, <1>15, <1>16, <1>17, <1>18, ChangingOk
<1>20. /\ moved.now = w.now /\ moved.gone = w.gone /\ moved.replicas = w.replicas
       /\ \A q \in Pod \ {p} : moved.pods[q] = w.pods[q]
       /\ moved.pods[p] = pod
  BY <1>2, <1>9, <1>14, <1>15, <1>16, BothFacts
<1>21. /\ NodeInv(done, Absent) /\ done.now = moved.now /\ done.gone = moved.gone
       /\ done.pods = moved.pods
       /\ \A q \in Pod : \A x \in Block :
             done.replicas[q][x] = IF q = p /\ x \in new THEN 0 ELSE moved.replicas[q][x]
  <2> HIDE DEF new
  <2>1. QED
    BY <1>9, <1>19, UncreditOk DEF done
<1>22. Loyal(w, done, 0)
  <2>1. done.now = w.now /\ done.gone = w.gone
    BY <1>20, <1>21
  <2>2. \A q \in Pod \ {p} : Pages(done, q) = Pages(w, q)
    BY <1>20, <1>21 DEF Pages
  <2>3. Pages(done, p) = Pages(w, p) \cup Chain[n] /\ new = Chain[n] \ Pages(w, p)
    BY Zenon, <1>11, <1>14, <1>20, <1>21 DEF Pages
  <2>4. \A q \in Pod : \A x \in Block :
             done.replicas[q][x] = IF q = p /\ x \in new THEN 0 ELSE w.replicas[q][x]
    BY <1>20, <1>21
  <2> HIDE DEF new
  <2>5. ASSUME NEW q \in Pod, NEW x \in Block
        PROVE  IF x \in Pages(w, q) THEN done.replicas[q][x] = w.replicas[q][x]
               ELSE IF x \in Pages(done, q) THEN done.replicas[q][x] = 0
               ELSE done.replicas[q][x] \in {0, w.replicas[q][x]}
    BY <2>2, <2>3, <2>4
  <2>6. QED
    BY <2>1, <2>5 DEF Loyal
<1>23. NodeInv(next, Absent) /\ Tame(done, next)
  <2>1. CASE w.pods[p].queue = <<>>
    <3>1. next = done
      BY <2>1 DEF next
    <3>2. Tame(done, done)
      BY DEF Tame
    <3>3. QED
      BY <1>21, <3>1, <3>2
  <2>2. CASE w.pods[p].queue # <<>>
    <3>1. next = StartSoon(done, p)
      BY <2>2 DEF next
    <3>2. done.pods[p].queue # <<>>
      BY Zenon, <1>14, <1>20, <1>21, <2>2
    <3>3. QED
      BY <1>8, <1>9, <1>21, <3>1, <3>2, StartSoonOk
  <2>3. QED
    BY <2>1, <2>2
<1>24. NodeInv(v, Absent) /\ Tame(next, v)
  BY Zenon, <1>7, <1>23, WakeOk DEF woken
<1>25. Unmoved(w, v)
  <2>1. Kept(w, v, r)
    BY <1>2, KeptServiceDone
  <2>2. QED
    BY <1>2, <1>9, <2>1 DEF Unmoved, Kept
<1>26. QED
  <2>1. Tame(done, v)
    BY <1>23, <1>24, TameTwice
  <2>2. QED
    BY <1>22, <1>24, <1>25, <2>1, LoyalTame

-----------------------------------------------------------------------------
(* SERVICE_START *)

\* What is still true of the caches when a request has been refused.
CachesOk(w) ==
    \A p \in Pod :
        LET pod == w.pods[p]
        IN  /\ \E m : CacheOk(pod.cache, m, HitOf(w, p))
            /\ pod.running = Absent => pod.cache.privatePages = 0
            /\ pod.running # Absent => pod.cache.privatePages = pod.cache.private[pod.running]

(* The caches of a running simulator are sound.                            *)
LEMMA NodeCaches ==
    ASSUME NEW w, NEW h, NodeInv(w, h)
    PROVE  CachesOk(w)
<1>1. Flying(w, h) /\ Serving(w)
  BY DEF NodeInv
<1>2. QED
  BY <1>1, LentExists DEF CachesOk, Serving, Lent

\* No SERVICE_START is on its way to pod p any more.
Idled(w, v, p) == v = [w EXCEPT !.pods[p].armed = FALSE]

(* A pod that is no longer armed.                                          *)
LEMMA IdledOk ==
    ASSUME NEW w, NodeInv(w, Absent), NEW p \in Pod, NEW v, Idled(w, v, p)
    PROVE  /\ NodeInv(v, Absent) /\ Others(w, v)
           /\ \A q \in Pod : SameHold(w.pods[q], v.pods[q]) /\ SameWork(w.pods[q], v.pods[q])
<1> DEFINE pod == [w.pods[p] EXCEPT !.armed = FALSE]
<1>1. w \in World /\ w.pods \in [Pod -> PodRecord] /\ w.pods[p] \in PodRecord
  BY Parts
<1>2. pod \in PodRecord /\ SameHold(w.pods[p], pod) /\ SameWork(w.pods[p], pod)
  BY <1>1 DEF PodRecord, SameHold, SameWork
<1>3. Put(w, v, p, pod)
  BY <1>1 DEF Idled, Put, World
<1> HIDE DEF pod
<1>4. /\ v \in World /\ Others(w, v) /\ v.pods[p] = pod
      /\ \A q \in Pod \ {p} : v.pods[q] = w.pods[q]
  BY <1>1, <1>2, <1>3, PutFacts
<1>5. \A q \in Pod : SameHold(w.pods[q], v.pods[q]) /\ SameWork(w.pods[q], v.pods[q])
  BY <1>2, <1>4 DEF SameHold, SameWork
<1>6. QED
  BY <1>4, <1>5, PodNoteOk

\* Pod p has room for request r and begins.
Admits(w, v, p, r, until) ==
    LET n == w.runs[r].path
        hit == Hit(w, p, n)
        k == Depth(n) - Depth(hit)
        held == PinAndRefresh(w.pods[p].cache, hit)
    IN  /\ Admitted(held, k)
        /\ v = [w EXCEPT
              !.pods[p] = [@ EXCEPT !.cache = ReserveActivePrivate(held, r, k), !.running = r,
                                    !.queue = Tail(w.pods[p].queue), !.until = until],
              !.runs[r] = [@ EXCEPT !.start = w.now, !.hit = hit, !.estimate = 0, !.state = "RUNNING"]]

(* A service starts.                                                       *)
LEMMA AdmittedOk ==
    ASSUME NEW w, NodeInv(w, Absent), NEW p \in Pod, NEW r \in Request,
           w.pods[p].queue # <<>>, w.pods[p].running = Absent, w.runs[r].owner = p,
           NEW until \in Nat, NEW v, Admits(w, v, p, r, until)
    PROVE  NodeInv(v, Absent) /\ Tame(w, v)
<1> DEFINE n == w.runs[r].path
           hit == Hit(w, p, n)
           k == Depth(n) - Depth(hit)
           c == w.pods[p].cache
           held == PinAndRefresh(c, hit)
           e == ReserveActivePrivate(held, r, k)
           tail == Tail(w.pods[p].queue)
           pod == [w.pods[p] EXCEPT !.cache = e, !.running = r, !.queue = tail, !.until = until]
           run == [w.runs[r] EXCEPT !.start = w.now, !.hit = hit, !.estimate = 0, !.state = "RUNNING"]
<1>1. /\ w \in World /\ w.runs[r] \in RunRecord /\ n \in Node
      /\ w.pods \in [Pod -> PodRecord] /\ w.runs \in [Request -> RunRecord]
      /\ w.pods[p] \in PodRecord /\ w.now \in Int /\ hit \in Node
  <2>1. w \in World /\ w.runs[r] \in RunRecord /\ n \in Node
        /\ w.pods \in [Pod -> PodRecord] /\ w.runs \in [Request -> RunRecord]
        /\ w.pods[p] \in PodRecord /\ w.now \in Nat
    BY Parts
  <2>2. hit \in Node
    BY <2>1, HitFacts
  <2>3. QED
    BY <2>1, <2>2
<1>2. PICK m : Lent(w, Absent, p, m)
  BY LentExists DEF NodeInv
<1>3. /\ k \in Nat /\ CacheOk(e, m, hit) /\ e.pages \subseteq c.pages
      /\ \A x \in Request : e.private[x] = IF x = r THEN k ELSE c.private[x]
      /\ e.privatePages = k
      /\ SameTemporary(c, e)
  <2>1. Admitted(held, k)
    BY DEF Admits
  <2>2. n \in Node
    BY <1>1
  <2> HIDE DEF n
  <2>3. k \in Nat
    BY <1>2, <2>2, BeginCaches
  <2>4. CacheOk(e, m, hit) /\ e.pages \subseteq c.pages
    BY <1>2, <2>1, <2>2, BeginCaches
  <2>5. /\ \A x \in Request : e.private[x] = IF x = r THEN k ELSE c.private[x]
        /\ e.privatePages = k
    BY <1>2, <2>1, <2>2, BeginCaches
  <2>6. SameTemporary(c, e)
    BY <1>2, <2>1, <2>2, BeginCaches
  <2>7. QED
    BY <2>3, <2>4, <2>5, <2>6
<1>4. Chain[hit] \subseteq Chain[n]
  BY <1>1, HitFacts
<1>6. Both(w, v, p, pod, r, run)
  <2> HIDE DEF e, hit
  <2>1. v = [w EXCEPT
              !.pods[p] = [@ EXCEPT !.cache = e, !.running = r, !.queue = tail, !.until = until],
              !.runs[r] = [@ EXCEPT !.start = w.now, !.hit = hit, !.estimate = 0, !.state = "RUNNING"]]
    BY DEF Admits, e, hit
  <2>2. QED
    BY <1>1, <2>1 DEF Both, World
<1>7. tail \in Seq(Request) /\ \A q \in Request : In(tail, q) => In(w.pods[p].queue, q)
  <2>1. w.pods[p].queue \in Seq(Request)
    BY <1>1 DEF PodRecord
  <2>2. /\ tail \in Seq(Request) /\ Len(tail) = Len(w.pods[p].queue) - 1
        /\ \A i \in 1 .. Len(tail) : tail[i] = w.pods[p].queue[i + 1]
    BY <2>1, HeadTailProperties
  <2>3. DOMAIN tail = 1 .. Len(tail) /\ DOMAIN w.pods[p].queue = 1 .. Len(w.pods[p].queue)
        /\ Len(tail) \in Nat
    BY <2>1, <2>2, LenProperties
  <2>4. ASSUME NEW q, NEW i \in DOMAIN tail, tail[i] = q
        PROVE  In(w.pods[p].queue, q)
    <3>1. i + 1 \in DOMAIN w.pods[p].queue /\ w.pods[p].queue[i + 1] = q
      BY <2>2, <2>3, <2>4
    <3>2. QED
      BY <3>1 DEF In
  <2>5. QED
    BY <2>2, <2>4 DEF In
<1> HIDE DEF tail, e, hit, k, n, held
<1>8. e \in PrefixCache
  BY <1>3 DEF CacheOk
<1>9. /\ pod \in PodRecord /\ pod.cache = e /\ pod.running = r /\ pod.pressure = w.pods[p].pressure
      /\ pod.queue = tail /\ pod.busy = w.pods[p].busy /\ pod.sends = w.pods[p].sends
      /\ pod.receives = w.pods[p].receives
  <2>1. until \in Int /\ r \in Request \cup {Absent}
    OBVIOUS
  <2>2. pod \in PodRecord
    BY <1>1, <1>7, <1>8, <2>1 DEF PodRecord
  <2>3. w.pods[p] \in PodRecord
    BY <1>1
  <2>4. QED
    BY <2>2, <2>3 DEF PodRecord
<1>10. /\ run \in RunRecord /\ run.hit = hit /\ run.state = "RUNNING" /\ run.owner = w.runs[r].owner
       /\ run.pod = w.runs[r].pod /\ run.path = w.runs[r].path /\ run.ticket = w.runs[r].ticket
       /\ run.arrival = w.runs[r].arrival
  BY <1>1 DEF RunRecord, RunStates, n
<1> HIDE DEF pod, run
<1>11. w.runs[r].state \in {"READY", "RUNNING"}
  <2>1. LifeOf(w, r) /\ p # Absent
    BY RequestFacts DEF NodeInv, Lives
  <2>2. QED
    BY <2>1 DEF LifeOf
<1>12. Changing(w, p, m, pod, r, run)
  BY <1>2, <1>3, <1>7, <1>9, <1>10, <1>11 DEF Changing
<1>13. Starts(w, p, m, pod, r, run)
  BY <1>3, <1>4, <1>9, <1>10 DEF Starts, k, n
<1>14. NodeInv(v, Absent)
  BY <1>6, <1>9, <1>10, <1>12, <1>13, ChangingOk
<1>15. /\ v.now = w.now /\ v.gone = w.gone /\ v.copies = w.copies /\ v.replicas = w.replicas
       /\ v.tokens = w.tokens /\ v.refilled = w.refilled
       /\ v.pods[p] = pod /\ \A q \in Pod \ {p} : v.pods[q] = w.pods[q]
  BY <1>1, <1>6, <1>9, <1>10, BothFacts
<1>16. Tame(w, v)
  BY <1>3, <1>9, <1>15 DEF Tame, Pages
<1>17. QED
  BY <1>14, <1>16

(* A start of service keeps the invariant, or refuses the request and      *)
(* leaves sound caches.                                                    *)
LEMMA OnServiceStartOk ==
    ASSUME NEW w, NodeInv(w, Absent), NEW r \in Request, w.runs[r].pod \in Pod,
           NEW v, v = OnServiceStart(w, r)
    PROVE  /\ v.outcome \in {"running", "assertion", "refused"} /\ Fields \subseteq DOMAIN v
           /\ v.outcome = "running" => NodeInv(v, Absent)
           /\ v.outcome # "assertion" =>
                 /\ CachesOk(v) /\ Loyal(w, v, 0) /\ Unmoved(w, v) /\ SameCopies(w, v)
                 /\ v.tokens = w.tokens /\ v.refilled = w.refilled
<1> DEFINE p == w.runs[r].pod
           n == w.runs[r].path
           hit == Hit(w, p, n)
           k == Depth(n) - Depth(hit)
           held == PinAndRefresh(w.pods[p].cache, hit)
           until == w.now + Service(n, hit)
           idle == [w EXCEPT !.pods[p].armed = FALSE]
           u == Used(idle, p, hit)
           started == [u EXCEPT
            !.pods[p] = [@ EXCEPT !.cache = ReserveActivePrivate(held, r, k), !.running = r,
                                  !.queue = Tail(w.pods[p].queue), !.until = until],
            !.runs[r] = [@ EXCEPT !.start = w.now, !.hit = hit, !.estimate = 0,
                                  !.state = "RUNNING"]]
           sent == Schedule(started, until, "SERVICE_DONE", r)
           ok == Head(w.pods[p].queue) = r /\ w.runs[r].owner = p /\ held.private[r] = Absent
           f == Unpin(Room(held, k), hit)
           refused == [idle EXCEPT !.pods[p].cache = f, !.outcome = "refused"]
           done == w.pods[p].queue = <<>> \/ w.pods[p].running # Absent
<1>1. v = IF done THEN idle ELSE IF Admitted(held, k) THEN Check(sent, ok) ELSE refused
  BY Zenon DEF OnServiceStart
<1>2. /\ w \in World /\ Fields \subseteq DOMAIN w /\ w.runs[r] \in RunRecord /\ n \in Node
      /\ w.now \in Nat /\ w.pods \in [Pod -> PodRecord] /\ p \in Pod
      /\ w.outcome = "running"
  BY Parts
<1>3. /\ NodeInv(idle, Absent) /\ Others(w, idle)
      /\ \A q \in Pod : SameHold(w.pods[q], idle.pods[q]) /\ SameWork(w.pods[q], idle.pods[q])
  <2> HIDE DEF p
  <2>1. Idled(w, idle, p)
    BY DEF Idled
  <2> HIDE DEF idle
  <2>2. QED
    BY <1>2, <2>1, IdledOk
<1>4. hit \in Node /\ until \in Nat /\ until >= w.now
  <2>1. hit \in Node /\ Service(n, hit) \in Nat
    BY <1>2, HitFacts
  <2> HIDE DEF hit, n
  <2>2. QED
    BY <1>2, <2>1
<1> HIDE DEF idle
<1>5. Loyal(w, idle, 0) /\ Tame(w, idle)
  <2>1. Tame(w, idle)
    BY <1>3 DEF Tame, Others, SameHold, Pages
  <2>2. QED
    BY <2>1, TameLoyal
<1>6. CASE done
  <2>1. v = idle
    BY Zenon, <1>1, <1>6
  <2>2. CachesOk(idle)
    BY <1>3, NodeCaches
  <2>3. Unmoved(w, idle)
    BY <1>3 DEF Unmoved, Others
  <2>4. SameCopies(w, idle) /\ idle.tokens = w.tokens /\ idle.refilled = w.refilled
        /\ idle.outcome = "running" /\ Fields \subseteq DOMAIN idle
    BY <1>2, <1>3, Parts DEF SameCopies, Others
  <2>5. QED
    BY <1>3, <1>5, <2>1, <2>2, <2>3, <2>4
<1>7. CASE ~done /\ Admitted(held, k)
  <2>1. v = Check(sent, ok)
    BY Zenon, <1>1, <1>7
  <2>2. idle \in World /\ idle.runs = w.runs /\ idle.now = w.now
    BY <1>3 DEF NodeInv, Others
  <2>3. u \in World /\ ButCopies(idle, u) /\ SameCopies(idle, u)
    BY <1>2, <1>4, <2>2, UsedOk
  <2> HIDE DEF u
  <2>4. NodeInv(u, Absent)
    BY <1>3, <2>3, BooksOk DEF ButCopies
  <2>5. /\ u.runs = w.runs /\ u.now = w.now /\ u.replicas = w.replicas /\ u.gone = w.gone
        /\ u.outcome = "running"
        /\ u.pods[p].cache = w.pods[p].cache /\ u.pods[p].queue = w.pods[p].queue
        /\ u.pods[p].running = w.pods[p].running
        /\ \A q \in Pod : Pages(u, q) = Pages(w, q)
    BY SMTT(30), <1>2, <1>3, <2>2, <2>3 DEF ButCopies, Others, SameHold, SameWork, Pages
  <2>6. Admitted(held, k) /\ "outcome" \in DOMAIN sent
    BY <1>7, <2>3 DEF World, Schedule
  <2>7. Admits(u, started, p, r, until)
    <3>1. Hit(u, p, n) = hit
      BY SMTT(30), <2>5 DEF Hit
    <3> HIDE DEF hit, until, p
    <3>2. QED
      BY <1>7, <2>5, <3>1 DEF Admits
  <2> HIDE DEF started
  <2>8. ASSUME v.outcome = "running"
        PROVE  NodeInv(v, Absent) /\ Tame(u, v) /\ Unmoved(w, v)
    <3>1. ok /\ v = sent
      <4> HIDE DEF ok, sent
      <4>1. QED
        BY <2>1, <2>6, <2>8, CheckFacts
    <3>2. NodeInv(started, Absent) /\ Tame(u, started)
      <4>1. u.pods[p].queue # <<>> /\ u.pods[p].running = Absent /\ u.runs[r].owner = p
        BY Zenon, <1>7, <2>5, <3>1
      <4> HIDE DEF p, until
      <4>2. QED
        BY <1>2, <1>4, <2>4, <2>7, <4>1, AdmittedOk
    <3>3. started.now = w.now
      BY <2>5, <3>2 DEF Tame
    <3>4. NodeInv(sent, Absent) /\ Tame(started, sent)
      <4>1. "SERVICE_DONE" \in Kinds \ {Copying}
        BY DEF Kinds, Copying
      <4> HIDE DEF until
      <4>2. QED
        BY <1>4, <3>2, <3>3, <4>1, ScheduleOk
    <3>5. Tame(u, sent)
      BY <3>2, <3>4, TameTwice
    <3>6. Unmoved(w, sent)
      <4>1. sent.runs = started.runs
        BY SMTT(30), <3>2, Parts DEF sent, Schedule, Fields
      <4>2. w.runs[r].state # "NONE"
        <5>1. LifeOf(w, r) /\ p # Absent
          BY <1>2, RequestFacts DEF NodeInv, Lives
        <5>2. QED
          BY <3>1, <5>1 DEF LifeOf
      <4>3. \A q \in Request \ {r} : started.runs[q] = w.runs[q]
        <5>1. u.runs \in [Request -> RunRecord]
          BY <2>3 DEF World
        <5>2. QED
          BY <2>3, <2>5, <5>1 DEF started, World
      <4>4. QED
        BY <4>1, <4>2, <4>3 DEF Unmoved
    <3>7. QED
      BY Zenon, <3>1, <3>4, <3>5, <3>6
  <2>9. (v.outcome = "running" \/ v.outcome = "assertion") /\ Fields \subseteq DOMAIN v
    <3>1. Fields \subseteq DOMAIN u
      BY SMTT(30), <2>4, Parts
    <3>2. QED
      BY Zenon, <2>1, <2>5, <2>6, <3>1 DEF Check, sent, Schedule, started
  <2>10. ASSUME v.outcome = "running"
         PROVE  Loyal(w, v, 0)
    BY <2>5, <2>8, <2>10 DEF Tame, Loyal
  <2>11. ASSUME v.outcome = "running"
         PROVE  SameCopies(w, v) /\ v.tokens = w.tokens /\ v.refilled = w.refilled
    <3>1. v.copies = u.copies /\ v.tokens = u.tokens /\ v.refilled = u.refilled
      BY <2>8, <2>11 DEF Tame
    <3>2. idle.copies = w.copies /\ idle.tokens = w.tokens /\ idle.refilled = w.refilled
      BY <1>3 DEF Others
    <3>3. u.tokens = idle.tokens /\ u.refilled = idle.refilled
      BY <2>3 DEF ButCopies
    <3>4. SameCopies(w, v)
      BY <2>3, <3>1, <3>2 DEF SameCopies
    <3>5. QED
      BY <3>1, <3>2, <3>3, <3>4
  <2>12. QED
    BY <2>8, <2>9, <2>10, <2>11, NodeCaches
<1>8. CASE ~done /\ ~Admitted(held, k)
  <2>1. v = refused
    BY <1>1, <1>8
  <2>2. PICK m : Lent(w, Absent, p, m)
    BY SMTT(30), <1>2, LentExists DEF NodeInv
  <2>3. CacheOk(f, m, Root) /\ f.pages = w.pods[p].cache.pages /\ SamePrivate(w.pods[p].cache, f)
    BY <1>2, <1>8, <2>2, BeginCaches
  <2>4. idle \in World /\ idle.pods \in [Pod -> PodRecord]
    BY <1>3 DEF NodeInv, World
  <2> HIDE DEF f
  <2>5. /\ v.outcome = "refused" /\ v.runs = w.runs /\ v.now = w.now /\ v.gone = w.gone
        /\ v.replicas = w.replicas /\ v.copies = w.copies /\ v.tokens = w.tokens
        /\ v.refilled = w.refilled /\ Fields \subseteq DOMAIN v
    BY <1>3, <2>1, <2>4 DEF Others, World, Fields
  <2>6. /\ v.pods[p].cache = f /\ v.pods[p].running = Absent
        /\ \A q \in Pod \ {p} : v.pods[q] = idle.pods[q]
    <3>1. v.pods = [idle.pods EXCEPT ![p].cache = f]
      BY <2>1, <2>4 DEF World
    <3>2. idle.pods[p] \in PodRecord /\ idle.pods[p].running = Absent
      BY <1>2, <1>3, <1>8, <2>4 DEF SameHold
    <3> HIDE DEF p
    <3>3. QED
      BY <1>2, <2>4, <3>1, <3>2 DEF PodRecord
  <2>7. CachesOk(w)
    BY SMTT(30), NodeCaches
  <2>8. CachesOk(v)
    <3>1. ASSUME NEW q \in Pod \ {p}
          PROVE  /\ \E m1 : CacheOk(v.pods[q].cache, m1, HitOf(v, q))
                 /\ v.pods[q].running = Absent => v.pods[q].cache.privatePages = 0
                 /\ v.pods[q].running # Absent =>
                       v.pods[q].cache.privatePages = v.pods[q].cache.private[v.pods[q].running]
      <4>1. v.pods[q].cache = w.pods[q].cache /\ v.pods[q].running = w.pods[q].running
        BY <1>3, <2>6 DEF SameHold
      <4>2. HitOf(v, q) = HitOf(w, q)
        BY <2>5, <4>1 DEF HitOf
      <4>3. QED
        BY <2>7, <4>1, <4>2 DEF CachesOk
    <3>2. HitOf(v, p) = Root
      BY <2>6 DEF HitOf
    <3>3. v.pods[p].cache.privatePages = 0
      BY Zenon, <1>2, <1>8, <2>3, <2>6, <2>7 DEF CachesOk, SamePrivate
    <3>4. QED
      BY Zenon, <2>3, <2>6, <3>1, <3>2, <3>3 DEF CachesOk
  <2>9. Unmoved(w, v)
    BY SMTT(30), <2>5 DEF Unmoved
  <2>10. \A q \in Pod : Pages(v, q) = Pages(w, q)
    BY <1>3, <2>3, <2>6 DEF Pages, SameHold
  <2>11. Loyal(w, v, 0)
    BY <2>5, <2>10 DEF Loyal
  <2>12. SameCopies(w, v)
    BY <2>5 DEF SameCopies
  <2>13. QED
    BY SMTT(30), <2>5, <2>8, <2>9, <2>11, <2>12
<1>9. QED
  BY <1>6, <1>7, <1>8

-----------------------------------------------------------------------------
(* Between two events *)

\* What reconcile_evictions writes on the copies and the credits.
Settles(w, v) ==
    /\ v = [w EXCEPT !.replicas = v.replicas, !.copies = v.copies]
    /\ v.replicas = [p \in Pod |-> [x \in Block |-> IF x \in w.gone[p] THEN 0 ELSE w.replicas[p][x]]]
    /\ v.copies = [i \in DOMAIN w.copies |-> v.copies[i]]
    /\ \A i \in DOMAIN w.copies :
          v.copies[i] = w.copies[i] \/ v.copies[i] = [w.copies[i] EXCEPT !.lost = w.now]

(* What reconciling the copies may change.                                 *)
LEMMA ReconciledSettles ==
    ASSUME NEW w, Fields \subseteq DOMAIN w
    PROVE  Settles(w, Reconciled(w))
<1> DEFINE hit(i) == \E p \in Pod : \E x \in w.gone[p] : w.replicas[p][x] = i
           f == [i \in DOMAIN w.copies |->
                   IF w.copies[i].lost = Absent /\ hit(i) THEN [w.copies[i] EXCEPT !.lost = w.now]
                   ELSE w.copies[i]]
           g == [p \in Pod |-> [x \in Block |-> IF x \in w.gone[p] THEN 0 ELSE w.replicas[p][x]]]
           v == Reconciled(w)
<1>1. v = [w EXCEPT !.replicas = g, !.copies = f]
  BY DEF Reconciled
<1>2. f = [i \in DOMAIN w.copies |-> f[i]]
  OBVIOUS
<1>3. \A i \in DOMAIN w.copies :
         f[i] = w.copies[i] \/ f[i] = [w.copies[i] EXCEPT !.lost = w.now]
  <2> HIDE DEF hit
  <2>1. QED
    OBVIOUS
<1> HIDE DEF f, v
<1>4. v.copies = f /\ v.replicas = g
  <2> HIDE DEF g
  <2>1. QED
    BY <1>1 DEF Fields
<1>5. v = [w EXCEPT !.replicas = v.replicas, !.copies = v.copies]
  <2> HIDE DEF g
  <2>1. QED
    BY <1>1, <1>4
<1>6. QED
  BY <1>2, <1>3, <1>4, <1>5 DEF Settles, v

(* Reconciling clears the credit of pages that have gone, and nothing      *)
(* else.                                                                   *)
LEMMA ReconciledOk ==
    ASSUME NEW w \in World, NEW v, v = Reconciled(w)
    PROVE  /\ v \in World /\ SameCopies(w, v)
           /\ v.now = w.now /\ v.pods = w.pods /\ v.runs = w.runs /\ v.gate = w.gate
           /\ v.events = w.events /\ v.outcome = w.outcome /\ v.gone = w.gone
           /\ v.tokens = w.tokens /\ v.refilled = w.refilled
           /\ \A p \in Pod : \A x \in Block :
                 v.replicas[p][x] = IF x \in w.gone[p] THEN 0 ELSE w.replicas[p][x]
<1>1. w.copies \in Seq(CopyRecord) /\ Fields \subseteq DOMAIN w /\ w.now \in Int
      /\ w.replicas \in [Pod -> [Block -> Int]]
  BY DEF World, Fields
<1>2. Settles(w, v)
  BY <1>1, ReconciledSettles
<1>3. ASSUME NEW i \in DOMAIN w.copies
      PROVE  /\ v.copies[i] \in CopyRecord
             /\ LET x == w.copies[i]
                    y == v.copies[i]
                IN  /\ y.active = x.active /\ y.id = x.id /\ y.source = x.source
                    /\ y.target = x.target /\ y.path = x.path /\ y.start = x.start
  <2> DEFINE x == w.copies[i]
             y == v.copies[i]
             now == w.now
  <2>1. x \in CopyRecord
    BY <1>1, ElementOfSeq
  <2>2. y = x \/ y = [x EXCEPT !.lost = now]
    BY Zenon, <1>2 DEF Settles
  <2>3. now \in Int
    BY <1>1
  <2> HIDE DEF x, y, now
  <2>4. /\ y \in CopyRecord
        /\ y.active = x.active /\ y.id = x.id /\ y.source = x.source
        /\ y.target = x.target /\ y.path = x.path /\ y.start = x.start
    BY <2>1, <2>2, <2>3 DEF CopyRecord
  <2>5. QED
    BY <2>4 DEF x, y
<1>4. v.copies \in Seq(CopyRecord)
  <2>1. DOMAIN w.copies = 1 .. Len(w.copies) /\ Len(w.copies) \in Nat
    BY <1>1, LenProperties
  <2>2. v.copies = [i \in DOMAIN w.copies |-> v.copies[i]]
    BY Zenon, <1>2 DEF Settles
  <2>3. v.copies \in [1 .. Len(w.copies) -> CopyRecord]
    BY <1>3, <2>1, <2>2
  <2>4. QED
    BY <2>1, <2>3, SeqDef
<1>5. /\ v.replicas \in [Pod -> [Block -> Int]]
      /\ \A p \in Pod : \A x \in Block :
                 v.replicas[p][x] = IF x \in w.gone[p] THEN 0 ELSE w.replicas[p][x]
  <2>1. v.replicas = [p \in Pod |-> [x \in Block |-> IF x \in w.gone[p] THEN 0 ELSE w.replicas[p][x]]]
    BY Zenon, <1>2 DEF Settles
  <2>2. QED
    BY <1>1, <2>1
<1>6. /\ v \in World
      /\ v.now = w.now /\ v.pods = w.pods /\ v.runs = w.runs /\ v.gate = w.gate
      /\ v.events = w.events /\ v.outcome = w.outcome /\ v.gone = w.gone
      /\ v.tokens = w.tokens /\ v.refilled = w.refilled
  <2>1. v = [w EXCEPT !.replicas = v.replicas, !.copies = v.copies]
    BY Zenon, <1>2 DEF Settles
  <2>2. v.replicas \in [Pod -> [Block -> Int]]
    BY <1>5
  <2>3. QED
    BY Zenon, <1>4, <2>1, <2>2 DEF World
<1>7. DOMAIN v.copies = DOMAIN w.copies
  BY Zenon, <1>2 DEF Settles
<1>8. QED
  BY <1>3, <1>5, <1>6, <1>7 DEF SameCopies

-----------------------------------------------------------------------------
(* The heap *)

\* t is s without element k.
Without(s, t, k) ==
    /\ DOMAIN t \subseteq Int
    /\ \A i \in DOMAIN t : (IF i < k THEN i ELSE i + 1) \in DOMAIN s /\ t[i] = s[IF i < k THEN i ELSE i + 1]

(* A sequence without one of its elements.                                 *)
LEMMA RemoveLeaves ==
    ASSUME NEW S, NEW s \in Seq(S), NEW k \in DOMAIN s
    PROVE  Sequence!RemoveAt(s, k) \in Seq(S) /\ Without(s, Sequence!RemoveAt(s, k), k)
<1> DEFINE t == Sequence!RemoveAt(s, k)
<1>1. /\ t \in Seq(S) /\ DOMAIN t = 1 .. Len(s) - 1 /\ Len(s) \in Nat
  BY InRemove
<1>2. \A i \in DOMAIN t : /\ (IF i < k THEN i ELSE i + 1) \in DOMAIN s
                          /\ t[i] = s[IF i < k THEN i ELSE i + 1]
  BY InRemove
<1> HIDE DEF t
<1>3. DOMAIN t \subseteq Int
  BY <1>1
<1>4. Without(s, t, k)
  BY <1>2, <1>3 DEF Without
<1>5. QED
  BY <1>1, <1>4 DEF t

\* Event e of the heap of w, whose clock is put forward to it.
Begins(w, v, e) ==
    v = [w EXCEPT !.now = e.time,
                  !.events = IF e.at = 0 THEN @ ELSE Sequence!RemoveAt(@, e.at)]

(* The clock moves to the event that is taken.                             *)
LEMMA BeginsOk ==
    ASSUME NEW w, NodeInv(w, Absent), NEW e, e.time \in Nat, e.time >= w.now, e.at \in Nat,
           e.at # 0 => e.at \in DOMAIN w.events,
           \A i \in DOMAIN w.events : w.events[i].time >= e.time,
           NEW v, Begins(w, v, e)
    PROVE  /\ NodeInv(v, Absent) /\ v.now = e.time
           /\ v.pods = w.pods /\ v.runs = w.runs /\ v.gate = w.gate /\ v.copies = w.copies
           /\ v.gone = w.gone /\ v.replicas = w.replicas /\ v.tokens = w.tokens
           /\ v.refilled = w.refilled
           /\ (e.at # 0 /\ w.events[e.at].kind = Copying =>
                 \A i \in DOMAIN v.events : v.events[i].kind = Copying => v.events[i].id # w.events[e.at].id)
<1> DEFINE s == w.events
           t == IF e.at = 0 THEN s ELSE Sequence!RemoveAt(s, e.at)
           time == e.time
<1>1. /\ w \in World /\ Lives(w) /\ Ticketed(w, Absent) /\ Flying(w, Absent) /\ Serving(w)
      /\ Posted(w) /\ w.outcome = "running" /\ s \in Seq(EventRecord)
  BY DEF NodeInv, World
<1>2. v = [w EXCEPT !.now = time, !.events = t]
  BY DEF Begins
<1>3. t \in Seq(EventRecord) /\ (e.at = 0 => t = s) /\ (e.at # 0 => Without(s, t, e.at))
  <2>1. CASE e.at = 0
    BY <1>1, <2>1
  <2>2. CASE e.at # 0
    <3>1. t = Sequence!RemoveAt(s, e.at) /\ e.at \in DOMAIN s
      BY <2>2
    <3>2. Sequence!RemoveAt(s, e.at) \in Seq(EventRecord)
          /\ Without(s, Sequence!RemoveAt(s, e.at), e.at)
      <4> HIDE DEF t, s
      <4>1. QED
        BY <1>1, <3>1, RemoveLeaves
    <3> HIDE DEF t, s
    <3>3. QED
      BY <2>2, <3>1, <3>2
  <2>3. QED
    BY <2>1, <2>2
<1> DEFINE g(i) == IF e.at = 0 THEN i ELSE IF i < e.at THEN i ELSE i + 1
<1>4. /\ \A i \in DOMAIN t : g(i) \in DOMAIN s /\ t[i] = s[g(i)] /\ (e.at # 0 => g(i) # e.at)
      /\ \A i, j \in DOMAIN t : g(i) = g(j) => i = j
  <2> HIDE DEF t, s
  <2>1. CASE e.at = 0
    BY <1>3, <2>1
  <2>2. CASE e.at # 0
    <3>1. \A i \in DOMAIN t : i \in Int
      BY <1>3, <2>2 DEF Without
    <3>2. QED
      BY <1>3, <2>2, <3>1 DEF Without
  <2>3. QED
    BY <2>1, <2>2
<1> HIDE DEF g
<1>5. /\ \A i, j \in DOMAIN t :
            t[i].kind = Copying /\ t[j].kind = Copying /\ t[i].id = t[j].id => i = j
      /\ e.at # 0 /\ s[e.at].kind = Copying =>
            \A i \in DOMAIN t : t[i].kind = Copying => t[i].id # s[e.at].id
  <2>1. \A i, j \in DOMAIN s : s[i].kind = Copying /\ s[j].kind = Copying /\ s[i].id = s[j].id => i = j
    BY <1>1 DEF Posted
  <2>2. e.at # 0 => e.at \in DOMAIN s
    OBVIOUS
  <2> HIDE DEF t, s
  <2>3. QED
    BY <1>4, <2>1, <2>2
<1>6. time \in Nat
  OBVIOUS
<1>7. \A i \in DOMAIN t : t[i].time >= time
  BY <1>4
<1> HIDE DEF t, time
<1>8. /\ v \in World /\ v.events = t /\ v.now = time
      /\ v.pods = w.pods /\ v.runs = w.runs /\ v.gate = w.gate /\ v.copies = w.copies
      /\ v.gone = w.gone /\ v.replicas = w.replicas /\ v.tokens = w.tokens
      /\ v.refilled = w.refilled /\ v.outcome = w.outcome
  BY <1>1, <1>2, <1>3, <1>6 DEF World
<1>9. Posted(v)
  <2>1. \A i \in DOMAIN t : Ready(v, t[i])
    BY <1>1, <1>4, <1>7, <1>8 DEF Posted, Ready
  <2>2. QED
    BY <1>5, <1>8, <2>1 DEF Posted
<1>10. Lives(v) /\ Ticketed(v, Absent)
  <2>1. \A q \in Request : w.runs[q].state # "NONE" => w.runs[q].path \in Block /\ w.runs[q].arrival <= time
    <3>1. \A q \in Request : w.runs[q] \in RunRecord
      BY <1>1 DEF World
    <3>2. \A q \in Request : w.runs[q].arrival \in Nat
      BY <3>1 DEF RunRecord
    <3>3. w.now \in Nat /\ w.now <= time
      BY <1>1 DEF World, time
    <3>4. QED
      BY <1>1, <1>6, <3>2, <3>3 DEF Lives, LifeOf
  <2>2. Lives(v)
    BY <1>1, <1>8, <2>1 DEF Lives, LifeOf
  <2>3. QED
    BY <1>1, <1>8, <2>2 DEF Ticketed, Bound, Settled
<1>11. (\A p \in Pod : SameHold(w.pods[p], v.pods[p])) /\ SameMoves(w, v, Absent, Absent)
  BY SMTT(30), <1>8 DEF SameHold, SameMoves
<1>12. Serving(v) /\ \A p \in Pod : HitOf(v, p) = HitOf(w, p)
  BY <1>1, <1>8 DEF Serving, HitOf
<1>13. Flying(v, Absent)
  BY <1>1, <1>11, <1>12, FlyingFrame
<1>14. QED
  BY <1>1, <1>5, <1>8, <1>9, <1>10, <1>12, <1>13 DEF NodeInv, time

-----------------------------------------------------------------------------
(* PROACTIVE_TRANSFER_COMPLETE *)

\* v is w with other copies and other credits.
Rewritten(w, v, copies, replicas) == v = [w EXCEPT !.copies = copies, !.replicas = replicas]

(* Copies and credits are replaced.                                        *)
LEMMA RewrittenFacts ==
    ASSUME NEW w \in World, NEW copies \in Seq(CopyRecord), NEW replicas \in [Pod -> [Block -> Int]],
           NEW v, Rewritten(w, v, copies, replicas)
    PROVE  /\ v \in World /\ v.copies = copies /\ v.replicas = replicas
           /\ v.now = w.now /\ v.pods = w.pods /\ v.runs = w.runs /\ v.gate = w.gate
           /\ v.events = w.events /\ v.outcome = w.outcome /\ v.gone = w.gone
           /\ v.tokens = w.tokens /\ v.refilled = w.refilled
  BY DEF Rewritten, World

\* s with another element i.
Altered(s, t, i, e) == t = [s EXCEPT ![i] = e]

(* One element is replaced.                                                *)
LEMMA AlteredFacts ==
    ASSUME NEW S, NEW s \in Seq(S), NEW i \in DOMAIN s, NEW e \in S, NEW t, Altered(s, t, i, e)
    PROVE  /\ t \in Seq(S) /\ DOMAIN t = DOMAIN s /\ t[i] = e
           /\ \A j \in DOMAIN s \ {i} : t[j] = s[j]
<1>1. s \in [1 .. Len(s) -> S] /\ DOMAIN s = 1 .. Len(s) /\ Len(s) \in Nat
  BY LenProperties
<1>2. t = [s EXCEPT ![i] = e]
  BY DEF Altered
<1>3. t \in [1 .. Len(s) -> S] /\ t[i] = e /\ \A j \in DOMAIN s \ {i} : t[j] = s[j]
  BY <1>1, <1>2
<1>4. t \in Seq(S)
  BY <1>1, <1>3, SeqDef
<1>5. QED
  BY <1>1, <1>3, <1>4

(* The pages of a copy that were not at its target are its pages.          *)
LEMMA CreditedOk ==
    ASSUME NEW w, NodeInv(w, Absent), NEW i \in DOMAIN w.copies, NEW v, v = Credited(w, i),
           Closed(Pages(w, w.copies[i].target))
    PROVE  /\ NodeInv(v, Absent) /\ SameCopies(w, v)
           /\ v.now = w.now /\ v.pods = w.pods /\ v.runs = w.runs /\ v.gate = w.gate
           /\ v.events = w.events /\ v.outcome = w.outcome /\ v.gone = w.gone
           /\ v.tokens = w.tokens /\ v.refilled = w.refilled
           /\ \A p \in Pod : \A y \in Block :
                 v.replicas[p][y] = IF p = w.copies[i].target
                                       /\ y \in Chain[w.copies[i].path] \ Pages(w, p)
                                      THEN i ELSE w.replicas[p][y]
<1> DEFINE x == w.copies[i]
           t == x.target
           m == x.path
           hit == Hit(w, t, m)
           new == Chain[m] \ Chain[hit]
           f == [y \in Block |-> IF y \in new THEN i ELSE w.replicas[t][y]]
           replicas == [w.replicas EXCEPT ![t] = f]
           note == [x EXCEPT !.pages = new]
           copies == [w.copies EXCEPT ![i] = note]
<1>1. /\ w \in World /\ w.copies \in Seq(CopyRecord) /\ w.replicas \in [Pod -> [Block -> Int]]
      /\ x \in CopyRecord
  <2>1. w \in World
    BY DEF NodeInv
  <2>2. w.copies \in Seq(CopyRecord) /\ w.replicas \in [Pod -> [Block -> Int]]
    BY <2>1 DEF World
  <2>3. QED
    BY <2>1, <2>2, ElementOfSeq
<1>2. t \in Pod /\ m \in Node
  BY <1>1 DEF CopyRecord
<1>3. v = [w EXCEPT !.copies[i].pages = new,
                    !.replicas[t] = [y \in Block |-> IF y \in new THEN i ELSE @[y]]]
  BY DEF Credited
<1>4. new = Chain[m] \ Pages(w, t)
  <2>1. Chain[hit] = Chain[m] \cap Pages(w, t)
    <3>1. w.pods[t].cache \in PrefixCache
      BY <1>1, <1>2 DEF World, PodRecord
    <3>2. Chain[LongestWithin(m, w.pods[t].cache.pages)] = Chain[m] \cap w.pods[t].cache.pages
      BY Zenon, <1>2, <3>1, MissingFacts DEF Pages
    <3>3. QED
      BY Zenon, <3>2 DEF Hit, Pages
  <2> HIDE DEF hit
  <2>2. QED
    BY <2>1
<1>5. new \subseteq Block /\ i \in Int
  <2>1. Chain[m] \subseteq Block
    BY <1>2, ChainFacts
  <2>2. DOMAIN w.copies = 1 .. Len(w.copies) /\ Len(w.copies) \in Nat
    BY <1>1, LenProperties
  <2>3. QED
    BY <2>1, <2>2
<1> HIDE DEF new
<1>6. f \in [Block -> Int] /\ \A y \in Block : f[y] = IF y \in new THEN i ELSE w.replicas[t][y]
  BY <1>1, <1>2, <1>5
<1>7. Rewritten(w, v, copies, replicas)
  <2>1. v = [w EXCEPT !.copies = copies, !.replicas = replicas]
    BY <1>1, <1>2, <1>3 DEF World
  <2>2. QED
    BY SMTT(30), <2>1 DEF Rewritten
<1> HIDE DEF f
<1>8. /\ replicas \in [Pod -> [Block -> Int]] /\ replicas[t] = f
      /\ \A p \in Pod \ {t} : replicas[p] = w.replicas[p]
  BY <1>1, <1>2, <1>6
<1>9. /\ note \in CopyRecord
      /\ note.active = x.active /\ note.id = x.id /\ note.source = x.source
      /\ note.target = x.target /\ note.path = x.path /\ note.start = x.start
  <2> HIDE DEF x
  <2>1. QED
    BY <1>1, <1>5 DEF CopyRecord
<1> HIDE DEF note
<1>10. /\ copies \in Seq(CopyRecord) /\ DOMAIN copies = DOMAIN w.copies /\ copies[i] = note
       /\ \A j \in DOMAIN w.copies \ {i} : copies[j] = w.copies[j]
  <2>1. Altered(w.copies, copies, i, note)
    BY DEF Altered
  <2> HIDE DEF copies
  <2>2. QED
    BY <1>1, <1>9, <2>1, AlteredFacts
<1> HIDE DEF copies, replicas, x
<1>11. /\ v \in World /\ v.copies = copies /\ v.replicas = replicas
       /\ v.now = w.now /\ v.pods = w.pods /\ v.runs = w.runs /\ v.gate = w.gate
       /\ v.events = w.events /\ v.outcome = w.outcome /\ v.gone = w.gone
       /\ v.tokens = w.tokens /\ v.refilled = w.refilled
  <2>1. w \in World /\ copies \in Seq(CopyRecord) /\ replicas \in [Pod -> [Block -> Int]]
    BY <1>1, <1>8, <1>10
  <2>2. QED
    BY <1>7, <2>1, RewrittenFacts
<1>12. SameCopies(w, v)
  BY <1>9, <1>10, <1>11 DEF SameCopies, x
<1>13. NodeInv(v, Absent)
  BY <1>11, <1>12, BooksOk
<1>14. \A p \in Pod : \A y \in Block :
           v.replicas[p][y] = IF p = t /\ y \in new THEN i ELSE w.replicas[p][y]
  BY <1>2, <1>6, <1>8, <1>11
<1>15. QED
  BY <1>4, <1>11, <1>12, <1>13, <1>14 DEF x

\* The copies i of the two states differ only in what is noted of their progress.
SamePlans(w, v) ==
    /\ DOMAIN v.copies = DOMAIN w.copies
    /\ \A i \in DOMAIN w.copies :
          LET x == w.copies[i]
              y == v.copies[i]
          IN  y.path = x.path /\ y.start = x.start

\* Copy i is on the wire no more, and no event will tell of it.
Docked(w, v, i) == v = [w EXCEPT !.copies[i].active = FALSE]

(* One copy is no longer active.                                           *)
LEMMA DockedFacts ==
    ASSUME NEW w \in World, NEW i \in DOMAIN w.copies, NEW v, Docked(w, v, i)
    PROVE  /\ v \in World
           /\ v.now = w.now /\ v.pods = w.pods /\ v.runs = w.runs /\ v.gate = w.gate
           /\ v.events = w.events /\ v.outcome = w.outcome /\ v.gone = w.gone
           /\ v.tokens = w.tokens /\ v.refilled = w.refilled /\ v.replicas = w.replicas
           /\ DOMAIN v.copies = DOMAIN w.copies /\ ~v.copies[i].active
           /\ \A j \in DOMAIN w.copies \ {i} : v.copies[j] = w.copies[j]
           /\ \A j \in DOMAIN w.copies :
                 LET x == w.copies[j]
                     y == v.copies[j]
                 IN  /\ y.id = x.id /\ y.source = x.source /\ y.target = x.target
                     /\ y.path = x.path /\ y.start = x.start
<1> DEFINE x == w.copies[i]
           note == [x EXCEPT !.active = FALSE]
           copies == [w.copies EXCEPT ![i] = note]
<1>1. w.copies \in Seq(CopyRecord) /\ x \in CopyRecord /\ w.replicas \in [Pod -> [Block -> Int]]
  <2>1. w.copies \in Seq(CopyRecord) /\ w.replicas \in [Pod -> [Block -> Int]]
    BY DEF World
  <2>2. QED
    BY <2>1, ElementOfSeq
<1>2. Rewritten(w, v, copies, w.replicas)
  <2>1. v = [w EXCEPT !.copies = copies, !.replicas = w.replicas]
    BY <1>1 DEF Docked, World
  <2>2. QED
    BY <2>1 DEF Rewritten
<1>3. /\ note \in CopyRecord /\ ~note.active
      /\ note.id = x.id /\ note.source = x.source
      /\ note.target = x.target /\ note.path = x.path /\ note.start = x.start
  <2> HIDE DEF x
  <2>1. QED
    BY <1>1 DEF CopyRecord
<1> HIDE DEF note
<1>4. /\ copies \in Seq(CopyRecord) /\ DOMAIN copies = DOMAIN w.copies /\ copies[i] = note
      /\ \A j \in DOMAIN w.copies \ {i} : copies[j] = w.copies[j]
  <2>1. Altered(w.copies, copies, i, note)
    BY DEF Altered
  <2> HIDE DEF copies
  <2>2. QED
    BY <1>1, <1>3, <2>1, AlteredFacts
<1> HIDE DEF copies, x
<1>5. /\ v \in World /\ v.copies = copies /\ v.replicas = w.replicas
      /\ v.now = w.now /\ v.pods = w.pods /\ v.runs = w.runs /\ v.gate = w.gate
      /\ v.events = w.events /\ v.outcome = w.outcome /\ v.gone = w.gone
      /\ v.tokens = w.tokens /\ v.refilled = w.refilled
  <2>1. copies \in Seq(CopyRecord) /\ w.replicas \in [Pod -> [Block -> Int]]
    BY <1>1, <1>4 DEF World
  <2>2. QED
    BY SMTT(40), <1>2, <2>1, RewrittenFacts
<1>6. ASSUME NEW j \in DOMAIN w.copies
      PROVE  LET a == w.copies[j]
                 b == v.copies[j]
             IN  /\ b.id = a.id /\ b.source = a.source /\ b.target = a.target
                 /\ b.path = a.path /\ b.start = a.start
  BY <1>3, <1>4, <1>5 DEF x
<1>7. QED
  BY <1>3, <1>4, <1>5, <1>6

(* What lands of a copy, in a state that has not heard of it otherwise.    *)
LEMMA CopyLands ==
    ASSUME NEW w, NodeInv(w, Absent), NEW i \in DOMAIN w.copies, w.copies[i].active,
           \A j \in DOMAIN w.events : w.events[j].kind = Copying => w.events[j].id # i,
           NEW z \in World, Others(w, z), Landed(w, z, w.copies[i].source, w.copies[i].target),
           \A p \in Pod : SameWork(w.pods[p], z.pods[p]), NEW v, Docked(z, v, i)
    PROVE  NodeInv(v, Absent) /\ v.pods = z.pods
<1>1. /\ w \in World /\ Lives(w) /\ Ticketed(w, Absent) /\ Flying(w, Absent) /\ Serving(w)
      /\ Posted(w) /\ w.outcome = "running"
  BY DEF NodeInv
<1>2. z.runs = w.runs /\ z.gate = w.gate /\ z.events = w.events /\ z.now = w.now
      /\ z.copies = w.copies /\ z.outcome = w.outcome
  BY DEF Others
<1>3. /\ v \in World
      /\ v.now = w.now /\ v.pods = z.pods /\ v.runs = w.runs /\ v.gate = w.gate
      /\ v.events = w.events /\ v.outcome = w.outcome
      /\ DOMAIN v.copies = DOMAIN w.copies /\ ~v.copies[i].active
      /\ \A j \in DOMAIN w.copies \ {i} : v.copies[j] = w.copies[j]
  BY <1>2, DockedFacts
<1>4. Lives(v)
  BY <1>1, <1>3 DEF Lives, LifeOf, SameWork
<1>5. Ticketed(v, Absent)
  BY <1>1, <1>3 DEF Ticketed, Bound, Settled, SameWork
<1>6. Posted(v)
  BY <1>1, <1>3 DEF Posted, Ready
<1>7. SameService(w, v)
  BY <1>3 DEF SameService, SameWork
<1>8. i \in Int /\ i > 0 /\ DOMAIN w.copies \subseteq Int
  <2>1. w.copies \in Seq(CopyRecord)
    BY <1>1 DEF World
  <2>2. DOMAIN w.copies = 1 .. Len(w.copies) /\ Len(w.copies) \in Nat
    BY <2>1, LenProperties
  <2>3. QED
    BY <2>2
<1> DEFINE k0 == -i
<1>9. k0 \in Int /\ -k0 = i /\ ~(k0 > 0) /\ k0 \notin Request
  BY <1>8, RequestFacts
<1> HIDE DEF k0
<1>10. k0 \in Keys(w, Absent)
  BY <1>9 DEF Keys
<1>11. Keys(v, Absent) = Keys(w, Absent) \ {k0}
  <2>1. \A k \in Int : -k = i => k = k0
    BY <1>8, <1>9
  <2>2. \A k \in Int : (-k \in DOMAIN v.copies /\ v.copies[-k].active)
                         <=> (-k \in DOMAIN w.copies /\ w.copies[-k].active /\ k # k0)
    BY <1>3, <1>9, <2>1
  <2>3. QED
    BY <1>3, <1>9, <2>2 DEF Keys
<1>12. SourceOf(w, k0) = w.copies[i].source /\ GoalOf(w, k0) = w.copies[i].target
  BY <1>9 DEF SourceOf, GoalOf
<1>13. \A l \in Keys(v, Absent) : SameKey(w, v, l)
  <2>1. SUFFICES ASSUME NEW l \in Keys(v, Absent) PROVE SameKey(w, v, l)
    OBVIOUS
  <2>2. l \in Keys(w, Absent) /\ l # k0
    BY <1>11
  <2>3. CASE l > 0
    BY <1>3, <2>3 DEF SameKey, IdOf, SourceOf, GoalOf, PathOf
  <2>4. CASE ~(l > 0)
    <3>1. l \in Int /\ -l \in DOMAIN w.copies
      BY <1>1, <2>2, <2>4, KeyFacts
    <3>2. -l # i
      BY <1>8, <1>9, <2>2, <3>1
    <3>3. v.copies[-l] = w.copies[-l]
      BY <1>3, <3>1, <3>2
    <3>4. QED
      BY <2>4, <3>3 DEF SameKey, IdOf, SourceOf, GoalOf, PathOf
  <2>5. QED
    BY <2>3, <2>4
<1>14. Landed(w, v, SourceOf(w, k0), GoalOf(w, k0))
  BY Zenon, <1>3, <1>12 DEF Landed
<1>15. Flying(v, Absent) /\ Serving(v)
  BY <1>1, <1>7, <1>10, <1>11, <1>13, <1>14, Landing
<1>16. QED
  BY <1>1, <1>3, <1>4, <1>5, <1>6, <1>15 DEF NodeInv

(* Docking the copy changes nothing else that the books cover.             *)
LEMMA DockedBooks ==
    ASSUME NEW z, Fields \subseteq DOMAIN z, NEW i, NEW v, Docked(z, v, i)
    PROVE  Fields \subseteq DOMAIN v /\ v.outcome = z.outcome
<1>1. DOMAIN v = DOMAIN z /\ v.outcome = z.outcome
  BY DEF Docked, Fields
<1>2. QED
  BY <1>1

(* PROACTIVE_TRANSFER_COMPLETE: the pages that come are credited to the    *)
(* copy, and to no other.                                                  *)
LEMMA OnCopiedOk ==
    ASSUME NEW w, NodeInv(w, Absent), NEW i \in DOMAIN w.copies, w.copies[i].active,
           \A j \in DOMAIN w.events : w.events[j].kind = Copying => w.events[j].id # i,
           NEW v, v = OnCopied(w, i)
    PROVE  /\ v.outcome \in {"running", "assertion"} /\ Fields \subseteq DOMAIN v
           /\ v.outcome = "running" =>
                 /\ NodeInv(v, Absent) /\ Loyal(w, v, i) /\ Unmoved(w, v) /\ SamePlans(w, v)
                 /\ v.tokens = w.tokens /\ v.refilled = w.refilled
<1> DEFINE x == w.copies[i]
           s == x.source
           t == x.target
           m == x.path
           u0 == Credited(w, i)
           u == Released(u0, x)
           y == [u EXCEPT !.pods[t].cache = CommitTransferTemporary(@, x.id, m)]
           c0 == Unpin(y.pods[s].cache, m)
           c == IF mode.action = "MOVE_SAFE" THEN ReleaseSuffix(c0, m) ELSE c0
           z == [y EXCEPT !.pods[s].cache = c]
           done == [z EXCEPT !.copies[i].active = FALSE]
           e == WakeGate(done)
           ok == Missing(w.pods[t].cache, m) <= w.pods[t].cache.temporary[x.id]
<1>1. v = Check(e, ok)
  BY Zenon DEF OnCopied
<1>2. Docked(z, done, i)
  BY DEF Docked
<1> HIDE DEF x, u0, u, y, c0, c, z, done, e, ok
<1>3. /\ w \in World /\ Fields \subseteq DOMAIN w /\ w.outcome = "running" /\ Flying(w, Absent)
      /\ x \in CopyRecord
  <2>1. w \in World /\ Fields \subseteq DOMAIN w /\ w.outcome = "running" /\ Flying(w, Absent)
    BY Parts DEF NodeInv
  <2>2. w.copies \in Seq(CopyRecord)
    BY <2>1 DEF World
  <2>3. QED
    BY <2>1, <2>2, ElementOfSeq DEF x
<1> DEFINE k == -i
<1>4. /\ k \in Keys(w, Absent) /\ ~(k > 0) /\ -k = i /\ i \in Nat
  <2>1. DOMAIN w.copies = 1 .. Len(w.copies) /\ Len(w.copies) \in Nat
    BY <1>3, LenProperties DEF World
  <2>2. i \in Int /\ i > 0
    BY <2>1
  <2>3. k \in Int /\ -k = i /\ ~(k > 0)
    BY <2>2
  <2>4. QED
    BY <2>2, <2>3 DEF Keys
<1> HIDE DEF k
<1>5. x.id = IdOf(w, k) /\ s = SourceOf(w, k) /\ t = GoalOf(w, k) /\ m = PathOf(w, k)
  BY <1>4 DEF IdOf, SourceOf, GoalOf, PathOf, x
<1>6. s \in Pod /\ t \in Pod /\ s # t /\ m \in Node
  BY <1>3, <1>4, <1>5 DEF Flying, Flown
<1>7. Closed(Pages(w, t))
  <2>1. PICK m1 : Lent(w, Absent, t, m1)
    BY <1>3, <1>6, LentExists
  <2>2. QED
    BY <2>1 DEF Lent, CacheOk, Pages
<1>8. /\ NodeInv(u0, Absent) /\ SameCopies(w, u0)
      /\ u0.now = w.now /\ u0.pods = w.pods /\ u0.runs = w.runs /\ u0.gate = w.gate
      /\ u0.events = w.events /\ u0.outcome = w.outcome /\ u0.gone = w.gone
      /\ u0.tokens = w.tokens /\ u0.refilled = w.refilled
      /\ \A p \in Pod : \A b \in Block :
            u0.replicas[p][b] = IF p = t /\ b \in Chain[m] \ Pages(w, p) THEN i ELSE w.replicas[p][b]
  <2>1. u0 = Credited(w, i) /\ Closed(Pages(w, w.copies[i].target))
    BY <1>7 DEF u0, x
  <2>2. w.copies[i].target = t /\ w.copies[i].path = m
    BY DEF x
  <2> HIDE DEF s, t, m
  <2>3. QED
    BY <2>1, <2>2, CreditedOk
<1>9. /\ u0 \in World /\ Fields \subseteq DOMAIN u0 /\ Flying(u0, Absent) /\ u0.outcome = "running"
  BY <1>8, Parts DEF NodeInv
<1>10. k \in Keys(u0, Absent) /\ IdOf(u0, k) = x.id /\ SourceOf(u0, k) = s /\ GoalOf(u0, k) = t
       /\ PathOf(u0, k) = m
  <2>1. u0.copies[i].active /\ i \in DOMAIN u0.copies
    BY <1>8 DEF SameCopies
  <2>2. k \in Keys(u0, Absent)
    BY <1>4, <2>1 DEF Keys
  <2>3. /\ u0.copies[i].id = x.id /\ u0.copies[i].source = s /\ u0.copies[i].target = t
        /\ u0.copies[i].path = m
    BY <1>8 DEF SameCopies, x
  <2>4. QED
    BY <1>4, <2>2, <2>3 DEF IdOf, SourceOf, GoalOf, PathOf
<1> HIDE DEF s, t, m
<1>11. /\ Fields \subseteq DOMAIN u /\ Fields \subseteq DOMAIN y /\ Fields \subseteq DOMAIN z
       /\ Fields \subseteq DOMAIN done /\ Fields \subseteq DOMAIN e
       /\ y.outcome = u.outcome /\ z.outcome = u.outcome /\ done.outcome = u.outcome
       /\ u.outcome \in {"running", "assertion"}
       /\ e.outcome \in {done.outcome, "assertion"}
       /\ e.copies = done.copies /\ e.tokens = done.tokens /\ e.refilled = done.refilled
       /\ e.runs = done.runs /\ e.pods = done.pods
  <2>1. Kept(u0, u, Absent) /\ Fields \subseteq DOMAIN u
    BY <1>9, KeptReserve, KeptFields DEF u
  <2>2. u.outcome \in {"running", "assertion"}
    BY <1>9, <2>1 DEF Kept, Books
  <2>3. DOMAIN y = DOMAIN u /\ y.outcome = u.outcome
    BY <2>1 DEF Fields, y
  <2>4. DOMAIN z = DOMAIN y /\ z.outcome = y.outcome
    BY <2>1, <2>3 DEF Fields, z
  <2>5. Fields \subseteq DOMAIN done /\ done.outcome = z.outcome
    BY <1>2, <2>1, <2>3, <2>4, DockedBooks
  <2>6. Kept(done, e, Absent) /\ Fields \subseteq DOMAIN e
    BY <2>5, KeptWake, KeptFields DEF e
  <2>7. e.runs = done.runs /\ e.pods = done.pods
    BY <2>5 DEF e, WakeGate, Schedule, Fields
  <2>8. QED
    BY <2>1, <2>2, <2>3, <2>4, <2>5, <2>6, <2>7 DEF Kept, Books
<1>12. v.outcome \in {"running", "assertion"} /\ Fields \subseteq DOMAIN v
  BY <1>1, <1>11 DEF Check, Fields
<1>13. SUFFICES ASSUME v.outcome = "running"
                PROVE  /\ NodeInv(v, Absent) /\ Loyal(w, v, i) /\ Unmoved(w, v) /\ SamePlans(w, v)
                       /\ v.tokens = w.tokens /\ v.refilled = w.refilled
  BY <1>12
<1>14. v = e
  BY <1>1, <1>11, <1>13, CheckFacts DEF Fields
<1>15. u.outcome = "running" /\ done.outcome = "running"
  BY <1>11, <1>13, <1>14
<1>16. u \in World /\ Others(u0, u) /\ Ended(u0, u, s, t)
  BY <1>6, <1>9, <1>15, ReleasedOk DEF u, s, t
<1>17. u.pods[s].cache = w.pods[s].cache
  BY <1>8, <1>16 DEF Ended
<1>18. Swap(u, y, t, CommitTransferTemporary(u.pods[t].cache, x.id, m))
  BY <1>6, <1>16 DEF Swap, y, World
<1>19. y.pods[s].cache = w.pods[s].cache /\ s \in DOMAIN y.pods
  BY <1>6, <1>16, <1>17 DEF y, World
<1>20. Swap(y, z, s, c)
  BY DEF Swap, z
<1>21. /\ CacheOk(c, Root, HitOf(w, s)) /\ c.pages \subseteq Pages(w, s)
       /\ SamePrivate(w.pods[s].cache, c) /\ SameTemporary(w.pods[s].cache, c)
  <2>1. c0 = Unpin(w.pods[s].cache, m)
    BY <1>19 DEF c0
  <2>2. /\ CacheOk(c0, Root, HitOf(w, s)) /\ c0.pages = Pages(w, s)
        /\ SamePrivate(w.pods[s].cache, c0) /\ SameTemporary(w.pods[s].cache, c0)
    BY <1>3, <1>4, <1>5, <2>1, LandedCaches DEF Pages
  <2>3. CASE c = c0
    BY <2>2, <2>3
  <2>4. CASE c = ReleaseSuffix(c0, m)
    <3>1. /\ CacheOk(c, Root, HitOf(w, s)) /\ c.pages \subseteq c0.pages
          /\ c.private = c0.private /\ c.privatePages = c0.privatePages
          /\ c.temporary = c0.temporary /\ c.temporaryPages = c0.temporaryPages
      BY <1>6, <2>2, <2>4, ReleaseOk
    <3>2. QED
      BY <2>2, <3>1 DEF SamePrivate, SameTemporary
  <2>5. QED
    BY <2>3, <2>4 DEF c
<1>22. HitOf(u0, s) = HitOf(w, s)
  BY <1>8 DEF HitOf
<1>23. Unloading(u0, k, x, u, y, c, z)
  <2>1. x.source = s /\ x.target = t /\ x.path = m
    BY DEF s, t, m
  <2>2. u = Released(u0, x)
    BY DEF u
  <2>3. Pages(u0, s) = Pages(w, s) /\ u0.pods[s] = w.pods[s]
    BY <1>8 DEF Pages
  <2>4. QED
    BY <1>10, <1>15, <1>18, <1>20, <1>21, <1>22, <2>1, <2>2, <2>3 DEF Unloading
<1>24. /\ z \in World /\ Others(u0, z) /\ Landed(u0, z, s, t)
       /\ \A p \in Pod : SameWork(u0.pods[p], z.pods[p])
       /\ Pages(z, t) = Pages(u0, t) \cup Chain[m]
       /\ \A p \in Pod \ {t} : Pages(z, p) \subseteq Pages(u0, p)
  <2>1. /\ z \in World /\ Others(u0, z) /\ Landed(u0, z, x.source, x.target)
        /\ \A p \in Pod : SameWork(u0.pods[p], z.pods[p])
        /\ Pages(z, x.target) = Pages(u0, x.target) \cup Chain[x.path]
        /\ \A p \in Pod \ {x.target} : Pages(z, p) \subseteq Pages(u0, p)
    BY <1>9, <1>10, <1>23, LandedOk
  <2>2. QED
    BY <2>1 DEF s, t, m
<1>25. /\ i \in DOMAIN u0.copies /\ u0.copies[i].active
       /\ u0.copies[i].source = s /\ u0.copies[i].target = t
  BY <1>8 DEF SameCopies, x, s, t
<1>26. \A j \in DOMAIN u0.events : u0.events[j].kind = Copying => u0.events[j].id # i
  BY <1>8
<1>27. NodeInv(done, Absent) /\ done.pods = z.pods
  BY <1>2, <1>8, <1>24, <1>25, <1>26, CopyLands
<1>28. NodeInv(v, Absent) /\ Tame(done, v)
  BY <1>14, <1>27, WakeOk DEF e
<1>29. /\ done.now = z.now /\ done.runs = z.runs /\ done.gone = z.gone /\ done.tokens = z.tokens
       /\ done.refilled = z.refilled /\ done.replicas = z.replicas
       /\ DOMAIN done.copies = DOMAIN z.copies
       /\ \A j \in DOMAIN z.copies :
             done.copies[j].path = z.copies[j].path /\ done.copies[j].start = z.copies[j].start
  <2>1. i \in DOMAIN z.copies
    BY <1>24, <1>25 DEF Others
  <2>2. QED
    BY <1>2, <1>24, <2>1, DockedFacts
<1>30. /\ z.now = w.now /\ z.runs = w.runs /\ z.gone = w.gone /\ z.tokens = w.tokens
       /\ z.refilled = w.refilled /\ z.replicas = u0.replicas /\ z.copies = u0.copies
  BY <1>8, <1>24 DEF Others
<1>31. Pages(done, t) = Pages(w, t) \cup Chain[m] /\ \A p \in Pod \ {t} : Pages(done, p) \subseteq Pages(w, p)
  <2>1. \A p \in Pod : Pages(done, p) = Pages(z, p) /\ Pages(u0, p) = Pages(w, p)
    BY <1>8, <1>27 DEF Pages
  <2>2. QED
    BY <1>6, <1>24, <2>1
<1>32. \A p \in Pod : \A b \in Block :
          done.replicas[p][b] = IF p = t /\ b \in Chain[m] \ Pages(w, p) THEN i ELSE w.replicas[p][b]
  BY <1>8, <1>29, <1>30
<1>33. SUFFICES Loyal(w, v, i) /\ SamePlans(w, v)
  <2>1. v.tokens = w.tokens /\ v.refilled = w.refilled
    BY <1>11, <1>14, <1>29, <1>30
  <2>2. v.runs = w.runs
    BY <1>11, <1>14, <1>29, <1>30
  <2>3. Unmoved(w, v)
    BY <2>2 DEF Unmoved
  <2>4. QED
    BY <1>28, <2>1, <2>3
<1>34. SamePlans(w, v)
  <2>1. v.copies = done.copies
    BY <1>11, <1>14
  <2>2. QED
    BY <1>8, <1>29, <1>30, <2>1 DEF SameCopies, SamePlans
<1>35. Loyal(w, v, i)
  <2>1. v.now = w.now /\ v.gone = w.gone /\ v.replicas = done.replicas
    BY <1>28, <1>29, <1>30 DEF Tame
  <2>2. \A p \in Pod : Pages(v, p) = Pages(done, p)
    BY <1>11, <1>14 DEF Pages
  <2>3. ASSUME NEW p \in Pod, NEW b \in Block
        PROVE  IF b \in Pages(w, p) THEN v.replicas[p][b] = w.replicas[p][b]
               ELSE IF b \in Pages(v, p) THEN v.replicas[p][b] = i
               ELSE v.replicas[p][b] \in {0, w.replicas[p][b]}
    BY <1>31, <1>32, <2>1, <2>2
  <2>4. QED
    BY <2>1, <2>3 DEF Loyal
<1>36. QED
  BY <1>34, <1>35

-----------------------------------------------------------------------------
(* Ranks of candidates *)

(* What comes before x is comes not before itself.                         *)
LEMMA BeforeStrict ==
    ASSUME NEW n \in Nat, NEW x \in [1 .. n -> Int]
    PROVE  ~Before(x, x)
BY DEF Before

\* The rank of x in the order of the keys.
RankOf(S, K, x) == 1 + Cardinality({y \in S : Before(K[y], K[x])})

(* The ranks of a finite set are the numbers from one up to its size, each *)
(* the rank of one element.                                                *)
LEMMA RanksOnto ==
    ASSUME NEW S, IsFiniteSet(S), NEW n, NEW K, Keyed(S, n, K)
    PROVE  \A i \in 1 .. Cardinality(S) : \E x \in S : RankOf(S, K, x) = i
<1> DEFINE Lower(x) == {y \in S : Before(K[y], K[x])}
           size == Cardinality(S)
           rank == [x \in S |-> RankOf(S, K, x)]
<1>1. n \in Nat /\ \A x \in S : K[x] \in [1 .. n -> Int]
  BY DEF Keyed
<1>2. size \in Nat
  BY FS_CardinalityType
<1>3. ASSUME NEW x \in S
      PROVE  /\ IsFiniteSet(Lower(x)) /\ Cardinality(Lower(x)) \in Nat
             /\ Cardinality(Lower(x)) < size
  <2>1. x \notin Lower(x)
    BY <1>1, BeforeStrict
  <2>2. Lower(x) \subseteq S \ {x}
    BY <2>1
  <2> HIDE DEF Lower
  <2>3. IsFiniteSet(S \ {x}) /\ Cardinality(S \ {x}) = size - 1
    BY FS_RemoveElement
  <2>4. IsFiniteSet(Lower(x)) /\ Cardinality(Lower(x)) <= Cardinality(S \ {x})
    BY <2>2, <2>3, FS_Subset
  <2>5. Cardinality(Lower(x)) \in Nat
    BY <2>4, FS_CardinalityType
  <2>6. QED
    BY <1>2, <2>3, <2>4, <2>5
<1>4. ASSUME NEW x \in S, NEW y \in S, Before(K[x], K[y])
      PROVE  Cardinality(Lower(x)) < Cardinality(Lower(y))
  <2>1. Lower(x) \subseteq Lower(y) \ {x}
    <3>1. x \notin Lower(x)
      BY <1>1, BeforeStrict
    <3>2. \A z \in S : Before(K[z], K[x]) => Before(K[z], K[y])
      BY <1>1, <1>4, BeforeTransitive
    <3>3. QED
      BY <3>1, <3>2
  <2>2. x \in Lower(y)
    BY <1>4
  <2> HIDE DEF Lower
  <2>3. IsFiniteSet(Lower(y)) /\ Cardinality(Lower(y)) \in Nat
    BY <1>3
  <2>4. IsFiniteSet(Lower(y) \ {x}) /\ Cardinality(Lower(y) \ {x}) = Cardinality(Lower(y)) - 1
    BY <2>2, <2>3, FS_RemoveElement
  <2>5. Cardinality(Lower(x)) <= Cardinality(Lower(y) \ {x})
    BY <2>1, <2>4, FS_Subset
  <2>6. Cardinality(Lower(x)) \in Nat
    BY <1>3
  <2>7. QED
    BY <2>3, <2>4, <2>5, <2>6
<1>5. \A x \in S : RankOf(S, K, x) = 1 + Cardinality(Lower(x))
  BY DEF RankOf
<1> HIDE DEF Lower
<1>6. rank \in [S -> 1 .. size]
  <2>1. \A x \in S : RankOf(S, K, x) \in 1 .. size
    BY <1>2, <1>3, <1>5
  <2>2. QED
    BY <2>1
<1>7. \A x, y \in S : rank[x] = rank[y] => x = y
  <2>1. TAKE x, y \in S
  <2>2. SUFFICES ASSUME x # y PROVE rank[x] # rank[y]
    OBVIOUS
  <2>3. K[x] # K[y]
    BY <2>2 DEF Keyed
  <2>4. Before(K[x], K[y]) \/ Before(K[y], K[x])
    BY <1>1, <2>3, BeforeTotal
  <2>5. Cardinality(Lower(x)) # Cardinality(Lower(y))
    BY <1>3, <1>4, <2>4
  <2>6. Cardinality(Lower(x)) \in Nat /\ Cardinality(Lower(y)) \in Nat
    BY <1>3
  <2>7. QED
    BY <1>5, <2>5, <2>6
<1>8. IsFiniteSet(1 .. size) /\ Cardinality(1 .. size) = size
  BY <1>2, FS_Interval
<1> HIDE DEF rank
<1>9. rank \in Injection(S, 1 .. size)
  BY <1>6, <1>7 DEF Injection, IsInjective
<1>10. rank \in Surjection(S, 1 .. size)
  BY <1>8, <1>9, FS_Injection
<1>11. ASSUME NEW i \in 1 .. size
       PROVE  \E x \in S : RankOf(S, K, x) = i
  <2>1. PICK x \in S : rank[x] = i
    BY <1>10 DEF Surjection
  <2>2. QED
    BY <2>1 DEF rank
<1>12. QED
  BY <1>11

\* Candidates with their scores.
Scored(S) ==
    /\ IsFiniteSet(S)
    /\ \A x \in S : x.hash \in Block /\ x.score \in Int
    /\ \A x, y \in S : x.hash = y.hash => x = y

(* The list holds nothing but what was to be ranked.                       *)
LEMMA ByScoreIn ==
    ASSUME NEW S, Scored(S)
    PROVE  ByScore(S) \in Seq(S) /\ Len(ByScore(S)) = Cardinality(S)
<1> DEFINE K == [y \in S |-> <<-y.score, -Depth(y.hash), Rank[y.hash]>>]
           size == Cardinality(S)
<1>1. size \in Nat
  BY FS_CardinalityType DEF Scored
<1>2. \A x \in S : x.hash \in Block /\ x.score \in Int /\ Depth(x.hash) \in Nat /\ Rank[x.hash] \in Nat
  <2>1. \A b \in Block : Depth(b) \in Nat
    BY ChainFacts DEF Node
  <2>2. \A b \in Block : Rank[b] \in Nat
    BY SimulatorAssumption DEF Injection
  <2>3. QED
    BY <2>1, <2>2 DEF Scored
<1>3. K \in [S -> [1 .. 3 -> Int]]
  <2>1. \A x \in S : /\ -x.score \in Int /\ -Depth(x.hash) \in Int /\ Rank[x.hash] \in Int
    BY <1>2
  <2>2. QED
    BY <2>1
<1>4. \A x, y \in S : K[x] = K[y] => x = y
  <2>1. TAKE x, y \in S
  <2>2. HAVE K[x] = K[y]
  <2>3. Rank[x.hash] = Rank[y.hash]
    BY <2>2
  <2>4. x.hash = y.hash
    BY <1>2, <2>3, SimulatorAssumption DEF Injection, IsInjective
  <2>5. QED
    BY <2>4 DEF Scored
<1>5. \A x \in S : RankIn(S, x) = RankOf(S, K, x)
  BY DEF RankIn, RankOf
<1> HIDE DEF K
<1>6. \A i \in 1 .. size : \E x \in S : RankIn(S, x) = i
  <2>1. Keyed(S, 3, K) /\ IsFiniteSet(S)
    BY <1>3, <1>4 DEF Keyed, Scored
  <2>2. QED
    BY <1>5, <2>1, RanksOnto
<1>7. ByScore(S) = [i \in 1 .. size |-> CHOOSE x \in S : RankIn(S, x) = i]
  BY DEF ByScore
<1>8. \A i \in 1 .. size : (CHOOSE x \in S : RankIn(S, x) = i) \in S
  BY <1>6
<1>9. ByScore(S) \in [1 .. size -> S]
  BY <1>7, <1>8
<1>10. QED
  BY <1>1, <1>9, SeqDef, LenProperties

-----------------------------------------------------------------------------
(* Candidates *)

(* What the parameters of the loop are.                                    *)
LEMMA LoopFacts ==
    /\ TriggerEnd \in Nat /\ TopK \in Nat /\ PageBytes \in Nat /\ Rate \in Nat /\ Burst \in Nat
    /\ Period \in Nat /\ Period > 0 /\ Phase \in Nat /\ Quantile \in 0 .. 100
    /\ Decay \in [0 .. TriggerEnd -> Nat] /\ MaxActions \in Nat /\ Fanout \in {1, 2}
    /\ TaskWeight \in [{Depth(n) : n \in Block} -> Nat]
    /\ \A m \in Mode : m.strategy \in {"PERSIST", "RECENCY", "COST_AWARE"}
BY SimulatorAssumption

(* A sum of numbers over a finite set is a number.                         *)
LEMMA SumOverNat ==
    ASSUME NEW S, IsFiniteSet(S), NEW F \in [S -> Nat]
    PROVE  SumFunction(F) \in Nat
<1>1. DOMAIN F = S /\ \A x \in S : F[x] \in Nat
  OBVIOUS
<1>2. SumFunctionOnSet(F, S) \in Nat
  BY <1>1, SumType
<1>3. QED
  BY <1>1, <1>2 DEF SumFunction

(* Requests that have come, with their path and the time they came.        *)
LEMMA ArrivedFacts ==
    ASSUME NEW w, NEW h, NodeInv(w, h)
    PROVE  /\ Arrived(w) \subseteq Request /\ IsFiniteSet(Arrived(w))
           /\ \A r \in Arrived(w) : /\ w.runs[r].path \in Block /\ w.runs[r].arrival \in Nat
                                    /\ w.runs[r].arrival <= w.now
<1>1. w.runs \in [Request -> RunRecord] /\ \A r \in Request : LifeOf(w, r)
  BY Parts DEF NodeInv, Lives
<1>2. Arrived(w) \subseteq Request
  BY DEF Arrived
<1>3. IsFiniteSet(Arrived(w))
  BY <1>2, SizeAssumption, FS_Subset
<1>4. ASSUME NEW r \in Arrived(w)
      PROVE  w.runs[r].path \in Block /\ w.runs[r].arrival \in Nat /\ w.runs[r].arrival <= w.now
  <2>1. r \in Request /\ w.runs[r].state # "NONE"
    BY DEF Arrived
  <2>2. w.runs[r].arrival \in Nat
    BY <1>1, <2>1 DEF RunRecord
  <2>3. QED
    BY <1>1, <2>1, <2>2 DEF LifeOf
<1>5. QED
  BY <1>2, <1>3, <1>4

(* Candidates are pages.                                                   *)
LEMMA CandidatesIn ==
    ASSUME NEW w, NEW h, NodeInv(w, h)
    PROVE  Candidates(w) \subseteq Block /\ IsFiniteSet(Candidates(w))
<1>1. Seen(w) \subseteq Block
  BY ArrivedFacts DEF Seen
<1>2. KnownPages(w) \subseteq Block
  BY <1>1, ChainFacts DEF KnownPages, Node
<1>3. Candidates(w) \subseteq Block
  BY <1>1, <1>2 DEF Candidates
<1>4. QED
  BY <1>3, BlockAssumption, FS_Subset

(* By each of the strategies a score is a number.                          *)
LEMMA ScoreNat ==
    ASSUME NEW w, NEW h, NodeInv(w, h), mode \in Mode, w.now <= TriggerEnd, NEW n
    PROVE  Score(w, n) \in Nat
<1>1. /\ Arrived(w) \subseteq Request /\ IsFiniteSet(Arrived(w))
      /\ \A r \in Arrived(w) : /\ w.runs[r].path \in Block /\ w.runs[r].arrival \in Nat
                               /\ w.runs[r].arrival <= w.now
  BY ArrivedFacts
<1>2. Demand(w, n) \subseteq Arrived(w) /\ Recent(w, n) \subseteq Arrived(w)
  BY DEF Demand, Recent
<1>3. IsFiniteSet(Demand(w, n)) /\ IsFiniteSet(Recent(w, n))
  BY <1>1, <1>2, FS_Subset
<1>4. Persistence(w, n) \in Nat
  BY <1>3, FS_CardinalityType DEF Persistence
<1>5. Recency(w, n) \in Nat
  <2> DEFINE F == [r \in Demand(w, n) |-> Decay[w.now - w.runs[r].arrival]]
  <2>1. \A r \in Demand(w, n) : Decay[w.now - w.runs[r].arrival] \in Nat
    <3>1. TAKE r \in Demand(w, n)
    <3>2. w.runs[r].arrival \in Nat /\ w.runs[r].arrival <= w.now
      BY <1>1, <1>2
    <3>3. w.now \in Nat
      BY Parts
    <3>4. w.now - w.runs[r].arrival \in 0 .. TriggerEnd
      BY <3>2, <3>3, LoopFacts
    <3>5. QED
      BY <3>4, LoopFacts
  <2>2. F \in [Demand(w, n) -> Nat]
    BY <2>1
  <2> HIDE DEF F
  <2>3. SumFunction(F) \in Nat
    BY <1>3, <2>2, SumOverNat
  <2>4. QED
    BY <2>3 DEF Recency, F
<1>6. Value(w, n) \in Nat
  <2> DEFINE F == [r \in Recent(w, n) |-> TaskWeight[Depth(w.runs[r].path)]]
  <2>1. \A r \in Recent(w, n) : TaskWeight[Depth(w.runs[r].path)] \in Nat
    <3>1. TAKE r \in Recent(w, n)
    <3>2. Depth(w.runs[r].path) \in {Depth(b) : b \in Block}
      BY <1>1, <1>2
    <3>3. QED
      BY <3>2, LoopFacts
  <2>2. F \in [Recent(w, n) -> Nat]
    BY <2>1
  <2> HIDE DEF F
  <2>3. SumFunction(F) \in Nat
    BY <1>3, <2>2, SumOverNat
  <2>4. QED
    BY <2>3 DEF Value, F
<1>7. QED
  BY <1>4, <1>5, <1>6, LoopFacts DEF Score

(* The smaller of two numbers is one of them.                              *)
LEMMA MinOfTwo ==
    ASSUME NEW a \in Int, NEW b \in Int
    PROVE  Min({a, b}) \in {a, b} /\ Min({a, b}) <= a /\ Min({a, b}) <= b
<1>1. \E x \in {a, b} : \A y \in {a, b} : x <= y
  OBVIOUS
<1>2. QED
  BY <1>1 DEF Min

\* A list of candidates.
Listed(w, list) == Len(list) \in Nat /\ \A i \in 1 .. Len(list) : list[i].hash \in Block

(* The shortlist of a tick is a list of pages.                             *)
LEMMA RankedIn ==
    ASSUME NEW w, NEW h, NodeInv(w, h), mode \in Mode, w.now <= TriggerEnd
    PROVE  Listed(w, Ranked(w))
<1> DEFINE scored == {[hash |-> n, score |-> Score(w, n)] : n \in Candidates(w)}
           positive == {x \in scored : x.score > 0 /\ Sources(w, x.hash) \notin {{}, Pod}}
           all == ByScore(positive)
           threshold == Percentile([x \in positive |-> x.score], Quantile)
           high == {x \in positive : 100 * x.score >= threshold}
<1>1. Ranked(w) = IF mode.strategy = "RECENCY" THEN ByScore(high)
                  ELSE SubSeq(all, 1, Min({TopK, Len(all)}))
  BY DEF Ranked
<1>2. Scored(scored)
  <2> DEFINE F == [n \in Candidates(w) |-> [hash |-> n, score |-> Score(w, n)]]
  <2>1. Candidates(w) \subseteq Block /\ IsFiniteSet(Candidates(w))
    BY CandidatesIn
  <2>2. IsFiniteSet({F[n] : n \in Candidates(w)})
    <3> HIDE DEF F
    <3>1. QED
      BY <2>1, ImageFinite
  <2>3. scored = {F[n] : n \in Candidates(w)}
    OBVIOUS
  <2>4. \A n : Score(w, n) \in Nat
    BY ScoreNat
  <2>5. QED
    BY <2>1, <2>2, <2>3, <2>4 DEF Scored
<1> HIDE DEF threshold
<1>3. Scored(positive) /\ Scored(high)
  <2>1. positive \subseteq scored /\ high \subseteq scored
    OBVIOUS
  <2> HIDE DEF scored, positive, high
  <2>2. IsFiniteSet(positive) /\ IsFiniteSet(high)
    BY <1>2, <2>1, FS_Subset DEF Scored
  <2>3. QED
    BY <1>2, <2>1, <2>2 DEF Scored
<1> HIDE DEF scored, positive, high
<1>4. ASSUME NEW S, Scored(S)
      PROVE  /\ Len(ByScore(S)) \in Nat /\ ByScore(S) \in Seq(S)
             /\ \A i \in 1 .. Len(ByScore(S)) : ByScore(S)[i].hash \in Block
  <2>1. ByScore(S) \in Seq(S)
    BY <1>4, ByScoreIn
  <2>2. Len(ByScore(S)) \in Nat /\ \A i \in 1 .. Len(ByScore(S)) : ByScore(S)[i] \in S
    BY <2>1, LenProperties, ElementOfSeq
  <2>3. QED
    BY <1>4, <2>1, <2>2 DEF Scored
<1>5. CASE mode.strategy = "RECENCY"
  BY <1>1, <1>3, <1>4, <1>5 DEF Listed
<1>6. CASE mode.strategy # "RECENCY"
  <2> DEFINE k == Min({TopK, Len(all)})
             cut == SubSeq(all, 1, k)
  <2>1. /\ Len(all) \in Nat /\ all \in Seq(positive)
        /\ \A i \in 1 .. Len(all) : all[i].hash \in Block
    BY <1>3, <1>4
  <2> HIDE DEF all
  <2>2. k \in Nat /\ k <= Len(all)
    <3>1. TopK \in Nat /\ Len(all) \in Nat /\ TopK \in Int /\ Len(all) \in Int
      BY <2>1, LoopFacts
    <3>2. Min({TopK, Len(all)}) \in {TopK, Len(all)} /\ Min({TopK, Len(all)}) <= Len(all)
      BY <3>1, MinOfTwo
    <3>3. QED
      BY <3>1, <3>2
  <2> HIDE DEF k
  <2>3. Len(cut) = k /\ \A i \in 1 .. k : cut[i] = all[i]
    BY <2>1, <2>2, SubSeqProperties
  <2>4. Ranked(w) = cut
    BY <1>1, <1>6 DEF k, all
  <2>5. QED
    BY <2>1, <2>2, <2>3, <2>4 DEF Listed
<1>7. QED
  BY <1>5, <1>6

-----------------------------------------------------------------------------
(* The budget *)

Cost(w, k) == PageBytes * Depth(w.copies[k].path)

\* The bytes of the copies i to j.
Spent(w, i, j) == SumFunction([k \in i .. j |-> Cost(w, k)])

\* The copies of any interval fit what the bucket held and gained.
Within(w) ==
    \A i, j \in DOMAIN w.copies :
        i <= j => Spent(w, i, j) <= Burst + Rate * (w.copies[j].start - w.copies[i].start)

\* Neither does what could be sent next.
Thrifty(w) ==
    /\ w.tokens \in Nat /\ w.tokens <= Burst /\ w.refilled <= w.now
    /\ \A i \in DOMAIN w.copies :
          Spent(w, i, Len(w.copies)) + w.tokens <= Burst + Rate * (w.refilled - w.copies[i].start)
    /\ Within(w)

(* What is spent is a number.                                              *)
LEMMA SpentNat ==
    ASSUME NEW w \in World, NEW i \in Int, NEW j \in Int, i .. j \subseteq DOMAIN w.copies
    PROVE  /\ \A k \in i .. j : Cost(w, k) \in Nat
           /\ Spent(w, i, j) \in Nat
<1>1. \A k \in DOMAIN w.copies : w.copies[k].path \in Node
  <2>1. w.copies \in Seq(CopyRecord)
    BY DEF World
  <2>2. \A k \in DOMAIN w.copies : w.copies[k] \in CopyRecord
    BY <2>1, ElementOfSeq
  <2>3. QED
    BY <2>2 DEF CopyRecord
<1>2. \A k \in i .. j : Cost(w, k) \in Nat
  <2>1. \A n \in Node : Depth(n) \in Nat
    BY ChainFacts
  <2>2. QED
    BY <1>1, <2>1, LoopFacts DEF Cost
<1>3. IsFiniteSet(i .. j)
  BY FS_Interval
<1> DEFINE S == i .. j
           F == [k \in S |-> Cost(w, k)]
<1>4. F \in [S -> Nat]
  BY <1>2
<1> HIDE DEF F
<1>5. SumFunction(F) \in Nat
  BY <1>3, <1>4, SumOverNat
<1>6. QED
  BY <1>2, <1>5 DEF Spent, F

(* Who leaves paths and starts of the copies alone spends as much.         *)
LEMMA SpentSame ==
    ASSUME NEW w, NEW v, SamePlans(w, v), NEW i, NEW j, i .. j \subseteq DOMAIN w.copies
    PROVE  Spent(v, i, j) = Spent(w, i, j)
<1>1. \A k \in i .. j : Cost(v, k) = Cost(w, k)
  BY DEF SamePlans, Cost
<1>2. [k \in i .. j |-> Cost(v, k)] = [k \in i .. j |-> Cost(w, k)]
  BY <1>1
<1>3. QED
  BY <1>2 DEF Spent

(* The numbers of copies.                                                  *)
LEMMA CopyNumbers ==
    ASSUME NEW w \in World
    PROVE  /\ DOMAIN w.copies = 1 .. Len(w.copies) /\ Len(w.copies) \in Nat
           /\ DOMAIN w.copies \subseteq Int
           /\ \A i \in DOMAIN w.copies :
                 /\ w.copies[i] \in CopyRecord /\ w.copies[i].start \in Nat
                 /\ w.copies[i].path \in Node
                 /\ \A j \in DOMAIN w.copies : i .. j \subseteq DOMAIN w.copies
<1>1. w.copies \in Seq(CopyRecord)
  BY DEF World
<1>2. DOMAIN w.copies = 1 .. Len(w.copies) /\ Len(w.copies) \in Nat
  BY <1>1, LenProperties
<1>3. \A i \in DOMAIN w.copies : w.copies[i] \in CopyRecord
  BY <1>1, ElementOfSeq
<1>4. \A i \in DOMAIN w.copies : w.copies[i].start \in Nat /\ w.copies[i].path \in Node
  BY <1>3 DEF CopyRecord
<1>5. \A i, j \in DOMAIN w.copies : i .. j \subseteq DOMAIN w.copies
  BY <1>2
<1>6. QED
  BY <1>2, <1>3, <1>4, <1>5

(* As long as nothing is sent the budget holds.                            *)
LEMMA WithinSame ==
    ASSUME NEW w \in World, NEW v, SamePlans(w, v), Within(w)
    PROVE  Within(v)
<1>1. SUFFICES ASSUME NEW i \in DOMAIN v.copies, NEW j \in DOMAIN v.copies, i <= j
               PROVE  Spent(v, i, j) <= Burst + Rate * (v.copies[j].start - v.copies[i].start)
  BY DEF Within
<1>2. i \in DOMAIN w.copies /\ j \in DOMAIN w.copies
  BY DEF SamePlans
<1>3. Spent(v, i, j) = Spent(w, i, j)
  BY <1>2, CopyNumbers, SpentSame
<1>4. v.copies[j].start = w.copies[j].start /\ v.copies[i].start = w.copies[i].start
  BY <1>2 DEF SamePlans
<1>5. Spent(w, i, j) <= Burst + Rate * (w.copies[j].start - w.copies[i].start)
  BY <1>1, <1>2 DEF Within
<1>6. QED
  BY <1>3, <1>4, <1>5

\* Nothing is sent, and the bucket is as it was.
Paid(w, v) == SamePlans(w, v) /\ v.tokens = w.tokens /\ v.refilled = w.refilled

(* Time may pass meanwhile.                                                *)
LEMMA ThriftySame ==
    ASSUME NEW w \in World, NEW v \in World, Thrifty(w), Paid(w, v), v.now >= w.now
    PROVE  Thrifty(v)
<1>1. SamePlans(w, v) /\ v.tokens = w.tokens /\ v.refilled = w.refilled
  BY DEF Paid
<1>2. Len(v.copies) = Len(w.copies)
  BY <1>1, CopyNumbers DEF SamePlans, World
<1>3. ASSUME NEW i \in DOMAIN v.copies
      PROVE  Spent(v, i, Len(v.copies)) + v.tokens <= Burst + Rate * (v.refilled - v.copies[i].start)
  <2>1. i \in DOMAIN w.copies /\ Len(w.copies) \in DOMAIN w.copies
    BY <1>1, CopyNumbers DEF SamePlans
  <2>2. Spent(v, i, Len(w.copies)) = Spent(w, i, Len(w.copies))
    BY <1>1, <2>1, CopyNumbers, SpentSame
  <2>3. v.copies[i].start = w.copies[i].start
    BY <1>1, <2>1 DEF SamePlans
  <2>4. Spent(w, i, Len(w.copies)) + w.tokens <= Burst + Rate * (w.refilled - w.copies[i].start)
    BY <2>1 DEF Thrifty
  <2>5. QED
    BY <1>1, <1>2, <2>2, <2>3, <2>4
<1>4. v.tokens \in Nat /\ v.tokens <= Burst
  BY <1>1 DEF Thrifty
<1>5. v.refilled <= v.now
  <2>1. w.now \in Nat /\ v.now \in Nat /\ w.refilled \in Nat
    BY DEF World
  <2>2. w.refilled <= w.now
    BY DEF Thrifty
  <2>3. QED
    BY <1>1, <2>1, <2>2
<1>6. Within(v)
  BY <1>1, WithinSame DEF Thrifty
<1>7. QED
  BY <1>3, <1>4, <1>5, <1>6 DEF Thrifty

-----------------------------------------------------------------------------
(* The bucket is filled *)

(* No page comes and no request moves.                                     *)
Browsed(w, v) ==
    /\ v.now = w.now /\ v.gone = w.gone /\ v.replicas = w.replicas /\ v.runs = w.runs
    /\ v.gate = w.gate
    /\ \A p \in Pod : Pages(v, p) \subseteq Pages(w, p)

(* One browsing step after another.                                        *)
LEMMA BrowsedTwice ==
    ASSUME NEW a, NEW b, NEW c, Browsed(a, b), Browsed(b, c)
    PROVE  Browsed(a, c)
BY DEF Browsed

(* A browsing step is loyal.                                               *)
LEMMA BrowsedLoyal ==
    ASSUME NEW w, NEW v, Browsed(w, v)
    PROVE  Loyal(w, v, 0) /\ Unmoved(w, v)
<1>1. Loyal(w, v, 0)
  BY DEF Browsed, Loyal
<1>2. Unmoved(w, v)
  BY DEF Browsed, Unmoved
<1>3. QED
  BY <1>1, <1>2

\* The tokens are others, and since now.
Filled(w, v, tokens, refilled) == v = [w EXCEPT !.tokens = tokens, !.refilled = refilled]

(* The bucket is filled.                                                   *)
LEMMA FilledFacts ==
    ASSUME NEW w \in World, NEW tokens \in Int, NEW refilled \in Nat,
           NEW v, Filled(w, v, tokens, refilled)
    PROVE  /\ v \in World /\ v.tokens = tokens /\ v.refilled = refilled
           /\ v.now = w.now /\ v.pods = w.pods /\ v.runs = w.runs /\ v.gate = w.gate
           /\ v.events = w.events /\ v.copies = w.copies /\ v.outcome = w.outcome
           /\ v.gone = w.gone /\ v.replicas = w.replicas /\ v.nextTransfer = w.nextTransfer
           /\ v.stats = w.stats
<1>1. DOMAIN w = Fields
  BY DEF World, Fields
<1>2. QED
  BY <1>1 DEF Filled, World

(* After the refill no less was ever left than could have been gained.     *)
LEMMA RefillOk ==
    ASSUME NEW w, NEW h, NodeInv(w, h), Thrifty(w), NEW v, v = Refill(w)
    PROVE  /\ NodeInv(v, h) /\ Thrifty(v) /\ Browsed(w, v) /\ v.refilled = v.now
           /\ v.pods = w.pods /\ v.nextTransfer = w.nextTransfer /\ v.copies = w.copies
<1> DEFINE gain == Rate * (w.now - w.refilled)
           tokens == Min({Burst, w.tokens + gain})
<1>1. w \in World /\ w.now \in Nat /\ w.refilled \in Nat /\ w.tokens \in Nat /\ w.tokens <= Burst
      /\ w.refilled <= w.now
  BY Parts DEF World, Thrifty
<1>2. gain \in Nat
  <2>1. w.now - w.refilled \in Nat
    BY <1>1
  <2>2. \A a, b \in Nat : a * b \in Nat
    OBVIOUS
  <2>3. QED
    BY <2>1, <2>2, LoopFacts
<1>3. Filled(w, v, tokens, w.now)
  BY DEF Refill, Filled
<1>4. ASSUME NEW a \in Nat
      PROVE  Rate * (w.now - a) = Rate * (w.refilled - a) + gain
  <2>1. Rate \in Int /\ w.now \in Int /\ w.refilled \in Int /\ a \in Int
    BY <1>1, LoopFacts
  <2>2. \A r, x, y, z \in Int : r * (x - z) = r * (y - z) + r * (x - y)
    OBVIOUS
  <2>3. QED
    BY <2>1, <2>2
<1> HIDE DEF gain
<1>5. tokens \in Nat /\ tokens <= Burst /\ tokens <= w.tokens + gain
  <2>1. Burst \in Int /\ Burst \in Nat /\ w.tokens + gain \in Int /\ w.tokens + gain \in Nat
    BY <1>1, <1>2, LoopFacts
  <2>2. /\ Min({Burst, w.tokens + gain}) \in {Burst, w.tokens + gain}
        /\ Min({Burst, w.tokens + gain}) <= Burst /\ Min({Burst, w.tokens + gain}) <= w.tokens + gain
    BY <2>1, MinOfTwo
  <2>3. QED
    BY <2>1, <2>2
<1> HIDE DEF tokens
<1>6. /\ v \in World /\ v.tokens = tokens /\ v.refilled = w.now
      /\ v.now = w.now /\ v.pods = w.pods /\ v.runs = w.runs /\ v.gate = w.gate
      /\ v.events = w.events /\ v.copies = w.copies /\ v.outcome = w.outcome
      /\ v.gone = w.gone /\ v.replicas = w.replicas /\ v.nextTransfer = w.nextTransfer
  <2>1. tokens \in Int
    BY <1>5
  <2>2. QED
    BY <1>1, <1>3, <2>1, FilledFacts
<1>7. NodeInv(v, h)
  BY <1>6, NumbersOk
<1>8. Browsed(w, v)
  BY <1>6 DEF Browsed, Pages
<1>9. SamePlans(w, v)
  BY <1>6 DEF SamePlans
<1>10. ASSUME NEW i \in DOMAIN v.copies
       PROVE  Spent(v, i, Len(v.copies)) + v.tokens <= Burst + Rate * (v.refilled - v.copies[i].start)
  <2> DEFINE L == Len(w.copies)
             x == w.copies[i].start
  <2>1. i \in DOMAIN w.copies /\ L \in DOMAIN w.copies /\ x \in Nat /\ i .. L \subseteq DOMAIN w.copies
        /\ i \in Int /\ L \in Int
    BY <1>1, <1>6, CopyNumbers
  <2>2. Spent(v, i, L) = Spent(w, i, L)
    BY <1>9, <2>1, SpentSame
  <2>3. Spent(w, i, L) \in Nat
    BY <1>1, <2>1, SpentNat
  <2>4. Spent(w, i, L) + w.tokens <= Burst + Rate * (w.refilled - x)
    BY <2>1 DEF Thrifty
  <2>5. Rate * (w.now - x) = Rate * (w.refilled - x) + gain
    BY <1>4, <2>1
  <2>6. Rate * (w.refilled - x) \in Int
    BY SMTT(30), <1>1, <2>1, LoopFacts
  <2>7. v.copies[i].start = x /\ Len(v.copies) = L
    BY <1>6
  <2> HIDE DEF L, x
  <2>8. Spent(w, i, L) + tokens <= Burst + (Rate * (w.refilled - x) + gain)
    BY SMTT(30), <1>1, <1>2, <1>5, <2>3, <2>4, <2>6, LoopFacts
  <2>9. QED
    BY <1>6, <2>2, <2>5, <2>7, <2>8
<1>11. Within(v)
  BY <1>1, <1>9, WithinSame DEF Thrifty
<1>12. Thrifty(v)
  <2>1. v.tokens \in Nat /\ v.tokens <= Burst
    BY <1>5, <1>6
  <2>2. v.refilled <= v.now
    BY <1>1, <1>6
  <2>3. QED
    BY <1>10, <1>11, <2>1, <2>2 DEF Thrifty
<1>13. QED
  BY <1>6, <1>7, <1>8, <1>12

-----------------------------------------------------------------------------
(* A copy takes off *)

\* The fields a handler needs are there, and a run that was over is over.
Sound(w, v) == Fields \subseteq DOMAIN v /\ v.outcome \in {w.outcome, "assertion"}

(* One step after another.                                                 *)
LEMMA SoundTwice ==
    ASSUME NEW a, NEW b, NEW c, Sound(a, b), Sound(b, c)
    PROVE  Sound(a, c)
BY DEF Sound

(* What keeps the books can only end the run.                              *)
LEMMA KeptSound ==
    ASSUME NEW w, NEW v, NEW r, Kept(w, v, r), Fields \subseteq DOMAIN w
    PROVE  Sound(w, v)
BY DEF Kept, Books, Sound

\* The next transfer has another number.
Stamped(w, v) == v = [w EXCEPT !.nextTransfer = w.nextTransfer + 1]

\* The tokens are spent, the copy is in the list, and its end is an event.
Launched(u, v, tokens, copies, events) ==
    v = [u EXCEPT !.tokens = tokens, !.copies = copies, !.events = events]

(* A number is used up.                                                    *)
LEMMA StampedFacts ==
    ASSUME NEW w \in World, NEW v, Stamped(w, v)
    PROVE  v \in World /\ v.nextTransfer = w.nextTransfer + 1 /\ v.now = w.now /\ v.pods = w.pods
           /\ v.runs = w.runs /\ v.gate = w.gate /\ v.events = w.events /\ v.copies = w.copies
           /\ v.tokens = w.tokens /\ v.refilled = w.refilled /\ v.replicas = w.replicas
           /\ v.gone = w.gone /\ v.outcome = w.outcome
<1>1. w.nextTransfer + 1 \in Nat
  BY DEF World
<1>2. QED
  BY <1>1 DEF Stamped, World

(* A copy is on its way, and its end is scheduled.                         *)
LEMMA LaunchedFacts ==
    ASSUME NEW u \in World, NEW tokens \in Int, NEW copies \in Seq(CopyRecord),
           NEW events \in Seq(EventRecord), NEW v, Launched(u, v, tokens, copies, events)
    PROVE  /\ v \in World /\ v.tokens = tokens /\ v.copies = copies /\ v.events = events
           /\ v.now = u.now /\ v.pods = u.pods /\ v.runs = u.runs /\ v.gate = u.gate
           /\ v.refilled = u.refilled /\ v.replicas = u.replicas /\ v.gone = u.gone
           /\ v.outcome = u.outcome
BY DEF Launched, World

\* Copies and events with one more each.
Extended(w, v, x, ready) ==
    /\ v.copies = Append(w.copies, x)
    /\ v.events = Append(w.events, [time |-> ready, kind |-> Copying, id |-> Len(w.copies) + 1])

\* What the new copy is.
CopyOf(w, x, id, s, t, m) ==
    /\ x \in CopyRecord /\ x.id = id /\ x.source = s /\ x.target = t /\ x.path = m
    /\ x.start = w.now /\ x.active

(* The new copy has the next number, and the others theirs.                *)
LEMMA ExtendedCopies ==
    ASSUME NEW w \in World, NEW x \in CopyRecord, NEW v, v.copies = Append(w.copies, x)
    PROVE  LET L == Len(w.copies)
           IN  /\ v.copies \in Seq(CopyRecord) /\ L \in Nat /\ Len(v.copies) = L + 1
               /\ DOMAIN w.copies = 1 .. L /\ DOMAIN v.copies = 1 .. L + 1
               /\ v.copies[L + 1] = x
               /\ \A i \in DOMAIN w.copies : v.copies[i] = w.copies[i]
<1>1. w.copies \in Seq(CopyRecord)
  BY DEF World
<1>2. QED
  BY <1>1, InAppend

(* The keys of the transfers, with that of the new copy.                   *)
LEMMA ExtendedKeys ==
    ASSUME NEW w \in World, NEW x \in CopyRecord, x.active, NEW v, v.copies = Append(w.copies, x),
           v.runs = w.runs
    PROVE  LET k0 == -(Len(w.copies) + 1)
           IN  /\ k0 \notin Keys(w, Absent) /\ Keys(v, Absent) = Keys(w, Absent) \cup {k0}
               /\ \A k \in Keys(w, Absent) : SameKey(w, v, k)
               /\ IdOf(v, k0) = x.id /\ SourceOf(v, k0) = x.source /\ GoalOf(v, k0) = x.target
               /\ PathOf(v, k0) = x.path
<1> DEFINE L == Len(w.copies)
           k0 == -(L + 1)
<1>1. /\ L \in Nat /\ DOMAIN w.copies = 1 .. L /\ DOMAIN v.copies = 1 .. L + 1
      /\ v.copies[L + 1] = x /\ \A i \in DOMAIN w.copies : v.copies[i] = w.copies[i]
  BY ExtendedCopies
<1>2. k0 \in Int /\ -k0 = L + 1 /\ ~(k0 > 0) /\ k0 \notin Request /\ L + 1 \notin DOMAIN w.copies
      /\ \A k \in Int : -k = L + 1 => k = k0
  BY <1>1, RequestFacts
<1> HIDE DEF L, k0
<1>3. k0 \notin Keys(w, Absent)
  BY <1>2 DEF Keys
<1>4. Keys(v, Absent) = Keys(w, Absent) \cup {k0}
  <2>1. \A i : i \in DOMAIN v.copies <=> i \in DOMAIN w.copies \/ i = L + 1
    BY <1>1
  <2>2. \A k \in Int : (-k \in DOMAIN v.copies /\ v.copies[-k].active)
                         <=> (-k \in DOMAIN w.copies /\ w.copies[-k].active) \/ k = k0
    BY <1>1, <1>2, <2>1
  <2>3. QED
    BY <1>2, <2>2 DEF Keys
<1>5. ASSUME NEW k \in Keys(w, Absent)
      PROVE  SameKey(w, v, k)
  <2>1. CASE k > 0
    BY <2>1 DEF SameKey, IdOf, SourceOf, GoalOf, PathOf
  <2>2. CASE ~(k > 0)
    <3>1. -k \in DOMAIN w.copies
      BY <2>2, KeyFacts
    <3>2. v.copies[-k] = w.copies[-k]
      BY <1>1, <3>1
    <3>3. QED
      BY <2>2, <3>2 DEF SameKey, IdOf, SourceOf, GoalOf, PathOf
  <2>3. QED
    BY <2>1, <2>2
<1>6. /\ IdOf(v, k0) = x.id /\ SourceOf(v, k0) = x.source /\ GoalOf(v, k0) = x.target
      /\ PathOf(v, k0) = x.path
  BY <1>1, <1>2 DEF IdOf, SourceOf, GoalOf, PathOf
<1>7. QED
  BY <1>3, <1>4, <1>5, <1>6 DEF k0, L

(* Every copy on the wire has one event that ends it.                      *)
LEMMA ExtendedPosted ==
    ASSUME NEW w \in World, Posted(w), NEW x \in CopyRecord, x.active, NEW ready \in Nat,
           ready >= w.now, NEW v, Extended(w, v, x, ready), v.now = w.now,
           \A q \in Request : v.runs[q].pod = w.runs[q].pod
    PROVE  v.events \in Seq(EventRecord) /\ Posted(v)
<1> DEFINE L == Len(w.copies)
           n == Len(w.events)
           e == [time |-> ready, kind |-> Copying, id |-> L + 1]
<1>1. /\ L \in Nat /\ DOMAIN w.copies = 1 .. L /\ DOMAIN v.copies = 1 .. L + 1
      /\ v.copies[L + 1] = x /\ \A i \in DOMAIN w.copies : v.copies[i] = w.copies[i]
  BY ExtendedCopies DEF Extended
<1>2. e \in EventRecord
  BY <1>1 DEF EventRecord, Kinds, Copying
<1>3. e.time = ready /\ e.kind = Copying /\ e.id = L + 1
  OBVIOUS
<1>4. v.events = Append(w.events, e)
  BY DEF Extended
<1> HIDE DEF e
<1>5. /\ v.events \in Seq(EventRecord) /\ DOMAIN w.events = 1 .. n /\ n \in Nat
      /\ DOMAIN v.events = 1 .. n + 1 /\ v.events[n + 1] = e
      /\ \A i \in DOMAIN w.events : v.events[i] = w.events[i]
  <2>1. w.events \in Seq(EventRecord)
    BY DEF World
  <2>2. QED
    BY <1>2, <1>4, <2>1, InAppend
<1> HIDE DEF L, n
<1>6. \A i \in DOMAIN v.events : i \in DOMAIN w.events \/ i = n + 1
  BY <1>5
<1>7. ASSUME NEW i \in DOMAIN v.events
      PROVE  Ready(v, v.events[i])
  <2>1. CASE i \in DOMAIN w.events
    <3>1. Ready(w, w.events[i]) /\ v.events[i] = w.events[i]
      BY <1>5, <2>1 DEF Posted
    <3>2. \A j \in DOMAIN w.copies : j \in DOMAIN v.copies /\ v.copies[j] = w.copies[j]
      BY <1>1
    <3>3. QED
      BY <3>1, <3>2 DEF Ready
  <2>2. CASE i = n + 1
    <3>1. L + 1 \in DOMAIN v.copies /\ v.copies[L + 1].active
      BY <1>1
    <3>2. v.events[i] = e
      BY <1>5, <2>2
    <3>3. QED
      BY <1>3, <3>1, <3>2 DEF Ready
  <2>3. QED
    BY <1>6, <2>1, <2>2
<1>8. ASSUME NEW i \in DOMAIN w.events, w.events[i].kind = Copying
      PROVE  w.events[i].id # L + 1
  <2>1. w.events[i].id \in DOMAIN w.copies
    BY <1>8 DEF Posted, Ready
  <2>2. QED
    BY <1>1, <2>1
<1>9. ASSUME NEW i \in DOMAIN v.events, NEW j \in DOMAIN v.events,
             v.events[i].kind = Copying, v.events[j].kind = Copying, v.events[i].id = v.events[j].id
      PROVE  i = j
  <2>1. CASE i \in DOMAIN w.events /\ j \in DOMAIN w.events
    BY <1>5, <1>9, <2>1 DEF Posted
  <2>2. CASE i \in DOMAIN w.events /\ j = n + 1
    BY <1>3, <1>5, <1>8, <1>9, <2>2
  <2>3. CASE i = n + 1 /\ j \in DOMAIN w.events
    BY <1>3, <1>5, <1>8, <1>9, <2>3
  <2>4. QED
    BY <1>6, <2>1, <2>2, <2>3
<1>10. QED
  BY <1>5, <1>7, <1>9 DEF Posted

(* A copy more costs what it costs.                                        *)
LEMMA SpentMore ==
    ASSUME NEW w \in World, NEW x \in CopyRecord, NEW v, v.copies = Append(w.copies, x),
           NEW i \in 1 .. Len(w.copies) + 1
    PROVE  LET L == Len(w.copies)
           IN  /\ PageBytes * Depth(x.path) \in Nat /\ Spent(w, i, L) \in Nat
               /\ Spent(v, i, L + 1) = Spent(w, i, L) + PageBytes * Depth(x.path)
               /\ i = L + 1 => Spent(w, i, L) = 0
               /\ \A j \in 1 .. L : Spent(v, i, j) = Spent(w, i, j)
<1> DEFINE L == Len(w.copies)
           cost == PageBytes * Depth(x.path)
           S == i .. L
           F == [k \in S |-> Cost(w, k)]
           G == [k \in i .. L + 1 |-> Cost(v, k)]
<1>1. /\ L \in Nat /\ DOMAIN w.copies = 1 .. L /\ DOMAIN v.copies = 1 .. L + 1
      /\ v.copies[L + 1] = x /\ \A k \in DOMAIN w.copies : v.copies[k] = w.copies[k]
  BY ExtendedCopies
<1>2. i \in Int /\ i >= 1 /\ i <= L + 1
  BY <1>1
<1>3. cost \in Nat
  <2>1. x.path \in Node
    BY DEF CopyRecord
  <2>2. Depth(x.path) \in Nat
    BY <2>1, ChainFacts
  <2>3. \A a, b \in Nat : a * b \in Nat
    OBVIOUS
  <2>4. QED
    BY <2>2, <2>3, LoopFacts
<1>4. S \subseteq DOMAIN w.copies
  BY <1>1, <1>2
<1>5. Spent(w, i, L) \in Nat /\ \A k \in S : Cost(w, k) \in Nat
  BY <1>1, <1>2, <1>4, SpentNat
<1>6. \A k \in S : Cost(v, k) = Cost(w, k)
  BY <1>1, <1>4 DEF Cost
<1>7. Cost(v, L + 1) = cost
  BY <1>1 DEF Cost
<1>8. i .. L + 1 = S \cup {L + 1} /\ L + 1 \notin S /\ IsFiniteSet(S)
  <2>1. IsFiniteSet(S)
    BY <1>1, <1>2, FS_Interval
  <2>2. \A a, b \in Int : a <= b + 1 => a .. b + 1 = (a .. b) \cup {b + 1} /\ b + 1 \notin a .. b
    OBVIOUS
  <2>3. QED
    BY <1>1, <1>2, <2>1, <2>2
<1> HIDE DEF cost
<1>9. DOMAIN F = S /\ DOMAIN G = i .. L + 1 /\ G[L + 1] = cost
      /\ \A k \in S : F[k] \in Nat /\ G[k] \in Nat /\ G[k] = F[k]
  BY <1>5, <1>6, <1>7, <1>8
<1>10. Spent(w, i, L) = SumFunctionOnSet(F, S) /\ Spent(v, i, L + 1) = SumFunctionOnSet(G, S \cup {L + 1})
  BY <1>8, <1>9 DEF Spent, SumFunction
<1> HIDE DEF F, G, S, L
<1>11. SumFunctionOnSet(G, S \cup {L + 1}) = SumFunctionOnSet(G, S) + cost
  BY SMTT(30), <1>3, <1>8, <1>9, SumAdd
<1>12. SumFunctionOnSet(G, S) = SumFunctionOnSet(F, S)
  BY <1>8, <1>9, SumSame
<1>13. Spent(v, i, L + 1) = Spent(w, i, L) + cost
  BY <1>10, <1>11, <1>12
<1>14. i = L + 1 => Spent(w, i, L) = 0
  <2>1. i = L + 1 => S = {}
    BY <1>1 DEF S
  <2>2. S = {} => SumFunctionOnSet(F, S) = 0
    BY <1>8, SumStep
  <2>3. QED
    BY <1>10, <2>1, <2>2
<1>15. ASSUME NEW j \in 1 .. L
       PROVE  Spent(v, i, j) = Spent(w, i, j)
  <2>1. i .. j \subseteq DOMAIN w.copies
    BY <1>1, <1>2
  <2>2. \A k \in i .. j : Cost(v, k) = Cost(w, k)
    BY <1>1, <2>1 DEF Cost
  <2>3. [k \in i .. j |-> Cost(v, k)] = [k \in i .. j |-> Cost(w, k)]
    BY <2>2
  <2>4. QED
    BY <2>3 DEF Spent
<1>16. QED
  BY <1>3, <1>5, <1>13, <1>14, <1>15 DEF L, cost

(* What can be afforded keeps the budget.                                  *)
LEMMA SendingThrifty ==
    ASSUME NEW w \in World, Thrifty(w), w.refilled = w.now, NEW x \in CopyRecord, x.start = w.now,
           PageBytes * Depth(x.path) <= w.tokens, NEW v, v.copies = Append(w.copies, x),
           v.tokens = w.tokens - PageBytes * Depth(x.path), v.refilled = w.refilled, v.now = w.now
    PROVE  Thrifty(v)
<1> DEFINE L == Len(w.copies)
           cost == PageBytes * Depth(x.path)
<1>1. /\ L \in Nat /\ DOMAIN w.copies = 1 .. L /\ DOMAIN v.copies = 1 .. L + 1 /\ Len(v.copies) = L + 1
      /\ v.copies[L + 1] = x /\ \A k \in DOMAIN w.copies : v.copies[k] = w.copies[k]
  BY ExtendedCopies
<1>2. \A i \in 1 .. L + 1 :
         /\ cost \in Nat /\ Spent(w, i, L) \in Nat
         /\ Spent(v, i, L + 1) = Spent(w, i, L) + cost
         /\ i = L + 1 => Spent(w, i, L) = 0
         /\ \A j \in 1 .. L : Spent(v, i, j) = Spent(w, i, j)
  BY SpentMore
<1>3. w.tokens \in Nat /\ w.tokens <= Burst /\ Burst \in Nat /\ w.now \in Nat /\ cost <= w.tokens
      /\ v.tokens = w.tokens - cost /\ L + 1 \in 1 .. L + 1
  BY <1>1, LoopFacts DEF Thrifty, World
<1>4. cost \in Nat
  BY <1>2, <1>3
<1> HIDE DEF cost
<1>5. \A i \in 1 .. L : /\ v.copies[i].start = w.copies[i].start /\ w.copies[i].start \in Nat
                        /\ Rate * (w.now - w.copies[i].start) \in Int
  <2>1. TAKE i \in 1 .. L
  <2>2. v.copies[i].start = w.copies[i].start /\ w.copies[i].start \in Nat
    BY <1>1, CopyNumbers
  <2>3. w.now - w.copies[i].start \in Int
    BY <1>3, <2>2
  <2>4. \A a, b \in Int : a * b \in Int
    OBVIOUS
  <2>5. Rate \in Int
    BY LoopFacts
  <2>6. QED
    BY <2>2, <2>3, <2>4, <2>5
<1>6. v.copies[L + 1].start = w.now /\ Rate * (w.now - v.copies[L + 1].start) = 0
  <2>1. v.copies[L + 1].start = w.now
    BY <1>1
  <2>2. w.now - v.copies[L + 1].start = 0
    BY <1>3, <2>1
  <2>3. Rate * 0 = 0
    BY LoopFacts
  <2>4. QED
    BY <2>1, <2>2, <2>3
<1> DEFINE G(j) == Rate * (w.now - v.copies[j].start)
<1>7. G(L + 1) = 0 /\ \A i \in 1 .. L : G(i) \in Int
  BY <1>5, <1>6
<1> HIDE DEF G
<1>8. \A i \in 1 .. L : Spent(w, i, L) + w.tokens <= Burst + Rate * (w.now - w.copies[i].start)
  BY <1>1 DEF Thrifty
<1> HIDE DEF L
<1>9. ASSUME NEW i \in 1 .. L + 1
      PROVE  Spent(v, i, L + 1) + v.tokens <= Burst + Rate * (w.now - v.copies[i].start)
  <2>1. Spent(w, i, L) \in Nat /\ Spent(v, i, L + 1) = Spent(w, i, L) + cost
    BY <1>2
  <2>2. CASE i \in 1 .. L
    <3>1. Spent(v, i, L + 1) + v.tokens = Spent(w, i, L) + w.tokens
      BY <1>3, <1>4, <2>1
    <3>2. QED
      BY <1>5, <1>8, <2>2, <3>1
  <2>3. CASE i = L + 1
    <3>1. Spent(v, i, L + 1) + v.tokens = w.tokens
      BY <1>2, <1>3, <1>4, <2>1, <2>3
    <3>2. G(i) = 0
      BY <1>7, <2>3
    <3>3. Spent(v, i, L + 1) + v.tokens <= Burst + G(i)
      BY <1>3, <3>1, <3>2
    <3>4. QED
      BY <3>3 DEF G
  <2>4. QED
    BY <1>1, <2>2, <2>3
<1>10. Within(v)
  <2>1. SUFFICES ASSUME NEW i \in 1 .. L + 1, NEW j \in 1 .. L + 1, i <= j
                 PROVE  Spent(v, i, j) <= Burst + Rate * (v.copies[j].start - v.copies[i].start)
    BY <1>1 DEF Within
  <2>2. CASE j \in 1 .. L
    <3>1. i \in 1 .. L
      BY <1>1, <2>1, <2>2
    <3>2. Spent(v, i, j) = Spent(w, i, j)
      BY <1>2, <2>2
    <3>3. Spent(w, i, j) <= Burst + Rate * (w.copies[j].start - w.copies[i].start)
      BY <1>1, <2>1, <2>2, <3>1 DEF Thrifty, Within
    <3>4. QED
      BY <1>5, <2>2, <3>1, <3>2, <3>3
  <2>3. CASE j = L + 1
    <3>1. Spent(v, i, L + 1) + v.tokens <= Burst + Rate * (w.now - v.copies[i].start)
      BY <1>9
    <3>2. G(i) \in Int
      BY <1>1, <1>7
    <3>3. Spent(v, i, L + 1) \in Nat /\ v.tokens \in Nat
      <4>1. Spent(w, i, L) \in Nat /\ Spent(v, i, L + 1) = Spent(w, i, L) + cost
        BY <1>2
      <4>2. QED
        BY SMTT(30), <1>3, <1>4, <4>1
    <3>4. v.copies[j].start = w.now
      BY <1>6, <2>3
    <3>5. Spent(v, i, L + 1) + v.tokens <= Burst + G(i)
      BY <3>1 DEF G
    <3>6. Spent(v, i, L + 1) <= Burst + G(i)
      BY <1>3, <3>2, <3>3, <3>5
    <3>7. QED
      BY <2>3, <3>4, <3>6 DEF G
  <2>4. QED
    BY <1>1, <2>2, <2>3
<1>11. v.tokens \in Nat /\ v.tokens <= Burst
  BY <1>3, <1>4
<1>12. v.refilled <= v.now
  BY <1>3
<1>13. QED
  BY <1>1, <1>9, <1>10, <1>11, <1>12 DEF Thrifty

-----------------------------------------------------------------------------
(* StartCopy *)

\* The states v of StartCopy passes, and the copy x that is sent.
Sending(w, n, m, s, t, v, u0, u, x, sent) ==
    /\ Stamped(w, u0) /\ u = Reserve(u0, w.nextTransfer, s, t, m)
    /\ x = [id |-> w.nextTransfer, hash |-> n, path |-> m, source |-> s, target |-> t,
            start |-> w.now, ready |-> w.now + Wire(m), active |-> TRUE,
            score |-> Score(w, n), pages |-> {}, used |-> {},
            hits |-> 0, firstUse |-> Absent, lost |-> Absent]
    /\ Sound(w, u) /\ Sound(u, v) /\ Sound(u, sent)
    /\ sent = [u EXCEPT !.tokens = u.tokens - PageBytes * Depth(m), !.copies = Append(u.copies, x)]
    /\ sent.copies = Append(u.copies, x)
    /\ v = Schedule(sent, w.now + Wire(m), Copying, Len(sent.copies))

(* The start of a copy, in its parts.                                      *)
LEMMA StartCopySound ==
    ASSUME NEW w, Fields \subseteq DOMAIN w, NEW n, NEW m, NEW s, NEW t,
           NEW v, v = StartCopy(w, n, m, s, t)
    PROVE  Sound(w, v) /\ \E u0, u, x, sent : Sending(w, n, m, s, t, v, u0, u, x, sent)
<1> DEFINE id == w.nextTransfer
           ready == w.now + Wire(m)
           u0 == [w EXCEPT !.nextTransfer = @ + 1]
           u == Reserve(u0, id, s, t, m)
           x == [id |-> id, hash |-> n, path |-> m, source |-> s, target |-> t,
                                  start |-> w.now, ready |-> ready, active |-> TRUE,
                                  score |-> Score(w, n), pages |-> {}, used |-> {},
                                  hits |-> 0, firstUse |-> Absent, lost |-> Absent]
           sent == [u EXCEPT !.tokens = @ - PageBytes * Depth(m), !.copies = Append(@, x)]
           last == Schedule(sent, ready, "PROACTIVE_TRANSFER_COMPLETE", Len(sent.copies))
<1>1. v = last
  BY DEF StartCopy
<1>2. Stamped(w, u0) /\ Sound(w, u0)
  BY DEF Stamped, Sound, Fields
<1> HIDE DEF u0
<1>3. Kept(u0, u, Absent) /\ Sound(u0, u)
  BY <1>2, KeptReserve, KeptSound DEF Sound
<1> HIDE DEF u, x
<1>4. Sound(u, sent) /\ sent.copies = Append(u.copies, x)
  BY <1>3 DEF Sound, Fields
<1>5. sent = [u EXCEPT !.tokens = u.tokens - PageBytes * Depth(m), !.copies = Append(u.copies, x)]
  BY <1>3 DEF Sound, Fields
<1> HIDE DEF sent
<1>6. Kept(sent, last, Absent) /\ Sound(sent, last)
  <2> HIDE DEF ready
  <2>1. Fields \subseteq DOMAIN sent
    BY <1>4 DEF Sound
  <2>2. Kept(sent, last, Absent)
    BY <2>1, KeptSchedule
  <2>3. QED
    BY <2>1, <2>2, KeptSound
<1> HIDE DEF last
<1>7. Sound(w, u) /\ Sound(u, v)
  BY <1>1, <1>2, <1>3, <1>4, <1>6, SoundTwice
<1>8. Sound(w, v)
  BY <1>7, SoundTwice
<1>9. v = Schedule(sent, ready, Copying, Len(sent.copies))
  BY <1>1 DEF last, Copying
<1>10. u = Reserve(u0, w.nextTransfer, s, t, m)
  BY DEF u
<1>11. QED
  BY Zenon, <1>2, <1>4, <1>5, <1>7, <1>8, <1>9, <1>10 DEF x, Sending

(* A copy takes both its ends, and pays.                                   *)
LEMMA StartCopyOk ==
    ASSUME NEW w, NodeInv(w, Absent), Thrifty(w), w.refilled = w.now, NEW n \in Node,
           NEW s, NEW t, NEW m, Clear(w, s, t, m), Affordable(w, m), Score(w, n) \in Int,
           NEW v, v = StartCopy(w, n, m, s, t), v.outcome = "running"
    PROVE  NodeInv(v, Absent) /\ Thrifty(v) /\ Browsed(w, v)
<1> DEFINE id == w.nextTransfer
           ready == w.now + Wire(m)
<1>1. /\ w \in World /\ w.outcome = "running" /\ w.now \in Nat /\ id \in Nat
      /\ Lives(w) /\ Ticketed(w, Absent) /\ Flying(w, Absent) /\ Serving(w) /\ Posted(w)
      /\ Fields \subseteq DOMAIN w
  BY Parts DEF NodeInv
<1>2. s \in Pod /\ t \in Pod /\ s # t /\ m \in Node /\ Wire(m) \in Nat /\ Depth(m) \in Nat
  BY ChainFacts, RequestFacts, NodeAssumption DEF Clear, Wire
<1>3. ready \in Nat /\ ready >= w.now
  BY <1>1, <1>2
<1>4. PICK u0, u, x, sent : Sending(w, n, m, s, t, v, u0, u, x, sent)
  BY <1>1, StartCopySound
<1>5. x \in CopyRecord /\ CopyOf(w, x, id, s, t, m)
  <2>1. Absent \in Int
    BY RequestFacts
  <2>2. x \in CopyRecord
    BY <1>1, <1>2, <1>3, <1>4, <2>1 DEF CopyRecord, Sending
  <2>3. QED
    BY <1>4, <2>2 DEF CopyOf, Sending
<1>6. x.id = id /\ x.source = s /\ x.target = t /\ x.path = m /\ x.start = w.now /\ x.active
  BY <1>5 DEF CopyOf
<1>7. Stamped(w, u0) /\ u = Reserve(u0, id, s, t, m) /\ u.outcome = "running"
  BY <1>4 DEF Sound, Sending
<1>8. /\ u0 \in World /\ u0.now = w.now /\ u0.pods = w.pods
      /\ u0.runs = w.runs /\ u0.gate = w.gate /\ u0.events = w.events /\ u0.copies = w.copies
      /\ u0.tokens = w.tokens /\ u0.refilled = w.refilled /\ u0.replicas = w.replicas
      /\ u0.gone = w.gone /\ u0.outcome = w.outcome
  BY <1>1, <1>7, StampedFacts
<1>9. NodeInv(u0, Absent) /\ Clear(u0, s, t, m)
  <2>1. NodeInv(u0, Absent)
    BY <1>8, NumbersOk
  <2>2. Clear(u0, s, t, m)
    BY <1>8 DEF Clear, Busy, Pages, CanReserve
  <2>3. QED
    BY <2>1, <2>2
<1>10. /\ u \in World /\ Others(u0, u) /\ Sent(u0, u, id, s, t, m)
       /\ \A p \in Pod : SameWork(u0.pods[p], u.pods[p])
  <2>1. Flying(u0, Absent) /\ u0.outcome = "running"
    BY <1>9 DEF NodeInv
  <2>2. QED
    BY <1>1, <1>7, <1>8, <1>9, <2>1, ReserveOk
<1>11. /\ u.now = w.now /\ u.runs = w.runs /\ u.gate = w.gate /\ u.events = w.events
       /\ u.copies = w.copies /\ u.tokens = w.tokens /\ u.refilled = w.refilled
       /\ u.replicas = w.replicas /\ u.gone = w.gone /\ u.outcome = "running"
  BY <1>7, <1>8, <1>10 DEF Others
<1> DEFINE tokens == w.tokens - PageBytes * Depth(m)
           copies == Append(w.copies, x)
           e == [time |-> ready, kind |-> Copying, id |-> Len(w.copies) + 1]
           events == Append(w.events, e)
<1>12. /\ copies \in Seq(CopyRecord) /\ Len(copies) = Len(w.copies) + 1
  <2>1. w.copies \in Seq(CopyRecord)
    BY <1>1 DEF World
  <2>2. QED
    BY <1>5, <2>1, InAppend
<1>13. tokens \in Int
  <2>1. PageBytes * Depth(m) \in Int
    BY <1>2, LoopFacts
  <2>2. QED
    BY <1>1, <2>1 DEF World
<1>14. Extended(w, v, x, ready) /\ Launched(u, v, tokens, copies, events)
  <2>1. sent.events = w.events /\ sent.copies = copies
    BY <1>4, <1>11 DEF Sound, Fields, Sending
  <2>2. v = [sent EXCEPT !.events = events]
    BY <1>4, <1>12, <2>1 DEF Schedule, Sending
  <2>3. sent = [u EXCEPT !.tokens = tokens, !.copies = copies]
    BY <1>4, <1>11 DEF Sending
  <2> HIDE DEF tokens, copies, events
  <2>4. v = [u EXCEPT !.tokens = tokens, !.copies = copies, !.events = events]
    BY <2>2, <2>3
  <2>5. Launched(u, v, tokens, copies, events)
    BY <2>4 DEF Launched
  <2>6. v.copies = copies /\ v.events = events
    BY <1>4, <2>4 DEF Sound, Fields, Sending
  <2>7. QED
    BY <2>5, <2>6 DEF Extended, copies, events
<1>15. events \in Seq(EventRecord)
  <2>1. w.events \in Seq(EventRecord) /\ w.copies \in Seq(CopyRecord)
    BY <1>1 DEF World
  <2>2. e \in EventRecord
    <3>1. Len(w.copies) + 1 \in Nat
      BY <2>1, LenProperties
    <3>2. QED
      BY <1>3, <3>1 DEF EventRecord, Kinds, Copying
  <2> HIDE DEF e
  <2>3. QED
    BY <2>1, <2>2, InAppend
<1> HIDE DEF e, events, copies, tokens, ready, id
<1>16. /\ v \in World /\ v.tokens = tokens /\ v.copies = copies
       /\ v.now = w.now /\ v.pods = u.pods /\ v.runs = w.runs /\ v.gate = w.gate
       /\ v.refilled = w.refilled /\ v.replicas = w.replicas /\ v.gone = w.gone
  <2>1. Launched(u, v, tokens, copies, events) /\ u \in World
    BY <1>10, <1>14
  <2>2. /\ v \in World /\ v.tokens = tokens /\ v.copies = copies
        /\ v.now = u.now /\ v.pods = u.pods /\ v.runs = u.runs /\ v.gate = u.gate
        /\ v.refilled = u.refilled /\ v.replicas = u.replicas /\ v.gone = u.gone
    BY <1>12, <1>13, <1>15, <2>1, LaunchedFacts
  <2>3. QED
    BY <1>11, <2>2
<1>17. v.copies = Append(w.copies, x)
  BY <1>16 DEF copies
<1>18. Sent(w, v, id, s, t, m) /\ \A p \in Pod : SameWork(w.pods[p], v.pods[p])
  BY <1>8, <1>10, <1>16 DEF Sent
<1>19. SameService(w, v)
  BY <1>16, <1>18 DEF SameService, SameWork
<1> DEFINE k0 == -(Len(w.copies) + 1)
<1>20. /\ k0 \notin Keys(w, Absent) /\ Keys(v, Absent) = Keys(w, Absent) \cup {k0}
       /\ \A k \in Keys(w, Absent) : SameKey(w, v, k)
       /\ IdOf(v, k0) = id /\ SourceOf(v, k0) = s /\ GoalOf(v, k0) = t /\ PathOf(v, k0) = m
  <2> HIDE DEF k0
  <2>1. w \in World /\ x \in CopyRecord /\ x.active /\ v.runs = w.runs
    BY <1>1, <1>5, <1>6, <1>16
  <2>2. /\ k0 \notin Keys(w, Absent) /\ Keys(v, Absent) = Keys(w, Absent) \cup {k0}
        /\ \A k \in Keys(w, Absent) : SameKey(w, v, k)
        /\ IdOf(v, k0) = x.id /\ SourceOf(v, k0) = x.source /\ GoalOf(v, k0) = x.target
        /\ PathOf(v, k0) = x.path
    BY <1>17, <2>1, ExtendedKeys DEF k0
  <2>3. QED
    BY <1>6, <2>2
<1> HIDE DEF k0
<1>21. /\ Flying(v, Absent) /\ Serving(v)
       /\ \A p \in Pod : Pages(v, p) \subseteq Pages(w, p)
  <2>1. id \in Nat
    BY <1>1
  <2>2. QED
    BY <1>1, <1>18, <1>19, <1>20, <2>1, TakeOff
<1>22. Lives(v)
  BY <1>1, <1>16, <1>18 DEF Lives, LifeOf, SameWork
<1>23. Ticketed(v, Absent)
  BY <1>1, <1>16, <1>18 DEF Ticketed, Bound, Settled, SameWork
<1>24. Posted(v)
  BY <1>1, <1>3, <1>5, <1>6, <1>14, <1>16, ExtendedPosted DEF ready
<1>25. NodeInv(v, Absent)
  BY <1>16, <1>21, <1>22, <1>23, <1>24 DEF NodeInv
<1>26. Browsed(w, v)
  BY <1>16, <1>21 DEF Browsed
<1>27. Thrifty(v)
  <2>1. PageBytes * Depth(x.path) <= w.tokens /\ v.tokens = w.tokens - PageBytes * Depth(x.path)
    BY <1>6, <1>16 DEF Affordable, tokens
  <2>2. QED
    BY <1>1, <1>5, <1>6, <1>16, <1>17, <2>1, SendingThrifty
<1>28. QED
  BY <1>25, <1>26, <1>27

-----------------------------------------------------------------------------
(* The turns of a tick *)

\* The fields of a state of the loops.
Looping(x) == DOMAIN x = {"w", "started", "tried", "leave"}

SourceFor(w, n) == Best(Idle(w, n), LAMBDA p : <<Load(w, p), p>>)

TargetsFor(w, n, m, s, tried) ==
    {p \in Pod \ ({s} \cup tried) : ~Holds(w, p, m) /\ ~Busy(w, p) /\ ~InFlight(w, n, p)}

TargetFor(w, n, S) == Best(S, LAMBDA p : <<Load(w, p), -Depth(Hit(w, p, n)), p>>)

\* What a turn may do: nothing, look into the bucket, fail to reserve, or send.
Tried(a, b, n, m, s, t) ==
    \/ b = a
    \/ b = Refill(a)
    \/ ~CanReserve(Refill(a), t, m) /\ \E u0 : Stamped(Refill(a), u0) /\ b = Unreserved(u0, s, t, m)
    \/ /\ CanReserve(Refill(a), t, m) /\ Affordable(Refill(a), m)
       /\ b = StartCopy(Refill(a), n, m, s, t)

(* A turn of the tick does nothing or tries one copy.                      *)
LEMMA TurnCases ==
    ASSUME NEW x, Looping(x), NEW n, NEW m, NEW y, y = Turn(x, n, m)
    PROVE  /\ Looping(y)
           /\ LET s == SourceFor(x.w, n)
                  S == TargetsFor(x.w, n, m, s, x.tried)
                  t == TargetFor(x.w, n, S)
              IN  \/ y.w = x.w
                  \/ Idle(x.w, n) # {} /\ S # {} /\ Tried(x.w, y.w, n, m, s, t)
<1> DEFINE s == SourceFor(x.w, n)
           S == TargetsFor(x.w, n, m, s, x.tried)
           t == TargetFor(x.w, n, S)
           w == Refill(x.w)
           k == Depth(m)
           u0 == [w EXCEPT !.nextTransfer = @ + 1]
           stop == x.leave \/ x.started >= MaxActions \/ Idle(x.w, n) = {} \/ S = {}
           low == mode.strategy = "COST_AWARE" /\ ~Worthwhile(x.w, n, m, t)
           full == (mode.noEvict /\ ~HasFree(w.pods[t].cache, k)) \/ ~CanAdmit(w.pods[t].cache, k)
<1>1. y = IF stop THEN [x EXCEPT !.leave = TRUE]
          ELSE IF low THEN [x EXCEPT !.tried = @ \cup {t}]
          ELSE IF ~Affordable(w, m) THEN [x EXCEPT !.w = w, !.leave = TRUE]
          ELSE IF full THEN [x EXCEPT !.w = w, !.tried = @ \cup {t}]
          ELSE IF ~CanReserve(w, t, m) THEN [x EXCEPT !.w = Unreserved(u0, s, t, m)]
          ELSE [x EXCEPT !.w = StartCopy(w, n, m, s, t), !.started = @ + 1, !.tried = @ \cup {t}]
  BY Zenon DEF Turn, SourceFor, TargetsFor, TargetFor
<1>2. Stamped(w, u0)
  BY DEF Stamped
<1>3. stop \/ (Idle(x.w, n) # {} /\ S # {})
  OBVIOUS
<1> HIDE DEF s, S, t, w, u0, low, full
<1>4. Looping(y)
  BY <1>1 DEF Looping
<1>5. CASE stop
  <2>1. y = [x EXCEPT !.leave = TRUE]
    BY <1>1, <1>5
  <2>2. y.w = x.w
    BY <2>1 DEF Looping
  <2>3. QED
    BY <1>4, <2>2
<1>6. CASE ~stop
  <2>1. \/ y.w = x.w
        \/ y.w = w
        \/ y.w = Unreserved(u0, s, t, m) /\ ~CanReserve(w, t, m)
        \/ y.w = StartCopy(w, n, m, s, t) /\ CanReserve(w, t, m) /\ Affordable(w, m)
    <3> HIDE DEF stop
    <3>1. QED
      BY <1>1, <1>6 DEF Looping
  <2>2. Tried(x.w, y.w, n, m, s, t)
    BY <1>2, <2>1 DEF Tried, w
  <2>3. Idle(x.w, n) # {} /\ S # {}
    BY <1>3, <1>6
  <2>4. QED
    BY <1>4, <2>2, <2>3 DEF s, S, t
<1>7. QED
  BY <1>5, <1>6

(* A try can only end the run.                                             *)
LEMMA TriedSound ==
    ASSUME NEW a, Fields \subseteq DOMAIN a, NEW b, NEW n, NEW m, NEW s, NEW t, Tried(a, b, n, m, s, t)
    PROVE  Sound(a, b)
<1> DEFINE w == Refill(a)
<1>1. Sound(a, w)
  BY DEF Refill, Sound, Fields
<1> HIDE DEF w
<1>2. Fields \subseteq DOMAIN w
  BY <1>1 DEF Sound
<1>3. CASE b = a \/ b = w
  BY <1>1, <1>3 DEF Sound
<1>4. ASSUME NEW u0, Stamped(w, u0), b = Unreserved(u0, s, t, m)
      PROVE  Sound(a, b)
  <2>1. Sound(w, u0)
    BY <1>2, <1>4 DEF Stamped, Sound, Fields
  <2>2. Fields \subseteq DOMAIN u0
    BY <2>1 DEF Sound
  <2>3. Kept(u0, Unreserved(u0, s, t, m), Absent)
    BY <2>2, KeptReserve
  <2>4. Sound(u0, b)
    BY <1>4, <2>2, <2>3, KeptSound
  <2>5. QED
    BY <1>1, <2>1, <2>4, SoundTwice
<1>5. CASE b = StartCopy(w, n, m, s, t)
  <2>1. Sound(w, b)
    BY <1>2, <1>5, StartCopySound
  <2>2. QED
    BY <1>1, <2>1, SoundTwice
<1>6. QED
  BY <1>3, <1>4, <1>5 DEF Tried, w

\* Where a copy may start and end.
Suited(w, n, m, s, t) ==
    /\ s \in Pod /\ t \in Pod \ {s} /\ m \in Node /\ ~Busy(w, s) /\ ~Busy(w, t)
    /\ Chain[m] \subseteq Pages(w, s)

(* The source and the target a turn has chosen suit the copy.              *)
LEMMA ChosenSuit ==
    ASSUME NEW w \in World, NEW n \in Node, NEW m, m = FullPagePrefix(n), NEW tried,
           Idle(w, n) # {}, TargetsFor(w, n, m, SourceFor(w, n), tried) # {}
    PROVE  Suited(w, n, m, SourceFor(w, n), TargetFor(w, n, TargetsFor(w, n, m, SourceFor(w, n), tried)))
<1> DEFINE s == SourceFor(w, n)
           S == TargetsFor(w, n, m, s, tried)
           t == TargetFor(w, n, S)
<1>1. Idle(w, n) \subseteq Pod
  BY DEF Idle, Sources
<1>2. s \in Idle(w, n)
  BY Zenon, <1>1, LeastOf DEF SourceFor
<1>3. S \subseteq Pod
  BY DEF TargetsFor
<1>4. t \in S
  <2> HIDE DEF S
  <2>1. S # {}
    BY DEF S
  <2>2. QED
    BY Zenon, <1>3, <2>1, TargetIn DEF TargetFor
<1>5. s \in Pod /\ ~Busy(w, s) /\ Chain[n] \subseteq Pages(w, s)
  BY <1>2 DEF Idle, Sources, Holds, Pages
<1>6. t \in Pod \ {s} /\ ~Busy(w, t)
  BY <1>4 DEF TargetsFor
<1>7. m \in Node /\ Chain[m] \subseteq Chain[n]
  BY LongestFacts DEF FullPagePrefix
<1>8. QED
  BY <1>5, <1>6, <1>7 DEF Suited

(* A turn that ends leaves the node in order.                              *)
LEMMA TriedOk ==
    ASSUME NEW a, NodeInv(a, Absent), Thrifty(a), mode \in Mode, a.now <= TriggerEnd,
           NEW n \in Node, NEW m, NEW s, NEW t, Suited(a, n, m, s, t),
           NEW b, Tried(a, b, n, m, s, t), b.outcome = "running"
    PROVE  NodeInv(b, Absent) /\ Thrifty(b) /\ Browsed(a, b)
<1> DEFINE w == Refill(a)
<1>1. /\ NodeInv(w, Absent) /\ Thrifty(w) /\ Browsed(a, w) /\ w.refilled = w.now
      /\ w.pods = a.pods
  BY RefillOk
<1> HIDE DEF w
<1>2. Suited(w, n, m, s, t)
  BY <1>1 DEF Suited, Busy, Pages
<1>3. w \in World
  BY <1>1, Parts
<1>4. CASE b = a
  BY <1>4 DEF Browsed
<1>5. CASE b = w
  BY <1>1, <1>5
<1>6. ASSUME NEW u0, ~CanReserve(w, t, m), Stamped(w, u0), b = Unreserved(u0, s, t, m)
      PROVE  NodeInv(b, Absent) /\ Thrifty(b) /\ Browsed(a, b)
  <2>1. /\ u0 \in World /\ u0.now = w.now /\ u0.pods = w.pods /\ u0.runs = w.runs
        /\ u0.gate = w.gate /\ u0.events = w.events /\ u0.copies = w.copies
        /\ u0.tokens = w.tokens /\ u0.refilled = w.refilled /\ u0.replicas = w.replicas
        /\ u0.gone = w.gone /\ u0.outcome = w.outcome
    BY <1>3, <1>6, StampedFacts
  <2>2. NodeInv(u0, Absent)
    BY <1>1, <2>1, NumbersOk
  <2>3. Browsed(w, u0) /\ Paid(w, u0)
    BY <2>1 DEF Browsed, Pages, Paid, SamePlans
  <2>4. /\ s \in Pod /\ t \in Pod \ {s} /\ m \in Node /\ ~Busy(u0, s) /\ ~Busy(u0, t)
        /\ Chain[m] \subseteq Pages(u0, s) /\ ~CanReserve(u0, t, m)
    BY <1>2, <1>6, <2>1 DEF Suited, Busy, Pages, CanReserve
  <2>5. NodeInv(b, Absent) /\ Tame(u0, b) /\ Others(u0, b)
    BY <1>6, <2>2, <2>4, UnreservedOk
  <2>6. Browsed(u0, b) /\ Paid(u0, b) /\ b.now = u0.now
    BY <2>5 DEF Others, Tame, Browsed, Paid, SamePlans
  <2>7. Thrifty(b)
    <3>1. b \in World /\ u0 \in World /\ u0.now \in Nat
      BY <2>1, <2>2, <2>5, Parts
    <3>2. Thrifty(u0)
      BY <1>1, <1>3, <2>1, <2>3, <3>1, ThriftySame
    <3>3. QED
      BY <2>6, <3>1, <3>2, ThriftySame
  <2>8. QED
    BY <1>1, <2>3, <2>5, <2>6, <2>7, BrowsedTwice
<1>7. CASE CanReserve(w, t, m) /\ Affordable(w, m) /\ b = StartCopy(w, n, m, s, t)
  <2>1. Clear(w, s, t, m)
    BY <1>2, <1>7 DEF Clear, Suited
  <2>2. Score(w, n) \in Int
    <3>1. w.now <= TriggerEnd
      BY <1>1 DEF Browsed
    <3>2. Score(w, n) \in Nat
      BY <1>1, <3>1, ScoreNat
    <3>3. QED
      BY <3>2
  <2>3. NodeInv(b, Absent) /\ Thrifty(b) /\ Browsed(w, b)
    BY <1>1, <1>7, <2>1, <2>2, StartCopyOk
  <2>4. QED
    BY <1>1, <2>3, BrowsedTwice
<1>8. QED
  BY <1>4, <1>5, <1>6, <1>7 DEF Tried, w

\* All is well with the node after some turns of a tick.
Ticking(w, x) ==
    /\ Looping(x) /\ Sound(w, x.w)
    /\ x.w.outcome = "running" => NodeInv(x.w, Absent) /\ Thrifty(x.w) /\ Browsed(w, x.w)

(* A turn keeps the invariant and the budget.                              *)
LEMMA TurnOk ==
    ASSUME NEW w, w.now <= TriggerEnd, w.outcome = "running", mode \in Mode,
           NEW x, Ticking(w, x), NEW n \in Node, NEW m, m = FullPagePrefix(n),
           NEW y, y = Turn(x, n, m)
    PROVE  Ticking(w, y)
<1> DEFINE s == SourceFor(x.w, n)
           S == TargetsFor(x.w, n, m, s, x.tried)
           t == TargetFor(x.w, n, S)
<1>1. Looping(x) /\ Sound(w, x.w)
  BY DEF Ticking
<1>2. Looping(y) /\ (y.w = x.w \/ (Idle(x.w, n) # {} /\ S # {} /\ Tried(x.w, y.w, n, m, s, t)))
  BY <1>1, TurnCases
<1>3. CASE y.w = x.w
  BY <1>2, <1>3 DEF Ticking
<1>4. CASE Idle(x.w, n) # {} /\ S # {} /\ Tried(x.w, y.w, n, m, s, t)
  <2>1. Sound(x.w, y.w)
    BY <1>1, <1>4, TriedSound DEF Sound
  <2>2. Sound(w, y.w)
    BY <1>1, <2>1, SoundTwice
  <2>3. ASSUME y.w.outcome = "running"
        PROVE  NodeInv(y.w, Absent) /\ Thrifty(y.w) /\ Browsed(w, y.w)
    <3>1. x.w.outcome = "running"
      BY <1>1, <2>1, <2>3 DEF Sound
    <3>2. NodeInv(x.w, Absent) /\ Thrifty(x.w) /\ Browsed(w, x.w)
      BY <3>1 DEF Ticking
    <3>3. x.w \in World /\ x.w.now <= TriggerEnd
      BY <3>2, Parts DEF Browsed
    <3>4. Suited(x.w, n, m, s, t)
      BY <1>4, <3>3, ChosenSuit
    <3> HIDE DEF s, t, S
    <3>5. NodeInv(y.w, Absent) /\ Thrifty(y.w) /\ Browsed(x.w, y.w)
      BY <1>4, <2>3, <3>2, <3>3, <3>4, TriedOk
    <3>6. QED
      BY <3>2, <3>5, BrowsedTwice
  <2>4. QED
    BY <1>2, <2>2, <2>3 DEF Ticking
<1>5. QED
  BY <1>2, <1>3, <1>4

-----------------------------------------------------------------------------
(* TRIGGER_TICK *)

(* An offer keeps the invariant and the budget.                            *)
LEMMA OfferOk ==
    ASSUME NEW w, w.now <= TriggerEnd, w.outcome = "running", mode \in Mode,
           NEW x, Ticking(w, x), NEW c, c.hash \in Block
    PROVE  Ticking(w, Offer(x, c))
<1> DEFINE n == c.hash
           m == FullPagePrefix(n)
           x0 == [x EXCEPT !.tried = {}, !.leave = FALSE]
           turn == Turn(x0, n, m)
<1>1. Offer(x, c) \in {x, turn, Turn(turn, n, m)}
  BY DEF Offer, SecondTurn
<1>2. Ticking(w, x0)
  BY DEF Ticking, Looping
<1>3. n \in Node
  BY DEF Node
<1> HIDE DEF x0, n, m
<1>4. Ticking(w, turn)
  BY <1>2, <1>3, TurnOk DEF m
<1> HIDE DEF turn
<1>5. Ticking(w, Turn(turn, n, m))
  BY <1>3, <1>4, TurnOk DEF m
<1>6. QED
  BY <1>1, <1>4, <1>5

Untouched(w) == [w |-> w, started |-> 0, tried |-> {}, leave |-> FALSE]

\* The states of the loop over the shortlist.
IsOffering(w, list, n, f) ==
    f = [i \in 0 .. n |->
            IF i = 0 THEN [w |-> w, started |-> 0, tried |-> {}, leave |-> FALSE]
            ELSE Offer(f[i - 1], list[i])]

Offering(w, list, f, i) == f[i] = IF i = 0 THEN Untouched(w) ELSE Offer(f[i - 1], list[i])

(* The turns of a tick, one by one.                                        *)
LEMMA OfferingSteps ==
    ASSUME NEW w, NEW list, NEW n \in Nat, NEW f
    PROVE  /\ IsOffering(w, list, n, f) => \A i \in 0 .. n : Offering(w, list, f, i)
           /\ f = [i \in 0 .. n |-> f[i]] /\ (\A i \in 0 .. n : Offering(w, list, f, i))
                 => IsOffering(w, list, n, f)
<1>1. ASSUME IsOffering(w, list, n, f), NEW i \in 0 .. n
      PROVE  Offering(w, list, f, i)
  BY <1>1 DEF IsOffering, Offering, Untouched
<1>2. ASSUME f = [i \in 0 .. n |-> f[i]], \A i \in 0 .. n : Offering(w, list, f, i)
      PROVE  IsOffering(w, list, n, f)
  <2>1. \A i \in 0 .. n : f[i] = IF i = 0 THEN Untouched(w) ELSE Offer(f[i - 1], list[i])
    BY <1>2 DEF Offering
  <2>2. f = [i \in 0 .. n |-> IF i = 0 THEN Untouched(w) ELSE Offer(f[i - 1], list[i])]
    BY <1>2, <2>1
  <2>3. QED
    BY <2>2 DEF IsOffering, Untouched
<1>3. QED
  BY <1>1, <1>2

(* The states a tick goes through, as a function.                          *)
LEMMA OfferingExists ==
    ASSUME NEW w, NEW list, NEW n \in Nat
    PROVE  \E f : IsOffering(w, list, n, f)
<1> DEFINE Bad == {k \in Nat : ~\E f : IsOffering(w, list, k, f)}
<1>1. SUFFICES ASSUME Bad # {} PROVE FALSE
  OBVIOUS
<1>2. PICK k \in Bad : \A j \in Bad : k <= j
  BY <1>1, LeastNat
<1>3. k # 0
  <2>1. IsOffering(w, list, 0, [i \in 0 .. 0 |-> Untouched(w)])
    BY DEF IsOffering, Untouched
  <2>2. QED
    BY <2>1
<1>4. PICK f : IsOffering(w, list, k - 1, f)
  BY <1>2, <1>3
<1>5. \A i \in 0 .. k - 1 : Offering(w, list, f, i)
  BY <1>2, <1>3, <1>4, OfferingSteps
<1> DEFINE g == [i \in 0 .. k |-> IF i = k THEN Offer(f[k - 1], list[k]) ELSE f[i]]
<1>6. \A i \in 0 .. k : Offering(w, list, g, i)
  <2>1. TAKE i \in 0 .. k
  <2>2. CASE i = k
    <3>1. g[i] = Offer(f[k - 1], list[k]) /\ g[i - 1] = f[k - 1]
      BY <2>2, <1>2, <1>3
    <3>2. QED
      BY <3>1, <2>2, <1>3 DEF Offering
  <2>3. CASE i # k
    <3>1. i \in 0 .. k - 1
      BY <2>3, <1>2
    <3>2. g[i] = f[i] /\ (i # 0 => g[i - 1] = f[i - 1])
      BY <2>3, <1>2
    <3>3. QED
      BY <3>1, <3>2, <1>5 DEF Offering
  <2>4. QED
    BY <2>2, <2>3
<1>7. g = [i \in 0 .. k |-> g[i]]
  OBVIOUS
<1> HIDE DEF g
<1>8. IsOffering(w, list, k, g)
  BY <1>2, <1>6, <1>7, OfferingSteps
<1>9. QED
  BY <1>2, <1>8

(* The state of the loops after the whole shortlist.                       *)
LEMMA OnTickUnfolds ==
    ASSUME NEW w, Len(Ranked(w)) \in Nat
    PROVE  \E f : LET x == f[Len(Ranked(w))]
                  IN  /\ \A i \in 0 .. Len(Ranked(w)) : Offering(w, Ranked(w), f, i)
                      /\ OnTick(w) = Count(Count(x.w, "triggers", 1), "idleTriggers",
                                           IF x.started = 0 THEN 1 ELSE 0)
<1> DEFINE list == Ranked(w)
           n == Len(list)
           f == CHOOSE g : IsOffering(w, list, n, g)
<1>1. IsOffering(w, list, n, f)
  BY OfferingExists
<1>2. OnTick(w) = Count(Count(f[n].w, "triggers", 1), "idleTriggers", IF f[n].started = 0 THEN 1 ELSE 0)
  BY DEF OnTick, IsOffering
<1> HIDE DEF f
<1>3. \A i \in 0 .. n : Offering(w, list, f, i)
  BY <1>1, OfferingSteps
<1>4. QED
  BY <1>2, <1>3

(* The ticks are counted.                                                  *)
LEMMA CountTick ==
    ASSUME NEW w, NodeInv(w, Absent), Thrifty(w), NEW f \in {"triggers", "idleTriggers"},
           NEW k \in Nat, NEW v, v = Count(w, f, k)
    PROVE  NodeInv(v, Absent) /\ Thrifty(v) /\ Browsed(w, v)
<1> DEFINE stats == [w.stats EXCEPT ![f] = @ + k]
<1>1. w \in World /\ w.stats \in StatsRecord
  BY Parts
<1>2. stats \in StatsRecord
  BY <1>1 DEF StatsRecord
<1>3. v = [w EXCEPT !.stats = stats]
  BY <1>1 DEF Count, World
<1> HIDE DEF stats
<1>4. /\ v \in World /\ v.now = w.now /\ v.pods = w.pods /\ v.runs = w.runs /\ v.gate = w.gate
      /\ v.events = w.events /\ v.copies = w.copies /\ v.tokens = w.tokens
      /\ v.refilled = w.refilled /\ v.replicas = w.replicas /\ v.gone = w.gone
      /\ v.outcome = w.outcome
  BY <1>1, <1>2, <1>3 DEF World
<1>5. NodeInv(v, Absent)
  BY <1>4, NumbersOk
<1>6. Paid(w, v) /\ Browsed(w, v)
  BY <1>4 DEF Paid, SamePlans, Browsed, Pages
<1>7. Thrifty(v)
  <2>1. v.now >= w.now
    BY <1>1, <1>4 DEF World
  <2>2. QED
    BY <1>1, <1>4, <1>6, <2>1, ThriftySame
<1>8. QED
  BY <1>5, <1>6, <1>7

(* A tick copies what the bucket allows, between pods that are idle.       *)
LEMMA OnTickOk ==
    ASSUME NEW w, NodeInv(w, Absent), Thrifty(w), mode \in Mode, w.now <= TriggerEnd,
           NEW v, v = OnTick(w)
    PROVE  /\ v.outcome \in {"running", "assertion"} /\ Fields \subseteq DOMAIN v
           /\ v.outcome = "running" => NodeInv(v, Absent) /\ Thrifty(v) /\ Browsed(w, v)
<1> DEFINE list == Ranked(w)
           n == Len(list)
<1>1. Listed(w, list) /\ n \in Nat /\ \A i \in 1 .. n : list[i].hash \in Block
  BY RankedIn DEF Listed
<1> HIDE DEF list
<1>2. PICK f : /\ \A i \in 0 .. n : Offering(w, list, f, i)
               /\ v = Count(Count(f[n].w, "triggers", 1), "idleTriggers",
                            IF f[n].started = 0 THEN 1 ELSE 0)
  BY <1>1, OnTickUnfolds DEF list
<1>3. w.outcome = "running" /\ Fields \subseteq DOMAIN w
  BY Parts
<1> DEFINE Bad == {k \in Nat : k <= n /\ ~Ticking(w, f[k])}
<1>4. Ticking(w, f[n])
  <2>1. SUFFICES ASSUME Bad # {} PROVE FALSE
    BY <1>1
  <2>2. PICK k \in Bad : \A j \in Bad : k <= j
    BY <2>1, LeastNat
  <2>3. k \in Nat /\ k <= n /\ ~Ticking(w, f[k]) /\ Offering(w, list, f, k)
    BY <1>1, <1>2, <2>2
  <2>4. CASE k = 0
    <3>1. f[k] = Untouched(w)
      BY <2>3, <2>4 DEF Offering
    <3>2. Browsed(w, w)
      BY DEF Browsed
    <3>3. Ticking(w, Untouched(w))
      BY <1>3, <3>2 DEF Ticking, Looping, Untouched, Sound
    <3>4. QED
      BY <2>3, <3>1, <3>3
  <2>5. CASE k # 0
    <3>1. Ticking(w, f[k - 1])
      BY <1>1, <2>2, <2>3, <2>5
    <3>2. f[k] = Offer(f[k - 1], list[k]) /\ list[k].hash \in Block
      BY <1>1, <2>3, <2>5 DEF Offering
    <3>3. Ticking(w, Offer(f[k - 1], list[k]))
      BY <1>3, <3>1, <3>2, OfferOk
    <3>4. QED
      BY <2>3, <3>2, <3>3
  <2>6. QED
    BY <2>4, <2>5
<1> DEFINE a == f[n].w
           b == Count(a, "triggers", 1)
           k == IF f[n].started = 0 THEN 1 ELSE 0
<1>5. v = Count(b, "idleTriggers", k) /\ k \in Nat
  BY <1>2
<1> HIDE DEF k
<1>6. Sound(w, a) /\ (a.outcome = "running" => NodeInv(a, Absent) /\ Thrifty(a) /\ Browsed(w, a))
  BY <1>4 DEF Ticking
<1> HIDE DEF a
<1>7. Sound(a, b)
  BY <1>6, KeptCount, KeptSound DEF Sound
<1> HIDE DEF b
<1>8. Sound(b, v)
  BY <1>5, <1>7, KeptCount, KeptSound DEF Sound
<1>9. v.outcome \in {"running", "assertion"} /\ Fields \subseteq DOMAIN v
  BY <1>3, <1>6, <1>7, <1>8 DEF Sound
<1>10. ASSUME v.outcome = "running"
       PROVE  NodeInv(v, Absent) /\ Thrifty(v) /\ Browsed(w, v)
  <2>1. a.outcome = "running"
    BY <1>7, <1>8, <1>10 DEF Sound
  <2>2. NodeInv(a, Absent) /\ Thrifty(a) /\ Browsed(w, a)
    BY <1>6, <2>1
  <2>3. NodeInv(b, Absent) /\ Thrifty(b) /\ Browsed(a, b)
    BY <2>2, CountTick DEF b
  <2>4. NodeInv(v, Absent) /\ Thrifty(v) /\ Browsed(b, v)
    BY <1>5, <2>3, CountTick
  <2>5. QED
    BY <2>2, <2>3, <2>4, BrowsedTwice
<1>11. QED
  BY <1>9, <1>10

-----------------------------------------------------------------------------
(* The loop: what holds between two events *)

DueOk(w, d) ==
    d # Absent => d \in Nat /\ d >= w.now /\ Cardinality(Arrived(w)) < Cardinality(Request)

TickOk(w, t) == t # Absent => t \in Nat /\ t >= w.now /\ t < TriggerEnd

\* While the run goes on everything is in order,
Alive ==
    /\ NodeInv(node, Absent) /\ Thrifty(node)
    /\ \A p \in Pod : node.gone[p] \cap Pages(node, p) = {}
    /\ DueOk(node, due) /\ TickOk(node, tick)

\* and unless an assertion failed the caches and the books stay so.
LoopInv ==
    /\ mode \in Mode
    /\ node.outcome \in Outcomes
    /\ node.outcome = "running" => Alive
    /\ node.outcome # "assertion" => CachesOk(node) /\ Within(node) /\ CreditIsDue

EventAt(i) ==
    [time |-> node.events[i].time, kind |-> node.events[i].kind, id |-> node.events[i].id, at |-> i]

ArrivalEvent == [time |-> due, kind |-> "REQUEST_ARRIVAL", id |-> NextRequest, at |-> 0]

TickEvent == [time |-> tick, kind |-> "TRIGGER_TICK", id |-> 0, at |-> 0]

\* What the heap may hold.
OnHeap(e) ==
    \/ /\ e.at \in DOMAIN node.events /\ e.at \in Nat /\ e.at # 0 /\ e = EventAt(e.at)
       /\ e.kind \in Kinds
    \/ e = ArrivalEvent /\ due # Absent
    \/ e = TickEvent /\ tick # Absent

(* The heap holds the events that were posted, the next arrival and the    *)
(* next tick, and none of them is overdue.                                 *)
LEMMA HeapHolds ==
    ASSUME Alive
    PROVE  /\ IsFiniteSet(Heap)
           /\ \A e \in Heap : OnHeap(e) /\ e.time \in Nat /\ e.time >= node.now /\ e.at \in Nat
           /\ \A i \in DOMAIN node.events : EventAt(i) \in Heap
           /\ due # Absent => ArrivalEvent \in Heap
           /\ tick # Absent => TickEvent \in Heap
<1> DEFINE A == {EventAt(i) : i \in DOMAIN node.events}
           B == {e \in {ArrivalEvent, TickEvent} : e.time # Absent}
<1>1. Heap = A \cup B
  BY DEF Heap, EventAt, ArrivalEvent, TickEvent
<1>2. node \in World /\ Posted(node) /\ node.events \in Seq(EventRecord)
  BY DEF Alive, NodeInv, World
<1>3. DOMAIN node.events = 1 .. Len(node.events) /\ Len(node.events) \in Nat
  BY <1>2, LenProperties
<1>4. IsFiniteSet(Heap)
  <2>1. IsFiniteSet(DOMAIN node.events)
    BY <1>3, FS_Interval
  <2>2. IsFiniteSet(A)
    <3> DEFINE f == [i \in DOMAIN node.events |-> EventAt(i)]
    <3>1. A = {f[i] : i \in DOMAIN node.events}
      BY Zenon
    <3> HIDE DEF f
    <3>2. QED
      BY <2>1, <3>1, ImageFinite
  <2>3. IsFiniteSet(B)
    <3>1. B \subseteq {ArrivalEvent, TickEvent}
      OBVIOUS
    <3>2. IsFiniteSet({ArrivalEvent, TickEvent})
      <4>1. IsFiniteSet({ArrivalEvent})
        BY FS_Singleton
      <4>2. QED
        BY <4>1, FS_AddElement
    <3>3. QED
      BY <3>1, <3>2, FS_Subset
  <2>4. QED
    BY <1>1, <2>2, <2>3, FS_Union
<1>5. ASSUME NEW i \in DOMAIN node.events
      PROVE  /\ OnHeap(EventAt(i)) /\ EventAt(i).time \in Nat /\ EventAt(i).time >= node.now
             /\ EventAt(i).at \in Nat
  <2>1. node.events[i] \in EventRecord /\ i \in Nat /\ i # 0
    BY <1>2, <1>3, ElementOfSeq
  <2>2. node.events[i].time >= node.now
    BY <1>2 DEF Posted, Ready
  <2>3. QED
    BY <2>1, <2>2 DEF OnHeap, EventAt, EventRecord
<1>6. due # Absent => /\ OnHeap(ArrivalEvent) /\ ArrivalEvent.time \in Nat
                      /\ ArrivalEvent.time >= node.now /\ ArrivalEvent.at \in Nat
  BY DEF Alive, DueOk, OnHeap, ArrivalEvent
<1>7. tick # Absent => /\ OnHeap(TickEvent) /\ TickEvent.time \in Nat
                       /\ TickEvent.time >= node.now /\ TickEvent.at \in Nat
  BY DEF Alive, TickOk, OnHeap, TickEvent
<1>8. ArrivalEvent.time = due /\ TickEvent.time = tick
  BY DEF ArrivalEvent, TickEvent
<1>9. QED
  BY <1>1, <1>4, <1>5, <1>6, <1>7, <1>8

(* The first event is one of the heap, and no other is due before it.      *)
LEMMA FirstIn ==
    ASSUME Alive, Heap # {}
    PROVE  First \in Heap /\ \A e \in Heap : First.time <= e.time
<1> DEFINE K == [e \in Heap |-> <<e.time, Priority(e.kind), e.at>>]
<1>1. /\ IsFiniteSet(Heap)
      /\ \A e \in Heap : OnHeap(e) /\ e.time \in Nat /\ e.at \in Nat
  BY HeapHolds
<1>2. \A e \in Heap : Priority(e.kind) \in Int
  BY <1>1 DEF OnHeap, Priority, Kinds, ArrivalEvent, TickEvent
<1>3. K \in [Heap -> [1 .. 3 -> Int]]
  BY <1>1, <1>2
<1>4. \A x, y \in Heap : K[x] = K[y] => x = y
  <2>1. SUFFICES ASSUME NEW x \in Heap, NEW y \in Heap, K[x] = K[y] PROVE x = y
    OBVIOUS
  <2>2. x.at = y.at /\ Priority(x.kind) = Priority(y.kind)
    BY <2>1
  <2>3. OnHeap(x) /\ OnHeap(y)
    BY <1>1
  <2>4. ArrivalEvent.at = 0 /\ TickEvent.at = 0
    BY DEF ArrivalEvent, TickEvent
  <2>5. Priority(ArrivalEvent.kind) # Priority(TickEvent.kind)
    BY DEF ArrivalEvent, TickEvent, Priority
  <2>6. QED
    BY <2>2, <2>3, <2>4, <2>5 DEF OnHeap
<1>5. \A e \in Heap : K[e] = <<e.time, Priority(e.kind), e.at>>
  OBVIOUS
<1> HIDE DEF K
<1>6. \E x \in Heap : \A y \in Heap \ {x} : Before(K[x], K[y])
  BY <1>1, <1>3, <1>4, BestExists DEF Keyed
<1>7. \E x \in Heap : \A y \in Heap \ {x} :
         Before(<<x.time, Priority(x.kind), x.at>>, <<y.time, Priority(y.kind), y.at>>)
  BY <1>5, <1>6
<1>8. First \in Heap /\ \A y \in Heap \ {First} :
         Before(<<First.time, Priority(First.kind), First.at>>, <<y.time, Priority(y.kind), y.at>>)
  BY <1>7 DEF First, Best
<1>9. First \in Heap /\ \A y \in Heap \ {First} : Before(K[First], K[y])
  BY <1>5, <1>8
<1>10. ASSUME NEW e \in Heap \ {First}
      PROVE  First.time <= e.time
  <2>1. PICK i \in DOMAIN K[First] : K[First][i] < K[e][i] /\ \A j \in 1 .. i - 1 : K[First][j] = K[e][j]
    BY <1>9 DEF Before
  <2>2. i \in 1 .. 3
    BY <1>3, <1>9, <2>1
  <2>3. K[First][1] = First.time /\ K[e][1] = e.time
    BY <1>5, <1>9
  <2>4. CASE i = 1
    BY <1>1, <1>9, <2>1, <2>3, <2>4
  <2>5. CASE i # 1
    <3>1. 1 \in 1 .. i - 1
      BY <2>2, <2>5
    <3>2. QED
      BY <1>1, <1>9, <2>1, <2>3, <3>1
  <2>6. QED
    BY <2>4, <2>5
<1>11. First.time \in Nat
  BY <1>1, <1>9
<1>12. QED
  BY <1>9, <1>10, <1>11

-----------------------------------------------------------------------------
(* The state in which a handler begins *)

(* What the first event is, by its kind, and that nothing is due before.   *)
LEMMA PoppedFacts ==
    ASSUME Alive, NEW kind, NEW e \in Popped(kind)
    PROVE  /\ e.kind = kind /\ e.time \in Nat /\ e.time >= node.now /\ e.at \in Nat
           /\ e.at # 0 => e.at \in DOMAIN node.events
           /\ \A i \in DOMAIN node.events : node.events[i].time >= e.time
           /\ due # Absent => due >= e.time
           /\ tick # Absent => tick >= e.time
           /\ kind \in Kinds => e.at # 0 /\ e = EventAt(e.at) /\ Ready(node, node.events[e.at])
           /\ kind = "REQUEST_ARRIVAL" => e = ArrivalEvent /\ due # Absent
           /\ kind = "TRIGGER_TICK" => e = TickEvent /\ tick # Absent
<1>1. e \in Heap /\ e.kind = kind /\ e = First
  BY DEF Popped
<1>2. OnHeap(e) /\ e.time \in Nat /\ e.time >= node.now /\ e.at \in Nat
  BY <1>1, HeapHolds
<1>3. \A x \in Heap : e.time <= x.time
  BY <1>1, FirstIn
<1>4. /\ \A i \in DOMAIN node.events : e.time <= EventAt(i).time
      /\ due # Absent => e.time <= ArrivalEvent.time
      /\ tick # Absent => e.time <= TickEvent.time
  BY <1>3, HeapHolds
<1>5. /\ \A i \in DOMAIN node.events : node.events[i].time >= e.time
      /\ due # Absent => due >= e.time
      /\ tick # Absent => tick >= e.time
  <2>1. \A i \in DOMAIN node.events : EventAt(i).time \in Nat
    BY HeapHolds
  <2>2. (due # Absent => due \in Nat) /\ (tick # Absent => tick \in Nat)
    BY DEF Alive, DueOk, TickOk
  <2>3. QED
    BY <1>2, <1>4, <2>1, <2>2 DEF EventAt, ArrivalEvent, TickEvent
<1>6. /\ ArrivalEvent.at = 0 /\ ArrivalEvent.kind = "REQUEST_ARRIVAL"
      /\ TickEvent.at = 0 /\ TickEvent.kind = "TRIGGER_TICK"
      /\ "REQUEST_ARRIVAL" \notin Kinds /\ "TRIGGER_TICK" \notin Kinds
  BY DEF ArrivalEvent, TickEvent, Kinds
<1>7. e.at # 0 => e.at \in DOMAIN node.events
  BY <1>2, <1>6 DEF OnHeap
<1>8. kind \in Kinds => e.at # 0 /\ e = EventAt(e.at) /\ Ready(node, node.events[e.at])
  <2>1. \A i \in DOMAIN node.events : Ready(node, node.events[i])
    BY DEF Alive, NodeInv, Posted
  <2>2. kind \in Kinds => e.at # 0 /\ e = EventAt(e.at)
    BY <1>1, <1>2, <1>6 DEF OnHeap
  <2>3. QED
    BY <1>7, <2>1, <2>2
<1>9. /\ kind = "REQUEST_ARRIVAL" => e = ArrivalEvent /\ due # Absent
      /\ kind = "TRIGGER_TICK" => e = TickEvent /\ tick # Absent
  BY <1>1, <1>2, <1>6 DEF OnHeap
<1>10. QED
  BY <1>1, <1>2, <1>5, <1>7, <1>8, <1>9

\* State u is node as the handler of an event finds it.
Fetched(u) ==
    /\ NodeInv(u, Absent) /\ Thrifty(u)
    /\ u.pods = node.pods /\ u.runs = node.runs /\ u.gone = node.gone
    /\ \A p \in Pod : \A x \in Block :
          u.replicas[p][x] = IF x \in node.gone[p] THEN 0 ELSE node.replicas[p][x]

(* A handler begins in good order, and the credit for what has gone is     *)
(* withdrawn by then.                                                      *)
LEMMA TakenOk ==
    ASSUME Alive, NEW kind, NEW e \in Popped(kind), NEW u, u = Taken(e)
    PROVE  /\ Fetched(u) /\ u.now = e.time
           /\ kind \in Kinds \ {Copying} =>
                 e.id \in Request /\ (kind = "SERVICE_START" => u.runs[e.id].pod \in Pod)
           /\ kind = Copying =>
                 /\ e.id \in DOMAIN u.copies /\ u.copies[e.id].active
                 /\ \A j \in DOMAIN u.events : u.events[j].kind = Copying => u.events[j].id # e.id
<1> DEFINE w == Reconciled(node)
<1>1. Begins(w, u, e)
  BY DEF Begins, Taken
<1>2. node \in World /\ NodeInv(node, Absent) /\ Thrifty(node)
  BY DEF Alive, NodeInv
<1> HIDE DEF w
<1>3. /\ w \in World /\ SameCopies(node, w)
      /\ w.now = node.now /\ w.pods = node.pods /\ w.runs = node.runs /\ w.gate = node.gate
      /\ w.events = node.events /\ w.outcome = node.outcome /\ w.gone = node.gone
      /\ w.tokens = node.tokens /\ w.refilled = node.refilled
      /\ \A p \in Pod : \A x \in Block :
            w.replicas[p][x] = IF x \in node.gone[p] THEN 0 ELSE node.replicas[p][x]
  BY <1>2, ReconciledOk DEF w
<1>4. NodeInv(w, Absent)
  BY <1>2, <1>3, BooksOk
<1>5. /\ e.kind = kind /\ e.time \in Nat /\ e.time >= w.now /\ e.at \in Nat
      /\ e.at # 0 => e.at \in DOMAIN w.events
      /\ \A i \in DOMAIN w.events : w.events[i].time >= e.time
      /\ kind \in Kinds => e.at # 0 /\ e = EventAt(e.at) /\ Ready(node, node.events[e.at])
  BY <1>3, PoppedFacts
<1>6. /\ NodeInv(u, Absent) /\ u.now = e.time
      /\ u.pods = w.pods /\ u.runs = w.runs /\ u.gate = w.gate /\ u.copies = w.copies
      /\ u.gone = w.gone /\ u.replicas = w.replicas /\ u.tokens = w.tokens
      /\ u.refilled = w.refilled
      /\ (e.at # 0 /\ w.events[e.at].kind = Copying =>
            \A i \in DOMAIN u.events : u.events[i].kind = Copying => u.events[i].id # w.events[e.at].id)
  BY <1>1, <1>4, <1>5, BeginsOk
<1>7. Thrifty(u)
  <2>1. Paid(node, u)
    BY <1>3, <1>6 DEF Paid, SamePlans, SameCopies
  <2>2. u \in World /\ u.now >= node.now
    BY <1>3, <1>5, <1>6 DEF NodeInv
  <2>3. QED
    BY <1>2, <2>1, <2>2, ThriftySame
<1>8. Fetched(u)
  BY <1>3, <1>6, <1>7 DEF Fetched
<1>9. kind \in Kinds => e.id = node.events[e.at].id /\ kind = node.events[e.at].kind
  BY <1>5 DEF EventAt
<1>10. kind \in Kinds \ {Copying} =>
          e.id \in Request /\ (kind = "SERVICE_START" => u.runs[e.id].pod \in Pod)
  BY <1>3, <1>5, <1>6, <1>9 DEF Ready
<1>11. ASSUME kind = Copying
       PROVE  /\ e.id \in DOMAIN u.copies /\ u.copies[e.id].active
              /\ \A j \in DOMAIN u.events : u.events[j].kind = Copying => u.events[j].id # e.id
  <2>1. kind \in Kinds
    BY <1>11 DEF Kinds, Copying
  <2>2. e.id \in DOMAIN node.copies /\ node.copies[e.id].active
    BY <1>5, <1>9, <1>11, <2>1 DEF Ready
  <2>3. e.id \in DOMAIN u.copies /\ u.copies[e.id].active
    BY <1>3, <1>6, <2>2 DEF SameCopies
  <2>4. QED
    BY <1>3, <1>5, <1>6, <1>9, <1>11, <2>1, <2>3
<1>12. QED
  BY <1>6, <1>8, <1>10, <1>11

-----------------------------------------------------------------------------
(* What a handler leaves, and what is made of it *)

\* From u a handler has made v, where new pages are credited to copy i.
Stepped(u, v, i) ==
    /\ Fields \subseteq DOMAIN v
    /\ v.outcome \in {"running", "assertion", "refused"}
    /\ v.outcome = "running" => NodeInv(v, Absent) /\ Thrifty(v)
    /\ v.outcome # "assertion" => CachesOk(v) /\ Loyal(u, v, i) /\ Within(v)

Marked(w, v, gone) == v = [w EXCEPT !.gone = gone]

(* The pages that have gone are noted.                                     *)
LEMMA MarkedFacts ==
    ASSUME NEW w, Fields \subseteq DOMAIN w, NEW gone, NEW v, Marked(w, v, gone)
    PROVE  /\ v.now = w.now /\ v.pods = w.pods /\ v.runs = w.runs /\ v.gate = w.gate
           /\ v.events = w.events /\ v.copies = w.copies /\ v.tokens = w.tokens
           /\ v.refilled = w.refilled /\ v.replicas = w.replicas /\ v.outcome = w.outcome
           /\ v.gone = gone
           /\ w \in World /\ gone \in [Pod -> SUBSET Block] => v \in World
<1>1. /\ v.now = w.now /\ v.pods = w.pods /\ v.runs = w.runs /\ v.gate = w.gate
      /\ v.events = w.events /\ v.copies = w.copies /\ v.tokens = w.tokens
      /\ v.refilled = w.refilled /\ v.replicas = w.replicas /\ v.outcome = w.outcome
      /\ v.gone = gone
  BY DEF Marked, Fields
<1>2. w \in World /\ gone \in [Pod -> SUBSET Block] => v \in World
  BY DEF Marked, World
<1>3. QED
  BY <1>1, <1>2

(* Noting them keeps the invariant.                                        *)
LEMMA MarkedOk ==
    ASSUME NEW w, Fields \subseteq DOMAIN w, NEW gone \in [Pod -> SUBSET Block],
           NEW v, Marked(w, v, gone)
    PROVE  /\ NodeInv(w, Absent) => NodeInv(v, Absent)
           /\ NodeInv(w, Absent) /\ Thrifty(w) => Thrifty(v)
           /\ CachesOk(w) => CachesOk(v)
           /\ Within(w) => Within(v)
<1>1. /\ v.now = w.now /\ v.pods = w.pods /\ v.runs = w.runs /\ v.gate = w.gate
      /\ v.events = w.events /\ v.copies = w.copies /\ v.tokens = w.tokens
      /\ v.refilled = w.refilled /\ v.outcome = w.outcome
      /\ w \in World => v \in World
  BY MarkedFacts
<1>2. ASSUME NodeInv(w, Absent)
      PROVE  NodeInv(v, Absent) /\ (Thrifty(w) => Thrifty(v))
  <2>1. w \in World /\ v \in World
    BY <1>1, <1>2 DEF NodeInv
  <2>2. SameCopies(w, v) /\ Paid(w, v)
    BY <1>1 DEF SameCopies, Paid, SamePlans
  <2>3. NodeInv(v, Absent)
    BY <1>1, <1>2, <2>1, <2>2, BooksOk
  <2>4. v.now >= w.now
    BY <1>1, <2>1 DEF World
  <2>5. QED
    BY <2>1, <2>2, <2>3, <2>4, ThriftySame
<1>3. CachesOk(w) => CachesOk(v)
  BY <1>1 DEF CachesOk, HitOf
<1>4. Within(w) => Within(v)
  BY <1>1 DEF Within, Spent, Cost
<1>5. QED
  BY <1>2, <1>3, <1>4

(* Who has arrived depends on the runs.                                    *)
LEMMA ArrivedSame ==
    ASSUME NEW w, NEW v, v.runs = w.runs
    PROVE  Arrived(v) = Arrived(w)
BY DEF Arrived

(* Credit stays due when a handler is done: it has brought nothing but     *)
(* pages of copy i, and what it took away is on the list of gone pages.    *)
LEMMA CreditStays ==
    ASSUME LoopInv, Alive, NEW u, Fetched(u), NEW w, NEW i, Loyal(u, w, i), Handled(w, i),
           Fields \subseteq DOMAIN w
    PROVE  CreditIsDue'
<1> DEFINE G == [p \in Pod |-> Pages(node, p) \ Pages(w, p)]
<1>1. Marked(w, node', G)
  BY DEF Handled, Marked
<1> HIDE DEF G
<1>2. node'.pods = w.pods /\ node'.replicas = w.replicas /\ node'.gone = G
  BY <1>1, MarkedFacts
<1>3. \A p \in Pod : Pages(node, p)' = Pages(w, p) /\ Pages(u, p) = Pages(node, p)
  BY <1>2 DEF Pages, Fetched
<1>4. CreditIsDue
  BY DEF LoopInv, Alive, NodeInv
<1>5. ASSUME NEW p \in Pod, NEW x \in Block
      PROVE  IF x \in Pages(w, p) THEN w.replicas[p][x] = brought'[p][x]
             ELSE w.replicas[p][x] = 0 \/ x \in G[p]
  <2>1. u.replicas[p][x] = IF x \in node.gone[p] THEN 0 ELSE node.replicas[p][x]
    BY DEF Fetched
  <2>2. IF x \in Pages(node, p) THEN u.replicas[p][x] = brought[p][x] ELSE u.replicas[p][x] = 0
    BY <1>4, <2>1 DEF CreditIsDue, Alive
  <2>3. IF x \in Pages(node, p) THEN w.replicas[p][x] = u.replicas[p][x]
        ELSE IF x \in Pages(w, p) THEN w.replicas[p][x] = i
        ELSE w.replicas[p][x] \in {0, u.replicas[p][x]}
    BY <1>3 DEF Loyal
  <2>4. brought'[p][x] = CASE x \in Pages(w, p) \ Pages(node, p) -> i
                           [] x \notin Pages(w, p) -> 0
                           [] OTHER -> brought[p][x]
    BY DEF Handled
  <2>5. G[p] = Pages(node, p) \ Pages(w, p)
    BY DEF G
  <2>6. QED
    BY <2>2, <2>3, <2>4, <2>5
<1>6. QED
  BY <1>2, <1>3, <1>5 DEF CreditIsDue

(* The invariant of the node reads the mode, which never changes.          *)
LEMMA NodePrimed ==
    ASSUME mode' = mode, NodeInv(node', Absent)
    PROVE  NodeInv(node, Absent)'
<1>1. /\ node' \in World /\ node'.outcome = "running"
      /\ Lives(node') /\ Ticketed(node', Absent) /\ Flying(node', Absent) /\ Serving(node')
      /\ Posted(node')
  BY DEF NodeInv
<1>2. Lives(node)'
  BY <1>1 DEF Lives, LifeOf
<1>3. Ticketed(node, Absent)'
  <2>1. \A r \in Request : Bound(node, r)'
    BY <1>1 DEF Ticketed, Bound, Tickets
  <2>2. \A r \in Request \ {Absent} : Settled(node, r)'
    BY <1>1 DEF Ticketed, Settled, Simple
  <2>3. QED
    BY <1>1, <2>1, <2>2 DEF Ticketed
<1>4. Flying(node, Absent)'
  <2>1. Keys(node, Absent)' = Keys(node', Absent)
    BY DEF Keys
  <2>2. \A k : /\ SourceOf(node, k)' = SourceOf(node', k) /\ GoalOf(node, k)' = GoalOf(node', k)
              /\ PathOf(node, k)' = PathOf(node', k) /\ IdOf(node, k)' = IdOf(node', k)
    BY DEF SourceOf, GoalOf, PathOf, IdOf
  <2>3. \A p : HitOf(node, p)' = HitOf(node', p)
    BY DEF HitOf
  <2>4. \A k : Flown(node, k)' <=> Flown(node', k)
    BY SMTT(30), <2>2, <2>3 DEF Flown
  <2>5. QED
    BY <1>1, <2>1, <2>2, <2>3, <2>4 DEF Flying
<1>5. Serving(node)'
  BY <1>1 DEF Serving
<1>6. Posted(node)'
  BY <1>1 DEF Posted, Ready
<1>7. QED
  BY <1>1, <1>2, <1>3, <1>4, <1>5, <1>6 DEF NodeInv

(* What a handler leaves is as it should be for the next event.            *)
LEMMA HandledOk ==
    ASSUME LoopInv, Alive, NEW u, Fetched(u), NEW w, NEW i, Stepped(u, w, i), Handled(w, i),
           w.outcome = "running" => DueOk(w, due') /\ TickOk(w, tick')
    PROVE  LoopInv'
<1> DEFINE G == [p \in Pod |-> Pages(node, p) \ Pages(w, p)]
<1>1. Marked(w, node', G)
  BY DEF Handled, Marked
<1>2. G \in [Pod -> SUBSET Block]
  <2>1. \A p \in Pod : Pages(node, p) \subseteq Block
    <3>1. node \in World
      BY DEF Alive, NodeInv
    <3>2. QED
      BY <3>1 DEF World, PodRecord, PrefixCache, Pages
  <2>2. QED
    BY <2>1
<1>3. \A p \in Pod : G[p] \cap Pages(w, p) = {}
  OBVIOUS
<1> HIDE DEF G
<1>4. Fields \subseteq DOMAIN w /\ w.outcome \in {"running", "assertion", "refused"}
  BY DEF Stepped
<1>5. /\ node'.pods = w.pods /\ node'.runs = w.runs /\ node'.outcome = w.outcome
      /\ node'.now = w.now /\ node'.gone = G
  BY <1>1, <1>4, MarkedFacts
<1>6. /\ NodeInv(w, Absent) => NodeInv(node', Absent)
      /\ NodeInv(w, Absent) /\ Thrifty(w) => Thrifty(node')
      /\ CachesOk(w) => CachesOk(node')
      /\ Within(w) => Within(node')
  BY <1>1, <1>2, <1>4, MarkedOk
<1>7. mode' = mode /\ mode \in Mode
  BY DEF Handled, LoopInv
<1>8. node'.outcome \in Outcomes
  BY <1>4, <1>5 DEF Outcomes
<1>9. ASSUME w.outcome # "assertion"
      PROVE  CachesOk(node)' /\ Within(node)' /\ CreditIsDue'
  <2>1. CachesOk(w) /\ Loyal(u, w, i) /\ Within(w)
    BY <1>9 DEF Stepped
  <2>2. CreditIsDue'
    BY <1>4, <2>1, CreditStays
  <2>3. QED
    BY <1>6, <2>1, <2>2 DEF CachesOk, Within
<1>10. ASSUME w.outcome = "running"
       PROVE  Alive'
  <2>1. NodeInv(node', Absent) /\ Thrifty(node')
    BY <1>6, <1>10 DEF Stepped
  <2>2. \A p \in Pod : node'.gone[p] \cap Pages(node', p) = {}
    BY <1>3, <1>5 DEF Pages
  <2>3. DueOk(node', due') /\ TickOk(node', tick')
    BY <1>5, <1>10, ArrivedSame DEF DueOk, TickOk
  <2>4. NodeInv(node, Absent)'
    BY <1>7, <2>1, NodePrimed
  <2>5. Thrifty(node)'
    BY <2>1 DEF Thrifty, Within, Spent, Cost
  <2>6. DueOk(node, due)' /\ TickOk(node, tick)'
    BY <2>3 DEF DueOk, TickOk, Arrived
  <2>7. \A p \in Pod : (node.gone[p] \cap Pages(node, p) = {})'
    BY <2>2 DEF Pages
  <2>8. QED
    BY <2>4, <2>5, <2>6, <2>7 DEF Alive
<1>11. QED
  BY <1>5, <1>7, <1>8, <1>9, <1>10 DEF LoopInv

-----------------------------------------------------------------------------
(* The steps of the loop *)

(* Whoever leaves the bucket and the copies as they are keeps the budget.  *)
LEMMA PaidStep ==
    ASSUME NEW u, NodeInv(u, Absent), Thrifty(u), NEW v, NEW i, Fields \subseteq DOMAIN v,
           v.outcome \in {"running", "assertion", "refused"},
           v.outcome = "running" => NodeInv(v, Absent),
           v.outcome # "assertion" => CachesOk(v) /\ Loyal(u, v, i) /\ Paid(u, v)
    PROVE  Stepped(u, v, i)
<1>1. u \in World /\ Within(u)
  BY DEF NodeInv, Thrifty
<1>2. ASSUME v.outcome # "assertion"
      PROVE  Within(v)
  <2>1. SamePlans(u, v)
    BY <1>2 DEF Paid
  <2>2. QED
    BY <1>1, <2>1, WithinSame
<1>3. ASSUME v.outcome = "running"
      PROVE  Thrifty(v)
  <2>1. Paid(u, v) /\ v.now = u.now /\ v \in World
    BY <1>3 DEF Loyal, NodeInv
  <2>2. v.now >= u.now
    BY <1>1, <2>1 DEF World
  <2>3. QED
    BY <1>1, <2>1, <2>2, ThriftySame
<1>4. QED
  BY <1>2, <1>3 DEF Stepped

(* A step that keeps the books keeps the budget.                           *)
LEMMA BooksStep ==
    ASSUME NEW u, NodeInv(u, Absent), Thrifty(u), NEW v, Books(u, v),
           v.outcome = "running" => NodeInv(v, Absent) /\ Loyal(u, v, 0)
    PROVE  Stepped(u, v, 0)
<1>1. Fields \subseteq DOMAIN v /\ v.outcome \in {"running", "assertion"}
  BY Parts DEF Books
<1>2. Paid(u, v)
  BY DEF Books, Paid, SamePlans
<1>3. v.outcome = "running" => CachesOk(v)
  BY NodeCaches
<1>4. QED
  BY <1>1, <1>2, <1>3, PaidStep

(* The next arrival and the next tick stay ahead while nobody arrives.     *)
LEMMA TimesStay ==
    ASSUME Alive, NEW kind, NEW e \in Popped(kind), NEW u, Fetched(u), u.now = e.time,
           NEW w, w.now = u.now, Unmoved(u, w)
    PROVE  DueOk(w, due) /\ TickOk(w, tick)
<1>1. /\ due # Absent => due >= e.time
      /\ tick # Absent => tick >= e.time
  BY PoppedFacts
<1>2. Arrived(w) \subseteq Arrived(node)
  BY DEF Arrived, Unmoved, Fetched
<1>3. IsFiniteSet(Arrived(node))
  BY ArrivedFacts DEF Alive
<1>4. /\ Cardinality(Arrived(w)) <= Cardinality(Arrived(node))
      /\ Cardinality(Arrived(w)) \in Nat /\ Cardinality(Arrived(node)) \in Nat
  BY <1>2, <1>3, FS_Subset, FS_CardinalityType
<1>5. Cardinality(Request) \in Nat
  BY RequestFacts, FS_CardinalityType
<1>6. QED
  BY <1>1, <1>4, <1>5 DEF Alive, DueOk, TickOk

(* A set with one element more.                                            *)
LEMMA AddOne ==
    ASSUME NEW S, IsFiniteSet(S), NEW x
    PROVE  /\ IsFiniteSet(S \cup {x}) /\ Cardinality(S \cup {x}) \in Nat
           /\ Cardinality(S \cup {x}) <= Cardinality(S) + 1
<1>1. IsFiniteSet(S \cup {x})
  BY FS_AddElement
<1>2. Cardinality(S \cup {x}) = IF x \in S THEN Cardinality(S) ELSE Cardinality(S) + 1
  BY FS_AddElement
<1>3. Cardinality(S) \in Nat /\ Cardinality(S \cup {x}) \in Nat
  BY <1>1, FS_CardinalityType
<1>4. QED
  BY <1>1, <1>2, <1>3

(* The loop takes an arrival.                                              *)
LEMMA ArrivalStep ==
    ASSUME LoopInv, Arrival
    PROVE  LoopInv'
<1>1. PICK e \in Popped("REQUEST_ARRIVAL"), n \in RequestPath :
         Handled(OnArrival(Taken(e), e.id, n), 0)
  BY DEF Arrival
<1>2. Alive
  BY <1>1 DEF Popped, LoopInv
<1> DEFINE u == Taken(e)
           r == NextRequest
           w == OnArrival(u, r, n)
<1>3. Fetched(u) /\ u.now = e.time
  BY <1>2, TakenOk
<1>4. e = ArrivalEvent /\ due # Absent /\ (tick # Absent => tick >= e.time)
  BY <1>2, PoppedFacts
<1>5. e.id = r /\ e.time = due
  BY <1>4 DEF ArrivalEvent
<1>6. /\ due \in Nat /\ Cardinality(Arrived(node)) < Cardinality(Request)
      /\ IsFiniteSet(Arrived(node))
      /\ Cardinality(Arrived(node)) \in Nat /\ Cardinality(Request) \in Nat
  <2>1. NodeInv(node, Absent) /\ DueOk(node, due)
    BY <1>2 DEF Alive
  <2>2. IsFiniteSet(Arrived(node)) /\ IsFiniteSet(Request)
    BY <2>1, ArrivedFacts, RequestFacts
  <2>3. QED
    BY <1>4, <2>1, <2>2, FS_CardinalityType DEF DueOk
<1>7. r \in Request /\ r \in Nat /\ r = Cardinality(Arrived(node)) + 1
  BY SMTT(30), <1>6, SimulatorAssumption DEF NextRequest
<1>8. n \in Block
  BY SimulatorAssumption
<1>9. Handled(w, 0)
  BY <1>1, <1>5
<1> HIDE DEF u, r
<1>10. NodeInv(u, Absent) /\ Thrifty(u) /\ Fields \subseteq DOMAIN u
  BY <1>3, Parts DEF Fetched
<1>11. Kept(u, w, r)
  BY <1>10, KeptOnArrival
<1>12. w.outcome = "running" => NodeInv(w, Absent) /\ Loyal(u, w, 0)
  <2> HIDE DEF w
  <2>1. w.outcome = "running" => NodeInv(w, Absent) /\ Tame(u, w)
    BY <1>7, <1>8, <1>10, OnArrivalOk DEF w
  <2>2. QED
    BY <2>1, TameLoyal
<1> HIDE DEF w
<1>13. Stepped(u, w, 0)
  BY <1>10, <1>11, <1>12, BooksStep DEF Kept
<1>14. w.now = due
  BY <1>3, <1>5, <1>11 DEF Kept, Books
<1>15. /\ Cardinality(Arrived(w)) \in Nat
       /\ Cardinality(Arrived(w)) <= r
  <2>1. Arrived(w) \subseteq Arrived(node) \cup {r}
    <3>1. u.runs = node.runs /\ DOMAIN u.runs = Request
      BY <1>3, <1>10 DEF Fetched, NodeInv, World
    <3>2. \A q \in Request \ {r} : w.runs[q] = node.runs[q]
      BY <1>11, <3>1 DEF Kept
    <3>3. QED
      BY <3>2 DEF Arrived
  <2>2. /\ IsFiniteSet(Arrived(node) \cup {r})
        /\ Cardinality(Arrived(node) \cup {r}) <= Cardinality(Arrived(node)) + 1
        /\ Cardinality(Arrived(node) \cup {r}) \in Nat
    BY <1>6, AddOne
  <2>3. QED
    BY <1>6, <1>7, <2>1, <2>2, FS_Subset, FS_CardinalityType
<1>16. DueOk(w, due')
  <2>1. CASE r = Cardinality(Request)
    <3>1. due' = Absent
      BY <2>1 DEF Arrival, r
    <3>2. QED
      BY <3>1 DEF DueOk
  <2>2. CASE r # Cardinality(Request)
    <3>1. PICK gap \in Gap : due' = due + gap
      BY <2>2 DEF Arrival, r
    <3>2. gap \in Nat
      BY SimulatorAssumption
    <3>3. Cardinality(Arrived(w)) < Cardinality(Request)
      BY <1>6, <1>7, <1>15, <2>2
    <3>4. QED
      BY <1>6, <1>14, <3>1, <3>2, <3>3 DEF DueOk
  <2>3. QED
    BY <2>1, <2>2
<1>17. TickOk(w, tick')
  <2>1. tick' = tick /\ TickOk(node, tick)
    BY <1>2 DEF Arrival, Alive
  <2>2. QED
    BY <1>4, <1>5, <1>14, <2>1 DEF TickOk
<1>18. QED
  BY <1>2, <1>3, <1>9, <1>13, <1>16, <1>17, HandledOk

(* The loop takes an event off the heap: what is to be shown of its        *)
(* handler.                                                                *)
LEMMA OnStep ==
    ASSUME LoopInv, NEW kind, NEW e \in Popped(kind), NEW u, Fetched(u), u.now = e.time,
           NEW w, NEW i, Handled(w, i), Stepped(u, w, i), w.outcome = "running" => Unmoved(u, w),
           due' = due, tick' = tick
    PROVE  LoopInv'
<1>1. Alive
  BY DEF Popped, LoopInv
<1>2. ASSUME w.outcome = "running"
      PROVE  DueOk(w, due') /\ TickOk(w, tick')
  <2>1. w.now = u.now
    BY <1>2 DEF Stepped, Loyal
  <2>2. QED
    BY <1>1, <1>2, <2>1, TimesStay
<1>3. QED
  BY <1>1, <1>2, HandledOk

\* The first event e is of this kind, and its handler begins in u.
Handling(kind, e, u) ==
    /\ e \in Popped(kind) /\ u = Taken(e) /\ Fetched(u) /\ u.now = e.time
    /\ NodeInv(u, Absent) /\ Thrifty(u) /\ Fields \subseteq DOMAIN u
    /\ kind \in Kinds \ {Copying} =>
          e.id \in Request /\ (kind = "SERVICE_START" => u.runs[e.id].pod \in Pod)

(* Every event has a state in which its handler starts.                    *)
LEMMA Handles ==
    ASSUME LoopInv, NEW kind, NEW e \in Popped(kind)
    PROVE  \E u : Handling(kind, e, u)
<1>1. Alive
  BY DEF Popped, LoopInv
<1> DEFINE u == Taken(e)
<1>2. /\ Fetched(u) /\ u.now = e.time
      /\ kind \in Kinds \ {Copying} =>
            e.id \in Request /\ (kind = "SERVICE_START" => u.runs[e.id].pod \in Pod)
  BY <1>1, TakenOk
<1>3. u = Taken(e)
  OBVIOUS
<1> HIDE DEF u
<1>4. Handling(kind, e, u)
  BY <1>2, <1>3, Parts DEF Handling, Fetched
<1>5. QED
  BY <1>4

(* The loop takes a TRANSFER_ENQUEUE.                                      *)
LEMMA EnqueueStep ==
    ASSUME LoopInv, Enqueue
    PROVE  LoopInv'
<1> DEFINE kind == "TRANSFER_ENQUEUE"
<1>1. PICK e \in Popped(kind) : Handled(Schedule(Taken(e), Taken(e).now, "TRANSFER_ADMIT", e.id), 0)
  BY DEF Enqueue, On
<1>2. PICK u : Handling(kind, e, u)
  BY Handles
<1>3. e.id \in Request /\ due' = due /\ tick' = tick
  BY <1>2 DEF Handling, Kinds, Copying, Enqueue, On
<1> DEFINE w == Schedule(u, u.now, "TRANSFER_ADMIT", e.id)
<1>4. Handled(w, 0)
  BY <1>1, <1>2 DEF Handling
<1>5. Books(u, w)
  BY <1>2, KeptSchedule DEF Handling, Kept
<1>6. w.outcome = "running" => NodeInv(w, Absent) /\ Loyal(u, w, 0) /\ Unmoved(u, w)
  <2>1. "TRANSFER_ADMIT" \in Kinds \ {Copying} /\ u.now \in Nat /\ u.now >= u.now
    BY <1>2, Parts DEF Handling, Kinds, Copying
  <2>2. NodeInv(w, Absent) /\ Tame(u, w)
    BY <1>2, <1>3, <2>1, ScheduleOk DEF Handling
  <2>3. w.runs = u.runs
    BY <1>2 DEF Handling, Schedule, Fields
  <2>4. QED
    BY <2>2, <2>3, TameLoyal DEF Unmoved
<1> HIDE DEF w
<1>7. Stepped(u, w, 0)
  BY <1>2, <1>5, <1>6, BooksStep DEF Handling
<1>8. QED
  BY <1>2, <1>3, <1>4, <1>6, <1>7, OnStep DEF Handling

(* The loop takes a TRANSFER_ADMIT.                                        *)
LEMMA AdmitStepOk ==
    ASSUME LoopInv, Admit
    PROVE  LoopInv'
<1> DEFINE kind == "TRANSFER_ADMIT"
<1>1. PICK e \in Popped(kind) : Handled(OnAdmit(Taken(e), e.id), 0)
  BY DEF Admit, On
<1>2. PICK u : Handling(kind, e, u)
  BY Handles
<1>3. e.id \in Request /\ due' = due /\ tick' = tick
  BY <1>2 DEF Handling, Kinds, Copying, Admit, On
<1> DEFINE w == OnAdmit(u, e.id)
<1>4. Handled(w, 0)
  BY <1>1, <1>2 DEF Handling
<1>5. Books(u, w)
  <2>1. Len(u.gate) \in Nat
    BY <1>2, Parts, LenProperties DEF Handling
  <2>2. QED
    BY <1>2, <2>1, KeptAdmit DEF Handling
<1>6. w.outcome = "running" => NodeInv(w, Absent) /\ Loyal(u, w, 0) /\ Unmoved(u, w)
  <2> DEFINE v == w
  <2> HIDE DEF w
  <2>1. w.outcome = "running" => NodeInv(w, Absent) /\ Tame(u, w) /\ Unmoved(u, w)
    BY <1>2, <1>3, OnAdmitOk DEF Handling, w
  <2>2. QED
    BY <2>1, TameLoyal
<1> HIDE DEF w
<1>7. Stepped(u, w, 0)
  BY <1>2, <1>5, <1>6, BooksStep DEF Handling
<1>8. QED
  BY <1>2, <1>3, <1>4, <1>6, <1>7, OnStep DEF Handling

(* The loop takes a TRANSFER_TIMEOUT.                                      *)
LEMMA ExpireStep ==
    ASSUME LoopInv, Expire
    PROVE  LoopInv'
<1> DEFINE kind == "TRANSFER_TIMEOUT"
<1>1. PICK e \in Popped(kind) : Handled(OnTimeout(Taken(e), e.id), 0)
  BY DEF Expire, On
<1>2. PICK u : Handling(kind, e, u)
  BY Handles
<1>3. e.id \in Request /\ due' = due /\ tick' = tick
  BY <1>2 DEF Handling, Kinds, Copying, Expire, On
<1> DEFINE w == OnTimeout(u, e.id)
<1>4. Handled(w, 0)
  BY <1>1, <1>2 DEF Handling
<1>5. Books(u, w)
  BY <1>2, KeptTimeout DEF Handling, Kept
<1>6. w.outcome = "running" => NodeInv(w, Absent) /\ Loyal(u, w, 0) /\ Unmoved(u, w)
  <2> HIDE DEF w
  <2>1. w.outcome = "running" => NodeInv(w, Absent) /\ Tame(u, w) /\ Unmoved(u, w)
    BY <1>2, <1>3, OnTimeoutOk DEF Handling, w
  <2>2. QED
    BY <2>1, TameLoyal
<1> HIDE DEF w
<1>7. Stepped(u, w, 0)
  BY <1>2, <1>5, <1>6, BooksStep DEF Handling
<1>8. QED
  BY <1>2, <1>3, <1>4, <1>6, <1>7, OnStep DEF Handling

(* The loop takes a TRANSFER_COMPLETE.                                     *)
LEMMA CompleteStep ==
    ASSUME LoopInv, Complete
    PROVE  LoopInv'
<1> DEFINE kind == "TRANSFER_COMPLETE"
<1>1. PICK e \in Popped(kind) : Handled(OnComplete(Taken(e), e.id), 0)
  BY DEF Complete, On
<1>2. PICK u : Handling(kind, e, u)
  BY Handles
<1>3. e.id \in Request /\ due' = due /\ tick' = tick
  BY <1>2 DEF Handling, Kinds, Copying, Complete, On
<1> DEFINE w == OnComplete(u, e.id)
<1>4. Handled(w, 0)
  BY <1>1, <1>2 DEF Handling
<1>5. Books(u, w)
  BY <1>2, KeptComplete DEF Handling, Kept
<1>6. w.outcome = "running" => NodeInv(w, Absent) /\ Loyal(u, w, 0) /\ Unmoved(u, w)
  <2> HIDE DEF w
  <2>1. QED
    BY <1>2, <1>3, OnCompleteOk DEF Handling, w
<1> HIDE DEF w
<1>7. Stepped(u, w, 0)
  BY <1>2, <1>5, <1>6, BooksStep DEF Handling
<1>8. QED
  BY <1>2, <1>3, <1>4, <1>6, <1>7, OnStep DEF Handling

(* The loop takes a SERVICE_DONE.                                          *)
LEMMA ServiceDoneStep ==
    ASSUME LoopInv, ServiceDone
    PROVE  LoopInv'
<1> DEFINE kind == "SERVICE_DONE"
<1>1. PICK e \in Popped(kind) : Handled(OnServiceDone(Taken(e), e.id), 0)
  BY DEF ServiceDone, On
<1>2. PICK u : Handling(kind, e, u)
  BY Handles
<1>3. e.id \in Request /\ due' = due /\ tick' = tick
  BY <1>2 DEF Handling, Kinds, Copying, ServiceDone, On
<1> DEFINE w == OnServiceDone(u, e.id)
<1>4. Handled(w, 0)
  BY <1>1, <1>2 DEF Handling
<1>5. Books(u, w)
  BY <1>2, KeptServiceDone DEF Handling, Kept
<1>6. w.outcome = "running" => NodeInv(w, Absent) /\ Loyal(u, w, 0) /\ Unmoved(u, w)
  <2> HIDE DEF w
  <2>1. QED
    BY <1>2, <1>3, OnServiceDoneOk DEF Handling, w
<1> HIDE DEF w
<1>7. Stepped(u, w, 0)
  BY <1>2, <1>5, <1>6, BooksStep DEF Handling
<1>8. QED
  BY <1>2, <1>3, <1>4, <1>6, <1>7, OnStep DEF Handling

(* The loop takes a SERVICE_START.                                         *)
LEMMA ServiceStartStep ==
    ASSUME LoopInv, ServiceStart
    PROVE  LoopInv'
<1> DEFINE kind == "SERVICE_START"
<1>1. PICK e \in Popped(kind) : Handled(OnServiceStart(Taken(e), e.id), 0)
  BY DEF ServiceStart, On
<1>2. PICK u : Handling(kind, e, u)
  BY Handles
<1>3. e.id \in Request /\ u.runs[e.id].pod \in Pod /\ due' = due /\ tick' = tick
  BY <1>2 DEF Handling, Kinds, Copying, ServiceStart, On
<1> DEFINE w == OnServiceStart(u, e.id)
<1>4. Handled(w, 0)
  BY <1>1, <1>2 DEF Handling
<1>5. /\ w.outcome \in {"running", "assertion", "refused"} /\ Fields \subseteq DOMAIN w
      /\ w.outcome = "running" => NodeInv(w, Absent)
      /\ w.outcome # "assertion" =>
            /\ CachesOk(w) /\ Loyal(u, w, 0) /\ Unmoved(u, w) /\ SameCopies(u, w)
            /\ w.tokens = u.tokens /\ w.refilled = u.refilled
  <2> HIDE DEF w
  <2>1. QED
    BY <1>2, <1>3, OnServiceStartOk DEF Handling, w
<1> HIDE DEF w
<1>6. w.outcome # "assertion" => Paid(u, w)
  BY <1>5 DEF Paid, SamePlans, SameCopies
<1>7. Stepped(u, w, 0)
  BY <1>2, <1>5, <1>6, PaidStep DEF Handling
<1>8. QED
  BY <1>2, <1>3, <1>4, <1>5, <1>7, OnStep DEF Handling

(* The loop takes a PROACTIVE_TRANSFER_COMPLETE.                           *)
LEMMA CopiedStep ==
    ASSUME LoopInv, Copied
    PROVE  LoopInv'
<1>1. PICK e \in Popped(Copying) : Handled(OnCopied(Taken(e), e.id), e.id)
  BY DEF Copied, Copying
<1>2. PICK u : Handling(Copying, e, u)
  BY Handles
<1>3. due' = due /\ tick' = tick
  BY DEF Copied
<1>4. /\ e.id \in DOMAIN u.copies /\ u.copies[e.id].active
      /\ \A j \in DOMAIN u.events : u.events[j].kind = Copying => u.events[j].id # e.id
  <2>1. Alive
    BY DEF Popped, LoopInv
  <2>2. QED
    BY <1>2, <2>1, TakenOk DEF Handling
<1> DEFINE w == OnCopied(u, e.id)
<1>5. Handled(w, e.id)
  BY <1>1, <1>2 DEF Handling
<1>6. /\ w.outcome \in {"running", "assertion"} /\ Fields \subseteq DOMAIN w
      /\ w.outcome = "running" =>
            /\ NodeInv(w, Absent) /\ Loyal(u, w, e.id) /\ Unmoved(u, w) /\ SamePlans(u, w)
            /\ w.tokens = u.tokens /\ w.refilled = u.refilled
  <2> HIDE DEF w
  <2>1. QED
    BY <1>2, <1>4, OnCopiedOk DEF Handling, w
<1> HIDE DEF w
<1>7. w.outcome # "assertion" => CachesOk(w) /\ Paid(u, w)
  BY <1>6, NodeCaches DEF Paid
<1>8. Stepped(u, w, e.id)
  BY <1>2, <1>6, <1>7, PaidStep DEF Handling
<1>9. QED
  BY <1>2, <1>3, <1>5, <1>6, <1>8, OnStep DEF Handling

(* The loop takes a TRIGGER_TICK.                                          *)
LEMMA TriggerStep ==
    ASSUME LoopInv, Trigger
    PROVE  LoopInv'
<1> DEFINE kind == "TRIGGER_TICK"
<1>1. PICK e \in Popped(kind) : Handled(OnTick(Taken(e)), 0)
  BY DEF Trigger
<1>2. PICK u : Handling(kind, e, u)
  BY Handles
<1>3. Alive /\ mode \in Mode
  BY <1>1 DEF Popped, LoopInv
<1>4. tick # Absent /\ e.time = tick
  BY <1>3, PoppedFacts DEF TickEvent
<1>5. tick \in Nat /\ tick < TriggerEnd
  BY <1>3, <1>4 DEF Alive, TickOk
<1> DEFINE w == OnTick(u)
<1>6. Handled(w, 0)
  BY <1>1, <1>2 DEF Handling
<1>7. /\ w.outcome \in {"running", "assertion"} /\ Fields \subseteq DOMAIN w
      /\ w.outcome = "running" => NodeInv(w, Absent) /\ Thrifty(w) /\ Browsed(u, w)
  <2> HIDE DEF w
  <2>1. u.now <= TriggerEnd
    BY <1>2, <1>4, <1>5, LoopFacts DEF Handling
  <2>2. QED
    BY <1>2, <1>3, <2>1, OnTickOk DEF Handling, w
<1> HIDE DEF w
<1>8. w.outcome = "running" => CachesOk(w) /\ Loyal(u, w, 0) /\ Unmoved(u, w) /\ Within(w)
  BY <1>7, NodeCaches, BrowsedLoyal DEF Thrifty
<1>9. Stepped(u, w, 0)
  BY <1>7, <1>8 DEF Stepped
<1>10. due' = due /\ tick' = IF tick + Period < TriggerEnd THEN tick + Period ELSE Absent
  BY DEF Trigger
<1>11. ASSUME w.outcome = "running"
       PROVE  DueOk(w, due') /\ TickOk(w, tick')
  <2>1. w.now = u.now /\ w.now = tick
    BY <1>2, <1>4, <1>8, <1>11 DEF Loyal, Handling
  <2>2. DueOk(w, due)
    BY <1>2, <1>3, <1>8, <1>11, <2>1, TimesStay DEF Handling
  <2>3. TickOk(w, tick')
    BY <1>5, <1>10, <2>1, LoopFacts DEF TickOk
  <2>4. QED
    BY <1>10, <2>2, <2>3
<1>12. Fetched(u)
  BY <1>2 DEF Handling
<1>13. QED
  BY <1>3, <1>6, <1>9, <1>11, <1>12, HandledOk

Closing(w, v, outcome) == v = [w EXCEPT !.outcome = outcome]

(* The last step touches credits and the outcome.                          *)
LEMMA ClosingFacts ==
    ASSUME NEW w \in World, NEW outcome, NEW v, Closing(w, v, outcome)
    PROVE  /\ v.pods = w.pods /\ v.runs = w.runs /\ v.copies = w.copies /\ v.gone = w.gone
           /\ v.replicas = w.replicas /\ v.outcome = outcome
BY DEF Closing, World

(* The end of the run.                                                     *)
LEMMA FinishStep ==
    ASSUME LoopInv, Finish
    PROVE  LoopInv'
<1>1. Alive /\ mode' = mode /\ mode \in Mode /\ brought' = brought
  BY DEF Finish, LoopInv
<1> DEFINE w == Reconciled(node)
           outcome == IF Balanced THEN "done" ELSE "assertion"
<1>2. Closing(w, node', outcome)
  BY DEF Finish, Closing
<1>3. outcome \in {"done", "assertion"}
  OBVIOUS
<1> HIDE DEF w, outcome
<1>4. node \in World /\ NodeInv(node, Absent) /\ Thrifty(node)
  BY <1>1 DEF Alive, NodeInv
<1>5. /\ w \in World /\ SameCopies(node, w)
      /\ w.pods = node.pods /\ w.runs = node.runs /\ w.gone = node.gone
      /\ \A p \in Pod : \A x \in Block :
            w.replicas[p][x] = IF x \in node.gone[p] THEN 0 ELSE node.replicas[p][x]
  BY <1>4, ReconciledOk DEF w
<1>6. /\ node'.pods = node.pods /\ node'.runs = node.runs /\ node'.copies = w.copies
      /\ node'.gone = node.gone /\ node'.replicas = w.replicas /\ node'.outcome = outcome
  BY <1>2, <1>5, ClosingFacts
<1>7. node'.outcome \in Outcomes /\ node'.outcome # "running"
  BY <1>3, <1>6 DEF Outcomes
<1>8. CachesOk(node)'
  BY <1>4, <1>6, NodeCaches DEF CachesOk, HitOf
<1>9. Within(node)'
  <2>1. SamePlans(node, node')
    BY <1>5, <1>6 DEF SamePlans, SameCopies
  <2>2. Within(node')
    BY <1>4, <2>1, WithinSame DEF Thrifty
  <2>3. QED
    BY <2>2 DEF Within, Spent, Cost
<1>10. CreditIsDue'
  <2>1. CreditIsDue
    BY <1>4 DEF LoopInv, NodeInv
  <2>2. \A p \in Pod : Pages(node, p)' = Pages(node, p) /\ node.gone[p] \cap Pages(node, p) = {}
    BY <1>1, <1>6 DEF Pages, Alive
  <2>3. QED
    BY <1>1, <1>5, <1>6, <2>1, <2>2 DEF CreditIsDue
<1>11. QED
  BY <1>1, <1>7, <1>8, <1>9, <1>10 DEF LoopInv

-----------------------------------------------------------------------------
(* The start *)

(* A pod at the start.                                                     *)
LEMMA EmptyPodOk ==
    /\ EmptyPod \in PodRecord
    /\ EmptyPod.cache = EmptyPrefixCache /\ EmptyPod.running = Absent /\ EmptyPod.busy = Absent
    /\ ~EmptyPod.sends /\ ~EmptyPod.receives /\ EmptyPod.queue = <<>>
    /\ EmptyPod.pressure = [r \in Request |-> 0]
<1>1. EmptyPrefixCache \in PrefixCache
  BY EmptyCacheOk DEF CacheOk
<1>2. <<>> \in Seq(Request)
  BY EmptySeq
<1> HIDE DEF EmptyPrefixCache
<1>3. EmptyPod \in PodRecord
  BY <1>1, <1>2, RequestFacts DEF EmptyPod, PodRecord
<1>4. QED
  BY <1>3 DEF EmptyPod

(* A request before its arrival.                                           *)
LEMMA EmptyRunOk ==
    /\ EmptyRun \in RunRecord
    /\ EmptyRun.state = "NONE" /\ EmptyRun.owner = Absent /\ EmptyRun.pod = Absent
    /\ EmptyRun.ticket.state = "NONE" /\ EmptyRun.ticket.owner = Absent
<1>1. Absent \in Int /\ Root \in Node
  BY RequestFacts DEF Node
<1>2. NoTicket \in TicketRecord /\ NoTransfer \in TransferRecord
  BY <1>1 DEF NoTicket, TicketRecord, TicketStates, NoTransfer, TransferRecord
<1>3. EmptyRun \in RunRecord
  <2>1. "NONE" \in RunStates /\ "UNCLASSIFIED" \in Gates
    BY DEF RunStates, Gates
  <2> HIDE DEF NoTicket, NoTransfer, Absent, Gates, RunStates
  <2>2. QED
    BY <1>1, <1>2, <2>1 DEF EmptyRun, RunRecord
<1>4. QED
  BY <1>3 DEF EmptyRun, NoTicket

\* A node where nothing has happened.
Fresh0(w) ==
    /\ w.now = 0 /\ w.outcome = "running" /\ w.gate = <<>> /\ w.events = <<>> /\ w.copies = <<>>
    /\ w.pods = [p \in Pod |-> EmptyPod] /\ w.runs = [r \in Request |-> EmptyRun]
    /\ w.tokens = Burst /\ w.refilled = 0
    /\ w.replicas = NoPages /\ w.gone = [p \in Pod |-> {}]

(* The first state, by its fields.                                         *)
LEMMA InitialNode ==
    ASSUME Init
    PROVE  node \in World /\ Fresh0(node)
<1>1. /\ Cardinality(Request) \in Nat /\ Burst \in Nat
      /\ [p \in Pod |-> EmptyPod] \in [Pod -> PodRecord]
      /\ [r \in Request |-> EmptyRun] \in [Request -> RunRecord]
      /\ <<>> \in Seq(Request) /\ <<>> \in Seq(EventRecord) /\ <<>> \in Seq(CopyRecord)
      /\ NoStats \in StatsRecord
      /\ NoPages \in [Pod -> [Block -> Int]] /\ [p \in Pod |-> {}] \in [Pod -> SUBSET Block]
  <2>1. Cardinality(Request) \in Nat /\ Burst \in Nat
    BY RequestFacts, FS_CardinalityType, LoopFacts
  <2>2. <<>> \in Seq(Request) /\ <<>> \in Seq(EventRecord) /\ <<>> \in Seq(CopyRecord)
    BY EmptySeq
  <2>3. [p \in Pod |-> EmptyPod] \in [Pod -> PodRecord]
    BY EmptyPodOk
  <2>4. [r \in Request |-> EmptyRun] \in [Request -> RunRecord]
    BY EmptyRunOk
  <2>5. NoStats \in StatsRecord
    BY DEF NoStats, StatsRecord
  <2>6. NoPages \in [Pod -> [Block -> Int]] /\ [p \in Pod |-> {}] \in [Pod -> SUBSET Block]
    BY DEF NoPages
  <2>7. QED
    BY <2>1, <2>2, <2>3, <2>4, <2>5, <2>6
<1> HIDE DEF NoPages, NoStats, EmptyPod, EmptyRun
<1> DEFINE pods == [p \in Pod |-> EmptyPod]
           runs == [r \in Request |-> EmptyRun]
           gone == [p \in Pod |-> {}]
           next == IF mode.routing = "R_REACTIVE_ECT_V1" /\ mode.action # "NONE"
                     THEN Cardinality(Request) ELSE 0
<1>2. node = [now |-> 0, pods |-> pods, runs |-> runs,
               gate |-> <<>>, events |-> <<>>, copies |-> <<>>, nextTicket |-> 0,
               nextTransfer |-> next,
               tokens |-> Burst, refilled |-> 0, stats |-> NoStats,
               replicas |-> NoPages, gone |-> gone, outcome |-> "running"]
  BY DEF Init
<1>3. next \in Nat
  BY <1>1
<1> HIDE DEF next
<1>4. Fresh0(node)
  BY <1>2 DEF Fresh0
<1>5. pods \in [Pod -> PodRecord] /\ runs \in [Request -> RunRecord] /\ gone \in [Pod -> SUBSET Block]
  BY <1>1
<1> HIDE DEF pods, runs, gone
<1>6. node \in World
  BY <1>1, <1>2, <1>3, <1>5 DEF World, Outcomes
<1>7. QED
  BY <1>4, <1>6

(* The first caches are empty.                                             *)
LEMMA InitialCaches ==
    ASSUME NEW w, Fresh0(w)
    PROVE  /\ \A p \in Pod : w.pods[p] = EmptyPod /\ HitOf(w, p) = Root
           /\ \A p \in Pod : CacheOk(w.pods[p].cache, Root, Root)
           /\ \A p \in Pod : Pages(w, p) = {}
           /\ \A r \in Request : w.runs[r] = EmptyRun
           /\ Keys(w, Absent) = {} /\ DOMAIN w.copies = {} /\ DOMAIN w.events = {}
           /\ DOMAIN w.gate = {} /\ Arrived(w) = {}
<1>1. \A p \in Pod : w.pods[p] = EmptyPod /\ EmptyPod.running = Absent
  BY EmptyPodOk DEF Fresh0
<1>2. \A p \in Pod : CacheOk(w.pods[p].cache, Root, Root)
  BY <1>1, EmptyPodOk, EmptyCacheOk
<1>3. \A r \in Request : w.runs[r] = EmptyRun /\ EmptyRun.state = "NONE"
  BY EmptyRunOk DEF Fresh0
<1>4. DOMAIN w.copies = {} /\ DOMAIN w.events = {} /\ DOMAIN w.gate = {}
  BY DEF Fresh0
<1>5. Keys(w, Absent) = {}
  BY <1>3, <1>4 DEF Keys
<1>6. Arrived(w) = {}
  BY <1>3 DEF Arrived
<1>7. \A p \in Pod : Pages(w, p) = {}
  BY <1>1, EmptyPodOk DEF Pages, EmptyPrefixCache
<1>8. \A p \in Pod : HitOf(w, p) = Root
  BY <1>1 DEF HitOf
<1>9. QED
  BY <1>1, <1>2, <1>3, <1>4, <1>5, <1>6, <1>7, <1>8

(* The first state satisfies the invariant.                                *)
LEMMA InitialOk ==
    ASSUME NEW w \in World, Fresh0(w)
    PROVE  NodeInv(w, Absent) /\ Thrifty(w)
<1>1. /\ \A p \in Pod : w.pods[p] = EmptyPod /\ HitOf(w, p) = Root
      /\ \A p \in Pod : CacheOk(w.pods[p].cache, Root, Root)
      /\ \A r \in Request : w.runs[r] = EmptyRun
      /\ Keys(w, Absent) = {} /\ DOMAIN w.copies = {} /\ DOMAIN w.events = {}
      /\ DOMAIN w.gate = {}
  BY InitialCaches
<1>2. /\ EmptyPod.cache = EmptyPrefixCache /\ EmptyPod.running = Absent /\ EmptyPod.busy = Absent
      /\ ~EmptyPod.sends /\ ~EmptyPod.receives /\ DOMAIN EmptyPod.queue = {}
      /\ \A r \in Request : EmptyPod.pressure[r] = 0
  BY EmptyPodOk
<1>3. /\ EmptyRun.state = "NONE" /\ EmptyRun.owner = Absent /\ EmptyRun.pod = Absent
      /\ EmptyRun.ticket.state = "NONE" /\ EmptyRun.ticket.owner = Absent
  BY EmptyRunOk
<1>4. /\ DOMAIN EmptyPrefixCache.temporary = {} /\ EmptyPrefixCache.temporaryPages = 0
      /\ EmptyPrefixCache.privatePages = 0 /\ \A r \in Request : EmptyPrefixCache.private[r] = Absent
  BY DEF EmptyPrefixCache, NoTransfers
<1>5. Absent \notin Pod /\ Absent \notin Request
  BY RequestFacts
<1> HIDE DEF EmptyPod, EmptyRun, EmptyPrefixCache
<1>6. Lives(w)
  BY <1>1, <1>2, <1>3, <1>5 DEF Lives, LifeOf, In
<1>7. Ticketed(w, Absent)
  BY <1>1, <1>2, <1>3, <1>5 DEF Ticketed, NoDup, Bound, Settled, In
<1>8. Flying(w, Absent)
  BY <1>1, <1>2, <1>4 DEF Flying
<1>9. Serving(w)
  BY <1>1, <1>2, <1>4, <1>5 DEF Serving
<1>10. Posted(w)
  BY <1>1 DEF Posted
<1>11. NodeInv(w, Absent)
  BY <1>6, <1>7, <1>8, <1>9, <1>10 DEF NodeInv, Fresh0
<1>12. Thrifty(w)
  BY <1>1, LoopFacts DEF Thrifty, Within, Fresh0
<1>13. QED
  BY <1>11, <1>12

(* The loop starts with the invariant.                                     *)
LEMMA InitStep ==
    ASSUME Init
    PROVE  LoopInv
<1>1. node \in World /\ Fresh0(node)
  BY InitialNode
<1>2. NodeInv(node, Absent) /\ Thrifty(node)
  BY <1>1, InitialOk
<1>3. (\A p \in Pod : Pages(node, p) = {}) /\ Arrived(node) = {}
  BY <1>1, InitialCaches
<1>4. mode \in Mode /\ brought = NoPages /\ tick = FirstTick(mode)
      /\ due = IF Request = {} THEN Absent ELSE 0
  BY DEF Init
<1>5. node.now = 0 /\ node.replicas = NoPages /\ node.outcome = "running"
  BY <1>1 DEF Fresh0
<1>6. DueOk(node, due)
  <2>1. CASE Request = {}
    BY <1>4, <2>1 DEF DueOk
  <2>2. CASE Request # {}
    <3>1. Cardinality(Request) \in Nat /\ Cardinality(Request) # 0
      BY <2>2, RequestFacts, FS_EmptySet, FS_CardinalityType
    <3>2. Cardinality(Arrived(node)) = 0
      BY <1>3, FS_EmptySet
    <3>3. QED
      BY <1>4, <1>5, <2>2, <3>1, <3>2 DEF DueOk
  <2>3. QED
    BY <2>1, <2>2
<1>7. TickOk(node, tick)
  BY <1>4, <1>5, LoopFacts DEF TickOk, FirstTick
<1>8. Alive
  BY <1>2, <1>3, <1>6, <1>7 DEF Alive
<1>9. CreditIsDue
  BY <1>3, <1>4, <1>5 DEF CreditIsDue, NoPages
<1>10. CachesOk(node) /\ Within(node)
  BY <1>2, NodeCaches DEF Thrifty
<1>11. QED
  BY <1>4, <1>5, <1>8, <1>9, <1>10 DEF LoopInv, Outcomes

(* A step that changes nothing keeps the invariant.                        *)
LEMMA StutterStep ==
    ASSUME LoopInv, UNCHANGED vars
    PROVE  LoopInv'
<1>1. mode' = mode /\ node' = node /\ due' = due /\ tick' = tick /\ brought' = brought
  BY DEF vars
<1>2. node.outcome = "running" => Alive'
  <2>1. SUFFICES ASSUME node.outcome = "running" PROVE Alive'
    OBVIOUS
  <2>2. NodeInv(node', Absent) /\ Thrifty(node') /\ DueOk(node', due') /\ TickOk(node', tick')
        /\ \A p \in Pod : node'.gone[p] \cap Pages(node', p) = {}
    BY <1>1, <2>1 DEF LoopInv, Alive
  <2>3. NodeInv(node, Absent)'
    BY <1>1, <2>2, NodePrimed
  <2>4. Thrifty(node)'
    BY <2>2 DEF Thrifty, Within, Spent, Cost
  <2>5. DueOk(node, due)' /\ TickOk(node, tick)'
    BY <2>2 DEF DueOk, TickOk, Arrived
  <2>6. \A p \in Pod : (node.gone[p] \cap Pages(node, p) = {})'
    BY <2>2 DEF Pages
  <2>7. QED
    BY <2>3, <2>4, <2>5, <2>6 DEF Alive
<1>3. node.outcome # "assertion" => (CachesOk(node) /\ Within(node) /\ CreditIsDue)'
  <2>1. SUFFICES ASSUME node.outcome # "assertion" PROVE (CachesOk(node) /\ Within(node) /\ CreditIsDue)'
    OBVIOUS
  <2>2. CachesOk(node') /\ Within(node')
    BY <1>1, <2>1 DEF LoopInv
  <2>3. CachesOk(node)' /\ Within(node)'
    BY <2>2 DEF CachesOk, HitOf, Within, Spent, Cost
  <2>4. CreditIsDue'
    BY <1>1, <2>1 DEF LoopInv, CreditIsDue, Pages
  <2>5. QED
    BY <2>3, <2>4
<1>4. QED
  BY <1>1, <1>2, <1>3 DEF LoopInv

(* The invariant of the earlier simulator.                                 *)
THEOREM LegacyInvariant == Spec => []LoopInv
<1>1. Init => LoopInv
  BY InitStep
<1>2. LoopInv /\ [Next]_vars => LoopInv'
  <2>1. SUFFICES ASSUME LoopInv, [Next]_vars PROVE LoopInv'
    OBVIOUS
  <2>2. CASE Arrival
    BY <2>1, <2>2, ArrivalStep
  <2>3. CASE Enqueue
    BY <2>1, <2>3, EnqueueStep
  <2>4. CASE Admit
    BY <2>1, <2>4, AdmitStepOk
  <2>5. CASE Expire
    BY <2>1, <2>5, ExpireStep
  <2>6. CASE Complete
    BY <2>1, <2>6, CompleteStep
  <2>7. CASE ServiceStart
    BY <2>1, <2>7, ServiceStartStep
  <2>8. CASE ServiceDone
    BY <2>1, <2>8, ServiceDoneStep
  <2>9. CASE Trigger
    BY <2>1, <2>9, TriggerStep
  <2>10. CASE Copied
    BY <2>1, <2>10, CopiedStep
  <2>11. CASE Finish
    BY <2>1, <2>11, FinishStep
  <2>12. CASE UNCHANGED vars
    BY <2>1, <2>12, StutterStep
  <2>13. QED
    BY <2>1, <2>2, <2>3, <2>4, <2>5, <2>6, <2>7, <2>8, <2>9, <2>10, <2>11, <2>12 DEF Next
<1>3. QED
  BY <1>1, <1>2, PTL DEF Spec

(* A sum over nothing, and over one.                                       *)
LEMMA SmallSums ==
    ASSUME NEW f, NEW y
    PROVE  /\ DOMAIN f = {} => SumFunction(f) = 0
           /\ DOMAIN f = {y} /\ f[y] \in Nat => SumFunction(f) = f[y]
<1>1. IsFiniteSet({}) /\ SumFunctionOnSet(f, {}) = 0
  BY FS_EmptySet, SumStep
<1>2. DOMAIN f = {} => SumFunction(f) = 0
  BY <1>1 DEF SumFunction
<1>3. ASSUME DOMAIN f = {y} /\ f[y] \in Nat PROVE SumFunction(f) = f[y]
  <2>1. SumFunctionOnSet(f, {} \cup {y}) = SumFunctionOnSet(f, {}) + f[y]
    BY <1>1, <1>3, SumAdd
  <2>2. {} \cup {y} = {y}
    OBVIOUS
  <2>3. SumFunctionOnSet(f, {y}) = f[y]
    BY <1>1, <1>3, <2>1, <2>2
  <2>4. QED
    BY <1>3, <2>3 DEF SumFunction
<1>4. QED
  BY <1>2, <1>3

\* The keys of the transfers at one end of a pod.
KeysFrom(p) == {k \in Keys(node, Absent) : SourceOf(node, k) = p}
KeysTo(p) == {k \in Keys(node, Absent) : GoalOf(node, k) = p}

(* The transfers that Reactive and Proactive find are those with a key.    *)
LEMMA EndsAreKeys ==
    ASSUME NodeInv(node, Absent), NEW p \in Pod
    PROVE  /\ Reactive(p, "source") = {r \in KeysFrom(p) : r > 0}
           /\ Reactive(p, "target") = {r \in KeysTo(p) : r > 0}
           /\ Proactive(p, "source") = {i \in DOMAIN node.copies : -i \in KeysFrom(p)}
           /\ Proactive(p, "target") = {i \in DOMAIN node.copies : -i \in KeysTo(p)}
           /\ \A k \in KeysFrom(p) \cup KeysTo(p) :
                 k \in Int /\ (k > 0 => k \in Request) /\ (~(k > 0) => -k \in DOMAIN node.copies)
<1> DEFINE K == Keys(node, Absent)
<1>1. node \in World
  BY DEF NodeInv
<1>2. \A i \in DOMAIN node.copies : i \in Int /\ i > 0
  BY <1>1, LenProperties DEF World
<1>3. \A r \in Request : r \in Int /\ r > 0 /\ r # Absent
  BY RequestFacts
<1>4. \A k \in K : \/ k > 0 /\ k \in Request \ {Absent} /\ node.runs[k].state = "WAITING_TRANSFER"
                   \/ ~(k > 0) /\ k \in Int /\ -k \in DOMAIN node.copies /\ node.copies[-k].active
  BY <1>1, KeyFacts
<1>5. \A r \in WaitingFor(node) : r \in K /\ r > 0 /\ r \in Int
  BY <1>3 DEF WaitingFor, Keys
<1>6. \A i \in ActiveCopies(node) : i \in Int /\ -i \in K /\ i \in DOMAIN node.copies /\ ~(-i > 0) /\ -(-i) = i
  BY <1>2 DEF ActiveCopies, Keys
<1>7. \A k \in K : k > 0 => k \in WaitingFor(node)
  BY <1>4 DEF WaitingFor
<1>8. \A i \in DOMAIN node.copies : -i \in K => i \in ActiveCopies(node) /\ ~(-i > 0) /\ -(-i) = i
  <2>1. SUFFICES ASSUME NEW i \in DOMAIN node.copies, -i \in K
                 PROVE  i \in ActiveCopies(node) /\ ~(-i > 0) /\ -(-i) = i
    OBVIOUS
  <2>2. ~(-i > 0) /\ -(-i) = i
    BY <1>2
  <2>3. PICK k \in K : k = -i
    BY <2>1
  <2>4. node.copies[-k].active
    BY <1>4, <2>2, <2>3
  <2>5. -k = i
    BY <2>2, <2>3
  <2>6. QED
    BY <2>2, <2>4, <2>5 DEF ActiveCopies
<1>9. /\ \A r : r > 0 => (SourceOf(node, r) = node.runs[r].transfer.source
                           /\ GoalOf(node, r) = node.runs[r].transfer.target)
      /\ \A i \in DOMAIN node.copies : ~(-i > 0) /\ -(-i) = i =>
             (SourceOf(node, -i) = node.copies[i].source /\ GoalOf(node, -i) = node.copies[i].target)
  BY DEF SourceOf, GoalOf
<1> HIDE DEF K
<1>10. Reactive(p, "source") = {r \in KeysFrom(p) : r > 0}
  BY <1>5, <1>7, <1>9 DEF Reactive, KeysFrom, K
<1>11. Reactive(p, "target") = {r \in KeysTo(p) : r > 0}
  BY <1>5, <1>7, <1>9 DEF Reactive, KeysTo, K
<1>12. Proactive(p, "source") = {i \in DOMAIN node.copies : -i \in KeysFrom(p)}
  BY <1>6, <1>8, <1>9 DEF Proactive, KeysFrom, K
<1>13. Proactive(p, "target") = {i \in DOMAIN node.copies : -i \in KeysTo(p)}
  BY <1>6, <1>8, <1>9 DEF Proactive, KeysTo, K
<1>14. \A k \in K : k \in Int /\ (k > 0 => k \in Request) /\ (~(k > 0) => -k \in DOMAIN node.copies)
  BY <1>3, <1>4 DEF K
<1>15. KeysFrom(p) \subseteq K /\ KeysTo(p) \subseteq K
  BY DEF KeysFrom, KeysTo, K
<1>16. QED
  BY <1>10, <1>11, <1>12, <1>13, <1>14, <1>15

(* A pod that sends has one transfer to send, one that receives one to     *)
(* receive, and another none.                                              *)
LEMMA OneEnd ==
    ASSUME NodeInv(node, Absent), NEW p \in Pod
    PROVE  LET pod == node.pods[p]
           IN  /\ ~pod.sends => KeysFrom(p) = {}
               /\ ~pod.receives => KeysTo(p) = {}
               /\ pod.sends => \E k \in Keys(node, Absent) : KeysFrom(p) = {k}
               /\ pod.receives => \E k \in Keys(node, Absent) : KeysTo(p) = {k}
               /\ \A k \in KeysFrom(p) \cup KeysTo(p) : Flown(node, k) /\ pod.busy = IdOf(node, k)
               /\ ~(pod.sends /\ pod.receives)
               /\ pod.busy # Absent => pod.sends \/ pod.receives
               /\ pod.sends \/ pod.receives => pod.busy # Absent
<1> DEFINE pod == node.pods[p]
           K == Keys(node, Absent)
<1>1. Flying(node, Absent)
  BY DEF NodeInv
<1>2. \A k \in K : Flown(node, k)
  BY <1>1 DEF Flying
<1>3. \A k, l \in K : k # l => {SourceOf(node, k), GoalOf(node, k)} \cap {SourceOf(node, l), GoalOf(node, l)} = {}
  BY <1>1 DEF Flying
<1>4. /\ pod.busy # Absent => \E k \in K : p \in {SourceOf(node, k), GoalOf(node, k)}
      /\ pod.sends => pod.busy # Absent
      /\ pod.receives => pod.busy # Absent
  BY <1>1 DEF Flying
<1>5. \A k \in KeysFrom(p) : k \in K /\ pod.busy = IdOf(node, k) /\ pod.sends /\ ~pod.receives
  BY <1>2 DEF KeysFrom, Flown
<1>6. \A k \in KeysTo(p) : k \in K /\ pod.busy = IdOf(node, k) /\ pod.receives /\ ~pod.sends
  BY <1>2 DEF KeysTo, Flown
<1>7. pod.busy # Absent => \E k \in K : k \in KeysFrom(p) \cup KeysTo(p)
  BY <1>4 DEF KeysFrom, KeysTo
<1>8. \A k, l \in KeysFrom(p) : k = l
  BY <1>3 DEF KeysFrom
<1>9. \A k, l \in KeysTo(p) : k = l
  BY <1>3 DEF KeysTo
<1> HIDE DEF pod, K
<1>10. pod.sends => \E k \in K : KeysFrom(p) = {k}
  <2>1. SUFFICES ASSUME pod.sends PROVE \E k \in K : KeysFrom(p) = {k}
    OBVIOUS
  <2>2. PICK k \in K : k \in KeysFrom(p)
    BY <1>4, <1>6, <1>7, <2>1
  <2>3. QED
    BY <1>8, <2>2
<1>11. pod.receives => \E k \in K : KeysTo(p) = {k}
  <2>1. SUFFICES ASSUME pod.receives PROVE \E k \in K : KeysTo(p) = {k}
    OBVIOUS
  <2>2. PICK k \in K : k \in KeysTo(p)
    BY <1>4, <1>5, <1>7, <2>1
  <2>3. QED
    BY <1>9, <2>2
<1>12. ~(pod.sends /\ pod.receives)
  BY <1>4, <1>5, <1>6, <1>7
<1>13. QED
  BY <1>2, <1>4, <1>5, <1>6, <1>7, <1>10, <1>11, <1>12 DEF pod, K

(* One key is a request or a copy.                                         *)
LEMMA OneKey ==
    ASSUME NEW k \in Int, NEW C, \A i \in C : i \in Int /\ i > 0, ~(k > 0) => -k \in C
    PROVE  /\ k > 0 => {r \in {k} : r > 0} = {k} /\ {i \in C : -i \in {k}} = {}
           /\ ~(k > 0) => {r \in {k} : r > 0} = {} /\ {i \in C : -i \in {k}} = {-k}
<1>1. ASSUME k > 0 PROVE {r \in {k} : r > 0} = {k} /\ {i \in C : -i \in {k}} = {}
  <2>1. \A i \in C : -i # k
    BY <1>1
  <2>2. QED
    BY <1>1, <2>1
<1>2. ASSUME ~(k > 0) PROVE {r \in {k} : r > 0} = {} /\ {i \in C : -i \in {k}} = {-k}
  <2>1. \A i \in C : -i = k <=> i = -k
    OBVIOUS
  <2>2. {i \in C : -i \in {k}} = {-k}
    BY <1>2, <2>1
  <2>3. QED
    BY <1>2, <2>2
<1>3. QED
  BY <1>1, <1>2

(* The transfers at one end of a pod are none or one, a request's or a     *)
(* proactive copy.                                                         *)
LEMMA OneTransfer ==
    ASSUME NodeInv(node, Absent), NEW p \in Pod
    PROVE  LET pod == node.pods[p]
               from == Reactive(p, "source")
               out == Proactive(p, "source")
               to == Reactive(p, "target")
               in == Proactive(p, "target")
           IN  /\ ~pod.sends => from = {} /\ out = {}
               /\ ~pod.receives => to = {} /\ in = {}
               /\ pod.sends => \E k \in Int :
                     /\ Flown(node, k) /\ SourceOf(node, k) = p
                     /\ k > 0 => from = {k} /\ out = {}
                     /\ ~(k > 0) => from = {} /\ out = {-k}
               /\ pod.receives => \E k \in Int :
                     /\ Flown(node, k) /\ GoalOf(node, k) = p
                     /\ k > 0 => to = {k} /\ in = {}
                     /\ ~(k > 0) => to = {} /\ in = {-k}
<1> DEFINE C == DOMAIN node.copies
<1>1. \A i \in C : i \in Int /\ i > 0
  BY LenProperties DEF NodeInv, World
<1>2. /\ Reactive(p, "source") = {r \in KeysFrom(p) : r > 0}
      /\ Reactive(p, "target") = {r \in KeysTo(p) : r > 0}
      /\ Proactive(p, "source") = {i \in C : -i \in KeysFrom(p)}
      /\ Proactive(p, "target") = {i \in C : -i \in KeysTo(p)}
      /\ \A k \in KeysFrom(p) \cup KeysTo(p) : k \in Int /\ (~(k > 0) => -k \in C)
  BY EndsAreKeys
<1>3. /\ ~node.pods[p].sends => KeysFrom(p) = {}
      /\ ~node.pods[p].receives => KeysTo(p) = {}
      /\ node.pods[p].sends => \E k : KeysFrom(p) = {k}
      /\ node.pods[p].receives => \E k : KeysTo(p) = {k}
      /\ \A k \in KeysFrom(p) \cup KeysTo(p) : Flown(node, k)
  BY OneEnd
<1> HIDE DEF C
<1>4. ASSUME node.pods[p].sends
      PROVE  \E k \in Int :
                /\ Flown(node, k) /\ SourceOf(node, k) = p
                /\ k > 0 => Reactive(p, "source") = {k} /\ Proactive(p, "source") = {}
                /\ ~(k > 0) => Reactive(p, "source") = {} /\ Proactive(p, "source") = {-k}
  <2>1. PICK k : KeysFrom(p) = {k}
    BY <1>3, <1>4
  <2>2. k \in Int /\ (~(k > 0) => -k \in C) /\ Flown(node, k) /\ SourceOf(node, k) = p
    BY <1>2, <1>3, <2>1 DEF KeysFrom
  <2>3. /\ k > 0 => {r \in {k} : r > 0} = {k} /\ {i \in C : -i \in {k}} = {}
        /\ ~(k > 0) => {r \in {k} : r > 0} = {} /\ {i \in C : -i \in {k}} = {-k}
    BY <1>1, <2>2, OneKey
  <2>4. /\ Reactive(p, "source") = {r \in {k} : r > 0}
        /\ Proactive(p, "source") = {i \in C : -i \in {k}}
    BY <1>2, <2>1
  <2>5. QED
    BY <2>2, <2>3, <2>4
<1>5. ASSUME node.pods[p].receives
      PROVE  \E k \in Int :
                /\ Flown(node, k) /\ GoalOf(node, k) = p
                /\ k > 0 => Reactive(p, "target") = {k} /\ Proactive(p, "target") = {}
                /\ ~(k > 0) => Reactive(p, "target") = {} /\ Proactive(p, "target") = {-k}
  <2>1. PICK k : KeysTo(p) = {k}
    BY <1>3, <1>5
  <2>2. k \in Int /\ (~(k > 0) => -k \in C) /\ Flown(node, k) /\ GoalOf(node, k) = p
    BY <1>2, <1>3, <2>1 DEF KeysTo
  <2>3. /\ k > 0 => {r \in {k} : r > 0} = {k} /\ {i \in C : -i \in {k}} = {}
        /\ ~(k > 0) => {r \in {k} : r > 0} = {} /\ {i \in C : -i \in {k}} = {-k}
    BY <1>1, <2>2, OneKey
  <2>4. /\ Reactive(p, "target") = {r \in {k} : r > 0}
        /\ Proactive(p, "target") = {i \in C : -i \in {k}}
    BY <1>2, <2>1
  <2>5. QED
    BY <2>2, <2>3, <2>4
<1>6. /\ ~node.pods[p].sends => Reactive(p, "source") = {} /\ Proactive(p, "source") = {}
      /\ ~node.pods[p].receives => Reactive(p, "target") = {} /\ Proactive(p, "target") = {}
  BY <1>2, <1>3
<1>7. QED
  BY <1>4, <1>5, <1>6

\* The ids of the transfers at one end of a pod.
IdsAt(p, end) ==
    {node.runs[r].transfer.id : r \in Reactive(p, end)} \cup {node.copies[i].id : i \in Proactive(p, end)}

(* A page is pinned by the transfer its pod sends and by the request it    *)
(* serves.                                                                 *)
LEMMA PinsHeld ==
    ASSUME NodeInv(node, Absent), NEW p \in Pod, NEW x \in Block
    PROVE  node.pods[p].cache.pins[x] =
              Cardinality({r \in Reactive(p, "source") : x \in Chain[node.runs[r].transfer.path]})
              + Cardinality({i \in Proactive(p, "source") : x \in Chain[node.copies[i].path]})
              + (IF node.pods[p].running # Absent /\ x \in Chain[node.runs[node.pods[p].running].hit]
                   THEN 1 ELSE 0)
<1> DEFINE pins == node.pods[p].cache.pins
           R == {r \in Reactive(p, "source") : x \in Chain[node.runs[r].transfer.path]}
           C == {i \in Proactive(p, "source") : x \in Chain[node.copies[i].path]}
           served == IF node.pods[p].running # Absent /\ x \in Chain[node.runs[node.pods[p].running].hit]
                       THEN 1 ELSE 0
<1>1. /\ ~node.pods[p].sends => Reactive(p, "source") = {} /\ Proactive(p, "source") = {}
      /\ node.pods[p].sends => \E k \in Int :
            /\ Flown(node, k) /\ SourceOf(node, k) = p
            /\ k > 0 => Reactive(p, "source") = {k} /\ Proactive(p, "source") = {}
            /\ ~(k > 0) => Reactive(p, "source") = {} /\ Proactive(p, "source") = {-k}
  BY OneTransfer
<1>2. Chain[Root] = {} /\ Cardinality({}) = 0 /\ \A y : Cardinality({y}) = 1
  BY ChainAssumption, FS_EmptySet, FS_Singleton
<1>3. (IF x \in Chain[HitOf(node, p)] THEN 1 ELSE 0) = served
  BY <1>2 DEF HitOf
<1>4. served \in {0, 1}
  BY SMTT(30)
<1>5. CASE ~node.pods[p].sends
  <2>1. CacheOk(node.pods[p].cache, Root, HitOf(node, p))
    BY <1>5 DEF NodeInv, Flying
  <2>2. pins[x] = (IF x \in Chain[Root] THEN 1 ELSE 0) + (IF x \in Chain[HitOf(node, p)] THEN 1 ELSE 0)
    BY <2>1 DEF CacheOk, PinnedBy
  <2>3. pins[x] = 0 + served
    BY <1>2, <1>3, <2>2
  <2>4. R = {} /\ C = {}
    BY <1>1, <1>5
  <2> HIDE DEF R, C, served, pins
  <2>5. pins[x] = Cardinality(R) + Cardinality(C) + served
    BY <1>2, <1>4, <2>3, <2>4
  <2>6. QED
    BY <2>5 DEF R, C, served, pins
<1>6. CASE node.pods[p].sends
  <2>1. PICK k \in Int :
            /\ Flown(node, k) /\ SourceOf(node, k) = p
            /\ k > 0 => Reactive(p, "source") = {k} /\ Proactive(p, "source") = {}
            /\ ~(k > 0) => Reactive(p, "source") = {} /\ Proactive(p, "source") = {-k}
    BY <1>1, <1>6
  <2> DEFINE sent == IF x \in Chain[PathOf(node, k)] THEN 1 ELSE 0
  <2>2. CacheOk(node.pods[p].cache, PathOf(node, k), HitOf(node, p))
    BY <2>1 DEF Flown
  <2>3. pins[x] = sent + (IF x \in Chain[HitOf(node, p)] THEN 1 ELSE 0)
    BY <2>2 DEF CacheOk, PinnedBy
  <2>4. pins[x] = sent + served
    BY <1>3, <2>3
  <2>5. CASE k > 0
    <3>1. C = {}
      BY <2>1, <2>5
    <3>2. R = IF x \in Chain[PathOf(node, k)] THEN {k} ELSE {}
      BY <2>1, <2>5 DEF PathOf
    <3>3. Cardinality(R) = sent
      BY <1>2, <3>2
    <3> HIDE DEF R, C, served, pins, sent
    <3>4. sent \in {0, 1}
      BY DEF sent
    <3>5. pins[x] = Cardinality(R) + Cardinality(C) + served
      BY <1>2, <1>4, <2>4, <3>1, <3>3, <3>4
    <3>6. QED
      BY <3>5 DEF R, C, served, pins
  <2>6. CASE ~(k > 0)
    <3>1. R = {}
      BY <2>1, <2>6
    <3>2. C = IF x \in Chain[PathOf(node, k)] THEN {-k} ELSE {}
      BY <2>1, <2>6 DEF PathOf
    <3>3. Cardinality(C) = sent
      BY <1>2, <3>2
    <3> HIDE DEF R, C, served, pins, sent
    <3>4. sent \in {0, 1}
      BY DEF sent
    <3>5. pins[x] = Cardinality(R) + Cardinality(C) + served
      BY <1>2, <1>4, <2>4, <3>1, <3>3, <3>4
    <3>6. QED
      BY <3>5 DEF R, C, served, pins
  <2>7. QED
    BY <2>5, <2>6
<1>7. QED
  BY <1>5, <1>6

(* The temporary pages are those of the transfer its pod receives.         *)
LEMMA WiresHeld ==
    ASSUME NodeInv(node, Absent), NEW p \in Pod
    PROVE  node.pods[p].cache.temporaryPages =
              SumFunction([r \in Reactive(p, "target") |-> Depth(node.runs[r].transfer.path)])
              + SumFunction([i \in Proactive(p, "target") |-> Depth(node.copies[i].path)])
<1> DEFINE wires == node.pods[p].cache.temporaryPages
           f == [r \in Reactive(p, "target") |-> Depth(node.runs[r].transfer.path)]
           g == [i \in Proactive(p, "target") |-> Depth(node.copies[i].path)]
<1>1. /\ ~node.pods[p].receives => Reactive(p, "target") = {} /\ Proactive(p, "target") = {}
      /\ node.pods[p].receives => \E k \in Int :
            /\ Flown(node, k) /\ GoalOf(node, k) = p
            /\ k > 0 => Reactive(p, "target") = {k} /\ Proactive(p, "target") = {}
            /\ ~(k > 0) => Reactive(p, "target") = {} /\ Proactive(p, "target") = {-k}
  BY OneTransfer
<1>2. DOMAIN f = Reactive(p, "target") /\ DOMAIN g = Proactive(p, "target")
  OBVIOUS
<1>3. CASE ~node.pods[p].receives
  <2>1. wires = 0
    BY <1>3 DEF NodeInv, Flying
  <2>2. DOMAIN f = {} /\ DOMAIN g = {}
    BY <1>1, <1>2, <1>3
  <2> HIDE DEF f, g, wires
  <2>3. SumFunction(f) = 0 /\ SumFunction(g) = 0
    BY <2>2, SmallSums
  <2>4. QED
    BY <2>1, <2>3 DEF f, g, wires
<1>4. CASE node.pods[p].receives
  <2>1. PICK k \in Int :
            /\ Flown(node, k) /\ GoalOf(node, k) = p
            /\ k > 0 => Reactive(p, "target") = {k} /\ Proactive(p, "target") = {}
            /\ ~(k > 0) => Reactive(p, "target") = {} /\ Proactive(p, "target") = {-k}
    BY <1>1, <1>4
  <2> DEFINE d == Depth(PathOf(node, k))
  <2>2. wires = d /\ PathOf(node, k) \in Node
    BY <2>1 DEF Flown
  <2>3. d \in Nat
    BY <2>2, ChainFacts
  <2>4. CASE k > 0
    <3>1. DOMAIN f = {k} /\ DOMAIN g = {}
      BY <1>2, <2>1, <2>4
    <3>2. f[k] = d
      BY <2>1, <2>4 DEF PathOf
    <3> HIDE DEF f, g, wires, d
    <3>3. SumFunction(f) = d /\ SumFunction(g) = 0
      BY <2>3, <3>1, <3>2, SmallSums
    <3>4. wires = SumFunction(f) + SumFunction(g)
      BY <2>2, <2>3, <3>3
    <3>5. QED
      BY <3>4 DEF f, g, wires
  <2>5. CASE ~(k > 0)
    <3>1. DOMAIN f = {} /\ DOMAIN g = {-k}
      BY <1>2, <2>1, <2>5
    <3>2. g[-k] = d
      BY <2>1, <2>5 DEF PathOf
    <3> HIDE DEF f, g, wires, d
    <3>3. SumFunction(f) = 0 /\ SumFunction(g) = d
      BY <2>3, <3>1, <3>2, SmallSums
    <3>4. wires = SumFunction(f) + SumFunction(g)
      BY <2>2, <2>3, <3>3
    <3>5. QED
      BY <3>4 DEF f, g, wires
  <2>6. QED
    BY <2>4, <2>5
<1>5. QED
  BY <1>3, <1>4

(* An end of a pod is taken by the transfer the pod is busy with.          *)
LEMMA IdsHeld ==
    ASSUME NodeInv(node, Absent), NEW p \in Pod
    PROVE  LET pod == node.pods[p]
           IN  /\ IdsAt(p, "source") = IF pod.sends THEN {pod.busy} ELSE {}
               /\ IdsAt(p, "target") = IF pod.receives THEN {pod.busy} ELSE {}
<1>1. /\ ~node.pods[p].sends => Reactive(p, "source") = {} /\ Proactive(p, "source") = {}
      /\ ~node.pods[p].receives => Reactive(p, "target") = {} /\ Proactive(p, "target") = {}
      /\ node.pods[p].sends => \E k \in Int :
            /\ Flown(node, k) /\ SourceOf(node, k) = p
            /\ k > 0 => Reactive(p, "source") = {k} /\ Proactive(p, "source") = {}
            /\ ~(k > 0) => Reactive(p, "source") = {} /\ Proactive(p, "source") = {-k}
      /\ node.pods[p].receives => \E k \in Int :
            /\ Flown(node, k) /\ GoalOf(node, k) = p
            /\ k > 0 => Reactive(p, "target") = {k} /\ Proactive(p, "target") = {}
            /\ ~(k > 0) => Reactive(p, "target") = {} /\ Proactive(p, "target") = {-k}
  BY OneTransfer
<1>2. \A k : Flown(node, k) /\ p \in {SourceOf(node, k), GoalOf(node, k)} => node.pods[p].busy = IdOf(node, k)
  BY DEF Flown
<1>3. \A k \in Int : IdOf(node, k) = IF k > 0 THEN node.runs[k].transfer.id ELSE node.copies[-k].id
  BY DEF IdOf
<1>4. IdsAt(p, "source") = IF node.pods[p].sends THEN {node.pods[p].busy} ELSE {}
  <2>1. CASE ~node.pods[p].sends
    BY <1>1, <2>1 DEF IdsAt
  <2>2. CASE node.pods[p].sends
    <3>1. PICK k \in Int :
              /\ Flown(node, k) /\ SourceOf(node, k) = p
              /\ k > 0 => Reactive(p, "source") = {k} /\ Proactive(p, "source") = {}
              /\ ~(k > 0) => Reactive(p, "source") = {} /\ Proactive(p, "source") = {-k}
      BY <1>1, <2>2
    <3>2. node.pods[p].busy = IdOf(node, k)
      BY <1>2, <3>1
    <3>3. IdsAt(p, "source") = {IdOf(node, k)}
      BY <1>3, <3>1 DEF IdsAt
    <3>4. QED
      BY <2>2, <3>2, <3>3
  <2>3. QED
    BY <2>1, <2>2
<1>5. IdsAt(p, "target") = IF node.pods[p].receives THEN {node.pods[p].busy} ELSE {}
  <2>1. CASE ~node.pods[p].receives
    BY <1>1, <2>1 DEF IdsAt
  <2>2. CASE node.pods[p].receives
    <3>1. PICK k \in Int :
              /\ Flown(node, k) /\ GoalOf(node, k) = p
              /\ k > 0 => Reactive(p, "target") = {k} /\ Proactive(p, "target") = {}
              /\ ~(k > 0) => Reactive(p, "target") = {} /\ Proactive(p, "target") = {-k}
      BY <1>1, <2>2
    <3>2. node.pods[p].busy = IdOf(node, k)
      BY <1>2, <3>1
    <3>3. IdsAt(p, "target") = {IdOf(node, k)}
      BY <1>3, <3>1 DEF IdsAt
    <3>4. QED
      BY <2>2, <3>2, <3>3
  <2>3. QED
    BY <2>1, <2>2
<1>6. QED
  BY <1>4, <1>5

(* What the invariant of a running simulator says of pins, reservations,   *)
(* endpoints and announced load.                                           *)
LEMMA HoldsFollow ==
    ASSUME node.outcome = "running" => NodeInv(node, Absent)
    PROVE  HoldsAccounted
<1>1. SUFFICES ASSUME NodeInv(node, Absent), node.outcome = "running" PROVE HoldsAccounted
  BY DEF HoldsAccounted
<1>2. ASSUME NEW p \in Pod
      PROVE  LET pod == node.pods[p]
             IN  /\ \A x \in Block : pod.cache.pins[x] =
                       Cardinality({r \in Reactive(p, "source") : x \in Chain[node.runs[r].transfer.path]})
                       + Cardinality({i \in Proactive(p, "source") : x \in Chain[node.copies[i].path]})
                       + (IF pod.running # Absent /\ x \in Chain[node.runs[pod.running].hit] THEN 1 ELSE 0)
                 /\ pod.cache.temporaryPages =
                       SumFunction([r \in Reactive(p, "target") |-> Depth(node.runs[r].transfer.path)])
                       + SumFunction([i \in Proactive(p, "target") |-> Depth(node.copies[i].path)])
  BY <1>1, <1>2, PinsHeld, WiresHeld
<1>3. ASSUME NEW p \in Pod
      PROVE  LET pod == node.pods[p]
             IN  /\ pod.busy = Absent => IdsAt(p, "source") \cup IdsAt(p, "target") = {}
                 /\ pod.busy # Absent => IdsAt(p, "source") \cup IdsAt(p, "target") = {pod.busy}
                 /\ pod.sends <=> IdsAt(p, "source") # {}
                 /\ pod.receives <=> IdsAt(p, "target") # {}
  <2>1. /\ IdsAt(p, "source") = IF node.pods[p].sends THEN {node.pods[p].busy} ELSE {}
        /\ IdsAt(p, "target") = IF node.pods[p].receives THEN {node.pods[p].busy} ELSE {}
    BY <1>1, <1>3, IdsHeld
  <2>2. /\ node.pods[p].busy # Absent => node.pods[p].sends \/ node.pods[p].receives
        /\ node.pods[p].sends \/ node.pods[p].receives => node.pods[p].busy # Absent
    BY <1>1, <1>3, OneEnd
  <2>3. node.pods[p].sends \in BOOLEAN /\ node.pods[p].receives \in BOOLEAN
    BY <1>1, <1>3 DEF NodeInv, World, PodRecord
  <2>4. QED
    BY <2>1, <2>2, <2>3
<1>4. ASSUME NEW p \in Pod, NEW r \in Request
      PROVE  /\ node.pods[p].cache.private[r] # Absent <=> node.pods[p].running = r
             /\ node.pods[p].pressure[r] > 0 <=> node.runs[r].ticket.owner = p
  <2>1. node.pods[p].cache.private[r] # Absent <=> node.pods[p].running = r
    BY <1>1, <1>4 DEF NodeInv, Serving
  <2>2. node.pods[p].pressure[r] > 0 <=> node.runs[r].ticket.owner = p
    BY <1>1, <1>4 DEF NodeInv, Ticketed, Bound
  <2>3. QED
    BY <2>1, <2>2
<1>5. ASSUME NEW r \in Request
      PROVE  /\ node.runs[r].ticket.owner # Absent <=>
                   node.runs[r].ticket.state \in {"QUEUED", "TRANSFER_RUNNING"}
             /\ r \in Range(node.gate) <=> node.runs[r].ticket.state = "QUEUED"
  <2>1. Settled(node, r)
    BY <1>1, <1>5, RequestFacts DEF NodeInv, Ticketed
  <2>2. r \in Range(node.gate) <=> In(node.gate, r)
    BY DEF Range, In
  <2>3. QED
    BY <2>1, <2>2 DEF Settled
<1>6. QED
  BY ZenonT(40), <1>1, <1>2, <1>3, <1>4, <1>5 DEF HoldsAccounted, IdsAt

(* The counters and the room of every cache of the pool.                   *)
LEMMA CountersFollow ==
    ASSUME CachesOk(node)
    PROVE  CountersAgree /\ AdmissionExact
<1>1. ASSUME NEW p \in Pod
      PROVE  LET held == node.pods[p].cache
                 running == node.pods[p].running
                 pinned == {x \in Block : held.pins[x] > 0}
             IN  /\ held.resident = Cardinality(held.pages)
                 /\ held.pinned = Cardinality(pinned) /\ pinned \subseteq held.pages
                 /\ held.privatePages = IF running = Absent THEN 0 ELSE held.private[running]
                 /\ MemoryUsed(held) <= Capacity
                 /\ \A x \in held.pages : Parent[x] \in held.pages \cup {Root}
  <2> DEFINE held == node.pods[p].cache
             h == HitOf(node, p)
  <2>1. PICK m : CacheOk(held, m, h)
    BY <1>1 DEF CachesOk
  <2>2. held.privatePages = IF node.pods[p].running = Absent THEN 0 ELSE held.private[node.pods[p].running]
    BY <1>1 DEF CachesOk
  <2> HIDE DEF held, h
  <2>3. Counted(held) /\ Closed(held.pages) /\ PinnedBy(held, m, h)
    BY <2>1 DEF CacheOk
  <2>4. {x \in Block : held.pins[x] > 0} \subseteq held.pages
    <3>1. SUFFICES ASSUME NEW x \in Block, held.pins[x] > 0 PROVE x \in held.pages
      OBVIOUS
    <3>2. x \in Chain[m] \cup Chain[h]
      BY <2>3, <3>1 DEF PinnedBy
    <3>3. QED
      BY <2>3, <3>2 DEF PinnedBy
  <2>5. QED
    BY <2>2, <2>3, <2>4 DEF Counted, Closed, held
<1>2. ASSUME NEW p \in Pod
      PROVE  LET held == node.pods[p].cache
                 most == Capacity - held.pinned - held.privatePages - held.temporaryPages
             IN  most >= 0 => Admitted(held, most)
  <2> DEFINE held == node.pods[p].cache
             h == HitOf(node, p)
             most == Capacity - held.pinned - held.privatePages - held.temporaryPages
  <2>1. PICK m : CacheOk(held, m, h)
    BY <1>2 DEF CachesOk
  <2> HIDE DEF held, h
  <2>2. held.pinned \in Int /\ held.privatePages \in Int /\ held.temporaryPages \in Int /\ Capacity \in Nat
    BY <2>1, SizeAssumption DEF CacheOk, PrefixCache
  <2>3. ASSUME most >= 0 PROVE Admitted(held, most)
    <3>1. most \in Nat /\ CanAdmit(held, most)
      BY <2>2, <2>3 DEF CanAdmit
    <3> HIDE DEF most
    <3>2. QED
      BY <2>1, <3>1, RoomOk
  <2>4. QED
    BY <2>3 DEF held
<1>3. QED
  BY <1>1, <1>2 DEF CountersAgree, AdmissionExact

(* HoldsAccounted for every trace and every size of the pool.              *)
THEOREM HoldsStayAccounted == Spec => []HoldsAccounted
<1>1. LoopInv => HoldsAccounted
  BY HoldsFollow DEF LoopInv, Alive
<1>2. QED
  BY <1>1, LegacyInvariant, PTL

(* CountersAgree until an assertion fails, when nothing is promised.       *)
THEOREM CountersStay == Spec => [](node.outcome # "assertion" => CountersAgree)
<1>1. LoopInv => (node.outcome # "assertion" => CountersAgree)
  BY CountersFollow DEF LoopInv
<1>2. QED
  BY <1>1, LegacyInvariant, PTL

(* can_admit_temporary tells the truth: the half of PreflightExact that is *)
(* about the cache.                                                        *)
THEOREM AdmissionStaysExact == Spec => [](node.outcome # "assertion" => AdmissionExact)
<1>1. LoopInv => (node.outcome # "assertion" => AdmissionExact)
  BY CountersFollow DEF LoopInv
<1>2. QED
  BY <1>1, LegacyInvariant, PTL

(* BudgetKept for every burst, every rate and every number of ticks.       *)
THEOREM BudgetStaysKept == Spec => [](node.outcome # "assertion" => BudgetKept)
<1>1. LoopInv => (node.outcome # "assertion" => BudgetKept)
  BY DEF LoopInv, Within, Spent, Cost, BudgetKept
<1>2. QED
  BY <1>1, LegacyInvariant, PTL

(* CreditIsDue: a page is credited to the copy that brought it.            *)
THEOREM CreditStaysDue == Spec => [](node.outcome # "assertion" => CreditIsDue)
<1>1. LoopInv => (node.outcome # "assertion" => CreditIsDue)
  BY DEF LoopInv
<1>2. QED
  BY <1>1, LegacyInvariant, PTL
=============================================================================
