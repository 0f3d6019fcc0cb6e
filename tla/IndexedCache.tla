---------------------------- MODULE IndexedCache ----------------------------
(***************************************************************************)
(* The cache of Stage 2, task_main/stage2/cache.py, over the calls of      *)
(* TaskMainCache.  An opportunity records the summary of every pod, with a *)
(* digest over all its pages, so the pieces a summary is made of are kept: *)
(* the encoded row of each page is written anew by the calls that touch    *)
(* it, evictions are encoded a chunk at a time, pinned pages are counted,  *)
(* and the whole summary is kept until the version moves.                  *)
(*                                                                         *)
(* A digest is as good as what it is taken of, and stands for it here.     *)
(* The rows are joined by chunks of pages in the order of the pages, which *)
(* is the order the canonical snapshot has: static_metadata numbers every  *)
(* page of the trace.  The peaks are left out, and so are the sets of      *)
(* changed pages that keep assert_invariants short.                        *)
(***************************************************************************)
EXTENDS TaskMainCache, Integers

CONSTANT ChunkSize  \* evictions encoded together

ASSUME ChunkAssumption == ChunkSize \in Nat \ {0}

VARIABLES
    evicted,  \* eviction_records: <<page, generation>> in order
    rows,     \* the encoded rows, by page
    pinned,   \* _pins_count
    encoded,  \* _eviction_chunks, one after the other
    memo      \* _memo_version and _memo

kept == <<evicted, rows, pinned, encoded, memo>>

indexedvars == <<vars, kept>>

-----------------------------------------------------------------------------
(* What a summary says *)

\* page_state, without the parent, which the page fixes
PageState(c, x) == <<c.pins[x], c.stamp[x], c.generation[x]>>

SummaryOf(c, states, pins, evictions) ==
    [published |-> Cardinality(c.pages), temporary |-> TemporaryPages(c), pinned |-> pins,
     digest |-> <<states, c.temporary, c.version, c.accesses, c.births, evictions>>]

(* TaskMainCache.summary: everything is read from the pages. *)
Summary(c, evictions) ==
    SummaryOf(c, [x \in c.pages |-> PageState(c, x)],
              Cardinality({x \in c.pages : c.pins[x] > 0}), evictions)

(* IndexedCache.summary *)
Reported ==
    IF memo.version = cache.version THEN memo.summary
    ELSE SummaryOf(cache, rows, pinned, encoded)

-----------------------------------------------------------------------------
(* Calls *)

IndexedInit ==
    /\ Init
    /\ evicted = << >> /\ encoded = << >>
    /\ rows = [x \in {} |-> << >>]
    /\ pinned = 0
    /\ memo = [version |-> -1, summary |-> << >>]

(* _refresh_bytes *)
RefreshBytes(blocks) ==
    rows' = [x \in (DOMAIN rows \ blocks) \cup (blocks \cap cache'.pages) |->
                IF x \in blocks THEN PageState(cache', x) ELSE rows[x]]

(* _evict: the last chunk is encoded again if it was not full. *)
RecordEvictions(s) ==
    /\ evicted' = evicted \o [i \in DOMAIN s |-> <<s[i], cache.generation[s[i]]>>]
    /\ encoded' = LET full == (Len(encoded) \div ChunkSize) * ChunkSize
                  IN  SubSeq(encoded, 1, full) \o SubSeq(evicted', full + 1, Len(evicted'))

Memoize ==
    memo' = [version |-> cache'.version, summary |-> SummaryOf(cache', rows', pinned', encoded')]

IndexedReserve(t) ==
    /\ Reserve(t)
    /\ RecordEvictions(offer[t].evictions)
    /\ RefreshBytes(Victims(offer[t]))
    /\ UNCHANGED pinned
    /\ Memoize

IndexedPublish(u) ==
    /\ Publish(u)
    /\ RecordEvictions(draft[u].evictions)
    /\ RefreshBytes(Victims(draft[u]) \cup Chain[draft[u].path])
    /\ UNCHANGED <<pinned, memo>>

IndexedComplete(t) ==
    /\ Complete(t)
    /\ RefreshBytes(Chain[wire[t]])
    /\ UNCHANGED <<evicted, encoded, pinned>>
    /\ Memoize

\* Mutant: every page of the path counts as pinned anew.
NewlyPinnedAll(n) == Chain[n]

NewlyPinned(n) == {x \in Chain[n] : cache.pins[x] = 0}

IndexedPin(u, n) ==
    /\ PinPath(u, n)
    /\ pinned' = pinned + Cardinality(NewlyPinned(n))
    /\ RefreshBytes(Chain[n])
    /\ UNCHANGED <<evicted, encoded>>
    /\ Memoize

NewlyFree(n) == {x \in Chain[n] : cache.pins[x] = 1}

IndexedUnpin(u) ==
    /\ UnpinPath(u)
    /\ pinned' = pinned - Cardinality(NewlyFree(held[u]))
    /\ RefreshBytes(Chain[held[u]])
    /\ UNCHANGED <<evicted, encoded>>
    /\ Memoize

IndexedReuse(n) ==
    /\ Reuse(n)
    /\ RefreshBytes(Chain[n])
    /\ UNCHANGED <<evicted, encoded, pinned, memo>>

(* Plans are made and dropped without a trace. *)
Preflight ==
    /\ \/ \E t \in Transfer : DiscardOffer(t) \/ \E n \in Block : PreflightTransfer(t, n)
       \/ \E u \in User : DiscardDraft(u) \/ \E n \in Node : PreflightPrompt(u, n)
    /\ UNCHANGED kept

IndexedNext ==
    \/ Preflight
    \/ \E t \in Transfer : IndexedReserve(t) \/ IndexedComplete(t)
    \/ \E u \in User : \/ IndexedPublish(u)
                       \/ IndexedUnpin(u)
                       \/ \E n \in Node : IndexedPin(u, n)
    \/ \E n \in Node : IndexedReuse(n)

IndexedSpec == IndexedInit /\ [][IndexedNext]_indexedvars

-----------------------------------------------------------------------------
(* Properties *)

(* A summary put together from what earlier calls left is the one a walk   *)
(* over the cache would make: every call that touches a page writes its    *)
(* row, in particular those that touch pages as a side effect of making    *)
(* room, a page pinned by several callers counts once, no eviction is      *)
(* encoded twice or skipped at the end of a chunk, and no call leaves a    *)
(* kept summary valid that it has outdated (full_check of stage2/cache.py, *)
(* "all policy-visible data and SHA256 snapshot bytes match").             *)
SummaryExact == Reported = Summary(cache, evicted)
=============================================================================
