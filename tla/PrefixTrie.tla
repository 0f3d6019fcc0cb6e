----------------------------- MODULE PrefixTrie -----------------------------
(***************************************************************************)
(* The universe of prompt pages a trace may mention.                       *)
(*                                                                         *)
(* A request carries a list of page hashes, block_ids.  validate_requests  *)
(* (task_main/trace.py) gives every hash one identity, its parent, its     *)
(* index and its token count, for the whole replay, so the lists are the   *)
(* root-to-node paths of ONE tree.  A path is therefore named by its last  *)
(* page: a node, with Root standing for the empty path.  block_ids[:k] is  *)
(* the node at depth k of the path, len(path) is Depth.                    *)
(***************************************************************************)
EXTENDS Naturals, FiniteSets

CONSTANTS
    Block,      \* the page hashes of the trace
    Root,       \* the empty path; not a page
    Parent,     \* Parent[b] is the page before b in every path that holds b
    Chain,      \* Chain[n] is the set of pages of the path that ends in n
    FullPage    \* the pages that hold PAGE_TOKENS tokens

Node == Block \cup {Root}

ASSUME BlockAssumption == IsFiniteSet(Block) /\ Root \notin Block

ASSUME ParentAssumption == Parent \in [Block -> Node]

ASSUME ChainAssumption ==
    /\ Chain \in [Node -> SUBSET Block]
    /\ Chain[Root] = {}
    /\ \A b \in Block : /\ b \notin Chain[Parent[b]]
                        /\ Chain[b] = Chain[Parent[b]] \cup {b}
    /\ \A n \in Node : \A a \in Chain[n] : Chain[a] \subseteq Chain[n]

\* Only the last page of a request may be partial, and its token count is part
\* of its identity: no path goes on below a partial page.
ASSUME PartialTailAssumption ==
    /\ FullPage \subseteq Block
    /\ \A b \in Block : Parent[b] \in FullPage \cup {Root}

(* len(path) *)
Depth(n) == Cardinality(Chain[n])

(* The prefixes of path n, the empty one and n itself included. *)
Prefixes(n) == {m \in Node : Chain[m] \subseteq Chain[n]}

(* The pages of path n before the first page outside S: what a walk along  *)
(* the path that stops there has seen.                                     *)
PagesWithin(n, S) == {b \in Chain[n] : Chain[b] \subseteq S}

(* The prefix of path n that holds those pages. *)
LongestWithin(n, S) == CHOOSE m \in Prefixes(n) : Chain[m] = PagesWithin(n, S)

(* full_page_prefix: a partial tail never travels on the wire. *)
FullPagePrefix(n) == LongestWithin(n, FullPage)
=============================================================================
