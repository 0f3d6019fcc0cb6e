------------------------------ MODULE MCReplay ------------------------------
(***************************************************************************)
(* The matrix on two pods and a few ticks of trace.  The pages are those   *)
(* of SmallTrie with the partial tail under d, so that two requests of two *)
(* pages have nothing in common:                                           *)
(*                                                                         *)
(*     Root -- a -- b                                                      *)
(*          `- d -- c   (partial)                                          *)
(***************************************************************************)
EXTENDS Utilization, SmallTrie

MCTail == [x \in Block |-> IF x = c THEN d ELSE MCParent[x]]

MCTailChain == [n \in Node |-> IF n = c THEN {d, c} ELSE MCChain[n]]

MCDecay == [age \in 0 .. 12 |-> 2 ^ (12 - age)]

\* One page is in the first bucket, a page and a tail are at a bound and in
\* the second, two pages are at the bound that is inclusive.
MCBounds == << 4, 5, 5, 5, 6 >>

MCWeights == << 13, 25, 53, 89, 113, 152 >>
=============================================================================
