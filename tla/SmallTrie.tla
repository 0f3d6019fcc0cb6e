----------------------------- MODULE SmallTrie ------------------------------
(***************************************************************************)
(* A trie of four pages for TLC: two branches under page a, one of them a  *)
(* partial tail, and a page of its own.                                    *)
(*                                                                         *)
(*     Root -- a -- b                                                      *)
(*          |    `- c   (partial)                                          *)
(*          `- d                                                           *)
(***************************************************************************)
EXTENDS PrefixTrie, TLC

CONSTANTS a, b, c, d

Trie == a :> Root @@ b :> a @@ c :> a @@ d :> Root

Paths == Root :> {} @@ a :> {a} @@ b :> {a, b} @@ c :> {a, c} @@ d :> {d}

Order == a :> 1 @@ b :> 2 @@ c :> 3 @@ d :> 4

MCParent == [x \in Block |-> Trie[x]]

MCChain == [n \in Node |-> Paths[n]]

MCRank == [x \in Block |-> Order[x]]

MCTokens == [x \in Block |-> IF x \in FullPage THEN 3 ELSE 1]
=============================================================================
