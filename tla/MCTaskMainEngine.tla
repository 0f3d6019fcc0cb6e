-------------------------- MODULE MCTaskMainEngine --------------------------
(* A small cluster for TLC; the pods, the requests and the trie are in the
   configurations and in SmallTrie. *)
EXTENDS TaskMainEngine, SmallTrie
=============================================================================
