--------------------------- MODULE MCStage2Engine ---------------------------
(* A small cluster for the engine with the residence index. *)
EXTENDS Stage2Engine, SmallTrie
=============================================================================
