-------------------------- MODULE MCStageD2Engine ---------------------------
(* A small cluster for the engine with moves. *)
EXTENDS StageD2Engine, SmallTrie
=============================================================================
