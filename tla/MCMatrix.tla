------------------------------ MODULE MCMatrix ------------------------------
(* Two cases that form a gate; the replays of one line before the other's. *)
EXTENDS MatrixRunner

CONSTANTS line5, line7

MCGate == {<<line5, line7>>}
MCRank == [j \in Job |-> (IF j[1] = line5 THEN 0 ELSE 2) + j[2]]
=============================================================================
