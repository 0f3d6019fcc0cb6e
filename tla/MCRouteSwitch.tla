--------------------------- MODULE MCRouteSwitch ----------------------------
(* A small cluster for the routes of the study. *)
EXTENDS RouteSwitch, SmallTrie
=============================================================================
