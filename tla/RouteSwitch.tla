---------------------------- MODULE RouteSwitch -----------------------------
(***************************************************************************)
(* The routes of the capacity study: the baselines of                      *)
(* task_main/stage0/engine.py, which keep one routing policy, and the      *)
(* ablation of task_main/stage2/engine.py, which exchanges one for the     *)
(* other at a fixed arrival time.  None of them copies proactively.        *)
(* _with_route decides by the arrival of the request, on arrival and again *)
(* when it is finished, so a request that waits for a transfer across the  *)
(* switch is finished as it was routed.                                    *)
(*                                                                         *)
(* The residence index is kept up here too, but nothing reads it.          *)
(***************************************************************************)
EXTENDS CapacityStudyEngine

CONSTANTS
    Schedule,  \* the schedules studied: "C", "D" or a routing policy that is kept
    SwitchAt   \* the arrival time of the switch, in ticks

ASSUME ScheduleAssumption ==
    /\ Schedule \subseteq {"C", "D", "R_AFF", "R_LEAST", "R_REQ_KV_TASK"}
    /\ SwitchAt \in Nat

VARIABLE schedule  \* the schedule of this replay

switchvars == <<vars, schedule>>

\* Mutant: the switch comes after the requests of its own time.
RouteAtLate(arrival) ==
    IF schedule \in {"C", "D"}
      THEN IF (schedule = "C") = (arrival > SwitchAt) THEN "R_AFF" ELSE "R_REQ_KV_TASK"
      ELSE schedule

(* route_at *)
RouteAt(arrival) ==
    IF schedule \in {"C", "D"}
      THEN IF (schedule = "C") = (arrival >= SwitchAt) THEN "R_AFF" ELSE "R_REQ_KV_TASK"
      ELSE schedule

(* The configuration of the study is part of the initial states. *)
SwitchInit == PureQueries /\ ProactivePolicy = "NONE" /\ Init /\ schedule \in Schedule

(* _arrive: under R_LEAST that of stage0/engine.py, otherwise the one of   *)
(* the frozen engine.                                                      *)
ArriveBy(route, r, n) ==
    IF route = "R_LEAST"
      THEN ArriveLeast(r, n)
      ELSE \/ ArriveAtSource(r, n, route)
           \/ ArriveDirect(r, n, route)
           \/ ArriveCopy(r, n, route)

SwitchNext ==
    /\ \/ Tick
       \/ Deliver
       \/ Protect
       \/ ResumeActual
       \/ BatchDone
       \/ \E r \in Request, n \in Block : ArriveBy(RouteAt(now), r, n)
       \/ ArrivalsDone
       \/ Stop
    /\ UNCHANGED schedule

SwitchSpec == SwitchInit /\ [][SwitchNext]_switchvars

-----------------------------------------------------------------------------
(* Properties *)

(* Under schedule C no request that arrives at the switch or after it is   *)
(* handed to another pod, under D none that arrives before, even though    *)
(* transfers that were started under one route end under the other.        *)
SwitchHonoured ==
    \A a \in served \cup pending \cup batch :
        (schedule \in {"C", "D"} /\ a.pod # a.source) =>
            \A e \in load.entries : e.request = a.request =>
                IF schedule = "C" THEN e.time < SwitchAt ELSE e.time >= SwitchAt

=============================================================================
