--------------------------- MODULE FetchQueueLive ---------------------------
(***************************************************************************)
(* FetchQueue for TLC's liveness runs: a budget of environment steps.       *)
(* Requests, interventions and faults that never stop could starve any      *)
(* queue; once the budget is spent the system is left alone and has to come *)
(* to rest.                                                                 *)
(***************************************************************************)
EXTENDS FetchQueue

CONSTANT MaxEvents   \* bound: steps the environment takes in a behaviour

ASSUME MaxEventsAssumption == MaxEvents \in Nat

VARIABLE budget      \* environment steps left

BoundedVars == <<vars, budget>>

BoundedInit == Init /\ budget = MaxEvents

BoundedNext ==
    \/ SystemStep /\ UNCHANGED budget
    \/ EnvironmentStep /\ budget > 0 /\ budget' = budget - 1

BoundedSpec == BoundedInit /\ [][BoundedNext]_BoundedVars /\ Fairness
=============================================================================
