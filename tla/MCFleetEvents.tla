---- MODULE MCFleetEvents ----
(* A behaviour has a few disturbances, at any points.                       *)
EXTENDS FleetEvents, TLC

CONSTANTS
    Disturbances,
    Connected   \* the nodes that the controller has connected to
VARIABLE left

MCInit == Init /\ left = Disturbances
MCNext ==
    /\ \/ Undisturbed /\ UNCHANGED left
       \/ Disturbance /\ left > 0 /\ left' = left - 1
    /\ \A p \in Managed \ Connected : feeds'[p] = feeds[p]
MCSpec == MCInit /\ [][MCNext]_<<vars, left>> /\ Fairness
====
