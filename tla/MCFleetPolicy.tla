---- MODULE MCFleetPolicy ----
(* The settings change, and the controller restarts, a few times.           *)
EXTENDS FleetPolicy

CONSTANT Changes
VARIABLE left

MCInit == Init /\ left = Changes
MCNext ==
    \/ Undisturbed /\ UNCHANGED left
    \/ (Settings \/ Restart) /\ left > 0 /\ left' = left - 1
MCSpec == MCInit /\ [][MCNext]_<<vars, left>> /\ Fairness
====
