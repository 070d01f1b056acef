---- MODULE MCManagerUpdate ----
(* Two worker slots, since a request may be stored while the worker of an  *)
(* older one still holds the lock; or one worker, and a manager and shells *)
(* that operate the server meanwhile.                                      *)
EXTENDS ManagerUpdate, TLC

CONSTANTS w1, w2
VARIABLE quiet  \* does nobody operate the server?

MCInit == Init /\ quiet \in BOOLEAN

MCNext ==
    /\ Next /\ UNCHANGED quiet
    /\ quiet => ~op' /\ lifecycle' = "free"
    /\ ~quiet => workers'[w2] = NoWorker

MCFairSpec == MCInit /\ [][MCNext]_<<vars, quiet>> /\ Fairness
====
