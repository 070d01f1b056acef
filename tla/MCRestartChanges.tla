---- MODULE MCRestartChanges ----
(* RestartPlans with one plan switched on. *)
EXTENDS MCRestartPlans

\* One plan, whichever it is, against the administrator, the files and the
\* restarts of the manager.
VARIABLE only

Alone ==
    /\ SwitchedOn \subseteq {only}
    /\ OffIsScheduled
    /\ only # "auto" => offer = {}
SinglesInit == Init /\ only \in Kinds /\ Alone
SinglesNext ==
    /\ Next
    /\ UNCHANGED only
    /\ \A k \in Kinds \ {only} : loop'[k] = loop[k]
    /\ Alone'
SinglesSpec == SinglesInit /\ [][SinglesNext]_<<vars, only>>

NeededSingly == <<Needed, only>>
====
