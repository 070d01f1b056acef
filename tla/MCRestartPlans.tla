---- MODULE MCRestartPlans ----
(* Constants of RestartPlans for TLC: two notices stand for the six. *)
EXTENDS RestartPlans

MCNoticeAt == <<2, 1>>

\* Two plans against each other, whichever they are.
SwitchedOn ==
    {k \in Kinds : \/ k = "mod" /\ settings.mod
                   \/ k = "auto" /\ settings.auto # {}
                   \/ k = "sched" /\ settings.sched}
\* The policy of a plan that is off has one value.
OffIsScheduled ==
    /\ settings.mod \/ settings.modPolicy = "scheduled"
    /\ \A p \in Products \ settings.auto : settings.autoPolicy[p] = "scheduled"
PairsInit ==
    /\ Init /\ OffIsScheduled
    /\ Cardinality(SwitchedOn) = 2
    /\ ~(settings.modPolicy = "when_empty" /\ settings.autoPolicy["steam"] = "when_empty")
\* The loop of a plan that stays off does nothing and is left out.
PairsNext ==
    /\ Next
    /\ \A k \in Kinds \ SwitchedOn : loop'[k] = loop[k]
    /\ "auto" \notin SwitchedOn => offer' = {}
PairsSpec == PairsInit /\ [][PairsNext]_vars
FairPairsSpec == PairsSpec /\ Fairness

\* What decides the steps to come: a signal adds nothing to a timer that may be
\* due, and visited matters to EmptyAllTheTime alone.
Needed ==
    <<serverVars, adminVars, plan, loop, told,
      [k \in Kinds |-> wake[k] /\ ~At(k, "timer")]>>
====
