------------------------------ MODULE PakPlan ------------------------------
(***************************************************************************)
(* What the CustomPaks panel promises (README, "CustomPaks"): every name   *)
(* has a state now and one for the next managed start, requests change the *)
(* second only, and while no server runs the files become, name by name,   *)
(* what was planned.  Nobody but an administrator changes them otherwise.  *)
(***************************************************************************)
CONSTANT Names

VARIABLES
    now,        \* [Names -> {"absent", "waiting", "active", "inactive"}]
    next,       \* [Names -> {"absent", "active", "inactive"}]
    before,     \* what a cancelled deletion returns to, "none" without one
    running,    \* is there a server?
    byHand      \* changes when an administrator changes the files by hand

planVars == <<now, next, before, running, byHand>>

\* What a name stays if nobody asks for anything.
Stays(state) == IF state = "waiting" THEN "active" ELSE state

PlanInit ==
    /\ now \in [Names -> {"absent", "waiting", "active", "inactive"}]
    /\ next \in [Names -> {"absent", "active", "inactive"}]
    /\ before \in [Names -> {"none", "active", "inactive"}]
    /\ running = FALSE /\ byHand = FALSE

Uploaded(n) ==
    /\ now[n] = "absent" /\ next[n] = "absent"
    /\ now' = [now EXCEPT ![n] = "waiting"]
    /\ next' = [next EXCEPT ![n] = "active"]
    /\ UNCHANGED <<before, running, byHand>>

\* An upload that could not be stored.
Withdrawn(n) ==
    /\ now[n] = "waiting" /\ next[n] = "active"
    /\ now' = [now EXCEPT ![n] = "absent"]
    /\ next' = [next EXCEPT ![n] = "absent"]
    /\ UNCHANGED <<before, running, byHand>>

Wanted(n) ==
    /\ now[n] # "absent"
    /\ \E state \in {"active", "inactive"} : next' = [next EXCEPT ![n] = state]
    /\ before' = [before EXCEPT ![n] = "none"]
    /\ UNCHANGED <<now, running, byHand>>

\* A deletion asked for twice returns to the present state.
Deleted(n) ==
    /\ now[n] # "absent"
    /\ next' = [next EXCEPT ![n] = "absent"]
    /\ before' = [before EXCEPT ![n] =
           IF next[n] = "absent" THEN Stays(now[n]) ELSE next[n]]
    /\ UNCHANGED <<now, running, byHand>>

Cancelled(n) ==
    /\ before[n] # "none"
    /\ next' = [next EXCEPT ![n] = before[n]]
    /\ before' = [before EXCEPT ![n] = "none"]
    /\ UNCHANGED <<now, running, byHand>>

Applied(n) ==
    /\ ~running
    /\ now' = [now EXCEPT ![n] = next[n]]
    /\ UNCHANGED <<next, before, running, byHand>>

\* The staged requests have been met.
Settled ==
    /\ \A n \in Names : now[n] = next[n]
    /\ before' = [n \in Names |-> "none"]
    /\ UNCHANGED <<now, next, running, byHand>>

Started == ~running /\ running' = TRUE /\ UNCHANGED <<now, next, before, byHand>>
Ended == running /\ running' = FALSE /\ UNCHANGED <<now, next, before, byHand>>

\* An administrator changes a directory by hand: a file nobody has asked to
\* change stays what it was made, a request for it stays.
Outside(n) ==
    /\ ~running
    /\ byHand' = ~byHand
    /\ \E state \in {"absent", "active", "inactive"} :
           /\ state # now[n]
           /\ now' = [now EXCEPT ![n] = state]
           /\ \/ next' = next
              \/ next[n] = Stays(now[n]) /\ next' = [next EXCEPT ![n] = state]
    /\ UNCHANGED <<before, running>>

PlanNext ==
    \/ Settled \/ Started \/ Ended
    \/ \E n \in Names :
           \/ Uploaded(n) \/ Withdrawn(n) \/ Wanted(n) \/ Deleted(n) \/ Cancelled(n)
           \/ Applied(n) \/ Outside(n)

PlanSpec == PlanInit /\ [][PlanNext]_planVars
=============================================================================
