------------------------------ MODULE MCPanels ------------------------------
(***************************************************************************)
(* The panels that share no state: a behaviour is one of the component in  *)
(* focus, with the variables of the others in one initial state.  Players' *)
(* restrictions have two instances, which differ in their bounds, and      *)
(* their sessions too.                                                     *)
(***************************************************************************)
EXTENDS CustomPaks, ConfigFiles, ModRefresh, PlayerRestrictions, PlayerSessions, TLC

CONSTANTS
    mute    \* the restriction that is left alone while leases are in focus

VARIABLE focus

PanelsInit ==
    /\ focus \in {"paks", "config", "runs", "meetings", "lists", "leases", "mods"}
    /\ Init /\ ConfigInit /\ RefreshInit /\ RestrictionsInit /\ SessionsInit
    /\ focus # "paks" => place = [n \in Names |-> "none"]
    /\ focus # "config" => owed.next = {}
    /\ focus # "mods" => interval = 1

\* Both restrictions for a short time, or one of them up to Horizon.
Lists ==
    /\ RestrictionsNext
    /\ clock' <= 1 /\ \A r \in Restrictions : memory'[r].until <= 1
Leases ==
    /\ RestrictionsNext
    /\ ~inForce'[mute] /\ (InRequest' => holder'.of # mute)

\* One player over two short logs, or two players over one log.
OneComes ==
    /\ SessionsNext
    /\ \E p \in Players : \A run \in DOMAIN logs' :
           Len(logs'[run]) <= 2 /\ \A i \in DOMAIN logs'[run] : logs'[run][i].who = p
TwoMeet == SessionsNext /\ Len(logs') <= 1

PanelsNext ==
    /\ UNCHANGED focus
    /\ IF focus = "paks" THEN Next ELSE UNCHANGED vars
    /\ IF focus = "config" THEN ConfigNext ELSE UNCHANGED configVars
    /\ IF focus = "mods" THEN RefreshNext ELSE UNCHANGED refreshVars
    /\ CASE focus = "runs" -> OneComes [] focus = "meetings" -> TwoMeet
         [] OTHER -> UNCHANGED sessionsVars
    /\ CASE focus = "lists" -> Lists [] focus = "leases" -> Leases
         [] OTHER -> UNCHANGED restrictionsVars

PanelsSpec ==
    PanelsInit /\ [][PanelsNext]_<<focus, vars, configVars, refreshVars, restrictionsVars, sessionsVars>>

\* What the components do not tell apart.
Alike == Permutations(Game) \cup Permutations(Callers) \cup Permutations(Players)

-----------------------------------------------------------------------------

\* Behaviours end where the record may already be spoiled; see each module.
NotExposed == exposed \subseteq {"script"}
Claimed == "cut" \notin spoiled /\ ~({"missed", "replay"} \subseteq spoiled)

=============================================================================
