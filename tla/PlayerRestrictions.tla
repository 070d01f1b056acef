-------------------------- MODULE PlayerRestrictions --------------------------
(***************************************************************************)
(* Mutes and bans of players (players.go).  The server keeps its own lists *)
(* and knows permanent restrictions only; a temporary one is a lease in    *)
(* players.json that the expiry loop ends with a command.  A request       *)
(* stores its lease, sends its command, asks for the lists and takes them  *)
(* over, all under playerRestrictionMu; the expiry loop reads what is due  *)
(* before it takes that mutex.  Commands may fail, with or without effect, *)
(* the manager may end between any two steps, and others change the lists. *)
(*                                                                         *)
(* Bounds: MaxTime.  Requests are refused while no server runs and change  *)
(* nothing then; the lists outlive the server.                             *)
(***************************************************************************)
EXTENDS Integers

CONSTANTS
    Restrictions,   \* a player and "mute" or "ban"
    Durations,      \* of temporary restrictions; 0 is permanent
    Horizon,
    Off, Forever,   \* what is promised of a restriction, if not a time
    SavesFail      \* may writes of players.json fail?

ASSUME TimeAssumption == Horizon \in Nat /\ Durations \subseteq Nat
ASSUME PromiseAssumption == Off \notin Nat /\ Forever \notin Nat /\ Off # Forever

VARIABLES
    clock,
    inForce,    \* the server's lists
    memory,     \* m.playerHistory: Banned or Muted, and the lease
    disk,       \* players.json
    holder,        \* what holds playerRestrictionMu
    due,        \* the expiry loop: what it still has to lift
    promised,   \* history: what the last reported request leaves in force
    doubtful     \* history: restrictions whose promise may be broken

restrictionsVars == <<clock, inForce, memory, disk, holder, due, promised, doubtful>>

PlayerRecord == [on : BOOLEAN, until : 0 .. Horizon]
NoLease == 0

NoHolder == [pc |-> "none"]
Holder == {NoHolder}
    \cup [pc : {"command", "query"}, of : Restrictions, by : {"admin", "expiry"},
          on : BOOLEAN, until : 0 .. Horizon, previous : 0 .. Horizon]
    \cup [pc : {"apply"}, of : Restrictions, by : {"admin", "expiry"},
          on : BOOLEAN, until : 0 .. Horizon, previous : 0 .. Horizon,
          listed : SUBSET Restrictions]
    \cup [pc : {"refresh"}, listed : SUBSET Restrictions]

InRequest == holder.pc \in {"command", "query", "apply"}
Busy(r) == InRequest /\ holder.of = r

\* savePlayerHistoryLocked where a failure is not made up for.
SaveHistory(history) == disk' \in {history} \cup IF SavesFail THEN {disk} ELSE {}

-----------------------------------------------------------------------------
(* setPlayerRestrictionWithOptions *)

\* The lease is stored before the command is sent, or the request fails.
StoreLease(r, until) ==
    /\ memory' = [memory EXCEPT ![r].until = until]
    /\ disk' = IF memory[r].until = until THEN disk ELSE memory'

BeginRequest(r, on, duration, by) ==
    LET until == IF on /\ duration > 0 THEN clock + duration ELSE NoLease IN
    /\ holder = NoHolder
    /\ until <= Horizon
    /\ StoreLease(r, until)
    /\ holder' = [pc |-> "command", of |-> r, by |-> by, on |-> on,
               until |-> until, previous |-> memory[r].until]

RequestRestriction(r, on, duration) ==
    /\ on \/ duration = 0
    /\ BeginRequest(r, on, duration, "admin")
    /\ UNCHANGED <<clock, inForce, due, promised, doubtful>>

\* restoreLease, after a request that failed.
Restored == [memory EXCEPT ![holder.of].until = holder.previous]
RestoreLease ==
    /\ memory' = Restored
    /\ IF holder.until = holder.previous THEN UNCHANGED disk ELSE SaveHistory(Restored)
    /\ holder' = NoHolder

\* After a save that failed: what a manager that starts would know wrongly.
Behind == {r \in Restrictions : disk'[r].until # memory'[r].until}

\* The command: carried out, refused, or carried out without an answer.
Command ==
    /\ holder.pc = "command"
    /\ \/ /\ inForce' = [inForce EXCEPT ![holder.of] = holder.on]
          /\ holder' = [holder EXCEPT !.pc = "query"]
          /\ UNCHANGED <<memory, disk, doubtful>>
       \/ /\ inForce' \in {inForce, [inForce EXCEPT ![holder.of] = holder.on]}
          /\ RestoreLease
          /\ doubtful' = doubtful \cup Behind
                                \cup IF inForce' = inForce THEN {} ELSE {holder.of}
    /\ UNCHANGED <<clock, due, promised>>

Listed == {r \in Restrictions : inForce[r]}

\* queryPlayerRestrictionsLocked, and the confirmation.
Query ==
    /\ holder.pc = "query"
    /\ \/ /\ inForce[holder.of] = holder.on
          /\ holder' = [pc |-> "apply", of |-> holder.of, by |-> holder.by, on |-> holder.on,
                     until |-> holder.until, previous |-> holder.previous, listed |-> Listed]
          /\ UNCHANGED <<memory, disk, doubtful>>
       \/ /\ RestoreLease
          /\ doubtful' = doubtful \cup {holder.of}
    /\ UNCHANGED <<clock, inForce, due, promised>>

\* applyPlayerRestrictions
Applied(listed) ==
    [r \in Restrictions |->
        [on |-> r \in listed, until |-> IF r \in listed THEN memory[r].until ELSE NoLease]]

\* What a request reports; the expiry loop keeps the promises of others, and
\* what somebody else has changed meanwhile is nobody's.
Promise ==
    IF holder.by = "expiry" THEN promised[holder.of]
    ELSE IF ~holder.on \/ ~inForce[holder.of] THEN Off
    ELSE IF holder.until = NoLease THEN Forever ELSE holder.until

\* The lists are taken over; the request succeeds if they could be stored.
ApplyLists ==
    /\ holder.pc = "apply"
    /\ memory' = Applied(holder.listed)
    /\ \/ /\ disk' = IF memory' = memory THEN disk ELSE memory'
          /\ promised' = [promised EXCEPT ![holder.of] = Promise]
          /\ doubtful' = IF holder.by = "admin" THEN doubtful \ ({holder.of} \ Behind) ELSE doubtful
       \/ /\ SavesFail /\ memory' # memory
          /\ UNCHANGED <<disk, promised>>
          /\ doubtful' = doubtful \cup {holder.of} \cup Behind
    /\ holder' = NoHolder
    /\ UNCHANGED <<clock, inForce, due>>

-----------------------------------------------------------------------------
(* The other users of the mutex *)

\* refreshPlayerRestrictions, for the Players panel.
Refresh ==
    /\ holder = NoHolder
    /\ holder' = [pc |-> "refresh", listed |-> Listed]
    /\ UNCHANGED <<clock, inForce, memory, disk, due, promised, doubtful>>

RefreshApplies ==
    /\ holder.pc = "refresh"
    /\ memory' = Applied(holder.listed)
    /\ IF memory' = memory THEN UNCHANGED disk ELSE SaveHistory(memory')
    /\ doubtful' = doubtful \cup Behind
    /\ holder' = NoHolder
    /\ UNCHANGED <<clock, inForce, due, promised>>

\* Mutant: every lease is due.
AnyLease == {r \in Restrictions : memory[r].on /\ memory[r].until # NoLease}

\* expiredPlayerRestrictions
Expired == {r \in Restrictions : memory[r].on /\ memory[r].until \in 1 .. clock}

ExpiryLooks ==
    /\ due = {} /\ Expired # {}
    /\ ~(InRequest /\ holder.by = "expiry")
    /\ due' = Expired
    /\ UNCHANGED <<clock, inForce, memory, disk, holder, promised, doubtful>>

\* What was renewed since the loop looked is lifted all the same.
ExpiryRequests(r) ==
    /\ r \in due
    /\ BeginRequest(r, FALSE, 0, "expiry")
    /\ due' = due \ {r}
    /\ doubtful' = IF r \in Expired THEN doubtful ELSE doubtful \cup {r}
    /\ UNCHANGED <<clock, inForce, promised>>

-----------------------------------------------------------------------------
(* What happens around the manager *)

TimePasses ==
    /\ clock < Horizon /\ clock' = clock + 1
    /\ UNCHANGED <<inForce, memory, disk, holder, due, promised, doubtful>>

\* Somebody mutes or bans with the game's own means.
Others(r) ==
    /\ inForce' = [inForce EXCEPT ![r] = ~@]
    /\ promised' = [promised EXCEPT ![r] = Off]
    /\ UNCHANGED <<clock, memory, disk, holder, due, doubtful>>

\* The manager ends and starts from players.json; a command that is under way
\* may still be carried out.
ManagerRestarts ==
    /\ memory' = disk /\ holder' = NoHolder /\ due' = {}
    /\ IF ~InRequest THEN UNCHANGED <<inForce, doubtful>>
       ELSE /\ inForce' \in {inForce} \cup
                   IF holder.pc = "command" THEN {[inForce EXCEPT ![holder.of] = holder.on]} ELSE {}
            /\ doubtful' = doubtful \cup {holder.of}
    /\ UNCHANGED <<clock, disk, promised>>

-----------------------------------------------------------------------------

RestrictionsInit ==
    /\ clock = 0
    /\ inForce = [r \in Restrictions |-> FALSE]
    /\ memory = [r \in Restrictions |-> [on |-> FALSE, until |-> NoLease]]
    /\ disk = memory
    /\ holder = NoHolder /\ due = {}
    /\ promised = [r \in Restrictions |-> Off] /\ doubtful = {}

RequestStep ==
    \/ \E r \in Restrictions, on \in BOOLEAN, d \in Durations : RequestRestriction(r, on, d)
    \/ Command \/ Query \/ ApplyLists \/ Refresh \/ RefreshApplies
ExpiryStep == ExpiryLooks \/ \E r \in Restrictions : ExpiryRequests(r)
WorldStep == TimePasses \/ ManagerRestarts \/ \E r \in Restrictions : Others(r)

RestrictionsNext == RequestStep \/ ExpiryStep \/ WorldStep

RestrictionsSpec == RestrictionsInit /\ [][RestrictionsNext]_restrictionsVars

-----------------------------------------------------------------------------
(* Properties *)

\* Every variable has its type; what is in memory is what a request stores.
RestrictionsTypeOK ==
    /\ clock \in 0 .. Horizon
    /\ inForce \in [Restrictions -> BOOLEAN]
    /\ memory \in [Restrictions -> PlayerRecord] /\ disk \in [Restrictions -> PlayerRecord]
    /\ holder \in Holder
    /\ due \subseteq Restrictions /\ doubtful \subseteq Restrictions
    /\ promised \in [Restrictions -> {Off, Forever} \cup 1 .. Horizon]

\* A restriction that was reported stays until its time, whatever requests fail
\* after it, whoever refreshes and however often the manager restarts: unless
\* the expiry loop had looked at it before it was renewed, a later request had
\* an effect it could not report, or a save that failed left an old lease.
ReportedStands ==
    \A r \in Restrictions \ doubtful :
        ~Busy(r) /\ (promised[r] = Forever \/ promised[r] \in clock + 1 .. Horizon)
            => inForce[r]

\* A temporary restriction never becomes a permanent one: its lease is stored
\* as long as it is in force.  A manager that ends in the middle of a request
\* for it, and a command without an answer, may leave it without one.
TemporaryIsStored ==
    \A r \in Restrictions \ doubtful :
        ~Busy(r) /\ promised[r] \in 1 .. Horizon /\ inForce[r]
            => disk[r].until = promised[r] /\ memory[r].until = promised[r]

\* What the manager has reported of a restriction is what is in force, and how
\* long it will be.
RestrictionsStand == ReportedStands /\ TemporaryIsStored

=============================================================================
