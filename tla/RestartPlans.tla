---------------------------- MODULE RestartPlans ----------------------------
(***************************************************************************)
(* The three plans that restart the server by themselves: after a mod      *)
(* update ("mod"), for an automatic product update ("auto"), and on the    *)
(* recurring schedule ("sched").  Each has a loop of its own that wakes at *)
(* the next notice, reads the plans and the process, announces the restart *)
(* to the players over RCON and finally requests the operation.  The loops *)
(* share no lock: they read each other's plans, the process and the        *)
(* running operation, and act later on what they read.                     *)
(*                                                                         *)
(* Plans are saved before they are used, so the stored plan is the plan.   *)
(* Time is relative: left is the time until RestartAt, negative once it is *)
(* past.  One pass of a loop, with its notices, takes far less than a unit *)
(* of time, and less than a process needs to be started anew: a notice     *)
(* fails at once when its process goes down.                               *)
(***************************************************************************)
EXTENDS Integers, Sequences, FiniteSets

CONSTANTS
    Watched,        \* the plans that may be switched on
    Changes,        \* the plans whose settings may change at any time
    Policies,       \* the policies mod and auto may be set to
    Products,       \* what an automatic update may be offered for
    Lead,           \* modRestartDelay: the length of the countdown
    Late,           \* scheduledServerRestartLateGrace
    NoticeAt,       \* the time left at which each notice is due, in order
    Gaps,           \* times until an occurrence of a server-local HH:MM
    OtherActions,   \* operations an administrator may request meanwhile
    DiskFaults,     \* may a state file write fail?
    ManagerStops    \* may the manager stop by itself?

Kinds == {"mod", "auto", "sched"}
AllPolicies == {"countdown", "when_empty", "scheduled"}
AllProducts == {"manager", "steam"}

ASSUME WatchedAssumption == Watched \subseteq Kinds /\ Changes \subseteq Watched
ASSUME PolicyAssumption == Policies \subseteq AllPolicies /\ Policies # {}
ASSUME ProductAssumption == Products \subseteq AllProducts
ASSUME TimeAssumption ==
    /\ Lead \in Nat \ {0} /\ Late \in Nat
    /\ Gaps \subseteq Nat /\ \A n \in Gaps : n >= Lead
    /\ \E n \in Gaps : \A m \in Gaps : m <= n
ASSUME NoticeAssumption ==
    /\ NoticeAt \in Seq(1 .. Lead) /\ NoticeAt # <<>>
    /\ NoticeAt[1] = Lead
    /\ \A i, j \in 1 .. Len(NoticeAt) : i < j => NoticeAt[i] > NoticeAt[j]
ASSUME ActionAssumption == OtherActions \subseteq {"start", "stop", "restart", "update"}
ASSUME SwitchAssumption == DiskFaults \in BOOLEAN /\ ManagerStops \in BOOLEAN

Last == Len(NoticeAt)
Notices == 1 .. Last

VARIABLES
    running,    \* is there a server process?
    op,         \* the running operation of the manager, or "none"
    updating,   \* managerUpdateRunning
    quiet,      \* the Runtime bridge is ready and reports no player
    settings,   \* what the administrator switched on, with which policy
    offer,      \* products with a version not attempted yet
    plan,       \* [Kinds -> Plan]: the stored schedules
    loop,       \* [Kinds -> [pc, seen, alive, stale]]: where each loop is
    wake,       \* [Kinds -> BOOLEAN]: the wake channels, of capacity one
    detected,   \* a mod plan is recorded but its loop not signalled yet
    ensuring,   \* a settings request is about to ensure the sched plan
    told,       \* history: the restart times and notices the process was sent
    visited     \* history: were there players since EmptySince was set?

serverVars == <<running, op, updating, quiet>>
adminVars  == <<settings, offer, detected, ensuring>>
loopVars   == <<plan, loop, wake, told, visited>>
vars == <<serverVars, adminVars, loopVars>>

-----------------------------------------------------------------------------
(* Plans *)

\* The process of a plan: "this" one, which runs now or ran last, or an
\* earlier one.  The loops compare identifiers only with the process there is.
Processes == {"none", "this", "earlier"}

MaxGap == CHOOSE n \in Gaps : \A m \in Gaps : m <= n
Lefts == -(Late + 1) .. MaxGap
Plan == [pid : Processes, policy : AllPolicies, targets : SUBSET Products,
         left : Lefts, notice : 0 .. Last, waiting : BOOLEAN,
         since : {"never", "now", "grace"}, final : BOOLEAN]

\* A plan as configureModRestartSchedule leaves it.
NewPlan(p, policy, targets, left) ==
    [pid |-> p, policy |-> policy, targets |-> targets, left |-> left,
     notice |-> 0, waiting |-> FALSE, since |-> "never", final |-> FALSE]
NoPlan == NewPlan("none", "scheduled", {}, 0)

\* The time left that a policy sets, nextScheduledModRestart's included.
LeftsOf(policy) ==
    CASE policy = "countdown"  -> {Lead}
      [] policy = "when_empty" -> {0}
      [] policy = "scheduled"  -> Gaps

Planned(k) == plan[k] # NoPlan

\* modUpdateRestartActive, automaticUpdateRestartActive and
\* scheduledServerRestartActive; a sched plan is there only while enabled.
Active(k) ==
    Planned(k) /\ (plan[k].policy = "scheduled" => plan[k].left <= Lead)

\* latestDueModRestartNotice, counted from one; zero if there is none.
DueNotice(left) ==
    IF left <= 0 THEN 0 ELSE Cardinality({i \in Notices : left <= NoticeAt[i]})

\* Mutant: a window without all its notices is not missed.
MissedOnlyLate(s) == s.left < -Late

\* The deadline passed without the last notice, or too long ago.
Missed(s) == s.left <= 0 /\ (s.notice < Last \/ s.left < -Late)

-----------------------------------------------------------------------------
(* The loops *)

LoopSteps == {"timer", "asleep", "ensure", "decide", "update", "notice", "advance",
              "waiting", "announced", "resume", "empty", "final", "mark", "request",
              "record"}
Loop == [pc : LoopSteps, seen : Plan, alive : BOOLEAN, stale : BOOLEAN]

IdleLoop(pc) == [pc |-> pc, seen |-> NoPlan, alive |-> FALSE, stale |-> FALSE]
At(k, pc) == loop[k].pc = pc
Resting(k) == loop[k].pc \in {"timer", "asleep"}
Seen(k) == loop[k].seen
IsOf(k) == running /\ Seen(k).pid = "this"
AllRest == \A k \in Kinds : Resting(k)

Return(k, pc) == loop' = [loop EXCEPT ![k] = IdleLoop(pc)]
GoOn(k, pc) == loop' = [loop EXCEPT ![k].pc = pc]
Read(k, pc, s) == loop' = [loop EXCEPT ![k] =
                      [pc |-> pc, seen |-> s, alive |-> running, stale |-> FALSE]]

\* sameModRestartSchedule and its siblings.  stale stands for the times they
\* compare that the relative ones cannot tell apart.
Same(k) ==
    /\ Planned(k)
    /\ ~loop[k].stale
    /\ \A field \in {"pid", "policy", "left", "targets"} :
           plan[k][field] = Seen(k)[field]

\* A handler made a plan with new times while the loop may be in a pass.
Outdates(k) == loop' = [loop EXCEPT ![k].stale = ~Resting(k)]

\* Mutant: the channels hold no token, a loop in a pass misses the signal.
SignalUnbuffered(ks) ==
    wake' = [k \in Kinds |-> wake[k] \/ (k \in ks /\ Resting(k))]

Signal(ks) == wake' = [k \in Kinds |-> wake[k] \/ k \in ks]

SetPlan(k, new) == plan' = [plan EXCEPT ![k] = new]
EditPlan(k, new) == SetPlan(k, new) /\ UNCHANGED <<told, visited>>
ReplacePlan(k, new) ==
    /\ SetPlan(k, new)
    /\ UNCHANGED told
    /\ visited' = [visited EXCEPT ![k] = FALSE]
KeepPlans == UNCHANGED <<plan, told, visited>>

\* A loop begins a pass: its timer is due, or it is signalled.
Wakes(k) ==
    /\ At(k, "timer") \/ (At(k, "asleep") /\ wake[k])
    /\ wake' = [wake EXCEPT ![k] = FALSE]

\* Sending, and what follows the notice in the same pass, is alike in the
\* three loops.  A notice that fails is tried again by a later pass.
SendNotice(k) ==
    /\ At(k, "notice")
    /\ \/ /\ running
          /\ told' = [told EXCEPT ![k] =
                        @ \cup {<<Seen(k).left, DueNotice(Seen(k).left)>>}]
          /\ GoOn(k, "advance")
       \/ /\ Return(k, "timer")
          /\ UNCHANGED told
    /\ UNCHANGED <<serverVars, adminVars, plan, wake, visited>>

\* advanceModRestartNotice and its siblings.
AdvanceNotice(k) ==
    /\ At(k, "advance")
    /\ \/ /\ Same(k)
          /\ plan[k].notice < DueNotice(Seen(k).left)
          /\ EditPlan(k, [plan[k] EXCEPT !.notice = DueNotice(Seen(k).left)])
          /\ GoOn(k, "resume")
       \/ /\ Same(k) /\ plan[k].notice >= DueNotice(Seen(k).left)
          /\ GoOn(k, "resume")
          /\ KeepPlans
       \/ /\ ~Same(k) \/ DiskFaults
          /\ Return(k, "timer")
          /\ KeepPlans
    /\ UNCHANGED <<serverVars, adminVars, wake>>

\* The message that updates wait for an empty server.
SendWaiting(k) ==
    /\ At(k, "waiting")
    /\ \/ running /\ GoOn(k, "announced")
       \/ Return(k, "timer")
    /\ UNCHANGED <<serverVars, adminVars, plan, wake, told, visited>>

\* markEmptyRestartAnnounced, markAutomaticUpdateWaitingNotice
MarkWaiting(k) ==
    /\ At(k, "announced")
    /\ \/ /\ Same(k)
          /\ EditPlan(k, [plan[k] EXCEPT !.waiting = TRUE])
          /\ GoOn(k, "resume")
       \/ /\ ~Same(k) \/ DiskFaults
          /\ Return(k, "timer")
          /\ KeepPlans
    /\ UNCHANGED <<serverVars, adminVars, wake>>

\* The loop reads its plan again.  The sched loop does not expect to find
\* none: it dereferences nil, and the manager goes down with it.
Resume(k) ==
    /\ At(k, "resume")
    /\ \/ /\ ~Planned(k) /\ k # "sched"
          /\ Return(k, "asleep")
       \/ /\ ~Planned(k) /\ k = "sched"
          /\ loop' = [j \in Kinds |-> IdleLoop("timer")]
       \/ /\ Planned(k) /\ Seen(k).policy = "when_empty"
          /\ loop' = [loop EXCEPT ![k].pc = "empty", ![k].seen = plan[k],
                                  ![k].stale = FALSE]
       \/ /\ Planned(k) /\ Seen(k).policy # "when_empty"
          /\ Return(k, "timer")
    /\ IF ~Planned(k) /\ k = "sched"
       THEN /\ op' = "none"
            /\ detected' = FALSE /\ ensuring' = FALSE
            /\ wake' = [j \in Kinds |-> FALSE]
       ELSE UNCHANGED <<op, detected, ensuring, wake>>
    /\ UNCHANGED <<running, updating, quiet, settings, offer, plan, told, visited>>

\* processEmptyServerRestart from its look at the players on, and the same
\* part of processEmptyServerAutomaticUpdate.
ObserveEmpty(k) ==
    /\ At(k, "empty")
    /\ \/ /\ ~quiet
          /\ \/ /\ Seen(k).since # "never" /\ Same(k)
                /\ ReplacePlan(k, [plan[k] EXCEPT !.since = "never"])
             \/ /\ Seen(k).since = "never" \/ ~Same(k) \/ DiskFaults
                /\ KeepPlans
          /\ Return(k, "timer")
       \/ /\ quiet /\ Seen(k).since = "never"
          /\ \/ /\ Same(k)
                /\ SetPlan(k, [plan[k] EXCEPT !.since = "now"])
                /\ visited' = [visited EXCEPT ![k] = FALSE]
                /\ UNCHANGED told
             \/ /\ ~Same(k) \/ DiskFaults
                /\ KeepPlans
          /\ Return(k, "timer")
       \/ /\ quiet /\ Seen(k).since = "now"
          /\ Return(k, "timer")
          /\ KeepPlans
       \/ /\ quiet /\ Seen(k).since = "grace"
          /\ GoOn(k, IF Seen(k).final THEN "request" ELSE "final")
          /\ KeepPlans
    /\ UNCHANGED <<serverVars, adminVars, wake>>

\* The final notice: whether it was sent does not matter.
SendFinal(k) ==
    /\ At(k, "final")
    /\ GoOn(k, "mark")
    /\ UNCHANGED <<serverVars, adminVars, plan, wake, told, visited>>

\* markFinalModRestartNotice and its siblings, their result ignored.
MarkFinal(k) ==
    /\ At(k, "mark")
    /\ GoOn(k, "request")
    /\ \/ Same(k) /\ EditPlan(k, [plan[k] EXCEPT !.final = TRUE])
       \/ (~Same(k) \/ DiskFaults) /\ KeepPlans
    /\ UNCHANGED <<serverVars, adminVars, wake>>

\* The countdown of mod and auto: the deadline, then the latest due notice.
CountDown(k) ==
    LET s == Seen(k)
        due == DueNotice(s.left)
    IN  \/ /\ s.policy = "when_empty"
           /\ GoOn(k, IF s.waiting THEN "empty" ELSE "waiting")
        \/ /\ s.policy # "when_empty" /\ s.left <= 0
           /\ GoOn(k, IF s.final THEN "request" ELSE "final")
        \/ /\ s.policy # "when_empty" /\ s.left > 0 /\ due > s.notice
           /\ GoOn(k, "notice")
        \/ /\ s.policy # "when_empty" /\ s.left > 0 /\ due <= s.notice
           /\ Return(k, "timer")

\* requestOperation: refused while an operation runs; mod and sched are told
\* of its start.
Requestable(action) == op = "none" /\ (action \in {"start", "update"} => ~running)
Requests(action, ks) ==
    /\ Requestable(action)
    /\ op' = action
    /\ Signal({"mod", "sched"} \cup ks)
    /\ UNCHANGED <<running, updating, quiet>>

-----------------------------------------------------------------------------
(* The mod update plan: processModRestartSchedule *)

LookMod ==
    /\ Wakes("mod")
    /\ IF Planned("mod") THEN Read("mod", "decide", plan["mod"])
                         ELSE Return("mod", "asleep")
    /\ UNCHANGED <<serverVars, adminVars, plan, told, visited>>

\* Mutant: the process is not compared with the one the plan is for.
ModCancelledByStop == ~settings.mod \/ ~running \/ op # "none"

\* What cancels the plan, at the beginning of a pass and again after the
\* final notice.
ModCancelled == ~settings.mod \/ ~IsOf("mod") \/ op # "none"

\* clearModRestartSchedule signals the loops that wait for this plan.
ClearMod ==
    \/ /\ Same("mod")
       /\ ReplacePlan("mod", NoPlan)
       /\ Return("mod", "asleep")
       /\ Signal({"auto", "sched"})
    \/ /\ ~Same("mod") \/ DiskFaults
       /\ Return("mod", "timer")
       /\ KeepPlans
       /\ UNCHANGED wake

DecideMod ==
    /\ At("mod", "decide")
    /\ \/ ModCancelled /\ ClearMod
       \/ ~ModCancelled /\ CountDown("mod") /\ KeepPlans /\ UNCHANGED wake
    /\ UNCHANGED <<serverVars, adminVars>>

\* processFinalModRestart after the notice.
RequestMod ==
    /\ At("mod", "request")
    /\ \/ /\ ~Same("mod")
          /\ Return("mod", "asleep")
          /\ UNCHANGED <<serverVars, wake>>
       \/ /\ Same("mod") /\ (ModCancelled \/ DiskFaults)
          /\ Return("mod", "timer")
          /\ UNCHANGED <<serverVars, wake>>
       \/ /\ Same("mod") /\ ~ModCancelled
          /\ Requests("restart", {})
          /\ GoOn("mod", "record")
    /\ KeepPlans
    /\ UNCHANGED adminVars

RecordMod ==
    /\ At("mod", "record")
    /\ ClearMod
    /\ UNCHANGED <<serverVars, adminVars>>

\* recordSuccessfulModRefreshLocked: a refresh finds that an active mod
\* changed.  Updates join a plan that is there already; one that takes the last
\* of them back removes it.
DetectModUpdate ==
    /\ running
    /\ settings.mod /\ ~Active("auto") /\ ~Active("sched")
    /\ \/ /\ ~Planned("mod")
          /\ \E left \in LeftsOf(settings.modPolicy) :
                 ReplacePlan("mod", NewPlan("this", settings.modPolicy, {}, left))
          /\ Outdates("mod")
          /\ detected' = TRUE
       \/ /\ plan["mod"].pid = "this"
          /\ detected' = TRUE
          /\ KeepPlans
          /\ UNCHANGED loop
       \/ /\ plan["mod"].pid = "this"
          /\ ReplacePlan("mod", NoPlan)
          /\ UNCHANGED <<detected, loop>>
    /\ UNCHANGED <<serverVars, settings, offer, ensuring, wake>>

\* handleModUpdateDetection, after the mutex is released.
SignalDetection ==
    /\ detected
    /\ detected' = FALSE
    /\ Signal({"mod"})
    /\ UNCHANGED <<serverVars, settings, offer, ensuring, plan, loop, told, visited>>

-----------------------------------------------------------------------------
(* The automatic update plan: processAutomaticUpdates *)

\* automaticUpdateTargets
Targets == offer \cap settings.auto

\* automaticUpdatePolicyForTargets: the manager's policy goes first.
PolicyFor(targets, policies) ==
    policies[IF "manager" \in targets THEN "manager" ELSE "steam"]
AutoPolicy(targets) == PolicyFor(targets, settings.autoPolicy)

\* Mutant: the loop does not look at the other plans.
LookAutoAlone ==
    /\ Wakes("auto")
    /\ IF updating THEN Return("auto", "timer")
                   ELSE Read("auto", "ensure", NoPlan)
    /\ UNCHANGED <<serverVars, adminVars, plan, told, visited>>

\* The plan waits for a manager update and for the other plans.
LookAuto ==
    /\ Wakes("auto")
    /\ IF updating \/ Active("mod") \/ Active("sched")
       THEN Return("auto", "timer")
       ELSE Read("auto", "ensure", NoPlan)
    /\ UNCHANGED <<serverVars, adminVars, plan, told, visited>>

\* ensureAutomaticUpdateSchedule keeps the plan of the same process, targets
\* and policy and makes a new one otherwise.  The targets are read here; the
\* code reads them a moment before it takes its mutex, and what changes them in
\* between signals the loop, whose next pass replaces such a plan.
AutoPlanIsCurrent ==
    /\ Planned("auto")
    /\ plan["auto"].pid = "this"
    /\ plan["auto"].targets = Targets
    /\ plan["auto"].policy = AutoPolicy(Targets)

EnsureAuto ==
    /\ At("auto", "ensure")
    /\ \/ /\ Targets = {} /\ plan["auto"] = NoPlan
          /\ Return("auto", "asleep")
          /\ KeepPlans
       \/ /\ Targets = {} /\ plan["auto"] # NoPlan
          /\ ReplacePlan("auto", NoPlan)
          /\ Return("auto", "asleep")
       \/ /\ Targets # {} /\ ~loop["auto"].alive
          /\ ReplacePlan("auto", NoPlan)
          /\ Read("auto", "update", NewPlan("none", AutoPolicy(Targets), Targets, 0))
       \/ /\ Targets # {} /\ loop["auto"].alive /\ AutoPlanIsCurrent
          /\ Read("auto", "decide", plan["auto"])
          /\ KeepPlans
       \/ /\ Targets # {} /\ loop["auto"].alive /\ ~AutoPlanIsCurrent
          /\ \E left \in LeftsOf(AutoPolicy(Targets)) :
                LET new == NewPlan("this", AutoPolicy(Targets), Targets, left)
                IN  /\ ReplacePlan("auto", new)
                    /\ Read("auto", "decide", new)
       \/ /\ DiskFaults /\ (Planned("auto") \/ Targets # {})
          /\ Return("auto", IF Targets = {} THEN "asleep" ELSE "timer")
          /\ KeepPlans
    /\ UNCHANGED <<serverVars, adminVars, wake>>

\* rescheduleMissedAutomaticUpdate
MoveAuto ==
    \/ /\ Same("auto")
       /\ LET policy == AutoPolicy(plan["auto"].targets)
          IN  \E left \in LeftsOf(policy) :
                  ReplacePlan("auto", NewPlan(plan["auto"].pid, policy,
                                              plan["auto"].targets, left))
       /\ Signal({"sched"})
    \/ /\ ~Same("auto") \/ DiskFaults
       /\ KeepPlans
       /\ UNCHANGED wake

MissedAuto(s) ==
    /\ s.policy = "scheduled"
    /\ Missed(s) \/ (s.left > 0 /\ DueNotice(s.left) > s.notice + 1)

DecideAuto ==
    LET s == Seen("auto")
    IN  /\ At("auto", "decide")
        /\ \/ /\ ~running
              /\ GoOn("auto", "update")
              /\ KeepPlans /\ UNCHANGED wake
           \/ /\ running /\ ~IsOf("auto")
              /\ \/ Same("auto") /\ ReplacePlan("auto", NoPlan) /\ Signal({"sched"})
                 \/ (~Same("auto") \/ DiskFaults) /\ KeepPlans /\ UNCHANGED wake
              /\ Return("auto", "timer")
           \/ /\ IsOf("auto") /\ op # "none"
              /\ Return("auto", "timer")
              /\ KeepPlans /\ UNCHANGED wake
           \/ /\ IsOf("auto") /\ op = "none" /\ MissedAuto(s)
              /\ MoveAuto
              /\ Return("auto", "timer")
           \/ /\ IsOf("auto") /\ op = "none" /\ ~MissedAuto(s)
              /\ CountDown("auto")
              /\ KeepPlans /\ UNCHANGED wake
        /\ UNCHANGED <<serverVars, adminVars>>

\* executeAutomaticUpdate: a manager update runs detached and brings the
\* server's along, a server update alone is a restart or an update.
Execute(action) ==
    \/ /\ "manager" \in Seen("auto").targets
       /\ op = "none" /\ ~updating
       /\ updating' = TRUE
       /\ GoOn("auto", "record")
       /\ UNCHANGED <<running, op, quiet, wake>>
    \/ /\ "manager" \notin Seen("auto").targets
       /\ Requests(action, {})
       /\ GoOn("auto", "record")
    \/ /\ op # "none" \/ updating \/ DiskFaults \/ ~Requestable(action)
       /\ Return("auto", "timer")
       /\ UNCHANGED <<serverVars, wake>>

\* A stopped server is updated without a countdown.
UpdateStopped ==
    /\ At("auto", "update")
    /\ Execute("update")
    /\ KeepPlans
    /\ UNCHANGED adminVars

\* processFinalAutomaticUpdate after the notice reads nothing again.
RequestAuto ==
    /\ At("auto", "request")
    /\ Execute("restart")
    /\ KeepPlans
    /\ UNCHANGED adminVars

\* recordAutomaticUpdateAccepted: the versions are attempted, whatever plan
\* there is now is gone.
RecordAuto ==
    /\ At("auto", "record")
    /\ Return("auto", "asleep")
    /\ \/ /\ offer' = offer \ Seen("auto").targets
          /\ ReplacePlan("auto", NoPlan)
       \/ /\ DiskFaults
          /\ KeepPlans
          /\ UNCHANGED offer
    /\ UNCHANGED <<serverVars, settings, detected, ensuring, wake>>

-----------------------------------------------------------------------------
(* The recurring restart: processScheduledServerRestart *)

\* nextScheduledServerRestart, from now on or after a planned occurrence.
Occurrence(p, left) == NewPlan(p, "scheduled", {}, left)
OccurrencesAfter(left) == {n \in Gaps : n > left + Lead}

\* The pass reads the settings, the process and the plan.
LookSched ==
    /\ Wakes("sched")
    /\ \/ /\ ~settings.sched
          /\ Return("sched", "asleep")
       \/ /\ settings.sched /\ running /\ plan["sched"].pid = "this"
          /\ Read("sched", "decide", plan["sched"])
       \/ /\ settings.sched /\ ~(running /\ plan["sched"].pid = "this")
          /\ Read("sched", "ensure", plan["sched"])
    /\ UNCHANGED <<serverVars, adminVars, plan, told, visited>>

\* Mutant: a plan is made although the schedule was switched off meanwhile.
EnsureExpectedOnly == Same("sched") \/ (Seen("sched") = NoPlan /\ ~Planned("sched"))

\* replaceScheduledServerRestartSchedule's comparison with what was read.
EnsureExpected ==
    /\ Same("sched") \/ (Seen("sched") = NoPlan /\ ~Planned("sched"))
    /\ loop["sched"].alive => settings.sched

EnsureSched ==
    /\ At("sched", "ensure")
    /\ \/ /\ ~loop["sched"].alive
          /\ \/ EnsureExpected /\ ReplacePlan("sched", NoPlan)
             \/ (~EnsureExpected \/ DiskFaults) /\ KeepPlans
          /\ Return("sched", "timer")
       \/ /\ loop["sched"].alive /\ EnsureExpected
          /\ \E left \in Gaps :
                LET new == Occurrence("this", left)
                IN  ReplacePlan("sched", new) /\ Read("sched", "decide", new)
       \/ /\ loop["sched"].alive /\ (~EnsureExpected \/ DiskFaults)
          /\ Return("sched", "timer")
          /\ KeepPlans
    /\ UNCHANGED <<serverVars, adminVars, wake>>

\* Mutant: the occurrence is kept until its window is free.
SkipSchedLater ==
    /\ KeepPlans
    /\ UNCHANGED wake
    /\ Return("sched", "timer")

\* skipScheduledServerRestart
SkipSched ==
    /\ \/ /\ Same("sched") /\ settings.sched
          /\ \E left \in OccurrencesAfter(Seen("sched").left) :
                 ReplacePlan("sched", Occurrence(Seen("sched").pid, left))
          /\ Signal({"auto", "mod"})
       \/ /\ ~Same("sched") \/ DiskFaults
          /\ KeepPlans
          /\ UNCHANGED wake
    /\ Return("sched", "timer")

\* Someone else owns the maintenance window.
SchedYields == updating \/ Active("mod") \/ Active("auto") \/ op # "none"

DecideSched ==
    LET s == Seen("sched")
        due == DueNotice(s.left)
        owner == ~SchedYields /\ ~Missed(s) /\ s.left <= Lead
    IN  /\ At("sched", "decide")
        /\ \/ /\ s.left > Lead
              /\ Return("sched", "timer")
              /\ KeepPlans /\ UNCHANGED wake
           \/ /\ s.left <= Lead /\ (Missed(s) \/ SchedYields)
              /\ SkipSched
           \/ /\ owner /\ ~IsOf("sched")
              /\ \/ Same("sched") /\ ReplacePlan("sched", NoPlan)
                 \/ (~Same("sched") \/ DiskFaults) /\ KeepPlans
              /\ Return("sched", "timer")
              /\ UNCHANGED wake
           \/ /\ owner /\ IsOf("sched") /\ s.left <= 0
              /\ GoOn("sched", IF s.final THEN "request" ELSE "final")
              /\ KeepPlans /\ UNCHANGED wake
           \/ /\ owner /\ IsOf("sched") /\ s.left > 0 /\ due > s.notice + 1
              /\ SkipSched
           \/ /\ owner /\ IsOf("sched") /\ s.left > 0 /\ due = s.notice + 1
              /\ GoOn("sched", "notice")
              /\ KeepPlans /\ UNCHANGED wake
           \/ /\ owner /\ IsOf("sched") /\ s.left > 0 /\ due <= s.notice
              /\ Return("sched", "timer")
              /\ KeepPlans /\ UNCHANGED wake
        /\ UNCHANGED <<serverVars, adminVars>>

\* completeScheduledServerRestart up to the request.
RequestSched ==
    /\ At("sched", "request")
    /\ \/ /\ Same("sched")
          /\ Requests("restart", {})
          /\ GoOn("sched", "record")
       \/ /\ ~Same("sched") \/ ~Requestable("restart") \/ DiskFaults
          /\ Return("sched", "timer")
          /\ UNCHANGED <<serverVars, wake>>
    /\ KeepPlans
    /\ UNCHANGED adminVars

\* The next occurrence, for the process that is about to end.  The loop then
\* sleeps until the operation is over.
RecordSched ==
    /\ At("sched", "record")
    /\ \/ /\ Same("sched") /\ settings.sched
          /\ \E left \in OccurrencesAfter(Seen("sched").left) :
                 ReplacePlan("sched", Occurrence(Seen("sched").pid, left))
          /\ Return("sched", "asleep")
          /\ Signal({"auto", "mod"})
       \/ /\ ~Same("sched") \/ DiskFaults
          /\ Return("sched", "timer")
          /\ KeepPlans
          /\ UNCHANGED wake
    /\ UNCHANGED <<serverVars, adminVars>>

-----------------------------------------------------------------------------
(* The administrator *)

\* setModRefreshSettings: the settings are saved first, then the plan.  A new
\* time of day begins the plan again under any policy.
SetMod(on, policy, newTime) ==
    LET renewed == policy # settings.modPolicy \/ newTime
    IN  /\ "mod" \in Changes
        /\ settings' = [settings EXCEPT !.mod = on, !.modPolicy = policy]
        /\ \/ /\ ~on /\ Planned("mod")
              /\ ReplacePlan("mod", NoPlan)
              /\ Outdates("mod")
           \/ /\ on /\ Planned("mod") /\ renewed
              /\ \E left \in LeftsOf(policy) :
                     ReplacePlan("mod", NewPlan(plan["mod"].pid, policy, {}, left))
              /\ loop' = [loop EXCEPT !["mod"].stale =
                             ~Resting("mod") /\ (@ \/ policy = "countdown")]
           \/ /\ DiskFaults \/ ~Planned("mod") \/ (on /\ ~renewed)
              /\ KeepPlans
              /\ UNCHANGED loop
        /\ Signal({"mod"})
        /\ UNCHANGED <<serverVars, offer, detected, ensuring>>

\* setAutomaticUpdateSettings.  A new time of day matters to a scheduled plan.
SetAuto(products, policies, newTime) ==
    LET old == plan["auto"]
        left == old.targets \cap products
        policy == PolicyFor(left, policies)
        renewed == \/ ("manager" \in old.targets) # ("manager" \in left)
                   \/ policy # AutoPolicy(old.targets)
                   \/ policy = "scheduled" /\ newTime
    IN  /\ "auto" \in Changes
        /\ settings' = [settings EXCEPT !.auto = products, !.autoPolicy = policies]
        /\ \/ /\ Planned("auto") /\ left = {}
              /\ ReplacePlan("auto", NoPlan)
              /\ Outdates("auto")
           \/ /\ Planned("auto") /\ left # {} /\ renewed
              /\ \E time \in LeftsOf(policy) :
                     ReplacePlan("auto", NewPlan(old.pid, policy, left, time))
              /\ Outdates("auto")
           \/ /\ Planned("auto") /\ left # {} /\ ~renewed
              /\ EditPlan("auto", [old EXCEPT !.targets = left])
              /\ UNCHANGED loop
           \/ /\ ~Planned("auto")
              /\ KeepPlans
              /\ UNCHANGED loop
        /\ Signal({"auto", "sched"})
        /\ UNCHANGED <<serverVars, offer, detected, ensuring>>

\* setScheduledServerRestartSettings: also for a new time or weekday.
SetSched(on) ==
    /\ "sched" \in Changes
    /\ settings' = [settings EXCEPT !.sched = on]
    /\ ReplacePlan("sched", NoPlan)
    /\ ensuring' = on
    /\ Signal(Kinds)
    /\ UNCHANGED <<serverVars, offer, detected, loop>>

\* The ensureScheduledServerRestartSchedule at its end: of settings changed at
\* once that of one, and none when the last switched off, which has no plan left
\* for it.
EnsureSettings ==
    /\ ensuring
    /\ ensuring' = FALSE
    /\ \/ /\ settings.sched /\ running /\ ~Planned("sched")
          /\ \E left \in Gaps : ReplacePlan("sched", Occurrence("this", left))
       \/ /\ ~(settings.sched /\ running /\ ~Planned("sched")) \/ DiskFaults
          /\ KeepPlans
    /\ UNCHANGED <<serverVars, settings, offer, detected, loop, wake>>

\* A version query: each one signals the loop, whatever it finds.
VersionQuery(found) ==
    /\ offer' = offer \cup found
    /\ Signal({"auto"})
    /\ UNCHANGED <<serverVars, settings, detected, ensuring, plan, loop, told, visited>>

\* Any other operation of the manager.
OtherOperation(action) ==
    /\ Requestable(action)
    /\ Requests(action, {})
    /\ UNCHANGED <<adminVars, plan, loop, told, visited>>

-----------------------------------------------------------------------------
(* The server, the operations, the manager process and time *)

\* A process ends: stopped, restarted or crashed.
ProcessExits ==
    /\ running
    /\ running' = FALSE
    /\ told' = [k \in Kinds |-> {}]
    /\ UNCHANGED <<op, updating, quiet, adminVars, plan, loop, wake, visited>>

\* A script of the manager, a shell or OpenRC has started another one: it has
\* been told nothing, and no plan was made for it.
ProcessStarts ==
    /\ ~running /\ AllRest
    /\ running' = TRUE
    /\ plan' = [k \in Kinds |-> IF Planned(k) THEN [plan[k] EXCEPT !.pid = "earlier"]
                                              ELSE NoPlan]
    /\ UNCHANGED <<op, updating, quiet, adminVars, loop, wake, told, visited>>

\* Who is told of the end of an operation.
OperationEndSignals == {"auto", "sched"}

\* The goroutine of startOperation.  What the script did to the process, or
\* failed to do, are ProcessExits and ProcessStarts.
OperationEnds ==
    /\ op # "none"
    /\ op' = "none"
    /\ Signal(OperationEndSignals)
    /\ UNCHANGED <<running, updating, quiet, adminVars, plan, loop, told, visited>>

\* The manager stops, for an update or by itself, and starts again: the plans
\* are read from their files, unless their settings forbid it.
ManagerRestarts ==
    /\ loop' = [k \in Kinds |-> IdleLoop("timer")]
    /\ wake' = [k \in Kinds |-> FALSE]
    /\ op' = "none"
    /\ detected' = FALSE /\ ensuring' = FALSE
    /\ \/ /\ Planned("mod") /\ ~settings.mod
          /\ ReplacePlan("mod", NoPlan)
       \/ /\ Planned("mod") /\ settings.mod /\ plan["mod"].policy # settings.modPolicy
          /\ \E left \in LeftsOf(settings.modPolicy) :
                 ReplacePlan("mod", NewPlan(plan["mod"].pid, settings.modPolicy, {}, left))
       \/ /\ Planned("mod") => settings.mod /\ plan["mod"].policy = settings.modPolicy
          /\ KeepPlans
    /\ UNCHANGED <<running, quiet, settings, offer>>

WebRestarts == ManagerStops /\ ManagerRestarts /\ UNCHANGED updating

\* A manager update ends: after its installer, which restarts the services, or
\* before it, when the release cannot be had.
UpdateEnds ==
    /\ updating
    /\ updating' = FALSE
    /\ \/ ManagerRestarts
       \/ UNCHANGED <<running, op, quiet, adminVars, loopVars>>

\* Players come or go, or the bridge stops answering, while a plan looks.
PlayersChange ==
    /\ \E k \in Kinds : Planned(k) /\ plan[k].policy = "when_empty"
    /\ quiet' = ~quiet
    /\ visited' = [k \in Kinds |-> visited[k] \/ (quiet /\ plan[k].since # "never")]
    /\ UNCHANGED <<running, op, updating, adminVars, plan, loop, wake, told>>

Later(s) ==
    IF s = NoPlan THEN s
    ELSE IF s.policy = "when_empty"
    THEN [s EXCEPT !.since = IF @ = "now" THEN "grace" ELSE @]
    ELSE [s EXCEPT !.left = IF @ = -(Late + 1) THEN @ ELSE @ - 1]

Tick ==
    /\ AllRest /\ ~detected /\ ~ensuring
    /\ plan' = [k \in Kinds |-> Later(plan[k])]
    /\ plan' # plan
    /\ told' = [k \in Kinds |-> {<<n[1] - 1, n[2]>> : n \in
                    {m \in told[k] : m[1] > -(Late + 1)}}]
    /\ UNCHANGED <<serverVars, adminVars, loop, wake, visited>>

-----------------------------------------------------------------------------

Settings == [mod : BOOLEAN, modPolicy : Policies,
             auto : SUBSET Products, autoPolicy : [Products -> Policies],
             sched : BOOLEAN]

Init ==
    /\ running = FALSE /\ op = "none" /\ updating = FALSE /\ quiet = FALSE
    /\ settings \in {s \in Settings :
           /\ s.mod => "mod" \in Watched
           /\ s.auto # {} => "auto" \in Watched
           /\ s.sched => "sched" \in Watched}
    /\ offer = {}
    /\ plan = [k \in Kinds |-> NoPlan]
    /\ loop = [k \in Kinds |-> IdleLoop("timer")]
    /\ wake = [k \in Kinds |-> FALSE]
    /\ detected = FALSE /\ ensuring = FALSE
    /\ told = [k \in Kinds |-> {}]
    /\ visited = [k \in Kinds |-> FALSE]

ModStep == LookMod \/ DecideMod \/ RequestMod \/ RecordMod
AutoStep ==
    LookAuto \/ EnsureAuto \/ DecideAuto \/ UpdateStopped \/ RequestAuto \/ RecordAuto
SchedStep ==
    LookSched \/ EnsureSched \/ DecideSched \/ RequestSched \/ RecordSched
Step(k) ==
    \/ SendNotice(k) \/ AdvanceNotice(k) \/ SendWaiting(k) \/ MarkWaiting(k)
    \/ Resume(k) \/ ObserveEmpty(k) \/ SendFinal(k) \/ MarkFinal(k)
    \/ k = "mod" /\ ModStep
    \/ k = "auto" /\ AutoStep
    \/ k = "sched" /\ SchedStep
Administrator ==
    \/ \E on, newTime \in BOOLEAN, policy \in Policies : SetMod(on, policy, newTime)
    \/ \E products \in SUBSET Products, policies \in [Products -> Policies],
           newTime \in BOOLEAN : SetAuto(products, policies, newTime)
    \/ \E on \in BOOLEAN : SetSched(on)
    \/ EnsureSettings
    \/ \E action \in OtherActions : OtherOperation(action)
Queries ==
    \/ DetectModUpdate \/ SignalDetection
    \/ \E found \in SUBSET Products : VersionQuery(found)
Environment ==
    \/ ProcessExits \/ ProcessStarts \/ OperationEnds \/ UpdateEnds
    \/ WebRestarts \/ PlayersChange \/ Tick

Next == (\E k \in Watched : Step(k)) \/ Administrator \/ Queries \/ Environment

Spec == Init /\ [][Next]_vars

\* The goroutines of the loops are scheduled, requests and operations end.
\* The automatic update tries again every fifteen seconds and so does not
\* find the windows of the others, at most ten minutes long, each time it
\* looks; and the timer of the recurring restart is not late for every one of
\* its windows.  A pass takes no time, so time passes between the passes; nobody
\* has to come or go.
Fairness ==
    /\ SF_vars(Tick)
    /\ \A k \in Watched : WF_vars(Step(k))
    /\ SF_vars(LookAuto /\ ~Active("mod") /\ ~Active("sched"))
    /\ SF_vars(LookSched /\ plan["sched"].left \in 1 .. Lead)
    /\ WF_vars(OperationEnds) /\ WF_vars(UpdateEnds)
    /\ WF_vars(SignalDetection) /\ WF_vars(EnsureSettings)

-----------------------------------------------------------------------------
(* Properties *)

\* Every variable has its type.
TypeOK ==
    /\ running \in BOOLEAN
    /\ op \in {"none", "start", "stop", "restart", "update"}
    /\ updating \in BOOLEAN /\ quiet \in BOOLEAN
    /\ settings \in Settings
    /\ offer \subseteq Products
    /\ plan \in [Kinds -> Plan]
    /\ loop \in [Kinds -> Loop]
    /\ wake \in [Kinds -> BOOLEAN]
    /\ detected \in BOOLEAN /\ ensuring \in BOOLEAN
    /\ told \in [Kinds -> SUBSET (Lefts \X (0 .. Last))]
    /\ visited \in [Kinds -> BOOLEAN]

\* A stored recurring schedule that is switched off has no occurrence: the
\* loader refuses such a file and the manager does not start
\* (scheduledrestart.go:139, 224).
DisabledHasNoPlan == ~settings.sched => ~Planned("sched")

\* A loop that waits for a signal and has a plan will get one: a pending
\* restart is never left to nobody.  The automatic update has the version
\* queries too, which signal its loop each time.
PlansAreWatched ==
    \A k \in Watched \ {"auto"} : Planned(k) /\ At(k, "asleep") =>
        wake[k] \/ op # "none" \/ (k = "mod" /\ detected)

ToldFor(k, left) == {n \in Notices : <<left, n>> \in told[k]}
Accepts(k) == loop[k].pc = "request" /\ loop'[k].pc = "record"

\* README, Automatic updates: on the schedule nobody is restarted without the
\* complete sequence of notices; a missed window is moved.
NoticesBeforeRestart ==
    [][\A k \in {"auto", "sched"} :
         Accepts(k) /\ running /\ Seen(k).policy = "scheduled" =>
             ToldFor(k, Seen(k).left) = Notices]_vars

\* A plan restarts the process it was made for, never the one that an operation
\* or a shell put in its place: no maintenance window restarts twice.
RestartsItsOwnProcess ==
    [][\A k \in Kinds : Accepts(k) => ~running \/ Seen(k).pid = "this"]_vars

\* README, Automatic updates: neither an automatic update nor the recurring
\* restart overlaps another plan that has announced a restart.
YieldsToAnnounced ==
    [][\A k \in {"auto", "sched"}, j \in Kinds :
         Accepts(k) /\ j # k /\ Planned(j) /\ plan[j].pid = "this" =>
             ToldFor(j, plan[j].left) = {}]_vars

\* README, Mods: "waits until the Runtime bridge reports zero PlayerControllers
\* continuously for 30 seconds".
EmptyAllTheTime ==
    [][\A k \in {"mod", "auto"} :
         At(k, "empty") /\ loop'[k].pc \in {"final", "request"} => ~visited[k]]_vars

\* A countdown that is over does not wait for ever, neither for the other plans
\* nor for an operation: it restarts the server, is cancelled or is moved, unless
\* the process ends before.
DeadlinesAreSettled ==
    \A k \in Kinds :
        (Planned(k) /\ plan[k].policy # "when_empty" /\ plan[k].left <= 0)
            ~> (~Planned(k) \/ plan[k].left > 0 \/ ~running)

=============================================================================
