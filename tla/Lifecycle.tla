------------------------------ MODULE Lifecycle ------------------------------
(***************************************************************************)
(* The lifecycle of the MORDHAU dedicated server: the shell script that    *)
(* starts, stops and updates it under a file lock, the web manager that    *)
(* runs at most one such script as its current operation and records it    *)
(* on disk, and the watchdog loop that recovers a crashed server within a  *)
(* retry budget.  Several scripts may run at once: the one of the          *)
(* manager's operation (slot OP), and those of a shell, of OpenRC, or left *)
(* behind by a manager that stopped (slots Externals).                     *)
(*                                                                         *)
(* Time is relative: an attempt is kept as its age, the next attempt as    *)
(* the time left until it, and Tick lets one unit pass for all of them.    *)
(* Ages saturate at MaxAge, beyond every window the settings allow.        *)
(***************************************************************************)
EXTENDS Naturals, Sequences, FiniteSetsExt

CONSTANTS
    OP,             \* the slot of the script run by the manager's operation
    Externals,      \* slots of scripts nobody in the manager waits for
    CliCommands,    \* the commands a shell or OpenRC may run
    HttpActions,    \* the actions an administrator may request
    AttemptLimits,  \* the values MaxAttempts may be set to
    Windows,        \* the values the rolling window may be set to
    MaxAge,         \* bound: ages are not told apart from here on
    MaxProcesses,   \* bound: game processes alive at once
    MaxHistory,     \* bound: attempts the history variable remembers
    LockUsers,      \* functions of the manager that hold the lifecycle lock
    RecoveryDelay,  \* delay before an attempt, by the number already made
    Unscheduled,    \* the zero time.Time of NextAttemptAt
    LateStart,      \* may Wine show the process only after the 15 s wait?
    DiskFaults      \* may a state file write fail?

Commands == {"start", "stop", "restart", "update", "recover"}

ASSUME SlotAssumption ==
    /\ OP \notin Externals
    /\ ({OP} \cup Externals) \cap (LockUsers \cup {"watchdog", "free"}) = {}
    /\ LockUsers \cap {"watchdog", "free"} = {}
ASSUME CommandAssumption == CliCommands \subseteq Commands
ASSUME HttpAssumption == HttpActions \subseteq Commands \ {"recover"}
ASSUME LimitAssumption == AttemptLimits \subseteq 1 .. 10
ASSUME WindowAssumption == MaxAge \in Nat /\ Windows \subseteq 0 .. (MaxAge - 1)
ASSUME BoundAssumption == MaxProcesses \in Nat /\ MaxHistory \in Nat \ {0}
ASSUME DelayAssumption == RecoveryDelay \in [0 .. 9 -> Nat]
ASSUME UnscheduledAssumption == Unscheduled \notin Nat
ASSUME FaultAssumption == LateStart \in BOOLEAN /\ DiskFaults \in BOOLEAN

Slots == {OP} \cup Externals

VARIABLES
    desired,   \* server-desired-state file: "running" or "stopped"
    up,        \* game processes whose identity /proc shows
    starting,  \* game processes spawned that /proc does not show yet
    lock,      \* holder of lifecycle.lock: a slot, a LockUser, "watchdog", "free"
    script,    \* [Slots -> [cmd, pc]]: where each server.sh is
    orphans,   \* external scripts whose output pipe broke with the manager
    web,       \* is the web manager process "up" or "down"
    op,        \* m.op: the current or last operation
    opDisk,    \* operation.json
    request,   \* an HTTP action past its unlocked checks, or "none"
    wd,        \* the watchdog: [pc, alive, wanted], what it read so far
    rec,       \* m.recoveryState
    recDisk,   \* recovery-state.json
    settings,  \* m.recoverySettings, on disk before they are in memory
    retry,     \* a manual retry past its unlocked checks
    launches   \* history: ages of the attempts decided on this budget

scriptVars   == <<script, lock, orphans>>
serverVars   == <<desired, up, starting>>
opVars       == <<op, opDisk, request>>
recoveryVars == <<wd, rec, recDisk, settings, retry, launches>>
vars == <<scriptVars, serverVars, web, opVars, recoveryVars>>

-----------------------------------------------------------------------------
(* Types and small helpers *)

ScriptSteps == {"idle", "lock", "check", "desire", "stop", "update", "arm",
                "launch", "wait", "disarm", "done"}
IdleScript == [cmd |-> "none", pc |-> "idle"]
NoOperation == [action |-> "none", running |-> FALSE]
Operations == [action : Commands \cup {"none"}, running : BOOLEAN]
RecoveryStates ==
    [incident : BOOLEAN, attempts : Seq(Nat),
     next : Nat \cup {Unscheduled}, exhausted : BOOLEAN]
NoIncident == [incident |-> FALSE, attempts |-> <<>>,
               next |-> Unscheduled, exhausted |-> FALSE]
WatchdogSteps == {"idle", "desired", "evaluate", "probing", "decide",
                  "request", "commit"}
IdleWatchdog == [pc |-> "idle", alive |-> FALSE, wanted |-> FALSE]

\* is_running, serverRunning: some process shows the server's identity.
Running == up > 0

\* A script past its flock and not yet past its exit.
Critical(s) == script[s].pc \notin {"idle", "lock", "done"}

\* Mutant: nothing is pruned.
PruneNothing(attempts, window) == attempts

\* pruneRecoveryAttempts drops the leading attempts older than the window.
PrunePoints(attempts, window) ==
    {n \in 0 .. Len(attempts) : n = Len(attempts) \/ attempts[n + 1] <= window}
pruneRecoveryAttempts(attempts, window) ==
    SubSeq(attempts, Min(PrunePoints(attempts, window)) + 1, Len(attempts))

Pruned == pruneRecoveryAttempts(rec.attempts, settings.window)

\* validStoredOperation: what loadOrCreateOperationState accepts.
validStoredOperation(operation) ==
    IF operation.action = "none" THEN ~operation.running
    ELSE operation.action \in {"start", "stop", "restart", "update"}

\* validRecoveryState: ages of a list of times in order never increase.
validRecoveryState(state) ==
    /\ ~state.incident => state.next = Unscheduled /\ ~state.exhausted
    /\ \A i, j \in 1 .. Len(state.attempts) :
           i < j => state.attempts[i] >= state.attempts[j]

\* writeJSONAtomic either replaces the file or leaves it as it was.
SaveOperation(value) ==
    opDisk' = value \/ (DiskFaults /\ opDisk' = opDisk)

\* saveRecoveryStateLocked, its error ignored by the watchdog.
SaveRecovery(value) ==
    recDisk' = value \/ (DiskFaults /\ recDisk' = recDisk)

-----------------------------------------------------------------------------
(* server.sh: one action per step of the script that holds the lock *)

At(s, step) == script[s].pc = step
Command(s) == script[s].cmd
Go(s, step) == /\ script' = [script EXCEPT ![s].pc = step]
               /\ UNCHANGED <<lock, orphans>>

\* The script ends and its file descriptor releases the lock; the manager
\* still has to collect the result of its own script.
Exit(s) ==
    /\ script' = [script EXCEPT ![s] =
                     IF s = OP THEN [@ EXCEPT !.pc = "done"] ELSE IdleScript]
    /\ lock' = IF lock = s THEN "free" ELSE lock
    /\ orphans' = orphans \ {s}

\* A failed launch: only start takes the desired state back.
LaunchFails(s) ==
    IF Command(s) = "start" THEN Go(s, "disarm") ELSE Exit(s)

\* Mutant: the lock is taken whoever holds it.
TakeLockUnguarded(s) ==
    /\ At(s, "lock")
    /\ lock' = s
    /\ script' = [script EXCEPT ![s].pc =
           IF Command(s) \in {"start", "recover"} THEN "check" ELSE "desire"]
    /\ UNCHANGED <<orphans, serverVars, web, opVars, recoveryVars>>

\* flock -n 9: a busy lock ends the script at once.
TakeLock(s) ==
    /\ At(s, "lock")
    /\ \/ /\ lock = "free"
          /\ lock' = s
          /\ script' = [script EXCEPT ![s].pc =
                 IF Command(s) \in {"start", "recover"} THEN "check" ELSE "desire"]
          /\ UNCHANGED orphans
       \/ /\ lock # "free"
          /\ Exit(s)
    /\ UNCHANGED <<serverVars, web, opVars, recoveryVars>>

\* Mutant: recover does not look at the desired state.
CheckPreconditionUnarmed(s) ==
    /\ At(s, "check")
    /\ IF Command(s) = "start"
       THEN IF Running THEN Exit(s) ELSE Go(s, "update")
       ELSE Go(s, "launch")
    /\ UNCHANGED <<serverVars, web, opVars, recoveryVars>>

\* start refuses a running server, recover a server that shall be stopped.
CheckPrecondition(s) ==
    /\ At(s, "check")
    /\ \/ Command(s) = "start" /\ ~Running /\ Go(s, "update")
       \/ Command(s) = "start" /\ Running /\ Exit(s)
       \/ Command(s) = "recover" /\ desired = "running" /\ Go(s, "launch")
       \/ Command(s) = "recover" /\ desired # "running" /\ Exit(s)
    /\ UNCHANGED <<serverVars, web, opVars, recoveryVars>>

\* write_desired_state, the first effect of stop, restart and update.
WriteDesired(s) ==
    /\ At(s, "desire")
    /\ desired' = IF Command(s) = "restart" THEN "running" ELSE "stopped"
    /\ Go(s, IF Command(s) = "update" THEN "update" ELSE "stop")
    /\ UNCHANGED <<up, starting, web, opVars, recoveryVars>>

\* Mutant: stop_server without its early return for a stopped server.
StopServerBlindly(s) ==
    /\ At(s, "stop")
    /\ up' = up - 1
    /\ IF Command(s) = "restart" THEN Go(s, "update") ELSE Exit(s)
    /\ UNCHANGED <<desired, starting, web, opVars, recoveryVars>>

\* stop_server: TERM, wineserver -k, KILL.  wineserver -k also takes the
\* processes that do not show yet, when it comes to it.
StopServer(s) ==
    /\ At(s, "stop")
    /\ \/ /\ ~Running
          /\ UNCHANGED <<up, starting>>
          /\ IF Command(s) = "restart" THEN Go(s, "update") ELSE Exit(s)
       \/ /\ Running
          /\ up' = 0
          /\ starting' \in {0, starting}
          /\ IF Command(s) = "restart" THEN Go(s, "update") ELSE Exit(s)
       \/ /\ Running
          /\ up' \in 1 .. up
          /\ starting' \in {0, starting}
          /\ Exit(s)
    /\ UNCHANGED <<desired, web, opVars, recoveryVars>>

\* update_server, apply_pending_config and apply_pending_custompaks: any of
\* them may fail, which ends the script (set -e) before it writes anything.
UpdateServer(s) ==
    /\ At(s, "update")
    /\ \/ Exit(s)
       \/ /\ ~Running
          /\ \/ Command(s) = "start" /\ Go(s, "arm")
             \/ Command(s) = "restart" /\ Go(s, "launch")
             \/ Command(s) = "update" /\ Exit(s)
    /\ UNCHANGED <<serverVars, web, opVars, recoveryVars>>

\* start writes the desired state between its update and its launch.
Arm(s) ==
    /\ At(s, "arm")
    /\ desired' = "running"
    /\ Go(s, "launch")
    /\ UNCHANGED <<up, starting, web, opVars, recoveryVars>>

\* Mutant: launch_server without its is_running check.
LaunchServerUnchecked(s) ==
    /\ At(s, "launch")
    /\ up + starting < MaxProcesses
    /\ starting' = starting + 1
    /\ Go(s, "wait")
    /\ UNCHANGED <<desired, up, web, opVars, recoveryVars>>

\* launch_server up to the process in the background.
LaunchServer(s) ==
    /\ At(s, "launch")
    /\ \/ /\ LaunchFails(s)
          /\ UNCHANGED starting
       \/ /\ ~Running
          /\ up + starting < MaxProcesses
          /\ starting' = starting + 1
          /\ Go(s, "wait")
    /\ UNCHANGED <<desired, up, web, opVars, recoveryVars>>

\* launch_server's fifteen second wait for the identity of the process.
WaitWithoutTimeout == Running    \* mutant

WaitIsOver == Running \/ LateStart \/ starting = 0

AwaitServer(s) ==
    /\ At(s, "wait")
    /\ WaitIsOver
    /\ IF Running THEN Exit(s) ELSE LaunchFails(s)
    /\ UNCHANGED <<serverVars, web, opVars, recoveryVars>>

\* start gives its intent up when the launch failed.
Disarm(s) ==
    /\ At(s, "disarm")
    /\ desired' = "stopped"
    /\ Exit(s)
    /\ UNCHANGED <<up, starting, web, opVars, recoveryVars>>

\* A shell or OpenRC runs the script.
RunScript(s, cmd) ==
    /\ s \in Externals
    /\ At(s, "idle")
    /\ script' = [script EXCEPT ![s] = [cmd |-> cmd, pc |-> "lock"]]
    /\ UNCHANGED <<lock, orphans, serverVars, web, opVars, recoveryVars>>

\* A script whose reader is gone dies of its next line of output; it prints
\* nothing while it waits for the process.
OrphanDies(s) ==
    /\ s \in orphans
    /\ At(s, "wait") => WaitIsOver
    /\ Exit(s)
    /\ UNCHANGED <<serverVars, web, opVars, recoveryVars>>

ScriptStep(s) ==
    \/ TakeLock(s) \/ CheckPrecondition(s) \/ WriteDesired(s) \/ StopServer(s)
    \/ UpdateServer(s) \/ Arm(s) \/ LaunchServer(s) \/ AwaitServer(s)
    \/ Disarm(s)

-----------------------------------------------------------------------------
(* The game process *)

ProcessAppears ==
    /\ starting > 0
    /\ starting' = starting - 1
    /\ up' = up + 1
    /\ UNCHANGED <<desired, scriptVars, web, opVars, recoveryVars>>

ProcessExits ==
    /\ \/ up > 0 /\ up' = up - 1 /\ UNCHANGED starting
       \/ starting > 0 /\ starting' = starting - 1 /\ UNCHANGED up
    /\ UNCHANGED <<desired, scriptVars, web, opVars, recoveryVars>>

-----------------------------------------------------------------------------
(* The manager's operation *)

\* startOperation's checks, made before it takes the mutex.
RequestOperation(action) ==
    /\ web = "up"
    /\ request = "none"
    /\ action = "update" => ~Running
    /\ action = "start" => ~Running
    /\ request' = action
    /\ UNCHANGED <<op, opDisk, scriptVars, serverVars, web, recoveryVars>>

\* Mutant: the script runs whether the record could be saved or not.
BeginOperationUnsaved(action) ==
    /\ ~op.running
    /\ op' = [action |-> action, running |-> TRUE]
    /\ SaveOperation(op')
    /\ script' = [script EXCEPT ![OP] = [cmd |-> action, pc |-> "lock"]]
    /\ UNCHANGED <<lock, orphans>>

\* The part of startOperation under the mutex: the record is on disk before
\* the script runs, and a record that cannot be saved starts nothing.
BeginOperation(action) ==
    /\ ~op.running
    /\ op' = [action |-> action, running |-> TRUE]
    /\ opDisk' = op'
    /\ script' = [script EXCEPT ![OP] = [cmd |-> action, pc |-> "lock"]]
    /\ UNCHANGED <<lock, orphans>>

OperationRefused ==
    /\ op.running \/ DiskFaults
    /\ UNCHANGED <<op, opDisk, scriptVars>>

StartOperation ==
    /\ request # "none"
    /\ BeginOperation(request) \/ OperationRefused
    /\ request' = "none"
    /\ UNCHANGED <<serverVars, web, recoveryVars>>

\* The goroutine of startOperation after command.Run.
FinishOperation ==
    /\ web = "up"
    /\ At(OP, "done")
    /\ op' = [op EXCEPT !.running = FALSE]
    /\ SaveOperation(op')
    /\ script' = [script EXCEPT ![OP] = IdleScript]
    /\ UNCHANGED <<lock, orphans, request, serverVars, web, recoveryVars>>

\* Steam queries, uploads and staged changes hold the lifecycle lock too.
ManagerLocks(user) ==
    /\ web = "up"
    /\ lock = "free"
    /\ lock' = user
    /\ UNCHANGED <<script, orphans, serverVars, web, opVars, recoveryVars>>

ManagerUnlocks(user) ==
    /\ lock = user
    /\ lock' = "free"
    /\ UNCHANGED <<script, orphans, serverVars, web, opVars, recoveryVars>>

-----------------------------------------------------------------------------
(* The watchdog: observeRecovery, one action per read and per branch *)

NotWatchdog == <<serverVars, web, script, orphans>>
Sample(pc) == wd' = [wd EXCEPT !.pc = pc]
EndSample == wd' = IdleWatchdog

ObserveProcess ==
    /\ web = "up"
    /\ wd.pc = "idle"
    /\ wd' = [pc |-> "desired", alive |-> Running, wanted |-> FALSE]
    /\ UNCHANGED <<NotWatchdog, lock, opVars, rec, recDisk, settings, retry, launches>>

ObserveDesired ==
    /\ wd.pc = "desired"
    /\ wd' = [wd EXCEPT !.pc = "evaluate", !.wanted = (desired = "running")]
    /\ UNCHANGED <<NotWatchdog, lock, opVars, rec, recDisk, settings, retry, launches>>

\* Mutant: the next attempt and the exhaustion outlive the incident.
ObserveRunningPartly ==
    /\ wd.pc = "evaluate"
    /\ wd.alive
    /\ rec' = [rec EXCEPT !.incident = FALSE, !.attempts = Pruned]
    /\ SaveRecovery(rec')
    /\ EndSample
    /\ UNCHANGED <<NotWatchdog, lock, opVars, settings, retry, launches>>

\* A running server closes the incident.  The file is written when that
\* changed something, or when the process is not the one seen last.
ObserveRunning ==
    /\ wd.pc = "evaluate"
    /\ wd.alive
    /\ rec' = [NoIncident EXCEPT !.attempts = Pruned]
    /\ \/ SaveRecovery(rec')
       \/ /\ ~rec.incident /\ ~rec.exhausted /\ rec.next = Unscheduled
          /\ UNCHANGED recDisk
    /\ EndSample
    /\ UNCHANGED <<NotWatchdog, lock, opVars, settings, retry, launches>>

\* A server that shall be stopped closes the incident and renews the budget.
ObserveStopped ==
    /\ wd.pc = "evaluate"
    /\ ~wd.alive /\ ~wd.wanted
    /\ rec' = NoIncident
    /\ IF rec # NoIncident THEN SaveRecovery(rec') ELSE UNCHANGED recDisk
    /\ launches' = <<>>
    /\ EndSample
    /\ UNCHANGED <<NotWatchdog, lock, opVars, settings, retry>>

\* A lifecycle action is under way: look again at the next sample.
ObserveBusy ==
    /\ wd.pc = "evaluate"
    /\ ~wd.alive /\ wd.wanted
    /\ op.running \/ lock # "free"
    /\ EndSample
    /\ UNCHANGED <<NotWatchdog, lock, opVars, rec, recDisk, settings, retry, launches>>

\* lifecycleOperationBusy finds the lock free by holding it for a moment;
\* recoveryMu stays locked until the sample leaves "probing".
ProbeLock ==
    /\ wd.pc = "evaluate"
    /\ ~wd.alive /\ wd.wanted
    /\ ~op.running /\ lock = "free"
    /\ lock' = "watchdog"
    /\ Sample("probing")
    /\ UNCHANGED <<NotWatchdog, opVars, rec, recDisk, settings, retry, launches>>

\* A new incident: recorded, then the mutex is released to send the alerts.
RecordCrash ==
    /\ wd.pc = "probing"
    /\ lock' = "free"
    /\ ~rec.incident
    /\ rec' = [rec EXCEPT !.incident = TRUE, !.next = Unscheduled, !.exhausted = FALSE]
    /\ SaveRecovery(rec')
    /\ Sample("decide")
    /\ UNCHANGED <<NotWatchdog, opVars, settings, retry, launches>>

\* The mutex is held again after the alerts, or was never released.
Deciding ==
    \/ wd.pc = "decide" /\ UNCHANGED lock
    \/ wd.pc = "probing" /\ rec.incident /\ lock' = "free"

Remember(ages) == IF Len(ages) > MaxHistory THEN Tail(ages) ELSE ages

\* Mutant: the attempt is not saved before it is made.
MakeAttemptUnsaved ==
    /\ rec' = [rec EXCEPT !.attempts = Append(Pruned, 0), !.next = Unscheduled]
    /\ UNCHANGED recDisk
    /\ launches' = Remember(Append(launches, 0))
    /\ Sample("request")

\* The attempt counts, on disk, before it is made.
MakeAttempt ==
    /\ rec' = [rec EXCEPT !.attempts = Append(Pruned, 0), !.next = Unscheduled]
    /\ SaveRecovery(rec')
    /\ launches' = Remember(Append(launches, 0))
    /\ Sample("request")

Decide ==
    LET tries == Len(Pruned)
        pruned == [rec EXCEPT !.attempts = Pruned]
    IN  /\ Deciding
        /\ \/ /\ ~settings.enabled
              /\ rec' = [pruned EXCEPT !.next = Unscheduled]
              /\ SaveRecovery(rec')
              /\ EndSample
              /\ UNCHANGED launches
           \/ /\ settings.enabled /\ tries >= settings.max
              /\ rec' = [pruned EXCEPT !.next = Unscheduled, !.exhausted = TRUE]
              /\ SaveRecovery(rec')
              /\ EndSample
              /\ UNCHANGED launches
           \/ /\ settings.enabled /\ tries < settings.max
              /\ rec.next = Unscheduled
              /\ rec' = [pruned EXCEPT !.next = RecoveryDelay[tries]]
              /\ SaveRecovery(rec')
              /\ EndSample
              /\ UNCHANGED launches
           \/ /\ settings.enabled /\ tries < settings.max
              /\ rec.next \in Nat \ {0}
              /\ rec' = pruned
              /\ UNCHANGED <<recDisk, launches>>
              /\ EndSample
           \/ /\ settings.enabled /\ tries < settings.max
              /\ rec.next = 0
              /\ MakeAttempt
        /\ UNCHANGED <<NotWatchdog, opVars, settings, retry>>

\* startRecoveryOperation, checks first; a refusal is only recorded.
RequestRecovery ==
    /\ wd.pc = "request"
    /\ \/ /\ Running
          /\ SaveRecovery(rec)
          /\ EndSample
       \/ /\ ~Running
          /\ Sample("commit")
          /\ UNCHANGED recDisk
    /\ UNCHANGED <<NotWatchdog, lock, opVars, rec, settings, retry, launches>>

StartRecovery ==
    /\ wd.pc = "commit"
    /\ \/ BeginOperation("recover") /\ UNCHANGED recDisk
       \/ OperationRefused /\ SaveRecovery(rec)
    /\ EndSample
    /\ UNCHANGED <<serverVars, web, request, rec, settings, retry, launches>>

WatchdogStep ==
    \/ ObserveProcess \/ ObserveDesired \/ ObserveRunning \/ ObserveStopped
    \/ ObserveBusy \/ ProbeLock \/ RecordCrash \/ Decide
    \/ RequestRecovery \/ StartRecovery

-----------------------------------------------------------------------------
(* The administrator's recovery controls *)

\* setRecoverySettings
SetRecoverySettings(new) ==
    LET kept == pruneRecoveryAttempts(rec.attempts, new.window)
    IN  /\ web = "up"
        /\ wd.pc # "probing"
        /\ new # settings
        /\ settings' = new
        /\ rec' = IF ~new.enabled
                  THEN [rec EXCEPT !.attempts = kept, !.next = Unscheduled,
                                   !.exhausted = FALSE]
                  ELSE IF rec.incident
                  THEN [rec EXCEPT !.attempts = kept, !.next = 0,
                                   !.exhausted = FALSE]
                  ELSE [rec EXCEPT !.attempts = kept]
        /\ SaveRecovery(rec')
        /\ UNCHANGED <<NotWatchdog, lock, opVars, wd, retry, launches>>

\* retryRecoveryNow reads the process and the desired state without a lock.
RequestRetry ==
    /\ web = "up"
    /\ ~retry
    /\ ~Running
    /\ desired = "running"
    /\ retry' = TRUE
    /\ UNCHANGED <<NotWatchdog, lock, opVars, wd, rec, recDisk, settings, launches>>

\* The rest of it under recoveryMu: an empty budget window, due at once.
RetryNow ==
    /\ retry
    /\ wd.pc # "probing"
    /\ retry' = FALSE
    /\ IF settings.enabled
       THEN /\ rec' = [incident |-> TRUE, attempts |-> <<>>, next |-> 0,
                       exhausted |-> FALSE]
            /\ SaveRecovery(rec')
            /\ launches' = <<>>
       ELSE UNCHANGED <<rec, recDisk, launches>>
    /\ UNCHANGED <<NotWatchdog, lock, opVars, wd, settings>>

-----------------------------------------------------------------------------
(* The manager process and the machine *)

ForgetMemory ==
    /\ web' = "down"
    /\ op' = NoOperation
    /\ request' = "none"
    /\ wd' = IdleWatchdog
    /\ rec' = NoIncident
    /\ retry' = FALSE

\* The manager stops.  Its script goes on without a reader, and the locks
\* the manager held itself are released.
WebStops ==
    LET abandoned == script[OP].pc \notin {"idle", "done"}
        Move(holder, e) == IF holder = OP THEN e ELSE "free"
    IN  /\ web = "up"
        /\ ForgetMemory
        /\ \/ /\ abandoned
              /\ \E e \in Externals :
                    /\ At(e, "idle")
                    /\ script' = [script EXCEPT ![e] = script[OP], ![OP] = IdleScript]
                    /\ lock' = IF lock \in Externals THEN lock ELSE Move(lock, e)
                    /\ orphans' = orphans \cup {e}
           \/ /\ ~abandoned
              /\ script' = [script EXCEPT ![OP] = IdleScript]
              /\ lock' = IF lock \in Externals THEN lock ELSE "free"
              /\ UNCHANGED orphans
        /\ UNCHANGED <<serverVars, opDisk, recDisk, settings, launches>>

\* Mutant: a record of an operation that was running is loaded as it is.
WebStartsUnmarked ==
    /\ web = "down"
    /\ validStoredOperation(opDisk)
    /\ validRecoveryState(recDisk)
    /\ web' = "up"
    /\ op' = opDisk
    /\ rec' = recDisk
    /\ UNCHANGED <<scriptVars, serverVars, opDisk, request, wd, recDisk,
                   settings, retry, launches>>

\* loadOrCreateOperationState and loadOrCreateRecoveryState: a stored state
\* that is not valid keeps the manager from starting.
WebStarts ==
    LET kept == pruneRecoveryAttempts(recDisk.attempts, settings.window)
    IN  /\ web = "down"
        /\ validStoredOperation(opDisk)
        /\ validRecoveryState(recDisk)
        /\ web' = "up"
        /\ op' = [opDisk EXCEPT !.running = FALSE]
        /\ opDisk' = op'
        /\ IF Running
           THEN /\ rec' = [NoIncident EXCEPT !.attempts = kept]
                /\ recDisk' = rec'
           ELSE /\ rec' = [recDisk EXCEPT !.attempts = kept]
                /\ UNCHANGED recDisk
        /\ UNCHANGED <<scriptVars, serverVars, request, wd, settings, retry, launches>>

\* The machine goes down with everything that runs on it.
HostReboots ==
    /\ ForgetMemory
    /\ up' = 0 /\ starting' = 0
    /\ script' = [s \in Slots |-> IdleScript]
    /\ lock' = "free"
    /\ orphans' = {}
    /\ UNCHANGED <<desired, opDisk, recDisk, settings, launches>>

\* One unit of time.  A sample and a request take far less than that.
Older(ages) == [i \in 1 .. Len(ages) |->
                   IF ages[i] < MaxAge THEN ages[i] + 1 ELSE MaxAge]
Sooner(next) == IF next \in Nat \ {0} THEN next - 1 ELSE next
LaterState(state) == [state EXCEPT !.attempts = Older(@), !.next = Sooner(@)]

Tick ==
    /\ wd.pc = "idle"
    /\ request = "none"
    /\ ~retry
    /\ rec' = LaterState(rec)
    /\ recDisk' = LaterState(recDisk)
    /\ launches' = pruneRecoveryAttempts(Older(launches), MaxAge - 1)
    /\ UNCHANGED <<scriptVars, serverVars, web, opVars, wd, settings, retry>>

-----------------------------------------------------------------------------

SettingsValues == [enabled : BOOLEAN, max : AttemptLimits, window : Windows]

Init ==
    /\ desired = "stopped"
    /\ up = 0 /\ starting = 0
    /\ lock = "free"
    /\ script = [s \in Slots |-> IdleScript]
    /\ orphans = {}
    /\ web = "up"
    /\ op = NoOperation /\ opDisk = NoOperation
    /\ request = "none"
    /\ wd = IdleWatchdog
    /\ rec = NoIncident /\ recDisk = NoIncident
    /\ settings \in {v \in SettingsValues : v.enabled}
    /\ retry = FALSE
    /\ launches = <<>>

Script == \E s \in Slots : ScriptStep(s)
Shell == \E s \in Externals : \E cmd \in CliCommands : RunScript(s, cmd)
Orphan == \E s \in Externals : OrphanDies(s)
Administrator ==
    \/ \E action \in HttpActions : RequestOperation(action)
    \/ \E new \in SettingsValues : SetRecoverySettings(new)
    \/ RequestRetry \/ RetryNow
Manager ==
    \/ StartOperation \/ FinishOperation
    \/ \E user \in LockUsers : ManagerLocks(user) \/ ManagerUnlocks(user)
Environment ==
    \/ ProcessAppears \/ ProcessExits \/ WebStops \/ WebStarts \/ HostReboots
    \/ Tick

Next ==
    \/ Script \/ Shell \/ Orphan \/ Administrator \/ Manager \/ WatchdogStep
    \/ Environment

Spec == Init /\ [][Next]_vars

\* Scripts run to their end, a spawned process shows or dies, the loops of the
\* manager are scheduled, Go mutexes are granted in turn (RetryNow) and time
\* passes (Tick waits for the end of a sample only to keep the model small).
\* Nothing is assumed of crashes, of the shell or of the administrator.
Fairness ==
    /\ \A s \in Slots : WF_vars(ScriptStep(s))
    /\ WF_vars(ProcessAppears)
    /\ WF_vars(StartOperation) /\ WF_vars(FinishOperation)
    /\ WF_vars(WatchdogStep)
    /\ SF_vars(RetryNow)
    /\ WF_vars(WebStarts)
    /\ SF_vars(Tick)

FairSpec == Spec /\ Fairness

-----------------------------------------------------------------------------
(* Properties *)

\* Every variable has its type.
TypeOK ==
    /\ desired \in {"running", "stopped"}
    /\ up \in Nat /\ starting \in Nat
    /\ lock \in Slots \cup LockUsers \cup {"watchdog", "free"}
    /\ script \in [Slots -> [cmd : Commands \cup {"none"}, pc : ScriptSteps]]
    /\ orphans \subseteq Externals
    /\ web \in {"up", "down"}
    /\ op \in Operations /\ opDisk \in Operations
    /\ request \in HttpActions \cup {"none"}
    /\ wd \in [pc : WatchdogSteps, alive : BOOLEAN, wanted : BOOLEAN]
    /\ rec \in RecoveryStates /\ recDisk \in RecoveryStates
    /\ settings \in SettingsValues
    /\ retry \in BOOLEAN
    /\ launches \in Seq(Nat)

\* At most one script is between its flock and its exit, and it is the holder
\* of lifecycle.lock, also after the manager that ran it has stopped
\* (server.sh:693-697).
OneScriptAtATime == \A s \in Slots : Critical(s) => lock = s

\* A process is spawned, or awaited, only while the desired state says
\* running: neither a recovery nor a start brings back a server that a
\* finished or concurrent stop wants down (README, Recovery and Monitoring).
LaunchIsWanted ==
    \A s \in Slots : script[s].pc \in {"launch", "wait"} => desired = "running"

\* There is never a second game process on the same installation, whoever
\* launches: the manager, the watchdog, a shell or a script left behind.
SingleServer == up + starting <= 1

\* The script that the manager runs is the one its record names, in memory and
\* on disk, so a manager that stops leaves a record to mark as interrupted
\* (README, Persistent Dashboard History).
RecordDescribesScript ==
    script[OP].pc # "idle" =>
        /\ op = [action |-> Command(OP), running |-> TRUE]
        /\ opDisk = op

\* A running operation of the manager has a script: no record stays running
\* without anyone to end it, whatever stopped and restarted in between.
RunningHasScript == op.running => script[OP].pc # "idle"

\* The recovery state on disk can be loaded again at any time.
StoredRecoveryIsValid == validRecoveryState(recDisk)

\* README: "If the web manager stops before a running operation records its
\* result, the next start preserves the operation and marks it as
\* interrupted": every operation the manager stores can be loaded again.
StoredOperationIsValid == validStoredOperation(opDisk)

\* No attempt is made beyond the limit in force: counted over every attempt
\* since the budget was last renewed, however often the manager stopped and
\* forgot in between (README: three attempts in a rolling window).  The code
\* forgets what left the window, so this is for a window that is not widened.
RecoveryWithinBudget ==
    [][launches' # launches /\ 0 \in {launches'[i] : i \in 1 .. Len(launches')}
         => Len(pruneRecoveryAttempts(launches', settings.window)) <= settings.max]_vars

\* Every operation of the manager ends, in the dashboard too.
OperationEnds == op.running ~> ~op.running

\* A server that shall run and does not is not forgotten: it comes back, an
\* operation such as its recovery is under way, or something that rules
\* recovery out happens; an exhausted budget only delays this until the window
\* has passed.
Unattended == /\ web = "up" /\ settings.enabled
              /\ desired = "running" /\ ~Running /\ lock = "free" /\ ~op.running
CrashIsAnswered ==
    Unattended ~> \/ Running \/ web = "down" \/ ~settings.enabled
                  \/ desired = "stopped"
                  \/ op.running

=============================================================================
