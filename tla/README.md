# Verification of mordhau-server-alpine-linux

TLA+ models of the parts of this repository that keep state over steps, threads,
processes or crashes: when the MORDHAU dedicated server is started, stopped,
updated and restarted, how the manager replaces itself, how files staged by the
panels become active, what a fleet of servers tells each other, and what the
manager remembers of players. They are checked with TLC and, in part, proved
with TLAPS. Go file names below are those of `src/web/internal/manager/`;
`server.sh` is `src/templates/server.sh`; `README` is the repository's.

## 1. Inventory

The program is one Go process, the web manager `mordhau-web`, and a shell
script, `server.sh`, that runs the game under Wine. They share files, one file
lock and the process table. Several managers may form a fleet.

| Component | State | Operations | Hard to get right |
|---|---|---|---|
| lifecycle script (`server.sh`) | `lifecycle.lock`, `server-desired-state`, the game process | start, stop, restart, update, recover | run by the manager, the watchdog, OpenRC and shells at once; survives the manager that began it |
| operations (`operations.go`, `operationstate.go`) | `m.op`, `operation.json` | `requestOperation`, `startOperation`, its goroutine, load at start | unlocked checks before the mutex; a manager that stops during the script |
| watchdog (`watchdog.go`) | `recoveryState` and its file, `recoverySettings` | `observeRecovery`, settings, retry now, load | reads, then locks, then decides; a retry budget over restarts and crash loops |
| mod restarts (`modrestart.go`), automatic updates (`autoupdate.go`), recurring restart (`scheduledrestart.go`) | one plan each, in memory and in a file; a wake channel of capacity one | detect, notice, wait for an empty server, request, skip, move, settings | three loops without a common lock act on what they read of each other |
| mod refresh (`modrefresh.go`, `modio.go`) | cache, next refresh, single flight, wake channel | refresh, refresh after a change, settings | a refresh that began before a change; a signal while the loop sets its timer |
| self-update (`selfupdate.go`), installer (`mordhau-server-alpine-linux.sh`), Steam check (`steamupdate.go`) | `manager-update.json`, `manager-version`, worker lock; cached build | begin, worker, install, reconcile, check | a detached process outlives the manager it replaces; no mutex reaches over processes |
| PAK files (`custompaks.go`) | files in three directories, `custompaks-state.json` | enable, disable, delete, cancel, upload, apply | several files move, the requests are removed last; applied by the script |
| INI files (`config.go`, `disabledini.go`), rotation (`maprotation.go`) | active and pending files, the record of disabled entries | edits, discard, rotation, migration, recovery from a backup, move by the script | every edit writes two files, with roll-back by snapshots; the start of a manager takes no lock |
| fleet (`fleet.go`, `fleet_http.go`, `fleet_transport.go`) | identity, role, peers, policies, workers, status | pair, add, remove, switch role, set policy, post it | a worker is replaced without being joined |
| fleet events (`fleet_events.go`) | feeds, route queue, delivery queues, recent deliveries | publish, feed, route, deliver, show | bounded queues that drop, order per destination, policy read early, deliveries given up |
| players (`players.go`), game log (`gamelog.go`) | `players.json`, the follower's position, live sessions | import, follow, reconcile with the bridge, mute, ban, expire | lost close records, archived logs, lists that are late; leases and commands that may lose their answer |
| RCON, bridge, monitoring | one connection per command; samples, alerts | command, exchange, sample | sources that disagree |
| accounts (`auth.go`, `access.go`), services (`services.go`) | accounts, sessions, lists, ports, boot mode | log in, edit, delete | none beyond one mutex each |
| HTTP routes, browser, GeoIP, audit, search | none the above rely on | | |

How they interact. Loops and HTTP handlers call `requestOperation`; it runs
`server.sh`, which takes the lifecycle lock, writes the desired state and applies
the staged PAKs and INI files before it launches. The watchdog reads that state
and the process table and requests `recover`. The three restart loops read each
other's plans, the process and the operation, and are woken through channels by
settings, by version queries and by the start and end of operations. Editors of
files take the lifecycle lock for themselves. A controller's supervisor runs a
worker per managed server, which posts its policy and reads its feed; events go
through the controller to the other servers, which show them over RCON.

What makes each part correct: one script at a time and one game process; no
launch that nobody wants; a record on disk that names what runs; a budget that
is never exceeded and never lost; a restart only of the process it was announced
to, after all notices, once; a plan that is settled in the end; a file request
that is met at the next managed start or still there; an INI entry that is never
lost; an event shown once, in order, and not at all where it is switched off; a
policy that arrives; a session that is open exactly as long as its player is
there; a restriction that lasts as long as reported; a changed mod list that is
shown. The hazards, each with its line and its properties, are in `PROJECT.json`.

## 2. Modules

| Module | Models | Role |
|---|---|---|
| `Lifecycle` | `server.sh`, operations, watchdog | the core |
| `RestartPlans` | `modrestart.go`, `autoupdate.go`, `scheduledrestart.go`, the policy part of `modrefresh.go` | the plans against each other |
| `ManagerUpdate` | `selfupdate.go`, the installer as the worker runs it, the start of a manager as far as it reconciles | the update of the manager by itself |
| `CustomPaks` | `custompaks.go` and its part of `server.sh start` | staged files |
| `PakPlan` | what the panel of `CustomPaks` promises | abstract specification, implemented by `CustomPaks` |
| `ConfigFiles` | `config.go`, `disabledini.go`, `maprotation.go` and their part of `server.sh start` | staged configuration |
| `FleetEvents` | `fleet_events.go`, feeds and deliveries of `fleet_transport.go` | events of a fleet |
| `FleetPolicy` | supervisor and workers of `fleet_transport.go`, settings of `fleet.go` and `fleet_http.go` | a peer's policy on its way |
| `PlayerSessions` | `gamelog.go`, connections of `players.go` | who is on the server |
| `PlayerRestrictions` | mutes and bans of `players.go` | leases and commands |
| `ModRefresh` | `modrefresh.go` without policies | the cache of mod metadata |
| `Lifecycle_proofs`, `RestartPlans_proofs`, `ManagerUpdate_proofs`, `StagedChanges_proofs`, `FleetEvents_proofs`, `FleetPolicy_proofs`, `Players_proofs`, `ModRefresh_proofs` | | theorems; `StagedChanges_proofs` has those of `CustomPaks` and `ConfigFiles`, the changes that wait for a start, `Players_proofs` those of `PlayerRestrictions` and `PlayerSessions` |
| `MC...` | | instances for TLC |

### Lifecycle

One action per step of a script that another actor can observe: `TakeLock`,
`CheckPrecondition`, `WriteDesired`, `StopServer`, `UpdateServer`, `Arm`,
`LaunchServer`, `AwaitServer`, `Disarm`. `Command` decides the steps. Slot `OP`
is the manager's own script, the slots of `Externals` belong to shells, OpenRC
and to scripts whose manager has stopped (`orphans`: their output pipe is
broken, they may die of it at any step). `lock` is the flock, with the functions
of the manager that take it (`LockUsers`) and the watchdog's probe.

An HTTP request is split where the code is: the unlocked look at the process
(`RequestOperation`), then everything under `operationMu` (`BeginOperation` or
`OperationRefused`), then the goroutine's end (`FinishOperation`). A sample of
the watchdog is split at each read that no lock protects: the process, the
desired state, then the decision under `recoveryMu` (`ObserveRunning`,
`ObserveStopped`, `ObserveBusy`, `RecordCrash`, `Decide`), the request, the end.
`SetRecoverySettings`, `RequestRetry` and `RetryNow` come in between.

A state file is either written or, with `DiskFaults`, left as it was, as
`writeJSONAtomic` does; the caller's reaction to the error is in each action.
`WebStops` and `HostReboots` lose the memory, `WebStarts` loads the files with
the loaders' own checks. Time is relative: ages of attempts, time left until the
next one. SteamCMD and the installation of the bridge are one step that succeeds
or fails. `launches` is a history variable.

### RestartPlans

A pass of a loop is a sequence of steps with a program counter `loop[k].pc`. It
keeps what the code keeps in local variables: the plan it has `seen`, and whether
the process was `alive`. Steps end where the code releases a mutex, sends a
message or reads another component. What the three loops do alike (send, advance
the notice, wait for an empty server, final notice) is one action with the plan
as parameter; what differs has an action of its own (`DecideMod`, `DecideAuto`,
`DecideSched`, ...). `stale` stands for the absolute times the
code compares and relative time cannot tell apart. Policies, per-product
policies of the automatic update and the rule that the manager's goes first are
as in the code; versions are not: `offer` has the products with a version not
attempted yet. `told` and `visited` are history variables: which notices of which
restart time the present process was sent, and whether players have been there
since `EmptySince`.

A loop whose timer is set may wake at any time: the model does not compute
`nextActionAt`, so late timers and early signals are both in it.
`ProcessStarts` and `Tick` wait until no loop is in a pass. A pass with its
message takes a second or two, a launch and a notice interval longer.

### ManagerUpdate

The processes that share `manager-update.json` are the web manager, detached
workers, the installer a worker waits for, and `mordhau-web --init`, which the
installer runs and which is a start of a manager like any other. `record` is the
file, `installed` is `manager-version`. Releases are numbers.

The mutex of the manager (`MuFree`) is held by a check while it waits for GitHub
(`CheckBegins`, `CheckEnds`) and by a request until its worker is started
(`Begin`, `StartWorker`). A start reads the record, tries the workers' lock,
releases it and writes, in four steps, because no mutex reaches over processes.
A worker goes from its lock through the delay, the look at the services, the
download (`Prepare`, one step that may fail, with the comparison the code makes
before each part) and the installer to its result. The installer has a step for
each service it stops or starts, for the files, for `--init` and for the recorded
version; `set -e` lets it end at each (`InstallerDies`).

With `Operations` the manager and shells run `server.sh` meanwhile: an HTTP
request looks at the record and requests the operation in two steps; a loop does
not look; a script holds the lifecycle lock and leaves a server or none, which
contains what `Lifecycle` does. A command that fails because the lock is held is
an `InstallerDies`.

Every process may be killed and the host may restart at any step. What the code
cannot see is in history variables: `stopped`, the services the last installer
has stopped and nobody started since; `abandoned`, updates that went on although
the record gave them up: an installer whose worker was killed, a request whose
second worker could not be started while an older one served it, a record that a
slow start wrote over a newer one. `ReportIsTrue`, `InstallsWhatIsRequested` and
`RequestIsKept` except these, each as narrow as it is; section 5 lists them.

Two assumptions about time are in guards. What a manager still does to the record
after it found no worker, or while it starts one, ends within the two seconds a
worker waits (`Delay`); a started worker has tried its lock before an
installation, which takes minutes, ends (`Replace`). Two managers do not start at
the same moment. The installer run by hand is not modelled.

### CustomPaks and PakPlan

A package is in one of three directories or none (`place`); `stored` is
`custompaks-state.json`. A request is one action, because it writes one file
under the lifecycle lock: `SetEnabled`, `StageDeletion`, `CancelDeletion`. An
upload is three, since it links its file before it stores its request
(`UploadBegins`, `UploadLinks`, `UploadSaves`), and may die in between.
`--apply-custompaks` looks at every file first (`ApplyScans`), moves one per
step (`ApplyMoves`), and removes the requests last (`ApplyClears`). `Recover`
launches without it. `Administrator` changes the directories by hand; `touched`
remembers the names and `byHand` tells such a step from one of the panel or the
script.

`PakPlan` is what a user of the panel is told: each name has a state now and one
after the next managed start, a deletion has a state to return to, a request
changes the plan of its own name, and the files become what was planned, name by
name, while no server runs (`Applied`). An upload adds a file, or takes it back
when its request cannot be stored (`Uploaded`, `Withdrawn`). `byHand` is a
variable of the plan too: `Outside` is the one step that changes it, and a file
that became anything but what was planned can only be such a step. A name that had
no request stays what it was made, a request is not changed. `CustomPaks`
implements the plan (`FollowsPlan`) under the mapping `Now`, `Planned`, `Before`:
an interrupted application is then nothing but some names applied and others not.
`Deleted` says that a second deletion of the same name returns to the present
state; the code does so.

### ConfigFiles

`files` has an active and a pending version of `Game.ini`, `Engine.ini` and the
record of disabled entries. INI text is a set of entries (section, key and
value): the editor's operations are the pairs of new file and new record they
compute (`Edits`, `Rotations`), and `Writes` is the order in which
`persistConfigState` writes them. `WriteStep`, `WriteFails` (with the roll-back,
if that succeeds) and `ManagerDies` go through the list; `DiscardPending` removes
three files the same way; `ScriptMoves` moves them. `StartReads` and
`StartWrites` are `initializeDisabledINIState`, without the lock.

`owed` is a history variable: the entries no edit has removed, among what is
active and among what the next start will have. `exposed` names the interruptions
after which an entry may be missing, section 5.

### FleetEvents and FleetPolicy

`FleetEvents` has the controller, managed nodes, the streams over which they feed
events to it, the route queue, one delivery queue per destination, and at the
destination what is being handled and what it remembers (`recent`). A full queue
drops (`Offer`). A delivery is checked against the controller's policies when it
is routed and again when it is sent, against the destination's own when it
arrives. `GiveUp` is the timeout of eight seconds: the loop goes on, the
destination may still show the event. `routed`, `late`, `doubled` and `barred`
are history.

`FleetPolicy` is one peer of a controller: its entry in the settings, the
supervisor's map (`worker`), workers with a program counter each, policies under
way (`posts`), the policy the managed server has (`local`) and the status that is
shown. A worker that is cancelled ends when it looks at its context, not before.
`local` of `FleetEvents` changes at any time (`SetLocal`); `FleetPolicy` says when.

### PlayerSessions

The logs of all runs are sequences of logins and closes; `here` says whether the
last one is `Mordhau.log`. `Process` is `processLine` over the lines of a log
(`ProcessLine` one of them), `Import` and `Scan` are the import at a start,
`PollStopped`, `PollReads` and `Reconcile` the three parts of a turn of
`gameLogLoop`. `listed` is the last complete list of the Runtime bridge, which the
loop takes for good for five seconds (`freshRuntimeBridgeSummary`): one who came
may be missing in it for a while, and one who has left, or left and came back,
may still be in it with the former controller. `genuine` are those it lists under
the controller they have now; the code cannot tell, because a list has a player's
identifier and no session. `Leave` may write no close record. `RunBegins` moves the log, `LogAppears` opens the new one.
A session is the place of its login, as the code's is its time. `playerHistory` is
`m.playerHistory`, `playersFile` is `players.json`, and `loop` is the follower with
its processor. `told` and `again` are history: logouts announced, and announced
again; `spoiled` names what may have spoiled the record, section 5.

### PlayerRestrictions

`inForce` is the server's own list, which knows no times; `memory` and `disk` are
the manager's record with the leases. A request goes through its lease, its
command, the query of the lists and their application in four steps under
`playerRestrictionMu` (`holder`); a command may fail with or without effect. A
refresh for the panel takes two. `due` is what the expiry loop has read before it
takes the mutex. `promised` is history: what was last reported.

### ModRefresh

Goroutines of HTTP requests and the loop, each with a program counter. A refresh
that finds another in progress joins it, one after a changed configuration waits
for it and then begins its own; the end of a refresh releases both (`Released`).
The loop reads when to refresh next, sets its timer and waits, in two steps, so
that a change in between is possible; `wake` is the channel's one token.

### Composition

`Lifecycle` and `RestartPlans` meet in the operation: in `RestartPlans` an
operation is `op`, which begins with `Requests`, and what its script does to the
process is any order of `ProcessExits` and `ProcessStarts`. This contains what
`Lifecycle` does: a script stops the process, launches one, fails, or does
nothing. An update of the manager is one flag in `RestartPlans`, and what ends it
is `ManagerUpdate`. `CustomPaks` and `ConfigFiles` have the lifecycle lock and
the script as far as it concerns their files, `PlayerSessions` its launch. What a
refresh of `ModRefresh` detects is the input of `RestartPlans`. `MCPanels` puts
the modules that share no variable side by side in one run: it extends
`CustomPaks`, `ConfigFiles`, `ModRefresh`, `PlayerRestrictions` and
`PlayerSessions`, whose names differ for that reason (`Init` and `Next` are
`CustomPaks`', `ConfigInit` and `ConfigNext` those of `ConfigFiles`, and so on).
Each behaviour is one of one component (`focus`), so it checks
what separate runs would; the properties of the others hold in the one state
they are in.

## 3. Runs

| Run | Instance | Shows |
|---|---|---|
| `safety` | manager script and one external slot, crashes of manager and host; three instances (`MCLifecycleSafety`): every command and a Steam query that holds the lock; failing state files; recoveries with limits 1 and 2 and a window of 2 | `OneScriptAtATime`, `LaunchIsWanted`, `SingleServer`, `RecordDescribesScript`, `RunningHasScript`, `StoredRecoveryIsValid`, `RecoveryWithinBudget` |
| `answers` | fair behaviours, start, stop and restart over HTTP, late processes | `OperationEnds`, `CrashIsAnswered` |
| `reload` | a recovery, then a restart of the manager | a finding, section 5 |
| `overlap` | every pair of plans, policies scheduled and when-empty | `RestartsItsOwnProcess`, `YieldsToAnnounced` |
| `changes` | each plan alone, settings changed at every step, failing files, restarts of the manager | `DisabledHasNoPlan`, `PlansAreWatched`, `NoticesBeforeRestart` |
| `deadlines` | automatic update and recurring restart, fair | `DeadlinesAreSettled` |
| `empty` | a mod plan that waits for an empty server | a finding, section 5 |
| `updates` | two workers, failing files, crashes everywhere; one worker while the server is operated; fair | `ReportIsTrue`, `InstallsWhatIsRequested`, `RequestIsKept`, `WorkEnds`, `InterruptedIsReported`, `SuccessRestores` |
| `restore` | one worker, the server is operated, no failing files | two findings, section 5 |
| `fleet` | a controller, two managed servers of which one is connected, two streams, two events, queues of one, one disturbance | `ShownOnce`, `OrderIsKept`, `OffIsSilent`, `QueuesDrain` |
| `policy` | two policies, two workers, five changes | `OneWorker`, `StatusIsWatched`, `PolicyArrives` |
| `panels` | seven instances, below | the rest |

The instances of `panels`:

| Focus | Instance | Shows |
|---|---|---|
| `paks` | two files and one of the project's own, failing writes | `TypeOK`, `RequestsHaveFiles`, `LaunchIsSettled`, `FollowsPlan` |
| `config` | two entries of `Game.ini`, both of the rotation, failing writes | `NothingIsLost` |
| `runs` | one player, two logs of two lines | `SessionsMatch`, `LogoutOnce` |
| `meetings` | two players, one log of three lines | `SessionsMatch` |
| `lists` | a mute and a ban, permanent or for one unit, failing writes | `RestrictionsStand` |
| `leases` | a ban, permanent or for one or two units of three, failing writes | `RestrictionsStand` |
| `mods` | two requests and the loop, intervals 1 and 2, one change, one unit of time | `ChangeIsShown`, `NothingIsOverslept`, `CacheGoesForward` |

Each property has a mutant in `PROJECT.json`: an operator, commented "Mutant" in
the module, that changes one mapped definition as a plausible bug would; with
it, TLC finds the property violated. Each module states
its type invariant; those of seven modules are listed theorems too (section 4).

**Bounds.** Two scripts meet at one lock; a third adds only another loser. Two
processes alive suffice to see a second one. `MaxAge` is beyond every window and
ages are not told apart from there, so it bounds nothing the code looks at, as
long as windows are as configured. Attempt limits of 1 and 2 meet an empty, a
partly used and a full budget. `MaxHistory` only bounds a history variable.
Two notices stand for six: the last one, and one before it that can be
missed. `Gaps` 2 and 5 are an occurrence whose countdown begins at once and one
that lies beyond a whole countdown (`OccurrencesAfter` needs one). `Late` = 0:
the grace of a minute is shorter than a unit. Two plans meet in `overlap`; with
all three on, the third is one more reader of the others' plans. Two plans that
both wait for an empty server are left out of `overlap`: the automatic one
yields to the mod plan at its first look, for as long as that exists. In
`changes` and `overlap` a VIEW leaves out what decides no later step: a signal
to a loop whose timer may be due anyway, and in addition `visited`.
In `ManagerUpdate` two workers are an old one and the one of the present request;
the lock lets no third be told from the second. Two releases are the installed
one and a newer one, so one successful update per behaviour and any number of
failed ones.

In `FleetEvents` two events are the least that can be out of order, queues of one
are full with one, and none is older than the ten minutes a node remembers it.
In `FleetPolicy` two workers are the old and the new one; `Free` gives a new one
no name that is still in use. In `CustomPaks` two files can be in two states of
the same application, a third is the managed one. In `ConfigFiles` two entries
can change places between a file and its record; a file has an entry once and one
section, and `Engine.ini` is there without entries. In `PlayerSessions` two runs
are one that is archived and one that is followed; two lines are a login with a
close or two logins; `meetings` has room for both players and one close record.
In `PlayerRestrictions` two entries are what a list applied for one does to the
other, and three units a lease that is renewed before it ends. In `ModRefresh`
two requests are the one that has changed something and the one whose refresh it
meets. Larger instances of the last three passed once each outside the listed runs: two
players with two logs of two lines, one with two of three, restrictions with
twice the time, two changes in two units for the mods. `panels` identifies `a`
with `b`, `x` with `y` and `p` with `q` (SYMMETRY): nothing chooses between them and no
liveness is checked there. Its behaviours end where an interruption has exposed
an entry or a record and the properties except what follows (`NotExposed`,
`Claimed`).

**Fairness.** `Lifecycle`: scripts, goroutines and loops are scheduled; a
spawned process shows or dies; `RetryNow` waits for a Go mutex, which is granted
in turn, hence strong; `Tick` is strong because the model lets it wait for a
sample. Nothing is assumed of crashes, of shells or of administrators, and
`answers` has no failing files: with them every request may be refused for ever.
`RestartPlans`: the loops, operations and requests go on; the automatic update
retries every fifteen seconds and therefore meets a gap between
windows of ten minutes (`SF` on a look that finds the others inactive); the timer
of the recurring restart is set to the begin of its countdown and is not late for
every one of them (`SF` on a look within it); time passes. `ManagerUpdate`: the
installer's commands and the steps of workers and of starting managers end, with
success or not; nobody need start a manager again. `FleetEvents`: the controller's
loops run, its timeouts fire and its own game server answers or times out; no
delivery need arrive. `FleetPolicy`: supervisor and workers run, a request ends,
and of ever new attempts to greet a paired peer and to post to it one succeeds
(`SF`), because a worker tries again after its backoff for as long as it lives;
`PolicyArrives` claims nothing of a controller that restarts for ever, nor of
settings that never rest.

## 4. What is proved

`Lifecycle_proofs` proves, for every set of slots, commands, limits, windows and
delays that the ASSUMEs of `Lifecycle` admit, with or without failing files:

| Theorem | Statement | Inductive invariant |
|---|---|---|
| `TypeCorrect` | `Spec => []TypeOK` | `TypeOK` itself |
| `MutualExclusion` | `[]OneScriptAtATime` | `LockInv`: the scripts past their flock, and the watchdog's probe, hold the lock |
| `NoUnwantedLaunch` | `[]LaunchIsWanted` | `IntentInv`: what each command at each of its steps implies for the desired state |
| `RecordIsRight`, `NoLostOperation` | `[]RecordDescribesScript`, `[]RunningHasScript` | `RecordInv`: both, and that a manager that is down has no script in slot `OP` |
| `OneServer` | `~LateStart => (Spec => []SingleServer)` | `ProcessInv`, with `LockInv` and `IntentInv` |
| `RecoveryStateLoads` | `[]StoredRecoveryIsValid` | `RecoveryInv`, with `TypeOK` and `RecordInv`: the states in memory and on disk are both valid, and what the watchdog decides on is an incident |
| `AttemptsStayWithinBudget` | `~DiskFaults /\ OneWindow => (Spec => RecoveryWithinBudget)` | `BudgetInv`, with `TypeOK` and `RecordInv`: counted from the last one, each attempt made in the window is in the record in memory and in the one on disk, not older than it is (`Covers`) |

The properties are not inductive alone. `LaunchIsWanted` says nothing of a script
about to launch; `IntentInv` follows each command from its first step, and is
preserved because only the holder of the lock writes the desired state.
`SingleServer` needs that a script past its check, and only it, may have
a process that is not shown yet. `LateStart` is the one assumption about the
environment: Wine shows the process within the fifteen seconds the script waits.
Without it the property fails, in the model and by the code: the script gives
up, the lock is free and the next launch sees no process. `RecoveryStateLoads`
needs lemmas on `pruneRecoveryAttempts` and on ages (`PruneKeepsOrder`,
`OlderKeepsOrder`): both keep the attempts in order. Its clock is not set back.

`RecoveryWithinBudget` counts the attempts made, which the code does not store:
it stores a pruned record in memory and in a file, one after the other, and
a new manager begins with the file. `BudgetInv` relates all three. The record is
pruned before a decision, so its length says nothing, but position by position
from the end it covers what was made; and the attempt is saved before it is made
(`observeRecovery`), so no crash leaves the file behind. Both hypotheses are
needed: with a save that fails, a restart forgets an attempt, and
a window that is set shorter and longer again has pruned attempts that count
once more. The recovery instance of `safety` has the same two.

`RestartPlans_proofs` proves, for every choice of plans, policies, products,
notices and times, with any settings changed at any time, with or without
failing files and restarts of the manager:

| Theorem | Statement | Inductive invariant |
|---|---|---|
| `TypeCorrect` | `Spec => []TypeOK` | `IInv`: the types, and that a plan of the automatic update has a target, without which its policy would be looked up under no product |
| `DisabledScheduleHasNoPlan` | `[]DisabledHasNoPlan` | itself, with `IInv`: every writer of the plan holds a plan that is there or has looked at the switch under the same mutex |
| `EachRestartsItsOwnProcess` | `Spec => RestartsItsOwnProcess` | `OwnInv`: a loop that acts has seen a plan of the running process, and as long as it is in a pass the stored plan has not become another process's |
| `NoPlanIsForgotten` | `[]PlansAreWatched` | `WatchInv`: a mod loop that sleeps with a plan, or goes on with one that was replaced meanwhile, has a signal or will get it from who replaced it; a recurring loop that sleeps with a plan has requested an operation whose end signals it |
| `AllNoticesGoFirst` | `Spec => NoticesBeforeRestart` | `NoticeInv`: a schedule of the running process, stored or seen by its loop, counts a notice only if the process was told it for this restart time, and a pass beyond the notices has told all |
| `AnnouncedRestartsAreAwaited` | `Changes = {} => (Spec => YieldsToAnnounced)` | `YieldInv`: an automatic update looks at nothing while a recurring restart is due (`DueSched`), and whichever of the two is past its look finds no other plan announced until it has requested (`SchedAlone`, `AutoAlone`) |

`RestartsItsOwnProcess` is what the run `overlap` shows for two plans without
changes of settings; the theorem has all three and every change. Its proof rests
on what the model takes from the environment, that no process is started within a
pass (section 2): `ProcessStarts` is the one step that does not keep a plan's
process, and it is taken while all loops rest.

`PlansAreWatched` is about a loop that sleeps; the invariant must follow the pass
before that, because the plan may be replaced while the loop still works on the old
one, and the signal is what makes it look again. `NoticesBeforeRestart` is about
one step, the request; `NoticeInv` goes back to the first notice, over every edit
that keeps the count and every move or new time that begins it again.

`AnnouncedRestartsAreAwaited` has the hypothesis of the run `overlap`: the
settings stay as they are. `RequestAuto` reads nothing again, so what changes
between the final notice and the request goes unseen (section 5), and nothing is
claimed then. Even without changes no loop holds a lock over its look and its
request. What keeps them apart is time: a recurring restart is announced only
within the lead of its notices, the automatic update stops looking when that one
is due, and a due automatic update moves the recurring one.

`ManagerUpdate_proofs` proves, for any number of workers and releases, with or
without operations of the server, with or without failing files, wherever managers,
workers, installers and the host end:

| Theorem | Statement | Part of the inductive invariant that carries it |
|---|---|---|
| `TypeCorrect` | `Spec => []TypeOK` | the types |
| `OnlyRequestsAreInstalled` | `[]InstallsWhatIsRequested` | `InstallerInv`: an installer has its worker's target, unless that worker was killed, and installs nothing older than what is there; `RequestInv` has the property itself, and that no check is under way while a request runs |
| `ReportsAreTrue` | `[]ReportIsTrue` | `ReportInv`: the record, and what a check has read of it, are true of `installed`; and, unless something was abandoned, `Settling`: once a running request is installed, only the worker that knows it is left |
| `SuccessLeavesNothingDown` | `[]SuccessRestores` | `ServiceInv`: what is stopped and not started again is among what the installer remembers, and less with every service it has seen to |
| `RequestsAreKept` | `Spec => RequestIsKept` | `RequestInv`: what a check has read is of a time without a running request, and no check is under way while one runs |

They share one invariant, `IInv`, because no part is inductive without the
others. A record is written by processes that share no mutex, so whether a report
is true depends on who else may still write: on the worker lock (`LockInv`), on
what a start that has looked at it found (`BootInv`), on the time a worker waits
before it does anything (`Before`, the assumption on `Delay` of section 2), and
on the installer, which ends the manager before it replaces a file, so that
nobody waits for a worker any more. `Settling` says this of the last steps, where
`installed` is already what the record has not reported. The exceptions are those
of the properties (`abandoned`); a theorem adds none and has no hypothesis beyond
the ASSUMEs of `ManagerUpdate`.

`StagedChanges_proofs` proves of `CustomPaks`, for any files and any of them the
project's own, with or without failing writes:

| Theorem | Statement | Inductive invariant |
|---|---|---|
| `PaksTypeCorrect` | `Spec => []TypeOK` | `PaksInv` |
| `StoredRequestsHaveFiles` | `[]RequestsHaveFiles` | `PaksInv` |
| `LaunchesAreSettled` | `[]LaunchIsSettled` | `PaksInv` |
| `PanelFollowsPlan` | `Spec => PakPlan's PlanSpec` | `PaksInv`, then one lemma per action |

`PaksInv` is the types, `UploadInv` (no request is stored for the name of an upload
in progress, and one about to store its request has its file), `ApplyInv` (no
server runs while the script works; every file it need not move any more is where
its request wants it), `ManagedInv` (no deletion of a project file is stored) and
the two properties. The refinement needs it where a step of the script must be `Applied`
or `Settled` of the plan: the requests may be removed only when each is met.
No assumption on the constants is needed.

Of `ConfigFiles` it proves, for any finite files and any rotation, with or without
failing writes, `ConfigTypeCorrect` (`ConfigSpec => []ConfigTypeOK`) and
`EntriesAreKept` (`ConfigSpec => []NothingIsLost`). The property speaks of states
without a job, so the invariant, `ConfigInv`, has to say what the files hold after
each prefix of a job's writes:

- `SaveInv`: nothing is lost before the first write of an edit, between its two
  writes, and after the last one, for the list of writes it was given when it
  began. This is where `ConfigFirst` matters. Each operation of the editor is shown
  once (`EditsGood`, a lemma for each) to move entries in one direction only: from
  the file to the record, which is then written first, or from the record to
  the file, which is then written first. A rotation moves in both, and
  the invariant claims nothing between its writes.
- `DiscardInv`: a discard has removed exactly the files it is past, and the active
  generation, which it returns to, is complete: no script has been cut short.
- `ScriptInv`: what a script has moved and what it has still to move are together
  what was shown, and when all is moved nothing is pending.
- `StartInv`: what a starting manager is about to write as pending record is the
  record that is stored. It takes no lock, so this holds beside every step of a job:
  a manager that is starting has no job of its own, and what a script moves
  leaves the stored record the same.

`exposed` ends the claim where the code may lose an entry (section 5), so
the invariant is one of the states before that (`Safe`), and no step
leads back to them. The assumptions: the files
are finite and disjoint and the rotation is part of `Game.ini`, since the code
compares numbers of entries (`EntriesAssumption`), and a missing file is neither
a set of entries nor a record (`NoFileAssumption`).

The proof found two mistakes of the model that TLC does not see. The CASE of the
initial files had two arms for a pending record, of which TLC took the first,
as it was meant, while the definition allows either; it is an IF now. And
`UNION S \cup T` in `ActiveIsKept` is `(UNION S) \cup T` for TLC and
`UNION (S \cup T)` for the prover; it has its parentheses now.

`FleetEvents_proofs` proves, for any nodes, streams, queue sizes, number of
events, changes of settings and restarts: `OffStaysSilent` (`Spec =>
[]OffIsSilent`), `EachShownOnce` (`[]ShownOnce`) and `OrderStays`
(`[]OrderIsKept`). `SilentInv` adds to the first that an event that is barred at
a node is also not allowed there, so that no later step sends it before the
settings are changed back. `OnceInv` says that an event is in one place of its
way to a node (queue, delivery in progress, shown), and that one which is still
in a feed or the route queue is remembered by the controller or has not been sent
to anyone: this is what a second stream and a restart could break.

`OrderInv` follows an event from its origin to the players. Up to the controller
the order is that of publication (`TurnInv`): an origin's feeds and the route
queue are sorted by it, and what was routed comes before what is still in
them. From there on it is the order of routing: each event is routed once
(`RoutedInv`), and at each destination what was shown, what is under way and what
is queued are sorted and follow each other (`DeliveryOrder`), unless a delivery
there was given up while it could still be shown (`late`) or its origin fed two
streams (`doubled`), the exceptions of the property. `NoneAssumption` keeps the
mark of an idle loop from being an event.

`FleetPolicy_proofs` proves, for any policies, any number of workers alive at the
same time and any number of changes and restarts: `OneWorkerGoesOn`
(`Spec => []OneWorker`) and `ConnectedIsWatched` (`[]StatusIsWatched`). Their
invariant adds to the types and `OneWorker` that a cancelled worker runs and is
not the supervisor's (`CancelledInv`), that nothing is shown of a peer that is
none (`StatusInv`), and that unless a change was missed the supervisor's worker
runs or the supervisor has something to do (`WatchInv`).
`WorkerAssumption` keeps `"none"` from being the name of a worker.

`Players_proofs` proves of `PlayerRestrictions`, for any restrictions, durations
and time, with or without failing writes, `RestrictionsTypeCorrect`
(`RestrictionsSpec => []RestrictionsTypeOK`) and `ReportedRestrictionsStand`
(`[]RestrictionsStand`). `LeaseInv` says of every restriction that is not
`doubtful` that record and file have the same lease; that what is promised is in
force with that lease, or with the previous lease of a request whose command
has not been carried out; and that the expiry loop works on nothing that stands.
`RequestInv` says that a request has stored its lease and that the lists it is
about to take over are the server's, but for what others have changed since.
Durations and time are naturals (`TimeAssumption`), the two marks are none
(`PromiseAssumption`).

It proves of `PlayerSessions`, for any finite set of players and any number and
length of logs, four theorems from one invariant, `SessionsInv`:

| Theorem | Statement | Part of `SessionsInv` that carries it |
|---|---|---|
| `SessionsTypeCorrect` | `SessionsSpec => []SessionsTypeOK` | `Types` and `HistoryOK`: every stored session is an authentication in a log, none is open and closed, and the session of a player who is on the server is not closed |
| `OneLogout` | `[]LogoutOnce` | `ToldInv`: what was announced is stored as closed; with `LiveInv`, what is live is open, so no logout of it was told |
| `OpenAreThoseOnline` | `[]SessionsMatch` | `FollowerInv`, `LiveInv` and `WatchInv`: the live sessions are of the followed log, in the lines that were read; they are the open ones; and a player who has the last line of the log is live with it once it is read |
| `StoredStays` | `FileGoesForward` (no run checks it) | with `FileBehind`: the history in memory has every session of `players.json`, and as closed those closed there; events and imports only add to it (`ApplyContinues`, `ImportFacts`) |

The other parts are what these need. `ServerInv`: who is on the server has the
last line about itself in `Mordhau.log`. `ReadInv`: of that log nothing beyond the
read lines is stored, so new lines make new sessions. `StartingInv`: between the
import and the loop the processor will find in the log the sessions that were
imported, which ties the two readings of the same file. `WatchInv` also says that
a player whom the loop has seen listed is listed, under the controller of the
session, for as long as it is on the server; without that the comparison with the bridge could end a session of
somebody who is there. It does not hold of a session that was marked by a list
of the player's former controller; `SeenTooEarly` says when the loop does that,
and both the invariant and `PresentIsOpen` except what follows (`stale`).

A step may read a whole log, so the proof has a second induction inside, over its
lines. `Process`, `ApplyEvents` and `Import` are recursive functions on `0 .. n`;
`StepsExist`, `AppliedExist` and `ImportedExist` show that these functions exist,
from `CountUp`, an induction over a set of numbers. `StepInv` says what the processor knows after n lines: a live
session is an authentication with no close after it, the last one unless a later
one was absorbed, and whom the lines do not name is as before. `HistInv` relates it
to the stored history: what is new comes from these lines, what is closed has a
later line of its player, and live and open sessions stay equal if they were
(`LineKeepsStep`, `LineKeepsHistory`, `ProcessFacts`). `ImportFacts` carries this
over the logs of an import. `TakesUp` and `Compared` are operators of their own
because tlapm 1.4.5 expands `@` wrongly where an EXCEPT stands in another.

A manager that ends between an announcement and its save (`cut`) announces a
logout again, but does not spoil `SessionsMatch`: the next start imports the logs
again.

`ModRefresh_proofs` proves, for any number of requests, any intervals, any number
of changes and any time: `ChangesAreShown`, `NoOlderResult` and
`LoopNeverOversleeps`, the three properties of the module. `CacheInv` says that at most one
goroutine is between the beginning and the end of a refresh, that what it has read is
not older than the cache, and that a request past its wait finds nothing but a
refresh that began after its change; `LoopInv` says that whoever has changed the
next refresh after the loop has read it has a signal to send or has sent it. The
intervals, the retry delay and time are arbitrary integers in these proofs.

Liveness and `ENABLED` are out of the prover's reach: `OperationEnds`,
`CrashIsAnswered`, `DeadlinesAreSettled`, `WorkEnds`, `InterruptedIsReported`,
`QueuesDrain` and `PolicyArrives` stay with TLC. Every other property of a passing
run is stated by a theorem. No module declares a RECURSIVE operator.

## 5. Disagreements found

1. `reload` (code). The watchdog's operation is stored as `recover`, which
   `validStoredOperation` (`operationstate.go:20`) does not accept. After a crash
   that was recovered, the next start of the manager fails while loading
   `operation.json`, unless another operation has been recorded since.
2. `empty` (documentation). "Reports zero PlayerControllers continuously for 30
   seconds" (README:1147): the code looks at the beginning and the end of the
   thirty seconds (`modrestart.go:679-693`, `autoupdate.go:967-985`).
3. `restore` (code). When the installer has stopped a web manager that runs
   without OpenRC, the last command of `remember_and_stop_services`, `kill -0 ...
   && die`, fails because the manager is gone; under `set -e` the function's
   status ends the installer (`mordhau-server-alpine-linux.sh:362`). Lines 354
   and 557 mean such a manager to be started again. An update requested in a
   manager started with `webserver.sh` always ends this way.
4. `restore` (documentation). "Restores previously running services after
   installer failure" (README:1437): the worker looks at the services before the
   download and only through OpenRC (`selfupdate.go:1177`). The manager of the
   run stays down; so does a server that was recovered during the download.

Met while modelling and modelled as they are. No run is about them; where a
property excepts one, its comment and a history variable say so.

- Restart plans: the recurring loop dereferences a plan that settings have just
  removed (`scheduledrestart.go:683-686`), and the model restarts the manager
  there; an automatic update that is switched off during its final notice is still
  requested (`autoupdate.go:894`); a combined update counts the Steam build as
  attempted although the release could not be downloaded (`autoupdate.go:803`); a
  process replaced without an operation of the manager drops that day's recurring
  restart (`scheduledrestart.go:364`).
- Manager update: an HTTP operation that looked before an update was requested
  begins during it, although the look is there to prevent that; an installer that
  outlives its worker is reported as interrupted, then installs; a request whose
  worker cannot be started is reported as failed while an older worker serves it.
- Watchdog and script: the probe of the lock may make a script fail with
  "already running" (`watchdog.go:431`); `update` writes the desired state
  `stopped` before it checks anything (`server.sh:727`).
- Packages: a second deletion forgets the change staged before the first; a
  request whose file an administrator removed fails every start until the state
  file is edited (`custompaks.go:694`), since the panel no longer lists the name.
- Configuration (`exposed` of `ConfigFiles`): when the first staged edit is cut
  between the pending file and the pending record, the next start takes the file
  for one of an older release and drops the disabled entries (`start`); a rotation
  that enables one map and disables another has no order of two writes that is
  safe for both (`rotation`); a discard that is cut leaves a pending file with
  another generation's record (`discard`).
- Players (`spoiled` of `PlayerSessions`): lines written between the import and
  the loop's beginning are read without being stored or announced (`gap`), and
  the next start may announce such a logout again, or never (`missed`); after an
  inferred logout and a return in the same log, a restart of the manager imports
  the first session as the live one and leaves the second open for ever
  (`replay`); a player who is back before the session left without a close record
  has ended loses the new one with it (`rejoin`); a manager that ends between an
  announcement and its save announces it again (`cut`); a list of up to five
  seconds ago that still holds the former controller of a player who has just come
  back marks the new session as seen (`gamelog.go:735`), which ends its grace
  (`gamelog.go:748-753`), and after five seconds of lists without the new
  controller the player is logged out while on the server (`stale`). README:544-546
  promises "a newly authenticated identity" a "30-second initial discovery grace".
- Fleet: "Delivery order is retained per destination server" (README:526-527) and
  "preserves destination ordering" (README:1392-1393) have no condition. After a
  delivery was given up at eight seconds, while the destination may still show it,
  the loop sends the next one, which may be shown first (`fleet_events.go:466`,
  `late` of `FleetEvents`). `OrderIsKept` excepts that destination from then on, and
  an origin that fed two streams at once (`doubled`). A policy of a worker that was
  replaced may arrive after its successor's and have the last word (`foreign` of
  `FleetPolicy`).
- Restrictions (`doubtful` of `PlayerRestrictions`): a command whose answer is
  lost, or a manager that ends between lease and command, may leave a temporary
  restriction permanent or the other way round; the expiry loop lifts what was
  renewed after it looked (`players.go:1690`); a failed save leaves an old lease
  on disk, which a restart of the manager brings back.
- Mods: a request that joins a failing refresh is answered with the old cache and
  the error only in the view.

## 6. What is not modelled

Wine, SteamCMD and the game are outcomes. The texts of notices, the calendar and
server-local time changes (`scheduledrestart.go:158`), clocks that are set back
(`watchdog.go:118` refuses attempts out of order), reused process identifiers.
Which mods changed. INI text beyond entries; the revision an editor sends with an
edit; `ensureServerEventLogConfig` and `ensureRCONConfig`, which edit files at a
start of the manager without the lifecycle lock. The fleet's identity files (the
key is written before the certificate, `fleet.go:340`), TLS, connection keys and
the proxy that serves another node's pages. Names, platforms and levels of
players, chat, partial lines and read errors of logs. The requests of the Runtime
bridge, the packets of RCON, alerts and samples. That the installed version cannot
be read (`selfupdate.go:471`, `1290`), and a kill of the installer between its last
`mv` and its exit. A controller that gives up its role (`fleet_events.go:306`,
`427`). The moment between the reading of an automatic update's targets and its
mutex (`autoupdate.go:1090`, `505`): `EnsureAuto` reads them under it, and what
changes them signals the loop. A process that is replaced within one pass of a
loop. Accounts, sessions, access rules
and service settings change under one mutex each and wait for nobody: there is
nothing for a model checker that a unit test does not reach.

## 7. Plan

1. Proofs of the refinements below; what is left of the runs' properties is
   liveness.
2. Refinements: `ConfigFiles` implements an abstract set of entries per
   generation, `Lifecycle` an abstract server (wanted or not, one process, one
   operation), `FleetPolicy` the changes of `local` that `FleetEvents` takes as
   given.
3. `PlayerSessions` with chat and partial lines; the exchange of the Runtime
   bridge (`runtime_bridge.go:859`), one request file and one answer file under a
   mutex with a timeout.
