---------------------------- MODULE ManagerUpdate ----------------------------
(***************************************************************************)
(* The update of the manager by itself.  The manager stores the request in *)
(* manager-update.json and starts a detached worker, a process that goes   *)
(* on while the installer it runs stops the services, the manager among    *)
(* them, replaces them and starts them again.  The worker and every        *)
(* manager that starts meanwhile share the file, the installed version and *)
(* a lock, and no mutex.                                                   *)
(*                                                                         *)
(* Time: a manager that found no worker, or that starts one, is through    *)
(* with the state file within the two seconds a worker waits after it has  *)
(* read its request, and a worker that starts has tried the lock before    *)
(* an installation ends.  Only one manager starts at a time.               *)
(*                                                                         *)
(* The installed version can always be read: the file exists and mv(1)     *)
(* replaces it in one step, which is the last of the installer (what it    *)
(* prints after it cannot fail).                                           *)
(***************************************************************************)
EXTENDS Integers

CONSTANTS
    Workers,        \* process slots for detached workers
    Newest,         \* releases are 1 .. Newest; the installed one is one of them
    Operations,     \* may the manager and shells operate the server meanwhile?
    DiskFaults      \* may a state file write fail?

ASSUME ReleaseAssumption == Newest \in Nat \ {0}
ASSUME NameAssumption == Workers \cap {"free", "none", "web", "init"} = {}
ASSUME SwitchAssumption == Operations \in BOOLEAN /\ DiskFaults \in BOOLEAN

Releases == 1 .. Newest
Services == {"server", "web"}

\* Who runs manager.New and reconciles the record: the web service, and
\* "mordhau-web --init", which the installer runs.
Booters == {"web", "init"}

VARIABLES
    record,     \* manager-update.json: status, latest and target release
    installed,  \* manager-version: the release that was recorded as installed
    web,        \* the web manager: is it up, and as an OpenRC service?
    boot,       \* [Booters -> [pc, seen]]: where its reconciliation is
    check,      \* a release check in progress, with the record it has read
    starting,   \* a request is stored, its worker not started yet
    op,         \* is there a running operation of the manager?
    lifecycle,  \* who holds the lifecycle lock
    server,     \* is there a server process?
    workers,    \* [Workers -> Worker]
    workerLock, \* who holds the lock of the workers
    installer,  \* the installer process
    stopped,    \* history: what the last installer stopped and is still down
    abandoned   \* history: updates that went on without the record

recordVars == <<record, installed>>
webVars    == <<web, boot, check, starting, op>>
serverVars == <<lifecycle, server>>
updateVars == <<workers, workerLock, installer, abandoned>>
vars == <<recordVars, webVars, serverVars, updateVars, stopped>>

-----------------------------------------------------------------------------
(* Records and processes *)

Statuses == {"idle", "running", "succeeded", "failed"}
Record == [status : Statuses, latest : 0 .. Newest, target : 0 .. Newest]
NoRecord == [status |-> "idle", latest |-> 0, target |-> 0]

\* validManagerUpdateState: an update that was requested has a target.
Valid(r) == r \in Record /\ (r.status # "idle" => r.target # 0)

Idle == [pc |-> "none", seen |-> NoRecord]
NoCheck == [busy |-> FALSE, seen |-> NoRecord]

WorkerSteps == {"none", "spawned", "locked", "delay", "look", "prepare", "install",
                "installing", "verify", "restoreServer", "restoreWeb", "succeed", "fail"}
Worker == [pc : WorkerSteps, target : 0 .. Newest, saw : SUBSET Services]
NoWorker == [pc |-> "none", target |-> 0, saw |-> {}]

InstallerSteps == {"none", "stopServer", "stopWeb", "install", "init", "wait",
                   "startServer", "startWeb", "record"}
Installer == [pc : InstallerSteps, by : Workers \cup {"none"}, release : 0 .. Newest,
              stops : SUBSET Services]
NoInstaller == [pc |-> "none", by |-> "none", release |-> 0, stops |-> {}]

\* Mutant: a check does not hold the mutex while it waits for GitHub.
MuFreeOfRequests == ~starting

\* managerUpdateMu is free: a check holds it while it asks GitHub, a request
\* until its worker is started.
MuFree == ~check.busy /\ ~starting

\* The web manager answers requests and its loops run.
Ready == web.up /\ boot["web"].pc = "none"

Downs(services) == stopped' = stopped \cup services
Ups(services) == stopped' = stopped \ services

-----------------------------------------------------------------------------
(* The web manager *)

\* checkManagerUpdate up to the answer: it does not ask while an update runs.
CheckBegins ==
    /\ Ready /\ MuFree
    /\ record.status # "running"
    /\ check' = [busy |-> TRUE, seen |-> record]
    /\ UNCHANGED <<recordVars, web, boot, starting, op, serverVars, updateVars,
                   stopped>>

\* The answer is stored with what the check had read before it.
CheckEnds ==
    /\ check.busy
    /\ \/ \E release \in Releases : record' = [check.seen EXCEPT !.latest = release]
       \/ record' = check.seen
       \/ DiskFaults /\ UNCHANGED record
    /\ check' = NoCheck
    /\ UNCHANGED <<installed, web, boot, starting, op, serverVars, updateVars,
                   stopped>>

\* beginManagerUpdate up to the stored request.
Begin ==
    /\ Ready /\ MuFree
    /\ record.status # "running"
    /\ ~op
    /\ record.latest > installed
    /\ record' = [record EXCEPT !.status = "running", !.target = record.latest]
    /\ starting' = TRUE
    /\ UNCHANGED <<installed, web, boot, check, op, serverVars, updateVars, stopped>>

\* Its end: the worker starts or the request fails, even if an older worker
\* has taken it for its own.
StartWorker ==
    /\ starting
    /\ starting' = FALSE
    /\ \/ /\ \E w \in Workers :
              /\ workers[w].pc = "none"
              /\ workers' = [workers EXCEPT ![w] =
                     [pc |-> "spawned", target |-> record.target, saw |-> {}]]
          /\ UNCHANGED <<record, abandoned>>
       \/ /\ record' = [record EXCEPT !.status = "failed"]
          /\ abandoned' = IF \E w \in Workers : workers[w].pc # "none"
                          THEN abandoned \cup {"request"} ELSE abandoned
          /\ UNCHANGED workers
       \/ /\ DiskFaults
          /\ UNCHANGED <<record, workers, abandoned>>
    /\ UNCHANGED <<installed, web, boot, check, op, serverVars, workerLock,
                   installer, stopped>>

-----------------------------------------------------------------------------
(* The scripts that operate the server *)

\* An update keeps no operation away: serverActionHandler looks at the record
\* before it requests one, the watchdog and the plans do not look at all.
RequestOperation ==
    /\ Operations
    /\ Ready /\ ~op
    /\ op' = TRUE
    /\ UNCHANGED <<recordVars, web, boot, check, starting, serverVars, updateVars, stopped>>

\* server.sh, for the operation of the manager or for a shell; the query of
\* SteamCMD holds the lock like a shell.
ScriptLocks ==
    /\ Operations
    /\ lifecycle = "free"
    /\ \/ op /\ lifecycle' = "op"
       \/ lifecycle' = "shell"
    /\ UNCHANGED <<recordVars, webVars, server, updateVars, stopped>>

\* What a script leaves: a server, or none, started and crashed.
ScriptEnds ==
    /\ lifecycle \in {"op", "shell"}
    /\ lifecycle' = "free"
    /\ op' = IF lifecycle = "op" THEN FALSE ELSE op
    /\ \E running \in BOOLEAN :
           /\ server' = running
           /\ Ups(IF running THEN {"server"} ELSE {})
    /\ UNCHANGED <<recordVars, web, boot, check, starting, updateVars>>

\* The script of an operation finds the lock held and does nothing.
ScriptRefused ==
    /\ op
    /\ lifecycle = "shell"
    /\ op' = FALSE
    /\ UNCHANGED <<recordVars, web, boot, check, starting, serverVars, updateVars, stopped>>

-----------------------------------------------------------------------------
(* The start and the end of a manager process *)

\* The web manager ends: its script goes on.
WebDown ==
    /\ web' = [up |-> FALSE, service |-> FALSE]
    /\ boot' = [boot EXCEPT !["web"] = Idle]
    /\ check' = NoCheck /\ starting' = FALSE
    /\ op' = FALSE
    /\ lifecycle' = IF lifecycle = "op" THEN "shell" ELSE lifecycle
    /\ workerLock' = IF workerLock = "web" THEN "free" ELSE workerLock

WebUp(service) ==
    /\ ~web.up
    /\ boot["init"].pc = "none"
    /\ web' = [up |-> TRUE, service |-> service]
    /\ boot' = [boot EXCEPT !["web"] = [pc |-> "read", seen |-> NoRecord]]

WebStops ==
    /\ web.up
    /\ WebDown
    /\ UNCHANGED <<recordVars, server, workers, installer, abandoned, stopped>>

\* OpenRC or webserver.sh.
WebStarts ==
    /\ \E service \in BOOLEAN : WebUp(service)
    /\ Ups({"web"})
    /\ UNCHANGED <<recordVars, check, starting, op, serverVars, updateVars>>

\* Any other file of the state that cannot be written ends a start as well.
Booted(b) == boot' = [boot EXCEPT ![b] = Idle]
BootFails(b) ==
    \/ /\ b = "web" /\ WebDown
       /\ UNCHANGED <<server, workers, installer>>
    \/ /\ b = "init" /\ Booted(b)
       /\ installer' = NoInstaller
       /\ workers' = IF installer.by = "none" THEN workers
                     ELSE [workers EXCEPT ![installer.by].pc = "restoreServer"]
       /\ UNCHANGED <<web, check, starting, op, serverVars, workerLock>>

\* reconcileManagerUpdateState reads the record first.
BootReads(b) ==
    /\ boot[b].pc = "read"
    /\ IF record.status = "running"
       THEN boot' = [boot EXCEPT ![b] = [pc |-> "probe", seen |-> record]]
       ELSE Booted(b)
    /\ UNCHANGED <<recordVars, web, check, starting, op, serverVars, updateVars,
                   stopped>>

\* Mutant: the start of a manager takes a running update for interrupted.
BootProbesNothing(b) ==
    /\ boot[b].pc = "probe"
    /\ boot' = [boot EXCEPT ![b].pc = "write"]
    /\ UNCHANGED <<recordVars, web, check, starting, op, serverVars, updateVars,
                   stopped>>

\* Mutant: the start of a manager waits for the lock of the workers.
BootWaits(b) ==
    /\ boot[b].pc = "probe" /\ workerLock = "free"
    /\ workerLock' = b
    /\ boot' = [boot EXCEPT ![b].pc = "probed"]
    /\ UNCHANGED <<recordVars, web, check, starting, op, serverVars, workers,
                   installer, abandoned, stopped>>

\* managerUpdateWorkerActive: it takes the lock for a moment.
BootProbes(b) ==
    /\ boot[b].pc = "probe"
    /\ IF workerLock = "free"
       THEN /\ workerLock' = b
            /\ boot' = [boot EXCEPT ![b].pc = "probed"]
       ELSE /\ UNCHANGED workerLock
            /\ Booted(b)
    /\ UNCHANGED <<recordVars, web, check, starting, op, serverVars, workers,
                   installer, abandoned, stopped>>

BootReleases(b) ==
    /\ boot[b].pc = "probed"
    /\ workerLock' = "free"
    /\ boot' = [boot EXCEPT ![b].pc = "write"]
    /\ UNCHANGED <<recordVars, web, check, starting, op, serverVars, workers,
                   installer, abandoned, stopped>>

\* Mutant: an interrupted update stays as it is.
OutcomeIfInstalled(r) == IF installed >= r.target THEN "succeeded" ELSE r.status

\* What became of an update without a worker.
Outcome(r) == IF installed >= r.target THEN "succeeded" ELSE "failed"

BootWrites(b) ==
    /\ boot[b].pc = "write"
    /\ \/ /\ record' = [boot[b].seen EXCEPT !.status = Outcome(boot[b].seen)]
          /\ abandoned' = IF record = boot[b].seen THEN abandoned ELSE abandoned \cup {"request"}
          /\ Booted(b)
          /\ UNCHANGED <<web, check, starting, op, serverVars, workers, workerLock,
                         installer>>
       \/ /\ DiskFaults
          /\ BootFails(b)
          /\ UNCHANGED <<record, abandoned>>
    /\ UNCHANGED <<installed, stopped>>

-----------------------------------------------------------------------------
(* The worker: runManagerUpdateWorker *)

Goes(w, pc) == workers' = [workers EXCEPT ![w].pc = pc]
Exits(w) ==
    /\ workers' = [workers EXCEPT ![w] = NoWorker]
    /\ workerLock' = IF workerLock = w THEN "free" ELSE workerLock

\* Mutant: the status of the record is not compared.
MatchesTarget(w) == record.target = workers[w].target

\* updateManagerWorkerState: the record is still the worker's.
Matches(w) == record.status = "running" /\ record.target = workers[w].target

TakeLock(w) ==
    /\ workers[w].pc = "spawned"
    /\ IF workerLock = "free" THEN workerLock' = w /\ Goes(w, "locked")
                              ELSE Exits(w)
    /\ UNCHANGED <<recordVars, webVars, serverVars, installer, abandoned, stopped>>

ReadRequest(w) ==
    /\ workers[w].pc = "locked"
    /\ IF Matches(w) THEN Goes(w, "delay") /\ UNCHANGED workerLock
                     ELSE Exits(w)
    /\ UNCHANGED <<recordVars, webVars, serverVars, installer, abandoned, stopped>>

\* InitialDelay, longer than what a manager still does to the record.
Delay(w) ==
    /\ workers[w].pc = "delay"
    /\ ~starting
    /\ \A b \in Booters : boot[b].pc # "write"
    /\ Goes(w, "look")
    /\ UNCHANGED <<recordVars, webVars, serverVars, workerLock, installer, abandoned, stopped>>

\* Which services the worker will restore is decided here.
Running ==
    (IF server THEN {"server"} ELSE {}) \cup (IF web.up /\ web.service THEN {"web"} ELSE {})

Look(w) ==
    /\ workers[w].pc = "look"
    /\ \/ /\ installed < workers[w].target
          /\ workers' = [workers EXCEPT ![w].pc = "prepare", ![w].saw = Running]
       \/ Goes(w, "fail")
    /\ UNCHANGED <<recordVars, webVars, serverVars, workerLock, installer, abandoned, stopped>>

\* Download, checksum, extraction, each after a look at the record.
Prepare(w) ==
    /\ workers[w].pc = "prepare"
    /\ \/ Matches(w) /\ Goes(w, "install")
       \/ Goes(w, "fail")
    /\ UNCHANGED <<recordVars, webVars, serverVars, workerLock, installer, abandoned, stopped>>

\* Another installer holds the installer's lock, or this one is started.
Install(w) ==
    /\ workers[w].pc = "install"
    /\ IF installer.pc = "none"
       THEN /\ installer' = [pc |-> "stopServer", by |-> w, release |-> workers[w].target,
                             stops |-> {}]
            /\ stopped' = {}
            /\ Goes(w, "installing")
       ELSE /\ Goes(w, "restoreServer")
            /\ UNCHANGED <<installer, stopped>>
    /\ UNCHANGED <<recordVars, webVars, serverVars, workerLock, abandoned>>

\* restoreManagerUpdateServices; a service may fail to start.
RestoreServer(w) ==
    /\ workers[w].pc = "restoreServer"
    /\ Goes(w, "restoreWeb")
    /\ \/ /\ "server" \in workers[w].saw /\ ~server
          /\ lifecycle = "free"
          /\ server' = TRUE /\ Ups({"server"})
       \/ UNCHANGED <<server, stopped>>
    /\ UNCHANGED <<recordVars, webVars, lifecycle, workerLock, installer, abandoned>>

RestoreWeb(w) ==
    /\ workers[w].pc = "restoreWeb"
    /\ Goes(w, "fail")
    /\ \/ /\ "web" \in workers[w].saw
          /\ WebUp(TRUE) /\ Ups({"web"})
       \/ UNCHANGED <<web, boot, stopped>>
    /\ UNCHANGED <<recordVars, check, starting, op, serverVars, workerLock, installer,
                   abandoned>>

\* The installer succeeded: it must have recorded the target.
Verify(w) ==
    /\ workers[w].pc = "verify"
    /\ Goes(w, IF installed = workers[w].target THEN "succeed" ELSE "fail")
    /\ UNCHANGED <<recordVars, webVars, serverVars, workerLock, installer, abandoned, stopped>>

\* The deferred result, then the lock.
Finish(w) ==
    /\ workers[w].pc \in {"succeed", "fail"}
    /\ \/ /\ Matches(w)
          /\ record' = [record EXCEPT !.status =
                           IF workers[w].pc = "succeed" THEN "succeeded" ELSE "failed"]
       \/ /\ ~Matches(w) \/ DiskFaults
          /\ UNCHANGED record
    /\ Exits(w)
    /\ UNCHANGED <<installed, webVars, serverVars, installer, abandoned, stopped>>

\* The worker is killed; its installer goes on.
WorkerDies(w) ==
    /\ workers[w].pc # "none"
    /\ Exits(w)
    /\ IF installer.by = w
       THEN installer' = [installer EXCEPT !.by = "none"] /\ abandoned' = abandoned \cup {"installer"}
       ELSE UNCHANGED <<installer, abandoned>>
    /\ UNCHANGED <<recordVars, webVars, serverVars, stopped>>

-----------------------------------------------------------------------------
(* The installer *)

To(pc) == installer' = [installer EXCEPT !.pc = pc]
Stops(service, pc) ==
    installer' = [installer EXCEPT !.pc = pc, !.stops = @ \cup {service}]
Reports(pc) ==
    /\ installer' = NoInstaller
    /\ workers' = IF installer.by = "none" THEN workers
                  ELSE [workers EXCEPT ![installer.by].pc = pc]

\* prepare_version_transition refuses a downgrade.
StopServer ==
    /\ installer.pc = "stopServer"
    /\ installed <= installer.release
    /\ \/ ~server /\ To("stopWeb") /\ UNCHANGED <<server, stopped>>
       \/ /\ server /\ lifecycle = "free"
          /\ server' = FALSE /\ Downs({"server"})
          /\ Stops("server", "stopWeb")
    /\ UNCHANGED <<recordVars, webVars, lifecycle, workers, workerLock, abandoned>>

\* Mutant: the web service is not remembered as running.
StopWebForgets ==
    /\ installer.pc = "stopWeb"
    /\ To("install")
    /\ \/ ~web.up /\ UNCHANGED <<webVars, lifecycle, workerLock, stopped>>
       \/ web.up /\ WebDown /\ Downs({"web"})
    /\ UNCHANGED <<recordVars, server, workers, abandoned>>

\* A manager that runs without OpenRC is killed, and that is the installer's
\* end: the last command of remember_and_stop_services is "kill -0 ... && die",
\* which fails when the manager is gone, and set -e applies to the function.
StopWeb ==
    /\ installer.pc = "stopWeb"
    /\ \/ /\ ~web.up /\ To("install")
          /\ UNCHANGED <<webVars, lifecycle, workers, workerLock, stopped>>
       \/ /\ web.up /\ WebDown /\ Downs({"web"})
          /\ IF web.service THEN Stops("web", "install") /\ UNCHANGED workers
                            ELSE Reports("restoreServer")
    /\ UNCHANGED <<recordVars, server, abandoned>>

\* New files, and server.sh update: minutes, so no worker still starts.
Replace ==
    /\ installer.pc = "install"
    /\ \A w \in Workers : workers[w].pc # "spawned"
    /\ ~server /\ lifecycle = "free"
    /\ To("init")
    /\ UNCHANGED <<recordVars, webVars, serverVars, workers, workerLock, abandoned, stopped>>

\* The new binary with --init.
Initialize ==
    /\ installer.pc = "init"
    /\ boot["web"].pc = "none"
    /\ To("wait")
    /\ boot' = [boot EXCEPT !["init"] = [pc |-> "read", seen |-> NoRecord]]
    /\ UNCHANGED <<recordVars, web, check, starting, op, serverVars, workers,
                   workerLock, abandoned, stopped>>

Initialized ==
    /\ installer.pc = "wait"
    /\ boot["init"].pc = "none"
    /\ To("startServer")
    /\ UNCHANGED <<recordVars, webVars, serverVars, workers, workerLock, abandoned, stopped>>

StartServer ==
    /\ installer.pc = "startServer"
    /\ To("startWeb")
    /\ \/ /\ "server" \notin installer.stops \/ server
          /\ UNCHANGED <<server, stopped>>
       \/ /\ "server" \in installer.stops /\ ~server /\ lifecycle = "free"
          /\ server' = TRUE /\ Ups({"server"})
    /\ UNCHANGED <<recordVars, webVars, lifecycle, workers, workerLock, abandoned>>

StartWeb ==
    /\ installer.pc = "startWeb"
    /\ To("record")
    /\ \/ /\ "web" \notin installer.stops \/ (web.up /\ web.service)
          /\ UNCHANGED <<web, boot, stopped>>
       \/ "web" \in installer.stops /\ WebUp(TRUE) /\ Ups({"web"})
    /\ UNCHANGED <<recordVars, check, starting, op, serverVars, workers, workerLock,
                   abandoned>>

\* record_installed_version, the last step.
RecordVersion ==
    /\ installer.pc = "record"
    /\ installed' = installer.release
    /\ Reports("verify")
    /\ UNCHANGED <<record, webVars, serverVars, workerLock, abandoned, stopped>>

\* set -e: any command may end it, --init when it has ended itself.
InstallerDies ==
    /\ installer.pc # "none"
    /\ boot["init"].pc = "none"
    /\ Reports("restoreServer")
    /\ UNCHANGED <<recordVars, webVars, serverVars, workerLock, abandoned, stopped>>

HostReboots ==
    /\ web' = [up |-> FALSE, service |-> FALSE]
    /\ boot' = [b \in Booters |-> Idle]
    /\ check' = NoCheck /\ starting' = FALSE
    /\ op' = FALSE
    /\ lifecycle' = "free" /\ server' = FALSE
    /\ workers' = [w \in Workers |-> NoWorker]
    /\ workerLock' = "free"
    /\ installer' = NoInstaller
    /\ UNCHANGED <<recordVars, abandoned, stopped>>

-----------------------------------------------------------------------------

Init ==
    /\ record = NoRecord
    /\ installed \in Releases
    /\ web = [up |-> FALSE, service |-> FALSE]
    /\ boot = [b \in Booters |-> Idle]
    /\ check = NoCheck /\ starting = FALSE
    /\ op = FALSE
    /\ lifecycle = "free" /\ server = FALSE
    /\ workers = [w \in Workers |-> NoWorker]
    /\ workerLock = "free"
    /\ installer = NoInstaller
    /\ stopped = {} /\ abandoned = {}

ManagerStep == CheckBegins \/ CheckEnds \/ Begin \/ StartWorker \/ WebStops \/ WebStarts
ServerStep ==
    \/ RequestOperation \/ ScriptLocks \/ ScriptEnds \/ ScriptRefused
BootStep(b) == BootReads(b) \/ BootProbes(b) \/ BootReleases(b) \/ BootWrites(b)
WorkerStep(w) ==
    \/ TakeLock(w) \/ ReadRequest(w) \/ Delay(w) \/ Look(w) \/ Prepare(w) \/ Install(w)
    \/ RestoreServer(w) \/ RestoreWeb(w) \/ Verify(w) \/ Finish(w)
InstallerStep ==
    \/ StopServer \/ StopWeb \/ Replace \/ Initialize \/ Initialized \/ StartServer
    \/ StartWeb \/ RecordVersion \/ InstallerDies

Next ==
    \/ ManagerStep \/ ServerStep \/ InstallerStep \/ HostReboots
    \/ \E b \in Booters : BootStep(b)
    \/ \E w \in Workers : WorkerStep(w) \/ WorkerDies(w)

Spec == Init /\ [][Next]_vars

\* Processes are scheduled, commands end: nothing is assumed of administrators,
\* of crashes, or of a manager that is down.
Fairness ==
    /\ WF_vars(StartWorker) /\ WF_vars(InstallerStep)
    /\ \A b \in Booters : WF_vars(BootStep(b))
    /\ \A w \in Workers : WF_vars(WorkerStep(w))
FairSpec == Spec /\ Fairness

-----------------------------------------------------------------------------
(* Properties *)

\* Every variable has its type, and the stored record is one that the loader
\* accepts (validManagerUpdateState): otherwise the manager does not start.
TypeOK ==
    /\ Valid(record) /\ installed \in Releases
    /\ web \in [up : BOOLEAN, service : BOOLEAN]
    /\ boot \in [Booters -> [pc : {"none", "read", "probe", "probed", "write"},
                             seen : {r \in Record : Valid(r)}]]
    /\ check \in [busy : BOOLEAN, seen : {r \in Record : Valid(r)}]
    /\ starting \in BOOLEAN /\ op \in BOOLEAN
    /\ lifecycle \in {"free", "op", "shell"}
    /\ server \in BOOLEAN
    /\ workers \in [Workers -> Worker]
    /\ workerLock \in Workers \cup Booters \cup {"free"}
    /\ installer \in Installer
    /\ stopped \subseteq Services /\ abandoned \subseteq {"installer", "request"}

\* An update that is reported as failed is not installed, one that is reported
\* as successful is; unless a worker was killed and its installer went on, or a
\* request was given up that a worker served.
ReportIsTrue ==
    /\ record.status = "succeeded" => installed >= record.target
    /\ record.status = "failed" /\ abandoned = {} => installed < record.target

\* The worker that runs the installer does what the stored request says: a late
\* or second worker, or a manager that started meanwhile, never has it install
\* what nobody asks for any more; unless that request was given up meanwhile.
InstallsWhatIsRequested ==
    "request" \notin abandoned =>
        \A w \in Workers : workers[w].pc \in {"install", "installing"} =>
            record.status = "running" /\ record.target = workers[w].target

\* README, Management and Dedicated Server Updates: the update state survives.
\* A stored request ends with a result and not by a check that began before it;
\* unless a start that is as old writes what it has read (see BootWrites).
RequestIsKept ==
    [][record.status = "running" /\ "request" \notin abandoned' =>
         record'.target = record.target
         /\ record'.status \in {"running", "succeeded", "failed"}]_vars

\* There is a process that will answer the request.
InProgress == starting \/ \E w \in Workers : workers[w].pc # "none"

\* An update that is in progress ends: the worker, the installer it waits for
\* and the manager that the installer runs never wait for each other.
WorkEnds == record.status = "running" ~> (record.status # "running" \/ ~InProgress)

\* README: "interrupted work is reported after the next start".
InterruptedIsReported ==
    (record.status = "running" /\ ~InProgress /\ boot["web"].pc = "read")
        ~> (record.status # "running" \/ ~web.up)

\* A successful installation leaves nothing down that it has stopped, whatever
\* operations, shells and administrators do to the services meanwhile.
SuccessRestores == \A w \in Workers : workers[w].pc \in {"verify", "succeed"} => stopped = {}

\* README, Security Model: the updater "restores previously running services
\* after installer failure".  A service that its installer has stopped is among
\* those the worker will start.
RemembersStopped ==
    \A w \in Workers : workers[w].pc = "restoreServer" => stopped \subseteq workers[w].saw

=============================================================================
