------------------------- MODULE ManagerUpdate_proofs -------------------------
(***************************************************************************)
(* Proofs about ManagerUpdate, for any number of workers and releases,     *)
(* with or without operations of the server and failing writes, wherever   *)
(* managers, workers, installers and the host end.                         *)
(***************************************************************************)
EXTENDS ManagerUpdate, TLAPS

-----------------------------------------------------------------------------
(* The inductive invariant *)

\* What holds the lock of the workers: a worker past its first step, a start
\* between its look at the lock and the release.
LockInv ==
    /\ \A w \in Workers : workers[w].pc \notin {"none", "spawned"} => workerLock = w
    /\ \A b \in Booters : boot[b].pc = "probed" => workerLock = b

\* Workers that have not looked at the services yet: InitialDelay is not over.
Before == {"none", "spawned", "locked", "delay"}

\* A start belongs to a web manager or to the installer's "--init"; what it is
\* about to write answers a running request that no worker is at work on.
BootInv ==
    /\ boot["web"].pc # "none" => web.up
    /\ boot["init"].pc # "none" => installer.pc = "wait"
    /\ \A b \in Booters :
           boot[b].pc \in {"probe", "probed", "write"} => boot[b].seen.status = "running"
    /\ \A b \in Booters :
           boot[b].pc = "write" => \A w \in Workers : workers[w].pc \in Before

\* Workers that have seen their installer succeed.
Late == {"verify", "succeed"}

\* An installer installs what its worker waits for, unless that was killed, and
\* nothing older than what is there; the worker it has told of its success finds
\* it installed, and nobody else's installer is at work.
InstallerInv ==
    /\ installer.by # "none" =>
           /\ workers[installer.by].pc = "installing"
           /\ workers[installer.by].target = installer.release
    /\ installer.pc # "none" /\ "installer" \notin abandoned => installer.by # "none"
    /\ installer.pc \notin {"none", "stopServer"} => installed <= installer.release
    /\ \A w \in Workers :
           workers[w].pc \in Late => installer.pc = "none" /\ installed = workers[w].target

\* What the installer has stopped and not started again is among what it
\* remembers, and less with every service it has seen to.
ServiceInv ==
    /\ server => "server" \notin stopped
    /\ web.up => "web" \notin stopped
    /\ installer.pc # "none" => stopped \subseteq installer.stops
    /\ installer.pc \in {"startWeb", "record"} => "server" \notin stopped
    /\ installer.pc = "record" => "web" \notin stopped
    /\ SuccessRestores

\* No check is under way while a request runs, and no request begins while a
\* check holds the mutex; a request that waits for its worker is on record.
RequestInv ==
    /\ check.busy => record.status # "running" /\ check.seen.status # "running" /\ ~starting
    /\ starting => record.status # "idle" /\ web.up
    /\ InstallsWhatIsRequested

\* ReportIsTrue of a record, or of what was read of it.
True(r) ==
    /\ r.status = "succeeded" => installed >= r.target
    /\ r.status = "failed" /\ abandoned = {} => installed < r.target

\* Unless something was abandoned: the installer of a running request has taken
\* the web manager with it, so that no request waits for its worker any more and
\* no other worker starts; and once a running request is installed, only the
\* worker that knows it is left.
Settling ==
    /\ installer.pc \notin {"none", "stopServer", "stopWeb"} => ~starting
    /\ installer.pc \in {"init", "wait", "startServer", "startWeb", "record"} =>
           \A w \in Workers : workers[w].pc # "spawned"
    /\ starting => installed < record.target
    /\ record.status = "running" /\ installed >= record.target =>
           ~starting /\ \A w \in Workers : workers[w].pc \in Late \cup {"none"}

ReportInv ==
    /\ True(record)
    /\ check.busy => True(check.seen)
    /\ abandoned = {} => Settling

\* The types, by what changes together.
Records == {r \in Record : Valid(r)}
Boot == [pc : {"none", "read", "probe", "probed", "write"}, seen : Records]
RecordTypes == record \in Records /\ installed \in Releases
WebTypes ==
    /\ web \in [up : BOOLEAN, service : BOOLEAN]
    /\ boot \in [Booters -> Boot]
    /\ check \in [busy : BOOLEAN, seen : Records]
    /\ starting \in BOOLEAN /\ op \in BOOLEAN
ServerTypes ==
    /\ lifecycle \in {"free", "op", "shell"} /\ server \in BOOLEAN
    /\ stopped \subseteq Services
WorkerTypes ==
    /\ workers \in [Workers -> Worker]
    /\ workerLock \in Workers \cup Booters \cup {"free"}
InstallerTypes == installer \in Installer /\ abandoned \subseteq {"installer", "request"}

IInv ==
    /\ RecordTypes /\ WebTypes /\ ServerTypes /\ WorkerTypes /\ InstallerTypes
    /\ LockInv /\ BootInv /\ InstallerInv /\ ServiceInv /\ RequestInv /\ ReportInv

LEMMA TypeParts ==
    TypeOK <=> RecordTypes /\ WebTypes /\ ServerTypes /\ WorkerTypes /\ InstallerTypes
BY DEF TypeOK, RecordTypes, WebTypes, ServerTypes, WorkerTypes, InstallerTypes, Boot, Records,
       Valid

\* What is there when nothing is.
LEMMA Nothing ==
    /\ NoRecord \in Records
    /\ Idle \in Boot
    /\ NoCheck \in [busy : BOOLEAN, seen : Records]
    /\ NoWorker \in Worker /\ NoInstaller \in Installer
<1>1. NoRecord \in Records
  BY ReleaseAssumption DEF NoRecord, Records, Record, Valid, Statuses
<1> QED
  BY <1>1, ReleaseAssumption
    DEF Idle, Boot, NoCheck, NoWorker, NoInstaller, Worker, WorkerSteps, Installer,
        InstallerSteps

\* Records with another result or release.
LEMMA Recorded ==
    ASSUME NEW r \in Records
    PROVE  /\ r.status \in Statuses /\ r.latest \in 0 .. Newest /\ r.target \in 0 .. Newest
           /\ r.status # "idle" => r.target # 0
           /\ \A s \in Statuses \ {"idle"} :
                  r.status # "idle" => [r EXCEPT !.status = s] \in Records
           /\ \A n \in Releases : [r EXCEPT !.latest = n] \in Records
           /\ r.latest # 0 =>
                  [r EXCEPT !.status = "running", !.target = r.latest] \in Records
<1>1. /\ r \in Record /\ (r.status # "idle" => r.target # 0)
      /\ r.status \in Statuses /\ r.latest \in 0 .. Newest /\ r.target \in 0 .. Newest
  BY DEF Records, Valid, Record
<1>2. ASSUME NEW s \in Statuses \ {"idle"}, r.status # "idle"
      PROVE  [r EXCEPT !.status = s] \in Records
  BY <1>1, <1>2 DEF Records, Valid, Record
<1>3. ASSUME NEW n \in Releases
      PROVE  [r EXCEPT !.latest = n] \in Records
  <2>1. n \in 0 .. Newest
    BY ReleaseAssumption DEF Releases
  <2> QED
    BY <1>1, <2>1 DEF Records, Valid, Record
<1>4. r.latest # 0 => [r EXCEPT !.status = "running", !.target = r.latest] \in Records
  BY <1>1 DEF Records, Valid, Record, Statuses
<1> QED
  BY <1>1, <1>2, <1>3, <1>4

-----------------------------------------------------------------------------
(* Steps *)

\* Each part of the invariant depends on a few variables only.
LEMMA Frames ==
    ASSUME IInv
    PROVE  /\ UNCHANGED <<record, installed>> => RecordTypes'
           /\ UNCHANGED <<web, boot, check, starting, op>> => WebTypes'
           /\ UNCHANGED <<lifecycle, server, stopped>> => ServerTypes'
           /\ UNCHANGED <<workers, workerLock>> => WorkerTypes'
           /\ UNCHANGED <<installer, abandoned>> => InstallerTypes'
           /\ UNCHANGED <<workers, workerLock, boot>> => LockInv'
           /\ UNCHANGED <<workers, web, boot, installer>> => BootInv'
           /\ UNCHANGED <<workers, installer, abandoned, installed>> => InstallerInv'
           /\ UNCHANGED <<workers, installer, server, web, stopped>> => ServiceInv'
           /\ UNCHANGED <<workers, record, check, starting, web, abandoned>> => RequestInv'
           /\ UNCHANGED <<workers, record, installed, check, starting, installer, abandoned>>
                  => ReportInv'
<1>1. /\ UNCHANGED <<record, installed>> => RecordTypes'
      /\ UNCHANGED <<web, boot, check, starting, op>> => WebTypes'
      /\ UNCHANGED <<lifecycle, server, stopped>> => ServerTypes'
      /\ UNCHANGED <<workers, workerLock>> => WorkerTypes'
      /\ UNCHANGED <<installer, abandoned>> => InstallerTypes'
  BY DEF IInv, RecordTypes, WebTypes, ServerTypes, WorkerTypes, InstallerTypes
<1>2. /\ UNCHANGED <<workers, workerLock, boot>> => LockInv'
      /\ UNCHANGED <<workers, web, boot, installer>> => BootInv'
      /\ UNCHANGED <<workers, installer, abandoned, installed>> => InstallerInv'
      /\ UNCHANGED <<workers, installer, server, web, stopped>> => ServiceInv'
      /\ UNCHANGED <<workers, record, check, starting, web, abandoned>> => RequestInv'
  BY DEF IInv, LockInv, BootInv, InstallerInv, ServiceInv, SuccessRestores, RequestInv,
         InstallsWhatIsRequested
<1>3. UNCHANGED <<workers, record, installed, check, starting, installer, abandoned>>
          => ReportInv'
  <2> SUFFICES ASSUME UNCHANGED <<workers, record, installed, check, starting, installer,
                                  abandoned>>
               PROVE  ReportInv'
    OBVIOUS
  <2>1. Settling => Settling'
    BY DEF Settling
  <2>2. True(record)' /\ (check'.busy => True(check.seen)')
    BY DEF IInv, ReportInv, True
  <2> QED
    BY <2>1, <2>2 DEF IInv, ReportInv
<1> QED
  BY <1>1, <1>2, <1>3

\* A worker that goes on keeps its target, and the others are as they were.
LEMMA Moved ==
    ASSUME WorkerTypes, NEW w \in Workers, NEW pc \in WorkerSteps, Goes(w, pc)
    PROVE  /\ workers' \in [Workers -> Worker]
           /\ workers'[w].pc = pc /\ workers'[w].target = workers[w].target
           /\ \A v \in Workers \ {w} : workers'[v] = workers[v]
BY DEF WorkerTypes, Goes, Worker

\* One that ends leaves its slot, and the lock if it has it.
LEMMA Gone ==
    ASSUME WorkerTypes, NEW w \in Workers, Exits(w)
    PROVE  /\ workers' \in [Workers -> Worker]
           /\ workerLock' \in Workers \cup Booters \cup {"free"}
           /\ workers'[w].pc = "none" /\ (workerLock = w \/ workerLock' = workerLock)
           /\ \A v \in Workers \ {w} : workers'[v] = workers[v]
BY ReleaseAssumption DEF WorkerTypes, Exits, Worker, NoWorker, WorkerSteps, Services

\* An installer that ends tells its worker, if that still waits for it.
LEMMA Reported ==
    ASSUME IInv, NEW pc \in WorkerSteps, Reports(pc)
    PROVE  /\ installer' = NoInstaller /\ workers' \in [Workers -> Worker]
           /\ \A v \in Workers :
                  /\ workers'[v].target = workers[v].target
                  /\ v = installer.by => workers[v].pc = "installing" /\ workers'[v].pc = pc
                  /\ v # installer.by => workers'[v].pc = workers[v].pc
           /\ installer.pc # "none" /\ "installer" \notin abandoned => installer.by \in Workers
BY NameAssumption
  DEF IInv, Reports, WorkerTypes, Worker, InstallerTypes, Installer, InstallerInv

-----------------------------------------------------------------------------
(* The web manager *)

LEMMA CheckBeginsKeeps == ASSUME IInv, CheckBegins PROVE IInv'
<1>1. UNCHANGED <<record, installed, web, boot, starting, op, lifecycle, server, workers,
                  workerLock, installer, abandoned, stopped>>
  BY DEF CheckBegins, recordVars, webVars, serverVars, updateVars
<1>2. RecordTypes' /\ ServerTypes' /\ WorkerTypes' /\ InstallerTypes' /\ LockInv'
      /\ BootInv' /\ InstallerInv' /\ ServiceInv'
  BY <1>1, Frames
<1>3. WebTypes'
  BY DEF CheckBegins, WebTypes, IInv, RecordTypes
<1>4. RequestInv'
  BY <1>1 DEF CheckBegins, MuFree, RequestInv, InstallsWhatIsRequested, IInv
<1>5. ReportInv'
  BY <1>1 DEF CheckBegins, ReportInv, True, Settling, IInv
<1> QED
  BY <1>2, <1>3, <1>4, <1>5 DEF IInv

LEMMA CheckEndsKeeps == ASSUME IInv, CheckEnds PROVE IInv'
<1>1. UNCHANGED <<installed, web, boot, starting, op, lifecycle, server, workers, workerLock,
                  installer, abandoned, stopped>>
  BY DEF CheckEnds, recordVars, webVars, serverVars, updateVars
<1>2. ServerTypes' /\ WorkerTypes' /\ InstallerTypes' /\ LockInv' /\ BootInv'
      /\ InstallerInv' /\ ServiceInv'
  BY <1>1, Frames
<1>3. RecordTypes'
  <2>1. record \in Records /\ check.seen \in Records /\ installed \in Releases
    BY DEF IInv, RecordTypes, WebTypes
  <2>2. record' \in Records
    BY <2>1, Recorded DEF CheckEnds
  <2> QED
    BY <1>1, <2>1, <2>2 DEF RecordTypes
<1>4. WebTypes'
  BY Nothing DEF CheckEnds, WebTypes, IInv
<1>5. RequestInv'
  BY <1>1 DEF CheckEnds, NoCheck, RequestInv, InstallsWhatIsRequested, IInv
<1>6. ReportInv'
  BY <1>1
    DEF CheckEnds, NoCheck, ReportInv, True, Settling, RequestInv, IInv, Records, WebTypes,
        Record
<1> QED
  BY <1>2, <1>3, <1>4, <1>5, <1>6 DEF IInv

LEMMA BeginKeeps == ASSUME IInv, Begin PROVE IInv'
<1>1. UNCHANGED <<installed, web, boot, check, op, lifecycle, server, workers, workerLock,
                  installer, abandoned, stopped>>
  BY DEF Begin, recordVars, webVars, serverVars, updateVars
<1>2. ServerTypes' /\ WorkerTypes' /\ InstallerTypes' /\ LockInv' /\ BootInv'
      /\ InstallerInv' /\ ServiceInv'
  BY <1>1, Frames
<1>3. RecordTypes'
  <2>1. record \in Records /\ installed \in 1 .. Newest /\ record.latest > installed
    BY DEF Begin, IInv, RecordTypes, Releases
  <2>2. record.latest \in 0 .. Newest
    BY <2>1, Recorded
  <2>3. record.latest # 0
    BY <2>1, <2>2, ReleaseAssumption
  <2>4. record' = [record EXCEPT !.status = "running", !.target = record.latest]
    BY DEF Begin
  <2>5. record' \in Records
    BY <2>1, <2>3, <2>4, Recorded
  <2> QED
    BY <1>1, <2>1, <2>5 DEF RecordTypes, Releases
<1>4. WebTypes'
  BY DEF Begin, WebTypes, IInv
<1>5. RequestInv'
  BY <1>1 DEF Begin, Ready, MuFree, RequestInv, InstallsWhatIsRequested, IInv
<1>6. ReportInv'
  <2>1. /\ record'.status = "running" /\ record'.target = record.latest
        /\ record.latest > installed /\ record.status # "running" /\ ~check.busy
    BY DEF Begin, MuFree, IInv, RecordTypes, Records, Record
  <2>2. installed \in Nat /\ record.latest \in Nat
    BY ReleaseAssumption DEF IInv, RecordTypes, Records, Record, Releases
  <2>3. abandoned = {} => installer.pc = "none"
    BY <2>1
      DEF IInv, InstallerInv, RequestInv, InstallsWhatIsRequested, InstallerTypes, Installer
  <2> QED
    BY <1>1, <2>1, <2>2, <2>3 DEF ReportInv, True, Settling
<1> QED
  BY <1>2, <1>3, <1>4, <1>5, <1>6 DEF IInv

LEMMA StartWorkerKeeps == ASSUME IInv, StartWorker PROVE IInv'
<1>1. UNCHANGED <<installed, web, boot, check, op, lifecycle, server, workerLock, installer,
                  stopped>>
  BY DEF StartWorker, recordVars, webVars, serverVars, updateVars
<1>2. ServerTypes'
  BY <1>1, Frames
<1>3. RecordTypes'
  <2>1. record \in Records /\ record.status # "idle" /\ installed \in Releases
    BY DEF StartWorker, IInv, RecordTypes, RequestInv
  <2>2. record' \in Records
    BY <2>1, Recorded DEF StartWorker, Statuses
  <2> QED
    BY <1>1, <2>1, <2>2 DEF RecordTypes
<1>4. WebTypes'
  BY DEF StartWorker, WebTypes, IInv
<1>5. WorkerTypes'
  BY DEF StartWorker, WorkerTypes, IInv, RecordTypes, Records, Record, Reports, Goes, Worker,
         WorkerSteps
<1>6. InstallerTypes'
  BY DEF StartWorker, InstallerTypes, Installer, Booters, IInv
<1>7. LockInv'
  BY DEF StartWorker, LockInv, IInv, RecordTypes, ServerTypes, WorkerTypes
<1>8. BootInv'
  BY DEF StartWorker, BootInv, Before, Booters, IInv, WorkerTypes, InstallerTypes
<1>9. InstallerInv'
  BY DEF StartWorker, InstallerInv, Late, IInv, WorkerTypes, InstallerTypes, Installer
<1>10. ServiceInv'
  BY <1>1 DEF StartWorker, ServiceInv, SuccessRestores, IInv, WorkerTypes
<1>11. RequestInv'
  BY DEF StartWorker, RequestInv, InstallsWhatIsRequested, IInv, RecordTypes, ServerTypes,
         WorkerTypes
<1>12. ReportInv'
  BY DEF StartWorker, ReportInv, True, Settling, IInv, RecordTypes, Records, Record
<1> QED
  BY <1>2, <1>3, <1>4, <1>5, <1>6, <1>7, <1>8, <1>9, <1>10, <1>11, <1>12 DEF IInv

\* What a web manager leaves: what only it had, and the lock if it had that.
LEMMA Down ==
    ASSUME IInv, WebDown
    PROVE  /\ WebTypes' /\ ~web'.up /\ ~check'.busy /\ ~starting'
           /\ boot'["web"] = Idle /\ boot'["init"] = boot["init"]
           /\ lifecycle' \in {"free", "op", "shell"}
           /\ workerLock' \in Workers \cup Booters \cup {"free"}
           /\ \A w \in Workers : workerLock = w => workerLock' = w
           /\ workerLock = "init" => workerLock' = "init"
<1>1. /\ boot \in [Booters -> Boot] /\ op' \in BOOLEAN
      /\ web' \in [up : BOOLEAN, service : BOOLEAN]
  BY DEF IInv, WebTypes, WebDown
<1>2. boot' \in [Booters -> Boot] /\ boot'["web"] = Idle /\ boot'["init"] = boot["init"]
  BY <1>1, Nothing DEF WebDown, Booters
<1>3. WebTypes' /\ ~web'.up /\ ~check'.busy /\ ~starting'
  BY <1>1, <1>2, Nothing DEF WebDown, WebTypes, NoCheck
<1> QED
  BY <1>2, <1>3, NameAssumption DEF WebDown, IInv, ServerTypes, WorkerTypes

LEMMA DownKeeps ==
    ASSUME IInv, WebDown,
           UNCHANGED <<record, installed, server, workers, installer, abandoned, stopped>>
    PROVE  IInv'
<1>1. RecordTypes' /\ InstallerTypes' /\ InstallerInv'
  BY Frames
<1>2. WebTypes' /\ ServerTypes' /\ WorkerTypes'
  BY Down DEF IInv, ServerTypes, WorkerTypes
<1>3. LockInv' /\ BootInv'
  BY Down DEF IInv, LockInv, BootInv, Booters, Idle
<1>4. ServiceInv'
  BY Down DEF IInv, ServiceInv, SuccessRestores
<1>5. RequestInv'
  BY Down DEF IInv, RequestInv, InstallsWhatIsRequested
<1>6. ReportInv'
  BY Down DEF IInv, ReportInv, True, Settling
<1> QED
  BY <1>1, <1>2, <1>3, <1>4, <1>5, <1>6 DEF IInv

LEMMA WebStopsKeeps == ASSUME IInv, WebStops PROVE IInv'
BY DownKeeps DEF WebStops, recordVars

LEMMA WebStartsKeeps == ASSUME IInv, WebStarts PROVE IInv'
<1>1. UNCHANGED <<record, installed, check, starting, op, lifecycle, server, workers,
                  workerLock, installer, abandoned>>
  BY DEF WebStarts, recordVars, webVars, serverVars, updateVars
<1>2. RecordTypes' /\ WorkerTypes' /\ InstallerTypes' /\ InstallerInv' /\ ReportInv'
  BY <1>1, Frames
<1>3. WebTypes'
  <2>1. /\ boot \in [Booters -> Boot] /\ web' \in [up : BOOLEAN, service : BOOLEAN]
        /\ boot' = boot \/ boot' = [boot EXCEPT !["web"] = [pc |-> "read", seen |-> NoRecord]]
    BY DEF WebStarts, WebUp, IInv, WebTypes
  <2>2. boot' \in [Booters -> Boot]
    BY <2>1, Nothing DEF Boot
  <2> QED
    BY <1>1, <2>1, <2>2 DEF IInv, WebTypes
<1>4. ServerTypes'
  BY <1>1 DEF WebStarts, Ups, ServerTypes, Services, Booters, IInv, RecordTypes
<1>5. LockInv'
  BY <1>1 DEF WebStarts, WebUp, LockInv, Booters, IInv, RecordTypes, Records
<1>6. BootInv'
  BY DEF WebStarts, WebUp, BootInv, Booters, IInv, RecordTypes
<1>7. ServiceInv'
  BY <1>1 DEF WebStarts, Ups, ServiceInv, SuccessRestores, IInv
<1>8. RequestInv'
  BY <1>1 DEF WebStarts, WebUp, RequestInv, InstallsWhatIsRequested, IInv
<1> QED
  BY <1>2, <1>3, <1>4, <1>5, <1>6, <1>7, <1>8 DEF IInv

-----------------------------------------------------------------------------
(* The scripts that operate the server *)

LEMMA RequestOperationKeeps ==
    ASSUME IInv, RequestOperation \/ ScriptLocks \/ ScriptRefused
    PROVE  IInv'
<1>1. UNCHANGED <<record, installed, web, boot, check, starting, server, workers, workerLock,
                  installer, abandoned, stopped>>
  BY DEF RequestOperation, ScriptLocks, ScriptRefused, recordVars, webVars, serverVars,
         updateVars
<1>2. RecordTypes' /\ WorkerTypes' /\ InstallerTypes' /\ LockInv' /\ BootInv'
      /\ InstallerInv' /\ ServiceInv' /\ RequestInv' /\ ReportInv'
  BY <1>1, Frames
<1>3. WebTypes'
  BY <1>1 DEF RequestOperation, ScriptLocks, ScriptRefused, webVars, IInv, WebTypes
<1>4. ServerTypes'
  BY <1>1 DEF RequestOperation, ScriptLocks, ScriptRefused, serverVars, IInv, ServerTypes
<1> QED
  BY <1>2, <1>3, <1>4 DEF IInv

LEMMA ScriptEndsKeeps == ASSUME IInv, ScriptEnds PROVE IInv'
<1>1. UNCHANGED <<record, installed, web, boot, check, starting, workers, workerLock,
                  installer, abandoned>>
  BY DEF ScriptEnds, recordVars, webVars, updateVars
<1>2. RecordTypes' /\ WorkerTypes' /\ InstallerTypes' /\ LockInv' /\ BootInv'
      /\ InstallerInv' /\ RequestInv' /\ ReportInv'
  BY <1>1, Frames
<1>3. WebTypes'
  BY DEF ScriptEnds, WebTypes, IInv
<1>4. ServerTypes'
  BY DEF ScriptEnds, Ups, ServerTypes, IInv
<1>5. ServiceInv'
  BY <1>1 DEF ScriptEnds, Ups, ServiceInv, SuccessRestores, Late, Booters, IInv
<1> QED
  BY <1>2, <1>3, <1>4, <1>5 DEF IInv

-----------------------------------------------------------------------------
(* The start of a manager process *)

LEMMA BootReadsKeeps == ASSUME IInv, NEW b \in Booters, BootReads(b) PROVE IInv'
<1>1. UNCHANGED <<record, installed, web, check, starting, op, lifecycle, server, workers,
                  workerLock, installer, abandoned, stopped>>
  BY DEF BootReads, recordVars, webVars, serverVars, updateVars
<1>2. RecordTypes' /\ ServerTypes' /\ WorkerTypes' /\ InstallerTypes' /\ InstallerInv'
      /\ ServiceInv' /\ RequestInv' /\ ReportInv'
  BY <1>1, Frames
<1>3. WebTypes'
  <2>1. /\ record \in Records /\ boot \in [Booters -> Boot]
        /\ \/ boot' = [boot EXCEPT ![b] = [pc |-> "probe", seen |-> record]]
           \/ boot' = [boot EXCEPT ![b] = Idle]
    BY DEF BootReads, Booted, IInv, RecordTypes, WebTypes
  <2>2. boot' \in [Booters -> Boot]
    BY <2>1, Nothing DEF Boot
  <2> QED
    BY <1>1, <2>2 DEF IInv, WebTypes
<1>4. LockInv'
  BY <1>1 DEF BootReads, Booted, Idle, LockInv, IInv, WebTypes
<1>5. BootInv'
  BY <1>1 DEF BootReads, Booted, Idle, BootInv, Booters, IInv, WebTypes
<1> QED
  BY <1>2, <1>3, <1>4, <1>5 DEF IInv

LEMMA BootProbesKeeps == ASSUME IInv, NEW b \in Booters, BootProbes(b) PROVE IInv'
<1>1. UNCHANGED <<record, installed, web, check, starting, op, lifecycle, server, workers,
                  installer, abandoned, stopped>>
  BY DEF BootProbes, recordVars, webVars, serverVars, updateVars
<1>2. RecordTypes' /\ ServerTypes' /\ InstallerTypes' /\ InstallerInv' /\ ServiceInv'
      /\ RequestInv' /\ ReportInv'
  BY <1>1, Frames
<1>3. WebTypes'
  <2>1. /\ boot \in [Booters -> Boot]
        /\ \/ boot' = [boot EXCEPT ![b].pc = "probed"]
           \/ boot' = [boot EXCEPT ![b] = Idle]
    BY DEF BootProbes, Booted, IInv, WebTypes
  <2>2. boot' \in [Booters -> Boot]
    BY <2>1, Nothing DEF Boot
  <2> QED
    BY <1>1, <2>2 DEF IInv, WebTypes
<1>4. WorkerTypes'
  BY DEF BootProbes, WorkerTypes, IInv
<1>5. LockInv'
  BY NameAssumption DEF BootProbes, Booted, Idle, LockInv, Booters, IInv, WebTypes
<1>6. BootInv'
  BY DEF BootProbes, Booted, Idle, BootInv, Booters, IInv, RecordTypes, Records, Valid,
         WebTypes, Boot, ServerTypes, WorkerTypes
<1> QED
  BY <1>2, <1>3, <1>4, <1>5, <1>6 DEF IInv

LEMMA BootReleasesKeeps == ASSUME IInv, NEW b \in Booters, BootReleases(b) PROVE IInv'
<1>1. UNCHANGED <<record, installed, web, check, starting, op, lifecycle, server, workers,
                  installer, abandoned, stopped>>
  BY DEF BootReleases, recordVars, webVars, serverVars, updateVars
<1>2. RecordTypes' /\ ServerTypes' /\ InstallerTypes' /\ InstallerInv' /\ ServiceInv'
      /\ RequestInv' /\ ReportInv'
  BY <1>1, Frames
<1>3. WebTypes'
  BY <1>1 DEF BootReleases, IInv, WebTypes, Boot
<1>4. WorkerTypes'
  BY DEF BootReleases, WorkerTypes, IInv
<1>5. LockInv'
  BY NameAssumption DEF BootReleases, LockInv, Booters, IInv, WebTypes
<1>6. BootInv'
  <2>1. \A w \in Workers : workers[w].pc \in {"none", "spawned"}
    BY NameAssumption DEF BootReleases, IInv, LockInv, Booters
  <2>2. boot' = [boot EXCEPT ![b].pc = "write"] /\ boot \in [Booters -> Boot]
        /\ boot[b].pc = "probed"
    BY DEF BootReleases, IInv, WebTypes
  <2> QED
    BY <1>1, <2>1, <2>2 DEF IInv, BootInv, Before, Boot, Booters
<1> QED
  BY <1>2, <1>3, <1>4, <1>5, <1>6 DEF IInv

\* A start that writes what it has read finds no installer with a worker.
LEMMA BootWritesKeeps == ASSUME IInv, NEW b \in Booters, BootWrites(b) PROVE IInv'
<1>1. /\ boot[b].pc = "write" /\ boot[b].seen \in Records /\ boot[b].seen.status = "running"
      /\ boot \in [Booters -> Boot]
      /\ \A w \in Workers : workers[w].pc \in Before
      /\ UNCHANGED <<installed, stopped>>
  BY DEF BootWrites, IInv, BootInv, WebTypes, Boot
<1>2. installer.by = "none" /\ \A w \in Workers : workers[w].pc \notin Late
  BY <1>1 DEF IInv, InstallerInv, InstallerTypes, Installer, Before, Late
<1>3. CASE /\ record' = [boot[b].seen EXCEPT !.status = Outcome(boot[b].seen)]
           /\ abandoned' = IF record = boot[b].seen THEN abandoned ELSE abandoned \cup {"request"}
           /\ Booted(b)
           /\ UNCHANGED <<web, check, starting, op, serverVars, workers, workerLock,
                          installer>>
  <2>1. UNCHANGED <<installed, web, check, starting, op, lifecycle, server, workers,
                    workerLock,
                    installer, stopped>>
    BY <1>1, <1>3 DEF serverVars
  <2>2. ServerTypes' /\ WorkerTypes' /\ ServiceInv'
    BY <2>1, Frames
  <2>3. /\ record' \in Records /\ record'.target = boot[b].seen.target
        /\ record'.status = Outcome(boot[b].seen)
    <3>1. Outcome(boot[b].seen) \in {"succeeded", "failed"}
      BY DEF Outcome
    <3>2. record' \in Records
      BY <1>1, <1>3, <3>1, Recorded DEF Statuses
    <3> QED
      BY <1>1, <1>3, <3>2 DEF Records, Record
  <2>4. boot' \in [Booters -> Boot] /\ boot' = [boot EXCEPT ![b] = Idle]
    BY <1>1, <1>3, Nothing DEF Booted
  <2>5. RecordTypes' /\ WebTypes' /\ InstallerTypes'
    BY <1>3, <2>1, <2>3, <2>4 DEF IInv, RecordTypes, WebTypes, InstallerTypes
  <2>6. LockInv' /\ BootInv'
    BY <2>1, <2>4 DEF IInv, LockInv, BootInv, Idle, WebTypes, Boot
  <2>7. InstallerInv'
    BY <1>3, <2>1 DEF IInv, InstallerInv
  <2>8. RequestInv'
    BY <1>1, <2>1, <2>3 DEF IInv, RequestInv, InstallsWhatIsRequested, Before, Outcome
  <2>9. ReportInv'
    <3>1. True(record)' /\ (check'.busy => True(check.seen)')
      <4>1. installed \in Nat /\ boot[b].seen.target \in Nat
        BY <1>1, ReleaseAssumption DEF IInv, RecordTypes, Releases, Records, Record
      <4>2. abandoned' = {} => abandoned = {}
        BY <1>3
      <4> QED
        BY <2>1, <2>3, <4>1, <4>2 DEF IInv, ReportInv, True, Outcome
    <3>2. abandoned' = {} => abandoned = {} /\ record = boot[b].seen
      BY <1>3
    <3>3. Settling /\ record = boot[b].seen => Settling'
      BY <2>1, <2>3 DEF Settling, Outcome
    <3> QED
      BY <3>1, <3>2, <3>3 DEF IInv, ReportInv
  <2> QED
    BY <2>2, <2>5, <2>6, <2>7, <2>8, <2>9 DEF IInv
<1>4. CASE /\ b = "web" /\ WebDown
           /\ UNCHANGED <<server, workers, installer, record, abandoned>>
  BY <1>1, <1>4, DownKeeps
<1>5. CASE /\ b = "init" /\ Booted(b) /\ installer' = NoInstaller
           /\ workers' = IF installer.by = "none" THEN workers
                         ELSE [workers EXCEPT ![installer.by].pc = "restoreServer"]
           /\ UNCHANGED <<web, check, starting, op, serverVars, workerLock, record, abandoned>>
  <2>1. /\ UNCHANGED <<record, installed, web, check, starting, op, lifecycle, server, workers,
                       workerLock, abandoned, stopped>>
        /\ installer' = NoInstaller
        /\ boot' \in [Booters -> Boot] /\ boot' = [boot EXCEPT ![b] = Idle]
    BY <1>1, <1>2, <1>5, Nothing DEF serverVars, Booted
  <2>2. RecordTypes' /\ ServerTypes' /\ WorkerTypes' /\ RequestInv'
    BY <2>1, Frames
  <2>3. WebTypes' /\ InstallerTypes'
    BY <2>1, Nothing DEF IInv, WebTypes, InstallerTypes
  <2>4. LockInv' /\ BootInv'
    BY <1>5, <2>1 DEF IInv, LockInv, BootInv, Idle, Booters
  <2>5. InstallerInv' /\ ServiceInv'
    BY <1>2, <2>1 DEF IInv, InstallerInv, ServiceInv, SuccessRestores, NoInstaller, Late
  <2>6. ReportInv'
    BY <2>1 DEF IInv, ReportInv, True, Settling, NoInstaller
  <2> QED
    BY <2>2, <2>3, <2>4, <2>5, <2>6 DEF IInv
<1> QED
  BY <1>3, <1>4, <1>5 DEF BootWrites, BootFails

-----------------------------------------------------------------------------
(* The worker *)

LEMMA TakeLockKeeps == ASSUME IInv, NEW w \in Workers, TakeLock(w) PROVE IInv'
<1>1. UNCHANGED <<record, installed, web, boot, check, starting, op, lifecycle, server,
                  installer, abandoned, stopped>>
  BY DEF TakeLock, recordVars, webVars, serverVars, updateVars
<1>2. RecordTypes' /\ WebTypes' /\ ServerTypes' /\ InstallerTypes'
  BY <1>1, Frames
<1>3. WorkerTypes'
  BY ReleaseAssumption
    DEF TakeLock, WorkerTypes, IInv, Goes, Exits, NoWorker, Worker, WorkerSteps
<1>4. LockInv'
  BY <1>1, NameAssumption
    DEF TakeLock, LockInv, Booters, IInv, WorkerTypes, Goes, Exits, NoWorker
<1>5. BootInv'
  BY <1>1 DEF TakeLock, BootInv, Before, IInv, WorkerTypes, Goes, Exits, NoWorker, Worker
<1>6. InstallerInv'
  BY <1>1
    DEF TakeLock, InstallerInv, Late, IInv, WorkerTypes, InstallerTypes, Installer, Goes,
        Exits, NoWorker, Worker
<1>7. ServiceInv'
  BY <1>1
    DEF TakeLock, ServiceInv, SuccessRestores, IInv, WorkerTypes, Goes, Exits, NoWorker, Worker
<1>8. RequestInv'
  BY <1>1
    DEF TakeLock, RequestInv, InstallsWhatIsRequested, IInv, WorkerTypes, Goes, Exits,
        NoWorker, Worker
<1>9. ReportInv'
  BY <1>1 DEF TakeLock, ReportInv, True, Settling, Late, IInv
<1> QED
  BY <1>2, <1>3, <1>4, <1>5, <1>6, <1>7, <1>8, <1>9 DEF IInv

LEMMA ReadRequestKeeps == ASSUME IInv, NEW w \in Workers, ReadRequest(w) PROVE IInv'
<1>1. UNCHANGED <<record, installed, web, boot, check, starting, op, lifecycle, server,
                  installer, abandoned, stopped>>
  BY DEF ReadRequest, recordVars, webVars, serverVars, updateVars
<1>2. RecordTypes' /\ WebTypes' /\ ServerTypes' /\ InstallerTypes'
  BY <1>1, Frames
<1>3. WorkerTypes'
  BY ReleaseAssumption
    DEF ReadRequest, WorkerTypes, IInv, Goes, Exits, NoWorker, Worker, WorkerSteps
<1>4. LockInv'
  BY <1>1, NameAssumption
    DEF ReadRequest, LockInv, Booters, IInv, WorkerTypes, Goes, Exits, NoWorker
<1>5. BootInv'
  BY <1>1 DEF ReadRequest, BootInv, Before, IInv, WorkerTypes, Goes, Exits, NoWorker, Worker
<1>6. InstallerInv'
  BY <1>1
    DEF ReadRequest, InstallerInv, Late, IInv, WorkerTypes, InstallerTypes, Installer, Goes,
        Exits, NoWorker, Worker
<1>7. ServiceInv'
  BY <1>1
    DEF ReadRequest, ServiceInv, SuccessRestores, IInv, WorkerTypes, Goes, Exits, NoWorker,
        Worker
<1>8. RequestInv'
  BY <1>1
    DEF ReadRequest, RequestInv, InstallsWhatIsRequested, IInv, WorkerTypes, Goes, Exits,
        NoWorker, Worker
<1>9. ReportInv'
  BY <1>1
    DEF ReadRequest, ReportInv, True, Settling, Late, IInv, WorkerTypes, Goes, Exits, NoWorker,
        Worker
<1> QED
  BY <1>2, <1>3, <1>4, <1>5, <1>6, <1>7, <1>8, <1>9 DEF IInv

LEMMA DelayKeeps == ASSUME IInv, NEW w \in Workers, Delay(w) PROVE IInv'
<1>1. UNCHANGED <<record, installed, web, boot, check, starting, op, lifecycle, server,
                  workerLock, installer, abandoned, stopped>>
  BY DEF Delay, recordVars, webVars, serverVars, updateVars
<1>2. RecordTypes' /\ WebTypes' /\ ServerTypes' /\ InstallerTypes'
  BY <1>1, Frames
<1>3. WorkerTypes'
  BY DEF Delay, WorkerTypes, IInv, Goes, Exits, NoWorker, NoInstaller, Worker, WorkerSteps
<1>4. LockInv'
  BY <1>1 DEF Delay, LockInv, Booters, IInv, RecordTypes, Goes, Exits
<1>5. BootInv'
  BY <1>1 DEF Delay, BootInv, IInv
<1>6. InstallerInv'
  BY <1>1 DEF Delay, InstallerInv, Late, IInv, Goes
<1>7. ServiceInv'
  BY <1>1 DEF Delay, ServiceInv, SuccessRestores, IInv, Goes
<1>8. RequestInv'
  BY <1>1 DEF Delay, RequestInv, InstallsWhatIsRequested, IInv, Goes
<1>9. ReportInv'
  BY <1>1 DEF Delay, ReportInv, True, Settling, Late, IInv, Goes
<1> QED
  BY <1>2, <1>3, <1>4, <1>5, <1>6, <1>7, <1>8, <1>9 DEF IInv

LEMMA LookKeeps == ASSUME IInv, NEW w \in Workers, Look(w) PROVE IInv'
<1>1. UNCHANGED <<record, installed, web, boot, check, starting, op, lifecycle, server,
                  workerLock, installer, abandoned, stopped>>
  BY DEF Look, recordVars, webVars, serverVars, updateVars
<1>2. RecordTypes' /\ WebTypes' /\ ServerTypes' /\ InstallerTypes'
  BY <1>1, Frames
<1>3. WorkerTypes'
  BY DEF Look, Running, WorkerTypes, Booters, IInv, Goes, Exits, Worker, WorkerSteps
<1>4. LockInv'
  BY <1>1 DEF Look, LockInv, IInv, WorkerTypes, Goes
<1>5. BootInv'
  BY <1>1 DEF Look, Running, BootInv, Before, Booters, IInv, RecordTypes
<1>6. InstallerInv'
  BY <1>1
    DEF Look, InstallerInv, Late, IInv, WorkerTypes, InstallerTypes, Installer, Goes, Worker
<1>7. ServiceInv'
  BY <1>1 DEF Look, ServiceInv, SuccessRestores, IInv, WorkerTypes, Goes, Worker
<1>8. RequestInv'
  BY <1>1 DEF Look, RequestInv, InstallsWhatIsRequested, IInv, WorkerTypes, Goes, Worker
<1>9. ReportInv'
  BY <1>1
    DEF Look, ReportInv, True, Settling, Late, InstallerInv, LockInv, IInv, InstallerTypes,
        Installer
<1> QED
  BY <1>2, <1>3, <1>4, <1>5, <1>6, <1>7, <1>8, <1>9 DEF IInv

LEMMA PrepareKeeps == ASSUME IInv, NEW w \in Workers, Prepare(w) PROVE IInv'
<1>1. UNCHANGED <<record, installed, web, boot, check, starting, op, lifecycle, server,
                  workerLock, installer, abandoned, stopped>>
  BY DEF Prepare, recordVars, webVars, serverVars, updateVars
<1>2. RecordTypes' /\ WebTypes' /\ ServerTypes' /\ InstallerTypes'
  BY <1>1, Frames
<1>3. WorkerTypes'
  BY DEF Prepare, Matches, WorkerTypes, Booters, IInv, Goes, Exits, Worker, WorkerSteps
<1>4. LockInv'
  BY <1>1 DEF Prepare, LockInv, IInv, WorkerTypes, Goes
<1>5. BootInv'
  BY <1>1 DEF Prepare, Matches, BootInv, Before, Booters, IInv, RecordTypes
<1>6. InstallerInv'
  BY <1>1
    DEF Prepare, InstallerInv, Late, IInv, WorkerTypes, InstallerTypes, Installer, Goes, Worker
<1>7. ServiceInv'
  BY <1>1 DEF Prepare, ServiceInv, SuccessRestores, IInv, WorkerTypes, Goes, Worker
<1>8. RequestInv'
  BY <1>1
    DEF Prepare, Matches, RequestInv, InstallsWhatIsRequested, IInv, WorkerTypes, Goes, Worker
<1>9. ReportInv'
  BY <1>1 DEF Prepare, ReportInv, True, Settling, Late, IInv, WorkerTypes, Goes, Worker
<1> QED
  BY <1>2, <1>3, <1>4, <1>5, <1>6, <1>7, <1>8, <1>9 DEF IInv

LEMMA InstallKeeps == ASSUME IInv, NEW w \in Workers, Install(w) PROVE IInv'
<1>1. UNCHANGED <<record, installed, web, boot, check, starting, op, lifecycle, server,
                  workerLock, abandoned>>
  BY DEF Install, recordVars, webVars, serverVars, updateVars
<1>2. RecordTypes' /\ WebTypes'
  BY <1>1, Frames
<1>3. ServerTypes'
  BY <1>1 DEF Install, ServerTypes, IInv
<1>4. WorkerTypes'
  BY DEF Install, WorkerTypes, IInv, Goes, Exits, NoWorker, NoInstaller, Worker, WorkerSteps
<1>5. InstallerTypes'
  BY DEF Install, InstallerTypes, Installer, InstallerSteps, IInv, WorkerTypes, Worker
<1>6. LockInv'
  BY <1>1 DEF Install, LockInv, IInv, WorkerTypes, Goes
<1>7. BootInv'
  BY <1>1 DEF Install, BootInv, Before, IInv
<1>8. InstallerInv'
  BY <1>1, NameAssumption
    DEF Install, InstallerInv, Late, LockInv, IInv, WorkerTypes, InstallerTypes, Installer,
        Goes, Worker
<1>9. ServiceInv'
  BY <1>1 DEF Install, ServiceInv, SuccessRestores, IInv, WorkerTypes, Goes, Worker
<1>10. RequestInv'
  BY <1>1 DEF Install, RequestInv, InstallsWhatIsRequested, IInv, WorkerTypes, Goes, Worker
<1>11. ReportInv'
  BY <1>1
    DEF Install, ReportInv, True, Settling, Late, InstallerInv, LockInv, IInv, InstallerTypes,
        Installer
<1> QED
  BY <1>2, <1>3, <1>4, <1>5, <1>6, <1>7, <1>8, <1>9, <1>10, <1>11 DEF IInv

LEMMA RestoreServerKeeps == ASSUME IInv, NEW w \in Workers, RestoreServer(w) PROVE IInv'
<1>1. UNCHANGED <<record, installed, web, boot, check, starting, op, lifecycle, workerLock,
                  installer, abandoned>>
  BY DEF RestoreServer, recordVars, webVars, serverVars, updateVars
<1>2. RecordTypes' /\ WebTypes' /\ InstallerTypes'
  BY <1>1, Frames
<1>3. ServerTypes'
  BY DEF RestoreServer, Ups, ServerTypes, IInv, RecordTypes
<1>4. WorkerTypes'
  BY DEF RestoreServer, Ups, WorkerTypes, Booters, IInv, Goes, Exits, Worker, WorkerSteps
<1>5. LockInv'
  BY <1>1 DEF RestoreServer, Ups, LockInv, Booters, IInv, Reports, Goes
<1>6. BootInv'
  BY <1>1 DEF RestoreServer, Ups, BootInv, Before, Booters, IInv, RecordTypes
<1>7. InstallerInv'
  BY <1>1 DEF RestoreServer, InstallerInv, Late, IInv, Goes
<1>8. ServiceInv'
  BY <1>1 DEF RestoreServer, Ups, ServiceInv, SuccessRestores, IInv, Goes
<1>9. RequestInv'
  BY <1>1 DEF RestoreServer, RequestInv, InstallsWhatIsRequested, IInv, Goes
<1>10. ReportInv'
  BY <1>1 DEF RestoreServer, ReportInv, True, Settling, Late, IInv, Goes
<1> QED
  BY <1>2, <1>3, <1>4, <1>5, <1>6, <1>7, <1>8, <1>9, <1>10 DEF IInv

LEMMA RestoreWebKeeps == ASSUME IInv, NEW w \in Workers, RestoreWeb(w) PROVE IInv'
<1>1. UNCHANGED <<record, installed, check, starting, op, lifecycle, server, workerLock,
                  installer, abandoned>>
  BY DEF RestoreWeb, recordVars, webVars, serverVars, updateVars
<1>2. RecordTypes' /\ InstallerTypes'
  BY <1>1, Frames
<1>3. WebTypes'
  <2>1. /\ boot \in [Booters -> Boot] /\ web \in [up : BOOLEAN, service : BOOLEAN]
        /\ \/ UNCHANGED <<web, boot>>
           \/ /\ web' = [up |-> TRUE, service |-> TRUE]
              /\ boot' = [boot EXCEPT !["web"] = [pc |-> "read", seen |-> NoRecord]]
    BY DEF RestoreWeb, WebUp, IInv, WebTypes
  <2>2. boot' \in [Booters -> Boot]
    BY <2>1, Nothing DEF Boot
  <2>3. web' \in [up : BOOLEAN, service : BOOLEAN]
    <3>1. CASE UNCHANGED web
      BY <2>1, <3>1
    <3>2. CASE web' = [up |-> TRUE, service |-> TRUE]
      BY <3>2
    <3> QED
      BY <2>1, <3>1, <3>2
  <2> QED
    BY <1>1, <2>2, <2>3 DEF IInv, WebTypes
<1>4. ServerTypes'
  BY <1>1 DEF RestoreWeb, WebUp, Ups, NoRecord, ServerTypes, IInv, RecordTypes
<1>5. WorkerTypes'
  BY DEF RestoreWeb, WorkerTypes, IInv, Goes, Worker, WorkerSteps
<1>6. LockInv'
  BY DEF RestoreWeb, WebUp, LockInv, IInv, WebTypes, Goes
<1>7. BootInv'
  BY DEF RestoreWeb, WebUp, BootInv, Before, Booters, IInv, WebTypes
<1>8. InstallerInv'
  BY <1>1 DEF RestoreWeb, InstallerInv, Late, IInv, Goes
<1>9. ServiceInv'
  BY <1>1 DEF RestoreWeb, WebUp, Ups, ServiceInv, SuccessRestores, IInv, Goes
<1>10. RequestInv'
  BY <1>1 DEF RestoreWeb, WebUp, RequestInv, InstallsWhatIsRequested, IInv, Goes
<1>11. ReportInv'
  BY <1>1 DEF RestoreWeb, ReportInv, True, Settling, Late, IInv, Goes
<1> QED
  BY <1>2, <1>3, <1>4, <1>5, <1>6, <1>7, <1>8, <1>9, <1>10, <1>11 DEF IInv

LEMMA VerifyKeeps == ASSUME IInv, NEW w \in Workers, Verify(w) PROVE IInv'
<1>1. UNCHANGED <<record, installed, web, boot, check, starting, op, lifecycle, server,
                  workerLock, installer, abandoned, stopped>>
  BY DEF Verify, recordVars, webVars, serverVars, updateVars
<1>2. RecordTypes' /\ WebTypes' /\ ServerTypes' /\ InstallerTypes'
  BY <1>1, Frames
<1>3. WorkerTypes'
  BY DEF Verify, WorkerTypes, IInv, Goes, Exits, NoWorker, NoInstaller, Worker, WorkerSteps
<1>4. LockInv'
  BY <1>1 DEF Verify, LockInv, Booters, IInv, RecordTypes, Goes, Exits
<1>5. BootInv'
  BY <1>1 DEF Verify, BootInv, Before, IInv
<1>6. InstallerInv'
  BY <1>1 DEF Verify, InstallerInv, Late, IInv, Goes
<1>7. ServiceInv'
  BY DEF Verify, ServiceInv, SuccessRestores, IInv, RecordTypes
<1>8. RequestInv'
  BY <1>1 DEF Verify, RequestInv, InstallsWhatIsRequested, IInv, Goes
<1>9. ReportInv'
  BY <1>1 DEF Verify, ReportInv, True, Settling, Late, InstallerInv, IInv, Goes
<1> QED
  BY <1>2, <1>3, <1>4, <1>5, <1>6, <1>7, <1>8, <1>9 DEF IInv

LEMMA FinishKeeps == ASSUME IInv, NEW w \in Workers, Finish(w) PROVE IInv'
<1>1. UNCHANGED <<installed, web, boot, check, starting, op, lifecycle, server, installer,
                  abandoned, stopped>>
  BY DEF Finish, recordVars, webVars, serverVars, updateVars
<1>2. WebTypes' /\ ServerTypes' /\ InstallerTypes'
  BY <1>1, Frames
<1>3. RecordTypes'
  <2>1. record \in Records /\ installed \in Releases
    BY DEF IInv, RecordTypes
  <2>2. CASE UNCHANGED record
    BY <1>1, <2>1, <2>2 DEF RecordTypes
  <2>3. CASE Matches(w) /\ record' = [record EXCEPT !.status =
                               IF workers[w].pc = "succeed" THEN "succeeded" ELSE "failed"]
    <3>1. record.status # "idle"
      BY <2>3 DEF Matches
    <3>2. record' \in Records
      BY <2>1, <2>3, <3>1, Recorded DEF Statuses
    <3> QED
      BY <1>1, <2>1, <3>2 DEF RecordTypes
  <2> QED
    BY <2>2, <2>3 DEF Finish
<1>4. WorkerTypes'
  BY ReleaseAssumption DEF Finish, WorkerTypes, IInv, Exits, NoWorker, Worker, WorkerSteps
<1>5. LockInv'
  BY <1>1, NameAssumption DEF Finish, LockInv, Booters, IInv, WorkerTypes, Exits, NoWorker
<1>6. BootInv'
  BY <1>1 DEF Finish, Matches, BootInv, Before, Booters, IInv, RecordTypes
<1>7. InstallerInv'
  BY DEF Finish, InstallerInv, Late, IInv, Exits, NoWorker
<1>8. ServiceInv'
  BY <1>1 DEF Finish, ServiceInv, SuccessRestores, IInv, Exits, NoWorker
<1>9. RequestInv'
  BY <1>1
    DEF Finish, RequestInv, InstallsWhatIsRequested, LockInv, IInv, RecordTypes, Records,
        Record, Exits, NoWorker
<1>10. ReportInv'
  <2>1. workers \in [Workers -> Worker] /\ Exits(w) /\ workers[w].pc \in {"succeed", "fail"}
        /\ record \in Records
    BY DEF Finish, IInv, WorkerTypes, RecordTypes
  <2>2. /\ workers'[w].pc = "none"
        /\ \A v \in Workers \ {w} : workers'[v] = workers[v]
    BY <2>1, Gone DEF IInv
  <2>3. CASE UNCHANGED record
    <3>1. Settling => Settling'
      BY <1>1, <2>2, <2>3 DEF Settling
    <3> QED
      BY <1>1, <2>3, <3>1 DEF IInv, ReportInv, True
  <2>4. CASE Matches(w) /\ record' = [record EXCEPT !.status =
                               IF workers[w].pc = "succeed" THEN "succeeded" ELSE "failed"]
    <3>1. /\ record.status = "running" /\ record.target = workers[w].target
          /\ record'.target = record.target
          /\ record'.status = IF workers[w].pc = "succeed" THEN "succeeded" ELSE "failed"
      BY <2>1, <2>4 DEF Matches, Records, Record
    <3>2. installed \in Nat /\ record.target \in Nat
      BY ReleaseAssumption DEF IInv, RecordTypes, Records, Record, Releases
    <3>3. workers[w].pc = "succeed" => installed = record.target
      BY <3>1 DEF IInv, InstallerInv, Late
    <3>4. workers[w].pc = "fail" /\ abandoned = {} => installed < record.target
      BY <2>1, <3>1, <3>2 DEF IInv, ReportInv, Settling, Late
    <3>5. True(record)' /\ ~check.busy
      BY <1>1, <2>1, <3>1, <3>2, <3>3, <3>4 DEF IInv, RequestInv, True
    <3>6. Settling => Settling'
      BY <1>1, <2>2, <3>1 DEF Settling
    <3> QED
      BY <1>1, <3>5, <3>6 DEF IInv, ReportInv
  <2> QED
    BY <2>3, <2>4 DEF Finish
<1> QED
  BY <1>2, <1>3, <1>4, <1>5, <1>6, <1>7, <1>8, <1>9, <1>10 DEF IInv

LEMMA WorkerDiesKeeps == ASSUME IInv, NEW w \in Workers, WorkerDies(w) PROVE IInv'
<1>1. UNCHANGED <<record, installed, web, boot, check, starting, op, lifecycle, server,
                  stopped>>
  BY DEF WorkerDies, recordVars, webVars, serverVars
<1>2. RecordTypes' /\ WebTypes' /\ ServerTypes'
  BY <1>1, Frames
<1>3. WorkerTypes'
  BY ReleaseAssumption DEF WorkerDies, WorkerTypes, IInv, Exits, NoWorker, Worker, WorkerSteps
<1>4. InstallerTypes'
  BY DEF WorkerDies, InstallerTypes, Installer, Booters, IInv
<1>5. LockInv'
  BY <1>1, NameAssumption DEF WorkerDies, LockInv, Booters, IInv, WorkerTypes, Exits, NoWorker
<1>6. BootInv'
  BY <1>1 DEF WorkerDies, BootInv, Before, IInv, InstallerTypes, Installer, Exits, NoWorker
<1>7. InstallerInv'
  BY <1>1 DEF WorkerDies, InstallerInv, Late, IInv, InstallerTypes, Installer, Exits, NoWorker
<1>8. ServiceInv'
  BY <1>1
    DEF WorkerDies, ServiceInv, SuccessRestores, IInv, InstallerTypes, Installer, Exits,
        NoWorker
<1>9. RequestInv'
  BY <1>1 DEF WorkerDies, RequestInv, InstallsWhatIsRequested, IInv, Exits, NoWorker
<1>10. ReportInv'
  BY <1>1 DEF WorkerDies, ReportInv, True, Settling, IInv, Exits, NoWorker
<1> QED
  BY <1>2, <1>3, <1>4, <1>5, <1>6, <1>7, <1>8, <1>9, <1>10 DEF IInv

-----------------------------------------------------------------------------
(* The installer *)

LEMMA StopServerKeeps == ASSUME IInv, StopServer PROVE IInv'
<1>1. UNCHANGED <<record, installed, web, boot, check, starting, op, lifecycle, workers,
                  workerLock, abandoned>>
  BY DEF StopServer, recordVars, webVars, serverVars, updateVars
<1>2. RecordTypes' /\ WebTypes' /\ WorkerTypes' /\ LockInv' /\ RequestInv'
  BY <1>1, Frames
<1>3. ServerTypes'
  BY DEF StopServer, Downs, ServerTypes, Services, IInv, RecordTypes
<1>4. InstallerTypes'
  <2>1. installer \in Installer
    BY DEF IInv, InstallerTypes
  <2>2. installer' \in Installer
    BY <2>1 DEF StopServer, To, Stops, Installer, InstallerSteps, Services
  <2> QED
    BY <1>1, <2>2 DEF IInv, InstallerTypes
<1>5. BootInv'
  BY <1>1 DEF StopServer, BootInv, Before, Booters, IInv, RecordTypes
<1>6. InstallerInv'
  BY <1>1 DEF StopServer, To, Stops, InstallerInv, IInv, InstallerTypes, Installer
<1>7. ServiceInv'
  <2>1. installer \in Installer /\ installer.pc = "stopServer"
    BY DEF IInv, InstallerTypes, StopServer
  <2>2. installer'.pc = "stopWeb" /\ \A w \in Workers : workers[w].pc \notin Late
    BY <2>1 DEF StopServer, To, Stops, Installer, IInv, InstallerInv
  <2>3. \/ UNCHANGED <<server, stopped>> /\ installer'.stops = installer.stops
        \/ /\ ~server' /\ stopped' = stopped \cup {"server"}
           /\ installer'.stops = installer.stops \cup {"server"}
    BY <2>1 DEF StopServer, To, Stops, Downs, Installer
  <2> QED
    BY <1>1, <2>1, <2>2, <2>3 DEF IInv, ServiceInv, SuccessRestores, Late
<1>8. ReportInv'
  BY <1>1 DEF StopServer, To, Stops, ReportInv, True, Settling, IInv, InstallerTypes, Installer
<1> QED
  BY <1>2, <1>3, <1>4, <1>5, <1>6, <1>7, <1>8 DEF IInv

LEMMA StopWebKeeps == ASSUME IInv, StopWeb PROVE IInv'
<1>1. /\ UNCHANGED <<record, installed, server, abandoned>> /\ installer.pc = "stopWeb"
      /\ installer \in Installer
      /\ \A w \in Workers : workers[w].pc \notin Late
      /\ boot["init"].pc = "none"
  BY DEF StopWeb, recordVars, IInv, InstallerTypes, InstallerInv, BootInv
<1>2. RecordTypes'
  BY <1>1, Frames
<1>3. CASE /\ ~web.up /\ To("install")
           /\ UNCHANGED <<webVars, lifecycle, workers, workerLock, stopped>>
  <2>1. /\ UNCHANGED <<web, boot, check, starting, op, lifecycle, workers, workerLock,
                       stopped>>
        /\ installer' = [installer EXCEPT !.pc = "install"]
    BY <1>3 DEF webVars, To
  <2>2. WebTypes' /\ ServerTypes' /\ WorkerTypes' /\ LockInv' /\ RequestInv'
    BY <1>1, <2>1, Frames
  <2>3. /\ installer' \in Installer /\ installer'.pc = "install"
        /\ installer'.by = installer.by
        /\ installer'.release = installer.release /\ installer'.stops = installer.stops
    BY <1>1, <2>1 DEF Installer, InstallerSteps
  <2>4. InstallerTypes' /\ BootInv' /\ InstallerInv'
    BY <1>1, <2>1, <2>3 DEF IInv, InstallerTypes, BootInv, InstallerInv
  <2>5. ServiceInv'
    BY <1>1, <2>1, <2>3 DEF IInv, ServiceInv, SuccessRestores
  <2>6. ReportInv'
    <3>1. ~starting
      BY <1>3 DEF IInv, RequestInv, WebTypes
    <3> QED
      BY <1>1, <2>1, <2>3, <3>1 DEF IInv, ReportInv, True, Settling
  <2> QED
    BY <1>2, <2>2, <2>4, <2>5, <2>6 DEF IInv
<1>4. CASE WebDown /\ Downs({"web"}) /\ Stops("web", "install") /\ UNCHANGED workers
  <2>1. WebTypes' /\ WorkerTypes' /\ ServerTypes'
    BY <1>1, <1>4, Down DEF IInv, WorkerTypes, ServerTypes, Downs, Services
  <2>2. /\ installer' \in Installer /\ installer'.pc = "install"
        /\ installer'.by = installer.by
        /\ installer'.release = installer.release
        /\ installer'.stops = installer.stops \cup {"web"}
    BY <1>1, <1>4 DEF Stops, Installer, InstallerSteps, Services
  <2>3. InstallerTypes' /\ InstallerInv'
    BY <1>1, <1>4, <2>2 DEF IInv, InstallerTypes, InstallerInv
  <2>4. LockInv' /\ BootInv'
    BY <1>1, <1>4, Down DEF IInv, LockInv, BootInv, Booters, Idle
  <2>5. ServiceInv'
    BY <1>1, <1>4, <2>2, Down DEF IInv, ServiceInv, SuccessRestores, Late, Downs
  <2>6. RequestInv'
    BY <1>1, <1>4, Down DEF IInv, RequestInv, InstallsWhatIsRequested
  <2>7. ReportInv'
    BY <1>1, <1>4, <2>2, Down DEF IInv, ReportInv, True, Settling
  <2> QED
    BY <1>2, <2>1, <2>3, <2>4, <2>5, <2>6, <2>7 DEF IInv
<1>5. CASE WebDown /\ Downs({"web"}) /\ Reports("restoreServer")
  <2>1. /\ installer' = NoInstaller /\ workers' \in [Workers -> Worker]
        /\ \A v \in Workers :
               /\ workers'[v].target = workers[v].target
               /\ v = installer.by =>
                      workers[v].pc = "installing" /\ workers'[v].pc = "restoreServer"
               /\ v # installer.by => workers'[v].pc = workers[v].pc
    BY <1>5, Reported DEF WorkerSteps
  <2>2. WebTypes' /\ WorkerTypes' /\ ServerTypes' /\ InstallerTypes'
    BY <1>1, <1>5, <2>1, Down, Nothing
       DEF IInv, WorkerTypes, ServerTypes, InstallerTypes, Downs, Services
  <2>3. LockInv' /\ BootInv'
    BY <1>1, <1>5, <2>1, Down DEF IInv, LockInv, BootInv, Booters, Idle
  <2>4. InstallerInv' /\ ServiceInv'
    BY <1>1, <1>5, <2>1, Down
       DEF IInv, InstallerInv, ServiceInv, SuccessRestores, NoInstaller, Late, Downs
  <2>5. RequestInv'
    BY <1>1, <1>5, <2>1, Down DEF IInv, RequestInv, InstallsWhatIsRequested
  <2>6. ReportInv'
    BY <1>1, <1>5, <2>1, Down DEF IInv, ReportInv, True, Settling, NoInstaller, Late
  <2> QED
    BY <1>2, <2>2, <2>3, <2>4, <2>5, <2>6 DEF IInv
<1> QED
  BY <1>3, <1>4, <1>5 DEF StopWeb

LEMMA ReplaceKeeps == ASSUME IInv, Replace PROVE IInv'
<1>1. UNCHANGED <<record, installed, web, boot, check, starting, op, lifecycle, server,
                  workers, workerLock, abandoned, stopped>>
  BY DEF Replace, recordVars, webVars, serverVars, updateVars
<1>2. RecordTypes' /\ WebTypes' /\ ServerTypes' /\ WorkerTypes' /\ LockInv' /\ RequestInv'
  BY <1>1, Frames
<1>3. InstallerTypes'
  BY DEF Replace, To, InstallerTypes, Installer, InstallerSteps, IInv
<1>4. BootInv'
  BY <1>1 DEF Replace, BootInv, IInv
<1>5. InstallerInv'
  BY <1>1 DEF Replace, To, InstallerInv, IInv, Records
<1>6. ServiceInv'
  BY <1>1 DEF Replace, To, ServiceInv, SuccessRestores, Late, Booters, IInv
<1>7. ReportInv'
  BY <1>1 DEF Replace, To, ReportInv, True, Settling, IInv, RecordTypes
<1> QED
  BY <1>2, <1>3, <1>4, <1>5, <1>6, <1>7 DEF IInv

LEMMA InitializeKeeps == ASSUME IInv, Initialize PROVE IInv'
<1>1. UNCHANGED <<record, installed, web, check, starting, op, lifecycle, server, workers,
                  workerLock, abandoned, stopped>>
  BY DEF Initialize, recordVars, webVars, serverVars, updateVars
<1>2. RecordTypes' /\ ServerTypes' /\ WorkerTypes' /\ RequestInv'
  BY <1>1, Frames
<1>3. WebTypes'
  BY <1>1, Nothing DEF Initialize, IInv, WebTypes, Boot, Booters
<1>4. InstallerTypes'
  BY DEF Initialize, To, InstallerTypes, Installer, InstallerSteps, IInv
<1>5. LockInv'
  BY DEF Initialize, LockInv, IInv
<1>6. BootInv'
  BY DEF Initialize, To, BootInv, IInv, Records
<1>7. InstallerInv'
  BY <1>1 DEF Initialize, To, InstallerInv, LockInv, Booters, IInv, RecordTypes
<1>8. ServiceInv'
  BY <1>1 DEF Initialize, To, ServiceInv, SuccessRestores, IInv
<1>9. ReportInv'
  BY <1>1 DEF Initialize, ReportInv, True, Settling, IInv
<1> QED
  BY <1>2, <1>3, <1>4, <1>5, <1>6, <1>7, <1>8, <1>9 DEF IInv

LEMMA InitializedKeeps == ASSUME IInv, Initialized PROVE IInv'
<1>1. UNCHANGED <<record, installed, web, boot, check, starting, op, lifecycle, server,
                  workers, workerLock, abandoned, stopped>>
  BY DEF Initialized, recordVars, webVars, serverVars, updateVars
<1>2. RecordTypes' /\ WebTypes' /\ ServerTypes' /\ WorkerTypes' /\ LockInv' /\ RequestInv'
  BY <1>1, Frames
<1>3. InstallerTypes'
  BY DEF Initialized, To, InstallerTypes, Installer, InstallerSteps, IInv
<1>4. BootInv'
  BY <1>1 DEF Initialized, BootInv, IInv
<1>5. InstallerInv'
  BY <1>1 DEF Initialized, To, InstallerInv, IInv, Records
<1>6. ServiceInv'
  BY <1>1 DEF Initialized, To, ServiceInv, SuccessRestores, Late, Booters, IInv
<1>7. ReportInv'
  BY <1>1 DEF Initialized, To, ReportInv, True, Settling, IInv, RecordTypes
<1> QED
  BY <1>2, <1>3, <1>4, <1>5, <1>6, <1>7 DEF IInv

LEMMA StartServerKeeps == ASSUME IInv, StartServer PROVE IInv'
<1>1. UNCHANGED <<record, installed, web, boot, check, starting, op, lifecycle, workers,
                  workerLock, abandoned>>
  BY DEF StartServer, recordVars, webVars, serverVars, updateVars
<1>2. RecordTypes' /\ WebTypes' /\ WorkerTypes' /\ LockInv' /\ RequestInv'
  BY <1>1, Frames
<1>3. ServerTypes'
  BY DEF StartServer, Ups, ServerTypes, IInv
<1>4. InstallerTypes'
  BY DEF StartServer, To, InstallerTypes, Installer, InstallerSteps, IInv
<1>5. BootInv'
  BY <1>1 DEF StartServer, BootInv, Booters, IInv, RecordTypes, Records
<1>6. InstallerInv'
  BY <1>1 DEF StartServer, To, InstallerInv, LockInv, Booters, IInv, RecordTypes
<1>7. ServiceInv'
  BY <1>1 DEF StartServer, To, Ups, ServiceInv, SuccessRestores, IInv
<1>8. ReportInv'
  BY <1>1 DEF StartServer, ReportInv, True, Settling, IInv
<1> QED
  BY <1>2, <1>3, <1>4, <1>5, <1>6, <1>7, <1>8 DEF IInv

LEMMA StartWebKeeps == ASSUME IInv, StartWeb PROVE IInv'
<1>1. UNCHANGED <<record, installed, check, starting, op, lifecycle, server, workers,
                  workerLock, abandoned>>
  BY DEF StartWeb, recordVars, webVars, serverVars, updateVars
<1>2. RecordTypes' /\ WorkerTypes'
  BY <1>1, Frames
<1>3. WebTypes'
  <2>1. /\ boot \in [Booters -> Boot] /\ web \in [up : BOOLEAN, service : BOOLEAN]
        /\ \/ UNCHANGED <<web, boot>>
           \/ /\ web' = [up |-> TRUE, service |-> TRUE]
              /\ boot' = [boot EXCEPT !["web"] = [pc |-> "read", seen |-> NoRecord]]
    BY DEF StartWeb, WebUp, IInv, WebTypes
  <2>2. boot' \in [Booters -> Boot]
    BY <2>1, Nothing DEF Boot
  <2>3. web' \in [up : BOOLEAN, service : BOOLEAN]
    <3>1. CASE UNCHANGED web
      BY <2>1, <3>1
    <3>2. CASE web' = [up |-> TRUE, service |-> TRUE]
      BY <3>2
    <3> QED
      BY <2>1, <3>1, <3>2
  <2> QED
    BY <1>1, <2>2, <2>3 DEF IInv, WebTypes
<1>4. ServerTypes'
  BY <1>1 DEF StartWeb, Ups, ServerTypes, Services, Booters, IInv
<1>5. InstallerTypes'
  BY DEF StartWeb, To, WebUp, InstallerTypes, Installer, InstallerSteps, Services, Booters,
         IInv
<1>6. LockInv'
  BY DEF StartWeb, WebUp, LockInv, Booters, IInv, RecordTypes, Records, Valid, WebTypes
<1>7. BootInv'
  BY DEF StartWeb, To, WebUp, BootInv, Before, Booters, IInv, Valid, WebTypes
<1>8. InstallerInv'
  BY <1>1 DEF StartWeb, To, InstallerInv, IInv
<1>9. ServiceInv'
  BY DEF StartWeb, To, WebUp, Ups, NoRecord, ServiceInv, SuccessRestores, IInv, RecordTypes
<1>10. RequestInv'
  BY <1>1 DEF StartWeb, WebUp, RequestInv, InstallsWhatIsRequested, IInv
<1>11. ReportInv'
  BY <1>1 DEF StartWeb, ReportInv, True, Settling, IInv
<1> QED
  BY <1>2, <1>3, <1>4, <1>5, <1>6, <1>7, <1>8, <1>9, <1>10, <1>11 DEF IInv

LEMMA RecordVersionKeeps == ASSUME IInv, RecordVersion PROVE IInv'
<1>1. UNCHANGED <<record, web, boot, check, starting, op, lifecycle, server, workerLock,
                  abandoned, stopped>>
  BY DEF RecordVersion, recordVars, webVars, serverVars, updateVars
<1>2. WebTypes' /\ ServerTypes'
  BY <1>1, Frames
<1>3. /\ installer.pc = "record" /\ installer' = NoInstaller /\ installed' = installer.release
      /\ workers' \in [Workers -> Worker]
      /\ \A v \in Workers :
             /\ workers'[v].target = workers[v].target
             /\ v = installer.by => workers[v].pc = "installing" /\ workers'[v].pc = "verify"
             /\ v # installer.by => workers'[v].pc = workers[v].pc
      /\ "installer" \notin abandoned => installer.by \in Workers
  BY Reported DEF RecordVersion, WorkerSteps
<1>4. RecordTypes'
  BY <1>1, ReleaseAssumption DEF RecordVersion, IInv, RecordTypes, InstallerTypes, Installer,
                                 InstallerInv, Releases
<1>5. WorkerTypes'
  BY <1>1, <1>3 DEF IInv, WorkerTypes
<1>6. InstallerTypes'
  BY <1>1, <1>3, Nothing DEF IInv, InstallerTypes
<1>7. LockInv'
  BY <1>1, <1>3 DEF IInv, LockInv
<1>8. BootInv'
  BY <1>1, <1>3 DEF IInv, BootInv, Before, NoInstaller, RecordVersion
<1>9. InstallerInv'
  <2>1. \A v \in Workers : workers[v].pc \notin Late
    BY <1>3 DEF IInv, InstallerInv
  <2>2. \A v \in Workers : workers'[v].pc \in Late =>
            v = installer.by /\ workers'[v].target = installer.release
    BY <1>3, <2>1, NameAssumption DEF IInv, InstallerInv
  <2> QED
    BY <1>1, <1>3, <2>2 DEF InstallerInv, NoInstaller
<1>10. ServiceInv'
  <2>1. stopped = {}
    BY <1>3 DEF IInv, ServiceInv, ServerTypes, Services
  <2> QED
    BY <1>1, <1>3, <2>1 DEF ServiceInv, SuccessRestores, NoInstaller
<1>11. RequestInv'
  BY <1>1, <1>3 DEF IInv, RequestInv, InstallsWhatIsRequested
<1>12. ReportInv'
  <2>1. installed <= installed' /\ installed \in Nat /\ installed' \in Nat
    BY <1>3, ReleaseAssumption
      DEF IInv, InstallerInv, InstallerTypes, Installer, RecordTypes, Releases
  <2>2. record.target \in Nat /\ check.seen.target \in Nat
    BY ReleaseAssumption DEF IInv, RecordTypes, WebTypes, Records, Record
  <2>3. abandoned = {} =>
            /\ record.status = "running" /\ ~check.busy /\ ~starting
            /\ \A v \in Workers : v # installer.by => workers[v].pc = "none"
    <3> SUFFICES ASSUME abandoned = {}
                 PROVE  /\ record.status = "running" /\ ~check.busy /\ ~starting
                        /\ \A v \in Workers : v # installer.by => workers[v].pc = "none"
      OBVIOUS
    <3>1. installer.by \in Workers /\ workers[installer.by].pc = "installing"
      BY <1>3
    <3>2. record.status = "running" /\ ~check.busy
      BY <3>1 DEF IInv, RequestInv, InstallsWhatIsRequested
    <3>3. ~starting /\ \A v \in Workers : workers[v].pc # "spawned"
      BY <1>3 DEF IInv, ReportInv, Settling
    <3>4. \A v \in Workers : v # installer.by => workers[v].pc = "none"
      BY <3>1, <3>3 DEF IInv, LockInv
    <3> QED
      BY <3>2, <3>3, <3>4
  <2>4. True(record)' /\ (check'.busy => True(check.seen)')
    BY <1>1, <2>1, <2>2, <2>3 DEF IInv, ReportInv, True
  <2>5. abandoned' = {} => Settling'
    BY <1>1, <1>3, <2>3 DEF Settling, Late, NoInstaller
  <2> QED
    BY <2>4, <2>5 DEF ReportInv
<1> QED
  BY <1>2, <1>3, <1>4, <1>5, <1>6, <1>7, <1>8, <1>9, <1>10, <1>11, <1>12 DEF IInv

LEMMA InstallerDiesKeeps == ASSUME IInv, InstallerDies PROVE IInv'
<1>1. UNCHANGED <<record, installed, web, boot, check, starting, op, lifecycle, server,
                  workerLock, abandoned, stopped>>
  BY DEF InstallerDies, recordVars, webVars, serverVars, updateVars
<1>2. RecordTypes' /\ WebTypes' /\ ServerTypes'
  BY <1>1, Frames
<1>3. /\ installer.pc # "none" /\ installer' = NoInstaller
      /\ workers' \in [Workers -> Worker]
      /\ \A v \in Workers :
             /\ workers'[v].target = workers[v].target
             /\ v = installer.by =>
                    workers[v].pc = "installing" /\ workers'[v].pc = "restoreServer"
             /\ v # installer.by => workers'[v].pc = workers[v].pc
  BY Reported DEF InstallerDies, WorkerSteps
<1>4. WorkerTypes'
  BY <1>1, <1>3 DEF IInv, WorkerTypes
<1>5. InstallerTypes'
  BY <1>1, <1>3, Nothing DEF IInv, InstallerTypes
<1>6. LockInv'
  BY <1>1, <1>3 DEF IInv, LockInv
<1>7. BootInv'
  BY <1>1, <1>3 DEF IInv, BootInv, Before, NoInstaller, InstallerDies
<1>8. InstallerInv'
  BY <1>1, <1>3 DEF IInv, InstallerInv, Late, NoInstaller
<1>9. ServiceInv'
  BY <1>1, <1>3 DEF IInv, ServiceInv, SuccessRestores, NoInstaller
<1>10. RequestInv'
  BY <1>1, <1>3 DEF IInv, RequestInv, InstallsWhatIsRequested
<1>11. ReportInv'
  BY <1>1, <1>3 DEF IInv, ReportInv, True, Settling, NoInstaller, Late
<1> QED
  BY <1>2, <1>3, <1>4, <1>5, <1>6, <1>7, <1>8, <1>9, <1>10, <1>11 DEF IInv

LEMMA HostRebootsKeeps == ASSUME IInv, HostReboots PROVE IInv'
<1>1. UNCHANGED <<record, installed, abandoned, stopped>>
  BY DEF HostReboots, recordVars, updateVars
<1>2. RecordTypes'
  BY <1>1, Frames
<1>3. WebTypes'
  BY <1>1, Nothing DEF HostReboots, WebTypes, Boot
<1>4. ServerTypes'
  BY DEF HostReboots, ServerTypes, IInv, RecordTypes
<1>5. WorkerTypes'
  BY ReleaseAssumption DEF HostReboots, NoWorker, WorkerTypes, Worker, WorkerSteps
<1>6. InstallerTypes'
  BY ReleaseAssumption
    DEF HostReboots, NoInstaller, InstallerTypes, Installer, InstallerSteps, IInv
<1>7. LockInv'
  BY DEF HostReboots, Idle, NoCheck, NoRecord, NoWorker, NoInstaller, LockInv
<1>8. BootInv'
  BY DEF HostReboots, Idle, NoCheck, NoInstaller, BootInv, Before, Booters
<1>9. InstallerInv'
  BY DEF HostReboots, NoRecord, NoWorker, NoInstaller, InstallerInv, Late, LockInv
<1>10. ServiceInv'
  BY DEF HostReboots, NoRecord, NoWorker, NoInstaller, ServiceInv, SuccessRestores, Late
<1>11. RequestInv'
  BY DEF HostReboots, Idle, NoCheck, NoRecord, NoWorker, NoInstaller, RequestInv,
         InstallsWhatIsRequested, LockInv
<1>12. ReportInv'
  BY <1>1 DEF HostReboots, NoCheck, NoWorker, ReportInv, True, Settling, IInv
<1> QED
  BY <1>2, <1>3, <1>4, <1>5, <1>6, <1>7, <1>8, <1>9, <1>10, <1>11, <1>12 DEF IInv

-----------------------------------------------------------------------------
(* The invariant *)

LEMMA InitIInv == Init => IInv
<1> SUFFICES ASSUME Init PROVE IInv
  OBVIOUS
<1>1. RecordTypes /\ WebTypes /\ ServerTypes /\ WorkerTypes /\ InstallerTypes
  BY Nothing DEF Init, RecordTypes, WebTypes, ServerTypes, WorkerTypes, InstallerTypes
<1>2. LockInv /\ BootInv /\ InstallerInv /\ ServiceInv
  BY DEF Init, LockInv, BootInv, InstallerInv, ServiceInv, SuccessRestores, Idle, NoWorker,
         NoInstaller, Booters, Late
<1>3. RequestInv /\ ReportInv
  BY DEF Init, RequestInv, InstallsWhatIsRequested, ReportInv, True, Settling, NoRecord,
         NoCheck, NoWorker, NoInstaller
<1> QED
  BY <1>1, <1>2, <1>3 DEF IInv

LEMMA Inductive == IInv /\ [Next]_vars => IInv'
<1> SUFFICES ASSUME IInv, [Next]_vars PROVE IInv'
  OBVIOUS
<1>1. CASE ManagerStep
  BY <1>1, CheckBeginsKeeps, CheckEndsKeeps, BeginKeeps, StartWorkerKeeps, WebStopsKeeps,
     WebStartsKeeps DEF ManagerStep
<1>2. CASE ServerStep
  BY <1>2, RequestOperationKeeps, ScriptEndsKeeps DEF ServerStep
<1>3. ASSUME NEW b \in Booters, BootStep(b) PROVE IInv'
  BY <1>3, BootReadsKeeps, BootProbesKeeps, BootReleasesKeeps, BootWritesKeeps DEF BootStep
<1>4. ASSUME NEW w \in Workers, WorkerStep(w) PROVE IInv'
  BY <1>4, TakeLockKeeps, ReadRequestKeeps, DelayKeeps, LookKeeps, PrepareKeeps, InstallKeeps,
     RestoreServerKeeps, RestoreWebKeeps, VerifyKeeps, FinishKeeps DEF WorkerStep
<1>5. ASSUME NEW w \in Workers, WorkerDies(w) PROVE IInv'
  BY <1>5, WorkerDiesKeeps
<1>6. CASE InstallerStep
  BY <1>6, StopServerKeeps, StopWebKeeps, ReplaceKeeps, InitializeKeeps, InitializedKeeps,
     StartServerKeeps, StartWebKeeps, RecordVersionKeeps, InstallerDiesKeeps DEF InstallerStep
<1>7. CASE HostReboots
  BY <1>7, HostRebootsKeeps
<1>8. CASE UNCHANGED vars
  BY <1>8, Frames DEF vars, recordVars, webVars, serverVars, updateVars, IInv
<1> QED
  BY <1>1, <1>2, <1>3, <1>4, <1>5, <1>6, <1>7, <1>8 DEF Next

LEMMA Invariance == Spec => []IInv
BY InitIInv, Inductive, PTL DEF Spec

\* Only a check, a request, the start of its worker, a start of a manager and a
\* worker that ends write the record; of these only a check changes the target
\* of a request, and it begins no answer while one runs.
LEMMA RequestStep ==
    ASSUME IInv, [Next]_vars, record.status = "running", "request" \notin abandoned'
    PROVE  /\ record'.target = record.target
           /\ record'.status \in {"running", "succeeded", "failed"}
<1>1. record \in Records
  BY DEF IInv, RecordTypes
<1>2. CASE UNCHANGED record
  BY <1>2
<1>3. CASE CheckEnds
  BY <1>3 DEF CheckEnds, IInv, RequestInv
<1>4. CASE Begin
  BY <1>4 DEF Begin
<1>5. CASE StartWorker
  BY <1>1, <1>5 DEF StartWorker, Records, Record
<1>6. ASSUME NEW b \in Booters, BootWrites(b)
      PROVE  /\ record'.target = record.target
             /\ record'.status \in {"running", "succeeded", "failed"}
  BY <1>1, <1>6 DEF BootWrites, Outcome, Records, Record
<1>7. ASSUME NEW w \in Workers, Finish(w)
      PROVE  /\ record'.target = record.target
             /\ record'.status \in {"running", "succeeded", "failed"}
  BY <1>1, <1>7 DEF Finish, Records, Record
<1>8. \/ UNCHANGED record
      \/ CheckEnds \/ Begin \/ StartWorker
      \/ \E b \in Booters : BootWrites(b)
      \/ \E w \in Workers : Finish(w)
  <2>1. ManagerStep => UNCHANGED record \/ CheckEnds \/ Begin \/ StartWorker
    BY DEF ManagerStep, CheckBegins, WebStops, WebStarts, recordVars
  <2>2. ServerStep \/ InstallerStep \/ HostReboots => UNCHANGED record
    BY DEF ServerStep, RequestOperation, ScriptLocks, ScriptEnds, ScriptRefused, InstallerStep,
           StopServer, StopWeb, Replace, Initialize, Initialized, StartServer, StartWeb,
           RecordVersion, InstallerDies, HostReboots, recordVars
  <2>3. \A b \in Booters : BootStep(b) => UNCHANGED record \/ BootWrites(b)
    BY DEF BootStep, BootReads, BootProbes, BootReleases, recordVars
  <2>4. \A w \in Workers : WorkerStep(w) \/ WorkerDies(w) => UNCHANGED record \/ Finish(w)
    BY DEF WorkerStep, TakeLock, ReadRequest, Delay, Look, Prepare, Install, RestoreServer,
           RestoreWeb, Verify, WorkerDies, recordVars
  <2> QED
    BY <2>1, <2>2, <2>3, <2>4 DEF Next, vars, recordVars
<1> QED
  BY <1>2, <1>3, <1>4, <1>5, <1>6, <1>7, <1>8

-----------------------------------------------------------------------------
(* Theorems *)

\* Every variable has its type, and the record on disk is always one that
\* loadManagerUpdateState accepts: it never keeps the manager from starting.
THEOREM TypeCorrect == Spec => []TypeOK
<1>1. IInv => TypeOK
  BY TypeParts DEF IInv
<1> QED
  BY <1>1, Invariance, PTL

\* Whatever workers are left over, killed or started late and whoever restarts,
\* the worker that has the installer run serves the request on record
\* (updateManagerWorkerState under the lock of the workers), unless that request
\* was given up while a worker served it.
THEOREM OnlyRequestsAreInstalled == Spec => []InstallsWhatIsRequested
<1>1. IInv => InstallsWhatIsRequested
  BY DEF IInv, RequestInv
<1> QED
  BY <1>1, Invariance, PTL

\* The result on record is what is installed: a worker's, its installer's or a
\* later start's end, in any order (runManagerUpdateWorker,
\* reconcileManagerUpdateState), unless a worker was killed under its installer
\* or a request given up while it was served.
THEOREM ReportsAreTrue == Spec => []ReportIsTrue
<1>1. IInv => ReportIsTrue
  BY DEF IInv, ReportInv, True, ReportIsTrue
<1> QED
  BY <1>1, Invariance, PTL

\* When a worker has seen its installer succeed, what that had stopped was
\* started after it or by somebody else (remember_and_stop_services and
\* restore_services of the installer).
THEOREM SuccessLeavesNothingDown == Spec => []SuccessRestores
<1>1. IInv => SuccessRestores
  BY DEF IInv, ServiceInv
<1> QED
  BY <1>1, Invariance, PTL

\* A request on record keeps its release until it has its result: checks, other
\* workers and managers that start leave it alone, unless a start writes what it
\* read before (reconcileManagerUpdateState).
THEOREM RequestsAreKept == Spec => RequestIsKept
<1>1. IInv /\ [Next]_vars =>
          [record.status = "running" /\ "request" \notin abandoned' =>
               record'.target = record.target
               /\ record'.status \in {"running", "succeeded", "failed"}]_vars
  BY RequestStep
<1> QED
  BY <1>1, Invariance, PTL DEF Spec, RequestIsKept

=============================================================================
