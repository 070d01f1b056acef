----------------------------- MODULE CustomPaks -----------------------------
(***************************************************************************)
(* The CustomPaks panel (custompaks.go).  A package is a file in one of    *)
(* three directories; requests are stored in custompaks-state.json and     *)
(* applied by "mordhau-web --apply-custompaks", which server.sh runs       *)
(* before it launches a server.  Requests and the script share the         *)
(* lifecycle lock.  The manager, the script and the host may stop between  *)
(* any two file operations.                                                *)
(***************************************************************************)
CONSTANTS
    Names,      \* file names
    Managed,    \* those of them that are the project's own packages
    DiskFaults  \* may writes of the state file fail?

VARIABLES
    place,      \* [Names -> Place]: the directory of the file
    stored,     \* [Names -> Action]: custompaks-state.json
    upload,     \* the upload in progress, under the lifecycle lock
    apply,      \* the script that applies the requests, under the same lock
    running,    \* serverRunning()
    touched,    \* history: names an administrator changed without the manager
    byHand      \* history: changes with every such change, and with no other

vars == <<place, stored, upload, apply, running, touched, byHand>>

Places == {"active", "inactive", "upload"}
Place == Places \cup {"none"}
Kept == {"active", "inactive"}

NoAction == [wants |-> "none", previous |-> "none"]
To(state) == [wants |-> state, previous |-> "none"]
Action == [wants : Kept \cup {"none"}, previous : {"none"}]
              \cup [wants : {"delete"}, previous : Kept]

NoUpload == [pc |-> "none", name |-> "none"]
Upload == {NoUpload} \cup [pc : {"copy", "save"}, name : Names]
NoApply == [pc |-> "none", todo |-> {}]
Apply == [pc : {"none", "scan", "move", "clear", "launch"}, todo : SUBSET Names]

\* Nobody holds the lifecycle lock.
Unlocked == upload = NoUpload /\ apply = NoApply

\* The directory a file is in is its present state; an upload becomes active.
PresentState(n) == IF place[n] = "inactive" THEN "inactive" ELSE "active"

\* loadCustomPakActionsAt: a project package is only ever activated.
Loaded == [n \in Names |->
    IF n \in Managed /\ stored[n] # NoAction THEN To("active") ELSE stored[n]]

\* customPaksViewAt: what the panel says a file will be after the next start.
DesiredState(n) == IF Loaded[n] # NoAction THEN Loaded[n].wants ELSE PresentState(n)

Save(n, action) ==
    \/ stored' = [Loaded EXCEPT ![n] = action]
    \/ DiskFaults /\ UNCHANGED stored

-----------------------------------------------------------------------------
(* The requests of the panel *)

\* What is stored for a file that is to become active or inactive.
Wants(n, state) == IF place[n] = state THEN NoAction ELSE To(state)

\* Mutant: a file that was to be deleted keeps what it would return to.
SetEnabledKeepsPrevious(n, state) ==
    /\ Unlocked
    /\ place[n] # "none"
    /\ ~(n \in Managed /\ state = "inactive")
    /\ Save(n, [Loaded[n] EXCEPT !.wants = state])
    /\ UNCHANGED <<place, upload, apply, running, touched, byHand>>

SetEnabled(n, state) ==
    /\ Unlocked
    /\ place[n] # "none"
    /\ ~(n \in Managed /\ state = "inactive")
    /\ Save(n, Wants(n, state))
    /\ UNCHANGED <<place, upload, apply, running, touched, byHand>>

StageDeletion(n) ==
    /\ Unlocked
    /\ n \notin Managed /\ place[n] # "none"
    /\ Save(n, [wants |-> "delete",
                previous |-> IF Loaded[n].wants \in Kept THEN Loaded[n].wants
                                                         ELSE PresentState(n)])
    /\ UNCHANGED <<place, upload, apply, running, touched, byHand>>

CancelDeletion(n) ==
    /\ Unlocked
    /\ n \notin Managed /\ place[n] # "none"
    /\ Loaded[n].wants = "delete"
    /\ Save(n, Wants(n, Loaded[n].previous))
    /\ UNCHANGED <<place, upload, apply, running, touched, byHand>>

\* stageCustomPakUploadAt up to the copy to a temporary file.
UploadBegins(n) ==
    /\ Unlocked
    /\ n \notin Managed /\ place[n] = "none" /\ stored[n] = NoAction
    /\ upload' = [pc |-> "copy", name |-> n]
    /\ UNCHANGED <<place, stored, apply, running, touched, byHand>>

\* Mutant: the request is stored before the file has its name.
UploadStoresFirst ==
    /\ upload.pc = "copy"
    /\ \/ /\ stored' = [stored EXCEPT ![upload.name] = To("active")]
          /\ upload' = [upload EXCEPT !.pc = "save"]
       \/ UNCHANGED stored /\ upload' = NoUpload
    /\ UNCHANGED <<place, apply, running, touched, byHand>>

\* The copy gets its name, if that is still free; or the copy failed.
UploadLinks ==
    /\ upload.pc = "copy"
    /\ \/ /\ place[upload.name] = "none"
          /\ place' = [place EXCEPT ![upload.name] = "upload"]
          /\ upload' = [upload EXCEPT !.pc = "save"]
       \/ UNCHANGED place /\ upload' = NoUpload
    /\ UNCHANGED <<stored, apply, running, touched, byHand>>

\* The request is stored, or the file is removed again.
UploadSaves ==
    /\ upload.pc = "save"
    /\ \/ /\ stored' = [Loaded EXCEPT ![upload.name] = To("active")]
          /\ UNCHANGED place
       \/ /\ DiskFaults
          /\ place' = [place EXCEPT ![upload.name] = "none"]
          /\ UNCHANGED stored
    /\ upload' = NoUpload
    /\ UNCHANGED <<apply, running, touched, byHand>>

\* The manager ends in the middle of an upload.
UploadDies ==
    /\ upload # NoUpload
    /\ upload' = NoUpload
    /\ UNCHANGED <<place, stored, apply, running, touched, byHand>>

-----------------------------------------------------------------------------
(* server.sh start: --apply-custompaks, then the launch *)

StartScript ==
    /\ Unlocked /\ ~running
    /\ apply' = [pc |-> "scan", todo |-> {}]
    /\ UNCHANGED <<place, stored, upload, running, touched, byHand>>

\* Mutant: an upload whose request was never stored stays where it is.
RequestsStored == Loaded

\* An upload whose request was never stored becomes active.
Requests == [n \in Names |->
    IF place[n] = "upload" /\ Loaded[n] = NoAction THEN To("active") ELSE Loaded[n]]

\* The first pass: every file that is to be kept is there, or nothing is done.
ApplyScans ==
    /\ apply.pc = "scan"
    /\ apply' =
           IF \A n \in Names : Requests[n] = NoAction
           THEN [pc |-> "launch", todo |-> {}]
           ELSE IF \E n \in Names : Requests[n].wants \in Kept /\ place[n] = "none"
           THEN NoApply
           ELSE [pc |-> "move", todo |-> {n \in Names : Requests[n] # NoAction}]
    /\ UNCHANGED <<place, stored, upload, running, touched, byHand>>

\* Mutant: a file that is to be deleted is set aside.
SetAside(n) == IF Requests[n].wants = "delete" THEN "inactive" ELSE Requests[n].wants

\* Where a request takes its file.
Destination(n) == IF Requests[n].wants = "delete" THEN "none" ELSE Requests[n].wants

\* The second pass, file by file; a file operation may fail.
ApplyMoves ==
    /\ apply.pc = "move"
    /\ \/ \E n \in apply.todo :
           /\ place' = [place EXCEPT ![n] = Destination(n)]
           /\ apply' = [apply EXCEPT !.todo = @ \ {n}]
       \/ apply.todo # {} /\ apply' = NoApply /\ UNCHANGED place
       \/ apply.todo = {} /\ apply' = [apply EXCEPT !.pc = "clear"] /\ UNCHANGED place
    /\ UNCHANGED <<stored, upload, running, touched, byHand>>

ApplyClears ==
    /\ apply.pc = "clear"
    /\ stored' = [n \in Names |-> NoAction]
    /\ apply' = [apply EXCEPT !.pc = "launch"]
    /\ UNCHANGED <<place, upload, running, touched, byHand>>

Launch ==
    /\ apply.pc = "launch"
    /\ apply' = NoApply
    /\ running' \in BOOLEAN
    /\ UNCHANGED <<place, stored, upload, touched, byHand>>

\* The script ends between two steps.
ScriptDies ==
    /\ apply # NoApply
    /\ apply' = NoApply
    /\ UNCHANGED <<place, stored, upload, running, touched, byHand>>

\* server.sh recover launches without applying anything.
Recover ==
    /\ Unlocked /\ ~running
    /\ running' = TRUE
    /\ UNCHANGED <<place, stored, upload, apply, touched, byHand>>

ServerEnds ==
    /\ running
    /\ running' = FALSE
    /\ UNCHANGED <<place, stored, upload, apply, touched, byHand>>

\* An administrator adds, moves or removes a file by hand; not while the
\* manager or the script is at work, and never a name of two directories.
Administrator(n) ==
    /\ Unlocked /\ ~running
    /\ \E p \in Place \ {"upload", place[n]} : place' = [place EXCEPT ![n] = p]
    /\ touched' = touched \cup {n} /\ byHand' = ~byHand
    /\ UNCHANGED <<stored, upload, apply, running>>

-----------------------------------------------------------------------------

Init ==
    /\ place \in [Names -> {"none", "active", "inactive"}]
    /\ stored = [n \in Names |-> NoAction]
    /\ upload = NoUpload /\ apply = NoApply
    /\ running = FALSE /\ touched = {} /\ byHand = FALSE

Request(n) ==
    \/ \E state \in Kept : SetEnabled(n, state)
    \/ StageDeletion(n) \/ CancelDeletion(n) \/ UploadBegins(n)
UploadStep == UploadLinks \/ UploadSaves \/ UploadDies
ScriptStep ==
    \/ StartScript \/ ApplyScans \/ ApplyMoves \/ ApplyClears \/ Launch \/ ScriptDies
    \/ Recover \/ ServerEnds

Next == UploadStep \/ ScriptStep \/ \E n \in Names : Request(n) \/ Administrator(n)

Spec == Init /\ [][Next]_vars

-----------------------------------------------------------------------------
(* Properties *)

\* Every variable has its type, and one process at most holds the lock.
TypeOK ==
    /\ place \in [Names -> Place]
    /\ stored \in [Names -> Action]
    /\ upload \in Upload /\ apply \in Apply
    /\ running \in BOOLEAN /\ touched \subseteq Names /\ byHand \in BOOLEAN
    /\ upload = NoUpload \/ apply = NoApply

\* What keeps a start from failing: whatever stops between two file
\* operations, a stored request to keep a file has its file, unless an
\* administrator took it away.  Such a request could not be withdrawn.
RequestsHaveFiles ==
    \A n \in Names \ touched : stored[n].wants \in Kept => place[n] # "none"

\* A server runs with what was asked for at its managed start: no request is
\* half met when the server is launched.
LaunchIsSettled ==
    apply.pc = "launch" => \A n \in Names : stored[n] = NoAction /\ place[n] # "upload"

Now == [n \in Names |->
    CASE place[n] = "none" -> "absent" [] place[n] = "upload" -> "waiting" [] OTHER -> place[n]]
Planned == [n \in Names |->
    IF DesiredState(n) = "delete" \/ (place[n] = "none" /\ stored[n] = NoAction)
    THEN "absent" ELSE DesiredState(n)]
Before == [n \in Names |-> Loaded[n].previous]

Plan == INSTANCE PakPlan WITH now <- Now, next <- Planned, before <- Before

\* The panel implements its promise (PakPlan): what it shows is what the next
\* start does.  A request changes that of its own file and nothing else,
\* interrupted applications keep every request, a cancelled deletion brings
\* back what was asked for before, and the project moves a file only while no
\* server runs, to the place the panel has shown for it.
FollowsPlan == Plan!PlanSpec

=============================================================================
