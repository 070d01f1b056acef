---------------------------- MODULE ConfigFiles ----------------------------
(***************************************************************************)
(* Game.ini, Engine.ini and the manager's record of their disabled items   *)
(* (config.go, disabledini.go, maprotation.go).  Each has an active and a  *)
(* pending file: edits go to the pending ones while a server runs or       *)
(* anything is pending, and server.sh moves these over the active ones     *)
(* before it launches a server.  An edit writes two files, one after the   *)
(* other; edits and scripts share the lifecycle lock, the start of a       *)
(* manager does not take it.                                               *)
(*                                                                         *)
(* An entry is its section, key and value.  Bound: a file holds an entry   *)
(* once and has one section, or none if it has no entries.                 *)
(***************************************************************************)
EXTENDS Integers, FiniteSets, FiniteSetsExt, Sequences

CONSTANTS
    Game, Engine,   \* entries of the two files, other ones in each
    Rotation,       \* the MapRotation entries of Game.ini
    NoFile,         \* a file that does not exist
    WritesFail      \* may a file write fail?

ASSUME EntriesAssumption ==
    IsFiniteSet(Game) /\ IsFiniteSet(Engine) /\ Game \cap Engine = {} /\ Rotation \subseteq Game

Files == {"Game.ini", "Engine.ini"}
Of(f) == IF f = "Game.ini" THEN Game ELSE Engine
Entries == Game \cup Engine

VARIABLES
    files,      \* <<"active" or "pending", name>> |-> content or NoFile
    job,        \* the edit or script that holds the lifecycle lock
    web,        \* the manager: "down", "starting" or "up"
    found,      \* what a starting manager will write as pending record
    serverRunning,    \* serverRunning()
    owed,       \* history: entries no edit has removed, now and at the next start
    exposed     \* history: interruptions after which an entry may be missing

configVars == <<files, job, web, found, serverRunning, owed, exposed>>

Active(name) == <<"active", name>>
Pending(name) == <<"pending", name>>
Parts == Files \cup {"record"}
Paths == {"active", "pending"} \X Parts

\* disabled-ini-entries.json: disabled entries, and files whose section is.
Record == [off : SUBSET Entries, sections : SUBSET Files]

ASSUME NoFileAssumption ==
    (\A entries \in SUBSET Entries : NoFile # entries) /\ (\A record \in Record : NoFile # record)

\* A job's remaining writes, what its writes replaced, and the entries it adds.
Nothing == [now |-> {}, next |-> {}]
NoJob == [kind |-> "none", steps |-> <<>>, done |-> <<>>, adds |-> Nothing]
Job(kind, steps, adds) == [kind |-> kind, steps |-> steps, done |-> <<>>, adds |-> adds]

-----------------------------------------------------------------------------
(* Reading *)

Exists(path) == files[path] # NoFile

\* readConfig and loadDisabledINIFile: the pending file, if there is one.
On(f) == IF Exists(Pending(f)) THEN files[Pending(f)] ELSE files[Active(f)]
Stored == IF Exists(Pending("record")) THEN files[Pending("record")] ELSE files[Active("record")]

\* makeConfigViewWithDisabled: what the editor shows of a file.
Shown(f) == On(f) \cup (Stored.off \cap Of(f))

\* targetStaged of mutateConfig and saveMapRotation.
Staged(f) == Exists(Pending(f)) \/ Exists(Pending("record")) \/ serverRunning

-----------------------------------------------------------------------------
(* The edits: pairs of the new file and the new record *)

Result(on, off, sections) == [on |-> on, record |-> [off |-> off, sections |-> sections]]

SetEntry(f) ==
    LET new == Of(f) \ Shown(f) IN
    {Result((On(f) \ {e}) \cup {x}, Stored.off, Stored.sections) : e \in On(f), x \in new}
    \cup {Result(On(f), (Stored.off \ {e}) \cup {x}, Stored.sections)
              : e \in Stored.off \cap Of(f), x \in new}

\* An entry that is enabled enables its section.
EnableEntry(f) ==
    {Result(On(f) \cup {e}, Stored.off \ {e}, Stored.sections \ {f})
        : e \in (Stored.off \cap Of(f)) \ On(f)}

DisableEntry(f) ==
    {Result(On(f) \ {e}, Stored.off \cup {e}, Stored.sections) : e \in On(f) \ Stored.off}

RemoveEntry(f) ==
    {Result(On(f) \ {e}, Stored.off, Stored.sections) : e \in On(f)}
    \cup {Result(On(f), Stored.off \ {e}, Stored.sections) : e \in Stored.off \cap Of(f)}

AddEntry(f) ==
    {IF f \in Stored.sections THEN Result(On(f), Stored.off \cup {e}, Stored.sections)
                             ELSE Result(On(f) \cup {e}, Stored.off, Stored.sections)
        : e \in Of(f) \ Shown(f)}

SetSectionEnabled(f) ==
    IF On(f) \cap Stored.off # {} THEN {} ELSE
    {IF f \in Stored.sections
     THEN Result(Shown(f), Stored.off \ Of(f), Stored.sections \ {f})
     ELSE Result({}, Stored.off \cup On(f), Stored.sections \cup {f})}

RemoveSection(f) == {Result({}, Stored.off \ Of(f), Stored.sections \ {f})}

\* The entries of a renamed section are other entries.
RenameSection(f) ==
    LET new == Of(f) \ Shown(f)
        as(entries) == kSubset(Cardinality(entries), new) IN
    {Result(x, (Stored.off \ Of(f)) \cup y, Stored.sections)
        : x \in as(On(f)), y \in as(Stored.off \cap Of(f))}

Edits(f) ==
    SetEntry(f) \cup EnableEntry(f) \cup DisableEntry(f) \cup RemoveEntry(f)
    \cup AddEntry(f) \cup SetSectionEnabled(f) \cup RemoveSection(f)
    \cup RenameSection(f)

\* replaceMapRotation: any list of maps takes the place of the present one.
Rotations ==
    {Result((On("Game.ini") \ Rotation) \cup on, (Stored.off \ Rotation) \cup off, Stored.sections)
        : on \in IF "Game.ini" \in Stored.sections THEN {{}} ELSE SUBSET Rotation,
          off \in SUBSET Rotation}

-----------------------------------------------------------------------------
(* persistConfigState *)

\* Mutant: the file is always written before the record.
ConfigAlwaysFirst(r) == TRUE

\* The file first when the record shrinks: an interruption leaves a copy.
ConfigFirst(r) ==
    \/ Cardinality(r.record.off) < Cardinality(Stored.off)
    \/ Cardinality(r.record.sections) < Cardinality(Stored.sections)

\* The files that are written, in order.
Writes(f, r) ==
    LET path(name) == IF Staged(f) THEN Pending(name) ELSE Active(name)
        config == IF r.on # On(f) \/ ~Exists(path(f))
                  THEN <<[to |-> path(f), content |-> r.on]>> ELSE <<>>
        record == IF r.record # Stored \/ ~Exists(path("record"))
                  THEN <<[to |-> path("record"), content |-> r.record]>> ELSE <<>>
    IN IF ConfigFirst(r) THEN config \o record ELSE record \o config

\* What the edit removes is owed no more, what it adds when it has succeeded.
Generations(f, entries) == [now |-> IF Staged(f) THEN {} ELSE entries, next |-> entries]

SaveBegins(f, r, kind) ==
    LET shown == r.on \cup (r.record.off \cap Of(f))
        gone == Generations(f, Shown(f) \ shown) IN
    /\ web = "up" /\ job = NoJob /\ Writes(f, r) # <<>>
    /\ job' = Job(kind, Writes(f, r), Generations(f, shown \ Shown(f)))
    /\ owed' = [now |-> owed.now \ gone.now, next |-> owed.next \ gone.next]
    /\ UNCHANGED <<files, web, found, serverRunning, exposed>>

MutateConfig(f) == Of(f) # {} /\ \E r \in Edits(f) : SaveBegins(f, r, "edit")
SaveMapRotation == \E r \in Rotations : SaveBegins("Game.ini", r, "rotation")

\* discardPending removes the pending files one by one.
Removal(name) == [to |-> Pending(name), content |-> NoFile]
DiscardPending ==
    /\ web = "up" /\ job = NoJob
    /\ job' = Job("discard",
                  <<Removal("Game.ini"), Removal("Engine.ini"), Removal("record")>>, Nothing)
    /\ exposed' = IF "script" \in exposed THEN exposed \cup {"discard"} ELSE exposed
    /\ UNCHANGED <<files, web, found, serverRunning, owed>>

OfManager == {"edit", "rotation", "discard"}

\* What an interruption between two writes leaves open.
Exposes ==
    IF job.kind \in {"rotation", "discard"} /\ job.done # <<>>
    THEN {job.kind} ELSE {}

\* The last write: an edit owes what it adds, a discard what was active.
Succeeded ==
    [now |-> owed.now \cup job.adds.now,
     next |-> IF job.kind = "discard" THEN owed.now ELSE owed.next \cup job.adds.next]

\* writeFileAtomic replaces a file or leaves it.
WriteStep ==
    /\ job.kind \in OfManager
    /\ LET step == Head(job.steps)
           last == Len(job.steps) = 1 IN
       /\ files' = [files EXCEPT ![step.to] = step.content]
       /\ job' = IF last THEN NoJob
                 ELSE [job EXCEPT !.steps = Tail(@),
                                  !.done = Append(@, [to |-> step.to, content |-> files[step.to]])]
       /\ owed' = IF last THEN Succeeded ELSE owed
       /\ exposed' = IF last /\ job.kind = "discard" THEN exposed \ {"script"} ELSE exposed
    /\ UNCHANGED <<web, found, serverRunning>>

\* A write fails: an edit restores the file it has written, if it can.
WriteFails ==
    /\ WritesFail
    /\ job.kind \in OfManager
    /\ job' = NoJob
    /\ \/ /\ job.kind # "discard" /\ job.done # <<>>
          /\ files' = [files EXCEPT ![Head(job.done).to] = Head(job.done).content]
          /\ UNCHANGED exposed
       \/ /\ exposed' = exposed \cup Exposes
          /\ UNCHANGED files
    /\ UNCHANGED <<web, found, serverRunning, owed>>

\* RecoverDisabledEntriesFromBackup, a command for a stopped manager.
RecoverFromBackup(f) ==
    /\ web = "down" /\ job = NoJob
    /\ \A name \in Parts : ~Exists(Pending(name))
    /\ \E entries \in SUBSET (Of(f) \ Shown(f)) :
           /\ files' = [files EXCEPT ![Active("record")].off = @ \cup entries]
           /\ owed' = [now |-> owed.now \cup entries, next |-> owed.next \cup entries]
    /\ UNCHANGED <<job, web, found, serverRunning, exposed>>

-----------------------------------------------------------------------------
(* The start and the end of a manager *)

\* initializeDisabledINIState: a pending file without a pending record is
\* taken for one of a release that kept disabled entries in the file itself.
StartReads ==
    LET old == {f \in Files : Exists(Pending(f))}
        record == files[Active("record")] IN
    /\ web = "down"
    /\ web' = "starting"
    /\ found' = IF Exists(Pending("record")) \/ old = {} THEN files[Pending("record")]
                ELSE [off |-> record.off \ UNION {Of(f) : f \in old},
                      sections |-> record.sections \ old]
    /\ exposed' = IF old # {} /\ ~Exists(Pending("record")) THEN exposed \cup {"start"}
                                                            ELSE exposed
    /\ UNCHANGED <<files, job, serverRunning, owed>>

StartWrites ==
    /\ web = "starting"
    /\ \/ /\ files' = IF found = NoFile THEN files
                       ELSE [files EXCEPT ![Pending("record")] = found]
          /\ web' = "up"
       \/ WritesFail /\ found # NoFile /\ web' = "down" /\ UNCHANGED files
    /\ found' = NoFile
    /\ UNCHANGED <<job, serverRunning, owed, exposed>>

ManagerDies ==
    /\ web # "down"
    /\ web' = "down" /\ found' = NoFile
    /\ job' = IF job.kind \in OfManager THEN NoJob ELSE job
    /\ exposed' = exposed \cup Exposes
    /\ UNCHANGED <<files, serverRunning, owed>>

-----------------------------------------------------------------------------
(* server.sh start *)

StartConfigScript ==
    /\ job = NoJob /\ ~serverRunning
    /\ job' = Job("script", <<"Game.ini", "Engine.ini", "record">>, Nothing)
    /\ UNCHANGED <<files, web, found, serverRunning, owed, exposed>>

\* apply_pending_config moves what is there.
ScriptMoves ==
    /\ job.kind = "script" /\ job.steps # <<>>
    /\ LET name == Head(job.steps) IN
       /\ files' = IF Exists(Pending(name))
                   THEN [files EXCEPT ![Active(name)] = files[Pending(name)],
                                      ![Pending(name)] = NoFile]
                   ELSE files
       /\ job' = [job EXCEPT !.steps = Tail(@), !.done = Append(@, name)]
    /\ UNCHANGED <<web, found, serverRunning, owed, exposed>>

LaunchServer ==
    /\ job.kind = "script" /\ job.steps = <<>>
    /\ job' = NoJob
    /\ serverRunning' \in BOOLEAN
    /\ owed' = [owed EXCEPT !.now = owed.next]
    /\ exposed' = exposed \ {"script"}
    /\ UNCHANGED <<files, web, found>>

\* The script ends; until another one goes on, part of the change is active.
ConfigScriptDies ==
    /\ job.kind = "script"
    /\ job' = NoJob
    /\ exposed' = IF job.done # <<>> THEN exposed \cup {"script"} ELSE exposed
    /\ UNCHANGED <<files, web, found, serverRunning, owed>>

ServerStops ==
    /\ serverRunning
    /\ serverRunning' = FALSE
    /\ UNCHANGED <<files, job, web, found, owed, exposed>>

-----------------------------------------------------------------------------

ConfigInit ==
    /\ \E on \in SUBSET Entries, off \in SUBSET Entries :
           /\ on \cap off = {}
           /\ files = [path \in Paths |->
                  IF path[1] = "pending" THEN NoFile
                  ELSE IF path[2] = "record" THEN [off |-> off, sections |-> {}]
                  ELSE on \cap Of(path[2])]
           /\ owed = [now |-> on \cup off, next |-> on \cup off]
    /\ job = NoJob
    /\ web = "down" /\ found = NoFile
    /\ serverRunning = FALSE /\ exposed = {}

EditStep ==
    \/ \E f \in Files : MutateConfig(f) \/ RecoverFromBackup(f)
    \/ SaveMapRotation \/ DiscardPending \/ WriteStep \/ WriteFails
ManagerStep == StartReads \/ StartWrites \/ ManagerDies
ConfigScriptStep ==
    StartConfigScript \/ ScriptMoves \/ LaunchServer \/ ConfigScriptDies \/ ServerStops

ConfigNext == EditStep \/ ManagerStep \/ ConfigScriptStep

ConfigSpec == ConfigInit /\ [][ConfigNext]_configVars

-----------------------------------------------------------------------------
(* Properties *)

\* Every variable has its type; active files are always there.
ConfigTypeOK ==
    /\ \A path \in Paths : path[1] = "active" => files[path] # NoFile
    /\ \A path \in Paths : files[path] # NoFile =>
           IF path[2] = "record" THEN files[path] \in Record
                                 ELSE files[path] \subseteq Of(path[2])
    /\ job.kind \in OfManager \cup {"none", "script"}
    /\ web \in {"down", "starting", "up"}
    /\ found = NoFile \/ found \in Record
    /\ serverRunning \in BOOLEAN
    /\ owed.now \subseteq Entries /\ owed.next \subseteq Entries
    /\ exposed \subseteq {"rotation", "discard", "start", "script"}

\* An entry that no edit has removed is shown, enabled or disabled, whatever
\* stops between two writes and whichever generation an edit went to: unless a
\* rotation that enables one map and disables another, or a discard, was cut
\* short, or a manager took half a staged edit for a file of an old release.
ShownIsComplete ==
    job = NoJob /\ exposed \subseteq {"script"}
        => owed.next \subseteq UNION {Shown(f) : f \in Files}

\* What a discard returns to is complete: staged edits leave the active files
\* alone, until a start that was cut short has replaced part of them.
ActiveIsKept ==
    job = NoJob /\ exposed = {}
        => owed.now \subseteq
               (UNION {files[Active(f)] : f \in Files}) \cup files[Active("record")].off

\* No entry is lost: neither of what is shown nor of what a discard returns to.
NothingIsLost == ShownIsComplete /\ ActiveIsKept

=============================================================================
