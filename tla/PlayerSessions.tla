---------------------------- MODULE PlayerSessions ----------------------------
(***************************************************************************)
(* The connections of players (gamelog.go, players.go).  A manager that    *)
(* starts imports the archived logs and Mordhau.log into players.json;     *)
(* then its loop follows Mordhau.log, compares the players it has seen     *)
(* with the Runtime bridge's list, announces logouts and stores what it    *)
(* learns.  server.sh moves Mordhau.log to the archive before a launch.    *)
(*                                                                         *)
(* A session is the place of its authentication in the logs, as JoinedAt   *)
(* is its time.  Bounds: MaxRuns logs of MaxLines lines about logins and   *)
(* closed connections; a log is read to its end and without an error.      *)
(***************************************************************************)
EXTENDS Integers, Sequences, SequencesExt, FiniteSets

CONSTANTS Players, MaxRuns, MaxLines

ASSUME SessionsAssumption == IsFiniteSet(Players) /\ MaxRuns \in Nat /\ MaxLines \in Nat

VARIABLES
    online,         \* serverRunning()
    logs,           \* the logs of all runs, oldest first
    here,           \* is the last of them Mordhau.log, and not yet archived?
    connected,      \* the players on the server
    listed,         \* those of the Runtime bridge's last complete list
    genuine,        \* those of them it lists under the controller they have now
    manager,        \* the manager: "down", "starting", "poll" or "reconcile"
    playersFile,    \* players.json
    playerHistory,  \* m.playerHistory
    loop,           \* the follower and the processor of gameLogLoop
    told,           \* history: sessions whose logout was announced
    again,          \* history: those announced more than once
    spoiled         \* history: what may have spoiled the record

world == <<online, logs, here, connected, listed, genuine>>
announced == <<told, again>>
histories == <<playersFile, playerHistory>>
sessionsVars ==
    <<online, logs, here, connected, listed, genuine, manager, playersFile, playerHistory,
    loop, told, again, spoiled>>

Runs == 1 .. MaxRuns
Session == Runs \X (1 .. MaxLines)
NoSession == <<0, 0>>
Line == [kind : {"auth", "close"}, who : Players]
History == [open : SUBSET Session, closed : SUBSET Session, imported : SUBSET Runs]
Spoils == {"gap", "missed", "rejoin", "stale", "replay", "cut"}

Current == Len(logs)
Archives == IF here THEN 1 .. Current - 1 ELSE 1 .. Current
MayWrite == online /\ here /\ Len(logs[Current]) < MaxLines

\* What the manager cannot know of what happens before its loop begins.
Unseen == spoiled \cup (IF manager = "starting" THEN {"gap"} ELSE {})

-----------------------------------------------------------------------------
(* The server, its log and the Runtime bridge *)

Write(line) == logs' = [logs EXCEPT ![Current] = Append(@, line)]

Login(p) ==
    /\ MayWrite /\ p \notin connected
    /\ Write([kind |-> "auth", who |-> p])
    /\ connected' = connected \cup {p}
    /\ spoiled' = Unseen
    /\ UNCHANGED <<online, here, listed, genuine, manager, histories, loop, announced>>

\* A player leaves; the log may lack the native close record.
Leave(p) ==
    /\ p \in connected
    /\ connected' = connected \ {p} /\ genuine' = genuine \ {p}
    /\ \/ MayWrite /\ Write([kind |-> "close", who |-> p]) /\ spoiled' = Unseen
       \/ UNCHANGED <<logs, spoiled>>
    /\ UNCHANGED <<online, here, listed, manager, histories, loop, announced>>

\* The bridge lists the connected players, new ones after a while.  A list may
\* be five seconds old: it may still hold the former controllers of players who
\* have left, or have left and come back.
Sample ==
    /\ \E new \in SUBSET (connected \ genuine), old \in SUBSET (listed \ genuine) :
           /\ genuine' = genuine \cup new
           /\ listed' = genuine' \cup old
    /\ UNCHANGED <<online, logs, here, connected, manager, histories, loop, announced, spoiled>>

RunEnds ==
    /\ online
    /\ online' = FALSE /\ connected' = {} /\ genuine' = {}
    /\ spoiled' = Unseen \ {"rejoin", "stale"}
    /\ UNCHANGED <<logs, here, listed, manager, histories, loop, announced>>

\* launch_server archives the log; the game opens a new one.
RunBegins ==
    /\ ~online /\ Current < MaxRuns
    /\ online' = TRUE /\ here' = FALSE
    /\ spoiled' = Unseen
    /\ UNCHANGED <<logs, connected, listed, genuine, manager, histories, loop, announced>>

LogAppears ==
    /\ online /\ ~here /\ Current < MaxRuns
    /\ logs' = Append(logs, <<>>) /\ here' = TRUE
    /\ UNCHANGED <<online, connected, listed, genuine, manager, histories, loop, announced, spoiled>>

-----------------------------------------------------------------------------
(* gameLogProcessor *)

\* The processor of a loop: live sessions, players missing from the bridge's
\* list, and those it has listed.
Fresh == [live |-> [p \in Players |-> NoSession], missing |-> {}, seen |-> {}]
Live(processor) == {p \in Players : processor.live[p] # NoSession}

Event(kind, session) == [kind |-> kind, session |-> session]

\* processLine: an authentication of a player with a live session is ignored.
TakesUp(processor, p, session) ==
    [processor EXCEPT !.live[p] = session, !.missing = @ \ {p}]
Authenticates(step, p, session) ==
    IF p \in Live(step.to)
    THEN [step EXCEPT !.absorbed = TRUE]
    ELSE [step EXCEPT !.to = TakesUp(@, p, session),
                      !.events = Append(@, Event("login", session))]

Forget(processor, gone) ==
    [live |-> [p \in Players |-> IF p \in gone THEN NoSession ELSE processor.live[p]],
     missing |-> processor.missing \ gone, seen |-> processor.seen \ gone]

\* processLine: the native close record.
Closes(step, p) ==
    [step EXCEPT !.to = Forget(@, {p}),
                 !.events = IF p \in Live(step.to)
                            THEN Append(@, Event("logout", step.to.live[p])) ELSE @]

\* The lines of the log of a run that follow those already read.
Begins(processor) == [to |-> processor, events |-> <<>>, absorbed |-> FALSE]
ProcessLine(step, line, session) ==
    IF line.kind = "auth" THEN Authenticates(step, line.who, session)
                          ELSE Closes(step, line.who)
Process(processor, run, log, read) ==
    LET after[i \in 0 .. Len(log)] ==
            IF i <= read THEN Begins(processor)
                         ELSE ProcessLine(after[i - 1], log[i], <<run, i>>)
    IN  after[Len(log)]

\* closePlayerSessions, for some of the live players.
Logouts(processor, gone) ==
    [k \in 1 .. Cardinality(gone) |->
        Event("logout", processor.live[SetToSeq(gone)[k]])]
ClosePlayerSessions(processor) == Logouts(processor, Live(processor))

-----------------------------------------------------------------------------
(* The stored history *)

\* applyPlayerGameEvent: a login adds a connection once, a logout ends one
\* that is there and open.
ApplyEvent(history, event) ==
    IF event.kind = "login"
    THEN [history EXCEPT !.open = IF event.session \in history.closed THEN @
                                                                      ELSE @ \cup {event.session}]
    ELSE IF event.session \in history.open
    THEN [history EXCEPT !.open = @ \ {event.session}, !.closed = @ \cup {event.session}]
    ELSE history
ApplyEvents(history, events) ==
    LET after[k \in 0 .. Len(events)] ==
            IF k = 0 THEN history ELSE ApplyEvent(after[k - 1], events[k])
    IN  after[Len(events)]

\* scanPlayerLogHistory
Scan(history, run, closeAtEnd) ==
    LET step == Process(Fresh, run, logs[run], 0) IN
    ApplyEvents(history, step.events \o IF closeAtEnd THEN ClosePlayerSessions(step.to) ELSE <<>>)

\* importPlayerLogsLocked: archives that are new, then the current log.
ImportRun(history, run) ==
    IF run \in Archives
    THEN IF run \in history.imported THEN history
         ELSE [Scan(history, run, TRUE) EXCEPT !.imported = @ \cup {run}]
    ELSE Scan(history, run, ~online)
Import(history) ==
    LET after[run \in 0 .. Current] ==
            IF run = 0 THEN history ELSE ImportRun(after[run - 1], run)
    IN  after[Current]

\* What is scanned anew lacks the sessions that followed an inferred logout:
\* the session before them is live again when they are scanned.
Replays ==
    LET scanned == (Archives \ playersFile.imported) \cup (IF here THEN {Current} ELSE {}) IN
    IF \E run \in scanned : Process(Fresh, run, logs[run], 0).absorbed
    THEN {"replay"} ELSE {}

\* The start of a manager, up to the loop.
Start ==
    /\ manager = "down"
    /\ manager' = "starting"
    /\ playerHistory' = Import(playersFile) /\ playersFile' = playerHistory'
    /\ spoiled' = (spoiled \ {"gap"})
                     \cup (IF "gap" \in spoiled THEN {"missed"} ELSE {}) \cup Replays
    /\ UNCHANGED <<world, loop, announced>>

-----------------------------------------------------------------------------
(* gameLogLoop *)

Follower(run, offset) == [run |-> run, offset |-> offset]
AtEnd == IF here THEN Follower(Current, Len(logs[Current])) ELSE Follower(0, 0)

\* Mutant: sessions that are stored as closed are live again.
DiscardNothing(processor) == processor

\* discardPersistentlyClosedGameLogSessions
Discard(processor) ==
    Forget(processor, {p \in Live(processor) : processor.live[p] \in playerHistory.closed})

\* The lines of a log that was there before are not announced.
LoopBegins ==
    /\ manager = "starting"
    /\ manager' = "poll"
    /\ loop' = [wasRunning |-> online, at |-> AtEnd,
                of |-> IF online /\ here
                       THEN Discard(Process(Fresh, Current, logs[Current], 0).to)
                       ELSE Fresh]
    /\ UNCHANGED <<world, histories, announced, spoiled>>

\* recordLiveGameLogEvents: announced first, then stored; a failed save is
\* made up for by the next one.
RecordEvents(events) ==
    LET out == {events[k].session : k \in {j \in DOMAIN events : events[j].kind = "logout"}} IN
    /\ told' = told \cup out
    /\ again' = again \cup (out \cap told)
    /\ playerHistory' = ApplyEvents(playerHistory, events)
    /\ playersFile' \in {playersFile} \cup (IF playerHistory' = playerHistory THEN {}
                                             ELSE {playerHistory'})

\* Mutant: a log of the same name is the same log.
ReplacedIfMissing == IF here THEN loop.at.run = 0 ELSE loop.at.run # 0

\* readNewLines: another file, or none where one was.
Replaced == IF here THEN loop.at.run # Current ELSE loop.at.run # 0

PollStopped ==
    /\ manager = "poll" /\ ~online
    /\ RecordEvents(IF loop.wasRunning THEN ClosePlayerSessions(loop.of) ELSE <<>>)
    /\ loop' = [loop EXCEPT !.wasRunning = FALSE,
                            !.of = IF loop.wasRunning THEN Fresh ELSE @]
    /\ UNCHANGED <<world, manager, spoiled>>

PollReads ==
    /\ manager = "poll" /\ online
    /\ LET closing == IF Replaced THEN ClosePlayerSessions(loop.of) ELSE <<>>
           before == IF Replaced THEN Fresh ELSE loop.of
           read == IF Replaced THEN 0 ELSE loop.at.offset
           step == IF here THEN Process(before, Current, logs[Current], read)
                           ELSE Begins(before) IN
       /\ RecordEvents(closing \o step.events)
       /\ loop' = [wasRunning |-> TRUE, at |-> AtEnd, of |-> step.to]
       /\ spoiled' = IF step.absorbed THEN spoiled \cup {"rejoin"} ELSE spoiled
    /\ manager' = "reconcile"
    /\ UNCHANGED world

Absent == Live(loop.of) \ listed

\* The bridge has listed the player, or thirty seconds have passed since it
\* came: by then the bridge lists everybody who is still there.
Old(p) == p \in loop.of.seen \/ p \notin connected

Compared(processor) ==
    [processor EXCEPT !.missing = Absent, !.seen = @ \cup (Live(processor) \cap listed)]

\* Players whose new session a list from before their login marks as seen.
SeenTooEarly == (Live(loop.of) \cap listed \cap connected) \ genuine

\* reconcileRuntimePlayers: players missing for five seconds are logged out.
Reconcile ==
    /\ manager = "reconcile"
    /\ \/ /\ RecordEvents(<<>>)   \* no list, or an incomplete one
          /\ loop' = [loop EXCEPT !.of.missing = {}]
          /\ UNCHANGED spoiled
       \/ \E gone \in SUBSET {p \in Absent \cap loop.of.missing : Old(p)} :
           /\ RecordEvents(Logouts(loop.of, gone))
           /\ loop' = [loop EXCEPT !.of = Forget(Compared(@), gone)]
           /\ spoiled' = spoiled \cup (IF SeenTooEarly = {} THEN {} ELSE {"stale"})
    /\ manager' = "poll"
    /\ UNCHANGED world

\* The manager ends; also between an announcement and its save.
ManagerEnds ==
    /\ manager # "down"
    /\ manager' = "down"
    /\ loop' = [wasRunning |-> FALSE, at |-> Follower(0, 0), of |-> Fresh]
    /\ playerHistory' = playersFile
    /\ spoiled' = IF playerHistory # playersFile THEN spoiled \cup {"cut"} ELSE spoiled
    /\ UNCHANGED <<world, playersFile, announced>>

-----------------------------------------------------------------------------

SessionsInit ==
    /\ online = FALSE /\ logs = <<>> /\ here = FALSE
    /\ connected = {} /\ listed = {} /\ genuine = {}
    /\ manager = "down"
    /\ playersFile = [open |-> {}, closed |-> {}, imported |-> {}] /\ playerHistory = playersFile
    /\ loop = [wasRunning |-> FALSE, at |-> Follower(0, 0), of |-> Fresh]
    /\ told = {} /\ again = {} /\ spoiled = {}

ServerStep ==
    \/ \E p \in Players : Login(p) \/ Leave(p)
    \/ Sample \/ RunEnds \/ RunBegins \/ LogAppears
FollowerStep ==
    Start \/ LoopBegins \/ PollStopped \/ PollReads \/ Reconcile \/ ManagerEnds

SessionsNext == ServerStep \/ FollowerStep

SessionsSpec == SessionsInit /\ [][SessionsNext]_sessionsVars

-----------------------------------------------------------------------------
(* Properties *)

\* Every variable has its type, and no session is both open and closed.
SessionsTypeOK ==
    /\ online \in BOOLEAN /\ here \in BOOLEAN
    /\ Current <= MaxRuns /\ \A run \in 1 .. Current : logs[run] \in Seq(Line)
    /\ connected \subseteq Players /\ listed \subseteq Players
    /\ genuine \subseteq connected \cap listed
    /\ manager \in {"down", "starting", "poll", "reconcile"}
    /\ playersFile \in History /\ playerHistory \in History
    /\ playerHistory.open \cap playerHistory.closed = {}
    /\ loop.of.live \in [Players -> Session \cup {NoSession}]
    /\ loop.of.missing \subseteq Players /\ loop.of.seen \subseteq Players
    /\ spoiled \subseteq Spoils

\* A logout is announced once, however often the manager restarts and whether
\* the log, the bridge or the end of the server told it: unless the manager
\* ended between the announcement and its save.
LogoutOnce == spoiled \cap {"gap", "missed", "cut"} = {} => again = {}

\* Who is shown as connected is a player whose end the loop will notice, and
\* the other way round; and nobody of a log before the one that is followed.
OpenIsLive ==
    manager \in {"poll", "reconcile"} /\ spoiled \cap {"gap", "replay"} = {}
        => /\ playerHistory.open = {loop.of.live[p] : p \in Live(loop.of)}
           /\ \A s \in playerHistory.open : s[1] = loop.at.run

\* A player on the server has an open session once the log is read, although
\* the bridge lists new players late: unless the player came back before the
\* session it left without a close record was ended, or the loop took a list
\* from before the login for one that shows the new session.
PresentIsOpen ==
    manager \in {"poll", "reconcile"} /\ online /\ loop.at = AtEnd
        /\ spoiled \cap {"gap", "rejoin", "stale", "replay"} = {}
        => connected \subseteq Live(loop.of)

\* The sessions shown as open are those of the players on the server, once the
\* log is read: nobody else stays connected for ever, and nobody is missing.
SessionsMatch == OpenIsLive /\ PresentIsOpen

\* Nothing stored in players.json is taken back: a session that is in it stays
\* there, and one that is closed is not open again, wherever the manager ends.
FileGoesForward ==
    [][ /\ playersFile.closed \subseteq playersFile'.closed
        /\ playersFile.open \cup playersFile.closed
              \subseteq playersFile'.open \cup playersFile'.closed ]_sessionsVars

=============================================================================
