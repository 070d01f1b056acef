------------------------------ MODULE ModRefresh ------------------------------
(***************************************************************************)
(* The cache of mod metadata (modrefresh.go).  One refresh runs at a time: *)
(* it reads the configured mods, asks mod.io and replaces the cache; who   *)
(* wants one meanwhile waits for it.  Who has changed the configuration    *)
(* waits for the refresh in progress and then wants one of its own.  A     *)
(* loop refreshes when the next refresh is due and is woken when that time *)
(* changes.  What a refresh detects is the subject of RestartPlans.        *)
(*                                                                         *)
(* Bounds: MaxChanges changes of the configuration, MaxTime.               *)
(***************************************************************************)
EXTENDS Integers

CONSTANTS
    Callers,        \* the goroutines of HTTP requests
    Loop,           \* the goroutine of modRefreshLoop, none of Callers
    Intervals,      \* settings of the refresh interval
    Retry,          \* maximumModRefreshRetry
    MaxChanges, MaxTime

VARIABLES
    now,
    config,     \* the number of changes of the configuration
    interval,   \* modRefreshSettings.IntervalMinutes
    cache,      \* the configuration modCache is made from, or Unready
    refreshing, \* modRefreshing
    lastError,  \* modLastError is of a refresh that had no result
    success,    \* modLastSuccess, or Never
    next,       \* modNextRefresh
    wake,       \* the token of modRefreshWake
    call,       \* [Callers \cup {Loop} -> what the goroutine does]
    sleeps      \* what the loop sleeps until

settings == <<config, interval>>
known == <<cache, lastError, success, next>>
refreshVars == <<now, settings, known, refreshing, wake, sleeps, call>>

Goroutines == Callers \cup {Loop}
Unready == -1
Never == -1
Versions == 0 .. MaxChanges

Smaller(x, y) == IF x < y THEN x ELSE y
Larger(x, y) == IF x < y THEN y ELSE x

\* A goroutine: its point, the change it has made, the configuration its refresh
\* has read, and whether it got a result without an error.
Call(pc, changed) == [pc |-> pc, changed |-> changed, read |-> Unready, ok |-> FALSE]
Idle == Call("idle", 0)
At(g, pc) == call[g].pc = pc
Go(g, pc) == call' = [call EXCEPT ![g].pc = pc]

\* The goroutine is about to signal the loop, and then to refresh if "first".
Signals(g) == call[g].pc \in {"signal", "first"}

-----------------------------------------------------------------------------
(* refreshModCacheInternal *)

Begin(g) ==
    /\ refreshing' = TRUE
    /\ Go(g, "build")

\* Mutant: a goroutine begins a refresh although one is in progress.
EnterAlways(g) ==
    /\ At(g, "enter")
    /\ Begin(g)
    /\ UNCHANGED <<now, settings, known, wake, sleeps>>

\* The refresh in progress is joined.
Enter(g) ==
    /\ At(g, "enter")
    /\ IF refreshing
       THEN Go(g, "join") /\ UNCHANGED refreshing
       ELSE Begin(g)
    /\ UNCHANGED <<now, settings, known, wake, sleeps>>

\* A refresh that was joined has ended; the cached view names the last error.
Joined(g) ==
    /\ At(g, "joined")
    /\ call' = [call EXCEPT ![g].pc = "end", ![g].ok = cache # Unready /\ ~lastError]
    /\ UNCHANGED <<now, settings, known, refreshing, wake, sleeps>>

\* modManagementView reads the configuration, then asks mod.io.
Read(g) ==
    /\ At(g, "build")
    /\ call' = [call EXCEPT ![g].pc = "fetch", ![g].read = config]
    /\ UNCHANGED <<now, settings, known, refreshing, wake, sleeps>>

\* The end of a refresh closes modRefreshDone.
Released(h) ==
    [call[h] EXCEPT !.pc = CASE @ = "join" -> "joined" [] @ = "wait" -> "enter" [] OTHER -> @]

RetryDelay == Larger(Smaller(interval, Retry), 1)

\* All is known; or an answer of mod.io is missing; or nothing could be read.
Finish(g) ==
    /\ At(g, "fetch")
    /\ \E result \in {"complete", "partial", "failed"} :
           /\ cache' = IF result = "failed" THEN cache ELSE call[g].read
           /\ success' = IF result = "complete" THEN now ELSE success
           /\ next' = now + IF result = "complete" THEN interval ELSE RetryDelay
           /\ lastError' = (result = "failed")
           /\ call' = [h \in Goroutines |->
                  IF h = g THEN [call[g] EXCEPT !.pc = "signal", !.read = Unready,
                                          !.ok = ~lastError']
                           ELSE Released(h)]
    /\ refreshing' = FALSE
    /\ UNCHANGED <<now, settings, wake, sleeps>>

\* Mutant: a signal reaches a loop that sleeps, and no other.
SignalSleeper(g) ==
    /\ Signals(g)
    /\ wake' = (wake \/ At(Loop, "sleep"))
    /\ Go(g, IF At(g, "first") THEN "enter" ELSE "end")
    /\ UNCHANGED <<now, settings, known, refreshing, sleeps>>

\* signalModRefreshLoop: the channel holds one token.
Signal(g) ==
    /\ Signals(g)
    /\ wake' = TRUE
    /\ Go(g, IF At(g, "first") THEN "enter" ELSE "end")
    /\ UNCHANGED <<now, settings, known, refreshing, sleeps>>

-----------------------------------------------------------------------------
(* HTTP requests *)

\* modRefreshHandler; and cachedModManagementView while there is no cache.
WantsRefresh(c) ==
    /\ At(c, "idle")
    /\ Go(c, "enter")
    /\ UNCHANGED <<now, settings, known, refreshing, wake, sleeps>>

ChangesConfiguration(c) ==
    /\ At(c, "idle") /\ config < MaxChanges
    /\ config' = config + 1
    /\ call' = [call EXCEPT ![c] = Call("changed", config')]
    /\ UNCHANGED <<now, interval, known, refreshing, wake, sleeps>>

\* Mutant: the refresh in progress is taken for one of the new configuration.
AfterChangeJoins(c) ==
    /\ At(c, "changed")
    /\ Go(c, "enter")
    /\ UNCHANGED <<now, settings, known, refreshing, wake, sleeps>>

\* refreshModCacheAfterConfigurationChange
AfterChange(c) ==
    /\ At(c, "changed")
    /\ Go(c, IF refreshing THEN "wait" ELSE "enter")
    /\ UNCHANGED <<now, settings, known, refreshing, wake, sleeps>>

\* nextRefreshForInterval
NextFor(minutes) == IF success = Never THEN now ELSE Larger(now, success + minutes)

\* setModRefreshSettingsWithPolicy, as far as the refresh is concerned.
SetInterval(c) ==
    /\ At(c, "idle")
    /\ \E minutes \in Intervals :
           interval' = minutes /\ next' = NextFor(minutes)
    /\ Go(c, IF cache = Unready THEN "first" ELSE "signal")
    /\ UNCHANGED <<now, config, cache, lastError, success, refreshing, wake, sleeps>>

Answer(c) ==
    /\ At(c, "end")
    /\ call' = [call EXCEPT ![c] = Idle]
    /\ UNCHANGED <<now, settings, known, refreshing, wake, sleeps>>

-----------------------------------------------------------------------------
(* modRefreshLoop *)

\* The loop has refreshed, or was woken: it reads when it must refresh next,
\* sets its timer and waits.
LoopReads ==
    /\ At(Loop, "end")
    /\ sleeps' = next
    /\ call' = [call EXCEPT ![Loop] = Call("timer", 0)]
    /\ UNCHANGED <<now, settings, known, refreshing, wake>>

LoopSleeps ==
    /\ At(Loop, "timer")
    /\ Go(Loop, "sleep")
    /\ UNCHANGED <<now, settings, known, refreshing, wake, sleeps>>

LoopWakes ==
    /\ At(Loop, "sleep") /\ wake
    /\ wake' = FALSE
    /\ Go(Loop, "end")
    /\ UNCHANGED <<now, settings, known, refreshing, sleeps>>

LoopRefreshes ==
    /\ At(Loop, "sleep") /\ now >= sleeps
    /\ Go(Loop, "enter")
    /\ UNCHANGED <<now, settings, known, refreshing, wake, sleeps>>

Tick ==
    /\ now < MaxTime /\ now' = now + 1
    /\ UNCHANGED <<settings, known, refreshing, wake, sleeps, call>>

-----------------------------------------------------------------------------

RefreshInit ==
    /\ now = 0 /\ config = 0 /\ interval \in Intervals
    /\ cache = Unready /\ success = Never /\ next = 0
    /\ refreshing = FALSE /\ lastError = FALSE
    /\ wake = FALSE /\ sleeps = 0
    /\ call = [g \in Goroutines |-> IF g = Loop THEN [Idle EXCEPT !.pc = "enter"] ELSE Idle]

RefreshStep == \E g \in Goroutines : Enter(g) \/ Joined(g) \/ Read(g) \/ Finish(g) \/ Signal(g)
CallerStep ==
    \E c \in Callers :
        \/ WantsRefresh(c) \/ ChangesConfiguration(c) \/ AfterChange(c)
        \/ SetInterval(c) \/ Answer(c)
LoopStep == LoopReads \/ LoopSleeps \/ LoopWakes \/ LoopRefreshes

RefreshNext == RefreshStep \/ CallerStep \/ LoopStep \/ Tick

RefreshSpec == RefreshInit /\ [][RefreshNext]_refreshVars

-----------------------------------------------------------------------------
(* Properties *)

Points ==
    {"idle", "changed", "wait", "enter", "join", "joined", "build", "fetch", "first",
     "signal", "end", "timer", "sleep"}

\* Every variable has its type, and a refresh in progress has one goroutine.
RefreshTypeOK ==
    /\ now \in 0 .. MaxTime /\ config \in Versions /\ interval \in Intervals
    /\ cache \in Versions \cup {Unready} /\ refreshing \in BOOLEAN
    /\ wake \in BOOLEAN /\ lastError \in BOOLEAN
    /\ \A g \in Goroutines : call[g].pc \in Points /\ call[g].changed \in Versions
                            /\ call[g].read \in Versions \cup {Unready}
    /\ \A g, h \in Goroutines :
           call[g].pc \in {"build", "fetch"} /\ call[h].pc \in {"build", "fetch"} => g = h

\* Who has changed the configured mods is not answered with what was known
\* before: a refresh that began before the change is not taken for one of it.
ChangeIsShown ==
    \A c \in Callers : At(c, "end") /\ call[c].ok => cache >= call[c].changed

\* A refresh that began earlier never replaces the result of a later one.
CacheGoesForward == [][cache' >= cache]_cache

\* The loop does not sleep past the next refresh: whenever that time changes
\* while the loop sleeps, or is about to, there is a token or a signal to come.
NothingIsOverslept ==
    At(Loop, "sleep") /\ ~wake /\ (\A g \in Goroutines : ~Signals(g))
        => sleeps = next

=============================================================================
