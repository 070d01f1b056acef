--------------------------- MODULE ModRefresh_proofs ---------------------------
(***************************************************************************)
(* Proofs about ModRefresh, for any callers, intervals and number of       *)
(* changes, and without a bound on the time.                               *)
(***************************************************************************)
EXTENDS ModRefresh, TLAPS

CallType == [pc : Points, changed : Nat, read : Int, ok : BOOLEAN]

Types ==
    /\ config \in Nat /\ cache \in Int /\ cache <= config
    /\ refreshing \in BOOLEAN /\ lastError \in BOOLEAN
    /\ call \in [Goroutines -> CallType]

Works(g) == call[g].pc \in {"build", "fetch"}

\* One goroutine at most refreshes, and it is known that one does.
OneWorks ==
    \A g \in Goroutines : Works(g) => refreshing /\ \A h \in Goroutines : Works(h) => h = g

\* What a refresh has read is no older than the cache.
ReadsAreRecent ==
    \A g \in Goroutines : At(g, "fetch") =>
        call[g].read \in Nat /\ call[g].read <= config /\ cache <= call[g].read

\* A change that was made is one of the configuration, and the others made none.
ChangesAreMade ==
    \A g \in Goroutines :
        /\ call[g].changed <= config
        /\ call[g].pc \in {"idle", "first", "timer", "sleep"} => call[g].changed = 0

\* The refresh a goroutine may join, or makes itself, has read its change.
Asks(g) == call[g].pc \in {"enter", "join", "joined", "build", "fetch"}
RefreshHasChange ==
    \A g, h \in Goroutines : Asks(g) /\ At(h, "fetch") => call[h].read >= call[g].changed

\* Who has its result, or is about to take that of the other, is shown its change.
ResultHasChange ==
    \A g \in Goroutines :
        call[g].ok \/ (At(g, "joined") /\ ~lastError) => cache >= call[g].changed

CacheInv ==
    Types /\ OneWorks /\ ReadsAreRecent /\ ChangesAreMade /\ RefreshHasChange /\ ResultHasChange

\* The loop sleeps, or is about to, until the next refresh, or it will be woken.
LoopInv ==
    (At(Loop, "timer") \/ At(Loop, "sleep")) /\ ~wake /\ (\A g \in Goroutines : ~Signals(g))
        => sleeps = next

-----------------------------------------------------------------------------
(* The cache *)

\* What goroutine g may become in a step that leaves the cache alone.
May(g, r) ==
    /\ config' \in Nat /\ config <= config' /\ refreshing' \in BOOLEAN
    /\ (refreshing => refreshing')
    /\ r.pc \in {"build", "fetch"} => refreshing' /\ (Works(g) \/ ~refreshing)
    /\ r.pc = "fetch" => r.read = config /\ r.changed <= config
    /\ r.changed <= config'
    /\ r.pc \in {"idle", "first", "timer", "sleep"} => r.changed = 0
    /\ r.pc \in {"enter", "join"} =>
           ~refreshing \/ r.changed = 0 \/ (Asks(g) /\ r.changed = call[g].changed)
    /\ r.pc # "joined"
    /\ r.ok => cache >= r.changed

\* A step of one goroutine that leaves the cache alone.
LEMMA OneMoves ==
    ASSUME CacheInv, NEW g \in Goroutines, NEW r \in CallType, May(g, r),
           call' = [call EXCEPT ![g] = r], UNCHANGED <<cache, lastError>>
    PROVE  CacheInv' /\ cache' = cache
<1>1. /\ call \in [Goroutines -> CallType] /\ call' \in [Goroutines -> CallType]
      /\ call'[g] = r /\ \A h \in Goroutines \ {g} : call'[h] = call[h]
  BY DEF CacheInv, Types
<1>2. cache \in Int /\ config \in Nat /\ cache <= config
  BY DEF CacheInv, Types
<1>3. /\ \A h \in Goroutines : call[h].changed \in Nat /\ call[h].read \in Int
      /\ r.changed \in Nat /\ r.read \in Int
  BY <1>1 DEF CallType
<1>4. Types'
  BY <1>1, <1>2 DEF CacheInv, Types, May
<1>5. OneWorks'
  BY <1>1 DEF CacheInv, OneWorks, Works, May
<1>6. ReadsAreRecent'
  BY <1>1, <1>2, <1>3 DEF CacheInv, ReadsAreRecent, At, May
<1>7. ChangesAreMade'
  BY <1>1, <1>2, <1>3 DEF CacheInv, ChangesAreMade, May
<1>8. RefreshHasChange'
  <2> SUFFICES ASSUME NEW a \in Goroutines, NEW h \in Goroutines, Asks(a)', At(h, "fetch")'
               PROVE  call'[h].read >= call'[a].changed
    BY DEF RefreshHasChange
  <2>1. CASE a # g /\ h # g
    BY <1>1, <2>1 DEF CacheInv, RefreshHasChange, Asks, At
  <2>2. CASE h = g
    BY <1>1, <1>2, <1>3, <2>2 DEF CacheInv, ChangesAreMade, At, May
  <2>3. CASE a = g /\ h # g
    <3>1. At(h, "fetch") /\ Works(h) /\ refreshing /\ ~Works(g)
      BY <1>1, <2>3 DEF CacheInv, OneWorks, Works, At
    <3>2. r.pc \in {"enter", "join"}
      BY <1>1, <2>3, <3>1 DEF Asks, May
    <3>3. call[h].read \in Nat
      BY <3>1 DEF CacheInv, ReadsAreRecent
    <3>4. Asks(g) => call[h].read >= call[g].changed
      BY <3>1 DEF CacheInv, RefreshHasChange
    <3> QED
      BY <1>1, <2>3, <3>1, <3>2, <3>3, <3>4 DEF May
  <2> QED
    BY <2>1, <2>2, <2>3
<1>9. ResultHasChange'
  BY <1>1 DEF CacheInv, ResultHasChange, At, May
<1> QED
  BY <1>4, <1>5, <1>6, <1>7, <1>8, <1>9 DEF CacheInv

\* The end of a refresh, whatever its result.
LEMMA FinishKeepsCache ==
    ASSUME CacheInv, NEW g \in Goroutines, Finish(g)
    PROVE  CacheInv' /\ cache' >= cache
<1>1. /\ call \in [Goroutines -> CallType] /\ cache \in Int /\ config \in Nat /\ cache <= config
      /\ At(g, "fetch") /\ Works(g) /\ config' = config /\ refreshing' = FALSE
  BY DEF CacheInv, Types, Finish, Works, At, settings
<1>2. \A h \in Goroutines : call[h].changed \in Nat /\ call[h].read \in Int /\ call[h].pc \in Points
                            /\ call[h].ok \in BOOLEAN
  BY <1>1 DEF CallType
<1>3. call[g].read \in Nat /\ call[g].read <= config /\ cache <= call[g].read
  BY <1>1 DEF CacheInv, ReadsAreRecent
<1>4. \A h \in Goroutines \ {g} : ~Works(h)
  BY <1>1 DEF CacheInv, OneWorks
<1>5. /\ lastError' \in BOOLEAN
      /\ cache' \in Int /\ cache' <= config /\ cache' >= cache
      /\ ~lastError' => cache' = call[g].read
      /\ call' = [h \in Goroutines |->
              IF h = g THEN [call[g] EXCEPT !.pc = "signal", !.read = Unready, !.ok = ~lastError']
                       ELSE Released(h)]
  <2>1. PICK result \in {"complete", "partial", "failed"} :
            /\ cache' = IF result = "failed" THEN cache ELSE call[g].read
            /\ lastError' = (result = "failed")
            /\ call' = [h \in Goroutines |->
                   IF h = g THEN [call[g] EXCEPT !.pc = "signal", !.read = Unready,
                                           !.ok = ~lastError']
                            ELSE Released(h)]
    BY Zenon DEF Finish
  <2>2. lastError' \in BOOLEAN /\ cache' = IF lastError' THEN cache ELSE call[g].read
    BY <2>1
  <2>3. cache' \in Int /\ cache' <= config /\ cache' >= cache
    BY <1>1, <1>3, <2>2
  <2> QED
    BY <2>1, <2>2, <2>3
<1>6. /\ call'[g].pc = "signal" /\ call'[g].changed = call[g].changed
      /\ call'[g].ok <=> ~lastError'
      /\ call'[g] \in CallType
  <2>1. call'[g] = [call[g] EXCEPT !.pc = "signal", !.read = Unready, !.ok = ~lastError']
    BY <1>5
  <2>2. call[g] \in CallType /\ Unready \in Int /\ (~lastError') \in BOOLEAN
    BY <1>1 DEF Unready
  <2> QED
    BY <2>1, <2>2 DEF CallType, Points
<1>7. ASSUME NEW h \in Goroutines \ {g}
      PROVE  /\ call'[h].changed = call[h].changed /\ call'[h].ok = call[h].ok
             /\ call'[h].pc = CASE call[h].pc = "join" -> "joined"
                                [] call[h].pc = "wait" -> "enter" [] OTHER -> call[h].pc
             /\ call'[h] \in CallType
  <2>1. call[h] \in CallType
    BY <1>1
  <2>2. call'[h] = [call[h] EXCEPT !.pc = CASE @ = "join" -> "joined" [] @ = "wait" -> "enter"
                                            [] OTHER -> @]
    BY <1>5 DEF Released
  <2> QED
    BY <2>1, <2>2 DEF CallType, Points
<1>8. Types'
  BY <1>1, <1>5, <1>6, <1>7 DEF Types
<1>9. \A h \in Goroutines : ~(Works(h)') /\ ~(At(h, "fetch")')
  BY <1>4, <1>6, <1>7 DEF Works, At
<1>10. ChangesAreMade'
  BY <1>1, <1>2, <1>6, <1>7 DEF CacheInv, ChangesAreMade
<1>11. ResultHasChange'
  <2> SUFFICES ASSUME NEW h \in Goroutines, call'[h].ok \/ (At(h, "joined")' /\ ~lastError')
               PROVE  cache' >= call'[h].changed
    BY DEF ResultHasChange
  <2>1. call'[h].changed = call[h].changed
    BY <1>6, <1>7
  <2>2. CASE ~lastError' /\ Asks(h)
    BY <1>1, <1>5, <2>1, <2>2 DEF CacheInv, RefreshHasChange
  <2>3. CASE call[h].ok
    <3>1. cache >= call[h].changed
      BY <2>3 DEF CacheInv, ResultHasChange
    <3> QED
      BY <1>1, <1>2, <1>5, <2>1, <3>1
  <2>4. CASE h = g
    <3>1. Asks(g) /\ (call'[g].ok => ~lastError')
      BY <1>1, <1>6 DEF Asks, At
    <3>2. call'[g].pc = "signal"
      BY <1>6
    <3> QED
      BY <2>2, <2>4, <3>1, <3>2 DEF At
  <2>5. CASE h # g /\ ~call[h].ok
    BY <1>7, <2>2, <2>5 DEF At, Asks
  <2> QED
    BY <2>3, <2>4, <2>5
<1> QED
  BY <1>5, <1>8, <1>9, <1>10, <1>11 DEF CacheInv, OneWorks, ReadsAreRecent, RefreshHasChange

\* Every other step of a goroutine.
LEMMA StepKeepsCache ==
    ASSUME CacheInv, NEW g \in Goroutines,
           \/ Enter(g) \/ Joined(g) \/ Read(g) \/ Signal(g)
           \/ WantsRefresh(g) \/ ChangesConfiguration(g) \/ AfterChange(g) \/ SetInterval(g)
           \/ Answer(g)
           \/ g = Loop /\ (LoopReads \/ LoopSleeps \/ LoopWakes \/ LoopRefreshes)
    PROVE  CacheInv' /\ cache' = cache
<1> DEFINE c == call[g]
<1>1. /\ call \in [Goroutines -> CallType] /\ c \in CallType
      /\ cache \in Int /\ config \in Nat /\ cache <= config
      /\ refreshing \in BOOLEAN /\ lastError \in BOOLEAN
  BY DEF CacheInv, Types
<1>2. /\ c.pc \in Points /\ c.changed \in Nat /\ c.read \in Int /\ c.ok \in BOOLEAN
      /\ c.changed <= config
      /\ c.pc \in {"idle", "first", "timer", "sleep"} => c.changed = 0
      /\ c.ok => cache >= c.changed
      /\ c.pc = "joined" /\ ~lastError => cache >= c.changed
  BY <1>1 DEF CallType, CacheInv, ChangesAreMade, ResultHasChange, At
<1>3. \A k \in Nat : Call("changed", k) \in CallType
  BY DEF Call, CallType, Points, Unready
<1>4. CASE Enter(g) /\ refreshing
  <2> DEFINE r == [c EXCEPT !.pc = "join"]
  <2>1. /\ call' = [call EXCEPT ![g] = r] /\ c.pc = "enter"
        /\ UNCHANGED <<cache, lastError, config, refreshing>>
    BY <1>1, <1>4 DEF Enter, Go, At, settings, known
  <2>2. r \in CallType /\ r.pc = "join" /\ r.changed = c.changed /\ r.ok = c.ok
    BY <1>1 DEF CallType, Points
  <2> HIDE DEF r
  <2>3. May(g, r)
    BY <1>1, <1>2, <2>1, <2>2 DEF May, Asks
  <2> QED
    BY <2>1, <2>2, <2>3, OneMoves
<1>5. CASE Enter(g) /\ ~refreshing
  <2> DEFINE r == [c EXCEPT !.pc = "build"]
  <2>1. /\ call' = [call EXCEPT ![g] = r] /\ c.pc = "enter" /\ refreshing' = TRUE
        /\ UNCHANGED <<cache, lastError, config>>
    BY <1>1, <1>5 DEF Enter, Begin, Go, At, settings, known
  <2>2. r \in CallType /\ r.pc = "build" /\ r.changed = c.changed /\ r.ok = c.ok
    BY <1>1 DEF CallType, Points
  <2> HIDE DEF r
  <2>3. May(g, r)
    BY <1>1, <1>2, <2>1, <2>2, <1>5 DEF May
  <2> QED
    BY <2>1, <2>2, <2>3, OneMoves
<1>6. CASE Joined(g)
  <2> DEFINE r == [c EXCEPT !.pc = "end", !.ok = cache # Unready /\ ~lastError]
  <2>1. /\ call' = [call EXCEPT ![g] = r] /\ c.pc = "joined"
        /\ UNCHANGED <<cache, lastError, config, refreshing>>
    BY <1>1, <1>6 DEF Joined, At, settings, known
  <2>2. r \in CallType /\ r.pc = "end" /\ r.changed = c.changed /\ (r.ok => ~lastError)
    BY <1>1 DEF CallType, Points
  <2> HIDE DEF r
  <2>3. May(g, r)
    BY <1>1, <1>2, <2>1, <2>2 DEF May
  <2> QED
    BY <2>1, <2>2, <2>3, OneMoves
<1>7. CASE Read(g)
  <2> DEFINE r == [c EXCEPT !.pc = "fetch", !.read = config]
  <2>1. /\ call' = [call EXCEPT ![g] = r] /\ c.pc = "build"
        /\ UNCHANGED <<cache, lastError, config, refreshing>>
    BY <1>1, <1>7 DEF Read, At, settings, known
  <2>2. r \in CallType /\ r.pc = "fetch" /\ r.read = config /\ r.changed = c.changed /\ r.ok = c.ok
    <3>1. c \in CallType /\ config \in Int
      BY <1>1
    <3> QED
      BY <3>1 DEF CallType, Points
  <2>3. Works(g) /\ refreshing
    BY <2>1 DEF Works, CacheInv, OneWorks
  <2> HIDE DEF r
  <2>4. May(g, r)
    BY <1>1, <1>2, <2>1, <2>2, <2>3 DEF May
  <2> QED
    BY <2>1, <2>2, <2>4, OneMoves
<1>8. CASE Signal(g)
  <2> DEFINE r == [c EXCEPT !.pc = (IF c.pc = "first" THEN "enter" ELSE "end")]
  <2>1. /\ call' = [call EXCEPT ![g] = r] /\ c.pc \in {"first", "signal"}
        /\ UNCHANGED <<cache, lastError, config, refreshing>>
    BY <1>1, <1>8 DEF Signal, Signals, Go, At, settings, known
  <2>2. r \in CallType /\ r.pc = (IF c.pc = "first" THEN "enter" ELSE "end")
        /\ r.changed = c.changed /\ r.ok = c.ok
    BY <1>1 DEF CallType, Points
  <2> HIDE DEF r
  <2>3. May(g, r)
    BY <1>1, <1>2, <2>1, <2>2 DEF May
  <2> QED
    BY <2>1, <2>2, <2>3, OneMoves
<1>9. CASE WantsRefresh(g)
  <2> DEFINE r == [c EXCEPT !.pc = "enter"]
  <2>1. /\ call' = [call EXCEPT ![g] = r] /\ c.pc = "idle"
        /\ UNCHANGED <<cache, lastError, config, refreshing>>
    BY <1>1, <1>9 DEF WantsRefresh, Go, At, settings, known
  <2>2. r \in CallType /\ r.pc = "enter" /\ r.changed = c.changed /\ r.ok = c.ok
    BY <1>1 DEF CallType, Points
  <2> HIDE DEF r
  <2>3. May(g, r)
    BY <1>1, <1>2, <2>1, <2>2 DEF May
  <2> QED
    BY <2>1, <2>2, <2>3, OneMoves
<1>10. CASE ChangesConfiguration(g)
  <2> DEFINE r == Call("changed", config')
  <2>1. /\ call' = [call EXCEPT ![g] = r] /\ config' = config + 1
        /\ UNCHANGED <<cache, lastError, refreshing>>
    BY <1>1, <1>10 DEF ChangesConfiguration, known
  <2>2. r \in CallType /\ r.pc = "changed" /\ r.changed = config' /\ ~r.ok
    BY <1>1, <1>3, <2>1 DEF Call
  <2> HIDE DEF r
  <2>3. May(g, r)
    BY <1>1, <2>1, <2>2 DEF May
  <2> QED
    BY <2>1, <2>2, <2>3, OneMoves
<1>11. CASE AfterChange(g)
  <2> DEFINE r == [c EXCEPT !.pc = (IF refreshing THEN "wait" ELSE "enter")]
  <2>1. /\ call' = [call EXCEPT ![g] = r] /\ c.pc = "changed"
        /\ UNCHANGED <<cache, lastError, config, refreshing>>
    BY <1>1, <1>11 DEF AfterChange, Go, At, settings, known
  <2>2. r \in CallType /\ r.pc = (IF refreshing THEN "wait" ELSE "enter")
        /\ r.changed = c.changed /\ r.ok = c.ok
    BY <1>1 DEF CallType, Points
  <2> HIDE DEF r
  <2>3. May(g, r)
    BY <1>1, <1>2, <2>1, <2>2 DEF May
  <2> QED
    BY <2>1, <2>2, <2>3, OneMoves
<1>12. CASE SetInterval(g)
  <2> DEFINE r == [c EXCEPT !.pc = (IF cache = Unready THEN "first" ELSE "signal")]
  <2>1. /\ call' = [call EXCEPT ![g] = r] /\ c.pc = "idle"
        /\ UNCHANGED <<cache, lastError, config, refreshing>>
    BY <1>1, <1>12 DEF SetInterval, Go, At
  <2>2. r \in CallType /\ r.pc = (IF cache = Unready THEN "first" ELSE "signal")
        /\ r.changed = c.changed /\ r.ok = c.ok
    BY <1>1 DEF CallType, Points
  <2> HIDE DEF r
  <2>3. May(g, r)
    BY <1>1, <1>2, <2>1, <2>2 DEF May
  <2> QED
    BY <2>1, <2>2, <2>3, OneMoves
<1>13. CASE Answer(g) \/ (LoopReads /\ g = Loop)
  <2>1. PICK r \in {Call("idle", 0), Call("timer", 0)} : call' = [call EXCEPT ![g] = r]
    <3>1. CASE Answer(g)
      BY <3>1 DEF Answer, Idle
    <3>2. CASE LoopReads /\ g = Loop
      BY <3>2 DEF LoopReads
    <3> QED
      BY <1>13, <3>1, <3>2
  <2>2. UNCHANGED <<cache, lastError, config, refreshing>>
    BY <1>13 DEF Answer, LoopReads, settings, known
  <2>3. r \in CallType /\ r.pc \in {"idle", "timer"} /\ r.changed = 0 /\ ~r.ok
    <3>1. \A pc \in {"idle", "timer"} : /\ Call(pc, 0) \in CallType /\ Call(pc, 0).pc = pc
                                         /\ Call(pc, 0).changed = 0 /\ ~Call(pc, 0).ok
      BY DEF Call, CallType, Points, Unready
    <3> QED
      BY <3>1
  <2>4. May(g, r)
    BY <1>1, <2>2, <2>3 DEF May
  <2> QED
    BY <2>1, <2>2, <2>3, <2>4, OneMoves
<1>14. CASE g = Loop /\ (LoopSleeps \/ LoopWakes \/ LoopRefreshes)
  <2>1. PICK pc \in {"sleep", "end", "enter"} : call' = [call EXCEPT ![g] = [c EXCEPT !.pc = pc]]
    BY <1>1, <1>14 DEF LoopSleeps, LoopWakes, LoopRefreshes, Go
  <2> DEFINE r == [c EXCEPT !.pc = pc]
  <2>2. UNCHANGED <<cache, lastError, config, refreshing>> /\ c.pc \in {"timer", "sleep"}
    BY <1>14 DEF LoopSleeps, LoopWakes, LoopRefreshes, At, settings, known
  <2>3. r \in CallType /\ r.pc = pc /\ r.changed = c.changed /\ r.ok = c.ok
    BY <1>1 DEF CallType, Points
  <2>4. call' = [call EXCEPT ![g] = r]
    BY <2>1
  <2> HIDE DEF r
  <2>5. May(g, r)
    BY <1>1, <1>2, <2>2, <2>3 DEF May
  <2> QED
    BY <2>2, <2>3, <2>4, <2>5, OneMoves
<1> QED
  BY <1>4, <1>5, <1>6, <1>7, <1>8, <1>9, <1>10, <1>11, <1>12, <1>13, <1>14

\* What the cache and the calls depend on has not changed.
LEMMA StutterKeepsCache ==
    ASSUME CacheInv, UNCHANGED <<config, cache, refreshing, lastError, call>>
    PROVE  CacheInv'
BY DEF CacheInv, Types, OneWorks, Works, ReadsAreRecent, ChangesAreMade, RefreshHasChange,
       ResultHasChange, Asks, At

LEMMA NextKeepsCache ==
    ASSUME CacheInv, [RefreshNext]_refreshVars
    PROVE  CacheInv' /\ cache' >= cache
<1>1. cache \in Int
  BY DEF CacheInv, Types
<1>2. CASE RefreshStep \/ CallerStep
  <2>1. PICK g \in Goroutines :
            \/ Finish(g) \/ Enter(g) \/ Joined(g) \/ Read(g) \/ Signal(g)
            \/ WantsRefresh(g) \/ ChangesConfiguration(g) \/ AfterChange(g) \/ SetInterval(g)
            \/ Answer(g)
    BY <1>2 DEF RefreshStep, CallerStep, Goroutines
  <2> QED
    BY <1>1, <2>1, FinishKeepsCache, StepKeepsCache
<1>3. CASE LoopStep
  <2>1. Loop \in Goroutines
    BY DEF Goroutines
  <2> QED
    BY <1>1, <1>3, <2>1, StepKeepsCache DEF LoopStep
<1>4. CASE Tick \/ UNCHANGED refreshVars
  <2>1. UNCHANGED <<config, cache, refreshing, lastError, call>>
    BY <1>4 DEF Tick, refreshVars, settings, known
  <2> QED
    BY <1>1, <2>1, StutterKeepsCache
<1> QED
  BY <1>2, <1>3, <1>4 DEF RefreshNext

LEMMA InitCache == RefreshInit => CacheInv
<1> SUFFICES ASSUME RefreshInit
             PROVE  CacheInv
  OBVIOUS
<1>1. \A g \in Goroutines : /\ call[g] \in CallType /\ call[g].pc \in {"idle", "enter"}
                            /\ call[g].changed = 0 /\ ~call[g].ok
  <2>1. \A g \in Goroutines : call[g] = Call("idle", 0) \/ call[g] = Call("enter", 0)
    BY DEF RefreshInit, Idle, Call
  <2>2. \A pc \in {"idle", "enter"} : /\ Call(pc, 0) \in CallType /\ Call(pc, 0).pc = pc
                                       /\ Call(pc, 0).changed = 0 /\ ~Call(pc, 0).ok
    BY DEF Call, CallType, Points, Unready
  <2> QED
    BY <2>1, <2>2
<1>2. Types
  <2>1. call = [g \in Goroutines |-> call[g]]
    BY DEF RefreshInit
  <2>2. call \in [Goroutines -> CallType]
    BY <1>1, <2>1
  <2>3. config = 0 /\ cache = -1 /\ refreshing = FALSE /\ lastError = FALSE
    BY DEF RefreshInit, Unready
  <2>4. config \in Nat /\ cache \in Int /\ cache <= config
    BY <2>3
  <2> QED
    BY <2>2, <2>3, <2>4 DEF Types
<1>3. OneWorks /\ ReadsAreRecent /\ RefreshHasChange
  BY <1>1 DEF OneWorks, Works, ReadsAreRecent, RefreshHasChange, At
<1>4. ChangesAreMade /\ ResultHasChange
  BY <1>1, <1>2 DEF Types, ChangesAreMade, ResultHasChange, At
<1> QED
  BY <1>2, <1>3, <1>4 DEF CacheInv

LEMMA CacheInvariance == RefreshSpec => []CacheInv
<1>1. CacheInv /\ [RefreshNext]_refreshVars => CacheInv'
  BY NextKeepsCache
<1> QED
  BY <1>1, InitCache, PTL DEF RefreshSpec

-----------------------------------------------------------------------------
(* The loop *)

\* The loop reads when it must refresh next, or no longer sleeps, or the next
\* refresh stays and no signal is lost, or someone is about to signal.
LEMMA LoopIsWoken ==
    ASSUME LoopInv, CacheInv,
           \/ ~(At(Loop, "timer") \/ At(Loop, "sleep"))'
           \/ sleeps' = next'
           \/ wake'
           \/ \E g \in Goroutines : Signals(g)'
           \/ /\ UNCHANGED <<sleeps, next, wake>>
              /\ At(Loop, "timer") \/ At(Loop, "sleep")
              /\ \A g \in Goroutines : Signals(g) => Signals(g)'
    PROVE  LoopInv'
BY DEF LoopInv

\* A goroutine that is not about to signal moves.
LEMMA OneMovesInLoop ==
    ASSUME LoopInv, CacheInv, NEW g \in Goroutines, ~Signals(g),
           \A h \in Goroutines \ {g} : call'[h] = call[h],
           UNCHANGED <<sleeps, next, wake>>,
           call'[g].pc \in {"timer", "sleep"} => call[g].pc \in {"timer", "sleep"}
    PROVE  LoopInv'
<1>1. \A h \in Goroutines : Signals(h) => Signals(h)'
  BY DEF Signals
<1>2. Loop \in Goroutines
  BY DEF Goroutines
<1>3. At(Loop, "timer")' \/ At(Loop, "sleep")' => At(Loop, "timer") \/ At(Loop, "sleep")
  BY <1>2 DEF At
<1> QED
  BY <1>1, <1>3, LoopIsWoken

LEMMA NextKeepsLoop ==
    ASSUME LoopInv, CacheInv, [RefreshNext]_refreshVars
    PROVE  LoopInv'
<1>1. Loop \in Goroutines /\ call \in [Goroutines -> CallType]
  BY DEF Goroutines, CacheInv, Types
<1>2. ASSUME NEW g \in Goroutines, Finish(g)
      PROVE  LoopInv'
  <2>1. call'[g].pc = "signal"
    <3>1. call'[g] = [call[g] EXCEPT !.pc = "signal", !.read = Unready, !.ok = ~lastError']
      BY <1>2 DEF Finish
    <3>2. call[g] \in CallType
      BY <1>1
    <3> QED
      BY <3>1, <3>2 DEF CallType
  <2> QED
    BY <2>1, LoopIsWoken DEF Signals
<1>3. ASSUME NEW g \in Goroutines, Signal(g)
      PROVE  LoopInv'
  BY <1>3, LoopIsWoken DEF Signal
<1>4. ASSUME NEW g \in Goroutines,
             \/ Enter(g) \/ Joined(g) \/ Read(g)
             \/ WantsRefresh(g) \/ ChangesConfiguration(g) \/ AfterChange(g) \/ Answer(g)
      PROVE  LoopInv'
  <2>1. ~Signals(g) /\ UNCHANGED <<sleeps, next, wake>>
    BY <1>4 DEF Enter, Joined, Read, WantsRefresh, ChangesConfiguration, AfterChange, Answer,
                At, Signals, known
  <2>2. call[g] \in CallType
    BY <1>1
  <2>3. PICK r : call' = [call EXCEPT ![g] = r] /\ r.pc \notin {"timer", "sleep"}
    <3>1. CASE Enter(g) \/ WantsRefresh(g) \/ AfterChange(g)
      <4>1. PICK pc \in {"join", "build", "enter", "wait"} :
                call' = [call EXCEPT ![g] = [call[g] EXCEPT !.pc = pc]]
        BY <3>1 DEF Enter, Begin, WantsRefresh, AfterChange, Go
      <4>2. [call[g] EXCEPT !.pc = pc].pc = pc
        BY <2>2 DEF CallType
      <4> QED
        BY <4>1, <4>2
    <3>2. CASE Joined(g)
      <4> DEFINE r == [call[g] EXCEPT !.pc = "end", !.ok = cache # Unready /\ ~lastError]
      <4>1. call' = [call EXCEPT ![g] = r]
        BY <3>2 DEF Joined
      <4>2. r.pc = "end"
        BY <2>2 DEF CallType
      <4> QED
        BY <4>1, <4>2
    <3>3. CASE Read(g)
      <4> DEFINE r == [call[g] EXCEPT !.pc = "fetch", !.read = config]
      <4>1. call' = [call EXCEPT ![g] = r]
        BY <3>3 DEF Read
      <4>2. r.pc = "fetch"
        BY <2>2 DEF CallType
      <4> QED
        BY <4>1, <4>2
    <3>4. CASE ChangesConfiguration(g) \/ Answer(g)
      <4>1. call' = [call EXCEPT ![g] = Call("changed", config')]
            \/ call' = [call EXCEPT ![g] = Call("idle", 0)]
        BY <3>4 DEF ChangesConfiguration, Answer, Idle
      <4>2. Call("changed", config').pc = "changed" /\ Call("idle", 0).pc = "idle"
        BY DEF Call
      <4> QED
        BY <4>1, <4>2
    <3> QED
      BY <1>4, <3>1, <3>2, <3>3, <3>4
  <2>4. call'[g] = r /\ \A h \in Goroutines \ {g} : call'[h] = call[h]
    BY <1>1, <2>3
  <2> QED
    BY <2>1, <2>3, <2>4, OneMovesInLoop
<1>5. ASSUME NEW g \in Goroutines, SetInterval(g)
      PROVE  LoopInv'
  <2>1. PICK pc \in {"first", "signal"} : call' = [call EXCEPT ![g].pc = pc]
    BY <1>5 DEF SetInterval, Go
  <2>2. call[g] \in CallType
    BY <1>1
  <2>3. call'[g].pc = pc
    BY <1>1, <2>1, <2>2 DEF CallType
  <2> QED
    BY <2>3, LoopIsWoken DEF Signals
<1>6. CASE LoopReads
  <2>1. sleeps' = next'
    BY <1>6 DEF LoopReads, known
  <2> QED
    BY <2>1, LoopIsWoken
<1>7. ASSUME LoopSleeps \/ LoopWakes \/ LoopRefreshes
      PROVE  LoopInv'
  <2>1. PICK pc \in {"sleep", "end", "enter"} : call' = [call EXCEPT ![Loop].pc = pc]
    BY <1>7 DEF LoopSleeps, LoopWakes, LoopRefreshes, Go
  <2>2. call[Loop] \in CallType
    BY <1>1
  <2>3. call'[Loop].pc = pc /\ \A h \in Goroutines \ {Loop} : call'[h] = call[h]
    BY <1>1, <2>1, <2>2 DEF CallType
  <2>4. CASE pc # "sleep"
    BY <2>3, <2>4, LoopIsWoken DEF At
  <2>5. CASE pc = "sleep"
    <3>1. LoopSleeps
      <4>1. LoopWakes \/ LoopRefreshes => call'[Loop].pc \in {"end", "enter"}
        BY <1>1, <2>2 DEF LoopWakes, LoopRefreshes, Go, CallType
      <4> QED
        BY <1>7, <2>3, <2>5, <4>1
    <3>2. call[Loop].pc = "timer" /\ UNCHANGED <<sleeps, next, wake>>
      BY <3>1 DEF LoopSleeps, At, known
    <3> QED
      BY <1>1, <2>3, <3>2, OneMovesInLoop DEF Signals
  <2> QED
    BY <2>4, <2>5
<1>8. CASE Tick \/ UNCHANGED refreshVars
  <2>1. UNCHANGED <<sleeps, next, wake, call>>
    BY <1>8 DEF Tick, refreshVars, known
  <2> QED
    BY <2>1 DEF LoopInv, At, Signals
<1>9. CASE RefreshStep \/ CallerStep
  <2>1. PICK g \in Goroutines :
            \/ Finish(g) \/ Enter(g) \/ Joined(g) \/ Read(g) \/ Signal(g)
            \/ WantsRefresh(g) \/ ChangesConfiguration(g) \/ AfterChange(g) \/ SetInterval(g)
            \/ Answer(g)
    BY <1>9 DEF RefreshStep, CallerStep, Goroutines
  <2> QED
    BY <2>1, <1>2, <1>3, <1>4, <1>5
<1> QED
  BY <1>6, <1>7, <1>8, <1>9 DEF RefreshNext, LoopStep

LEMMA InitLoop == RefreshInit => LoopInv
<1> SUFFICES ASSUME RefreshInit
             PROVE  LoopInv
  OBVIOUS
<1>1. sleeps = next
  BY DEF RefreshInit
<1> QED
  BY <1>1 DEF LoopInv

-----------------------------------------------------------------------------
(* The theorems *)

\* Who has changed the configured mods is shown them, or an error: however many
\* requests change the configuration and refresh at once, a refresh that began
\* before a change is not taken for one of it
\* (refreshModCacheAfterConfigurationChange).
THEOREM ChangesAreShown == RefreshSpec => []ChangeIsShown
<1>1. CacheInv => ChangeIsShown
  BY DEF CacheInv, ResultHasChange, ChangeIsShown, Goroutines
<1> QED
  BY <1>1, CacheInvariance, PTL

\* No refresh replaces the result of one that read the configuration later
\* (refreshModCacheInternal).
THEOREM NoOlderResult == RefreshSpec => CacheGoesForward
<1>1. CacheInv /\ [RefreshNext]_refreshVars => [cache' >= cache]_cache
  BY NextKeepsCache
<1> QED
  BY <1>1, CacheInvariance, PTL DEF RefreshSpec, CacheGoesForward

\* The loop never sleeps past the next refresh with no signal to come, wherever
\* a change of that time falls between its reading it and its sleeping
\* (modRefreshLoop, signalModRefreshLoop).
THEOREM LoopNeverOversleeps == RefreshSpec => []NothingIsOverslept
<1>1. LoopInv => NothingIsOverslept
  BY DEF LoopInv, NothingIsOverslept
<1>2. CacheInv /\ LoopInv /\ [RefreshNext]_refreshVars => LoopInv'
  BY NextKeepsLoop
<1> QED
  BY <1>1, <1>2, InitLoop, CacheInvariance, PTL DEF RefreshSpec

=============================================================================
