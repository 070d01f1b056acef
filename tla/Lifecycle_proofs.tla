-------------------------- MODULE Lifecycle_proofs --------------------------
(***************************************************************************)
(* Proofs about Lifecycle, for every choice of slots, commands, limits and *)
(* delays that its assumptions admit.                                      *)
(***************************************************************************)
EXTENDS Lifecycle, SequenceTheorems, WellFoundedInduction, TLAPS

-----------------------------------------------------------------------------
(* The sequences of ages *)

\* A list of times in order, seen as ages: they never increase.
Ordered(ages) == \A i, j \in 1 .. Len(ages) : i < j => ages[i] >= ages[j]

\* A set of natural numbers that is not empty has a least element.
LEMMA LeastNatural ==
    ASSUME NEW S \in SUBSET Nat, S # {}
    PROVE  \E n \in S : \A m \in S : n <= m
<1> DEFINE less == {ss \in Nat \X Nat : ss[1] < ss[2]}
<1>1. IsWellFoundedOn(less, Nat)
  BY NatLessThanWellFounded DEF OpToRel
<1> HIDE DEF less
<1>2. PICK n \in S : \A m \in S : ~ (<<m, n>> \in less)
  BY <1>1, WFMin
<1>3. \A m \in S : n <= m
  <2> TAKE m \in S
  <2>1. m \in Nat /\ n \in Nat
    OBVIOUS
  <2>2. ~ (m < n)
    BY <1>2, <2>1 DEF less
  <2> QED
    BY <2>1, <2>2
<1> QED
  BY <1>3

\* pruneRecoveryAttempts cuts a list at one of its prune points.
LEMMA PrunePoint ==
    ASSUME NEW ages \in Seq(Nat), NEW window \in Nat
    PROVE  Min(PrunePoints(ages, window)) \in 0 .. Len(ages)
<1> DEFINE P == PrunePoints(ages, window)
<1>1. P \in SUBSET Nat /\ P # {} /\ P \subseteq 0 .. Len(ages)
  BY DEF PrunePoints
<1> HIDE DEF P
<1>2. \E n \in P : \A m \in P : n <= m
  BY <1>1, LeastNatural
<1>3. Min(P) \in P
  BY <1>2 DEF Min
<1> QED
  BY <1>1, <1>3 DEF P

\* What is kept of the attempts is a list of attempts, in order if they were.
LEMMA PruneKeepsOrder ==
    ASSUME NEW ages \in Seq(Nat), NEW window \in Nat
    PROVE  /\ pruneRecoveryAttempts(ages, window) \in Seq(Nat)
           /\ Ordered(ages) => Ordered(pruneRecoveryAttempts(ages, window))
<1> DEFINE k == Min(PrunePoints(ages, window))
           kept == pruneRecoveryAttempts(ages, window)
<1>1. k \in 0 .. Len(ages)
  BY PrunePoint
<1>2. kept = SubSeq(ages, k + 1, Len(ages))
  BY DEF pruneRecoveryAttempts
<1> HIDE DEF k, kept
<1>3. /\ SubSeq(ages, k + 1, Len(ages)) \in Seq(Nat)
      /\ Len(SubSeq(ages, k + 1, Len(ages))) = Len(ages) - k
      /\ \A i \in 1 .. Len(ages) - k : SubSeq(ages, k + 1, Len(ages))[i] = ages[k + i]
  <2>1. \A i \in k + 1 .. Len(ages) : ages[i] \in Nat
    BY <1>1
  <2>2. k + 1 \in Int /\ Len(ages) \in Int /\ k \in Int
    BY <1>1
  <2>3. /\ SubSeq(ages, k + 1, Len(ages)) \in Seq(Nat)
        /\ Len(SubSeq(ages, k + 1, Len(ages))) =
             IF k + 1 <= Len(ages) THEN Len(ages) - (k + 1) + 1 ELSE 0
        /\ \A i \in 1 .. Len(ages) - (k + 1) + 1 :
             SubSeq(ages, k + 1, Len(ages))[i] = ages[k + 1 + i - 1]
    BY <2>1, <2>2, SubSeqProperties
  <2>4. Len(ages) - (k + 1) + 1 = Len(ages) - k
    BY <2>2
  <2>5. \A i \in 1 .. Len(ages) - k : k + 1 + i - 1 = k + i
    BY <2>2
  <2>6. Len(SubSeq(ages, k + 1, Len(ages))) = Len(ages) - k
    <3>1. (IF k + 1 <= Len(ages) THEN Len(ages) - (k + 1) + 1 ELSE 0) = Len(ages) - k
      BY <1>1, <2>2
    <3> QED
      BY <2>3, <3>1
  <2>7. \A i \in 1 .. Len(ages) - k : SubSeq(ages, k + 1, Len(ages))[i] = ages[k + i]
    BY <2>3, <2>4, <2>5
  <2> QED
    BY <2>3, <2>6, <2>7
<1>4. ASSUME Ordered(ages)
      PROVE  Ordered(kept)
  BY <1>1, <1>2, <1>3, <1>4 DEF Ordered
<1> QED
  BY <1>2, <1>3, <1>4 DEF kept

\* Time passes for all ages alike.
LEMMA OlderKeepsOrder ==
    ASSUME NEW ages \in Seq(Nat)
    PROVE  /\ Older(ages) \in Seq(Nat)
           /\ Ordered(ages) => Ordered(Older(ages))
<1>1. MaxAge \in Nat
  BY WindowAssumption
<1>2. Older(ages) \in [1 .. Len(ages) -> Nat]
  BY <1>1 DEF Older
<1>3. Older(ages) \in Seq(Nat) /\ Len(Older(ages)) = Len(ages)
  BY <1>2
<1> QED
  BY <1>1, <1>2, <1>3 DEF Ordered, Older

-----------------------------------------------------------------------------
(* Type correctness *)

\* The parts of TypeOK, by the variables the actions change together.
ScriptTypes ==
    /\ script \in [Slots -> [cmd : Commands \cup {"none"}, pc : ScriptSteps]]
    /\ lock \in Slots \cup LockUsers \cup {"watchdog", "free"}
    /\ orphans \subseteq Externals
ServerTypes == desired \in {"running", "stopped"} /\ up \in Nat /\ starting \in Nat
OpTypes ==
    /\ op \in Operations /\ opDisk \in Operations
    /\ request \in HttpActions \cup {"none"}
WatchdogTypes == wd \in [pc : WatchdogSteps, alive : BOOLEAN, wanted : BOOLEAN]
RecTypes == rec \in RecoveryStates /\ recDisk \in RecoveryStates
BudgetTypes ==
    settings \in SettingsValues /\ retry \in BOOLEAN /\ launches \in Seq(Nat)
WebTypes == web \in {"up", "down"}

LEMMA TypeParts ==
    TypeOK <=> /\ ScriptTypes /\ ServerTypes /\ OpTypes /\ WatchdogTypes
               /\ RecTypes /\ BudgetTypes /\ WebTypes
BY DEF TypeOK, ScriptTypes, ServerTypes, OpTypes, WatchdogTypes, RecTypes,
       BudgetTypes, WebTypes

\* What the script's own moves do to its types.
LEMMA MoveTypes ==
    ASSUME ScriptTypes, NEW s \in Slots
    PROVE  /\ Exit(s) => ScriptTypes'
           /\ \A step \in ScriptSteps : Go(s, step) => ScriptTypes'
           /\ LaunchFails(s) => ScriptTypes'
<1>1. Exit(s) => ScriptTypes'
  BY DEF ScriptTypes, Exit, IdleScript, ScriptSteps, Slots
<1>2. \A step \in ScriptSteps : Go(s, step) => ScriptTypes'
  BY DEF ScriptTypes, Go
<1>3. LaunchFails(s) => ScriptTypes'
  BY <1>1, <1>2 DEF LaunchFails, ScriptSteps
<1> QED
  BY <1>1, <1>2, <1>3

LEMMA ScriptStepTypes ==
    ASSUME ScriptTypes, ServerTypes, NEW s \in Slots, ScriptStep(s)
    PROVE  ScriptTypes' /\ ServerTypes'
<1> USE MoveTypes DEF ScriptSteps
<1>1. CASE TakeLock(s)
  BY <1>1 DEF TakeLock, ScriptTypes, ServerTypes, serverVars
<1>2. CASE CheckPrecondition(s)
  BY <1>2 DEF CheckPrecondition, ServerTypes, serverVars
<1>3. CASE WriteDesired(s)
  BY <1>3 DEF WriteDesired, ServerTypes
<1>4. CASE StopServer(s)
  BY <1>4 DEF StopServer, ServerTypes
<1>5. CASE UpdateServer(s)
  BY <1>5 DEF UpdateServer, ServerTypes, serverVars
<1>6. CASE Arm(s)
  BY <1>6 DEF Arm, ServerTypes
<1>7. CASE LaunchServer(s)
  BY <1>7 DEF LaunchServer, ServerTypes
<1>8. CASE AwaitServer(s)
  BY <1>8 DEF AwaitServer, ServerTypes, serverVars
<1>9. CASE Disarm(s)
  BY <1>9 DEF Disarm, ServerTypes
<1> QED
  BY <1>1, <1>2, <1>3, <1>4, <1>5, <1>6, <1>7, <1>8, <1>9 DEF ScriptStep

\* A recovery state keeps its type under the updates the code makes.
LEMMA RecoveryStateTypes ==
    ASSUME NEW state \in RecoveryStates
    PROVE  /\ state.attempts \in Seq(Nat) /\ state.incident \in BOOLEAN
           /\ state.exhausted \in BOOLEAN /\ state.next \in Nat \cup {Unscheduled}
           /\ NoIncident \in RecoveryStates
           /\ \A ages \in Seq(Nat) : [state EXCEPT !.attempts = ages] \in RecoveryStates
           /\ LaterState(state) \in RecoveryStates
           /\ \A window \in Nat :
                  pruneRecoveryAttempts(state.attempts, window) \in Seq(Nat)
<1>1. state.attempts \in Seq(Nat) /\ state.next \in Nat \cup {Unscheduled}
  BY DEF RecoveryStates
<1>2. Older(state.attempts) \in Seq(Nat)
  BY <1>1, OlderKeepsOrder
<1>3. Sooner(state.next) \in Nat \cup {Unscheduled}
  BY <1>1 DEF Sooner
<1>4. LaterState(state) \in RecoveryStates
  BY <1>2, <1>3 DEF LaterState, RecoveryStates
<1>5. NoIncident \in RecoveryStates
  BY DEF NoIncident, RecoveryStates
<1>6. \A window \in Nat : pruneRecoveryAttempts(state.attempts, window) \in Seq(Nat)
  BY <1>1, PruneKeepsOrder
<1> QED
  BY <1>1, <1>4, <1>5, <1>6 DEF RecoveryStates

\* What is known of the settings and of the attempts still in the window.
LEMMA SettingsTypes ==
    ASSUME RecTypes, BudgetTypes
    PROVE  /\ settings.window \in Nat /\ settings.max \in 1 .. 10
           /\ settings.enabled \in BOOLEAN
           /\ Pruned \in Seq(Nat) /\ Append(Pruned, 0) \in Seq(Nat)
<1>1. settings.window \in Windows /\ settings.max \in AttemptLimits
      /\ settings.enabled \in BOOLEAN
  BY DEF BudgetTypes, SettingsValues
<1>2. settings.window \in Nat /\ settings.max \in 1 .. 10
  <2>1. settings.max \in 1 .. 10
    BY <1>1, LimitAssumption
  <2>2. settings.window \in 0 .. (MaxAge - 1) /\ MaxAge \in Nat
    BY <1>1, WindowAssumption
  <2> QED
    BY <2>1, <2>2
<1>3. Pruned \in Seq(Nat)
  BY <1>2, RecoveryStateTypes DEF Pruned, RecTypes
<1> QED
  BY <1>1, <1>2, <1>3

LEMMA OperationTypes ==
    ASSUME ScriptTypes, OpTypes
    PROVE  /\ \A action \in Commands : BeginOperation(action) =>
                  /\ ScriptTypes' /\ op' \in Operations /\ opDisk' \in Operations
           /\ OperationRefused =>
                  /\ ScriptTypes' /\ op' \in Operations /\ opDisk' \in Operations
<1>1. ASSUME NEW action \in Commands, BeginOperation(action)
      PROVE  ScriptTypes' /\ op' \in Operations /\ opDisk' \in Operations
  BY <1>1 DEF BeginOperation, ScriptTypes, OpTypes, Operations, Commands, ScriptSteps
<1>2. ASSUME OperationRefused
      PROVE  ScriptTypes' /\ op' \in Operations /\ opDisk' \in Operations
  BY <1>2 DEF OperationRefused, ScriptTypes, OpTypes, scriptVars
<1> QED
  BY <1>1, <1>2

\* What the watchdog writes, by the branch it takes.
LEMMA WatchdogStepTypes ==
    ASSUME ScriptTypes, OpTypes, WatchdogTypes, RecTypes, BudgetTypes, WatchdogStep
    PROVE  /\ ScriptTypes' /\ OpTypes' /\ WatchdogTypes' /\ RecTypes' /\ BudgetTypes'
<1> USE DEF NotWatchdog, serverVars, opVars, scriptVars, EndSample, Sample,
            IdleWatchdog, WatchdogSteps
<1> DEFINE Budget == settings \in SettingsValues /\ retry \in BOOLEAN
<1>1. /\ NoIncident \in RecoveryStates /\ Pruned \in Seq(Nat)
      /\ settings.max \in 1 .. 10 /\ Append(Pruned, 0) \in Seq(Nat)
      /\ rec.next \in Nat \cup {Unscheduled}
      /\ rec.incident \in BOOLEAN /\ rec.exhausted \in BOOLEAN
      /\ rec.attempts \in Seq(Nat)
  BY RecoveryStateTypes, SettingsTypes DEF RecTypes
<1>2. ASSUME NEW value \in RecoveryStates, SaveRecovery(value)
      PROVE  recDisk' \in RecoveryStates
  BY <1>2 DEF SaveRecovery, RecTypes
<1>3. CASE ObserveProcess
  BY <1>3 DEF ObserveProcess, ScriptTypes, OpTypes, WatchdogTypes, RecTypes,
              BudgetTypes, Running
<1>4. CASE ObserveDesired
  BY <1>4 DEF ObserveDesired, ScriptTypes, OpTypes, WatchdogTypes, RecTypes,
              BudgetTypes
<1>5. CASE ObserveRunning
  <2>1. [NoIncident EXCEPT !.attempts = Pruned] \in RecoveryStates
    BY <1>1 DEF RecoveryStates, NoIncident
  <2>2. RecTypes'
    BY <1>2, <1>5, <2>1 DEF ObserveRunning, RecTypes
  <2> QED
    BY <1>5, <2>2 DEF ObserveRunning, ScriptTypes, OpTypes, WatchdogTypes, BudgetTypes
<1>6. CASE ObserveStopped
  <2>1. RecTypes'
    BY <1>1, <1>2, <1>6 DEF ObserveStopped, RecTypes
  <2>2. launches' \in Seq(Nat)
    BY <1>6 DEF ObserveStopped
  <2> QED
    BY <1>6, <2>1, <2>2 DEF ObserveStopped, ScriptTypes, OpTypes, WatchdogTypes,
                            BudgetTypes
<1>7. CASE ObserveBusy
  BY <1>7 DEF ObserveBusy, ScriptTypes, OpTypes, WatchdogTypes, RecTypes, BudgetTypes
<1>8. CASE ProbeLock
  BY <1>8 DEF ProbeLock, ScriptTypes, OpTypes, WatchdogTypes, RecTypes, BudgetTypes
<1>9. CASE RecordCrash
  <2>1. [rec EXCEPT !.incident = TRUE, !.next = Unscheduled, !.exhausted = FALSE]
            \in RecoveryStates
    BY DEF RecTypes, RecoveryStates
  <2>2. RecTypes'
    BY <1>2, <1>9, <2>1 DEF RecordCrash, RecTypes
  <2> QED
    BY <1>9, <2>2 DEF RecordCrash, ScriptTypes, OpTypes, WatchdogTypes, BudgetTypes
<1>10. CASE Decide
  <2>1. ScriptTypes' /\ OpTypes' /\ settings' = settings /\ retry' = retry
    BY <1>10 DEF Decide, Deciding, ScriptTypes, OpTypes
  <2>2. WatchdogTypes'
    <3>1. EndSample \/ Sample("request")
      BY <1>10 DEF Decide, MakeAttempt
    <3>2. CASE EndSample
      BY <3>2 DEF WatchdogTypes
    <3>3. CASE Sample("request")
      BY <3>3 DEF WatchdogTypes
    <3> QED
      BY <3>1, <3>2, <3>3
  <2>3. launches' \in Seq(Nat)
    <3>1. Append(launches, 0) \in Seq(Nat) /\ Append(launches, 0) # <<>>
      BY DEF BudgetTypes
    <3>2. Remember(Append(launches, 0)) \in Seq(Nat)
      BY <3>1 DEF Remember
    <3> QED
      BY <1>10, <3>2 DEF Decide, MakeAttempt, BudgetTypes
  <2>4. RecTypes'
    <3>1. ASSUME NEW next \in Nat \cup {Unscheduled}, NEW e \in BOOLEAN
          PROVE  [rec EXCEPT !.attempts = Pruned, !.next = next, !.exhausted = e]
                     \in RecoveryStates
      BY <1>1 DEF RecTypes, RecoveryStates
    <3>2. [rec EXCEPT !.attempts = Pruned] \in RecoveryStates
      BY <1>1 DEF RecTypes, RecoveryStates
    <3>3. [rec EXCEPT !.attempts = Append(Pruned, 0), !.next = Unscheduled]
              \in RecoveryStates
      BY <1>1 DEF RecTypes, RecoveryStates
    <3>4. Len(Pruned) < settings.max => RecoveryDelay[Len(Pruned)] \in Nat
      <4>1. Len(Pruned) < settings.max => Len(Pruned) \in 0 .. 9
        <5>1. Len(Pruned) \in Nat
          BY <1>1
        <5>2. settings.max \in Nat /\ settings.max <= 10
          BY <1>1
        <5>3. \A m, n \in Nat : n <= 10 /\ m < n => m \in 0 .. 9
          OBVIOUS
        <5> QED
          BY <5>1, <5>2, <5>3
      <4> QED
        BY <4>1, DelayAssumption
    <3>5. rec' \in RecoveryStates
      BY <1>1, <1>10, <3>1, <3>2, <3>3, <3>4 DEF Decide, MakeAttempt, RecTypes, RecoveryStates
    <3> QED
      BY <1>2, <1>10, <3>5 DEF Decide, MakeAttempt, RecTypes
  <2> QED
    BY <2>1, <2>2, <2>3, <2>4 DEF BudgetTypes
<1>11. CASE RequestRecovery
  <2>1. RecTypes'
    BY <1>2, <1>11 DEF RequestRecovery, RecTypes
  <2>2. EndSample \/ Sample("commit")
    BY <1>11 DEF RequestRecovery
  <2>3. WatchdogTypes'
    <3>1. CASE EndSample
      BY <3>1 DEF WatchdogTypes
    <3>2. CASE Sample("commit")
      BY <3>2 DEF WatchdogTypes
    <3> QED
      BY <2>2, <3>1, <3>2
  <2> QED
    BY <1>11, <2>1, <2>3 DEF RequestRecovery, ScriptTypes, OpTypes, BudgetTypes
<1>12. CASE StartRecovery
  <2>1. ScriptTypes' /\ OpTypes'
    BY <1>12, OperationTypes DEF StartRecovery, Commands, OpTypes
  <2> QED
    BY <1>2, <1>12, <2>1 DEF StartRecovery, WatchdogTypes, RecTypes, BudgetTypes
<1> QED
  BY <1>3, <1>4, <1>5, <1>6, <1>7, <1>8, <1>9, <1>10, <1>11, <1>12 DEF WatchdogStep

\* A manager that forgets its memory keeps every type.
LEMMA ForgetMemoryTypes ==
    ASSUME ForgetMemory, OpTypes, RecTypes
    PROVE  /\ WebTypes' /\ WatchdogTypes' /\ rec' \in RecoveryStates
           /\ op' \in Operations /\ request' \in HttpActions \cup {"none"}
           /\ retry' \in BOOLEAN
<1>1. NoIncident \in RecoveryStates
  BY DEF NoIncident, RecoveryStates
<1>2. NoOperation \in Operations
  BY DEF NoOperation, Operations
<1>3. IdleWatchdog \in [pc : WatchdogSteps, alive : BOOLEAN, wanted : BOOLEAN]
  BY DEF IdleWatchdog, WatchdogSteps
<1> QED
  BY <1>1, <1>2, <1>3 DEF ForgetMemory, WebTypes, WatchdogTypes

\* Everything but scripts and watchdog, one action at a time.
LEMMA TypeStep ==
    ASSUME TypeOK, Next
    PROVE  TypeOK'
<1> USE DEF NotWatchdog, serverVars, opVars, scriptVars, recoveryVars
<1>1. /\ ScriptTypes /\ ServerTypes /\ OpTypes /\ WatchdogTypes
      /\ RecTypes /\ BudgetTypes /\ WebTypes
  BY TypeParts
<1>2. /\ NoIncident \in RecoveryStates
      /\ rec.next \in Nat \cup {Unscheduled}
      /\ rec.incident \in BOOLEAN /\ rec.exhausted \in BOOLEAN
      /\ rec.attempts \in Seq(Nat)
  BY <1>1, RecoveryStateTypes DEF RecTypes
<1>3. ASSUME NEW value \in RecoveryStates, SaveRecovery(value)
      PROVE  recDisk' \in RecoveryStates
  BY <1>1, <1>3 DEF SaveRecovery, RecTypes
<1>4. CASE Script
  <2>1. PICK s \in Slots : ScriptStep(s)
    BY <1>4 DEF Script
  <2>2. ScriptTypes' /\ ServerTypes'
    BY <1>1, <2>1, ScriptStepTypes
  <2>3. UNCHANGED <<web, opVars, recoveryVars>>
    BY <2>1 DEF ScriptStep, TakeLock, CheckPrecondition, WriteDesired, StopServer,
                UpdateServer, Arm, LaunchServer, AwaitServer, Disarm
  <2>4. TypeOK' <=> ScriptTypes' /\ ServerTypes'
    BY <1>1, <2>3 DEF TypeOK, ScriptTypes, ServerTypes, OpTypes, WatchdogTypes, RecTypes,
                      BudgetTypes, WebTypes
  <2> QED
    BY <2>2, <2>4
<1>5. CASE Shell
  <2>1. PICK s \in Externals, cmd \in CliCommands : RunScript(s, cmd)
    BY <1>5 DEF Shell
  <2>2. cmd \in Commands /\ s \in Slots
    BY <2>1, CommandAssumption DEF Slots
  <2>3. ScriptTypes'
    BY <1>1, <2>1, <2>2 DEF RunScript, ScriptTypes, ScriptSteps
  <2> QED
    BY <1>1, <2>1, <2>3 DEF RunScript, TypeOK, ScriptTypes, ServerTypes, OpTypes,
           WatchdogTypes, RecTypes, BudgetTypes, WebTypes
<1>6. CASE Orphan
  <2>1. PICK s \in Externals : OrphanDies(s)
    BY <1>6 DEF Orphan
  <2>2. ScriptTypes'
    BY <1>1, <2>1, MoveTypes DEF OrphanDies, Slots
  <2> QED
    BY <1>1, <2>1, <2>2 DEF OrphanDies, TypeOK, ScriptTypes, ServerTypes, OpTypes,
           WatchdogTypes, RecTypes, BudgetTypes, WebTypes
<1>7. CASE WatchdogStep
  <2>1. /\ ScriptTypes' /\ OpTypes' /\ WatchdogTypes' /\ RecTypes' /\ BudgetTypes'
    BY <1>1, <1>7, WatchdogStepTypes
  <2>2. UNCHANGED <<serverVars, web>>
    BY <1>7 DEF WatchdogStep, ObserveProcess, ObserveDesired, ObserveRunning,
           ObserveStopped, ObserveBusy, ProbeLock, RecordCrash, Decide, RequestRecovery,
           StartRecovery
  <2>3. ServerTypes' /\ WebTypes'
    BY <1>1, <2>2 DEF ServerTypes, WebTypes
  <2> QED
    BY <2>1, <2>3 DEF TypeOK, ScriptTypes, ServerTypes, OpTypes,
           WatchdogTypes, RecTypes, BudgetTypes, WebTypes
<1>8. CASE Administrator
  <2>1. ASSUME NEW action \in HttpActions, RequestOperation(action)
        PROVE  TypeOK'
    BY <1>1, <2>1 DEF RequestOperation, TypeOK, ScriptTypes, ServerTypes, OpTypes,
           WatchdogTypes, RecTypes, BudgetTypes, WebTypes
  <2>2. ASSUME NEW new \in SettingsValues, SetRecoverySettings(new)
        PROVE  TypeOK'
    <3>1. new.window \in Nat
      <4>1. new.window \in Windows
        BY DEF SettingsValues
      <4>2. new.window \in 0 .. (MaxAge - 1)
        BY <4>1, WindowAssumption
      <4> QED
        BY <4>2
    <3> DEFINE kept == pruneRecoveryAttempts(rec.attempts, new.window)
    <3>2. kept \in Seq(Nat)
      BY <1>2, <3>1, PruneKeepsOrder
    <3>3. rec' \in RecoveryStates
      <4> HIDE DEF kept
      <4>1. /\ [rec EXCEPT !.attempts = kept, !.next = Unscheduled, !.exhausted = FALSE]
                    \in RecoveryStates
            /\ [rec EXCEPT !.attempts = kept, !.next = 0, !.exhausted = FALSE]
                    \in RecoveryStates
            /\ [rec EXCEPT !.attempts = kept] \in RecoveryStates
        BY <1>1, <3>2 DEF RecTypes, RecoveryStates
      <4> QED
        BY <2>2, <4>1 DEF SetRecoverySettings, kept
    <3>4. recDisk' \in RecoveryStates
      BY <1>3, <2>2, <3>3 DEF SetRecoverySettings
    <3>5. settings' \in SettingsValues
      BY <2>2 DEF SetRecoverySettings
    <3>6. UNCHANGED <<scriptVars, serverVars, web, opVars, wd, retry, launches>>
      BY <2>2 DEF SetRecoverySettings
    <3> QED
      BY <1>1, <3>3, <3>4, <3>5, <3>6 DEF TypeOK, ScriptTypes, ServerTypes,
         OpTypes, WatchdogTypes, BudgetTypes, WebTypes
  <2>3. CASE RequestRetry
    BY <1>1, <2>3 DEF RequestRetry, TypeOK, ScriptTypes, ServerTypes, OpTypes,
           WatchdogTypes, RecTypes, BudgetTypes, WebTypes
  <2>4. CASE RetryNow
    <3>1. [incident |-> TRUE, attempts |-> <<>>, next |-> 0, exhausted |-> FALSE]
              \in RecoveryStates
      BY DEF RecoveryStates
    <3>2. RecTypes'
      BY <1>1, <1>3, <2>4, <3>1 DEF RetryNow, RecTypes
    <3>3. BudgetTypes'
      <4>1. launches' \in Seq(Nat)
        <5>1. launches' = <<>> \/ launches' = launches
          BY <2>4 DEF RetryNow
        <5>2. <<>> \in Seq(Nat)
          OBVIOUS
        <5>3. launches \in Seq(Nat)
          BY <1>1 DEF BudgetTypes
        <5> QED
          BY <5>1, <5>2, <5>3
      <4> QED
        BY <1>1, <2>4, <4>1 DEF RetryNow, BudgetTypes
    <3> QED
      BY <1>1, <2>4, <3>2, <3>3 DEF RetryNow, TypeOK, ScriptTypes, ServerTypes, OpTypes,
         WatchdogTypes, RecTypes, BudgetTypes, WebTypes
  <2> QED
    BY <1>8, <2>1, <2>2, <2>3, <2>4 DEF Administrator
<1>9. CASE Manager
  <2>1. CASE StartOperation
    <3>1. request \in Commands
      BY <1>1, <2>1, HttpAssumption DEF StartOperation, OpTypes
    <3>2. ScriptTypes' /\ OpTypes'
      BY <1>1, <2>1, <3>1, OperationTypes DEF StartOperation, OpTypes
    <3> QED
      BY <1>1, <2>1, <3>2 DEF StartOperation, TypeOK, ScriptTypes, ServerTypes, OpTypes,
         WatchdogTypes, RecTypes, BudgetTypes, WebTypes
  <2>2. CASE FinishOperation
    <3>1. ScriptTypes'
      BY <1>1, <2>2 DEF FinishOperation, ScriptTypes, IdleScript, ScriptSteps
    <3>2. op' \in Operations
      BY <1>1, <2>2 DEF FinishOperation, OpTypes, Operations
    <3>3. OpTypes'
      BY <1>1, <2>2, <3>2 DEF FinishOperation, OpTypes, SaveOperation
    <3> QED
      BY <1>1, <2>2, <3>1, <3>3 DEF FinishOperation, TypeOK, ScriptTypes, ServerTypes,
         OpTypes, WatchdogTypes, RecTypes, BudgetTypes, WebTypes
  <2>3. ASSUME NEW user \in LockUsers, ManagerLocks(user) \/ ManagerUnlocks(user)
        PROVE  TypeOK'
    BY <1>1, <2>3 DEF ManagerLocks, ManagerUnlocks, TypeOK, ScriptTypes, ServerTypes,
         OpTypes, WatchdogTypes, RecTypes, BudgetTypes, WebTypes
  <2> QED
    BY <1>9, <2>1, <2>2, <2>3 DEF Manager
<1>10. CASE Environment
  <2>1. CASE ProcessAppears \/ ProcessExits
    BY <1>1, <2>1 DEF ProcessAppears, ProcessExits, TypeOK, ScriptTypes, ServerTypes,
       OpTypes, WatchdogTypes, RecTypes, BudgetTypes, WebTypes
  <2>2. CASE WebStops
    <3>1. ScriptTypes'
      BY <1>1, <2>2 DEF WebStops, ScriptTypes, IdleScript, ScriptSteps, Slots
    <3>2. UNCHANGED <<serverVars, opDisk, recDisk, settings, launches>>
      BY <2>2 DEF WebStops
    <3>3. ForgetMemory
      BY <2>2 DEF WebStops
    <3> QED
      BY <1>1, <3>1, <3>2, <3>3, ForgetMemoryTypes DEF TypeOK, ScriptTypes, ServerTypes,
         OpTypes, WatchdogTypes, RecTypes, BudgetTypes, WebTypes
  <2>3. CASE WebStarts
    <3> DEFINE kept == pruneRecoveryAttempts(recDisk.attempts, settings.window)
    <3>1. kept \in Seq(Nat)
      BY <1>1, RecoveryStateTypes, SettingsTypes DEF RecTypes
    <3>2. rec' \in RecoveryStates
      <4> HIDE DEF kept
      <4>1. /\ [NoIncident EXCEPT !.attempts = kept] \in RecoveryStates
            /\ [recDisk EXCEPT !.attempts = kept] \in RecoveryStates
        BY <1>1, <3>1 DEF NoIncident, RecTypes, RecoveryStates
      <4> QED
        BY <2>3, <4>1 DEF WebStarts, kept
    <3>3. RecTypes'
      BY <1>1, <2>3, <3>2 DEF WebStarts, RecTypes
    <3>4. op' \in Operations /\ opDisk' = op'
      BY <1>1, <2>3 DEF WebStarts, OpTypes, Operations
    <3>5. UNCHANGED <<scriptVars, serverVars, request, wd, settings, retry, launches>>
          /\ web' = "up"
      BY <2>3 DEF WebStarts
    <3> QED
      BY <1>1, <3>3, <3>4, <3>5 DEF TypeOK, ScriptTypes, ServerTypes,
         OpTypes, WatchdogTypes, RecTypes, BudgetTypes, WebTypes
  <2>4. CASE HostReboots
    <3>1. ScriptTypes' /\ ServerTypes'
      BY <1>1, <2>4 DEF HostReboots, ScriptTypes, ServerTypes, IdleScript, ScriptSteps
    <3>2. ForgetMemory /\ UNCHANGED <<opDisk, recDisk, settings, launches>>
      BY <2>4 DEF HostReboots
    <3> QED
      BY <1>1, <3>1, <3>2, ForgetMemoryTypes DEF TypeOK, ScriptTypes, ServerTypes,
         OpTypes, WatchdogTypes, RecTypes, BudgetTypes, WebTypes
  <2>5. CASE Tick
    <3>1. RecTypes'
      BY <1>1, <2>5, RecoveryStateTypes DEF Tick, RecTypes
    <3>2. launches' \in Seq(Nat)
      <4>1. MaxAge - 1 \in Nat
        <5>1. settings.window \in Windows
          BY <1>1 DEF BudgetTypes, SettingsValues
        <5>2. settings.window \in 0 .. (MaxAge - 1) /\ MaxAge \in Nat
          BY <5>1, WindowAssumption
        <5> QED
          BY <5>2
      <4>2. Older(launches) \in Seq(Nat)
        BY <1>1, OlderKeepsOrder DEF BudgetTypes
      <4>3. pruneRecoveryAttempts(Older(launches), MaxAge - 1) \in Seq(Nat)
        BY <4>1, <4>2, PruneKeepsOrder
      <4> QED
        BY <2>5, <4>3 DEF Tick
    <3> QED
      BY <1>1, <2>5, <3>1, <3>2 DEF Tick, TypeOK, ScriptTypes, ServerTypes,
         OpTypes, WatchdogTypes, RecTypes, BudgetTypes, WebTypes
  <2> QED
    BY <1>10, <2>1, <2>2, <2>3, <2>4, <2>5 DEF Environment
<1> QED
  BY <1>4, <1>5, <1>6, <1>7, <1>8, <1>9, <1>10 DEF Next

\* Every reachable state has the declared types.
THEOREM TypeCorrect == Spec => []TypeOK
<1>1. Init => TypeOK
  <2> SUFFICES ASSUME Init PROVE TypeOK
    OBVIOUS
  <2>1. ScriptTypes
    BY DEF Init, ScriptTypes, IdleScript, ScriptSteps
  <2>2. OpTypes
    BY DEF Init, OpTypes, NoOperation, Operations
  <2>3. WatchdogTypes
    BY DEF Init, WatchdogTypes, IdleWatchdog, WatchdogSteps
  <2>4. RecTypes
    BY DEF Init, RecTypes, NoIncident, RecoveryStates
  <2>5. ServerTypes /\ WebTypes
    BY DEF Init, ServerTypes, WebTypes
  <2>6. BudgetTypes
    <3>1. <<>> \in Seq(Nat)
      OBVIOUS
    <3>2. launches \in Seq(Nat)
      BY <3>1 DEF Init
    <3>3. settings \in SettingsValues /\ retry \in BOOLEAN
      BY DEF Init
    <3> QED
      BY <3>2, <3>3 DEF BudgetTypes
  <2> QED
    BY <2>1, <2>2, <2>3, <2>4, <2>5, <2>6, TypeParts
<1>2. TypeOK /\ UNCHANGED vars => TypeOK'
  BY DEF vars, scriptVars, serverVars, opVars, recoveryVars, TypeOK
<1>3. TypeOK /\ [Next]_vars => TypeOK'
  BY <1>2, TypeStep
<1> QED
  BY <1>1, <1>3, PTL DEF Spec

-----------------------------------------------------------------------------
(* The inductive invariant of the scripts and the manager's operation *)

\* While the watchdog looks whether the lock is free it holds it itself.
ProbeHoldsLock == wd.pc = "probing" => lock = "watchdog"

\* The steps each command goes through.
CommandAtStep ==
    \A s \in Slots :
        /\ At(s, "lock") => Command(s) \in Commands
        /\ At(s, "check") => Command(s) \in {"start", "recover"}
        /\ At(s, "desire") => Command(s) \in {"stop", "restart", "update"}
        /\ At(s, "stop") => Command(s) \in {"stop", "restart"}
        /\ At(s, "arm") => Command(s) = "start"

\* A restart wants the server from its first effect on, every other command
\* from the moment it launches it.
IntentHeld ==
    \A s \in Slots :
        \/ script[s].pc \in {"launch", "wait"}
        \/ Command(s) = "restart" /\ script[s].pc \in {"stop", "update"}
        => desired = "running"

\* A manager that is down remembers nothing and waits for nothing.
DownIsQuiet ==
    web = "down" => /\ op = NoOperation /\ request = "none"
                    /\ wd = IdleWatchdog /\ At(OP, "idle")

LockInv == OneScriptAtATime /\ ProbeHoldsLock
IntentInv == CommandAtStep /\ IntentHeld
RecordInv == DownIsQuiet /\ RecordDescribesScript /\ RunningHasScript

\* The moves of a script that holds the lock, seen from every slot.
LEMMA Moves ==
    ASSUME TypeOK, NEW s \in Slots
    PROVE  /\ \A step \in ScriptSteps : Go(s, step) =>
                 /\ script'[s] = [cmd |-> Command(s), pc |-> step]
                 /\ \A t \in Slots \ {s} : script'[t] = script[t]
                 /\ lock' = lock
           /\ Exit(s) =>
                 /\ script'[s].pc \in {"idle", "done"}
                 /\ s = OP => script'[s] = [cmd |-> Command(s), pc |-> "done"]
                 /\ \A t \in Slots \ {s} : script'[t] = script[t]
                 /\ lock' = IF lock = s THEN "free" ELSE lock
<1>1. script \in [Slots -> [cmd : Commands \cup {"none"}, pc : ScriptSteps]]
  BY DEF TypeOK
<1>2. ASSUME NEW step \in ScriptSteps, Go(s, step)
      PROVE  /\ script'[s] = [cmd |-> Command(s), pc |-> step]
             /\ \A t \in Slots \ {s} : script'[t] = script[t]
             /\ lock' = lock
  BY <1>1, <1>2 DEF Go, Command
<1>3. ASSUME Exit(s)
      PROVE  /\ script'[s].pc \in {"idle", "done"}
             /\ s = OP => script'[s] = [cmd |-> Command(s), pc |-> "done"]
             /\ \A t \in Slots \ {s} : script'[t] = script[t]
             /\ lock' = IF lock = s THEN "free" ELSE lock
  BY <1>1, <1>3 DEF Exit, Command, IdleScript
<1> QED
  BY <1>2, <1>3

\* Every step of a script but for its taking of the lock is its exit, or a
\* move to another step made by the holder of the lock.
LEMMA ScriptStepKind ==
    ASSUME LockInv, NEW s \in Slots, ScriptStep(s)
    PROVE  /\ \/ lock = "free" /\ TakeLock(s)
              \/ Exit(s)
              \/ lock = s /\ \E step \in ScriptSteps \ {"idle"} : Go(s, step)
           /\ ~ At(s, "idle")
           /\ UNCHANGED <<web, opVars, recoveryVars>>
<1> USE DEF ScriptSteps, At
<1>1. Critical(s) => lock = s
  BY DEF LockInv, OneScriptAtATime
<1>2. CASE TakeLock(s)
  BY <1>2 DEF TakeLock
<1>3. CASE CheckPrecondition(s)
  BY <1>1, <1>3 DEF CheckPrecondition, Critical
<1>4. CASE WriteDesired(s)
  BY <1>1, <1>4 DEF WriteDesired, Critical
<1>5. CASE StopServer(s)
  BY <1>1, <1>5 DEF StopServer, Critical
<1>6. CASE UpdateServer(s)
  BY <1>1, <1>6 DEF UpdateServer, Critical
<1>7. CASE Arm(s)
  BY <1>1, <1>7 DEF Arm, Critical
<1>8. CASE LaunchServer(s)
  BY <1>1, <1>8 DEF LaunchServer, LaunchFails, Critical
<1>9. CASE AwaitServer(s)
  BY <1>1, <1>9 DEF AwaitServer, LaunchFails, Critical
<1>10. CASE Disarm(s)
  BY <1>1, <1>10 DEF Disarm, Critical
<1> QED
  BY <1>2, <1>3, <1>4, <1>5, <1>6, <1>7, <1>8, <1>9, <1>10 DEF ScriptStep

\* The same, by what it does to every slot and to the lock.
LEMMA ScriptStepShape ==
    ASSUME TypeOK, LockInv, NEW s \in Slots, ScriptStep(s)
    PROVE  /\ \A t \in Slots \ {s} : script'[t] = script[t]
           /\ \/ /\ script'[s].pc \in {"idle", "done"}
                 /\ lock' = (IF lock = s THEN "free" ELSE lock)
              \/ lock = s /\ lock' = s
              \/ lock = "free" /\ lock' = s
           /\ s = OP => script[s].pc # "idle" /\ script'[s].pc # "idle"
           /\ s = OP => script'[s].cmd = script[s].cmd
           /\ UNCHANGED <<web, opVars, recoveryVars>>
<1>1. CASE lock = "free" /\ TakeLock(s)
  <2>1. script \in [Slots -> [cmd : Commands \cup {"none"}, pc : ScriptSteps]]
    BY DEF TypeOK
  <2>2. /\ script' = [script EXCEPT ![s].pc =
                IF Command(s) \in {"start", "recover"} THEN "check" ELSE "desire"]
        /\ lock' = s
    BY <1>1 DEF TakeLock
  <2>3. /\ \A t \in Slots \ {s} : script'[t] = script[t]
        /\ script'[s].cmd = script[s].cmd /\ script'[s].pc # "idle"
    BY <2>1, <2>2
  <2> QED
    BY <1>1, <2>2, <2>3, ScriptStepKind DEF At
<1>2. CASE Exit(s)
  <2>1. /\ script'[s].pc \in {"idle", "done"}
        /\ s = OP => script'[s] = [cmd |-> Command(s), pc |-> "done"]
        /\ \A t \in Slots \ {s} : script'[t] = script[t]
        /\ lock' = IF lock = s THEN "free" ELSE lock
    BY <1>2, Moves
  <2> QED
    BY <2>1, ScriptStepKind DEF At, Command
<1>3. CASE lock = s /\ \E step \in ScriptSteps \ {"idle"} : Go(s, step)
  <2>1. PICK step \in ScriptSteps \ {"idle"} : Go(s, step)
    BY <1>3
  <2>2. /\ script'[s] = [cmd |-> Command(s), pc |-> step]
        /\ \A t \in Slots \ {s} : script'[t] = script[t]
        /\ lock' = lock
    BY <2>1, Moves
  <2> QED
    BY <1>3, <2>1, <2>2, ScriptStepKind DEF At, Command
<1> QED
  BY <1>1, <1>2, <1>3, ScriptStepKind

\* No slot is named like another holder of the lock.
LEMMA Holders ==
    /\ OP \in Slots /\ Externals \subseteq Slots /\ Slots = {OP} \cup Externals
    /\ OP \notin Externals /\ "free" \notin Slots /\ "watchdog" \notin Slots
    /\ \A user \in LockUsers : user \notin Slots /\ user # "watchdog" /\ user # "free"
BY SlotAssumption DEF Slots

LEMMA LockStep ==
    ASSUME TypeOK, LockInv, Next
    PROVE  LockInv'
<1> USE DEF LockInv, ProbeHoldsLock
<1>1. /\ script \in [Slots -> [cmd : Commands \cup {"none"}, pc : ScriptSteps]]
      /\ \A s \in Slots : Critical(s) => lock = s
      /\ wd.pc = "probing" => lock = "watchdog"
      /\ wd \in [pc : WatchdogSteps, alive : BOOLEAN, wanted : BOOLEAN]
  BY DEF TypeOK, OneScriptAtATime
\* A slot whose script does not become critical needs no lock.
<1>2. ASSUME \A s \in Slots : script'[s].pc \in {"idle", "lock", "done"} \/ lock' = s
      PROVE  OneScriptAtATime'
  BY <1>2 DEF OneScriptAtATime, Critical
<1>3. \A s \in Slots : script[s].pc \in {"idle", "lock", "done"} \/ lock = s
  BY <1>1 DEF Critical
<1>4. lock \notin Slots => \A s \in Slots : script[s].pc \in {"idle", "lock", "done"}
  BY <1>3
<1>5. CASE Script
  <2>1. PICK s \in Slots : ScriptStep(s)
    BY <1>5 DEF Script
  <2>2. /\ \A t \in Slots \ {s} : script'[t] = script[t]
        /\ \/ /\ script'[s].pc \in {"idle", "done"}
              /\ lock' = (IF lock = s THEN "free" ELSE lock)
           \/ lock = s /\ lock' = s
           \/ lock = "free" /\ lock' = s
        /\ wd' = wd
    BY <2>1, ScriptStepShape DEF recoveryVars
  <2>3. \A t \in Slots : script'[t].pc \in {"idle", "lock", "done"} \/ lock' = t
    BY <1>3, <2>2, Holders
  <2>4. wd.pc = "probing" => lock' = "watchdog"
    BY <1>1, <2>2, Holders
  <2> QED
    BY <1>2, <2>2, <2>3, <2>4
<1>6. CASE Shell
  <2>1. PICK s \in Externals, cmd \in CliCommands : RunScript(s, cmd)
    BY <1>6 DEF Shell
  <2>2. \A t \in Slots : script'[t].pc \in {"idle", "lock", "done"} \/ lock' = t
    BY <1>1, <1>3, <2>1, Holders DEF RunScript
  <2> QED
    BY <1>1, <1>2, <2>1, <2>2 DEF RunScript, recoveryVars
<1>7. CASE Orphan
  <2>1. PICK s \in Externals : OrphanDies(s)
    BY <1>7 DEF Orphan
  <2>2. /\ script'[s].pc \in {"idle", "done"}
        /\ \A t \in Slots \ {s} : script'[t] = script[t]
        /\ lock' = IF lock = s THEN "free" ELSE lock
    BY <2>1, Moves, Holders DEF OrphanDies
  <2>3. \A t \in Slots : script'[t].pc \in {"idle", "lock", "done"} \/ lock' = t
    BY <1>3, <2>2
  <2>4. wd.pc = "probing" => lock' = "watchdog"
    BY <1>1, <2>1, <2>2, Holders
  <2> QED
    BY <1>2, <2>1, <2>3, <2>4 DEF OrphanDies, recoveryVars
<1>8. CASE Administrator
  BY <1>1, <1>2, <1>3, <1>8 DEF Administrator, RequestOperation, SetRecoverySettings,
     RequestRetry, RetryNow, NotWatchdog, scriptVars, recoveryVars
<1>9. ASSUME NEW action, BeginOperation(action) \/ OperationRefused
      PROVE  OneScriptAtATime' /\ lock' = lock
  <2>1. \A t \in Slots : script'[t].pc \in {"idle", "lock", "done"} \/ lock' = t
    BY <1>1, <1>3, <1>9 DEF BeginOperation, OperationRefused, scriptVars
  <2> QED
    BY <1>2, <1>9, <2>1 DEF BeginOperation, OperationRefused, scriptVars
<1>10. CASE Manager
  <2>1. CASE StartOperation
    BY <1>1, <1>9, <2>1 DEF StartOperation, recoveryVars
  <2>2. CASE FinishOperation
    <3>1. \A t \in Slots : script'[t].pc \in {"idle", "lock", "done"} \/ lock' = t
      BY <1>1, <1>3, <2>2 DEF FinishOperation, IdleScript
    <3> QED
      BY <1>1, <1>2, <2>2, <3>1 DEF FinishOperation, recoveryVars
  <2>3. ASSUME NEW user \in LockUsers, ManagerLocks(user) \/ ManagerUnlocks(user)
        PROVE  LockInv'
    <3>1. lock \notin Slots /\ lock # "watchdog" /\ script' = script /\ wd' = wd
      BY <2>3, Holders DEF ManagerLocks, ManagerUnlocks, recoveryVars
    <3>2. \A t \in Slots : script'[t].pc \in {"idle", "lock", "done"} \/ lock' = t
      BY <1>4, <3>1
    <3> QED
      BY <1>1, <1>2, <3>1, <3>2
  <2> QED
    BY <1>10, <2>1, <2>2, <2>3 DEF Manager
<1>11. CASE WatchdogStep
  <2> USE DEF NotWatchdog, EndSample, Sample, IdleWatchdog, WatchdogSteps
  <2>1. CASE ObserveProcess
    BY <1>1, <1>2, <1>3, <2>1 DEF ObserveProcess
  <2>2. CASE ObserveDesired
    BY <1>1, <1>2, <1>3, <2>2 DEF ObserveDesired
  <2>3. CASE ObserveRunning
    BY <1>1, <1>2, <1>3, <2>3 DEF ObserveRunning
  <2>4. CASE ObserveStopped
    BY <1>1, <1>2, <1>3, <2>4 DEF ObserveStopped
  <2>5. CASE ObserveBusy
    BY <1>1, <1>2, <1>3, <2>5 DEF ObserveBusy
  <2>6. CASE ProbeLock
    BY <1>1, <1>2, <1>4, <2>6, Holders DEF ProbeLock
  <2>7. CASE RecordCrash
    BY <1>1, <1>2, <1>4, <2>7, Holders DEF RecordCrash
  <2>8. CASE Decide
    <3>1. /\ script' = script
          /\ \/ lock' = lock
             \/ lock' = "free" /\ lock = "watchdog"
      BY <1>1, <2>8 DEF Decide, Deciding
    <3>2. wd'.pc # "probing"
      <4>1. EndSample \/ Sample("request")
        BY <2>8 DEF Decide, MakeAttempt
      <4>2. CASE EndSample
        BY <4>2
      <4>3. CASE Sample("request")
        BY <1>1, <4>3
      <4> QED
        BY <4>1, <4>2, <4>3
    <3> QED
      BY <1>2, <1>3, <1>4, <3>1, <3>2, Holders
  <2>9. CASE RequestRecovery
    <3>1. script' = script /\ lock' = lock
      BY <2>9 DEF RequestRecovery
    <3>2. wd'.pc # "probing"
      <4>1. EndSample \/ Sample("commit")
        BY <2>9 DEF RequestRecovery
      <4>2. CASE EndSample
        BY <4>2
      <4>3. CASE Sample("commit")
        BY <1>1, <4>3
      <4> QED
        BY <4>1, <4>2, <4>3
    <3> QED
      BY <1>2, <1>3, <3>1, <3>2
  <2>10. CASE StartRecovery
    BY <1>1, <1>9, <2>10 DEF StartRecovery
  <2> QED
    BY <1>11, <2>1, <2>2, <2>3, <2>4, <2>5, <2>6, <2>7, <2>8, <2>9, <2>10 DEF WatchdogStep
<1>12. CASE Environment
  <2>1. CASE ProcessAppears \/ ProcessExits \/ Tick \/ WebStarts
    BY <1>1, <1>2, <1>3, <2>1 DEF ProcessAppears, ProcessExits, Tick, WebStarts,
       scriptVars, recoveryVars
  <2>2. CASE WebStops
    <3>1. wd' = IdleWatchdog
      BY <2>2 DEF WebStops, ForgetMemory
    <3>2. \A t \in Slots : script'[t].pc \in {"idle", "lock", "done"} \/ lock' = t
      <4>1. CASE script[OP].pc \in {"idle", "done"}
        <5>1. script' = [script EXCEPT ![OP] = IdleScript]
              /\ lock' = IF lock \in Externals THEN lock ELSE "free"
          BY <2>2, <4>1 DEF WebStops
        <5> QED
          BY <1>1, <1>3, <5>1, Holders DEF IdleScript
      <4>2. CASE script[OP].pc \notin {"idle", "done"}
        <5>1. PICK e \in Externals :
                  /\ script' = [script EXCEPT ![e] = script[OP], ![OP] = IdleScript]
                  /\ lock' = IF lock \in Externals THEN lock
                             ELSE IF lock = OP THEN e ELSE "free"
          BY <2>2, <4>2 DEF WebStops
        <5>2. /\ script'[e] = script[OP] /\ script'[OP] = IdleScript
              /\ \A t \in Slots \ {e, OP} : script'[t] = script[t]
          BY <1>1, <5>1, Holders
        <5>3. script[OP].pc = "lock" \/ lock' = e
          BY <1>3, <4>2, <5>1, Holders
        <5>4. \A t \in Slots \ {e, OP} :
                  script'[t].pc \in {"idle", "lock", "done"} \/ lock' = t
          BY <1>3, <5>1, <5>2, Holders
        <5> QED
          BY <5>2, <5>3, <5>4 DEF IdleScript
      <4> QED
        BY <4>1, <4>2
    <3> QED
      BY <1>2, <3>1, <3>2 DEF IdleWatchdog
  <2>3. CASE HostReboots
    BY <1>2, <2>3 DEF HostReboots, ForgetMemory, IdleScript, IdleWatchdog
  <2> QED
    BY <1>12, <2>1, <2>2, <2>3 DEF Environment
<1> QED
  BY <1>5, <1>6, <1>7, <1>8, <1>10, <1>11, <1>12 DEF Next

-----------------------------------------------------------------------------
(* A launch is wanted *)

\* What IntentInv says of one slot.
IntentOf(s) ==
    /\ At(s, "lock") => Command(s) \in Commands
    /\ At(s, "check") => Command(s) \in {"start", "recover"}
    /\ At(s, "desire") => Command(s) \in {"stop", "restart", "update"}
    /\ At(s, "stop") => Command(s) \in {"stop", "restart"}
    /\ At(s, "arm") => Command(s) = "start"
    /\ \/ script[s].pc \in {"launch", "wait"}
       \/ Command(s) = "restart" /\ script[s].pc \in {"stop", "update"}
       => desired = "running"

LEMMA IntentOfAll == IntentInv <=> \A s \in Slots : IntentOf(s)
BY DEF IntentInv, CommandAtStep, IntentHeld, IntentOf

\* The script that acts keeps its own part.
LEMMA OwnIntent ==
    ASSUME TypeOK, NEW s \in Slots, IntentOf(s), ScriptStep(s)
    PROVE  IntentOf(s)'
<1> USE DEF ScriptSteps, IntentOf, At, Command
<1>1. ASSUME NEW step \in ScriptSteps, Go(s, step)
      PROVE  script'[s] = [cmd |-> Command(s), pc |-> step]
  BY <1>1, Moves
<1>2. ASSUME Exit(s)
      PROVE  IntentOf(s)'
  <2>1. script'[s].pc \in {"idle", "done"}
    BY <1>2, Moves
  <2> QED
    BY <2>1
<1>3. CASE TakeLock(s)
  <2>1. CASE lock = "free"
    <3>1. script \in [Slots -> [cmd : Commands \cup {"none"}, pc : ScriptSteps]]
      BY DEF TypeOK
    <3>2. script'[s].cmd = Command(s)
          /\ script'[s].pc = IF Command(s) \in {"start", "recover"} THEN "check" ELSE "desire"
      BY <1>3, <2>1, <3>1 DEF TakeLock, Exit
    <3>3. Command(s) \in Commands
      BY <1>3 DEF TakeLock
    <3> QED
      BY <3>2, <3>3 DEF Commands
  <2>2. CASE lock # "free"
    BY <1>2, <1>3, <2>2 DEF TakeLock
  <2> QED
    BY <2>1, <2>2
<1>4. CASE CheckPrecondition(s)
  BY <1>1, <1>2, <1>4 DEF CheckPrecondition, serverVars
<1>5. CASE WriteDesired(s)
  <2>1. CASE Command(s) = "update"
    BY <1>1, <1>5, <2>1 DEF WriteDesired
  <2>2. CASE Command(s) # "update"
    BY <1>1, <1>5, <2>2 DEF WriteDesired
  <2> QED
    BY <2>1, <2>2
<1>6. CASE StopServer(s)
  <2>1. desired' = desired /\ (Exit(s) \/ (Command(s) = "restart" /\ Go(s, "update")))
    BY <1>6 DEF StopServer
  <2> QED
    BY <1>1, <1>2, <1>6, <2>1 DEF StopServer
<1>7. CASE UpdateServer(s)
  <2>1. \/ Exit(s)
        \/ Command(s) = "start" /\ Go(s, "arm")
        \/ Command(s) = "restart" /\ Go(s, "launch")
    BY <1>7 DEF UpdateServer
  <2>2. desired' = desired /\ script[s].pc = "update"
    BY <1>7 DEF UpdateServer, serverVars
  <2> QED
    BY <1>1, <1>2, <2>1, <2>2
<1>8. CASE Arm(s)
  BY <1>1, <1>8 DEF Arm
<1>9. CASE LaunchServer(s)
  <2>1. desired' = desired /\ script[s].pc = "launch"
        /\ (Exit(s) \/ Go(s, "disarm") \/ Go(s, "wait"))
    BY <1>9 DEF LaunchServer, LaunchFails
  <2> QED
    BY <1>1, <1>2, <2>1
<1>10. CASE AwaitServer(s)
  <2>1. Exit(s) \/ Go(s, "disarm")
    BY <1>10 DEF AwaitServer, LaunchFails
  <2> QED
    BY <1>1, <1>2, <2>1
<1>11. CASE Disarm(s)
  BY <1>2, <1>11 DEF Disarm
<1> QED
  BY <1>3, <1>4, <1>5, <1>6, <1>7, <1>8, <1>9, <1>10, <1>11 DEF ScriptStep

\* Only the holder of the lock writes the desired state.
LEMMA DesiredWriters ==
    ASSUME LockInv, NEW s \in Slots, ScriptStep(s)
    PROVE  desired' = desired \/ lock = s
BY DEF ScriptStep, TakeLock, CheckPrecondition, WriteDesired, StopServer, UpdateServer,
       Arm, LaunchServer, AwaitServer, Disarm, serverVars, LockInv, OneScriptAtATime,
       Critical, At

LEMMA IntentStep ==
    ASSUME TypeOK, LockInv, IntentInv, Next
    PROVE  IntentInv'
<1>1. /\ script \in [Slots -> [cmd : Commands \cup {"none"}, pc : ScriptSteps]]
      /\ \A s \in Slots : IntentOf(s)
      /\ \A s \in Slots : Critical(s) => lock = s
  BY IntentOfAll DEF TypeOK, LockInv, OneScriptAtATime
<1>2. SUFFICES ASSUME NEW t \in Slots
               PROVE  IntentOf(t)'
  BY DEF IntentInv, CommandAtStep, IntentHeld, IntentOf
<1> USE DEF IntentOf, At, Command
<1>3. ASSUME script'[t] = script[t], desired' = desired
      PROVE  IntentOf(t)'
  BY <1>1, <1>3
<1>4. ASSUME script'[t].pc \in {"idle", "done"}
      PROVE  IntentOf(t)'
  BY <1>4
<1>5. ASSUME script'[t].pc = "lock", script'[t].cmd \in Commands
      PROVE  IntentOf(t)'
  BY <1>5
<1>6. CASE Script
  <2>1. PICK s \in Slots : ScriptStep(s)
    BY <1>6 DEF Script
  <2>2. CASE s = t
    BY <1>1, <2>1, <2>2, OwnIntent
  <2>3. CASE s # t
    <3>1. script'[t] = script[t]
      BY <2>1, <2>3, ScriptStepShape
    <3>2. desired' = desired \/ ~ Critical(t)
      BY <1>1, <2>1, <2>3, DesiredWriters
    <3> QED
      BY <1>1, <1>3, <3>1, <3>2 DEF Critical
  <2> QED
    BY <2>2, <2>3
<1>7. CASE Shell
  <2>1. PICK s \in Externals, cmd \in CliCommands : RunScript(s, cmd)
    BY <1>7 DEF Shell
  <2>2. cmd \in Commands /\ s \in Slots
    BY CommandAssumption, Holders
  <2> QED
    BY <1>1, <1>3, <1>5, <2>1, <2>2 DEF RunScript, serverVars
<1>8. CASE Orphan
  <2>1. PICK s \in Externals : OrphanDies(s)
    BY <1>8 DEF Orphan
  <2>2. /\ script'[s].pc \in {"idle", "done"}
        /\ \A u \in Slots \ {s} : script'[u] = script[u]
    BY <2>1, Moves, Holders DEF OrphanDies
  <2> QED
    BY <1>3, <1>4, <2>1, <2>2 DEF OrphanDies, serverVars
<1>9. CASE Administrator
  BY <1>3, <1>9 DEF Administrator, RequestOperation, SetRecoverySettings,
     RequestRetry, RetryNow, NotWatchdog, scriptVars, serverVars
<1>10. ASSUME NEW action \in Commands, BeginOperation(action) \/ OperationRefused,
              desired' = desired
       PROVE  IntentOf(t)'
  BY <1>1, <1>3, <1>5, <1>10 DEF BeginOperation, OperationRefused, scriptVars
<1>11. CASE Manager
  <2>1. CASE StartOperation
    <3>1. request \in Commands
      BY <2>1, HttpAssumption DEF StartOperation, TypeOK
    <3> QED
      BY <1>10, <2>1, <3>1 DEF StartOperation, serverVars
  <2>2. CASE FinishOperation
    <3>1. script'[OP].pc = "idle" /\ \A u \in Slots \ {OP} : script'[u] = script[u]
      BY <1>1, <2>2, Holders DEF FinishOperation, IdleScript
    <3> QED
      BY <1>3, <1>4, <2>2, <3>1 DEF FinishOperation, serverVars
  <2>3. ASSUME NEW user \in LockUsers, ManagerLocks(user) \/ ManagerUnlocks(user)
        PROVE  IntentOf(t)'
    BY <1>3, <2>3 DEF ManagerLocks, ManagerUnlocks, serverVars
  <2> QED
    BY <1>11, <2>1, <2>2, <2>3 DEF Manager
<1>12. CASE WatchdogStep
  <2>1. CASE StartRecovery
    BY <1>10, <2>1 DEF StartRecovery, serverVars, Commands
  <2>2. CASE ~StartRecovery
    BY <1>3, <1>12, <2>2 DEF WatchdogStep, ObserveProcess, ObserveDesired, ObserveRunning,
       ObserveStopped, ObserveBusy, ProbeLock, RecordCrash, Decide, RequestRecovery,
       NotWatchdog, serverVars
  <2> QED
    BY <2>1, <2>2
<1>13. CASE Environment
  <2>1. CASE ProcessAppears \/ ProcessExits \/ Tick \/ WebStarts
    BY <1>3, <2>1 DEF ProcessAppears, ProcessExits, Tick, WebStarts, scriptVars, serverVars
  <2>2. CASE WebStops
    <3>1. desired' = desired
      BY <2>2 DEF WebStops, serverVars
    <3>2. \/ script' = [script EXCEPT ![OP] = IdleScript]
          \/ \E e \in Externals :
                script' = [script EXCEPT ![e] = script[OP], ![OP] = IdleScript]
      BY <2>2 DEF WebStops
    <3>3. script'[t] = script[t] \/ script'[t] = script[OP] \/ script'[t] = IdleScript
      BY <1>1, <3>2, Holders
    <3>4. CASE script'[t] = script[OP]
      BY <1>1, <3>1, <3>4, Holders
    <3> QED
      BY <1>3, <1>4, <3>1, <3>3, <3>4 DEF IdleScript
  <2>3. CASE HostReboots
    BY <1>4, <2>3 DEF HostReboots, IdleScript
  <2> QED
    BY <1>13, <2>1, <2>2, <2>3 DEF Environment
<1> QED
  BY <1>6, <1>7, <1>8, <1>9, <1>11, <1>12, <1>13 DEF Next

-----------------------------------------------------------------------------
(* The record of the manager's operation *)

\* A manager that does anything is up.
LEMMA ActiveIsUp ==
    ASSUME TypeOK, RecordInv
    PROVE  /\ web # "up" => web = "down"
           /\ request # "none" \/ wd.pc # "idle" \/ script[OP].pc # "idle" => web = "up"
BY DEF TypeOK, RecordInv, DownIsQuiet, IdleWatchdog, At

\* Steps that leave the manager's script and its record alone.
LEMMA RecordKept ==
    ASSUME RecordInv, script'[OP] = script[OP], UNCHANGED <<op, opDisk>>,
           web' = "up" \/ UNCHANGED <<web, request, wd>>
    PROVE  RecordInv'
BY DEF RecordInv, DownIsQuiet, RecordDescribesScript, RunningHasScript, At, Command

\* An operation begins with its record on disk, or leaves everything as it is.
LEMMA RecordBegins ==
    ASSUME TypeOK, RecordInv, NEW action, BeginOperation(action) \/ OperationRefused,
           web' = "up"
    PROVE  RecordInv'
<1>1. CASE BeginOperation(action)
  <2>1. script'[OP] = [cmd |-> action, pc |-> "lock"]
    BY <1>1, Holders DEF BeginOperation, TypeOK
  <2> QED
    BY <1>1, <2>1 DEF BeginOperation, RecordInv, DownIsQuiet, RecordDescribesScript,
                      RunningHasScript, Command
<1>2. CASE OperationRefused
  BY <1>2, RecordKept DEF OperationRefused, scriptVars
<1> QED
  BY <1>1, <1>2

LEMMA RecordStep ==
    ASSUME TypeOK, LockInv, RecordInv, Next
    PROVE  RecordInv'
<1>1. /\ script \in [Slots -> [cmd : Commands \cup {"none"}, pc : ScriptSteps]]
      /\ op \in Operations /\ web \in {"up", "down"}
  BY DEF TypeOK
<1>2. ASSUME script'[OP] = IdleScript, ~ op'.running,
             web' = "up" \/ (op' = NoOperation /\ request' = "none" /\ wd' = IdleWatchdog)
      PROVE  RecordInv'
  BY <1>2 DEF RecordInv, DownIsQuiet, RecordDescribesScript, RunningHasScript, At, IdleScript
<1>3. CASE Script
  <2>1. PICK s \in Slots : ScriptStep(s)
    BY <1>3 DEF Script
  <2>2. UNCHANGED <<web, request, wd, op, opDisk>>
    BY <2>1, ScriptStepShape DEF opVars, recoveryVars
  <2>3. CASE s # OP
    BY <2>1, <2>2, <2>3, ScriptStepShape, RecordKept, Holders
  <2>4. CASE s = OP
    <3>1. /\ script[OP].pc # "idle" /\ script'[OP].pc # "idle"
          /\ script'[OP].cmd = script[OP].cmd
      BY <2>1, <2>4, ScriptStepShape
    <3>2. web = "up"
      BY <3>1, ActiveIsUp
    <3> QED
      BY <2>2, <3>1, <3>2 DEF RecordInv, DownIsQuiet, RecordDescribesScript,
                              RunningHasScript, Command
  <2> QED
    BY <2>3, <2>4
<1>4. CASE Shell
  <2>1. PICK s \in Externals, cmd \in CliCommands : RunScript(s, cmd)
    BY <1>4 DEF Shell
  <2>2. script'[OP] = script[OP]
    BY <1>1, <2>1, Holders DEF RunScript
  <2> QED
    BY <2>1, <2>2, RecordKept DEF RunScript, opVars, recoveryVars
<1>5. CASE Orphan
  <2>1. PICK s \in Externals : OrphanDies(s)
    BY <1>5 DEF Orphan
  <2>2. Exit(s) /\ s \in Slots /\ OP \in Slots \ {s}
    BY <2>1, Holders DEF OrphanDies
  <2>3. script'[OP] = script[OP]
    BY <2>2, Moves
  <2> QED
    BY <2>1, <2>3, RecordKept DEF OrphanDies, opVars, recoveryVars
<1>6. CASE Administrator
  <2>1. script' = script /\ UNCHANGED <<op, opDisk, web, wd>>
    BY <1>6 DEF Administrator, RequestOperation, SetRecoverySettings, RequestRetry,
                RetryNow, NotWatchdog, scriptVars, opVars, recoveryVars
  <2>2. web = "up" \/ request' = request
    BY <1>6 DEF Administrator, RequestOperation, SetRecoverySettings, RequestRetry,
                RetryNow, opVars
  <2> QED
    BY <2>1, <2>2, RecordKept
<1>7. CASE Manager
  <2>1. CASE StartOperation
    <3>1. web' = "up"
      BY <2>1, ActiveIsUp DEF StartOperation
    <3> QED
      BY <2>1, <3>1, RecordBegins DEF StartOperation
  <2>2. CASE FinishOperation
    <3>1. script'[OP] = IdleScript /\ ~ op'.running
      BY <1>1, <2>2, Holders DEF FinishOperation, Operations
    <3> QED
      BY <1>2, <2>2, <3>1 DEF FinishOperation
  <2>3. ASSUME NEW user \in LockUsers, ManagerLocks(user) \/ ManagerUnlocks(user)
        PROVE  RecordInv'
    BY <2>3, RecordKept DEF ManagerLocks, ManagerUnlocks, opVars, recoveryVars
  <2> QED
    BY <1>7, <2>1, <2>2, <2>3 DEF Manager
<1>8. CASE WatchdogStep
  <2>1. web' = "up"
    BY <1>8, ActiveIsUp DEF WatchdogStep, ObserveProcess, ObserveDesired, ObserveRunning,
       ObserveStopped, ObserveBusy, ProbeLock, RecordCrash, Decide, Deciding,
       RequestRecovery, StartRecovery, NotWatchdog
  <2>2. CASE StartRecovery
    BY <2>1, <2>2, RecordBegins DEF StartRecovery
  <2>3. CASE ~ StartRecovery
    <3>1. script' = script /\ UNCHANGED <<op, opDisk>>
      BY <1>8, <2>3 DEF WatchdogStep, ObserveProcess, ObserveDesired, ObserveRunning,
         ObserveStopped, ObserveBusy, ProbeLock, RecordCrash, Decide, RequestRecovery,
         NotWatchdog, opVars
    <3> QED
      BY <2>1, <3>1, RecordKept
  <2> QED
    BY <2>2, <2>3
<1>9. CASE Environment
  <2>1. CASE ProcessAppears \/ ProcessExits \/ Tick
    BY <2>1, RecordKept DEF ProcessAppears, ProcessExits, Tick, scriptVars, opVars,
                            recoveryVars
  <2>2. CASE WebStops
    <3>1. /\ op' = NoOperation /\ request' = "none" /\ wd' = IdleWatchdog
      BY <2>2 DEF WebStops, ForgetMemory
    <3>2. \/ script' = [script EXCEPT ![OP] = IdleScript]
          \/ \E e \in Externals :
                script' = [script EXCEPT ![e] = script[OP], ![OP] = IdleScript]
      BY <2>2 DEF WebStops
    <3>3. script'[OP] = IdleScript
      BY <1>1, <3>2, Holders
    <3> QED
      BY <1>2, <3>1, <3>3 DEF NoOperation
  <2>3. CASE WebStarts
    <3>1. /\ script' = script /\ web' = "up" /\ opDisk \in Operations
          /\ op' = [opDisk EXCEPT !.running = FALSE]
      BY <2>3 DEF WebStarts, scriptVars, TypeOK
    <3>2. script[OP].pc = "idle"
      BY <2>3 DEF WebStarts, RecordInv, DownIsQuiet, At
    <3>3. ~ op'.running
      BY <3>1 DEF Operations
    <3> QED
      BY <3>1, <3>2, <3>3 DEF RecordInv, DownIsQuiet, RecordDescribesScript,
                              RunningHasScript
  <2>4. CASE HostReboots
    <3>1. script'[OP] = IdleScript
      BY <2>4, Holders DEF HostReboots
    <3> QED
      BY <1>2, <2>4, <3>1 DEF HostReboots, ForgetMemory, NoOperation
  <2> QED
    BY <1>9, <2>1, <2>2, <2>3, <2>4 DEF Environment
<1> QED
  BY <1>3, <1>4, <1>5, <1>6, <1>7, <1>8, <1>9 DEF Next

\* The three parts hold together in every reachable state.
LEMMA ScriptInvariant ==
    Spec => [](TypeOK /\ LockInv /\ IntentInv /\ RecordInv)
<1>1. Init => LockInv /\ IntentInv /\ RecordInv
  BY Holders DEF Init, LockInv, OneScriptAtATime, ProbeHoldsLock, Critical, IdleScript,
     IdleWatchdog, IntentInv, CommandAtStep, IntentHeld, At, Command, RecordInv,
     DownIsQuiet, RecordDescribesScript, RunningHasScript, NoOperation
<1>2. UNCHANGED vars => /\ LockInv => LockInv'
                        /\ IntentInv => IntentInv'
                        /\ RecordInv => RecordInv'
  BY DEF vars, scriptVars, serverVars, opVars, recoveryVars, LockInv, OneScriptAtATime,
     ProbeHoldsLock, Critical, IntentInv, CommandAtStep, IntentHeld, At, Command,
     RecordInv, DownIsQuiet, RecordDescribesScript, RunningHasScript
<1>3. TypeOK /\ LockInv /\ IntentInv /\ RecordInv /\ [Next]_vars
          => LockInv' /\ IntentInv' /\ RecordInv'
  BY <1>2, LockStep, IntentStep, RecordStep
<1> QED
  BY <1>1, <1>3, TypeCorrect, PTL DEF Spec

\* At most one script holds the lifecycle lock and acts, in every
\* interleaving of the manager, the watchdog, shells and scripts left behind.
THEOREM MutualExclusion == Spec => []OneScriptAtATime
BY ScriptInvariant, PTL DEF LockInv

\* No script launches or awaits a server that the desired state wants down.
THEOREM NoUnwantedLaunch == Spec => []LaunchIsWanted
<1>1. IntentInv => LaunchIsWanted
  BY DEF IntentInv, IntentHeld, LaunchIsWanted
<1> QED
  BY <1>1, ScriptInvariant, PTL

\* The record names the script that runs, in memory and on disk.
THEOREM RecordIsRight == Spec => []RecordDescribesScript
BY ScriptInvariant, PTL DEF RecordInv

\* No record stays running without a script.
THEOREM NoLostOperation == Spec => []RunningHasScript
BY ScriptInvariant, PTL DEF RecordInv

-----------------------------------------------------------------------------
(* One server: when the process shows within the fifteen seconds *)

\* A process that does not show yet is awaited by a script, and there is one
\* process at most.
ProcessInv ==
    /\ starting > 0 => \E s \in Slots : At(s, "wait")
    /\ up + starting <= 1

LEMMA ProcessStep ==
    ASSUME ~ LateStart, TypeOK, LockInv, RecordInv, ProcessInv, Next
    PROVE  ProcessInv'
<1> USE DEF ProcessInv, At
<1>1. /\ script \in [Slots -> [cmd : Commands \cup {"none"}, pc : ScriptSteps]]
      /\ up \in Nat /\ starting \in Nat
      /\ \A s \in Slots : Critical(s) => lock = s
  BY DEF TypeOK, LockInv, OneScriptAtATime
<1>2. ASSUME NEW s \in Slots, Critical(s), script[s].pc # "wait"
      PROVE  starting = 0
  BY <1>1, <1>2 DEF Critical
<1>3. ASSUME UNCHANGED <<up, starting>>,
             \A s \in Slots : script[s].pc = "wait" => script'[s] = script[s] \/ starting = 0
      PROVE  ProcessInv'
  BY <1>1, <1>3
<1>4. CASE Script
  <2>1. PICK s \in Slots : ScriptStep(s)
    BY <1>4 DEF Script
  <2>2. \A t \in Slots \ {s} : script'[t] = script[t]
    BY <2>1, ScriptStepShape
  <2>3. CASE StopServer(s)
    <3>1. starting = 0
      BY <1>2, <2>3 DEF StopServer, Critical
    <3>2. starting' = 0 /\ up' \in Nat /\ up' <= up
      BY <1>1, <2>3, <3>1 DEF StopServer
    <3>3. up <= 1
      BY <1>1, <3>1
    <3>4. \A m, n \in Nat : m <= n /\ n <= 1 => m + 0 <= 1
      OBVIOUS
    <3>5. up' + starting' <= 1
      BY <1>1, <3>2, <3>3, <3>4
    <3>6. ~ (starting' > 0)
      BY <3>2
    <3> QED
      BY <3>5, <3>6
  <2>4. CASE LaunchServer(s)
    <3>1. starting = 0
      BY <1>2, <2>4 DEF LaunchServer, Critical
    <3>2. CASE Go(s, "wait") /\ ~Running /\ starting' = starting + 1 /\ up' = up
      <4>1. script'[s] = [cmd |-> Command(s), pc |-> "wait"]
        BY <3>2, Moves DEF ScriptSteps
      <4> QED
        BY <1>1, <3>1, <3>2, <4>1 DEF Running
    <3>3. CASE UNCHANGED <<up, starting>>
      BY <1>3, <3>1, <3>3
    <3> QED
      BY <2>4, <3>2, <3>3 DEF LaunchServer
  <2>5. CASE AwaitServer(s)
    <3>1. starting = 0
      BY <1>1, <2>5 DEF AwaitServer, WaitIsOver, Running
    <3> QED
      BY <1>3, <2>5, <3>1 DEF AwaitServer, serverVars
  <2>6. CASE TakeLock(s) \/ CheckPrecondition(s) \/ WriteDesired(s) \/ UpdateServer(s)
             \/ Arm(s) \/ Disarm(s)
    <3>1. script[s].pc # "wait" /\ UNCHANGED <<up, starting>>
      BY <2>6 DEF TakeLock, CheckPrecondition, WriteDesired, UpdateServer, Arm, Disarm,
                  serverVars
    <3> QED
      BY <1>3, <2>2, <3>1
  <2> QED
    BY <2>1, <2>3, <2>4, <2>5, <2>6 DEF ScriptStep
<1>5. CASE Shell
  <2>1. PICK s \in Externals, cmd \in CliCommands : RunScript(s, cmd)
    BY <1>5 DEF Shell
  <2>2. /\ script[s].pc = "idle" /\ \A t \in Slots \ {s} : script'[t] = script[t]
        /\ UNCHANGED <<up, starting>>
    BY <1>1, <2>1, Holders DEF RunScript, serverVars
  <2> QED
    BY <1>3, <2>2
<1>6. CASE Orphan
  <2>1. PICK s \in Externals : OrphanDies(s)
    BY <1>6 DEF Orphan
  <2>2. /\ \A t \in Slots \ {s} : script'[t] = script[t]
        /\ UNCHANGED <<up, starting>>
    BY <2>1, Moves, Holders DEF OrphanDies, serverVars
  <2>3. script[s].pc = "wait" => starting = 0
    BY <1>1, <2>1 DEF OrphanDies, WaitIsOver, Running
  <2> QED
    BY <1>3, <2>2, <2>3
<1>7. CASE Administrator
  BY <1>3, <1>7 DEF Administrator, RequestOperation, SetRecoverySettings, RequestRetry,
     RetryNow, NotWatchdog, scriptVars, serverVars
<1>8. ASSUME NEW action, BeginOperation(action) \/ OperationRefused, UNCHANGED serverVars
      PROVE  ProcessInv'
  <2>1. CASE BeginOperation(action)
    <3>1. script[OP].pc = "idle"
      BY <2>1 DEF BeginOperation, RecordInv, RecordDescribesScript
    <3>2. \A t \in Slots \ {OP} : script'[t] = script[t]
      BY <1>1, <2>1 DEF BeginOperation
    <3> QED
      BY <1>3, <1>8, <3>1, <3>2 DEF serverVars
  <2>2. CASE OperationRefused
    BY <1>3, <1>8, <2>2 DEF OperationRefused, scriptVars, serverVars
  <2> QED
    BY <1>8, <2>1, <2>2
<1>9. CASE Manager
  <2>1. CASE StartOperation
    BY <1>8, <2>1 DEF StartOperation
  <2>2. CASE FinishOperation
    <3>1. script[OP].pc = "done" /\ \A t \in Slots \ {OP} : script'[t] = script[t]
      BY <1>1, <2>2 DEF FinishOperation
    <3> QED
      BY <1>3, <2>2, <3>1 DEF FinishOperation, serverVars
  <2>3. ASSUME NEW user \in LockUsers, ManagerLocks(user) \/ ManagerUnlocks(user)
        PROVE  ProcessInv'
    BY <1>3, <2>3 DEF ManagerLocks, ManagerUnlocks, serverVars
  <2> QED
    BY <1>9, <2>1, <2>2, <2>3 DEF Manager
<1>10. CASE WatchdogStep
  <2>1. CASE StartRecovery
    BY <1>8, <2>1 DEF StartRecovery
  <2>2. CASE ~ StartRecovery
    BY <1>3, <1>10, <2>2 DEF WatchdogStep, ObserveProcess, ObserveDesired, ObserveRunning,
       ObserveStopped, ObserveBusy, ProbeLock, RecordCrash, Decide, RequestRecovery,
       NotWatchdog, serverVars
  <2> QED
    BY <2>1, <2>2
<1>11. CASE Environment
  <2>1. CASE ProcessAppears
    BY <1>1, <2>1 DEF ProcessAppears
  <2>2. CASE ProcessExits
    BY <1>1, <2>2 DEF ProcessExits, scriptVars
  <2>3. CASE Tick \/ WebStarts
    BY <1>3, <2>3 DEF Tick, WebStarts, scriptVars, serverVars
  <2>4. CASE WebStops
    <3>1. UNCHANGED <<up, starting>>
      BY <2>4 DEF WebStops, serverVars
    <3>2. CASE script[OP].pc \in {"idle", "done"}
      <4>1. \A t \in Slots \ {OP} : script'[t] = script[t]
        BY <1>1, <2>4, <3>2 DEF WebStops
      <4> QED
        BY <1>3, <3>1, <3>2, <4>1
    <3>3. CASE script[OP].pc \notin {"idle", "done"}
      <4>1. PICK e \in Externals :
                /\ script[e].pc = "idle"
                /\ script' = [script EXCEPT ![e] = script[OP], ![OP] = IdleScript]
        BY <2>4, <3>3 DEF WebStops
      <4>2. /\ script'[e] = script[OP]
            /\ \A t \in Slots \ {e, OP} : script'[t] = script[t]
        BY <1>1, <4>1, Holders
      <4>3. ASSUME starting > 0
            PROVE  \E t \in Slots : script'[t].pc = "wait"
        <5>1. PICK t \in Slots : script[t].pc = "wait"
          BY <4>3
        <5> QED
          BY <4>1, <4>2, <5>1, Holders
      <4> QED
        BY <3>1, <4>3
    <3> QED
      BY <3>2, <3>3
  <2>5. CASE HostReboots
    BY <2>5 DEF HostReboots
  <2> QED
    BY <1>11, <2>1, <2>2, <2>3, <2>4, <2>5 DEF Environment
<1> QED
  BY <1>4, <1>5, <1>6, <1>7, <1>9, <1>10, <1>11 DEF Next

\* When every process shows before the script stops waiting for it, no two
\* processes ever run on the installation, whoever launches them.
THEOREM OneServer == ~ LateStart => (Spec => []SingleServer)
<1> SUFFICES ASSUME ~ LateStart
             PROVE  Spec => []SingleServer
  OBVIOUS
<1>1. Init => ProcessInv
  BY DEF Init, ProcessInv
<1>2. ProcessInv /\ UNCHANGED vars => ProcessInv'
  BY DEF vars, scriptVars, serverVars, ProcessInv, At
<1>3. TypeOK /\ LockInv /\ RecordInv /\ ProcessInv /\ [Next]_vars => ProcessInv'
  BY <1>2, ProcessStep
<1>4. ProcessInv => SingleServer
  BY DEF ProcessInv, SingleServer
<1> QED
  BY <1>1, <1>3, <1>4, ScriptInvariant, PTL DEF Spec
-----------------------------------------------------------------------------
(* The recovery state that a start of the manager loads *)

\* What the watchdog decides on is an incident; the state is valid in memory
\* as on disk, where any value it had in memory may be.
RecoveryInv ==
    /\ wd.pc = "decide" => rec.incident
    /\ validRecoveryState(rec) /\ validRecoveryState(recDisk)

\* The validity of a state is that of its parts.
LEMMA ValidParts ==
    ASSUME NEW state \in RecoveryStates
    PROVE  validRecoveryState(state) <=>
               /\ ~state.incident => state.next = Unscheduled /\ ~state.exhausted
               /\ Ordered(state.attempts)
BY DEF validRecoveryState, Ordered

\* An attempt made now is the youngest.
LEMMA AppendKeepsOrder ==
    ASSUME NEW ages \in Seq(Nat), Ordered(ages)
    PROVE  Ordered(Append(ages, 0))
BY DEF Ordered

\* What the functions on recovery states keep.
LEMMA ValidStates ==
    ASSUME NEW state \in RecoveryStates, validRecoveryState(state)
    PROVE  /\ validRecoveryState(NoIncident)
           /\ validRecoveryState(LaterState(state))
           /\ \A window \in Nat :
                  LET kept == pruneRecoveryAttempts(state.attempts, window)
                  IN  kept \in Seq(Nat) /\ Ordered(kept)
<1>1. /\ state.attempts \in Seq(Nat) /\ NoIncident \in RecoveryStates
      /\ LaterState(state) \in RecoveryStates
      /\ state.next \in Nat \cup {Unscheduled}
  BY RecoveryStateTypes
<1>2. /\ ~state.incident => state.next = Unscheduled /\ ~state.exhausted
      /\ Ordered(state.attempts)
  BY ValidParts
<1>3. validRecoveryState(NoIncident)
  BY <1>1, ValidParts DEF NoIncident, Ordered
<1>4. Ordered(Older(state.attempts))
  BY <1>1, <1>2, OlderKeepsOrder
<1>5. /\ LaterState(state).attempts = Older(state.attempts)
      /\ LaterState(state).incident = state.incident
      /\ LaterState(state).exhausted = state.exhausted
      /\ LaterState(state).next = Sooner(state.next)
  BY DEF LaterState, RecoveryStates
<1>6. Sooner(Unscheduled) = Unscheduled
  BY UnscheduledAssumption DEF Sooner
<1>7. validRecoveryState(LaterState(state))
  BY <1>1, <1>2, <1>4, <1>5, <1>6, ValidParts
<1>8. ASSUME NEW window \in Nat
      PROVE  /\ pruneRecoveryAttempts(state.attempts, window) \in Seq(Nat)
             /\ Ordered(pruneRecoveryAttempts(state.attempts, window))
  BY <1>1, <1>2, PruneKeepsOrder
<1> QED
  BY <1>3, <1>7, <1>8

\* Another list of attempts that is in order leaves a state valid.
LEMMA NewAttemptsAreValid ==
    ASSUME NEW state \in RecoveryStates, validRecoveryState(state),
           NEW ages \in Seq(Nat), Ordered(ages)
    PROVE  validRecoveryState([state EXCEPT !.attempts = ages])
<1> DEFINE new == [state EXCEPT !.attempts = ages]
<1>1. /\ new \in RecoveryStates /\ new.attempts = ages
      /\ new.incident = state.incident /\ new.next = state.next
      /\ new.exhausted = state.exhausted
  BY DEF RecoveryStates
<1>2. ~state.incident => state.next = Unscheduled /\ ~state.exhausted
  BY ValidParts
<1> HIDE DEF new
<1>3. validRecoveryState(new)
  BY <1>1, <1>2, ValidParts
<1> QED
  BY <1>3 DEF new

\* So does a new time and exhaustion, of an incident, or none of either.
LEMMA NewDecisionIsValid ==
    ASSUME NEW state \in RecoveryStates,
           NEW ages \in Seq(Nat), Ordered(ages),
           NEW next \in Nat \cup {Unscheduled}, NEW e \in BOOLEAN,
           state.incident \/ (next = Unscheduled /\ ~e)
    PROVE  validRecoveryState([state EXCEPT !.attempts = ages, !.next = next,
                                            !.exhausted = e])
<1> DEFINE new == [state EXCEPT !.attempts = ages, !.next = next, !.exhausted = e]
<1>1. /\ new \in RecoveryStates /\ new.attempts = ages
      /\ new.incident = state.incident /\ new.next = next /\ new.exhausted = e
  BY DEF RecoveryStates
<1> HIDE DEF new
<1>2. validRecoveryState(new)
  BY <1>1, ValidParts
<1> QED
  BY <1>2 DEF new

\* Saved or not, what is on disk stays valid.
LEMMA SavedIsValid ==
    ASSUME RecoveryInv, NEW value, validRecoveryState(value), SaveRecovery(value)
    PROVE  validRecoveryState(recDisk')
BY DEF RecoveryInv, SaveRecovery

LEMMA DecideKeepsValid ==
    ASSUME TypeOK, RecoveryInv, Decide
    PROVE  RecoveryInv'
<1>1. /\ rec \in RecoveryStates /\ RecTypes /\ BudgetTypes
  BY TypeParts DEF RecTypes
<1>2. validRecoveryState(rec) /\ validRecoveryState(recDisk)
  BY DEF RecoveryInv
<1>3. rec.incident
  BY DEF Decide, Deciding, RecoveryInv
<1>4. /\ settings.window \in Nat /\ settings.max \in 1 .. 10
      /\ Pruned \in Seq(Nat) /\ Append(Pruned, 0) \in Seq(Nat)
  BY <1>1, SettingsTypes
<1>5. Ordered(Pruned) /\ Ordered(Append(Pruned, 0))
  BY <1>1, <1>2, <1>4, ValidStates, AppendKeepsOrder DEF Pruned
<1>6. /\ rec.next \in Nat \cup {Unscheduled} /\ rec.exhausted \in BOOLEAN
      /\ rec.incident \in BOOLEAN
  BY <1>1, RecoveryStateTypes
<1>7. ASSUME NEW ages \in Seq(Nat), Ordered(ages), NEW next \in Nat \cup {Unscheduled},
             NEW e \in BOOLEAN
      PROVE  validRecoveryState([rec EXCEPT !.attempts = ages, !.next = next, !.exhausted = e])
  BY <1>1, <1>3, <1>7, NewDecisionIsValid
<1>8. ASSUME Len(Pruned) < settings.max
      PROVE  RecoveryDelay[Len(Pruned)] \in Nat
  <2>1. Len(Pruned) \in 0 .. 9
    <3>1. Len(Pruned) \in Nat
      BY <1>4
    <3>2. settings.max \in Nat /\ settings.max <= 10
      BY <1>4
    <3>3. \A m, n \in Nat : n <= 10 /\ m < n => m \in 0 .. 9
      OBVIOUS
    <3> QED
      BY <1>8, <3>1, <3>2, <3>3
  <2> QED
    BY <2>1, DelayAssumption
<1>9. /\ validRecoveryState([rec EXCEPT !.attempts = Pruned])
      /\ validRecoveryState([rec EXCEPT !.attempts = Pruned, !.next = Unscheduled])
      /\ validRecoveryState([rec EXCEPT !.attempts = Append(Pruned, 0), !.next = Unscheduled])
      /\ validRecoveryState([rec EXCEPT !.attempts = Pruned, !.next = Unscheduled,
                                        !.exhausted = TRUE])
      /\ Len(Pruned) < settings.max =>
             validRecoveryState([rec EXCEPT !.attempts = Pruned,
                                           !.next = RecoveryDelay[Len(Pruned)]])
  <2> DEFINE Rec(ages, next, e) ==
                 [rec EXCEPT !.attempts = ages, !.next = next, !.exhausted = e]
  <2>1. /\ [rec EXCEPT !.attempts = Pruned] = Rec(Pruned, rec.next, rec.exhausted)
        /\ \A next : [rec EXCEPT !.attempts = Pruned, !.next = next] =
                          Rec(Pruned, next, rec.exhausted)
        /\ [rec EXCEPT !.attempts = Append(Pruned, 0), !.next = Unscheduled] =
               Rec(Append(Pruned, 0), Unscheduled, rec.exhausted)
    <3> HIDE DEF Pruned
    <3> QED
      BY <1>1 DEF RecoveryStates
  <2>2. \A next \in Nat \cup {Unscheduled}, e \in BOOLEAN :
            validRecoveryState(Rec(Pruned, next, e))
    BY <1>4, <1>5, <1>7
  <2>3. validRecoveryState(Rec(Append(Pruned, 0), Unscheduled, rec.exhausted))
    BY <1>4, <1>5, <1>6, <1>7
  <2>4. validRecoveryState(Rec(Pruned, Unscheduled, TRUE))
    BY <2>2
  <2> HIDE DEF Rec
  <2>5. /\ validRecoveryState(Rec(Pruned, rec.next, rec.exhausted))
        /\ validRecoveryState(Rec(Pruned, Unscheduled, rec.exhausted))
        /\ Len(Pruned) < settings.max =>
               validRecoveryState(Rec(Pruned, RecoveryDelay[Len(Pruned)], rec.exhausted))
    BY <1>6, <1>8, <2>2
  <2> QED
    BY <2>1, <2>3, <2>4, <2>5 DEF Rec
<1>10. validRecoveryState(rec')
  BY <1>9 DEF Decide, MakeAttempt
<1>11. recDisk' = recDisk \/ SaveRecovery(rec')
  BY DEF Decide, MakeAttempt
<1>12. validRecoveryState(recDisk')
  BY <1>2, <1>10, <1>11, SavedIsValid
<1>13. wd'.pc # "decide"
  BY TypeParts DEF Decide, MakeAttempt, EndSample, Sample, IdleWatchdog, WatchdogTypes
<1> QED
  BY <1>10, <1>12, <1>13 DEF RecoveryInv

\* Every writer of the recovery state, in memory or on disk.
LEMMA RecoveryStep ==
    ASSUME TypeOK, RecordInv, RecoveryInv, Next
    PROVE  RecoveryInv'
<1>1. /\ RecTypes /\ BudgetTypes /\ WatchdogTypes
      /\ rec \in RecoveryStates /\ recDisk \in RecoveryStates
  BY TypeParts DEF RecTypes
<1>2. validRecoveryState(rec) /\ validRecoveryState(recDisk)
  BY DEF RecoveryInv
<1>3. settings.window \in Nat
  BY <1>1, SettingsTypes
<1>4. validRecoveryState(NoIncident)
  BY <1>1, <1>2, ValidStates
<1>5. CASE UNCHANGED <<wd, rec, recDisk>>
  BY <1>5 DEF RecoveryInv, validRecoveryState
<1>6. ASSUME validRecoveryState(rec'), recDisk' = recDisk \/ SaveRecovery(rec'),
             wd'.pc # "decide" \/ rec'.incident
      PROVE  RecoveryInv'
  BY <1>2, <1>6, SavedIsValid DEF RecoveryInv
<1>7. CASE Script \/ Shell \/ Orphan \/ Manager
  <2>1. UNCHANGED recoveryVars
    BY <1>7 DEF Script, ScriptStep, TakeLock, CheckPrecondition, WriteDesired, StopServer,
                UpdateServer, Arm, LaunchServer, AwaitServer, Disarm, Shell, RunScript,
                Orphan, OrphanDies, Manager, StartOperation, FinishOperation,
                ManagerLocks, ManagerUnlocks
  <2> QED
    BY <1>5, <2>1 DEF recoveryVars
<1>8. CASE WatchdogStep
  <2> USE DEF EndSample, Sample, IdleWatchdog
  <2>1. CASE ObserveProcess \/ ObserveDesired \/ ObserveBusy \/ ProbeLock
    <3>1. UNCHANGED <<rec, recDisk>>
      BY <2>1 DEF ObserveProcess, ObserveDesired, ObserveBusy, ProbeLock
    <3>2. wd'.pc # "decide"
      <4>1. wd \in [pc : WatchdogSteps, alive : BOOLEAN, wanted : BOOLEAN]
        BY <1>1 DEF WatchdogTypes
      <4>2. ObserveProcess => wd'.pc = "desired"
        BY DEF ObserveProcess
      <4>3. ObserveDesired => wd'.pc = "evaluate"
        BY <4>1 DEF ObserveDesired
      <4>4. ObserveBusy => wd'.pc = "idle"
        BY DEF ObserveBusy
      <4>5. ProbeLock => wd'.pc = "probing"
        BY <4>1 DEF ProbeLock
      <4> QED
        BY <2>1, <4>2, <4>3, <4>4, <4>5
    <3> QED
      BY <1>2, <3>1, <3>2 DEF RecoveryInv, validRecoveryState
  <2>2. CASE ObserveRunning
    <3>1. Pruned \in Seq(Nat) /\ Ordered(Pruned)
      BY <1>1, <1>2, <1>3, ValidStates DEF Pruned
    <3>2. validRecoveryState([NoIncident EXCEPT !.attempts = Pruned])
      BY <1>1, <1>4, <3>1, RecoveryStateTypes, NewAttemptsAreValid
    <3>3. wd'.pc # "decide" /\ (recDisk' = recDisk \/ SaveRecovery(rec'))
          /\ rec' = [NoIncident EXCEPT !.attempts = Pruned]
      BY <2>2 DEF ObserveRunning
    <3> QED
      BY <1>6, <3>2, <3>3
  <2>3. CASE ObserveStopped
    <3>1. /\ wd'.pc # "decide" /\ rec' = NoIncident
          /\ recDisk' = recDisk \/ SaveRecovery(rec')
      BY <2>3 DEF ObserveStopped
    <3> QED
      BY <1>4, <1>6, <3>1
  <2>4. CASE RecordCrash
    <3> DEFINE new == [rec EXCEPT !.incident = TRUE, !.next = Unscheduled,
                                  !.exhausted = FALSE]
    <3>1. /\ new \in RecoveryStates /\ new.incident /\ new.attempts = rec.attempts
      BY <1>1 DEF RecoveryStates
    <3>2. Ordered(rec.attempts)
      BY <1>1, <1>2, ValidParts
    <3>3. validRecoveryState(new)
      BY <3>1, <3>2, ValidParts
    <3>4. rec' = new /\ SaveRecovery(rec')
      BY <2>4 DEF RecordCrash
    <3> HIDE DEF new
    <3> QED
      BY <1>6, <3>1, <3>3, <3>4
  <2>5. CASE Decide
    BY <2>5, DecideKeepsValid
  <2>6. CASE RequestRecovery \/ StartRecovery
    <3>1. /\ rec' = rec /\ (recDisk' = recDisk \/ SaveRecovery(rec'))
          /\ wd'.pc # "decide"
      BY <1>1, <2>6 DEF RequestRecovery, StartRecovery, WatchdogTypes
    <3> QED
      BY <1>2, <1>6, <3>1
  <2> QED
    BY <1>8, <2>1, <2>2, <2>3, <2>4, <2>5, <2>6 DEF WatchdogStep
<1>9. CASE Administrator
  <2>1. CASE \E action \in HttpActions : RequestOperation(action)
    BY <1>5, <2>1 DEF RequestOperation, recoveryVars
  <2>2. ASSUME NEW new \in SettingsValues, SetRecoverySettings(new)
        PROVE  RecoveryInv'
    <3> DEFINE kept == pruneRecoveryAttempts(rec.attempts, new.window)
    <3>1. new.window \in Nat
      <4>1. new.window \in Windows
        BY DEF SettingsValues
      <4>2. new.window \in 0 .. (MaxAge - 1) /\ MaxAge \in Nat
        BY <4>1, WindowAssumption
      <4> QED
        BY <4>2
    <3>2. kept \in Seq(Nat) /\ Ordered(kept)
      BY <1>1, <1>2, <3>1, ValidStates
    <3>3. wd' = wd /\ SaveRecovery(rec')
      BY <2>2 DEF NotWatchdog, SetRecoverySettings
    <3>4. rec' = IF ~new.enabled
                 THEN [rec EXCEPT !.attempts = kept, !.next = Unscheduled,
                                  !.exhausted = FALSE]
                 ELSE IF rec.incident
                 THEN [rec EXCEPT !.attempts = kept, !.next = 0, !.exhausted = FALSE]
                 ELSE [rec EXCEPT !.attempts = kept]
      BY <2>2 DEF SetRecoverySettings
    <3> HIDE DEF kept
    <3>5. validRecoveryState(rec')
      <4>1. CASE ~new.enabled
        <5>1. Unscheduled \in Nat \cup {Unscheduled} /\ FALSE \in BOOLEAN
          OBVIOUS
        <5>2. validRecoveryState([rec EXCEPT !.attempts = kept, !.next = Unscheduled,
                                             !.exhausted = FALSE])
          BY <1>1, <3>2, <5>1, NewDecisionIsValid
        <5> QED
          BY <3>4, <4>1, <5>2
      <4>2. CASE new.enabled /\ rec.incident
        <5>1. validRecoveryState([rec EXCEPT !.attempts = kept, !.next = 0,
                                             !.exhausted = FALSE])
          BY <1>1, <3>2, <4>2, NewDecisionIsValid
        <5> QED
          BY <3>4, <4>2, <5>1
      <4>3. CASE new.enabled /\ ~rec.incident
        BY <1>1, <1>2, <3>2, <3>4, <4>3, NewAttemptsAreValid
      <4> QED
        BY <4>1, <4>2, <4>3
    <3>6. rec'.incident = rec.incident
      BY <1>1, <3>4 DEF RecoveryStates
    <3> QED
      BY <1>6, <3>3, <3>5, <3>6 DEF RecoveryInv
  <2>3. CASE RequestRetry
    BY <1>5, <2>3 DEF RequestRetry
  <2>4. CASE RetryNow
    <3>1. wd' = wd
      BY <2>4 DEF RetryNow
    <3>2. CASE settings.enabled
      <4> DEFINE new == [incident |-> TRUE, attempts |-> <<>>, next |-> 0,
                         exhausted |-> FALSE]
      <4>1. new \in RecoveryStates /\ new.incident /\ Ordered(new.attempts)
        BY DEF RecoveryStates, Ordered
      <4>2. validRecoveryState(new)
        BY <4>1, ValidParts
      <4>3. rec' = new /\ SaveRecovery(rec')
        BY <2>4, <3>2 DEF RetryNow
      <4> HIDE DEF new
      <4> QED
        BY <1>6, <4>1, <4>2, <4>3
    <3>3. CASE ~settings.enabled
      BY <1>5, <2>4, <3>1, <3>3 DEF RetryNow
    <3> QED
      BY <3>2, <3>3
  <2> QED
    BY <1>9, <2>1, <2>2, <2>3, <2>4 DEF Administrator
<1>10. CASE Environment
  <2>1. CASE ProcessAppears \/ ProcessExits
    BY <1>5, <2>1 DEF ProcessAppears, ProcessExits, recoveryVars
  <2>2. CASE WebStops \/ HostReboots
    <3>1. rec' = NoIncident /\ recDisk' = recDisk /\ wd'.pc # "decide"
      BY <2>2 DEF WebStops, HostReboots, ForgetMemory, IdleWatchdog
    <3> QED
      BY <1>4, <1>6, <3>1
  <2>3. CASE WebStarts
    <3> DEFINE kept == pruneRecoveryAttempts(recDisk.attempts, settings.window)
    <3>1. kept \in Seq(Nat) /\ Ordered(kept)
      BY <1>1, <1>2, <1>3, ValidStates
    <3>2. /\ \/ rec' = [NoIncident EXCEPT !.attempts = kept] /\ recDisk' = rec'
             \/ rec' = [recDisk EXCEPT !.attempts = kept] /\ recDisk' = recDisk
          /\ wd' = wd
      BY <2>3 DEF WebStarts
    <3> HIDE DEF kept
    <3>3. validRecoveryState(rec') /\ validRecoveryState(recDisk')
      BY <1>1, <1>2, <1>4, <3>1, <3>2, RecoveryStateTypes, NewAttemptsAreValid
    <3>4. wd.pc # "decide"
      BY <2>3 DEF WebStarts, RecordInv, DownIsQuiet, IdleWatchdog
    <3> QED
      BY <3>2, <3>3, <3>4 DEF RecoveryInv
  <2>4. CASE Tick
    <3>1. /\ rec' = LaterState(rec) /\ recDisk' = LaterState(recDisk)
          /\ wd'.pc # "decide"
      BY <2>4 DEF Tick
    <3> QED
      BY <1>1, <1>2, <3>1, ValidStates DEF RecoveryInv
  <2> QED
    BY <1>10, <2>1, <2>2, <2>3, <2>4 DEF Environment
<1> QED
  BY <1>7, <1>8, <1>9, <1>10 DEF Next

\* Whatever the watchdog, the administrator, restarts and failing disks do, the
\* recovery state on disk is one that loadOrCreateRecoveryState accepts: its
\* check never keeps the manager from starting, if the clock is not set back.
THEOREM RecoveryStateLoads == Spec => []StoredRecoveryIsValid
<1>1. Init => RecoveryInv
  <2> SUFFICES ASSUME Init PROVE RecoveryInv
    OBVIOUS
  <2>1. NoIncident \in RecoveryStates
    BY DEF NoIncident, RecoveryStates
  <2>2. validRecoveryState(NoIncident)
    BY <2>1, ValidParts DEF NoIncident, Ordered
  <2> QED
    BY <2>2 DEF Init, RecoveryInv, IdleWatchdog
<1>2. RecoveryInv /\ UNCHANGED vars => RecoveryInv'
  BY DEF vars, recoveryVars, RecoveryInv, validRecoveryState
<1>3. TypeOK /\ RecordInv /\ RecoveryInv /\ [Next]_vars => RecoveryInv'
  BY <1>2, RecoveryStep
<1>4. RecoveryInv => StoredRecoveryIsValid
  BY DEF RecoveryInv, StoredRecoveryIsValid
<1> QED
  BY <1>1, <1>3, <1>4, ScriptInvariant, PTL DEF Spec
-----------------------------------------------------------------------------
(* The budget of attempts *)

\* What is kept of the attempts are the last ones, all of those in the window,
\* and none if the first is not in it.
LEMMA PruneKeepsLast ==
    ASSUME NEW ages \in Seq(Nat), NEW window \in Nat
    PROVE  LET kept == pruneRecoveryAttempts(ages, window)
           IN  /\ kept \in Seq(Nat) /\ Len(kept) <= Len(ages)
               /\ \A i \in 0 .. Len(kept) - 1 : kept[Len(kept) - i] = ages[Len(ages) - i]
               /\ \A i \in 0 .. Len(ages) - 1 : ages[Len(ages) - i] <= window => i < Len(kept)
               /\ Len(kept) > 0 => kept[1] <= window
<1> DEFINE P == PrunePoints(ages, window)
           k == Min(P)
           kept == pruneRecoveryAttempts(ages, window)
<1>1. P \in SUBSET Nat /\ P # {} /\ P \subseteq 0 .. Len(ages)
  BY DEF PrunePoints
<1>2. k \in P /\ \A n \in P : k <= n
  <2> HIDE DEF P
  <2>1. \E n \in P : \A m \in P : n <= m
    BY <1>1, LeastNatural
  <2> QED
    BY <2>1 DEF Min
<1>3. /\ k \in 0 .. Len(ages) /\ Len(ages) \in Nat
      /\ k = Len(ages) \/ ages[k + 1] <= window
      /\ \A n \in 0 .. Len(ages) - 1 : ages[n + 1] <= window => k <= n
  <2>1. k \in 0 .. Len(ages) /\ (k = Len(ages) \/ ages[k + 1] <= window)
    BY <1>2 DEF PrunePoints
  <2>2. \A n \in 0 .. Len(ages) - 1 : ages[n + 1] <= window => n \in P
    BY DEF PrunePoints
  <2> HIDE DEF P, k
  <2>3. \A n \in 0 .. Len(ages) - 1 : ages[n + 1] <= window => k <= n
    BY <1>2, <2>2
  <2>4. Len(ages) \in Nat
    OBVIOUS
  <2> QED
    BY <2>1, <2>3, <2>4
<1>4. kept = SubSeq(ages, k + 1, Len(ages))
  BY DEF pruneRecoveryAttempts
<1> HIDE DEF P, k, kept
<1>5. /\ kept \in Seq(Nat) /\ Len(kept) = Len(ages) - k
      /\ \A i \in 1 .. Len(ages) - k : kept[i] = ages[k + i]
  BY <1>3, <1>4
<1>6. /\ Len(kept) <= Len(ages)
      /\ \A i \in 0 .. Len(kept) - 1 : kept[Len(kept) - i] = ages[Len(ages) - i]
      /\ Len(kept) > 0 => kept[1] <= window
  <2>1. Len(kept) <= Len(ages)
    BY <1>3, <1>5
  <2>2. ASSUME NEW i \in 0 .. Len(kept) - 1
        PROVE  kept[Len(kept) - i] = ages[Len(ages) - i]
    <3>1. Len(kept) - i \in 1 .. Len(ages) - k /\ k + (Len(kept) - i) = Len(ages) - i
      BY <1>3, <1>5
    <3>2. kept[Len(kept) - i] = ages[k + (Len(kept) - i)]
      BY <1>5, <3>1
    <3> QED
      BY <3>1, <3>2
  <2>3. ASSUME Len(kept) > 0
        PROVE  kept[1] <= window
    <3>1. 1 \in 1 .. Len(ages) - k /\ k # Len(ages)
      BY <1>3, <1>5, <2>3
    <3>2. kept[1] = ages[k + 1]
      BY <1>5, <3>1
    <3> QED
      BY <1>3, <3>1, <3>2
  <2> QED
    BY <2>1, <2>2, <2>3
<1>7. ASSUME NEW i \in 0 .. Len(ages) - 1, ages[Len(ages) - i] <= window
      PROVE  i < Len(kept)
  <2>1. Len(ages) - i - 1 \in 0 .. Len(ages) - 1 /\ (Len(ages) - i - 1) + 1 = Len(ages) - i
    BY <1>3
  <2>2. k <= Len(ages) - i - 1
    BY <1>3, <1>7, <2>1
  <2> QED
    BY <1>3, <1>5, <2>2
<1> QED
  BY <1>5, <1>6, <1>7 DEF kept

\* Counted from the last one, each attempt made in the window is on record.
Covers(ages, made, window) ==
    \A i \in 0 .. Len(made) - 1 :
        made[Len(made) - i] <= window =>
            i < Len(ages) /\ ages[Len(ages) - i] <= made[Len(made) - i]

LEMMA NoneCovered == \A ages, window : Covers(ages, <<>>, window)
BY DEF Covers

LEMMA PrunedCovers ==
    ASSUME NEW ages \in Seq(Nat), NEW made \in Seq(Nat), NEW window \in Nat,
           Covers(ages, made, window)
    PROVE  Covers(pruneRecoveryAttempts(ages, window), made, window)
<1> DEFINE kept == pruneRecoveryAttempts(ages, window)
<1>1. /\ kept \in Seq(Nat) /\ Len(kept) <= Len(ages)
      /\ \A i \in 0 .. Len(kept) - 1 : kept[Len(kept) - i] = ages[Len(ages) - i]
      /\ \A i \in 0 .. Len(ages) - 1 : ages[Len(ages) - i] <= window => i < Len(kept)
  BY PruneKeepsLast
<1> HIDE DEF kept
<1>2. ASSUME NEW i \in 0 .. Len(made) - 1, made[Len(made) - i] <= window
      PROVE  i < Len(kept) /\ kept[Len(kept) - i] <= made[Len(made) - i]
  <2>1. i < Len(ages) /\ ages[Len(ages) - i] <= made[Len(made) - i]
    BY <1>2 DEF Covers
  <2>2. i \in 0 .. Len(ages) - 1 /\ Len(ages) - i \in 1 .. Len(ages)
    BY <2>1
  <2>3. ages[Len(ages) - i] \in Nat /\ made[Len(made) - i] \in Nat
    BY <2>2
  <2>4. ages[Len(ages) - i] <= window
    BY <1>2, <2>1, <2>3
  <2>5. i < Len(kept)
    BY <1>1, <2>2, <2>4
  <2>6. i \in 0 .. Len(kept) - 1
    BY <1>1, <2>5
  <2> QED
    BY <1>1, <2>1, <2>5, <2>6
<1>3. Covers(kept, made, window)
  BY <1>2 DEF Covers
<1> QED
  BY <1>3 DEF kept

LEMMA PrunedCovered ==
    ASSUME NEW ages \in Seq(Nat), NEW made \in Seq(Nat), NEW window \in Nat, NEW limit \in Nat,
           Covers(ages, made, window)
    PROVE  Covers(ages, pruneRecoveryAttempts(made, limit), window)
<1> DEFINE kept == pruneRecoveryAttempts(made, limit)
<1>1. /\ kept \in Seq(Nat) /\ Len(kept) <= Len(made)
      /\ \A i \in 0 .. Len(kept) - 1 : kept[Len(kept) - i] = made[Len(made) - i]
  BY PruneKeepsLast
<1> HIDE DEF kept
<1>2. \A i \in 0 .. Len(kept) - 1 : i \in 0 .. Len(made) - 1
  BY <1>1
<1>3. Covers(ages, kept, window)
  BY <1>1, <1>2 DEF Covers
<1> QED
  BY <1>3 DEF kept

LEMMA AppendCovers ==
    ASSUME NEW ages \in Seq(Nat), NEW made \in Seq(Nat), NEW window \in Nat,
           Covers(ages, made, window)
    PROVE  Covers(Append(ages, 0), Append(made, 0), window)
<1>1. /\ Len(ages) \in Nat /\ Len(made) \in Nat
      /\ Len(Append(ages, 0)) = Len(ages) + 1 /\ Len(Append(made, 0)) = Len(made) + 1
      /\ Append(ages, 0)[Len(ages) + 1] = 0 /\ Append(made, 0)[Len(made) + 1] = 0
      /\ \A j \in 1 .. Len(ages) : Append(ages, 0)[j] = ages[j]
      /\ \A j \in 1 .. Len(made) : Append(made, 0)[j] = made[j]
  OBVIOUS
<1>2. ASSUME NEW i \in 0 .. Len(made), Append(made, 0)[Len(made) + 1 - i] <= window
      PROVE  /\ i < Len(ages) + 1
             /\ Append(ages, 0)[Len(ages) + 1 - i] <= Append(made, 0)[Len(made) + 1 - i]
  <2>1. CASE i = 0
    BY <1>1, <2>1
  <2>2. CASE i # 0
    <3> DEFINE j == i - 1
    <3>1. /\ j \in 0 .. Len(made) - 1 /\ Len(made) + 1 - i = Len(made) - j
          /\ Len(made) - j \in 1 .. Len(made) /\ Len(ages) + 1 - i = Len(ages) - j
          /\ i = j + 1
      BY <1>1, <2>2
    <3> HIDE DEF j
    <3>2. made[Len(made) - j] <= window
      BY <1>1, <1>2, <3>1
    <3>3. j < Len(ages) /\ ages[Len(ages) - j] <= made[Len(made) - j]
      BY <3>1, <3>2 DEF Covers
    <3>4. Len(ages) - j \in 1 .. Len(ages) /\ i < Len(ages) + 1
      BY <1>1, <3>1, <3>3
    <3> QED
      BY <1>1, <3>1, <3>3, <3>4
  <2> QED
    BY <2>1, <2>2
<1> QED
  BY <1>1, <1>2 DEF Covers

LEMMA RememberCovered ==
    ASSUME NEW ages \in Seq(Nat), NEW made \in Seq(Nat), NEW window \in Nat,
           Covers(ages, made, window)
    PROVE  Covers(ages, Remember(made), window) /\ Remember(made) \in Seq(Nat)
<1>1. CASE Len(made) > MaxHistory
  <2>1. Remember(made) = Tail(made) /\ made # <<>>
    BY <1>1, BoundAssumption DEF Remember
  <2>2. /\ Len(Tail(made)) = Len(made) - 1 /\ Tail(made) \in Seq(Nat)
        /\ \A j \in 1 .. Len(made) - 1 : Tail(made)[j] = made[j + 1]
    BY <2>1
  <2>3. ASSUME NEW i \in 0 .. Len(Tail(made)) - 1
        PROVE  /\ i \in 0 .. Len(made) - 1
               /\ Tail(made)[Len(Tail(made)) - i] = made[Len(made) - i]
    BY <2>2
  <2>4. Covers(ages, Tail(made), window)
    BY <2>3 DEF Covers
  <2> QED
    BY <2>1, <2>2, <2>4
<1>2. CASE ~ (Len(made) > MaxHistory)
  BY <1>2 DEF Remember
<1> QED
  BY <1>1, <1>2

LEMMA OlderAge ==
    ASSUME NEW q \in Seq(Nat), NEW j \in 1 .. Len(q)
    PROVE  /\ Len(Older(q)) = Len(q)
           /\ q[j] < MaxAge => Older(q)[j] = q[j] + 1
           /\ ~ (q[j] < MaxAge) => Older(q)[j] = MaxAge
BY DEF Older

LEMMA OlderCovers ==
    ASSUME NEW ages \in Seq(Nat), NEW made \in Seq(Nat), NEW window \in 0 .. MaxAge - 1,
           Covers(ages, made, window)
    PROVE  Covers(Older(ages), Older(made), window)
<1>1. MaxAge \in Nat /\ window \in Nat /\ window < MaxAge
  BY WindowAssumption
<1>2. Len(Older(ages)) = Len(ages) /\ Len(Older(made)) = Len(made)
  BY DEF Older
<1>3. ASSUME NEW i \in 0 .. Len(made) - 1, Older(made)[Len(made) - i] <= window
      PROVE  i < Len(ages) /\ Older(ages)[Len(ages) - i] <= Older(made)[Len(made) - i]
  <2>1. PICK m : m = Len(made) - i
    OBVIOUS
  <2>2. m \in 1 .. Len(made) /\ made[m] \in Nat
    BY <2>1
  <2>3. made[m] < MaxAge
    <3>1. ~ (made[m] < MaxAge) => Older(made)[m] = MaxAge
      BY <2>2, OlderAge
    <3> QED
      BY <1>1, <1>3, <2>1, <3>1
  <2>4. Older(made)[m] = made[m] + 1
    BY <2>2, <2>3, OlderAge
  <2>5. made[m] <= window
    BY <1>1, <1>3, <2>1, <2>2, <2>4
  <2>6. i < Len(ages) /\ ages[Len(ages) - i] <= made[m]
    BY <2>1, <2>5 DEF Covers
  <2>7. PICK n : n = Len(ages) - i
    OBVIOUS
  <2>8. n \in 1 .. Len(ages) /\ ages[n] \in Nat
    BY <2>6, <2>7
  <2>9. ages[n] <= made[m] /\ ages[n] < MaxAge
    BY <1>1, <2>2, <2>3, <2>6, <2>7, <2>8
  <2>10. Older(ages)[n] = ages[n] + 1
    BY <2>8, <2>9, OlderAge
  <2>11. Older(ages)[n] <= Older(made)[m]
    BY <2>2, <2>4, <2>8, <2>9, <2>10
  <2> QED
    BY <2>1, <2>6, <2>7, <2>11
<1> QED
  BY <1>2, <1>3 DEF Covers

\* So there were no more attempts in the window than are on record.
LEMMA CoveredCount ==
    ASSUME NEW ages \in Seq(Nat), NEW made \in Seq(Nat), NEW window \in Nat,
           Covers(ages, made, window)
    PROVE  Len(pruneRecoveryAttempts(made, window)) <= Len(ages)
<1> DEFINE kept == pruneRecoveryAttempts(made, window)
<1>1. /\ kept \in Seq(Nat) /\ Len(kept) <= Len(made)
      /\ \A i \in 0 .. Len(kept) - 1 : kept[Len(kept) - i] = made[Len(made) - i]
      /\ Len(kept) > 0 => kept[1] <= window
  BY PruneKeepsLast
<1> HIDE DEF kept
<1>2. CASE Len(kept) > 0
  <2> DEFINE i == Len(kept) - 1
  <2>1. /\ i \in 0 .. Len(kept) - 1 /\ i \in 0 .. Len(made) - 1 /\ Len(kept) - i = 1
        /\ i + 1 = Len(kept)
    BY <1>1, <1>2
  <2> HIDE DEF i
  <2>2. made[Len(made) - i] <= window
    BY <1>1, <1>2, <2>1
  <2>3. i < Len(ages)
    BY <2>1, <2>2 DEF Covers
  <2>4. Len(ages) \in Nat /\ i \in Nat
    BY <2>1
  <2> QED
    BY <2>1, <2>3, <2>4 DEF kept
<1>3. CASE ~ (Len(kept) > 0)
  BY <1>1, <1>3 DEF kept
<1> QED
  BY <1>2, <1>3

\* The manager has every attempt of the window in memory, and the file has them
\* for the next manager.
Recorded(state) == Covers(state.attempts, launches, settings.window)
BudgetInv == (web = "up" => Recorded(rec)) /\ Recorded(recDisk)

\* One window, and every save succeeds.
OneWindow == \A v, w \in Windows : v = w

LEMMA WindowTypes ==
    ASSUME BudgetTypes
    PROVE  /\ settings.window \in 0 .. MaxAge - 1 /\ settings.window \in Nat
           /\ settings.window \in Windows
<1>1. settings.window \in Windows
  BY DEF BudgetTypes, SettingsValues
<1>2. MaxAge \in Nat /\ settings.window \in 0 .. MaxAge - 1
  BY <1>1, WindowAssumption
<1>3. settings.window \in Nat
  BY <1>2
<1> QED
  BY <1>1, <1>2, <1>3

\* Steps that make no attempt, at a manager that is up.
LEMMA RecordedKept ==
    ASSUME BudgetInv, web = "up", settings'.window = settings.window, launches' = launches,
           Covers(rec'.attempts, launches, settings.window),
           recDisk' = rec' \/ recDisk' = recDisk
    PROVE  BudgetInv'
BY DEF BudgetInv, Recorded

LEMMA PrunedRecorded ==
    ASSUME TypeOK, BudgetInv, web = "up"
    PROVE  /\ Covers(rec.attempts, launches, settings.window)
           /\ Covers(Pruned, launches, settings.window)
           /\ rec.attempts \in Seq(Nat) /\ Pruned \in Seq(Nat) /\ launches \in Seq(Nat)
<1>1. /\ rec.attempts \in Seq(Nat) /\ Pruned \in Seq(Nat) /\ launches \in Seq(Nat)
      /\ settings.window \in Nat
  BY TypeParts, SettingsTypes, RecoveryStateTypes DEF RecTypes, BudgetTypes
<1>2. Covers(rec.attempts, launches, settings.window)
  BY DEF BudgetInv, Recorded
<1>3. Covers(Pruned, launches, settings.window)
  BY <1>1, <1>2, PrunedCovers DEF Pruned
<1> QED
  BY <1>1, <1>2, <1>3

\* What a decision makes of the attempts.
LEMMA DecideAttempts ==
    ASSUME TypeOK, RecordInv, ~ DiskFaults, Decide
    PROVE  /\ web = "up" /\ web' = "up" /\ settings' = settings
           /\ recDisk' = rec' \/ (recDisk' = recDisk /\ launches' = launches)
           /\ \/ rec'.attempts = Pruned /\ launches' = launches
              \/ /\ rec'.attempts = Append(Pruned, 0)
                 /\ launches' = Remember(Append(launches, 0))
                 /\ Len(Pruned) < settings.max
<1>1. rec \in RecoveryStates /\ wd.pc # "idle"
  BY TypeParts DEF RecTypes, Decide, Deciding
<1>2. web = "up" /\ web' = "up" /\ settings' = settings
  BY <1>1, ActiveIsUp DEF Decide, NotWatchdog
<1> DEFINE pruned == [rec EXCEPT !.attempts = Pruned]
<1>3. \A next, e :
          /\ pruned.attempts = Pruned
          /\ [pruned EXCEPT !.next = next].attempts = Pruned
          /\ [pruned EXCEPT !.next = next, !.exhausted = e].attempts = Pruned
          /\ [rec EXCEPT !.attempts = Append(Pruned, 0), !.next = next].attempts
                 = Append(Pruned, 0)
  BY <1>1 DEF RecoveryStates
<1>4. \A value : SaveRecovery(value) => recDisk' = value
  BY DEF SaveRecovery
<1> DEFINE Kept == rec'.attempts = Pruned /\ launches' = launches
           Made == /\ rec'.attempts = Append(Pruned, 0)
                   /\ launches' = Remember(Append(launches, 0))
                   /\ Len(Pruned) < settings.max
           Saved == recDisk' = rec' \/ (recDisk' = recDisk /\ launches' = launches)
<1>5. (Kept \/ Made) /\ Saved
  <2>1. CASE /\ rec' = [pruned EXCEPT !.next = Unscheduled]
             /\ SaveRecovery(rec') /\ UNCHANGED launches
    BY <1>3, <1>4, <2>1
  <2>2. CASE /\ rec' = [pruned EXCEPT !.next = Unscheduled, !.exhausted = TRUE]
             /\ SaveRecovery(rec') /\ UNCHANGED launches
    BY <1>3, <1>4, <2>2
  <2>3. CASE /\ rec' = [pruned EXCEPT !.next = RecoveryDelay[Len(Pruned)]]
             /\ SaveRecovery(rec') /\ UNCHANGED launches
    BY <1>3, <1>4, <2>3
  <2>4. CASE rec' = pruned /\ UNCHANGED <<recDisk, launches>>
    BY <1>3, <2>4
  <2>5. CASE Len(Pruned) < settings.max /\ MakeAttempt
    BY <1>3, <1>4, <2>5 DEF MakeAttempt
  <2> HIDE DEF Kept, Made, Saved, pruned
  <2> QED
    BY <2>1, <2>2, <2>3, <2>4, <2>5 DEF Decide, pruned
<1> QED
  BY <1>2, <1>5

LEMMA DecideBudget ==
    ASSUME TypeOK, RecordInv, BudgetInv, ~ DiskFaults, Decide
    PROVE  BudgetInv'
<1>1. /\ web = "up" /\ web' = "up" /\ settings' = settings
      /\ recDisk' = rec' \/ (recDisk' = recDisk /\ launches' = launches)
      /\ \/ rec'.attempts = Pruned /\ launches' = launches
         \/ /\ rec'.attempts = Append(Pruned, 0)
            /\ launches' = Remember(Append(launches, 0))
  BY DecideAttempts
<1>2. /\ Covers(Pruned, launches, settings.window)
      /\ Pruned \in Seq(Nat) /\ launches \in Seq(Nat)
  BY <1>1, PrunedRecorded
<1>3. CASE rec'.attempts = Pruned /\ launches' = launches
  BY <1>1, <1>2, <1>3, RecordedKept
<1>4. CASE rec'.attempts = Append(Pruned, 0) /\ launches' = Remember(Append(launches, 0))
  <2>1. settings.window \in Nat
    BY TypeParts, WindowTypes
  <2>2. Covers(Append(Pruned, 0), Append(launches, 0), settings.window)
    BY <1>2, <2>1, AppendCovers
  <2>3. Append(Pruned, 0) \in Seq(Nat) /\ Append(launches, 0) \in Seq(Nat)
    BY <1>2
  <2>4. Covers(rec'.attempts, launches', settings.window)
    BY <1>4, <2>1, <2>2, <2>3, RememberCovered
  <2>5. CASE recDisk' = rec'
    BY <1>1, <2>4, <2>5 DEF BudgetInv, Recorded
  <2>6. CASE recDisk' = recDisk /\ launches' = launches
    BY <1>1, <2>4, <2>6 DEF BudgetInv, Recorded
  <2> QED
    BY <1>1, <2>5, <2>6
<1> QED
  BY <1>1, <1>3, <1>4

LEMMA BudgetStep ==
    ASSUME TypeOK, TypeOK', RecordInv, BudgetInv, ~ DiskFaults, OneWindow, Next
    PROVE  BudgetInv'
<1>1. /\ rec \in RecoveryStates /\ recDisk \in RecoveryStates
      /\ rec.attempts \in Seq(Nat) /\ recDisk.attempts \in Seq(Nat) /\ launches \in Seq(Nat)
      /\ settings.window \in 0 .. MaxAge - 1 /\ settings.window \in Nat
  BY TypeParts, WindowTypes, RecoveryStateTypes DEF RecTypes, BudgetTypes
<1>2. settings'.window = settings.window
  BY DEF TypeOK, SettingsValues, OneWindow
<1>3. ASSUME UNCHANGED <<rec, recDisk, launches>>, web' = "up" => web = "up"
      PROVE  BudgetInv'
  BY <1>2, <1>3 DEF BudgetInv, Recorded
<1>4. \A value : SaveRecovery(value) => recDisk' = value
  BY DEF SaveRecovery
<1>5. CASE Script \/ Shell \/ Orphan \/ Manager
  <2>1. UNCHANGED recoveryVars /\ web' = web
    BY <1>5 DEF Script, ScriptStep, TakeLock, CheckPrecondition, WriteDesired, StopServer,
                UpdateServer, Arm, LaunchServer, AwaitServer, Disarm, Shell, RunScript,
                Orphan, OrphanDies, Manager, StartOperation, FinishOperation,
                ManagerLocks, ManagerUnlocks
  <2> QED
    BY <1>3, <2>1 DEF recoveryVars
<1>6. CASE WatchdogStep
  <2>1. CASE ObserveProcess \/ ObserveDesired \/ ObserveBusy \/ ProbeLock
    BY <1>3, <2>1 DEF ObserveProcess, ObserveDesired, ObserveBusy, ProbeLock, NotWatchdog
  <2>2. ASSUME wd.pc # "idle"
        PROVE  /\ web = "up"
               /\ Covers(rec.attempts, launches, settings.window)
               /\ Covers(Pruned, launches, settings.window)
    BY <2>2, ActiveIsUp, PrunedRecorded
  <2>3. CASE ObserveRunning
    <3>1. /\ wd.pc # "idle" /\ launches' = launches /\ (recDisk' = rec' \/ recDisk' = recDisk)
          /\ rec' = [NoIncident EXCEPT !.attempts = Pruned]
      BY <1>4, <2>3 DEF ObserveRunning
    <3>2. rec'.attempts = Pruned
      BY <3>1 DEF NoIncident
    <3> QED
      BY <1>2, <2>2, <3>1, <3>2, RecordedKept
  <2>4. CASE ObserveStopped
    BY <2>4, NoneCovered DEF ObserveStopped, BudgetInv, Recorded
  <2>5. CASE RecordCrash
    <3>1. /\ wd.pc # "idle" /\ launches' = launches /\ recDisk' = rec'
          /\ rec' = [rec EXCEPT !.incident = TRUE, !.next = Unscheduled, !.exhausted = FALSE]
      BY <1>4, <2>5 DEF RecordCrash
    <3>2. rec'.attempts = rec.attempts
      BY <1>1, <3>1 DEF RecoveryStates
    <3> QED
      BY <1>2, <2>2, <3>1, <3>2, RecordedKept
  <2>6. CASE Decide
    BY <2>6, DecideBudget
  <2>7. CASE RequestRecovery \/ StartRecovery
    <3>1. /\ wd.pc # "idle" /\ launches' = launches /\ rec' = rec
          /\ recDisk' = rec' \/ recDisk' = recDisk
      BY <1>4, <2>7 DEF RequestRecovery, StartRecovery
    <3> QED
      BY <1>2, <2>2, <3>1, RecordedKept
  <2> QED
    BY <1>6, <2>1, <2>3, <2>4, <2>5, <2>6, <2>7 DEF WatchdogStep
<1>7. CASE Administrator
  <2>1. CASE \E action \in HttpActions : RequestOperation(action)
    BY <1>3, <2>1 DEF RequestOperation, recoveryVars
  <2>2. ASSUME NEW new \in SettingsValues, SetRecoverySettings(new)
        PROVE  BudgetInv'
    <3> DEFINE kept == pruneRecoveryAttempts(rec.attempts, new.window)
    <3>1. /\ web = "up" /\ settings' = new /\ launches' = launches /\ recDisk' = rec'
          /\ rec' = IF ~new.enabled
                    THEN [rec EXCEPT !.attempts = kept, !.next = Unscheduled,
                                     !.exhausted = FALSE]
                    ELSE IF rec.incident
                    THEN [rec EXCEPT !.attempts = kept, !.next = 0, !.exhausted = FALSE]
                    ELSE [rec EXCEPT !.attempts = kept]
      BY <1>4, <2>2 DEF SetRecoverySettings
    <3>2. kept = Pruned
      BY <1>2, <3>1 DEF Pruned
    <3> HIDE DEF kept
    <3>3. rec'.attempts = kept
      BY <1>1, <3>1 DEF RecoveryStates
    <3> QED
      BY <1>2, <3>1, <3>2, <3>3, PrunedRecorded, RecordedKept
  <2>3. CASE RequestRetry
    BY <1>3, <2>3 DEF RequestRetry, NotWatchdog
  <2>4. CASE RetryNow
    <3>1. CASE settings.enabled
      BY <2>4, <3>1, NoneCovered DEF RetryNow, BudgetInv, Recorded
    <3>2. CASE ~settings.enabled
      BY <1>3, <2>4, <3>2 DEF RetryNow, NotWatchdog
    <3> QED
      BY <3>1, <3>2
  <2> QED
    BY <1>7, <2>1, <2>2, <2>3, <2>4 DEF Administrator
<1>8. CASE Environment
  <2>1. CASE ProcessAppears \/ ProcessExits
    BY <1>3, <2>1 DEF ProcessAppears, ProcessExits, recoveryVars
  <2>2. CASE WebStops \/ HostReboots
    BY <1>2, <2>2 DEF WebStops, HostReboots, ForgetMemory, BudgetInv, Recorded
  <2>3. CASE WebStarts
    <3> DEFINE kept == pruneRecoveryAttempts(recDisk.attempts, settings.window)
    <3>1. Covers(kept, launches, settings.window)
      BY <1>1, PrunedCovers DEF BudgetInv, Recorded
    <3>2. /\ \/ rec' = [NoIncident EXCEPT !.attempts = kept] /\ recDisk' = rec'
             \/ rec' = [recDisk EXCEPT !.attempts = kept] /\ recDisk' = recDisk
          /\ launches' = launches
      BY <2>3 DEF WebStarts
    <3> HIDE DEF kept
    <3>3. rec'.attempts = kept
      BY <1>1, <3>2 DEF NoIncident, RecoveryStates
    <3> QED
      BY <1>2, <3>1, <3>2, <3>3 DEF BudgetInv, Recorded
  <2>4. CASE Tick
    <3>1. /\ rec' = LaterState(rec) /\ recDisk' = LaterState(recDisk) /\ web' = web
          /\ launches' = pruneRecoveryAttempts(Older(launches), MaxAge - 1)
      BY <2>4 DEF Tick
    <3>2. \A state \in RecoveryStates : LaterState(state).attempts = Older(state.attempts)
      BY DEF LaterState, RecoveryStates
    <3>3. MaxAge - 1 \in Nat
      BY <1>1, WindowAssumption
    <3>4. Older(rec.attempts) \in Seq(Nat) /\ Older(recDisk.attempts) \in Seq(Nat)
          /\ Older(launches) \in Seq(Nat)
      BY <1>1, OlderKeepsOrder
    <3>5. ASSUME NEW ages \in Seq(Nat), Older(ages) \in Seq(Nat),
                 Covers(ages, launches, settings.window)
          PROVE  Covers(Older(ages), launches', settings.window)
      <4>1. Covers(Older(ages), Older(launches), settings.window)
        BY <1>1, <3>5, OlderCovers
      <4> QED
        BY <1>1, <3>1, <3>3, <3>4, <3>5, <4>1, PrunedCovered
    <3> QED
      BY <1>1, <1>2, <3>1, <3>2, <3>4, <3>5 DEF BudgetInv, Recorded
  <2> QED
    BY <1>8, <2>1, <2>2, <2>3, <2>4 DEF Environment
<1> QED
  BY <1>5, <1>6, <1>7, <1>8 DEF Next

\* Attempts are made in decisions only, and what else changes their history
\* leaves none that has just been made.
LEMMA OtherLaunches ==
    ASSUME TypeOK, Next, ~ Decide
    PROVE  \/ launches' = launches \/ launches' = <<>>
           \/ launches' = pruneRecoveryAttempts(Older(launches), MaxAge - 1)
<1>1. CASE Script \/ Shell \/ Orphan \/ Manager
  BY <1>1 DEF Script, ScriptStep, TakeLock, CheckPrecondition, WriteDesired, StopServer,
              UpdateServer, Arm, LaunchServer, AwaitServer, Disarm, Shell, RunScript,
              Orphan, OrphanDies, Manager, StartOperation, FinishOperation,
              ManagerLocks, ManagerUnlocks, recoveryVars
<1>2. CASE WatchdogStep
  BY <1>2 DEF WatchdogStep, ObserveProcess, ObserveDesired, ObserveRunning, ObserveStopped,
              ObserveBusy, ProbeLock, RecordCrash, RequestRecovery, StartRecovery
<1>3. CASE Administrator
  BY <1>3 DEF Administrator, RequestOperation, SetRecoverySettings, RequestRetry, RetryNow,
              recoveryVars
<1>4. CASE Environment
  BY <1>4 DEF Environment, ProcessAppears, ProcessExits, WebStops, WebStarts, HostReboots,
              Tick, ForgetMemory, recoveryVars
<1> QED
  BY <1>1, <1>2, <1>3, <1>4 DEF Next

\* Nothing that has grown older was made just now.
LEMMA OlderIsPast ==
    ASSUME NEW made \in Seq(Nat), MaxAge \in Nat \ {0}
    PROVE  LET kept == pruneRecoveryAttempts(Older(made), MaxAge - 1)
           IN  0 \notin {kept[i] : i \in 1 .. Len(kept)}
<1> DEFINE kept == pruneRecoveryAttempts(Older(made), MaxAge - 1)
<1>1. Older(made) \in Seq(Nat) /\ MaxAge - 1 \in Nat
  BY OlderKeepsOrder
<1>2. /\ kept \in Seq(Nat) /\ Len(kept) <= Len(Older(made))
      /\ \A i \in 0 .. Len(kept) - 1 : kept[Len(kept) - i] = Older(made)[Len(Older(made)) - i]
  BY <1>1, PruneKeepsLast
<1> HIDE DEF kept
<1>3. ASSUME NEW j \in 1 .. Len(made)
      PROVE  Older(made)[j] # 0
  BY OlderAge
<1>4. Len(Older(made)) = Len(made)
  BY DEF Older
<1>5. ASSUME NEW i \in 1 .. Len(kept)
      PROVE  kept[i] # 0
  <2> DEFINE j == Len(kept) - i
  <2>1. /\ j \in 0 .. Len(kept) - 1 /\ Len(kept) - j = i
        /\ Len(Older(made)) - j \in 1 .. Len(made)
    BY <1>2, <1>4
  <2> HIDE DEF j
  <2> QED
    BY <1>2, <1>3, <2>1
<1> QED
  BY <1>5 DEF kept

\* With one window and files that can be written, there are never more attempts
\* within it than the limit in force when the last was made, however often the
\* limit is changed and the manager or the host ends and starts in between
\* (observeRecovery saves the attempt before it makes it).
THEOREM AttemptsStayWithinBudget ==
    ASSUME ~ DiskFaults, OneWindow
    PROVE  Spec => RecoveryWithinBudget
<1>1. Init => BudgetInv
  BY NoneCovered DEF Init, BudgetInv, Recorded
<1>2. TypeOK /\ TypeOK' /\ RecordInv /\ BudgetInv /\ [Next]_vars => BudgetInv'
  <2>1. BudgetInv /\ UNCHANGED vars => BudgetInv'
    BY DEF vars, recoveryVars, BudgetInv, Recorded
  <2> QED
    BY <2>1, BudgetStep
<1> DEFINE Within ==
        launches' # launches /\ 0 \in {launches'[i] : i \in 1 .. Len(launches')}
            => Len(pruneRecoveryAttempts(launches', settings.window)) <= settings.max
<1>3. TypeOK /\ TypeOK' /\ RecordInv /\ BudgetInv /\ BudgetInv' /\ Next => Within
  <2> SUFFICES ASSUME TypeOK, TypeOK', RecordInv, BudgetInv, BudgetInv', Next
               PROVE  Within
    OBVIOUS
  <2>1. CASE Decide
    <3>1. /\ web = "up" /\ web' = "up" /\ settings' = settings
          /\ \/ launches' = launches
             \/ /\ rec'.attempts = Append(Pruned, 0)
                /\ launches' = Remember(Append(launches, 0))
                /\ Len(Pruned) < settings.max
      BY <2>1, DecideAttempts
    <3>2. CASE launches' = launches
      BY <3>2
    <3>3. CASE launches' # launches
      <4>1. /\ Pruned \in Seq(Nat) /\ launches \in Seq(Nat) /\ settings.window \in Nat
            /\ settings.max \in Nat
        BY <3>1, PrunedRecorded, TypeParts, SettingsTypes
      <4>2. /\ Append(Pruned, 0) \in Seq(Nat) /\ Len(Append(Pruned, 0)) = Len(Pruned) + 1
            /\ Append(launches, 0) \in Seq(Nat)
        BY <4>1
      <4>3. Covers(Append(Pruned, 0), launches', settings.window)
        BY <3>1, <3>3 DEF BudgetInv, Recorded
      <4>4. launches' \in Seq(Nat)
        BY DEF TypeOK
      <4>5. Len(pruneRecoveryAttempts(launches', settings.window)) <= Len(Append(Pruned, 0))
        BY <4>1, <4>2, <4>3, <4>4, CoveredCount
      <4>6. pruneRecoveryAttempts(launches', settings.window) \in Seq(Nat)
        BY <4>1, <4>4, PruneKeepsLast
      <4>7. Len(Pruned) + 1 <= settings.max
        BY <3>1, <3>3, <4>1
      <4>8. Len(pruneRecoveryAttempts(launches', settings.window)) \in Nat
        BY <4>6
      <4>9. Len(pruneRecoveryAttempts(launches', settings.window)) <= settings.max
        BY <4>1, <4>2, <4>5, <4>7, <4>8
      <4> QED
        BY <4>9
    <3> QED
      BY <3>2, <3>3
  <2>2. CASE ~ Decide
    <3>1. launches \in Seq(Nat) /\ MaxAge \in Nat \ {0}
      BY TypeParts, WindowTypes, WindowAssumption DEF BudgetTypes
    <3>2. \/ launches' = launches \/ launches' = <<>>
          \/ launches' = pruneRecoveryAttempts(Older(launches), MaxAge - 1)
      BY <2>2, OtherLaunches
    <3>3. CASE launches' = <<>>
      BY <3>3
    <3>4. CASE launches' = pruneRecoveryAttempts(Older(launches), MaxAge - 1)
      BY <3>1, <3>4, OlderIsPast
    <3> QED
      BY <3>2, <3>3, <3>4
  <2> QED
    BY <2>1, <2>2
<1>4. TypeOK /\ TypeOK' /\ RecordInv /\ BudgetInv /\ BudgetInv' /\ [Next]_vars => [Within]_vars
  BY <1>3
<1> QED
  BY <1>1, <1>2, <1>4, ScriptInvariant, PTL DEF Spec, RecoveryWithinBudget
==============================================================================
