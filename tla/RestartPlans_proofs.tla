------------------------ MODULE RestartPlans_proofs ------------------------
(***************************************************************************)
(* Proofs about RestartPlans, for every choice of plans, policies,         *)
(* products, notices and times that its assumptions admit.                 *)
(***************************************************************************)
EXTENDS RestartPlans, FiniteSetTheorems, TLAPS

-----------------------------------------------------------------------------
(* Times and notices *)

\* Every gap lies within Lefts, and so do the other times a plan begins with.
LEMMA Times ==
    /\ Late \in Nat /\ Lead \in Nat /\ MaxGap \in Nat /\ Lead <= MaxGap
    /\ \A n \in Gaps : n \in Nat /\ n <= MaxGap
    /\ Lefts \in SUBSET Int /\ 0 \in Lefts
    /\ \A policy \in AllPolicies : LeftsOf(policy) \subseteq Lefts
    /\ \A left \in Lefts : OccurrencesAfter(left) \subseteq Lefts
    /\ Gaps \subseteq Lefts
<1>1. PICK top \in Gaps : \A m \in Gaps : m <= top
  BY TimeAssumption
<1>2. MaxGap \in Gaps /\ \A m \in Gaps : m <= MaxGap
  BY <1>1 DEF MaxGap
<1>3. /\ Late \in Nat /\ Lead \in Nat /\ MaxGap \in Nat /\ Lead <= MaxGap
      /\ \A n \in Gaps : n \in Nat /\ n <= MaxGap
  BY <1>2, TimeAssumption
<1>4. /\ Lefts \in SUBSET Int /\ 0 \in Lefts /\ Gaps \subseteq Lefts
      /\ {Lead} \subseteq Lefts
  BY <1>3 DEF Lefts
<1>5. \A policy \in AllPolicies : LeftsOf(policy) \subseteq Lefts
  BY <1>4 DEF LeftsOf, AllPolicies
<1>6. \A left \in Lefts : OccurrencesAfter(left) \subseteq Lefts
  BY <1>4 DEF OccurrencesAfter
<1> QED
  BY <1>3, <1>4, <1>5, <1>6

\* Due notices are counted from the list there is.
LEMMA NoticeCount ==
    /\ Last \in Nat
    /\ \A left \in Lefts : DueNotice(left) \in 0 .. Last
<1>1. Last \in Nat
  BY NoticeAssumption DEF Last
<1>2. ASSUME NEW left \in Lefts
      PROVE  DueNotice(left) \in 0 .. Last
  <2> DEFINE D == {i \in Notices : left <= NoticeAt[i]}
  <2>1. IsFiniteSet(Notices) /\ Cardinality(Notices) = Last
    <3>1. IsFiniteSet(1 .. Last) /\ Cardinality(1 .. Last) = IF 1 > Last THEN 0 ELSE Last - 1 + 1
      BY <1>1, FS_Interval
    <3> QED
      BY <3>1, <1>1 DEF Notices
  <2>2. D \in SUBSET Notices
    OBVIOUS
  <2>3. IsFiniteSet(D) /\ Cardinality(D) <= Last
    BY <2>1, <2>2, FS_Subset
  <2>4. Cardinality(D) \in Nat
    BY <2>3, FS_CardinalityType
  <2> QED
    BY <2>3, <2>4, <1>1 DEF DueNotice
<1> QED
  BY <1>1, <1>2

-----------------------------------------------------------------------------
(* Types, by the variables an action leaves alone together *)

ServerOK ==
    /\ running \in BOOLEAN
    /\ op \in {"none", "start", "stop", "restart", "update"}
    /\ updating \in BOOLEAN /\ quiet \in BOOLEAN
AdminOK ==
    /\ settings \in Settings /\ offer \subseteq Products
    /\ detected \in BOOLEAN /\ ensuring \in BOOLEAN

\* A plan of the automatic update always has a target: its policy is looked up
\* under one.
Targeted(k, s) == k = "auto" => s = NoPlan \/ s.targets # {}
PlansOK ==
    /\ plan \in [Kinds -> Plan]
    /\ told \in [Kinds -> SUBSET (Lefts \X (0 .. Last))]
    /\ visited \in [Kinds -> BOOLEAN]
    /\ \A k \in Kinds : Targeted(k, plan[k])
LoopOK == loop \in [Kinds -> Loop]
WakeOK == wake \in [Kinds -> BOOLEAN]
IInv == ServerOK /\ AdminOK /\ PlansOK /\ LoopOK /\ WakeOK

LEMMA TypeParts == IInv => TypeOK
BY DEF IInv, TypeOK, ServerOK, AdminOK, PlansOK, LoopOK, WakeOK

LEMMA PlanTypes ==
    /\ NoPlan \in Plan
    /\ \A p \in Processes, policy \in AllPolicies, targets \in SUBSET Products,
          left \in Lefts : NewPlan(p, policy, targets, left) \in Plan
    /\ \A p, policy, targets, left : NewPlan(p, policy, targets, left).targets = targets
<1>1. 0 \in Lefts /\ Last \in Nat
  BY Times, NoticeCount
<1>2. \A p \in Processes, policy \in AllPolicies, targets \in SUBSET Products,
          left \in Lefts : NewPlan(p, policy, targets, left) \in Plan
  BY <1>1 DEF NewPlan, Plan
<1>3. NoPlan \in Plan
  BY <1>1, <1>2 DEF NoPlan, Processes, AllPolicies
<1>4. \A p, policy, targets, left : NewPlan(p, policy, targets, left).targets = targets
  BY DEF NewPlan
<1> QED
  BY <1>2, <1>3, <1>4

LEMMA KeptPlans ==
    ASSUME PlansOK, KeepPlans
    PROVE  PlansOK'
BY DEF PlansOK, KeepPlans

LEMMA SetPlanType ==
    ASSUME PlansOK, NEW k \in Kinds, NEW new \in Plan, Targeted(k, new), SetPlan(k, new)
    PROVE  /\ plan' \in [Kinds -> Plan]
           /\ \A j \in Kinds : Targeted(j, plan'[j])
BY DEF PlansOK, SetPlan

LEMMA ReplacedPlan ==
    ASSUME PlansOK, NEW k \in Kinds, NEW new \in Plan, Targeted(k, new), ReplacePlan(k, new)
    PROVE  PlansOK'
<1>1. /\ plan' \in [Kinds -> Plan]
      /\ \A j \in Kinds : Targeted(j, plan'[j])
  BY SetPlanType DEF ReplacePlan
<1>2. told' = told /\ visited' \in [Kinds -> BOOLEAN]
  BY DEF ReplacePlan, PlansOK
<1> QED
  BY <1>1, <1>2 DEF PlansOK, Targeted

LEMMA EditedPlan ==
    ASSUME PlansOK, NEW k \in Kinds, NEW new \in Plan, Targeted(k, new), EditPlan(k, new)
    PROVE  PlansOK'
<1>1. /\ plan' \in [Kinds -> Plan]
      /\ \A j \in Kinds : Targeted(j, plan'[j])
  BY SetPlanType DEF EditPlan
<1>2. told' = told /\ visited' = visited
  BY DEF EditPlan
<1> QED
  BY <1>1, <1>2 DEF PlansOK, Targeted

\* What a loop does to its place.
LEMMA LoopMoves ==
    ASSUME LoopOK, running \in BOOLEAN, NEW k \in Kinds, NEW pc \in LoopSteps
    PROVE  /\ Return(k, pc) => LoopOK'
           /\ GoOn(k, pc) => LoopOK'
           /\ \A s \in Plan : Read(k, pc, s) => LoopOK'
           /\ Outdates(k) => LoopOK'
           /\ UNCHANGED loop => LoopOK'
<1>1. IdleLoop(pc) \in Loop
  BY PlanTypes DEF IdleLoop, Loop
<1>2. Return(k, pc) => LoopOK'
  BY <1>1 DEF Return, LoopOK
<1>3. GoOn(k, pc) => LoopOK'
  BY DEF GoOn, LoopOK, Loop
<1>4. ASSUME NEW s \in Plan, Read(k, pc, s)
      PROVE  LoopOK'
  BY <1>4 DEF Read, LoopOK, Loop
<1>5. Outdates(k) => LoopOK'
  BY DEF Outdates, LoopOK, Loop, Resting
<1> QED
  BY <1>2, <1>3, <1>4, <1>5 DEF LoopOK

LEMMA Signals ==
    ASSUME WakeOK, NEW ks, Signal(ks)
    PROVE  WakeOK'
BY Zenon DEF Signal, WakeOK

\* The same, for any loop and place at once.
LEMMA AnyLoopMove ==
    ASSUME LoopOK, running \in BOOLEAN
    PROVE  /\ \A k \in Kinds, pc \in LoopSteps : Return(k, pc) \/ GoOn(k, pc) => LoopOK'
           /\ \A k \in Kinds, pc \in LoopSteps, s \in Plan : Read(k, pc, s) => LoopOK'
           /\ \A k \in Kinds : Outdates(k) => LoopOK'
           /\ UNCHANGED loop => LoopOK'
<1>1. ASSUME NEW k \in Kinds, NEW pc \in LoopSteps
      PROVE  /\ Return(k, pc) \/ GoOn(k, pc) => LoopOK'
             /\ \A s \in Plan : Read(k, pc, s) => LoopOK'
  BY LoopMoves
<1>2. ASSUME NEW k \in Kinds
      PROVE  Outdates(k) => LoopOK'
  <2>1. "timer" \in LoopSteps
    BY DEF LoopSteps
  <2> QED
    BY <2>1, LoopMoves
<1>3. UNCHANGED loop => LoopOK'
  BY DEF LoopOK
<1> QED
  BY <1>1, <1>2, <1>3

LEMMA SeenTypes ==
    ASSUME LoopOK, NEW k \in Kinds
    PROVE  /\ Seen(k) \in Plan /\ Seen(k).left \in Lefts
           /\ Seen(k).pid \in Processes /\ Seen(k).policy \in AllPolicies
           /\ Seen(k).targets \in SUBSET Products
           /\ DueNotice(Seen(k).left) \in 0 .. Last
<1>1. Seen(k) \in Plan
  BY DEF LoopOK, Loop, Seen
<1> QED
  BY <1>1, NoticeCount DEF Plan

LEMMA KindSet == "mod" \in Kinds /\ "auto" \in Kinds /\ "sched" \in Kinds
BY DEF Kinds

LEMMA StepNames ==
    \A pc \in {"timer", "asleep", "ensure", "decide", "update", "notice", "advance",
              "waiting", "announced", "resume", "empty", "final", "mark", "request",
              "record"} : pc \in LoopSteps
BY DEF LoopSteps

\* What is left alone keeps its type.
LEMMA Untouched ==
    ASSUME IInv
    PROVE  /\ UNCHANGED serverVars => ServerOK'
           /\ UNCHANGED adminVars => AdminOK'
           /\ UNCHANGED wake => WakeOK'
           /\ KeepPlans => PlansOK'
           /\ UNCHANGED <<plan, told, visited>> => PlansOK'
BY DEF IInv, serverVars, adminVars, ServerOK, AdminOK, WakeOK, PlansOK, KeepPlans

-----------------------------------------------------------------------------
(* The steps the loops have in common *)

LEMMA NoticeTypes ==
    ASSUME IInv, NEW k \in Kinds, SendNotice(k)
    PROVE  IInv'
<1> USE DEF IInv
<1>1. ServerOK' /\ AdminOK' /\ WakeOK'
  BY Untouched DEF SendNotice
<1>2. LoopOK'
  BY AnyLoopMove, StepNames DEF SendNotice, ServerOK
<1>3. PlansOK'
  <2>1. told' \in [Kinds -> SUBSET (Lefts \X (0 .. Last))]
    <3>1. CASE UNCHANGED told
      BY <3>1 DEF PlansOK
    <3>2. CASE told' = [told EXCEPT ![k] = @ \cup {<<Seen(k).left, DueNotice(Seen(k).left)>>}]
      <4>1. <<Seen(k).left, DueNotice(Seen(k).left)>> \in Lefts \X (0 .. Last)
        BY SeenTypes
      <4> QED
        BY <3>2, <4>1 DEF PlansOK
    <3> QED
      BY <3>1, <3>2 DEF SendNotice
  <2>2. plan' = plan /\ visited' = visited
    BY DEF SendNotice
  <2> QED
    BY <2>1, <2>2 DEF PlansOK
<1> QED
  BY <1>1, <1>2, <1>3

\* A field of a plan that is there may be edited.
LEMMA EditedField ==
    ASSUME PlansOK, NEW k \in Kinds, Planned(k)
    PROVE  /\ \A n \in 0 .. Last :
                  EditPlan(k, [plan[k] EXCEPT !.notice = n]) => PlansOK'
           /\ EditPlan(k, [plan[k] EXCEPT !.waiting = TRUE]) => PlansOK'
           /\ EditPlan(k, [plan[k] EXCEPT !.final = TRUE]) => PlansOK'
           /\ \A v \in {"never", "now", "grace"} :
                  /\ [plan[k] EXCEPT !.since = v] \in Plan
                  /\ Targeted(k, [plan[k] EXCEPT !.since = v])
<1>1. plan[k] \in Plan /\ (k = "auto" => plan[k].targets # {})
  BY DEF PlansOK, Targeted, Planned
<1>2. ASSUME NEW n \in 0 .. Last
      PROVE  /\ [plan[k] EXCEPT !.notice = n] \in Plan
             /\ Targeted(k, [plan[k] EXCEPT !.notice = n])
  BY <1>1 DEF Plan, Targeted
<1>3. /\ [plan[k] EXCEPT !.waiting = TRUE] \in Plan
      /\ Targeted(k, [plan[k] EXCEPT !.waiting = TRUE])
  BY <1>1 DEF Plan, Targeted
<1>4. /\ [plan[k] EXCEPT !.final = TRUE] \in Plan
      /\ Targeted(k, [plan[k] EXCEPT !.final = TRUE])
  BY <1>1 DEF Plan, Targeted
<1>5. ASSUME NEW v \in {"never", "now", "grace"}
      PROVE  /\ [plan[k] EXCEPT !.since = v] \in Plan
             /\ Targeted(k, [plan[k] EXCEPT !.since = v])
  BY <1>1 DEF Plan, Targeted
<1> QED
  BY <1>2, <1>3, <1>4, <1>5, EditedPlan

LEMMA SamePlan ==
    ASSUME NEW k \in Kinds, Same(k)
    PROVE  Planned(k)
BY DEF Same

LEMMA AdvanceTypes ==
    ASSUME IInv, NEW k \in Kinds, AdvanceNotice(k)
    PROVE  IInv'
<1> USE DEF IInv
<1>1. ServerOK' /\ AdminOK' /\ WakeOK'
  BY Untouched DEF AdvanceNotice
<1>2. LoopOK'
  BY AnyLoopMove, StepNames DEF AdvanceNotice, ServerOK
<1>3. PlansOK'
  BY Untouched, EditedField, SamePlan, SeenTypes DEF AdvanceNotice
<1> QED
  BY <1>1, <1>2, <1>3

LEMMA WaitingTypes ==
    ASSUME IInv, NEW k \in Kinds, SendWaiting(k) \/ MarkWaiting(k)
    PROVE  IInv'
<1> USE DEF IInv
<1>1. ServerOK' /\ AdminOK' /\ WakeOK'
  BY Untouched DEF SendWaiting, MarkWaiting
<1>2. LoopOK'
  BY AnyLoopMove, StepNames DEF SendWaiting, MarkWaiting, ServerOK
<1>3. PlansOK'
  BY Untouched, EditedField, SamePlan DEF SendWaiting, MarkWaiting
<1> QED
  BY <1>1, <1>2, <1>3

LEMMA ResumeTypes ==
    ASSUME IInv, NEW k \in Kinds, Resume(k)
    PROVE  IInv'
<1> USE DEF IInv
<1>1. ServerOK'
  BY DEF Resume, ServerOK
<1>2. AdminOK'
  BY DEF Resume, AdminOK
<1>3. WakeOK'
  BY DEF Resume, WakeOK
<1>4. PlansOK'
  BY Untouched DEF Resume
<1>5. LoopOK'
  <2>1. CASE loop' = [j \in Kinds |-> IdleLoop("timer")]
    <3>1. IdleLoop("timer") \in Loop
      BY PlanTypes DEF IdleLoop, Loop, LoopSteps
    <3> QED
      BY <2>1, <3>1 DEF LoopOK
  <2>2. CASE loop' = [loop EXCEPT ![k].pc = "empty", ![k].seen = plan[k], ![k].stale = FALSE]
    <3>1. plan[k] \in Plan
      BY DEF PlansOK
    <3> QED
      BY <2>2, <3>1 DEF LoopOK, Loop, LoopSteps
  <2>3. CASE Return(k, "asleep") \/ Return(k, "timer")
    BY <2>3, AnyLoopMove, StepNames DEF ServerOK
  <2> QED
    BY <2>1, <2>2, <2>3 DEF Resume
<1> QED
  BY <1>1, <1>2, <1>3, <1>4, <1>5

LEMMA EmptyTypes ==
    ASSUME IInv, NEW k \in Kinds, ObserveEmpty(k)
    PROVE  IInv'
<1> USE DEF IInv
<1>1. ServerOK' /\ AdminOK' /\ WakeOK'
  BY Untouched DEF ObserveEmpty
<1>2. LoopOK'
  BY AnyLoopMove, StepNames DEF ObserveEmpty, ServerOK
<1>3. PlansOK'
  <2>1. CASE KeepPlans
    BY <2>1, Untouched
  <2>2. CASE Same(k) /\ ReplacePlan(k, [plan[k] EXCEPT !.since = "never"])
    BY <2>2, SamePlan, EditedField, ReplacedPlan
  <2>3. CASE /\ Same(k)
             /\ SetPlan(k, [plan[k] EXCEPT !.since = "now"])
             /\ visited' = [visited EXCEPT ![k] = FALSE]
             /\ UNCHANGED told
    <3>1. /\ plan' \in [Kinds -> Plan]
          /\ \A j \in Kinds : Targeted(j, plan'[j])
      BY <2>3, SamePlan, EditedField, SetPlanType
    <3>2. told' = told /\ visited' \in [Kinds -> BOOLEAN]
      BY <2>3 DEF PlansOK
    <3> QED
      BY <3>1, <3>2 DEF PlansOK, Targeted
  <2> QED
    BY <2>1, <2>2, <2>3 DEF ObserveEmpty
<1> QED
  BY <1>1, <1>2, <1>3

LEMMA FinalTypes ==
    ASSUME IInv, NEW k \in Kinds, SendFinal(k) \/ MarkFinal(k)
    PROVE  IInv'
<1> USE DEF IInv
<1>1. ServerOK' /\ AdminOK' /\ WakeOK'
  BY Untouched DEF SendFinal, MarkFinal
<1>2. LoopOK'
  BY AnyLoopMove, StepNames DEF SendFinal, MarkFinal, ServerOK
<1>3. PlansOK'
  BY Untouched, EditedField, SamePlan DEF SendFinal, MarkFinal
<1> QED
  BY <1>1, <1>2, <1>3

LEMMA CountDownType ==
    ASSUME IInv, NEW k \in Kinds, CountDown(k)
    PROVE  LoopOK'
BY AnyLoopMove, StepNames DEF CountDown, IInv, ServerOK

\* Requests begins an operation and signals.
LEMMA RequestTypes ==
    ASSUME IInv, NEW action \in {"start", "stop", "restart", "update"}, NEW ks,
           Requests(action, ks)
    PROVE  ServerOK' /\ WakeOK'
<1>1. ServerOK'
  BY DEF Requests, IInv, ServerOK
<1>2. WakeOK'
  BY Signals DEF Requests, IInv
<1> QED
  BY <1>1, <1>2

-----------------------------------------------------------------------------
(* The steps of each loop *)

\* A new plan has a type if it is made from values that have one.
LEMMA NewPlans ==
    ASSUME PlansOK
    PROVE  /\ \A k \in Kinds : ReplacePlan(k, NoPlan) => PlansOK'
           /\ \A k \in {"mod", "sched"}, p \in Processes, policy \in AllPolicies,
                 left \in Lefts :
                 ReplacePlan(k, NewPlan(p, policy, {}, left)) => PlansOK'
           /\ \A p \in Processes, policy \in AllPolicies,
                 targets \in (SUBSET Products) \ {{}}, left \in Lefts :
                 ReplacePlan("auto", NewPlan(p, policy, targets, left)) => PlansOK'
<1>1. \A k \in Kinds : Targeted(k, NoPlan)
  BY DEF Targeted
<1>2. ASSUME NEW k \in {"mod", "sched"}, NEW s
      PROVE  k \in Kinds /\ Targeted(k, s)
  BY DEF Targeted, Kinds
<1>3. \A p, policy, targets, left : targets # {} =>
          Targeted("auto", NewPlan(p, policy, targets, left))
  BY PlanTypes DEF Targeted
<1>4. \A k \in Kinds : ReplacePlan(k, NoPlan) => PlansOK'
  BY <1>1, PlanTypes, ReplacedPlan
<1>5. ASSUME NEW k \in {"mod", "sched"}, NEW p \in Processes, NEW policy \in AllPolicies,
             NEW left \in Lefts, ReplacePlan(k, NewPlan(p, policy, {}, left))
      PROVE  PlansOK'
  <2>1. NewPlan(p, policy, {}, left) \in Plan
    BY PlanTypes
  <2> QED
    BY <1>2, <1>5, <2>1, ReplacedPlan
<1>6. ASSUME NEW p \in Processes, NEW policy \in AllPolicies,
             NEW targets \in (SUBSET Products) \ {{}}, NEW left \in Lefts,
             ReplacePlan("auto", NewPlan(p, policy, targets, left))
      PROVE  PlansOK'
  <2>1. NewPlan(p, policy, targets, left) \in Plan
    BY PlanTypes
  <2> QED
    BY <1>3, <1>6, <2>1, KindSet, ReplacedPlan
<1> QED
  BY <1>4, <1>5, <1>6

\* The policies an administrator may set are policies, and so are the times.
LEMMA PolicyTypes ==
    /\ \A policy \in Policies : policy \in AllPolicies /\ LeftsOf(policy) \subseteq Lefts
    /\ \A policies \in [Products -> Policies], targets \in (SUBSET Products) \ {{}} :
           PolicyFor(targets, policies) \in Policies
<1>1. \A policy \in Policies : policy \in AllPolicies /\ LeftsOf(policy) \subseteq Lefts
  BY Times, PolicyAssumption
<1>2. ASSUME NEW policies \in [Products -> Policies],
             NEW targets \in (SUBSET Products) \ {{}}
      PROVE  PolicyFor(targets, policies) \in Policies
  <2>1. (IF "manager" \in targets THEN "manager" ELSE "steam") \in Products
    BY ProductAssumption DEF AllProducts
  <2> QED
    BY <2>1 DEF PolicyFor
<1> QED
  BY <1>1, <1>2

LEMMA SettingTypes ==
    ASSUME AdminOK
    PROVE  /\ settings.mod \in BOOLEAN /\ settings.sched \in BOOLEAN
           /\ settings.modPolicy \in Policies
           /\ settings.autoPolicy \in [Products -> Policies]
           /\ Targets \in SUBSET Products
           /\ \A targets \in (SUBSET Products) \ {{}} : AutoPolicy(targets) \in Policies
<1>1. /\ settings.mod \in BOOLEAN /\ settings.sched \in BOOLEAN
      /\ settings.modPolicy \in Policies
      /\ settings.autoPolicy \in [Products -> Policies]
      /\ Targets \in SUBSET Products
  BY DEF AdminOK, Settings, Targets
<1> QED
  BY <1>1, PolicyTypes DEF AutoPolicy

LEMMA PlanFields ==
    ASSUME PlansOK, NEW k \in Kinds
    PROVE  /\ plan[k] \in Plan /\ plan[k].pid \in Processes
           /\ plan[k].left \in Lefts /\ plan[k].policy \in AllPolicies
           /\ plan[k].targets \in SUBSET Products
           /\ k = "auto" /\ Planned(k) => plan[k].targets # {}
BY DEF PlansOK, Plan, Targeted, Planned

LEMMA WakesType == IInv => \A k \in Kinds : Wakes(k) => WakeOK'
BY DEF Wakes, IInv, WakeOK

LEMMA ClearModTypes ==
    ASSUME IInv, ClearMod
    PROVE  PlansOK' /\ LoopOK' /\ WakeOK'
<1> USE DEF IInv
<1>1. PlansOK'
  BY KindSet, NewPlans, Untouched DEF ClearMod
<1>2. LoopOK'
  BY KindSet, StepNames, AnyLoopMove DEF ClearMod, ServerOK
<1>3. WakeOK'
  BY Signals, Untouched DEF ClearMod
<1> QED
  BY <1>1, <1>2, <1>3

LEMMA ModTypes ==
    ASSUME IInv, ModStep
    PROVE  IInv'
<1> USE DEF IInv
<1>1. CASE LookMod
  <2>1. ServerOK' /\ AdminOK' /\ PlansOK' /\ WakeOK'
    BY <1>1, KindSet, Untouched, WakesType DEF LookMod
  <2>2. LoopOK'
    BY <1>1, KindSet, StepNames, AnyLoopMove, PlanFields DEF LookMod, ServerOK
  <2> QED
    BY <2>1, <2>2
<1>2. CASE DecideMod
  <2>1. ServerOK' /\ AdminOK'
    BY <1>2, Untouched DEF DecideMod
  <2>2. CASE ClearMod
    BY <2>1, <2>2, ClearModTypes
  <2>3. CASE CountDown("mod") /\ KeepPlans /\ UNCHANGED wake
    BY <2>1, <2>3, KindSet, CountDownType, Untouched
  <2> QED
    BY <1>2, <2>2, <2>3 DEF DecideMod
<1>3. CASE RequestMod
  <2>1. AdminOK' /\ PlansOK'
    BY <1>3, Untouched DEF RequestMod
  <2>2. LoopOK'
    BY <1>3, KindSet, StepNames, AnyLoopMove DEF RequestMod, ServerOK
  <2>3. ServerOK' /\ WakeOK'
    <3>1. CASE UNCHANGED <<serverVars, wake>>
      BY <3>1, Untouched
    <3>2. CASE Requests("restart", {})
      BY <3>2, RequestTypes
    <3> QED
      BY <1>3, <3>1, <3>2 DEF RequestMod
  <2> QED
    BY <2>1, <2>2, <2>3
<1>4. CASE RecordMod
  BY <1>4, ClearModTypes, Untouched DEF RecordMod
<1> QED
  BY <1>1, <1>2, <1>3, <1>4 DEF ModStep

LEMMA MoveAutoTypes ==
    ASSUME IInv, MoveAuto
    PROVE  PlansOK' /\ WakeOK'
<1> USE DEF IInv
<1>1. CASE KeepPlans /\ UNCHANGED wake
  BY <1>1, Untouched
<1>2. CASE /\ Same("auto")
           /\ LET policy == AutoPolicy(plan["auto"].targets)
              IN  \E left \in LeftsOf(policy) :
                      ReplacePlan("auto", NewPlan(plan["auto"].pid, policy,
                                                  plan["auto"].targets, left))
           /\ Signal({"sched"})
  <2>1. plan["auto"].targets \in (SUBSET Products) \ {{}} /\ plan["auto"].pid \in Processes
    BY <1>2, KindSet, SamePlan, PlanFields
  <2>2. AutoPolicy(plan["auto"].targets) \in Policies
    BY <2>1, SettingTypes
  <2>3. PlansOK'
    BY <1>2, <2>1, <2>2, PolicyTypes, NewPlans
  <2>4. WakeOK'
    BY <1>2, Signals
  <2> QED
    BY <2>3, <2>4
<1> QED
  BY <1>1, <1>2 DEF MoveAuto

LEMMA ExecuteTypes ==
    ASSUME IInv, NEW action \in {"restart", "update"}, Execute(action)
    PROVE  ServerOK' /\ WakeOK' /\ LoopOK'
<1> USE DEF IInv
<1>1. LoopOK'
  BY KindSet, StepNames, AnyLoopMove DEF Execute, ServerOK
<1>2. ServerOK' /\ WakeOK'
  <2>1. CASE updating' = TRUE /\ UNCHANGED <<running, op, quiet, wake>>
    BY <2>1, Untouched DEF ServerOK
  <2>2. CASE Requests(action, {})
    BY <2>2, RequestTypes
  <2>3. CASE UNCHANGED <<serverVars, wake>>
    BY <2>3, Untouched
  <2> QED
    BY <2>1, <2>2, <2>3 DEF Execute
<1> QED
  BY <1>1, <1>2

LEMMA EnsureAutoTypes ==
    ASSUME IInv, EnsureAuto
    PROVE  IInv'
<1> USE DEF IInv
<1>1. ServerOK' /\ AdminOK' /\ WakeOK'
  BY Untouched DEF EnsureAuto
<1>2. CASE KeepPlans /\ (Return("auto", "asleep") \/ Return("auto", "timer"))
  BY <1>1, <1>2, KindSet, StepNames, AnyLoopMove, Untouched DEF ServerOK
<1>3. CASE ReplacePlan("auto", NoPlan) /\ Return("auto", "asleep")
  BY <1>1, <1>3, KindSet, StepNames, AnyLoopMove, NewPlans DEF ServerOK
<1>4. CASE /\ Targets # {}
           /\ ReplacePlan("auto", NoPlan)
           /\ Read("auto", "update", NewPlan("none", AutoPolicy(Targets), Targets, 0))
  <2>1. NewPlan("none", AutoPolicy(Targets), Targets, 0) \in Plan
    <3>1. AutoPolicy(Targets) \in AllPolicies /\ Targets \in SUBSET Products
      BY <1>4, SettingTypes, PolicyTypes
    <3>2. "none" \in Processes /\ 0 \in Lefts
      BY Times DEF Processes
    <3> QED
      BY <3>1, <3>2, PlanTypes
  <2> QED
    BY <1>1, <1>4, <2>1, KindSet, StepNames, AnyLoopMove, NewPlans DEF ServerOK
<1>5. CASE KeepPlans /\ Read("auto", "decide", plan["auto"])
  BY <1>1, <1>5, KindSet, StepNames, AnyLoopMove, Untouched, PlanFields DEF ServerOK
<1>6. CASE /\ Targets # {}
           /\ \E left \in LeftsOf(AutoPolicy(Targets)) :
                 LET new == NewPlan("this", AutoPolicy(Targets), Targets, left)
                 IN  ReplacePlan("auto", new) /\ Read("auto", "decide", new)
  <2>1. PICK left \in LeftsOf(AutoPolicy(Targets)) :
            /\ ReplacePlan("auto", NewPlan("this", AutoPolicy(Targets), Targets, left))
            /\ Read("auto", "decide", NewPlan("this", AutoPolicy(Targets), Targets, left))
    BY <1>6
  <2>2. /\ AutoPolicy(Targets) \in AllPolicies /\ left \in Lefts
        /\ Targets \in (SUBSET Products) \ {{}} /\ "this" \in Processes
    BY <1>6, SettingTypes, PolicyTypes DEF Processes
  <2>3. NewPlan("this", AutoPolicy(Targets), Targets, left) \in Plan
    BY <2>2, PlanTypes
  <2>4. PlansOK'
    BY <2>1, <2>2, NewPlans
  <2>5. LoopOK'
    BY <2>1, <2>3, KindSet, StepNames, AnyLoopMove DEF ServerOK
  <2> QED
    BY <1>1, <2>4, <2>5
<1> QED
  BY <1>2, <1>3, <1>4, <1>5, <1>6 DEF EnsureAuto

LEMMA DecideAutoTypes ==
    ASSUME IInv, DecideAuto
    PROVE  IInv'
<1> USE DEF IInv
<1>1. ServerOK' /\ AdminOK'
  BY Untouched DEF DecideAuto
<1>2. CASE KeepPlans /\ UNCHANGED wake /\ (GoOn("auto", "update") \/ Return("auto", "timer"))
  BY <1>1, <1>2, KindSet, StepNames, AnyLoopMove, Untouched DEF ServerOK
<1>3. CASE /\ \/ ReplacePlan("auto", NoPlan) /\ Signal({"sched"})
              \/ KeepPlans /\ UNCHANGED wake
           /\ Return("auto", "timer")
  <2>1. PlansOK' /\ WakeOK'
    BY <1>3, KindSet, NewPlans, Signals, Untouched
  <2> QED
    BY <1>1, <1>3, <2>1, KindSet, StepNames, AnyLoopMove DEF ServerOK
<1>4. CASE MoveAuto /\ Return("auto", "timer")
  BY <1>1, <1>4, MoveAutoTypes, KindSet, StepNames, AnyLoopMove DEF ServerOK
<1>5. CASE CountDown("auto") /\ KeepPlans /\ UNCHANGED wake
  BY <1>1, <1>5, KindSet, CountDownType, Untouched
<1> QED
  BY <1>2, <1>3, <1>4, <1>5 DEF DecideAuto

LEMMA AutoTypes ==
    ASSUME IInv, AutoStep
    PROVE  IInv'
<1> USE DEF IInv
<1>1. CASE LookAuto
  <2>1. ServerOK' /\ AdminOK' /\ PlansOK' /\ WakeOK'
    BY <1>1, KindSet, Untouched, WakesType DEF LookAuto
  <2>2. LoopOK'
    BY <1>1, KindSet, StepNames, AnyLoopMove, PlanTypes DEF LookAuto, ServerOK
  <2> QED
    BY <2>1, <2>2
<1>2. CASE UpdateStopped \/ RequestAuto
  <2>1. AdminOK' /\ PlansOK'
    BY <1>2, Untouched DEF UpdateStopped, RequestAuto
  <2> QED
    BY <1>2, <2>1, ExecuteTypes DEF UpdateStopped, RequestAuto
<1>3. CASE RecordAuto
  <2>1. ServerOK' /\ WakeOK'
    BY <1>3, Untouched DEF RecordAuto
  <2>2. LoopOK'
    BY <1>3, KindSet, StepNames, AnyLoopMove DEF RecordAuto, ServerOK
  <2>3. PlansOK'
    BY <1>3, KindSet, NewPlans, Untouched DEF RecordAuto
  <2>4. AdminOK'
    BY <1>3 DEF RecordAuto, AdminOK
  <2> QED
    BY <2>1, <2>2, <2>3, <2>4
<1> QED
  BY <1>1, <1>2, <1>3, EnsureAutoTypes, DecideAutoTypes DEF AutoStep

\* The occurrences the recurring plan moves to.
LEMMA Occurrences ==
    ASSUME PlansOK, NEW p \in Processes, NEW left \in Lefts
    PROVE  /\ Occurrence(p, left) \in Plan
           /\ ReplacePlan("sched", Occurrence(p, left)) => PlansOK'
<1>1. "scheduled" \in AllPolicies /\ {} \in SUBSET Products
  BY DEF AllPolicies
<1>2. Occurrence(p, left) = NewPlan(p, "scheduled", {}, left)
  BY DEF Occurrence
<1>3. Occurrence(p, left) \in Plan
  BY <1>1, <1>2, PlanTypes
<1>4. ReplacePlan("sched", Occurrence(p, left)) => PlansOK'
  BY <1>1, <1>2, NewPlans
<1> QED
  BY <1>3, <1>4

LEMMA SkipSchedTypes ==
    ASSUME IInv, SkipSched
    PROVE  PlansOK' /\ WakeOK' /\ LoopOK'
<1> USE DEF IInv
<1>1. LoopOK'
  BY KindSet, StepNames, AnyLoopMove DEF SkipSched, ServerOK
<1>2. CASE KeepPlans /\ UNCHANGED wake
  BY <1>1, <1>2, Untouched
<1>3. CASE /\ \E left \in OccurrencesAfter(Seen("sched").left) :
                 ReplacePlan("sched", Occurrence(Seen("sched").pid, left))
           /\ Signal({"auto", "mod"})
  <2>1. Seen("sched").pid \in Processes /\ Seen("sched").left \in Lefts
    BY KindSet, SeenTypes
  <2>2. PlansOK'
    BY <1>3, <2>1, Times, Occurrences
  <2>3. WakeOK'
    BY <1>3, Signals
  <2> QED
    BY <1>1, <2>2, <2>3
<1> QED
  BY <1>2, <1>3 DEF SkipSched

LEMMA DecideSchedTypes ==
    ASSUME IInv, DecideSched
    PROVE  IInv'
<1> USE DEF IInv
<1>1. ServerOK' /\ AdminOK'
  BY Untouched DEF DecideSched
<1>2. CASE SkipSched
  BY <1>1, <1>2, SkipSchedTypes
<1>3. CASE /\ Return("sched", "timer") \/ (\E pc \in LoopSteps : GoOn("sched", pc))
           /\ KeepPlans \/ ReplacePlan("sched", NoPlan)
           /\ UNCHANGED wake
  <2>1. LoopOK'
    BY <1>3, KindSet, StepNames, AnyLoopMove DEF ServerOK
  <2>2. PlansOK' /\ WakeOK'
    BY <1>3, KindSet, NewPlans, Untouched
  <2> QED
    BY <1>1, <2>1, <2>2
<1> QED
  BY <1>2, <1>3, StepNames DEF DecideSched

LEMMA EnsureSchedTypes ==
    ASSUME IInv, EnsureSched
    PROVE  IInv'
<1> USE DEF IInv
<1>1. ServerOK' /\ AdminOK' /\ WakeOK'
  BY Untouched DEF EnsureSched
<1>2. CASE Return("sched", "timer") /\ (KeepPlans \/ ReplacePlan("sched", NoPlan))
  <2>1. LoopOK'
    BY <1>2, KindSet, StepNames, AnyLoopMove DEF ServerOK
  <2>2. PlansOK'
    BY <1>2, KindSet, NewPlans, Untouched
  <2> QED
    BY <1>1, <2>1, <2>2
<1>3. CASE \E left \in Gaps : /\ ReplacePlan("sched", Occurrence("this", left))
                              /\ Read("sched", "decide", Occurrence("this", left))
  <2>1. PICK left \in Gaps : /\ ReplacePlan("sched", Occurrence("this", left))
                             /\ Read("sched", "decide", Occurrence("this", left))
    BY <1>3
  <2>2. left \in Lefts /\ "this" \in Processes
    BY Times DEF Processes
  <2>3. Occurrence("this", left) \in Plan /\ PlansOK'
    BY <2>1, <2>2, Occurrences
  <2>4. LoopOK'
    BY <2>1, <2>3, KindSet, StepNames, AnyLoopMove DEF ServerOK
  <2> QED
    BY <1>1, <2>3, <2>4
<1> QED
  BY <1>2, <1>3 DEF EnsureSched

LEMMA SchedTypes ==
    ASSUME IInv, SchedStep
    PROVE  IInv'
<1> USE DEF IInv
<1>1. CASE LookSched
  <2>1. ServerOK' /\ AdminOK' /\ PlansOK' /\ WakeOK'
    BY <1>1, KindSet, Untouched, WakesType DEF LookSched
  <2>2. LoopOK'
    BY <1>1, KindSet, StepNames, AnyLoopMove, PlanFields DEF LookSched, ServerOK
  <2> QED
    BY <2>1, <2>2
<1>2. CASE RequestSched
  <2>1. AdminOK' /\ PlansOK'
    BY <1>2, Untouched DEF RequestSched
  <2>2. LoopOK'
    BY <1>2, KindSet, StepNames, AnyLoopMove DEF RequestSched, ServerOK
  <2>3. ServerOK' /\ WakeOK'
    BY <1>2, RequestTypes, Untouched DEF RequestSched
  <2> QED
    BY <2>1, <2>2, <2>3
<1>3. CASE RecordSched
  <2>1. ServerOK' /\ AdminOK'
    BY <1>3, Untouched DEF RecordSched
  <2>2. LoopOK'
    BY <1>3, KindSet, StepNames, AnyLoopMove DEF RecordSched, ServerOK
  <2>3. Seen("sched").pid \in Processes /\ Seen("sched").left \in Lefts
    BY KindSet, SeenTypes
  <2>4. PlansOK'
    BY <1>3, <2>3, Times, Occurrences, Untouched DEF RecordSched
  <2>5. WakeOK'
    BY <1>3, Signals, Untouched DEF RecordSched
  <2> QED
    BY <2>1, <2>2, <2>4, <2>5
<1> QED
  BY <1>1, <1>2, <1>3, EnsureSchedTypes, DecideSchedTypes DEF SchedStep

LEMMA StepTypes ==
    ASSUME IInv, NEW k \in Kinds, Step(k)
    PROVE  IInv'
BY NoticeTypes, AdvanceTypes, WaitingTypes, ResumeTypes, EmptyTypes, FinalTypes,
   ModTypes, AutoTypes, SchedTypes DEF Step

-----------------------------------------------------------------------------
(* The administrator and the queries *)

LEMMA SetModTypes ==
    ASSUME IInv, NEW on \in BOOLEAN, NEW policy \in Policies, NEW newTime \in BOOLEAN,
           SetMod(on, policy, newTime)
    PROVE  IInv'
<1> USE DEF IInv
<1>1. ServerOK'
  BY DEF SetMod, serverVars, ServerOK
<1>2. AdminOK'
  BY DEF SetMod, AdminOK, Settings
<1>3. WakeOK'
  BY Signals DEF SetMod
<1>4. CASE ReplacePlan("mod", NoPlan) /\ Outdates("mod")
  BY <1>1, <1>2, <1>3, <1>4, KindSet, NewPlans, AnyLoopMove DEF ServerOK
<1>5. CASE /\ \E left \in LeftsOf(policy) :
                  ReplacePlan("mod", NewPlan(plan["mod"].pid, policy, {}, left))
           /\ loop' = [loop EXCEPT !["mod"].stale =
                          ~Resting("mod") /\ (@ \/ policy = "countdown")]
  <2>1. plan["mod"].pid \in Processes /\ policy \in AllPolicies
    BY KindSet, PlanFields, PolicyTypes
  <2>2. PlansOK'
    BY <1>5, <2>1, PolicyTypes, NewPlans
  <2>3. LoopOK'
    BY <1>5 DEF LoopOK, Loop, Resting
  <2> QED
    BY <1>1, <1>2, <1>3, <2>2, <2>3
<1>6. CASE KeepPlans /\ UNCHANGED loop
  BY <1>1, <1>2, <1>3, <1>6, Untouched DEF LoopOK
<1> QED
  BY <1>4, <1>5, <1>6 DEF SetMod

LEMMA SetAutoTypes ==
    ASSUME IInv, NEW products \in SUBSET Products, NEW policies \in [Products -> Policies],
           NEW newTime \in BOOLEAN, SetAuto(products, policies, newTime)
    PROVE  IInv'
<1> USE DEF IInv
<1> DEFINE old == plan["auto"]
           left == old.targets \cap products
           policy == PolicyFor(left, policies)
<1>1. ServerOK'
  BY DEF SetAuto, serverVars, ServerOK
<1>2. AdminOK'
  BY DEF SetAuto, AdminOK, Settings
<1>3. WakeOK'
  BY Signals DEF SetAuto
<1>4. CASE ReplacePlan("auto", NoPlan) /\ Outdates("auto")
  BY <1>1, <1>2, <1>3, <1>4, KindSet, NewPlans, AnyLoopMove DEF ServerOK
<1>5. CASE /\ left # {}
           /\ \E time \in LeftsOf(policy) :
                  ReplacePlan("auto", NewPlan(old.pid, policy, left, time))
           /\ Outdates("auto")
  <2>1. left \in (SUBSET Products) \ {{}} /\ old.pid \in Processes
    BY <1>5, KindSet, PlanFields
  <2>2. policy \in Policies
    BY <2>1, PolicyTypes
  <2>3. PlansOK'
    BY <1>5, <2>1, <2>2, PolicyTypes, NewPlans
  <2>4. LoopOK'
    BY <1>5, KindSet, AnyLoopMove DEF ServerOK
  <2> QED
    BY <1>1, <1>2, <1>3, <2>3, <2>4
<1>6. CASE left # {} /\ EditPlan("auto", [old EXCEPT !.targets = left]) /\ UNCHANGED loop
  <2>1. old \in Plan /\ left \in SUBSET Products
    BY KindSet, PlanFields
  <2>2. [old EXCEPT !.targets = left] \in Plan
    BY <2>1 DEF Plan
  <2>3. [old EXCEPT !.targets = left].targets = left
    BY <2>1 DEF Plan
  <2>4. Targeted("auto", [old EXCEPT !.targets = left])
    BY <1>6, <2>3 DEF Targeted
  <2>5. PlansOK'
    BY <1>6, <2>2, <2>4, KindSet, EditedPlan
  <2> QED
    BY <1>1, <1>2, <1>3, <1>6, <2>5 DEF LoopOK
<1>7. CASE KeepPlans /\ UNCHANGED loop
  BY <1>1, <1>2, <1>3, <1>7, Untouched DEF LoopOK
<1> QED
  BY <1>4, <1>5, <1>6, <1>7 DEF SetAuto

LEMMA AdministratorTypes ==
    ASSUME IInv, Administrator
    PROVE  IInv'
<1> USE DEF IInv
<1>1. CASE \E on \in BOOLEAN : SetSched(on)
  <2>1. ServerOK' /\ LoopOK'
    BY <1>1 DEF SetSched, serverVars, ServerOK, LoopOK
  <2>2. AdminOK'
    BY <1>1 DEF SetSched, AdminOK, Settings
  <2>3. PlansOK' /\ WakeOK'
    BY <1>1, KindSet, NewPlans, Signals DEF SetSched
  <2> QED
    BY <2>1, <2>2, <2>3
<1>2. CASE EnsureSettings
  <2>1. ServerOK' /\ LoopOK' /\ WakeOK'
    BY <1>2 DEF EnsureSettings, serverVars, ServerOK, LoopOK, WakeOK
  <2>2. AdminOK'
    BY <1>2 DEF EnsureSettings, AdminOK
  <2>3. "this" \in Processes /\ Gaps \subseteq Lefts
    BY Times DEF Processes
  <2>4. PlansOK'
    BY <1>2, <2>3, Occurrences, Untouched DEF EnsureSettings
  <2> QED
    BY <2>1, <2>2, <2>4
<1>3. CASE \E action \in OtherActions : OtherOperation(action)
  <2>1. PICK action \in OtherActions : OtherOperation(action)
    BY <1>3
  <2>2. ServerOK' /\ WakeOK'
    BY <2>1, ActionAssumption, RequestTypes DEF OtherOperation
  <2>3. AdminOK' /\ PlansOK' /\ LoopOK'
    BY <2>1, Untouched DEF OtherOperation, LoopOK
  <2> QED
    BY <2>2, <2>3
<1> QED
  BY <1>1, <1>2, <1>3, SetModTypes, SetAutoTypes DEF Administrator

LEMMA QueryTypes ==
    ASSUME IInv, Queries
    PROVE  IInv'
<1> USE DEF IInv
<1>1. CASE DetectModUpdate
  <2>1. ServerOK' /\ WakeOK'
    BY <1>1, Untouched DEF DetectModUpdate
  <2>2. AdminOK'
    BY <1>1 DEF DetectModUpdate, AdminOK
  <2>3. LoopOK'
    BY <1>1, KindSet, AnyLoopMove DEF DetectModUpdate, ServerOK
  <2>4. settings.modPolicy \in Policies /\ "this" \in Processes
    BY SettingTypes DEF Processes
  <2>5. PlansOK'
    BY <1>1, <2>4, KindSet, PolicyTypes, NewPlans, Untouched DEF DetectModUpdate
  <2> QED
    BY <2>1, <2>2, <2>3, <2>5
<1>2. CASE SignalDetection
  <2>1. ServerOK' /\ PlansOK' /\ LoopOK'
    BY <1>2, Untouched DEF SignalDetection, LoopOK
  <2>2. AdminOK' /\ WakeOK'
    BY <1>2, Signals DEF SignalDetection, AdminOK
  <2> QED
    BY <2>1, <2>2
<1>3. CASE \E found \in SUBSET Products : VersionQuery(found)
  <2>1. ServerOK' /\ PlansOK' /\ LoopOK'
    BY <1>3, Untouched DEF VersionQuery, LoopOK
  <2>2. AdminOK' /\ WakeOK'
    BY <1>3, Signals DEF VersionQuery, AdminOK
  <2> QED
    BY <2>1, <2>2
<1> QED
  BY <1>1, <1>2, <1>3 DEF Queries

-----------------------------------------------------------------------------
(* The environment *)

LEMMA IdleType == IdleLoop("timer") \in Loop
BY PlanTypes, StepNames DEF IdleLoop, Loop

LEMMA ManagerTypes ==
    ASSUME IInv, ManagerRestarts, updating' \in BOOLEAN
    PROVE  IInv'
<1> USE DEF IInv
<1>1. ServerOK'
  BY DEF ManagerRestarts, ServerOK
<1>2. AdminOK'
  BY DEF ManagerRestarts, AdminOK
<1>3. LoopOK' /\ WakeOK'
  BY IdleType DEF ManagerRestarts, LoopOK, WakeOK
<1>4. PlansOK'
  <2>1. settings.modPolicy \in Policies /\ plan["mod"].pid \in Processes
    BY KindSet, SettingTypes, PlanFields
  <2> QED
    BY <2>1, KindSet, PolicyTypes, NewPlans, Untouched DEF ManagerRestarts
<1> QED
  BY <1>1, <1>2, <1>3, <1>4

\* Time passes within the bounds of Lefts.
LEMMA LaterType ==
    ASSUME NEW s \in Plan
    PROVE  Later(s) \in Plan /\ \A k : Targeted(k, s) => Targeted(k, Later(s))
<1>1. CASE s = NoPlan
  BY <1>1 DEF Later
<1>2. CASE s # NoPlan /\ s.policy = "when_empty"
  BY <1>2 DEF Later, Plan, Targeted
<1>3. CASE s # NoPlan /\ s.policy # "when_empty"
  <2> DEFINE n == IF s.left = -(Late + 1) THEN s.left ELSE s.left - 1
  <2>1. Late \in Nat /\ MaxGap \in Nat /\ s.left \in Lefts
    BY Times DEF Plan
  <2>2. n \in Lefts
    BY <2>1 DEF Lefts
  <2>3. Later(s) = [s EXCEPT !.left = n]
    BY <1>3 DEF Later
  <2>4. Later(s) \in Plan /\ Later(s).targets = s.targets
    BY <2>2, <2>3 DEF Plan
  <2> QED
    BY <1>3, <2>4 DEF Targeted
<1> QED
  BY <1>1, <1>2, <1>3

LEMMA TickTypes ==
    ASSUME IInv, Tick
    PROVE  IInv'
<1> USE DEF IInv
<1>1. ServerOK' /\ AdminOK' /\ WakeOK'
  BY Untouched DEF Tick
<1>2. LoopOK'
  BY DEF Tick, LoopOK
<1>3. plan' \in [Kinds -> Plan] /\ \A k \in Kinds : Targeted(k, plan'[k])
  <2>1. \A k \in Kinds : plan[k] \in Plan /\ Targeted(k, plan[k])
    BY DEF PlansOK
  <2>2. plan' = [k \in Kinds |-> Later(plan[k])]
    BY DEF Tick
  <2> QED
    BY <2>1, <2>2, LaterType
<1>4. told' \in [Kinds -> SUBSET (Lefts \X (0 .. Last))]
  <2>1. told' = [k \in Kinds |-> {<<n[1] - 1, n[2]>> : n \in
                    {m \in told[k] : m[1] > -(Late + 1)}}]
    BY DEF Tick
  <2>2. ASSUME NEW k \in Kinds, NEW n \in {m \in told[k] : m[1] > -(Late + 1)}
        PROVE  <<n[1] - 1, n[2]>> \in Lefts \X (0 .. Last)
    <3>1. n \in Lefts \X (0 .. Last) /\ n[1] > -(Late + 1)
      BY <2>2 DEF PlansOK
    <3>2. n[1] \in Lefts /\ n[2] \in 0 .. Last
      BY <3>1
    <3>3. n[1] - 1 \in Lefts
      BY <3>1, <3>2, Times DEF Lefts
    <3> QED
      BY <3>2, <3>3
  <2> QED
    BY <2>1, <2>2
<1>5. visited' \in [Kinds -> BOOLEAN]
  BY DEF Tick, PlansOK
<1>6. PlansOK'
  BY <1>3, <1>4, <1>5 DEF PlansOK, Targeted
<1> QED
  BY <1>1, <1>2, <1>6

LEMMA EnvironmentTypes ==
    ASSUME IInv, Environment
    PROVE  IInv'
<1> USE DEF IInv
<1>1. CASE ProcessExits
  <2>1. ServerOK' /\ LoopOK' /\ WakeOK' /\ AdminOK'
    BY <1>1, Untouched DEF ProcessExits, ServerOK, LoopOK
  <2>2. PlansOK'
    BY <1>1 DEF ProcessExits, PlansOK
  <2> QED
    BY <2>1, <2>2
<1>2. CASE ProcessStarts
  <2>1. ServerOK' /\ LoopOK' /\ WakeOK' /\ AdminOK'
    BY <1>2, Untouched DEF ProcessStarts, ServerOK, LoopOK
  <2>2. ASSUME NEW s \in Plan
        PROVE  /\ [s EXCEPT !.pid = "earlier"] \in Plan
               /\ [s EXCEPT !.pid = "earlier"].targets = s.targets
    BY DEF Plan, Processes
  <2>3. \A k \in Kinds : plan[k] \in Plan /\ Targeted(k, plan[k])
    BY DEF PlansOK
  <2>4. plan' = [k \in Kinds |-> IF Planned(k) THEN [plan[k] EXCEPT !.pid = "earlier"]
                                              ELSE NoPlan]
    BY <1>2 DEF ProcessStarts
  <2>5. plan' \in [Kinds -> Plan]
    BY <2>2, <2>3, <2>4, PlanTypes
  <2>6. \A k \in Kinds : Targeted(k, plan'[k])
    BY <2>2, <2>3, <2>4 DEF Targeted, Planned
  <2>7. told' = told /\ visited' = visited
    BY <1>2 DEF ProcessStarts
  <2>8. PlansOK'
    BY <2>5, <2>6, <2>7 DEF PlansOK, Targeted
  <2> QED
    BY <2>1, <2>8
<1>3. CASE OperationEnds
  <2>1. ServerOK' /\ LoopOK' /\ AdminOK' /\ PlansOK'
    BY <1>3, Untouched DEF OperationEnds, ServerOK, LoopOK
  <2>2. WakeOK'
    BY <1>3, Signals DEF OperationEnds
  <2> QED
    BY <2>1, <2>2
<1>4. CASE UpdateEnds
  <2>1. updating' \in BOOLEAN
    BY <1>4 DEF UpdateEnds
  <2>2. CASE ManagerRestarts
    BY <2>1, <2>2, ManagerTypes
  <2>3. CASE UNCHANGED <<running, op, quiet, adminVars, loopVars>>
    BY <2>1, <2>3 DEF adminVars, loopVars, ServerOK, AdminOK, LoopOK, WakeOK, PlansOK
  <2> QED
    BY <1>4, <2>2, <2>3 DEF UpdateEnds
<1>5. CASE WebRestarts
  BY <1>5, ManagerTypes DEF WebRestarts, ServerOK
<1>6. CASE PlayersChange
  <2>1. ServerOK' /\ LoopOK' /\ WakeOK' /\ AdminOK'
    BY <1>6, Untouched DEF PlayersChange, ServerOK, LoopOK
  <2>2. PlansOK'
    BY <1>6 DEF PlayersChange, PlansOK
  <2> QED
    BY <2>1, <2>2
<1> QED
  BY <1>1, <1>2, <1>3, <1>4, <1>5, <1>6, TickTypes DEF Environment

-----------------------------------------------------------------------------
(* Every variable has its type *)

LEMMA InitTypes == Init => IInv
<1> SUFFICES ASSUME Init
             PROVE  IInv
  OBVIOUS
<1>1. ServerOK /\ AdminOK
  BY DEF Init, ServerOK, AdminOK
<1>2. LoopOK /\ WakeOK
  BY IdleType DEF Init, LoopOK, WakeOK
<1>3. PlansOK
  BY PlanTypes DEF Init, PlansOK, Targeted
<1> QED
  BY <1>1, <1>2, <1>3 DEF IInv

LEMMA NextTypes == IInv /\ [Next]_vars => IInv'
<1> SUFFICES ASSUME IInv, [Next]_vars
             PROVE  IInv'
  OBVIOUS
<1>1. CASE \E k \in Watched : Step(k)
  BY <1>1, WatchedAssumption, StepTypes
<1>2. CASE Administrator \/ Queries \/ Environment
  BY <1>2, AdministratorTypes, QueryTypes, EnvironmentTypes
<1>3. CASE UNCHANGED vars
  BY <1>3 DEF vars, serverVars, adminVars, loopVars, IInv, ServerOK, AdminOK, PlansOK,
              LoopOK, WakeOK
<1> QED
  BY <1>1, <1>2, <1>3 DEF Next

\* Every variable has its type and the automatic plan a target, for all plans,
\* products, policies and times: no policy is looked up under no product, and no
\* count of notices leaves its list (automaticupdate.go, modrestart.go,
\* scheduledrestart.go).
THEOREM TypeCorrect == Spec => []TypeOK
<1>1. Spec => []IInv
  BY InitTypes, NextTypes, PTL DEF Spec
<1> QED
  BY <1>1, TypeParts, PTL

-----------------------------------------------------------------------------
(* The recurring schedule that is switched off *)

\* What a step may do to the sched plan and its switch.
SchedKept == plan'["sched"] = plan["sched"] /\ settings'.sched = settings.sched

LEMMA OtherPlan ==
    ASSUME PlansOK, NEW k \in Kinds \ {"sched"}, NEW new
    PROVE  SetPlan(k, new) \/ EditPlan(k, new) \/ ReplacePlan(k, new) \/ KeepPlans =>
               plan'["sched"] = plan["sched"]
BY KindSet DEF PlansOK, SetPlan, EditPlan, ReplacePlan, KeepPlans

LEMMA NewSched ==
    ASSUME PlansOK
    PROVE  ReplacePlan("sched", NoPlan) => ~Planned("sched")'
BY KindSet DEF PlansOK, ReplacePlan, SetPlan, Planned

\* The steps in which the sched plan is edited need it to be there.
LEMMA CommonKeepsDisabled ==
    ASSUME IInv, DisabledHasNoPlan, NEW k \in Kinds,
           \/ SendNotice(k) \/ AdvanceNotice(k) \/ SendWaiting(k) \/ MarkWaiting(k)
           \/ Resume(k) \/ ObserveEmpty(k) \/ SendFinal(k) \/ MarkFinal(k)
    PROVE  DisabledHasNoPlan'
<1>1. settings' = settings
  BY DEF SendNotice, AdvanceNotice, SendWaiting, MarkWaiting, Resume, ObserveEmpty,
         SendFinal, MarkFinal, adminVars
<1>2. \/ plan' = plan
      \/ Same(k) /\ \E new : SetPlan(k, new)
  BY DEF SendNotice, AdvanceNotice, SendWaiting, MarkWaiting, Resume, ObserveEmpty,
         SendFinal, MarkFinal, KeepPlans, EditPlan, ReplacePlan
<1>3. CASE plan' = plan
  BY <1>1, <1>3 DEF DisabledHasNoPlan, Planned
<1>4. CASE k = "sched" /\ Same(k)
  BY <1>1, <1>4, SamePlan DEF DisabledHasNoPlan
<1>5. CASE k # "sched" /\ \E new : SetPlan(k, new)
  BY <1>1, <1>5, OtherPlan DEF DisabledHasNoPlan, Planned, IInv
<1> QED
  BY <1>2, <1>3, <1>4, <1>5

LEMMA KeptDisabled ==
    ASSUME DisabledHasNoPlan, SchedKept
    PROVE  DisabledHasNoPlan'
BY DEF DisabledHasNoPlan, SchedKept, Planned

LEMMA LoopsKeepDisabled ==
    ASSUME IInv, DisabledHasNoPlan, ModStep \/ AutoStep \/ SchedStep
    PROVE  DisabledHasNoPlan'
<1> USE DEF IInv
<1>1. CASE ModStep
  <2>1. settings' = settings
    BY <1>1 DEF ModStep, LookMod, DecideMod, RequestMod, RecordMod, adminVars
  <2>2. plan' = plan \/ (\E new : ReplacePlan("mod", new)) \/ KeepPlans
    BY <1>1 DEF ModStep, LookMod, DecideMod, RequestMod, RecordMod, ClearMod
  <2>3. SchedKept
    BY <2>1, <2>2, KindSet, OtherPlan DEF SchedKept, Kinds
  <2> QED
    BY <2>3, KeptDisabled
<1>2. CASE AutoStep
  <2>1. settings' = settings
    BY <1>2 DEF AutoStep, LookAuto, EnsureAuto, DecideAuto, UpdateStopped, RequestAuto,
                RecordAuto, adminVars
  <2>2. plan' = plan \/ (\E new : ReplacePlan("auto", new)) \/ KeepPlans
    BY <1>2 DEF AutoStep, LookAuto, EnsureAuto, DecideAuto, UpdateStopped, RequestAuto,
                RecordAuto, MoveAuto
  <2>3. SchedKept
    BY <2>1, <2>2, KindSet, OtherPlan DEF SchedKept, Kinds
  <2> QED
    BY <2>3, KeptDisabled
<1>3. CASE SchedStep
  <2>1. settings' = settings
    BY <1>3 DEF SchedStep, LookSched, EnsureSched, DecideSched, RequestSched,
                RecordSched, adminVars
  <2>2. \/ plan' = plan
        \/ ReplacePlan("sched", NoPlan)
        \/ settings.sched
    <3>1. CASE LookSched \/ RequestSched
      BY <3>1 DEF LookSched, RequestSched, KeepPlans
    <3>2. CASE EnsureSched
      BY <3>2 DEF EnsureSched, EnsureExpected, KeepPlans
    <3>3. CASE DecideSched
      BY <3>3 DEF DecideSched, SkipSched, KeepPlans
    <3>4. CASE RecordSched
      BY <3>4 DEF RecordSched, KeepPlans
    <3> QED
      BY <1>3, <3>1, <3>2, <3>3, <3>4 DEF SchedStep
  <2> QED
    BY <2>1, <2>2, NewSched DEF DisabledHasNoPlan, Planned
<1> QED
  BY <1>1, <1>2, <1>3

LEMMA RequestsKeepDisabled ==
    ASSUME IInv, DisabledHasNoPlan, Administrator \/ Queries
    PROVE  DisabledHasNoPlan'
<1> USE DEF IInv
<1>1. ASSUME NEW on \in BOOLEAN, NEW policy \in Policies, NEW newTime \in BOOLEAN,
             SetMod(on, policy, newTime)
      PROVE  SchedKept
  <2>1. settings'.sched = settings.sched
    BY <1>1 DEF SetMod, AdminOK, Settings
  <2>2. (\E new : ReplacePlan("mod", new)) \/ KeepPlans
    BY <1>1 DEF SetMod
  <2> QED
    BY <2>1, <2>2, KindSet, OtherPlan DEF SchedKept, Kinds
<1>2. ASSUME NEW products \in SUBSET Products, NEW policies \in [Products -> Policies],
             NEW newTime \in BOOLEAN, SetAuto(products, policies, newTime)
      PROVE  SchedKept
  <2>1. settings'.sched = settings.sched
    BY <1>2 DEF SetAuto, AdminOK, Settings
  <2>2. \E new : ReplacePlan("auto", new) \/ EditPlan("auto", new) \/ KeepPlans
    BY <1>2 DEF SetAuto
  <2> QED
    BY <2>1, <2>2, KindSet, OtherPlan DEF SchedKept, Kinds
<1>3. CASE \E on \in BOOLEAN : SetSched(on)
  BY <1>3, NewSched DEF SetSched, DisabledHasNoPlan, Planned
<1>4. CASE EnsureSettings
  BY <1>4 DEF EnsureSettings, DisabledHasNoPlan, Planned, KeepPlans
<1>5. CASE \E action \in OtherActions : OtherOperation(action)
  BY <1>5 DEF OtherOperation, adminVars, DisabledHasNoPlan, Planned
<1>6. CASE DetectModUpdate
  <2>1. (\E new : ReplacePlan("mod", new)) \/ KeepPlans
    BY <1>6 DEF DetectModUpdate
  <2>2. SchedKept
    BY <1>6, <2>1, KindSet, OtherPlan DEF SchedKept, Kinds, DetectModUpdate
  <2> QED
    BY <2>2, KeptDisabled
<1>7. CASE SignalDetection \/ \E found \in SUBSET Products : VersionQuery(found)
  BY <1>7 DEF SignalDetection, VersionQuery, DisabledHasNoPlan, Planned
<1> QED
  BY <1>1, <1>2, <1>3, <1>4, <1>5, <1>6, <1>7, KeptDisabled DEF Administrator, Queries

LEMMA EnvironmentKeepsDisabled ==
    ASSUME IInv, DisabledHasNoPlan, Environment
    PROVE  DisabledHasNoPlan'
<1> USE DEF IInv
<1>1. CASE ManagerRestarts
  <2>1. (\E new : ReplacePlan("mod", new)) \/ KeepPlans
    BY <1>1 DEF ManagerRestarts
  <2>2. SchedKept
    BY <1>1, <2>1, KindSet, OtherPlan DEF SchedKept, Kinds, ManagerRestarts
  <2> QED
    BY <2>2, KeptDisabled
<1>2. CASE ProcessStarts \/ Tick
  <2>1. settings' = settings
    BY <1>2 DEF ProcessStarts, Tick, adminVars
  <2>2. ~Planned("sched") => ~Planned("sched")'
    BY <1>2, KindSet DEF ProcessStarts, Tick, Planned, Later
  <2> QED
    BY <2>1, <2>2 DEF DisabledHasNoPlan
<1>3. CASE UNCHANGED <<plan, settings>>
  BY <1>3 DEF DisabledHasNoPlan, Planned
<1> QED
  BY <1>1, <1>2, <1>3 DEF Environment, ProcessExits, OperationEnds, UpdateEnds, WebRestarts,
                          PlayersChange, adminVars, loopVars

\* The stored schedule that the loader refuses is never written, whoever makes,
\* moves and edits the plan while an administrator switches it
\* (scheduledrestart.go:139, 224).
THEOREM DisabledScheduleHasNoPlan == Spec => []DisabledHasNoPlan
<1>1. Init => DisabledHasNoPlan
  BY KindSet DEF Init, DisabledHasNoPlan, Planned
<1>2. IInv /\ DisabledHasNoPlan /\ [Next]_vars => DisabledHasNoPlan'
  <2> SUFFICES ASSUME IInv, DisabledHasNoPlan, [Next]_vars
               PROVE  DisabledHasNoPlan'
    OBVIOUS
  <2>1. CASE \E k \in Watched : Step(k)
    BY <2>1, WatchedAssumption, CommonKeepsDisabled, LoopsKeepDisabled DEF Step
  <2>2. CASE Administrator \/ Queries \/ Environment
    BY <2>2, RequestsKeepDisabled, EnvironmentKeepsDisabled
  <2>3. CASE UNCHANGED vars
    BY <2>3 DEF vars, adminVars, loopVars, DisabledHasNoPlan, Planned
  <2> QED
    BY <2>1, <2>2, <2>3 DEF Next
<1>3. Spec => [](IInv /\ DisabledHasNoPlan)
  BY <1>1, <1>2, InitTypes, NextTypes, PTL DEF Spec
<1> QED
  BY <1>3, PTL

-----------------------------------------------------------------------------
(* A plan restarts its own process *)

\* Where a loop acts upon a plan that it found to be for the running process.
Acting == {"notice", "advance", "waiting", "announced", "resume", "empty", "final",
           "mark", "request"}
OwnPlan(k) ==
    /\ loop[k].pc \in Acting => Seen(k).pid = "this"
    /\ ~Resting(k) /\ Seen(k).pid = "this" /\ Planned(k) => plan[k].pid = "this"
OwnInv == \A k \in Kinds : OwnPlan(k)

\* Every step but the start of a process gives a plan the process that runs, or
\* lets it keep its own.
KeepsProcess(k) ==
    \/ ~Planned(k)'
    \/ plan'[k].pid = "this"
    \/ Planned(k) /\ plan'[k].pid = plan[k].pid

\* What a step does to the place of a loop.
Stays(k) == loop'[k].pc = loop[k].pc /\ loop'[k].seen = loop[k].seen
Proceeds(k) ==
    /\ ~Resting(k)
    /\ loop'[k].seen = loop[k].seen
    /\ loop'[k].pc \in Acting => Seen(k).pid = "this"
Reads(k) ==
    /\ loop'[k].pc \notin Acting
    /\ loop'[k].seen.pid = "this" /\ Planned(k)' => plan'[k].pid = "this"
ReadsAgain(k) ==
    /\ loop[k].pc \in Acting /\ Planned(k)
    /\ plan'[k] = plan[k] /\ loop'[k].seen = plan[k]
Moves(k) == Resting(k)' \/ Stays(k) \/ Proceeds(k) \/ Reads(k) \/ ReadsAgain(k)

LEMMA RestIsNotActing == \A pc \in Acting : pc \notin {"timer", "asleep"}
BY DEF Acting

LEMMA OwnKept ==
    ASSUME NEW k \in Kinds, OwnPlan(k), KeepsProcess(k), Moves(k)
    PROVE  OwnPlan(k)'
<1>1. CASE Resting(k)'
  BY <1>1, RestIsNotActing DEF OwnPlan, Resting
<1>2. CASE Stays(k)
  BY <1>2 DEF Stays, OwnPlan, Resting, Seen, KeepsProcess, Planned
<1>3. CASE Proceeds(k)
  BY <1>3 DEF Proceeds, OwnPlan, Resting, Seen, KeepsProcess, Planned
<1>4. CASE Reads(k)
  BY <1>4 DEF Reads, OwnPlan, Seen
<1>5. CASE ReadsAgain(k)
  <2>1. plan[k].pid = "this"
    BY <1>5, RestIsNotActing DEF ReadsAgain, OwnPlan, Resting
  <2> QED
    BY <1>5, <2>1 DEF ReadsAgain, OwnPlan, Seen
<1> QED
  BY <1>1, <1>2, <1>3, <1>4, <1>5 DEF Moves

\* How the operators on plans keep the process.
LEMMA ProcessKept ==
    ASSUME PlansOK, NEW k \in Kinds
    PROVE  /\ plan' = plan => \A j \in Kinds : KeepsProcess(j)
           /\ KeepPlans => \A j \in Kinds : KeepsProcess(j)
           /\ ReplacePlan(k, NoPlan) => \A j \in Kinds : KeepsProcess(j)
           /\ \A new : /\ SetPlan(k, new) \/ EditPlan(k, new) \/ ReplacePlan(k, new)
                       /\ new.pid = "this" \/ (Planned(k) /\ new.pid = plan[k].pid)
                       => \A j \in Kinds : KeepsProcess(j)
<1>1. plan' = plan => \A j \in Kinds : KeepsProcess(j)
  BY DEF KeepsProcess, Planned
<1>2. KeepPlans => plan' = plan
  BY DEF KeepPlans
<1>3. ASSUME NEW new, SetPlan(k, new)
      PROVE  plan'[k] = new /\ \A j \in Kinds \ {k} : plan'[j] = plan[j]
  BY <1>3 DEF PlansOK, SetPlan
<1>4. ReplacePlan(k, NoPlan) => \A j \in Kinds : KeepsProcess(j)
  BY <1>3 DEF ReplacePlan, KeepsProcess, Planned
<1>5. ASSUME NEW new, SetPlan(k, new),
             new.pid = "this" \/ (Planned(k) /\ new.pid = plan[k].pid)
      PROVE  \A j \in Kinds : KeepsProcess(j)
  BY <1>3, <1>5 DEF KeepsProcess, Planned
<1> QED
  BY <1>1, <1>2, <1>4, <1>5 DEF EditPlan, ReplacePlan

\* How the operators on loops move them.
LEMMA PlacesKept ==
    ASSUME LoopOK, NEW k \in Kinds
    PROVE  /\ loop' = loop => \A j \in Kinds : Stays(j)
           /\ Outdates(k) => \A j \in Kinds : Stays(j)
           /\ \A pc, s : Return(k, pc) \/ GoOn(k, pc) \/ Read(k, pc, s) =>
                  \A j \in Kinds \ {k} : Stays(j)
           /\ \A pc \in {"timer", "asleep"} : Return(k, pc) => Resting(k)'
           /\ \A pc : GoOn(k, pc) => loop'[k].pc = pc /\ loop'[k].seen = loop[k].seen
           /\ \A pc, s : Read(k, pc, s) => loop'[k].pc = pc /\ loop'[k].seen = s
<1>1. loop' = loop => \A j \in Kinds : Stays(j)
  BY DEF Stays
<1>2. Outdates(k) => \A j \in Kinds : Stays(j)
  BY DEF LoopOK, Loop, Outdates, Stays
<1>3. ASSUME NEW pc, NEW s, Return(k, pc) \/ GoOn(k, pc) \/ Read(k, pc, s)
      PROVE  \A j \in Kinds \ {k} : Stays(j)
  BY <1>3 DEF LoopOK, Return, GoOn, Read, Stays
<1>4. ASSUME NEW pc \in {"timer", "asleep"}, Return(k, pc)
      PROVE  Resting(k)'
  BY <1>4 DEF LoopOK, Return, IdleLoop, Resting
<1>5. ASSUME NEW pc, GoOn(k, pc)
      PROVE  loop'[k].pc = pc /\ loop'[k].seen = loop[k].seen
  BY <1>5 DEF LoopOK, Loop, GoOn
<1>6. ASSUME NEW pc, NEW s, Read(k, pc, s)
      PROVE  loop'[k].pc = pc /\ loop'[k].seen = s
  BY <1>6 DEF LoopOK, Read
<1> QED
  BY <1>1, <1>2, <1>3, <1>4, <1>5, <1>6

\* The three ways a pass goes on.
LEMMA PassMoves ==
    ASSUME LoopOK, NEW k \in Kinds, OwnPlan(k), ~Resting(k)
    PROVE  /\ \A pc : GoOn(k, pc) /\ loop[k].pc \in Acting => Moves(k)
           /\ \A pc : GoOn(k, pc) /\ Seen(k).pid = "this" => Moves(k)
           /\ \A pc : GoOn(k, pc) /\ pc \notin Acting => Moves(k)
           /\ \A pc \in {"timer", "asleep"} : Return(k, pc) => Moves(k)
BY PlacesKept DEF Moves, Proceeds, OwnPlan

LEMMA EditsKeepProcess ==
    ASSUME PlansOK, NEW k \in Kinds, Planned(k)
    PROVE  /\ \A n : [plan[k] EXCEPT !.notice = n].pid = plan[k].pid
           /\ [plan[k] EXCEPT !.waiting = TRUE].pid = plan[k].pid
           /\ [plan[k] EXCEPT !.final = TRUE].pid = plan[k].pid
           /\ \A v : [plan[k] EXCEPT !.since = v].pid = plan[k].pid
           /\ \A v : [plan[k] EXCEPT !.targets = v].pid = plan[k].pid
BY DEF PlansOK, Plan

LEMMA CommonKeepsOwn ==
    ASSUME IInv, OwnInv, NEW k \in Kinds,
           \/ SendNotice(k) \/ AdvanceNotice(k) \/ SendWaiting(k) \/ MarkWaiting(k)
           \/ Resume(k) \/ ObserveEmpty(k) \/ SendFinal(k) \/ MarkFinal(k)
    PROVE  OwnInv'
<1> USE DEF IInv
<1>1. loop[k].pc \in Acting /\ ~Resting(k) /\ OwnPlan(k)
  BY DEF SendNotice, AdvanceNotice, SendWaiting, MarkWaiting, Resume, ObserveEmpty,
         SendFinal, MarkFinal, At, Acting, Resting, OwnInv
<1>2. \A j \in Kinds : KeepsProcess(j)
  <2>1. \/ plan' = plan \/ KeepPlans
        \/ /\ Planned(k)
           /\ \E new : /\ SetPlan(k, new) \/ EditPlan(k, new) \/ ReplacePlan(k, new)
                       /\ new.pid = plan[k].pid
    <3>1. CASE SendNotice(k) \/ SendWaiting(k) \/ Resume(k) \/ SendFinal(k)
      BY <3>1 DEF SendNotice, SendWaiting, Resume, SendFinal
    <3>2. CASE AdvanceNotice(k) \/ MarkWaiting(k) \/ MarkFinal(k)
      BY <3>2, SamePlan, EditsKeepProcess DEF AdvanceNotice, MarkWaiting, MarkFinal
    <3>3. CASE ObserveEmpty(k)
      BY <3>3, SamePlan, EditsKeepProcess DEF ObserveEmpty
    <3> QED
      BY <3>1, <3>2, <3>3
  <2> QED
    BY <2>1, ProcessKept
<1>3. CASE \E pc : GoOn(k, pc)
  <2>1. \A j \in Kinds \ {k} : Moves(j)
    BY <1>3, PlacesKept DEF Moves
  <2>2. Moves(k)
    BY <1>1, <1>3, PassMoves
  <2> QED
    BY <1>2, <2>1, <2>2, OwnKept DEF OwnInv
<1>4. CASE \E pc \in {"timer", "asleep"} : Return(k, pc)
  <2>1. \A j \in Kinds \ {k} : Moves(j)
    BY <1>4, PlacesKept DEF Moves
  <2>2. Moves(k)
    BY <1>1, <1>4, PassMoves
  <2> QED
    BY <1>2, <2>1, <2>2, OwnKept DEF OwnInv
<1>5. CASE loop' = [j \in Kinds |-> IdleLoop("timer")]
  <2>1. \A j \in Kinds : Moves(j)
    BY <1>5 DEF IdleLoop, Moves, Resting
  <2> QED
    BY <1>2, <2>1, OwnKept DEF OwnInv
<1>6. CASE /\ Resume(k) /\ Planned(k)
           /\ loop' = [loop EXCEPT ![k].pc = "empty", ![k].seen = plan[k],
                                   ![k].stale = FALSE]
  <2>1. plan' = plan
    BY <1>6 DEF Resume
  <2>2. loop'[k].seen = plan[k] /\ \A j \in Kinds \ {k} : loop'[j] = loop[j]
    BY <1>6 DEF LoopOK, Loop
  <2>3. Moves(k) /\ \A j \in Kinds \ {k} : Moves(j)
    BY <1>1, <1>6, <2>1, <2>2 DEF Moves, ReadsAgain, Stays
  <2> QED
    BY <1>2, <2>3, OwnKept DEF OwnInv
<1> QED
  BY <1>3, <1>4, <1>5, <1>6 DEF SendNotice, AdvanceNotice, SendWaiting, MarkWaiting, Resume,
     ObserveEmpty, SendFinal, MarkFinal

\* One step of one loop: the plans keep their process and the loop goes on, reads
\* or rests.
LEMMA OneMoves ==
    ASSUME LoopOK, OwnInv, NEW k \in Kinds, Moves(k),
           \A j \in Kinds : KeepsProcess(j),
           \E pc, s : Return(k, pc) \/ GoOn(k, pc) \/ Read(k, pc, s)
    PROVE  OwnInv'
<1>1. \A j \in Kinds : Moves(j)
  BY PlacesKept DEF Moves
<1> QED
  BY <1>1, OwnKept DEF OwnInv

LEMMA CountDownMoves ==
    ASSUME LoopOK, NEW k \in Kinds, OwnPlan(k), ~Resting(k), Seen(k).pid = "this",
           CountDown(k)
    PROVE  Moves(k) /\ \E pc, s : Return(k, pc) \/ GoOn(k, pc) \/ Read(k, pc, s)
BY PassMoves DEF CountDown

LEMMA ModKeepsOwn ==
    ASSUME IInv, OwnInv, ModStep
    PROVE  OwnInv'
<1> USE DEF IInv
<1>0. OwnPlan("mod") /\ "mod" \in Kinds
  BY KindSet DEF OwnInv
<1>1. CASE LookMod
  <2>1. \A j \in Kinds : KeepsProcess(j)
    BY <1>1, <1>0, ProcessKept DEF LookMod
  <2>2. CASE Return("mod", "asleep")
    BY <1>0, <2>1, <2>2, PlacesKept, OneMoves DEF Moves
  <2>3. CASE Planned("mod") /\ Read("mod", "decide", plan["mod"])
    <3>1. loop'["mod"].pc = "decide" /\ loop'["mod"].seen = plan["mod"]
      BY <1>0, <2>3, PlacesKept
    <3>2. plan' = plan
      BY <1>1 DEF LookMod
    <3>3. Moves("mod")
      BY <3>1, <3>2 DEF Moves, Reads, Acting
    <3> QED
      BY <1>0, <2>1, <2>3, <3>3, OneMoves
  <2> QED
    BY <1>1, <2>2, <2>3 DEF LookMod
<1>2. ASSUME ClearMod, ~Resting("mod")
      PROVE  OwnInv'
  <2>1. \A j \in Kinds : KeepsProcess(j)
    BY <1>0, <1>2, ProcessKept DEF ClearMod
  <2>2. Return("mod", "asleep") \/ Return("mod", "timer")
    BY <1>2 DEF ClearMod
  <2>3. Moves("mod")
    BY <1>0, <1>2, <2>2, PassMoves
  <2> QED
    BY <1>0, <2>1, <2>2, <2>3, OneMoves
<1>3. CASE DecideMod
  <2>1. ~Resting("mod")
    BY <1>3 DEF DecideMod, At, Resting
  <2>2. CASE ~ModCancelled /\ CountDown("mod") /\ KeepPlans
    <3>1. Seen("mod").pid = "this"
      BY <2>2 DEF ModCancelled, IsOf
    <3>2. \A j \in Kinds : KeepsProcess(j)
      BY <1>0, <2>2, ProcessKept
    <3> QED
      BY <1>0, <2>1, <2>2, <3>1, <3>2, CountDownMoves, OneMoves
  <2> QED
    BY <1>2, <1>3, <2>1, <2>2 DEF DecideMod
<1>4. CASE RequestMod
  <2>1. ~Resting("mod") /\ loop["mod"].pc \in Acting
    BY <1>4 DEF RequestMod, At, Resting, Acting
  <2>2. \A j \in Kinds : KeepsProcess(j)
    BY <1>0, <1>4, ProcessKept DEF RequestMod
  <2>3. Return("mod", "asleep") \/ Return("mod", "timer") \/ GoOn("mod", "record")
    BY <1>4 DEF RequestMod
  <2>4. Moves("mod")
    BY <1>0, <2>1, <2>3, PassMoves
  <2> QED
    BY <1>0, <2>2, <2>3, <2>4, OneMoves
<1>5. CASE RecordMod
  BY <1>2, <1>5 DEF RecordMod, At, Resting
<1> QED
  BY <1>1, <1>3, <1>4, <1>5 DEF ModStep

\* A new plan keeps the process that it is given.
LEMMA NewProcess ==
    ASSUME PlansOK, NEW k \in Kinds, NEW p, NEW policy, NEW targets, NEW left,
           ReplacePlan(k, NewPlan(p, policy, targets, left)),
           p = "this" \/ (Planned(k) /\ p = plan[k].pid)
    PROVE  \A j \in Kinds : KeepsProcess(j)
<1>1. NewPlan(p, policy, targets, left).pid = p
  BY DEF NewPlan
<1> QED
  BY <1>1, ProcessKept

\* A pass that begins anew, with a plan of the running process or of none.
LEMMA ReadMoves ==
    ASSUME LoopOK, NEW k \in Kinds, NEW pc \in LoopSteps \ Acting, NEW s, Read(k, pc, s),
           s.pid = "this" => plan'[k].pid = "this"
    PROVE  Moves(k)
BY PlacesKept DEF Moves, Reads

LEMMA SameProcess ==
    ASSUME NEW k \in Kinds, Same(k)
    PROVE  Planned(k) /\ Seen(k).pid = plan[k].pid
BY DEF Same

LEMMA EnsureAutoKeepsOwn ==
    ASSUME IInv, OwnInv, EnsureAuto
    PROVE  OwnInv'
<1> USE DEF IInv
<1>0. OwnPlan("auto") /\ "auto" \in Kinds /\ ~Resting("auto")
      /\ "update" \in LoopSteps \ Acting /\ "decide" \in LoopSteps \ Acting
  BY KindSet DEF OwnInv, EnsureAuto, At, Resting, LoopSteps, Acting
<1>1. CASE /\ KeepPlans \/ ReplacePlan("auto", NoPlan)
           /\ \E pc \in {"timer", "asleep"} : Return("auto", pc)
  <2>1. \A j \in Kinds : KeepsProcess(j)
    BY <1>0, <1>1, ProcessKept
  <2>2. Moves("auto")
    BY <1>0, <1>1, PassMoves
  <2> QED
    BY <1>0, <1>1, <2>1, <2>2, OneMoves
<1>2. CASE /\ ReplacePlan("auto", NoPlan)
           /\ Read("auto", "update", NewPlan("none", AutoPolicy(Targets), Targets, 0))
  <2>1. \A j \in Kinds : KeepsProcess(j)
    BY <1>0, <1>2, ProcessKept
  <2>2. NewPlan("none", AutoPolicy(Targets), Targets, 0).pid # "this"
    BY DEF NewPlan
  <2>3. Moves("auto")
    BY <1>0, <1>2, <2>2, ReadMoves
  <2> QED
    BY <1>0, <1>2, <2>1, <2>3, OneMoves
<1>3. CASE KeepPlans /\ Read("auto", "decide", plan["auto"])
  <2>1. \A j \in Kinds : KeepsProcess(j)
    BY <1>0, <1>3, ProcessKept
  <2>2. plan'["auto"] = plan["auto"]
    BY <1>3 DEF KeepPlans
  <2>3. Moves("auto")
    BY <1>0, <1>3, <2>2, ReadMoves
  <2> QED
    BY <1>0, <1>3, <2>1, <2>3, OneMoves
<1>4. CASE \E left \in LeftsOf(AutoPolicy(Targets)) :
              LET new == NewPlan("this", AutoPolicy(Targets), Targets, left)
              IN  ReplacePlan("auto", new) /\ Read("auto", "decide", new)
  <2>1. PICK left \in LeftsOf(AutoPolicy(Targets)) :
            /\ ReplacePlan("auto", NewPlan("this", AutoPolicy(Targets), Targets, left))
            /\ Read("auto", "decide", NewPlan("this", AutoPolicy(Targets), Targets, left))
    BY <1>4
  <2>2. \A j \in Kinds : KeepsProcess(j)
    BY <1>0, <2>1, NewProcess
  <2>3. plan'["auto"].pid = "this"
    BY <1>0, <2>1 DEF PlansOK, ReplacePlan, SetPlan, NewPlan
  <2>4. Moves("auto")
    BY <1>0, <2>1, <2>3, ReadMoves
  <2> QED
    BY <1>0, <2>1, <2>2, <2>4, OneMoves
<1> QED
  BY <1>1, <1>2, <1>3, <1>4 DEF EnsureAuto

LEMMA AutoKeepsOwn ==
    ASSUME IInv, OwnInv, AutoStep
    PROVE  OwnInv'
<1> USE DEF IInv
<1>0. OwnPlan("auto") /\ "auto" \in Kinds /\ "ensure" \in LoopSteps \ Acting
  BY KindSet DEF OwnInv, LoopSteps, Acting
<1>1. CASE LookAuto
  <2>1. \A j \in Kinds : KeepsProcess(j)
    BY <1>1, <1>0, ProcessKept DEF LookAuto
  <2>2. CASE Return("auto", "timer")
    BY <1>0, <2>1, <2>2, PlacesKept, OneMoves DEF Moves
  <2>3. CASE Read("auto", "ensure", NoPlan)
    <3>1. NoPlan.pid # "this"
      BY DEF NoPlan, NewPlan
    <3>2. Moves("auto")
      BY <1>0, <2>3, <3>1, ReadMoves
    <3> QED
      BY <1>0, <2>1, <2>3, <3>2, OneMoves
  <2> QED
    BY <1>1, <2>2, <2>3 DEF LookAuto
<1>2. CASE DecideAuto
  <2>0. ~Resting("auto")
    BY <1>2 DEF DecideAuto, At, Resting
  <2>1. CASE GoOn("auto", "update") /\ KeepPlans
    <3>1. \A j \in Kinds : KeepsProcess(j)
      BY <1>0, <2>1, ProcessKept
    <3>2. Moves("auto")
      BY <1>0, <2>0, <2>1, PassMoves DEF Acting
    <3> QED
      BY <1>0, <2>1, <3>1, <3>2, OneMoves
  <2>2. CASE Return("auto", "timer") /\ (KeepPlans \/ ReplacePlan("auto", NoPlan) \/ MoveAuto)
    <3>1. CASE KeepPlans \/ ReplacePlan("auto", NoPlan)
      BY <1>0, <2>0, <2>2, <3>1, ProcessKept, PassMoves, OneMoves
    <3>2. CASE /\ Same("auto")
               /\ \E left \in LeftsOf(AutoPolicy(plan["auto"].targets)) :
                      ReplacePlan("auto", NewPlan(plan["auto"].pid,
                          AutoPolicy(plan["auto"].targets), plan["auto"].targets, left))
      <4>1. \A j \in Kinds : KeepsProcess(j)
        BY <1>0, <3>2, SameProcess, NewProcess
      <4>2. Moves("auto")
        BY <1>0, <2>0, <2>2, PassMoves
      <4> QED
        BY <1>0, <2>2, <4>1, <4>2, OneMoves
    <3> QED
      BY <2>2, <3>1, <3>2 DEF MoveAuto
  <2>3. CASE IsOf("auto") /\ CountDown("auto") /\ KeepPlans
    <3>1. Seen("auto").pid = "this"
      BY <2>3 DEF IsOf
    <3>2. \A j \in Kinds : KeepsProcess(j)
      BY <1>0, <2>3, ProcessKept
    <3> QED
      BY <1>0, <2>0, <2>3, <3>1, <3>2, CountDownMoves, OneMoves
  <2> QED
    BY <1>2, <2>1, <2>2, <2>3 DEF DecideAuto
<1>3. CASE UpdateStopped \/ RequestAuto \/ RecordAuto
  <2>1. ~Resting("auto")
    BY <1>3 DEF UpdateStopped, RequestAuto, RecordAuto, At, Resting
  <2>2. KeepPlans \/ ReplacePlan("auto", NoPlan)
    BY <1>3 DEF UpdateStopped, RequestAuto, RecordAuto
  <2>3. \A j \in Kinds : KeepsProcess(j)
    BY <1>0, <2>2, ProcessKept
  <2>4. GoOn("auto", "record") \/ \E pc \in {"timer", "asleep"} : Return("auto", pc)
    BY <1>3 DEF UpdateStopped, RequestAuto, RecordAuto, Execute
  <2>5. Moves("auto")
    BY <1>0, <2>1, <2>4, PassMoves DEF Acting
  <2> QED
    BY <1>0, <2>3, <2>4, <2>5, OneMoves
<1> QED
  BY <1>1, <1>2, <1>3, EnsureAutoKeepsOwn DEF AutoStep

LEMMA SchedKeepsOwn ==
    ASSUME IInv, OwnInv, SchedStep
    PROVE  OwnInv'
<1> USE DEF IInv
<1>0. /\ OwnPlan("sched") /\ "sched" \in Kinds
      /\ "decide" \in LoopSteps \ Acting /\ "ensure" \in LoopSteps \ Acting
  BY KindSet DEF OwnInv, LoopSteps, Acting
<1>1. CASE LookSched
  <2>1. \A j \in Kinds : KeepsProcess(j)
    BY <1>1, <1>0, ProcessKept DEF LookSched
  <2>2. CASE Return("sched", "asleep")
    BY <1>0, <2>1, <2>2, PlacesKept, OneMoves DEF Moves
  <2>3. CASE \E pc \in {"decide", "ensure"} : Read("sched", pc, plan["sched"])
    <3>1. plan' = plan
      BY <1>1 DEF LookSched
    <3>2. Moves("sched")
      BY <1>0, <2>3, <3>1, ReadMoves
    <3> QED
      BY <1>0, <2>1, <2>3, <3>2, OneMoves
  <2> QED
    BY <1>1, <2>2, <2>3 DEF LookSched
<1>2. ASSUME Same("sched"),
             \E left \in OccurrencesAfter(Seen("sched").left) :
                 ReplacePlan("sched", Occurrence(Seen("sched").pid, left))
      PROVE  \A j \in Kinds : KeepsProcess(j)
  BY <1>0, <1>2, SameProcess, NewProcess DEF Occurrence
<1>3. CASE EnsureSched
  <2>0. ~Resting("sched")
    BY <1>3 DEF EnsureSched, At, Resting
  <2>1. CASE Return("sched", "timer") /\ (KeepPlans \/ ReplacePlan("sched", NoPlan))
    BY <1>0, <2>0, <2>1, ProcessKept, PassMoves, OneMoves
  <2>2. CASE \E left \in Gaps : /\ ReplacePlan("sched", Occurrence("this", left))
                                /\ Read("sched", "decide", Occurrence("this", left))
    <3>1. PICK left \in Gaps : /\ ReplacePlan("sched", Occurrence("this", left))
                               /\ Read("sched", "decide", Occurrence("this", left))
      BY <2>2
    <3>2. \A j \in Kinds : KeepsProcess(j)
      BY <1>0, <3>1, NewProcess DEF Occurrence
    <3>3. plan'["sched"].pid = "this"
      BY <1>0, <3>1 DEF PlansOK, ReplacePlan, SetPlan, Occurrence, NewPlan
    <3>4. Moves("sched")
      BY <1>0, <3>1, <3>3, ReadMoves
    <3> QED
      BY <1>0, <3>1, <3>2, <3>4, OneMoves
  <2> QED
    BY <1>3, <2>1, <2>2 DEF EnsureSched
<1>4. CASE DecideSched
  <2>0. ~Resting("sched")
    BY <1>4 DEF DecideSched, At, Resting
  <2>1. CASE SkipSched
    <3>1. \A j \in Kinds : KeepsProcess(j)
      BY <1>0, <1>2, <2>1, ProcessKept DEF SkipSched
    <3>2. Return("sched", "timer")
      BY <2>1 DEF SkipSched
    <3> QED
      BY <1>0, <2>0, <3>1, <3>2, PassMoves, OneMoves
  <2>2. CASE Return("sched", "timer") /\ (KeepPlans \/ ReplacePlan("sched", NoPlan))
    BY <1>0, <2>0, <2>2, ProcessKept, PassMoves, OneMoves
  <2>3. CASE IsOf("sched") /\ KeepPlans /\ \E pc : GoOn("sched", pc)
    <3>1. Seen("sched").pid = "this"
      BY <2>3 DEF IsOf
    <3>2. Moves("sched")
      BY <1>0, <2>0, <2>3, <3>1, PassMoves
    <3>3. \A j \in Kinds : KeepsProcess(j)
      BY <1>0, <2>3, ProcessKept
    <3> QED
      BY <1>0, <2>3, <3>2, <3>3, OneMoves
  <2> QED
    BY <1>4, <2>1, <2>2, <2>3 DEF DecideSched
<1>5. CASE RequestSched
  <2>1. ~Resting("sched") /\ loop["sched"].pc \in Acting
    BY <1>5 DEF RequestSched, At, Resting, Acting
  <2>2. \A j \in Kinds : KeepsProcess(j)
    BY <1>0, <1>5, ProcessKept DEF RequestSched
  <2>3. Return("sched", "timer") \/ GoOn("sched", "record")
    BY <1>5 DEF RequestSched
  <2>4. Moves("sched")
    BY <1>0, <2>1, <2>3, PassMoves
  <2> QED
    BY <1>0, <2>2, <2>3, <2>4, OneMoves
<1>6. CASE RecordSched
  <2>1. ~Resting("sched")
    BY <1>6 DEF RecordSched, At, Resting
  <2>2. \A j \in Kinds : KeepsProcess(j)
    BY <1>0, <1>2, <1>6, ProcessKept DEF RecordSched
  <2>3. \E pc \in {"timer", "asleep"} : Return("sched", pc)
    BY <1>6 DEF RecordSched
  <2>4. Moves("sched")
    BY <1>0, <2>1, <2>3, PassMoves
  <2> QED
    BY <1>0, <2>2, <2>3, <2>4, OneMoves
<1> QED
  BY <1>1, <1>3, <1>4, <1>5, <1>6 DEF SchedStep

\* A step that moves no loop, or all of them to their timers.
LEMMA OthersKeepOwn ==
    ASSUME OwnInv, \A j \in Kinds : KeepsProcess(j),
           \A j \in Kinds : Stays(j) \/ Resting(j)'
    PROVE  OwnInv'
BY OwnKept DEF OwnInv, Moves

LEMMA AdministratorKeepsOwn ==
    ASSUME IInv, OwnInv, Administrator
    PROVE  OwnInv'
<1> USE DEF IInv
<1>1. ASSUME NEW on \in BOOLEAN, NEW policy \in Policies, NEW newTime \in BOOLEAN,
             SetMod(on, policy, newTime)
      PROVE  OwnInv'
  <2>1. \A j \in Kinds : KeepsProcess(j)
    <3>1. CASE KeepPlans \/ ReplacePlan("mod", NoPlan)
      BY <3>1, KindSet, ProcessKept
    <3>2. CASE /\ Planned("mod")
               /\ \E left \in LeftsOf(policy) :
                      ReplacePlan("mod", NewPlan(plan["mod"].pid, policy, {}, left))
      BY <3>2, KindSet, NewProcess
    <3> QED
      BY <1>1, <3>1, <3>2 DEF SetMod
  <2>2. \A j \in Kinds : Stays(j)
    <3>1. CASE loop' = loop \/ Outdates("mod")
      BY <3>1, KindSet, PlacesKept
    <3>2. CASE loop' = [loop EXCEPT !["mod"].stale =
                           ~Resting("mod") /\ (@ \/ policy = "countdown")]
      BY <3>2 DEF LoopOK, Loop, Stays
    <3> QED
      BY <1>1, <3>1, <3>2 DEF SetMod
  <2> QED
    BY <2>1, <2>2, OthersKeepOwn
<1>2. ASSUME NEW products \in SUBSET Products, NEW policies \in [Products -> Policies],
             NEW newTime \in BOOLEAN, SetAuto(products, policies, newTime)
      PROVE  OwnInv'
  <2> DEFINE old == plan["auto"]
             left == old.targets \cap products
             policy == PolicyFor(left, policies)
  <2>1. \A j \in Kinds : KeepsProcess(j)
    <3>1. CASE KeepPlans \/ ReplacePlan("auto", NoPlan)
      BY <3>1, KindSet, ProcessKept
    <3>2. CASE /\ Planned("auto")
               /\ \E time \in LeftsOf(policy) :
                      ReplacePlan("auto", NewPlan(old.pid, policy, left, time))
      BY <3>2, KindSet, NewProcess
    <3>3. CASE Planned("auto") /\ EditPlan("auto", [old EXCEPT !.targets = left])
      BY <3>3, KindSet, EditsKeepProcess, ProcessKept
    <3> QED
      BY <1>2, <3>1, <3>2, <3>3 DEF SetAuto
  <2>2. \A j \in Kinds : Stays(j)
    BY <1>2, KindSet, PlacesKept DEF SetAuto
  <2> QED
    BY <2>1, <2>2, OthersKeepOwn
<1>3. CASE \E on \in BOOLEAN : SetSched(on)
  <2>1. ReplacePlan("sched", NoPlan) /\ loop' = loop
    BY <1>3 DEF SetSched
  <2> QED
    BY <2>1, KindSet, ProcessKept, PlacesKept, OthersKeepOwn
<1>4. CASE EnsureSettings
  <2>1. loop' = loop
    BY <1>4 DEF EnsureSettings
  <2>2. KeepPlans \/ \E left \in Gaps : ReplacePlan("sched", Occurrence("this", left))
    BY <1>4 DEF EnsureSettings
  <2>3. \A j \in Kinds : KeepsProcess(j)
    BY <2>2, KindSet, NewProcess, ProcessKept DEF Occurrence
  <2> QED
    BY <2>1, <2>3, KindSet, PlacesKept, OthersKeepOwn
<1>5. CASE \E action \in OtherActions : OtherOperation(action)
  <2>1. plan' = plan /\ loop' = loop
    BY <1>5 DEF OtherOperation
  <2> QED
    BY <2>1, KindSet, ProcessKept, PlacesKept, OthersKeepOwn
<1> QED
  BY <1>1, <1>2, <1>3, <1>4, <1>5 DEF Administrator

LEMMA QueriesKeepOwn ==
    ASSUME IInv, OwnInv, Queries
    PROVE  OwnInv'
<1> USE DEF IInv
<1>1. CASE DetectModUpdate
  <2>1. \A j \in Kinds : KeepsProcess(j)
    <3>1. \/ KeepPlans \/ ReplacePlan("mod", NoPlan)
          \/ \E left \in LeftsOf(settings.modPolicy) :
                 ReplacePlan("mod", NewPlan("this", settings.modPolicy, {}, left))
      BY <1>1 DEF DetectModUpdate
    <3> QED
      BY <3>1, KindSet, NewProcess, ProcessKept
  <2>2. \A j \in Kinds : Stays(j)
    BY <1>1, KindSet, PlacesKept DEF DetectModUpdate
  <2> QED
    BY <2>1, <2>2, OthersKeepOwn
<1>2. CASE SignalDetection \/ \E found \in SUBSET Products : VersionQuery(found)
  <2>1. plan' = plan /\ loop' = loop
    BY <1>2 DEF SignalDetection, VersionQuery
  <2> QED
    BY <2>1, KindSet, ProcessKept, PlacesKept, OthersKeepOwn
<1> QED
  BY <1>1, <1>2 DEF Queries

LEMMA EnvironmentKeepsOwn ==
    ASSUME IInv, OwnInv, Environment
    PROVE  OwnInv'
<1> USE DEF IInv
<1>1. CASE ManagerRestarts
  <2>1. \A j \in Kinds : KeepsProcess(j)
    <3>1. \/ KeepPlans \/ ReplacePlan("mod", NoPlan)
          \/ /\ Planned("mod")
             /\ \E left \in LeftsOf(settings.modPolicy) :
                    ReplacePlan("mod", NewPlan(plan["mod"].pid, settings.modPolicy, {}, left))
      BY <1>1 DEF ManagerRestarts
    <3> QED
      BY <3>1, KindSet, NewProcess, ProcessKept
  <2>2. \A j \in Kinds : Resting(j)'
    BY <1>1 DEF ManagerRestarts, IdleLoop, Resting
  <2> QED
    BY <2>1, <2>2, OthersKeepOwn
<1>2. CASE ProcessStarts
  <2>1. \A j \in Kinds : Resting(j)
    BY <1>2 DEF ProcessStarts, AllRest
  <2>2. loop' = loop
    BY <1>2 DEF ProcessStarts
  <2> QED
    BY <2>1, <2>2, RestIsNotActing DEF OwnInv, OwnPlan, Resting
<1>3. CASE Tick
  <2>1. ASSUME NEW s \in Plan
        PROVE  Later(s).pid = s.pid
    BY DEF Later, Plan
  <2>2. \A j \in Kinds : plan[j] \in Plan /\ plan'[j] = Later(plan[j])
    BY <1>3 DEF PlansOK, Tick
  <2>3. \A j \in Kinds : ~Planned(j) => ~Planned(j)'
    BY <2>2 DEF Planned, Later
  <2>4. \A j \in Kinds : KeepsProcess(j)
    BY <2>1, <2>2, <2>3 DEF KeepsProcess
  <2>5. loop' = loop
    BY <1>3 DEF Tick
  <2> QED
    BY <2>4, <2>5, KindSet, PlacesKept, OthersKeepOwn
<1>4. CASE plan' = plan /\ loop' = loop
  BY <1>4, KindSet, ProcessKept, PlacesKept, OthersKeepOwn
<1> QED
  BY <1>1, <1>2, <1>3, <1>4 DEF Environment, ProcessExits, OperationEnds, UpdateEnds,
                                WebRestarts, PlayersChange, loopVars

LEMMA OwnInvariance == Spec => [](IInv /\ OwnInv)
<1>1. Init => OwnInv
  BY RestIsNotActing DEF Init, OwnInv, OwnPlan, IdleLoop, Resting, Kinds
<1>2. IInv /\ OwnInv /\ [Next]_vars => OwnInv'
  <2> SUFFICES ASSUME IInv, OwnInv, [Next]_vars
               PROVE  OwnInv'
    OBVIOUS
  <2>1. CASE \E k \in Watched : Step(k)
    BY <2>1, WatchedAssumption, CommonKeepsOwn, ModKeepsOwn, AutoKeepsOwn, SchedKeepsOwn
       DEF Step
  <2>2. CASE Administrator \/ Queries \/ Environment
    BY <2>2, AdministratorKeepsOwn, QueriesKeepOwn, EnvironmentKeepsOwn
  <2>3. CASE UNCHANGED vars
    BY <2>3 DEF vars, loopVars, OwnInv, OwnPlan, Seen, Resting, Planned
  <2> QED
    BY <2>1, <2>2, <2>3 DEF Next
<1> QED
  BY <1>1, <1>2, InitTypes, NextTypes, PTL DEF Spec

\* Whatever an operation, a shell, an administrator or the other loops do between
\* its steps, a loop that requests its restart does so for a process of its plan:
\* each loop compares the process once, at the beginning of its pass, and finds
\* the plan it acts upon only by comparing it with the one it read
\* (processModRestartSchedule, processAutomaticUpdates, processScheduledServerRestart).
THEOREM EachRestartsItsOwnProcess == Spec => RestartsItsOwnProcess
<1>1. OwnInv => \A k \in Kinds : Accepts(k) => ~running \/ Seen(k).pid = "this"
  BY DEF OwnInv, OwnPlan, Accepts, Acting
<1> QED
  BY <1>1, OwnInvariance, PTL DEF RestartsItsOwnProcess

-----------------------------------------------------------------------------
(* A pending restart is never left to nobody *)

\* The mod loop that sleeps, or goes on with a plan that was replaced meanwhile,
\* has been signalled or is about to be: by whoever changed the plan.
ModIsWatched ==
    Planned("mod") /\ (At("mod", "asleep") \/ (~Resting("mod") /\ ~Same("mod"))) =>
        wake["mod"] \/ detected

\* The sched loop sleeps with a plan only until an operation ends: the one it
\* requested, whose end signals it.
SchedIsWatched ==
    (At("sched", "asleep") /\ (Planned("sched") \/ ensuring)) \/ At("sched", "record") =>
        wake["sched"] \/ op # "none"

WatchInv == ModIsWatched /\ SchedIsWatched /\ (ensuring => settings.sched)

\* What a step of another loop leaves of a loop and its plan, and what is left when
\* the manager goes down.
Leaves(j) ==
    /\ plan'[j] = plan[j] /\ loop'[j] = loop[j]
    /\ wake[j] => wake'[j]
    /\ detected' = detected /\ ensuring' = ensuring /\ settings' = settings
    /\ op # "none" => op' # "none"
StartsAnew ==
    /\ \A j \in Kinds : loop'[j] = IdleLoop("timer")
    /\ ~ensuring'

LEMMA AnewIsWatched ==
    ASSUME StartsAnew
    PROVE  WatchInv'
BY KindSet DEF StartsAnew, IdleLoop, WatchInv, ModIsWatched, SchedIsWatched, At, Resting

LEMMA LeftIsWatched ==
    /\ WatchInv /\ Leaves("mod") => ModIsWatched'
    /\ WatchInv /\ Leaves("sched") => SchedIsWatched' /\ (ensuring => settings.sched)'
<1>1. ASSUME WatchInv, Leaves("mod")
      PROVE  ModIsWatched'
  BY <1>1 DEF Leaves, WatchInv, ModIsWatched, At, Resting, Same, Seen, Planned
<1>2. ASSUME WatchInv, Leaves("sched")
      PROVE  SchedIsWatched' /\ (ensuring => settings.sched)'
  BY <1>2 DEF Leaves, WatchInv, SchedIsWatched, At, Planned
<1> QED
  BY <1>1, <1>2

LEMMA PlacesLeft ==
    ASSUME LoopOK, NEW k \in Kinds, NEW j \in Kinds \ {k}
    PROVE  \A pc, s : Return(k, pc) \/ GoOn(k, pc) \/ Read(k, pc, s) => loop'[j] = loop[j]
BY DEF LoopOK, Return, GoOn, Read

LEMMA PlansLeft ==
    ASSUME PlansOK, NEW k \in Kinds, NEW j \in Kinds \ {k}
    PROVE  /\ \A new : SetPlan(k, new) \/ EditPlan(k, new) \/ ReplacePlan(k, new) =>
                  plan'[j] = plan[j]
           /\ KeepPlans => plan'[j] = plan[j]
BY DEF PlansOK, SetPlan, EditPlan, ReplacePlan, KeepPlans

LEMMA SignalsAdd ==
    ASSUME WakeOK, NEW ks, Signal(ks), NEW j \in Kinds
    PROVE  /\ wake[j] => wake'[j]
           /\ j \in ks => wake'[j]
BY DEF WakeOK, Signal

LEMMA CommonLeaves ==
    ASSUME IInv, NEW k \in Kinds, NEW j \in Kinds \ {k},
           \/ SendNotice(k) \/ AdvanceNotice(k) \/ SendWaiting(k) \/ MarkWaiting(k)
           \/ Resume(k) \/ ObserveEmpty(k) \/ SendFinal(k) \/ MarkFinal(k)
    PROVE  Leaves(j) \/ StartsAnew
<1> USE DEF IInv
<1>1. plan'[j] = plan[j]
  <2>1. plan' = plan \/ \E new : SetPlan(k, new)
    BY DEF SendNotice, AdvanceNotice, SendWaiting, MarkWaiting, Resume, ObserveEmpty,
           SendFinal, MarkFinal, KeepPlans, EditPlan, ReplacePlan
  <2> QED
    BY <2>1, PlansLeft
<1>2. CASE Resume(k) /\ ~Planned(k) /\ k = "sched"
  BY <1>2 DEF Resume, StartsAnew
<1>3. CASE ~(Resume(k) /\ ~Planned(k) /\ k = "sched")
  <2>1. /\ UNCHANGED <<op, settings, detected, ensuring, wake>>
    BY <1>3 DEF SendNotice, AdvanceNotice, SendWaiting, MarkWaiting, Resume, ObserveEmpty,
           SendFinal, MarkFinal, serverVars, adminVars
  <2>2. loop'[j] = loop[j]
    <3>1. CASE \E pc, s : Return(k, pc) \/ GoOn(k, pc) \/ Read(k, pc, s)
      BY <3>1, PlacesLeft
    <3>2. CASE loop' = [loop EXCEPT ![k].pc = "empty", ![k].seen = plan[k],
                                    ![k].stale = FALSE]
      BY <3>2 DEF LoopOK
    <3> QED
      BY <1>3, <3>1, <3>2 DEF SendNotice, AdvanceNotice, SendWaiting, MarkWaiting, Resume,
         ObserveEmpty, SendFinal, MarkFinal
  <2> QED
    BY <1>1, <2>1, <2>2 DEF Leaves
<1> QED
  BY <1>2, <1>3

LEMMA ModStepLeaves ==
    ASSUME IInv, ModStep, NEW j \in Kinds \ {"mod"}
    PROVE  Leaves(j)
<1> USE DEF IInv
<1>1. UNCHANGED <<settings, detected, ensuring>>
  BY DEF ModStep, LookMod, DecideMod, RequestMod, RecordMod, adminVars
<1>2. plan'[j] = plan[j]
  <2>1. plan' = plan \/ KeepPlans \/ \E new : ReplacePlan("mod", new)
    BY DEF ModStep, LookMod, DecideMod, RequestMod, RecordMod, ClearMod
  <2> QED
    BY <2>1, KindSet, PlansLeft
<1>3. loop'[j] = loop[j]
  <2>1. \E pc, s : Return("mod", pc) \/ GoOn("mod", pc) \/ Read("mod", pc, s)
    BY DEF ModStep, LookMod, DecideMod, RequestMod, RecordMod, ClearMod, CountDown
  <2> QED
    BY <2>1, KindSet, PlacesLeft
<1>4. wake[j] => wake'[j]
  <2>1. UNCHANGED wake \/ Wakes("mod") \/ \E ks : Signal(ks)
    BY DEF ModStep, LookMod, DecideMod, RequestMod, RecordMod, ClearMod, Requests
  <2> QED
    BY <2>1, SignalsAdd DEF Wakes, WakeOK
<1>5. op # "none" => op' # "none"
  BY DEF ModStep, LookMod, DecideMod, RequestMod, RecordMod, Requests, serverVars
<1> QED
  BY <1>1, <1>2, <1>3, <1>4, <1>5 DEF Leaves

LEMMA AutoStepLeaves ==
    ASSUME IInv, AutoStep, NEW j \in Kinds \ {"auto"}
    PROVE  Leaves(j)
<1> USE DEF IInv
<1>1. UNCHANGED <<settings, detected, ensuring>>
  BY DEF AutoStep, LookAuto, EnsureAuto, DecideAuto, UpdateStopped, RequestAuto,
         RecordAuto, adminVars
<1>2. plan'[j] = plan[j]
  <2>1. plan' = plan \/ KeepPlans \/ \E new : ReplacePlan("auto", new)
    BY DEF AutoStep, LookAuto, EnsureAuto, DecideAuto, MoveAuto, UpdateStopped, RequestAuto,
           RecordAuto
  <2> QED
    BY <2>1, KindSet, PlansLeft
<1>3. loop'[j] = loop[j]
  <2>1. \E pc, s : Return("auto", pc) \/ GoOn("auto", pc) \/ Read("auto", pc, s)
    BY DEF AutoStep, LookAuto, EnsureAuto, DecideAuto, UpdateStopped, RequestAuto, Execute,
           RecordAuto, CountDown
  <2> QED
    BY <2>1, KindSet, PlacesLeft
<1>4. wake[j] => wake'[j]
  <2>1. UNCHANGED wake \/ Wakes("auto") \/ \E ks : Signal(ks)
    BY DEF AutoStep, LookAuto, EnsureAuto, DecideAuto, MoveAuto, UpdateStopped, RequestAuto,
           Execute, Requests, RecordAuto
  <2> QED
    BY <2>1, SignalsAdd DEF Wakes, WakeOK
<1>5. op # "none" => op' # "none"
  BY DEF AutoStep, LookAuto, EnsureAuto, DecideAuto, UpdateStopped, RequestAuto, Execute,
         Requests, RecordAuto, serverVars
<1> QED
  BY <1>1, <1>2, <1>3, <1>4, <1>5 DEF Leaves

LEMMA SchedStepLeaves ==
    ASSUME IInv, SchedStep, NEW j \in Kinds \ {"sched"}
    PROVE  Leaves(j)
<1> USE DEF IInv
<1>1. UNCHANGED <<settings, detected, ensuring>>
  BY DEF SchedStep, LookSched, EnsureSched, DecideSched, RequestSched, RecordSched, adminVars
<1>2. plan'[j] = plan[j]
  <2>1. plan' = plan \/ KeepPlans \/ \E new : ReplacePlan("sched", new)
    BY DEF SchedStep, LookSched, EnsureSched, DecideSched, SkipSched, RequestSched,
           RecordSched
  <2> QED
    BY <2>1, KindSet, PlansLeft
<1>3. loop'[j] = loop[j]
  <2>1. \E pc, s : Return("sched", pc) \/ GoOn("sched", pc) \/ Read("sched", pc, s)
    BY DEF SchedStep, LookSched, EnsureSched, DecideSched, SkipSched, RequestSched,
           RecordSched
  <2> QED
    BY <2>1, KindSet, PlacesLeft
<1>4. wake[j] => wake'[j]
  <2>1. UNCHANGED wake \/ Wakes("sched") \/ \E ks : Signal(ks)
    BY DEF SchedStep, LookSched, EnsureSched, DecideSched, SkipSched, RequestSched, Requests,
           RecordSched
  <2> QED
    BY <2>1, SignalsAdd DEF Wakes, WakeOK
<1>5. op # "none" => op' # "none"
  BY DEF SchedStep, LookSched, EnsureSched, DecideSched, RequestSched, Requests, RecordSched,
         serverVars
<1> QED
  BY <1>1, <1>2, <1>3, <1>4, <1>5 DEF Leaves

\* The fields by which a pass knows its plan again.
Comparable(k) ==
    /\ Planned(k)' => Planned(k)
    /\ \A field \in {"pid", "policy", "left", "targets"} :
           plan'[k][field] = plan[k][field]

LEMMA EditsCompare ==
    ASSUME PlansOK, NEW k \in Kinds, Planned(k)
    PROVE  /\ \A n : SetPlan(k, [plan[k] EXCEPT !.notice = n]) => Comparable(k)
           /\ SetPlan(k, [plan[k] EXCEPT !.waiting = TRUE]) => Comparable(k)
           /\ SetPlan(k, [plan[k] EXCEPT !.final = TRUE]) => Comparable(k)
           /\ \A v : SetPlan(k, [plan[k] EXCEPT !.since = v]) => Comparable(k)
<1>1. ASSUME NEW new, SetPlan(k, new)
      PROVE  plan'[k] = new
  BY <1>1 DEF PlansOK, SetPlan
<1>2. plan[k] \in Plan
  BY DEF PlansOK
<1> QED
  BY <1>1, <1>2 DEF Comparable, Plan

LEMMA ModGoesOn ==
    ASSUME IInv, WatchInv, ~Resting("mod"), NEW pc, GoOn("mod", pc), pc # "asleep",
           Comparable("mod"), wake["mod"] => wake'["mod"], detected' = detected
    PROVE  ModIsWatched'
<1>1. /\ loop'["mod"].pc = pc
      /\ loop'["mod"].seen = loop["mod"].seen /\ loop'["mod"].stale = loop["mod"].stale
  BY KindSet DEF GoOn, IInv, LoopOK, Loop
<1>2. Same("mod") /\ Planned("mod")' => Same("mod")'
  BY <1>1 DEF Same, Seen, Comparable
<1> QED
  BY <1>1, <1>2 DEF WatchInv, ModIsWatched, Resting, At, Comparable

LEMMA ModReturns ==
    ASSUME IInv, Return("mod", "timer") \/ (Return("mod", "asleep") /\ ~Planned("mod")')
    PROVE  ModIsWatched'
BY KindSet DEF IInv, LoopOK, Return, IdleLoop, ModIsWatched, Resting, At

LEMMA CommonWatchesMod ==
    ASSUME IInv, WatchInv,
           \/ SendNotice("mod") \/ AdvanceNotice("mod") \/ SendWaiting("mod")
           \/ MarkWaiting("mod") \/ Resume("mod") \/ ObserveEmpty("mod")
           \/ SendFinal("mod") \/ MarkFinal("mod")
    PROVE  ModIsWatched'
<1> USE DEF IInv
<1>1. "mod" \in Kinds /\ "mod" # "sched" /\ ~Resting("mod")
  BY KindSet DEF SendNotice, AdvanceNotice, SendWaiting, MarkWaiting, Resume, ObserveEmpty,
     SendFinal, MarkFinal, At, Resting
<1>2. wake' = wake /\ detected' = detected
  BY <1>1 DEF SendNotice, AdvanceNotice, SendWaiting, MarkWaiting, Resume, ObserveEmpty,
     SendFinal, MarkFinal, adminVars
<1>3. Comparable("mod")
  <2>1. CASE plan' = plan
    BY <2>1 DEF Comparable, Planned
  <2>2. CASE AdvanceNotice("mod") \/ MarkWaiting("mod") \/ MarkFinal("mod") \/ ObserveEmpty("mod")
    <3>1. plan' = plan \/ Same("mod")
      BY <2>2 DEF AdvanceNotice, MarkWaiting, MarkFinal, ObserveEmpty, KeepPlans
    <3>2. CASE Same("mod") /\ plan' # plan
      BY <1>1, <2>2, <3>2, SamePlan, EditsCompare
         DEF AdvanceNotice, MarkWaiting, MarkFinal, ObserveEmpty, EditPlan, ReplacePlan, KeepPlans
    <3> QED
      BY <2>1, <3>1, <3>2
  <2> QED
    BY <2>1, <2>2 DEF SendNotice, SendWaiting, Resume, SendFinal
<1>4. CASE \E pc : GoOn("mod", pc) /\ pc # "asleep"
  BY <1>1, <1>2, <1>3, <1>4, ModGoesOn
<1>5. CASE Return("mod", "timer") \/ (Return("mod", "asleep") /\ ~Planned("mod")')
  BY <1>5, ModReturns
<1>6. CASE /\ Resume("mod") /\ Planned("mod")
           /\ loop' = [loop EXCEPT !["mod"].pc = "empty", !["mod"].seen = plan["mod"],
                                   !["mod"].stale = FALSE]
  <2>1. /\ loop'["mod"].pc = "empty" /\ loop'["mod"].seen = plan["mod"]
        /\ ~loop'["mod"].stale /\ plan' = plan
    BY <1>1, <1>6 DEF LoopOK, Loop, Resume
  <2> QED
    BY <2>1, <1>6 DEF ModIsWatched, Same, Seen, At, Planned
<1> QED
  BY <1>1, <1>4, <1>5, <1>6 DEF SendNotice, AdvanceNotice, SendWaiting, MarkWaiting, Resume,
     ObserveEmpty, SendFinal, MarkFinal, Planned

LEMMA ModStepWatches ==
    ASSUME IInv, WatchInv, ModStep
    PROVE  ModIsWatched'
<1> USE DEF IInv
<1>0. "mod" \in Kinds
  BY KindSet
<1>1. CASE LookMod
  <2>1. CASE Planned("mod") /\ Read("mod", "decide", plan["mod"])
    <3>1. /\ loop'["mod"].pc = "decide" /\ loop'["mod"].seen = plan["mod"]
          /\ ~loop'["mod"].stale /\ plan' = plan
      BY <1>0, <1>1, <2>1 DEF LoopOK, Read, LookMod
    <3> QED
      BY <2>1, <3>1 DEF ModIsWatched, Same, Seen, At, Planned
  <2>2. CASE ~Planned("mod") /\ Return("mod", "asleep")
    BY <1>1, <2>2, ModReturns DEF LookMod, Planned
  <2> QED
    BY <1>1, <2>1, <2>2 DEF LookMod
<1>2. ASSUME ClearMod
      PROVE  ModIsWatched'
  <2>1. ReplacePlan("mod", NoPlan) => ~Planned("mod")'
    BY <1>0 DEF PlansOK, ReplacePlan, SetPlan, Planned
  <2> QED
    BY <1>2, <2>1, ModReturns DEF ClearMod
<1>3. CASE DecideMod
  <2>1. CASE CountDown("mod") /\ KeepPlans /\ UNCHANGED wake
    <3>1. ~Resting("mod") /\ detected' = detected /\ Comparable("mod")
      BY <1>3, <2>1 DEF DecideMod, At, Resting, adminVars, KeepPlans, Comparable, Planned
    <3> QED
      BY <2>1, <3>1, ModGoesOn, ModReturns DEF CountDown
  <2> QED
    BY <1>2, <1>3, <2>1 DEF DecideMod
<1>4. CASE RequestMod
  <2>1. ~Resting("mod") /\ detected' = detected /\ Comparable("mod") /\ plan' = plan
    BY <1>4 DEF RequestMod, At, Resting, adminVars, KeepPlans, Comparable, Planned
  <2>2. CASE ~Same("mod") /\ UNCHANGED wake
    BY <2>1, <2>2 DEF WatchInv, ModIsWatched, Planned
  <2>3. CASE Return("mod", "timer")
    BY <2>3, ModReturns
  <2>4. CASE Requests("restart", {}) /\ GoOn("mod", "record")
    <3>1. wake["mod"] => wake'["mod"]
      BY <1>0, <2>4, SignalsAdd DEF Requests
    <3> QED
      BY <2>1, <2>4, <3>1, ModGoesOn
  <2> QED
    BY <1>4, <2>2, <2>3, <2>4 DEF RequestMod
<1>5. CASE RecordMod
  BY <1>2, <1>5 DEF RecordMod
<1> QED
  BY <1>1, <1>3, <1>4, <1>5 DEF ModStep

\* The steps of the sched loop: it goes to sleep without a plan, or while the
\* operation that it requested runs.
LEMMA SchedMoves ==
    ASSUME LoopOK, NEW pc, Return("sched", pc) \/ GoOn("sched", pc) \/ \E s : Read("sched", pc, s)
    PROVE  loop'["sched"].pc = pc
BY KindSet DEF LoopOK, Loop, Return, GoOn, Read, IdleLoop

LEMMA SchedElsewhere ==
    ASSUME WatchInv, settings'.sched = settings.sched, ensuring' => ensuring,
           loop'["sched"].pc \notin {"asleep", "record"}
    PROVE  SchedIsWatched' /\ (ensuring => settings.sched)'
BY DEF WatchInv, SchedIsWatched, At

LEMMA CommonWatchesSched ==
    ASSUME IInv, WatchInv,
           \/ SendNotice("sched") \/ AdvanceNotice("sched") \/ SendWaiting("sched")
           \/ MarkWaiting("sched") \/ Resume("sched") \/ ObserveEmpty("sched")
           \/ SendFinal("sched") \/ MarkFinal("sched")
    PROVE  SchedIsWatched' /\ (ensuring => settings.sched)'
<1> USE DEF IInv
<1>1. settings' = settings /\ (ensuring' => ensuring)
  BY DEF SendNotice, AdvanceNotice, SendWaiting, MarkWaiting, Resume, ObserveEmpty,
     SendFinal, MarkFinal, adminVars
<1>2. loop'["sched"].pc \notin {"asleep", "record"}
  <2>1. CASE Resume("sched")
    BY <2>1, KindSet, SchedMoves DEF Resume, IdleLoop, LoopOK, Loop
  <2> QED
    BY <2>1, SchedMoves DEF SendNotice, AdvanceNotice, SendWaiting, MarkWaiting, ObserveEmpty,
     SendFinal, MarkFinal
<1> QED
  BY <1>1, <1>2, SchedElsewhere

LEMMA SchedStepWatches ==
    ASSUME IInv, DisabledHasNoPlan, WatchInv, SchedStep
    PROVE  SchedIsWatched' /\ (ensuring => settings.sched)'
<1> USE DEF IInv
<1>0. settings' = settings /\ ensuring' = ensuring
  BY DEF SchedStep, LookSched, EnsureSched, DecideSched, RequestSched, RecordSched, adminVars
<1>1. CASE LookSched
  <2>1. CASE ~settings.sched
    <3>1. plan' = plan
      BY <1>1 DEF LookSched
    <3> QED
      BY <1>0, <2>1, <3>1, <1>1, SchedMoves
         DEF WatchInv, DisabledHasNoPlan, SchedIsWatched, At, Planned, LookSched
  <2>2. CASE settings.sched
    BY <1>0, <1>1, <2>2, SchedMoves, SchedElsewhere DEF LookSched
  <2> QED
    BY <2>1, <2>2
<1>2. CASE EnsureSched
  BY <1>0, <1>2, SchedMoves, SchedElsewhere DEF EnsureSched
<1>3. CASE DecideSched
  BY <1>0, <1>3, SchedMoves, SchedElsewhere DEF DecideSched, SkipSched
<1>4. CASE RequestSched
  <2>1. CASE Requests("restart", {})
    BY <1>0, <2>1 DEF Requests, WatchInv, SchedIsWatched
  <2> QED
    BY <1>0, <1>4, <2>1, SchedMoves, SchedElsewhere DEF RequestSched
<1>5. CASE RecordSched
  <2>1. wake["sched"] \/ op # "none"
    BY <1>5 DEF RecordSched, WatchInv, SchedIsWatched
  <2>2. wake'["sched"] \/ op' # "none"
    <3>1. wake["sched"] => wake'["sched"]
      BY <1>5, KindSet, SignalsAdd DEF RecordSched
    <3> QED
      BY <1>5, <2>1, <3>1 DEF RecordSched, serverVars
  <2> QED
    BY <1>0, <2>2 DEF WatchInv, SchedIsWatched
<1> QED
  BY <1>1, <1>2, <1>3, <1>4, <1>5 DEF SchedStep

LEMMA LoopsWatch ==
    ASSUME IInv, DisabledHasNoPlan, WatchInv, NEW k \in Watched, Step(k)
    PROVE  WatchInv'
<1>1. k \in Kinds /\ Kinds = {"mod", "auto", "sched"}
  BY WatchedAssumption DEF Kinds
<1>2. CASE \/ SendNotice(k) \/ AdvanceNotice(k) \/ SendWaiting(k) \/ MarkWaiting(k)
           \/ Resume(k) \/ ObserveEmpty(k) \/ SendFinal(k) \/ MarkFinal(k)
  <2>1. \A j \in Kinds \ {k} : Leaves(j) \/ StartsAnew
    BY <1>1, <1>2, CommonLeaves
  <2>2. k = "mod" => ModIsWatched'
    BY <1>2, CommonWatchesMod
  <2>3. k = "sched" => SchedIsWatched' /\ (ensuring => settings.sched)'
    BY <1>2, CommonWatchesSched
  <2> QED
    BY <1>1, <2>1, <2>2, <2>3, AnewIsWatched, LeftIsWatched DEF WatchInv
<1>3. CASE ModStep
  BY <1>1, <1>3, ModStepLeaves, ModStepWatches, LeftIsWatched DEF WatchInv
<1>4. CASE AutoStep
  BY <1>1, <1>4, AutoStepLeaves, LeftIsWatched DEF WatchInv
<1>5. CASE SchedStep
  BY <1>1, <1>5, SchedStepLeaves, SchedStepWatches, LeftIsWatched DEF WatchInv
<1> QED
  BY <1>2, <1>3, <1>4, <1>5 DEF Step

LEMMA RequestsWatch ==
    ASSUME IInv, WatchInv, Administrator \/ Queries
    PROVE  WatchInv'
<1> USE DEF IInv
<1>1. ASSUME NEW on \in BOOLEAN, NEW policy \in Policies, NEW newTime \in BOOLEAN,
             SetMod(on, policy, newTime)
      PROVE  WatchInv'
  <2>1. wake'["mod"] /\ (wake["sched"] => wake'["sched"])
    BY <1>1, KindSet, SignalsAdd DEF SetMod
  <2>2. plan'["sched"] = plan["sched"]
    <3>1. KeepPlans \/ \E new : ReplacePlan("mod", new)
      BY <1>1 DEF SetMod
    <3> QED
      BY <3>1, KindSet, PlansLeft
  <2>3. loop'["sched"] = loop["sched"]
    BY <1>1, KindSet DEF SetMod, Outdates, LoopOK
  <2>4. op' = op /\ ensuring' = ensuring /\ settings'.sched = settings.sched
    BY <1>1 DEF SetMod, serverVars, AdminOK, Settings
  <2>5. SchedIsWatched' /\ (ensuring => settings.sched)'
    BY <2>1, <2>2, <2>3, <2>4 DEF WatchInv, SchedIsWatched, At, Planned
  <2> QED
    BY <2>1, <2>5 DEF WatchInv, ModIsWatched
<1>2. ASSUME NEW products \in SUBSET Products, NEW policies \in [Products -> Policies],
             NEW newTime \in BOOLEAN, SetAuto(products, policies, newTime)
      PROVE  WatchInv'
  <2>1. (wake["mod"] => wake'["mod"]) /\ wake'["sched"]
    BY <1>2, KindSet, SignalsAdd DEF SetAuto
  <2>2. plan'["mod"] = plan["mod"]
    <3>1. KeepPlans \/ \E new : ReplacePlan("auto", new) \/ EditPlan("auto", new)
      BY <1>2 DEF SetAuto
    <3> QED
      BY <3>1, KindSet, PlansLeft
  <2>3. loop'["mod"] = loop["mod"]
    BY <1>2, KindSet DEF SetAuto, Outdates, LoopOK
  <2>4. detected' = detected /\ ensuring' = ensuring /\ settings'.sched = settings.sched
    BY <1>2 DEF SetAuto, AdminOK, Settings
  <2>5. ModIsWatched'
    BY <2>1, <2>2, <2>3, <2>4 DEF WatchInv, ModIsWatched, At, Resting, Same, Seen, Planned
  <2> QED
    BY <2>1, <2>4, <2>5 DEF WatchInv, SchedIsWatched
<1>3. ASSUME NEW on \in BOOLEAN, SetSched(on)
      PROVE  WatchInv'
  <2>1. wake'["mod"] /\ wake'["sched"]
    BY <1>3, KindSet, SignalsAdd DEF SetSched
  <2>2. ensuring' => settings'.sched
    BY <1>3 DEF SetSched, AdminOK, Settings
  <2> QED
    BY <2>1, <2>2 DEF WatchInv, ModIsWatched, SchedIsWatched
<1>4. CASE EnsureSettings
  <2>1. plan'["mod"] = plan["mod"]
    <3>1. KeepPlans \/ \E new : ReplacePlan("sched", new)
      BY <1>4 DEF EnsureSettings
    <3> QED
      BY <3>1, KindSet, PlansLeft
  <2>2. UNCHANGED <<loop, wake, detected, op>> /\ ensuring /\ ~ensuring'
    BY <1>4 DEF EnsureSettings, serverVars
  <2>3. ModIsWatched'
    BY <2>1, <2>2 DEF WatchInv, ModIsWatched, At, Resting, Same, Seen, Planned
  <2> QED
    BY <2>2, <2>3 DEF WatchInv, SchedIsWatched, At
<1>5. CASE \E action \in OtherActions : OtherOperation(action)
  <2>1. \A j \in Kinds : wake[j] => wake'[j]
    BY <1>5, SignalsAdd DEF OtherOperation, Requests
  <2>2. \A j \in Kinds : Leaves(j)
    BY <1>5, <2>1, ActionAssumption DEF OtherOperation, Requests, Requestable, adminVars, Leaves
  <2> QED
    BY <2>2, KindSet, LeftIsWatched DEF WatchInv
<1>6. CASE DetectModUpdate
  <2>1. plan'["sched"] = plan["sched"]
    <3>1. KeepPlans \/ \E new : ReplacePlan("mod", new)
      BY <1>6 DEF DetectModUpdate
    <3> QED
      BY <3>1, KindSet, PlansLeft
  <2>2. loop'["sched"] = loop["sched"]
    BY <1>6, KindSet DEF DetectModUpdate, Outdates, LoopOK
  <2>3. UNCHANGED <<op, ensuring, settings, wake>>
    BY <1>6 DEF DetectModUpdate, serverVars
  <2>4. SchedIsWatched' /\ (ensuring => settings.sched)'
    BY <2>1, <2>2, <2>3 DEF WatchInv, SchedIsWatched, At, Planned
  <2>5. detected' \/ ~Planned("mod")'
    BY <1>6, KindSet DEF DetectModUpdate, ReplacePlan, SetPlan, PlansOK, Planned
  <2> QED
    BY <2>4, <2>5 DEF WatchInv, ModIsWatched
<1>7. CASE SignalDetection
  <2>1. wake'["mod"] /\ (wake["sched"] => wake'["sched"])
    BY <1>7, KindSet, SignalsAdd DEF SignalDetection
  <2>2. UNCHANGED <<plan, loop, op, ensuring, settings>>
    BY <1>7 DEF SignalDetection, serverVars
  <2> QED
    BY <2>1, <2>2 DEF WatchInv, ModIsWatched, SchedIsWatched, At, Planned
<1>8. CASE \E found \in SUBSET Products : VersionQuery(found)
  <2>1. \A j \in Kinds : wake[j] => wake'[j]
    BY <1>8, SignalsAdd DEF VersionQuery
  <2>2. \A j \in Kinds : Leaves(j)
    BY <1>8, <2>1 DEF VersionQuery, Leaves, serverVars
  <2> QED
    BY <2>2, KindSet, LeftIsWatched DEF WatchInv
<1> QED
  BY <1>1, <1>2, <1>3, <1>4, <1>5, <1>6, <1>7, <1>8 DEF Administrator, Queries

LEMMA EnvironmentWatches ==
    ASSUME IInv, WatchInv, Environment
    PROVE  WatchInv'
<1> USE DEF IInv
<1>1. CASE ManagerRestarts
  BY <1>1, AnewIsWatched DEF ManagerRestarts, StartsAnew
<1>2. CASE ProcessStarts \/ Tick
  <2>1. UNCHANGED <<loop, wake, op, detected, ensuring, settings>> /\ AllRest
    BY <1>2 DEF ProcessStarts, Tick, serverVars, adminVars
  <2>2. \A j \in Kinds : Planned(j)' => Planned(j)
    BY <1>2 DEF ProcessStarts, Tick, Planned, Later
  <2>3. Resting("mod") /\ Resting("sched")
    BY <2>1, KindSet DEF AllRest
  <2> QED
    BY <2>1, <2>2, <2>3, KindSet
       DEF WatchInv, ModIsWatched, SchedIsWatched, At, Resting
<1>3. CASE OperationEnds
  <2>1. wake'["sched"] /\ (wake["mod"] => wake'["mod"])
    BY <1>3, KindSet, SignalsAdd DEF OperationEnds, OperationEndSignals
  <2>2. UNCHANGED <<plan, loop, detected, ensuring, settings>>
    BY <1>3 DEF OperationEnds, adminVars
  <2> QED
    BY <2>1, <2>2 DEF WatchInv, ModIsWatched, SchedIsWatched, At, Resting, Same, Seen, Planned
<1>4. CASE UNCHANGED <<plan, loop, wake, op, detected, ensuring, settings>>
  <2>1. Leaves("mod") /\ Leaves("sched")
    BY <1>4 DEF Leaves
  <2> QED
    BY <2>1, LeftIsWatched DEF WatchInv
<1> QED
  BY <1>1, <1>2, <1>3, <1>4 DEF Environment, ProcessExits, UpdateEnds, WebRestarts,
                                PlayersChange, adminVars, loopVars

\* Whoever makes or changes a plan signals the loop that carries it out, at the
\* time or right after, and the signal outlives a pass that began before it: with
\* channels of capacity one nothing that was scheduled stays with a loop that
\* sleeps (handleModUpdateDetection, setModRefreshSettings, startOperation,
\* processScheduledServerRestart).
THEOREM NoPlanIsForgotten == Spec => []PlansAreWatched
<1>1. Init => WatchInv
  BY KindSet DEF Init, WatchInv, ModIsWatched, SchedIsWatched, At, Resting, IdleLoop
<1>2. IInv /\ DisabledHasNoPlan /\ WatchInv /\ [Next]_vars => WatchInv'
  <2> SUFFICES ASSUME IInv, DisabledHasNoPlan, WatchInv, [Next]_vars
               PROVE  WatchInv'
    OBVIOUS
  <2>1. CASE UNCHANGED vars
    <3>1. Leaves("mod") /\ Leaves("sched")
      BY <2>1 DEF vars, serverVars, adminVars, loopVars, Leaves
    <3> QED
      BY <3>1, LeftIsWatched DEF WatchInv
  <2> QED
    BY <2>1, LoopsWatch, RequestsWatch, EnvironmentWatches DEF Next
<1>3. Spec => [](IInv /\ DisabledHasNoPlan)
  BY OwnInvariance, DisabledScheduleHasNoPlan, PTL
<1>4. Spec => []WatchInv
  BY <1>1, <1>2, <1>3, PTL DEF Spec
<1>5. WatchInv => PlansAreWatched
  BY WatchedAssumption DEF WatchInv, ModIsWatched, SchedIsWatched, PlansAreWatched, Kinds
<1> QED
  BY <1>4, <1>5, PTL

-----------------------------------------------------------------------------
(* Nobody is restarted on a schedule without all its notices *)

Told(k, left, n) == \A i \in 1 .. n : <<left, i>> \in told[k]

\* A schedule for the running process counts only the notices that were sent.
Counted(k, s, n) ==
    running /\ s.pid = "this" /\ s.policy = "scheduled" /\ s.left > -(Late + 1) =>
        Told(k, s.left, n)

\* Only a plan that waits for an empty server has waited long enough.
OnlyEmpty(s) == s.since = "grace" => s.policy = "when_empty"

PlanNotices(k) == Counted(k, plan[k], plan[k].notice) /\ OnlyEmpty(plan[k])
PassNotices(k) ==
    /\ loop[k].pc \in {"decide", "notice"} => Counted(k, Seen(k), Seen(k).notice)
    /\ At(k, "notice") /\ Seen(k).policy = "scheduled" =>
           DueNotice(Seen(k).left) = Seen(k).notice + 1
    /\ At(k, "advance") => Counted(k, Seen(k), DueNotice(Seen(k).left))
    /\ At(k, "empty") => OnlyEmpty(Seen(k))
    /\ loop[k].pc \in {"final", "mark", "request"} /\ running
       /\ Seen(k).policy = "scheduled" => Told(k, Seen(k).left, Last)
NoticeInv == \A k \in {"auto", "sched"} : PlanNotices(k) /\ PassNotices(k)

\* The process is the one it was, if there is one, and was told at least as much.
StillTold(k) == running' => running /\ told[k] \subseteq told'[k]

LEMMA CountKept ==
    ASSUME NEW k, StillTold(k), NEW s, NEW n, Counted(k, s, n)
    PROVE  Counted(k, s, n)'
BY DEF StillTold, Counted, Told

\* Plans that are edited but for their notices, or made anew.
LEMMA PlanNoticesKept ==
    ASSUME NEW k, PlanNotices(k), StillTold(k),
           \A field \in {"pid", "policy", "left", "notice"} : plan'[k][field] = plan[k][field],
           plan'[k].since # "grace" \/ plan'[k].since = plan[k].since
    PROVE  PlanNotices(k)'
BY DEF PlanNotices, StillTold, Counted, Told, OnlyEmpty

LEMMA NewPlanNotices ==
    ASSUME NEW k, NEW p, NEW policy, NEW targets, NEW left,
           plan'[k] = NewPlan(p, policy, targets, left)
    PROVE  PlanNotices(k)'
BY DEF NewPlan, PlanNotices, Counted, Told, OnlyEmpty

LEMMA PassNoticesKept ==
    ASSUME NEW k, PassNotices(k), StillTold(k), Stays(k) \/ Resting(k)'
    PROVE  PassNotices(k)'
<1>1. CASE Stays(k)
  BY <1>1 DEF Stays, PassNotices, StillTold, Counted, Told, OnlyEmpty, Seen, At
<1>2. CASE Resting(k)'
  BY <1>2 DEF Resting, PassNotices, At
<1> QED
  BY <1>1, <1>2

\* The ways a plan is changed.
LEMMA ChangedPlan ==
    ASSUME PlansOK, NEW k \in Kinds
    PROVE  /\ \A new : SetPlan(k, new) \/ EditPlan(k, new) \/ ReplacePlan(k, new) =>
                  plan'[k] = new
           /\ KeepPlans => plan'[k] = plan[k]
BY DEF PlansOK, SetPlan, EditPlan, ReplacePlan, KeepPlans

LEMMA ReplacedNotices ==
    ASSUME PlansOK, NEW k \in Kinds, PlanNotices(k), StillTold(k),
           \/ plan' = plan \/ KeepPlans \/ ReplacePlan(k, NoPlan)
           \/ \E p, policy, targets, left :
                  ReplacePlan(k, NewPlan(p, policy, targets, left))
    PROVE  PlanNotices(k)'
<1>1. CASE plan' = plan \/ KeepPlans
  BY <1>1, PlanNoticesKept DEF KeepPlans
<1>2. CASE \E p, policy, targets, left : ReplacePlan(k, NewPlan(p, policy, targets, left))
  BY <1>2, ChangedPlan, NewPlanNotices
<1>3. CASE ReplacePlan(k, NoPlan)
  <2>1. plan'[k] = NewPlan("none", "scheduled", {}, 0)
    BY <1>3, ChangedPlan DEF NoPlan
  <2> QED
    BY <2>1, NewPlanNotices
<1> QED
  BY <1>1, <1>2, <1>3

LEMMA EditedNotices ==
    ASSUME PlansOK, NEW k \in Kinds, PlanNotices(k), StillTold(k),
           \/ SetPlan(k, [plan[k] EXCEPT !.waiting = TRUE])
           \/ SetPlan(k, [plan[k] EXCEPT !.final = TRUE])
           \/ \E v \in {"never", "now"} : SetPlan(k, [plan[k] EXCEPT !.since = v])
           \/ \E v : SetPlan(k, [plan[k] EXCEPT !.targets = v])
    PROVE  PlanNotices(k)'
<1>1. plan[k] \in Plan
  BY DEF PlansOK
<1>2. /\ \A field \in {"pid", "policy", "left", "notice"} : plan'[k][field] = plan[k][field]
      /\ plan'[k].since # "grace" \/ plan'[k].since = plan[k].since
  BY <1>1, ChangedPlan DEF Plan
<1> QED
  BY <1>2, PlanNoticesKept

\* What a step of another loop leaves alone.
LeavesTold(j) ==
    /\ plan'[j] = plan[j] /\ StillTold(j)
    /\ Stays(j) \/ Resting(j)'

LEMMA LeftNotices ==
    ASSUME NEW j, PlanNotices(j), PassNotices(j), LeavesTold(j)
    PROVE  PlanNotices(j)' /\ PassNotices(j)'
<1>1. PlanNotices(j)'
  BY PlanNoticesKept DEF LeavesTold
<1> QED
  BY <1>1, PassNoticesKept DEF LeavesTold

LEMMA CommonLeavesTold ==
    ASSUME IInv, NEW k \in Kinds, NEW j \in Kinds \ {k},
           \/ SendNotice(k) \/ AdvanceNotice(k) \/ SendWaiting(k) \/ MarkWaiting(k)
           \/ Resume(k) \/ ObserveEmpty(k) \/ SendFinal(k) \/ MarkFinal(k)
    PROVE  LeavesTold(j)
<1> USE DEF IInv
<1>1. plan'[j] = plan[j]
  <2>1. plan' = plan \/ \E new : SetPlan(k, new)
    BY DEF SendNotice, AdvanceNotice, SendWaiting, MarkWaiting, Resume, ObserveEmpty,
           SendFinal, MarkFinal, KeepPlans, EditPlan, ReplacePlan
  <2> QED
    BY <2>1, PlansLeft
<1>2. StillTold(j)
  <2>1. running' = running
    BY DEF SendNotice, AdvanceNotice, SendWaiting, MarkWaiting, Resume, ObserveEmpty,
           SendFinal, MarkFinal, serverVars
  <2>2. told'[j] = told[j]
    <3>1. CASE SendNotice(k)
      BY <3>1 DEF SendNotice, PlansOK
    <3> QED
      BY <3>1 DEF AdvanceNotice, SendWaiting, MarkWaiting, Resume, ObserveEmpty,
         SendFinal, MarkFinal, KeepPlans, EditPlan, ReplacePlan
  <2> QED
    BY <2>1, <2>2 DEF StillTold
<1>3. Stays(j) \/ Resting(j)'
  <2>1. Leaves(j) \/ StartsAnew
    BY CommonLeaves
  <2> QED
    BY <2>1 DEF Leaves, StartsAnew, IdleLoop, Stays, Resting
<1> QED
  BY <1>1, <1>2, <1>3 DEF LeavesTold

LEMMA PassLeavesTold ==
    ASSUME IInv
    PROVE  /\ ModStep \/ AutoStep \/ SchedStep => running' = running /\ told' = told
           /\ ModStep => \A j \in Kinds \ {"mod"} : LeavesTold(j)
           /\ AutoStep => \A j \in Kinds \ {"auto"} : LeavesTold(j)
           /\ SchedStep => \A j \in Kinds \ {"sched"} : LeavesTold(j)
<1>1. ASSUME ModStep
      PROVE  running' = running /\ told' = told
  BY <1>1 DEF ModStep, LookMod, DecideMod, RequestMod, RecordMod, ClearMod, KeepPlans,
         ReplacePlan, Requests, serverVars
<1>2. ASSUME AutoStep
      PROVE  running' = running /\ told' = told
  BY <1>2 DEF AutoStep, LookAuto, EnsureAuto, DecideAuto, MoveAuto, UpdateStopped, RequestAuto,
         Execute, RecordAuto, KeepPlans, ReplacePlan, Requests, serverVars
<1>3. ASSUME SchedStep
      PROVE  running' = running /\ told' = told
  BY <1>3 DEF SchedStep, LookSched, EnsureSched, DecideSched, SkipSched, RequestSched,
         RecordSched, KeepPlans, ReplacePlan, Requests, serverVars
<1>4. ASSUME NEW j, Leaves(j), running' = running /\ told' = told
      PROVE  LeavesTold(j)
  BY <1>4 DEF Leaves, LeavesTold, StillTold, Stays
<1> QED
  BY <1>1, <1>2, <1>3, <1>4, ModStepLeaves, AutoStepLeaves, SchedStepLeaves

\* How the pass of a loop goes on.
LEMMA PassPlaces ==
    ASSUME LoopOK, NEW k \in Kinds
    PROVE  /\ \A pc \in {"timer", "asleep", "update", "ensure", "record", "waiting",
                         "announced", "resume"} :
                  Return(k, pc) \/ GoOn(k, pc) \/ (\E s : Read(k, pc, s)) => PassNotices(k)'
           /\ \A pc : GoOn(k, pc) => loop'[k].pc = pc /\ Seen(k)' = Seen(k)
           /\ \A pc, s : Read(k, pc, s) => loop'[k].pc = pc /\ Seen(k)' = s
<1>1. /\ \A pc : GoOn(k, pc) => loop'[k].pc = pc /\ Seen(k)' = Seen(k)
      /\ \A pc, s : Read(k, pc, s) => loop'[k].pc = pc /\ Seen(k)' = s
  BY PlacesKept DEF Seen
<1>2. \A pc : Return(k, pc) => loop'[k].pc = pc
  BY DEF LoopOK, Return, IdleLoop
<1>3. ASSUME NEW pc \in {"timer", "asleep", "update", "ensure", "record", "waiting",
                         "announced", "resume"}, loop'[k].pc = pc
      PROVE  PassNotices(k)'
  BY <1>3 DEF PassNotices, At
<1> QED
  BY <1>1, <1>2, <1>3

LEMMA NoticeIsTold ==
    ASSUME IInv, NEW k \in {"auto", "sched"}, PlanNotices(k), PassNotices(k), SendNotice(k)
    PROVE  PlanNotices(k)' /\ PassNotices(k)'
<1> USE DEF IInv
<1> DEFINE s == Seen(k)
           due == DueNotice(s.left)
<1>0. k \in Kinds
  BY KindSet
<1>1. StillTold(k) /\ plan' = plan
  BY <1>0 DEF SendNotice, serverVars, PlansOK, StillTold
<1>2. PlanNotices(k)'
  BY <1>1, PlanNoticesKept
<1>3. CASE Return(k, "timer")
  BY <1>0, <1>2, <1>3, PassPlaces
<1>4. CASE /\ running /\ GoOn(k, "advance")
           /\ told' = [told EXCEPT ![k] = @ \cup {<<s.left, due>>}]
  <2>1. /\ loop'[k].pc = "advance" /\ Seen(k)' = s
    BY <1>0, <1>4, PassPlaces
  <2>2. <<s.left, due>> \in told'[k] /\ told[k] \subseteq told'[k]
    BY <1>0, <1>4 DEF PlansOK
  <2>3. ASSUME s.pid = "this", s.policy = "scheduled", s.left > -(Late + 1)
        PROVE  \A i \in 1 .. due : <<s.left, i>> \in told'[k]
    <3>1. due = s.notice + 1 /\ Told(k, s.left, s.notice)
      BY <1>4, <2>3 DEF SendNotice, PassNotices, At, Counted
    <3>2. s.notice \in Int /\ due \in Int
      BY <1>0, SeenTypes, NoticeCount DEF Plan
    <3>3. \A i \in 1 .. due : i = due \/ i \in 1 .. s.notice
      BY <3>1, <3>2
    <3> QED
      BY <2>2, <3>1, <3>3 DEF Told
  <2>4. Counted(k, Seen(k), due)'
    BY <2>1, <2>3 DEF Counted, Told
  <2> QED
    BY <1>2, <2>1, <2>4 DEF PassNotices, At
<1> QED
  BY <1>3, <1>4 DEF SendNotice

LEMMA CommonTells ==
    ASSUME IInv, OwnInv, NEW k \in {"auto", "sched"}, PlanNotices(k), PassNotices(k),
           \/ AdvanceNotice(k) \/ SendWaiting(k) \/ MarkWaiting(k)
           \/ Resume(k) \/ ObserveEmpty(k) \/ SendFinal(k) \/ MarkFinal(k)
    PROVE  PlanNotices(k)' /\ PassNotices(k)'
<1> USE DEF IInv
<1>0. k \in Kinds
  BY KindSet
<1>1. StillTold(k) /\ running' = running /\ told' = told
  BY DEF AdvanceNotice, SendWaiting, MarkWaiting, Resume, ObserveEmpty,
     SendFinal, MarkFinal, serverVars, StillTold, KeepPlans, EditPlan, ReplacePlan
<1>2. CASE AdvanceNotice(k)
  <2>1. PassNotices(k)'
    BY <1>0, <1>2, PassPlaces DEF AdvanceNotice
  <2>2. CASE KeepPlans
    BY <1>0, <1>1, <2>1, <2>2, ReplacedNotices
  <2>3. CASE Same(k) /\ EditPlan(k, [plan[k] EXCEPT !.notice = DueNotice(Seen(k).left)])
    <3>1. /\ plan'[k].notice = DueNotice(Seen(k).left)
          /\ \A field \in {"pid", "policy", "left"} : plan'[k][field] = Seen(k)[field]
          /\ plan'[k].since = plan[k].since /\ plan'[k].policy = plan[k].policy
      BY <1>0, <2>3, ChangedPlan DEF Same, PlansOK, Plan
    <3>2. Counted(k, Seen(k), DueNotice(Seen(k).left))
      BY <1>2 DEF AdvanceNotice, PassNotices
    <3>3. PlanNotices(k)'
      BY <1>1, <3>1, <3>2 DEF PlanNotices, Counted, Told, OnlyEmpty
    <3> QED
      BY <2>1, <3>3
  <2> QED
    BY <1>2, <2>2, <2>3 DEF AdvanceNotice
<1>3. CASE SendWaiting(k) \/ MarkWaiting(k)
  <2>1. PassNotices(k)'
    BY <1>0, <1>3, PassPlaces DEF SendWaiting, MarkWaiting
  <2>2. \/ plan' = plan \/ KeepPlans
        \/ SetPlan(k, [plan[k] EXCEPT !.waiting = TRUE])
    BY <1>3 DEF SendWaiting, MarkWaiting, EditPlan
  <2> QED
    BY <1>0, <1>1, <2>1, <2>2, ReplacedNotices, EditedNotices
<1>4. CASE Resume(k)
  <2>1. plan' = plan
    BY <1>4 DEF Resume
  <2>2. PlanNotices(k)'
    BY <1>1, <2>1, PlanNoticesKept
  <2>3. CASE loop' = [loop EXCEPT ![k].pc = "empty", ![k].seen = plan[k],
                                  ![k].stale = FALSE]
    <3>1. loop'[k].pc = "empty" /\ Seen(k)' = plan[k]
      BY <1>0, <2>3 DEF LoopOK, Loop, Seen
    <3> QED
      BY <2>2, <3>1 DEF PlanNotices, PassNotices, At, OnlyEmpty
  <2>4. CASE loop' = [j \in Kinds |-> IdleLoop("timer")]
    <3>1. Resting(k)'
      BY <1>0, <2>4 DEF IdleLoop, Resting
    <3> QED
      BY <1>1, <2>2, <3>1, PassNoticesKept
  <2>5. CASE Return(k, "timer") \/ Return(k, "asleep")
    BY <1>0, <2>2, <2>5, PassPlaces
  <2> QED
    BY <1>4, <2>3, <2>4, <2>5 DEF Resume
<1>5. CASE ObserveEmpty(k)
  <2>1. \/ KeepPlans
        \/ \E v \in {"never", "now"} : SetPlan(k, [plan[k] EXCEPT !.since = v])
    BY <1>5 DEF ObserveEmpty, ReplacePlan
  <2>2. PlanNotices(k)'
    BY <1>0, <1>1, <2>1, ReplacedNotices, EditedNotices
  <2>3. CASE Return(k, "timer")
    BY <1>0, <2>2, <2>3, PassPlaces
  <2>4. CASE Seen(k).since = "grace" /\ \E pc \in {"request", "final"} : GoOn(k, pc)
    <3>1. Seen(k).policy # "scheduled"
      BY <1>5, <2>4 DEF ObserveEmpty, PassNotices, OnlyEmpty
    <3>2. loop'[k].pc \in {"request", "final"} /\ Seen(k)' = Seen(k)
      BY <1>0, <2>4, PassPlaces
    <3> QED
      BY <2>2, <3>1, <3>2 DEF PassNotices, At
  <2> QED
    BY <1>5, <2>3, <2>4 DEF ObserveEmpty
<1>6. CASE SendFinal(k) \/ MarkFinal(k)
  <2>1. \/ plan' = plan \/ KeepPlans
        \/ SetPlan(k, [plan[k] EXCEPT !.final = TRUE])
    BY <1>6 DEF SendFinal, MarkFinal, EditPlan
  <2>2. PlanNotices(k)'
    BY <1>0, <1>1, <2>1, ReplacedNotices, EditedNotices
  <2>3. /\ loop[k].pc \in {"final", "mark"}
        /\ loop'[k].pc \in {"mark", "request"} /\ Seen(k)' = Seen(k)
    BY <1>0, <1>6, PassPlaces DEF SendFinal, MarkFinal, At
  <2>4. running /\ Seen(k).policy = "scheduled" => Told(k, Seen(k).left, Last)
    BY <2>3 DEF PassNotices
  <2> QED
    BY <1>1, <2>2, <2>3, <2>4 DEF PassNotices, At, Told
<1> QED
  BY <1>2, <1>3, <1>4, <1>5, <1>6

\* At its deadline a schedule that is not missed has counted all its notices.
LEMMA DeadlineIsTold ==
    ASSUME IInv, NEW k \in {"auto", "sched"}, PassNotices(k), At(k, "decide"), IsOf(k),
           Seen(k).policy = "scheduled", Seen(k).left <= 0, ~Missed(Seen(k))
    PROVE  Told(k, Seen(k).left, Last)
<1>1. Seen(k).left \in Int /\ Seen(k).notice \in 0 .. Last /\ Last \in Nat /\ Late \in Nat
  BY KindSet, SeenTypes, Times, NoticeCount DEF IInv, Plan
<1>2. Seen(k).notice = Last /\ Seen(k).left > -(Late + 1)
  BY <1>1 DEF Missed
<1> QED
  BY <1>2 DEF PassNotices, At, IsOf, Counted

LEMMA CountDownTells ==
    ASSUME IInv, PassNotices("auto"), At("auto", "decide"), IsOf("auto"),
           ~MissedAuto(Seen("auto")), CountDown("auto"), running' = running, told' = told
    PROVE  PassNotices("auto")'
<1> USE DEF IInv
<1> DEFINE s == Seen("auto")
<1>0. "auto" \in Kinds
  BY KindSet
<1>1. CASE s.policy = "when_empty"
  <2>1. CASE GoOn("auto", "empty")
    <3>1. loop'["auto"].pc = "empty" /\ Seen("auto")' = s
      BY <1>0, <2>1, PassPlaces
    <3> QED
      BY <1>1, <3>1 DEF PassNotices, At, OnlyEmpty
  <2> QED
    BY <1>0, <1>1, <2>1, PassPlaces DEF CountDown
<1>2. CASE s.policy # "when_empty" /\ s.left <= 0
  <2>1. loop'["auto"].pc \in {"request", "final"} /\ Seen("auto")' = s
    <3>1. s.left \in Int
      BY <1>0, SeenTypes, Times
    <3>2. GoOn("auto", IF s.final THEN "request" ELSE "final")
      BY <1>2, <3>1 DEF CountDown
    <3> QED
      BY <1>0, <3>2, PassPlaces
  <2>2. s.policy = "scheduled" => Told("auto", s.left, Last)
    BY <1>2, DeadlineIsTold DEF MissedAuto
  <2> QED
    BY <2>1, <2>2 DEF PassNotices, At, Told
<1>3. CASE s.policy # "when_empty" /\ s.left > 0
  <2>1. s.left \in Int /\ s.notice \in Int /\ DueNotice(s.left) \in Int
    BY <1>0, SeenTypes, Times, NoticeCount DEF Plan
  <2>2. CASE GoOn("auto", "notice") /\ DueNotice(s.left) > s.notice
    <3>1. loop'["auto"].pc = "notice" /\ Seen("auto")' = s
      BY <1>0, <2>2, PassPlaces
    <3>2. s.policy = "scheduled" => DueNotice(s.left) = s.notice + 1
      BY <1>3, <2>1, <2>2 DEF MissedAuto
    <3>3. Counted("auto", s, s.notice)
      BY DEF PassNotices, At
    <3> QED
      BY <3>1, <3>2, <3>3 DEF PassNotices, At, Counted, Told
  <2>3. CASE Return("auto", "timer")
    BY <1>0, <2>3, PassPlaces
  <2> QED
    BY <1>3, <2>1, <2>2, <2>3 DEF CountDown
<1>4. s.left \in Int
  BY <1>0, SeenTypes, Times
<1> QED
  BY <1>1, <1>2, <1>3, <1>4

LEMMA AutoTells ==
    ASSUME IInv, PlanNotices("auto"), PassNotices("auto"), AutoStep
    PROVE  PlanNotices("auto")' /\ PassNotices("auto")'
<1> USE DEF IInv
<1>0. "auto" \in Kinds
  BY KindSet
<1>1. StillTold("auto") /\ running' = running /\ told' = told
  BY PassLeavesTold DEF StillTold
<1>2. PlanNotices("auto")'
  <2>1. \/ plan' = plan \/ KeepPlans \/ ReplacePlan("auto", NoPlan)
        \/ \E p, policy, targets, left :
               ReplacePlan("auto", NewPlan(p, policy, targets, left))
    BY DEF AutoStep, LookAuto, EnsureAuto, DecideAuto, MoveAuto, UpdateStopped, RequestAuto,
           RecordAuto
  <2> QED
    BY <1>0, <1>1, <2>1, ReplacedNotices
<1>3. CASE LookAuto \/ UpdateStopped \/ RequestAuto \/ RecordAuto
  BY <1>0, <1>2, <1>3, PassPlaces DEF LookAuto, UpdateStopped, RequestAuto, RecordAuto, Execute
<1>4. CASE EnsureAuto
  <2>1. CASE KeepPlans /\ Read("auto", "decide", plan["auto"])
    <3>1. loop'["auto"].pc = "decide" /\ Seen("auto")' = plan["auto"]
      BY <1>0, <2>1, PassPlaces
    <3> QED
      BY <1>1, <1>2, <3>1 DEF PassNotices, At, PlanNotices, Counted, Told
  <2>2. CASE \E left : Read("auto", "decide", NewPlan("this", AutoPolicy(Targets), Targets, left))
    <3>1. loop'["auto"].pc = "decide" /\ Seen("auto")'.notice = 0
      BY <1>0, <2>2, PassPlaces DEF NewPlan
    <3> QED
      BY <1>2, <3>1 DEF PassNotices, At, Counted, Told
  <2>3. CASE \/ Return("auto", "timer") \/ Return("auto", "asleep")
             \/ \E s : Read("auto", "update", s)
    BY <1>0, <1>2, <2>3, PassPlaces
  <2> QED
    BY <1>4, <2>1, <2>2, <2>3 DEF EnsureAuto
<1>5. CASE DecideAuto
  <2>1. CASE GoOn("auto", "update") \/ Return("auto", "timer")
    BY <1>0, <1>2, <2>1, PassPlaces
  <2>2. CASE IsOf("auto") /\ ~MissedAuto(Seen("auto")) /\ CountDown("auto")
    BY <1>1, <1>2, <1>5, <2>2, CountDownTells DEF DecideAuto
  <2> QED
    BY <1>5, <2>1, <2>2 DEF DecideAuto
<1> QED
  BY <1>2, <1>3, <1>4, <1>5 DEF AutoStep

LEMMA SchedTells ==
    ASSUME IInv, PlanNotices("sched"), PassNotices("sched"), SchedStep
    PROVE  PlanNotices("sched")' /\ PassNotices("sched")'
<1> USE DEF IInv
<1> DEFINE s == Seen("sched")
<1>0. "sched" \in Kinds
  BY KindSet
<1>1. StillTold("sched") /\ running' = running /\ told' = told
  BY PassLeavesTold DEF StillTold
<1>2. PlanNotices("sched")'
  <2>1. \/ plan' = plan \/ KeepPlans \/ ReplacePlan("sched", NoPlan)
        \/ \E p, policy, targets, left :
               ReplacePlan("sched", NewPlan(p, policy, targets, left))
    BY DEF SchedStep, LookSched, EnsureSched, DecideSched, SkipSched, RequestSched,
           RecordSched, Occurrence
  <2> QED
    BY <1>0, <1>1, <2>1, ReplacedNotices
<1>3. CASE LookSched
  <2>1. CASE Read("sched", "decide", plan["sched"])
    <3>1. loop'["sched"].pc = "decide" /\ Seen("sched")' = plan["sched"] /\ plan' = plan
      BY <1>0, <1>3, <2>1, PassPlaces DEF LookSched
    <3> QED
      BY <1>1, <1>2, <3>1 DEF PassNotices, At, PlanNotices, Counted, Told
  <2> QED
    BY <1>0, <1>2, <1>3, <2>1, PassPlaces DEF LookSched
<1>4. CASE EnsureSched
  <2>1. CASE \E left : Read("sched", "decide", Occurrence("this", left))
    <3>1. loop'["sched"].pc = "decide" /\ Seen("sched")'.notice = 0
      BY <1>0, <2>1, PassPlaces DEF Occurrence, NewPlan
    <3> QED
      BY <1>2, <3>1 DEF PassNotices, At, Counted, Told
  <2> QED
    BY <1>0, <1>2, <1>4, <2>1, PassPlaces DEF EnsureSched
<1>5. CASE DecideSched
  <2>1. CASE Return("sched", "timer")
    BY <1>0, <1>2, <2>1, PassPlaces
  <2>2. CASE /\ IsOf("sched") /\ ~Missed(s) /\ s.left <= 0
             /\ \E pc \in {"request", "final"} : GoOn("sched", pc)
    <3>1. loop'["sched"].pc \in {"request", "final"} /\ Seen("sched")' = s
      BY <1>0, <2>2, PassPlaces
    <3>2. s.policy = "scheduled" => Told("sched", s.left, Last)
      BY <1>5, <2>2, DeadlineIsTold DEF DecideSched
    <3> QED
      BY <1>1, <1>2, <3>1, <3>2 DEF PassNotices, At, Told
  <2>3. CASE GoOn("sched", "notice") /\ DueNotice(s.left) = s.notice + 1
    <3>1. loop'["sched"].pc = "notice" /\ Seen("sched")' = s
      BY <1>0, <2>3, PassPlaces
    <3>2. Counted("sched", s, s.notice)
      BY <1>5 DEF DecideSched, PassNotices, At
    <3> QED
      BY <1>1, <1>2, <2>3, <3>1, <3>2 DEF PassNotices, At, Counted, Told
  <2> QED
    BY <1>5, <2>1, <2>2, <2>3 DEF DecideSched, SkipSched
<1>6. CASE RequestSched \/ RecordSched
  BY <1>0, <1>2, <1>6, PassPlaces DEF RequestSched, RecordSched
<1> QED
  BY <1>2, <1>3, <1>4, <1>5, <1>6 DEF SchedStep

LEMMA LoopsTell ==
    ASSUME IInv, OwnInv, NoticeInv, NEW k \in Watched, Step(k)
    PROVE  NoticeInv'
<1>1. k \in Kinds /\ {"auto", "sched"} \subseteq Kinds
  BY WatchedAssumption, KindSet
<1>2. ASSUME NEW j \in {"auto", "sched"}
      PROVE  PlanNotices(j)' /\ PassNotices(j)'
  <2>1. PlanNotices(j) /\ PassNotices(j)
    BY DEF NoticeInv
  <2>2. CASE j # k
    <3>1. LeavesTold(j)
      BY <1>1, <2>2, CommonLeavesTold, PassLeavesTold DEF Step
    <3> QED
      BY <2>1, <3>1, LeftNotices
  <2>3. CASE j = k
    BY <2>1, <2>3, NoticeIsTold, CommonTells, AutoTells, SchedTells DEF Step
  <2> QED
    BY <2>2, <2>3
<1> QED
  BY <1>2 DEF NoticeInv

\* The other steps leave the loops where they are, or where nothing is under way.
LEMMA OthersTell ==
    ASSUME NoticeInv,
           \A k \in {"auto", "sched"} :
               PlanNotices(k)' /\ StillTold(k) /\ (Stays(k) \/ Resting(k)')
    PROVE  NoticeInv'
BY PassNoticesKept DEF NoticeInv

LEMMA RequestsTell ==
    ASSUME IInv, NoticeInv, Administrator \/ Queries
    PROVE  NoticeInv'
<1> USE DEF IInv
<1>0. {"auto", "sched"} \subseteq Kinds
  BY KindSet
<1>1. running' = running /\ told' = told
  BY DEF Administrator, SetMod, SetAuto, SetSched, EnsureSettings, OtherOperation, Requests,
     Queries, DetectModUpdate, SignalDetection, VersionQuery, serverVars, KeepPlans,
     ReplacePlan, EditPlan
<1>2. ASSUME NEW k \in {"auto", "sched"}
      PROVE  StillTold(k) /\ PlanNotices(k)
  BY <1>1 DEF StillTold, NoticeInv
<1>3. ASSUME NEW k \in {"auto", "sched"}
      PROVE  Stays(k)
  <2>1. \/ loop' = loop \/ Outdates("mod") \/ Outdates("auto")
        \/ \E v : loop' = [loop EXCEPT !["mod"].stale = v]
    BY DEF Administrator, SetMod, SetAuto, SetSched, EnsureSettings, OtherOperation,
       Queries, DetectModUpdate, SignalDetection, VersionQuery
  <2>2. ASSUME NEW v, loop' = [loop EXCEPT !["mod"].stale = v]
        PROVE  Stays(k)
    BY <2>2, <1>0, KindSet DEF LoopOK, Stays
  <2> QED
    BY <2>1, <2>2, <1>0, KindSet, PlacesKept
<1>4. ASSUME NEW k \in {"auto", "sched"}
      PROVE  PlanNotices(k)'
  <2>0. k \in Kinds /\ StillTold(k) /\ PlanNotices(k)
    BY <1>0, <1>2
  <2>1. CASE plan' = plan \/ KeepPlans
    BY <2>0, <2>1, ReplacedNotices
  <2>2. CASE \E new : ReplacePlan("mod", new)
    <3>1. plan'[k] = plan[k]
      BY <2>0, <2>2, KindSet, PlansLeft
    <3> QED
      BY <2>0, <3>1, PlanNoticesKept
  <2>3. CASE \/ ReplacePlan("auto", NoPlan)
             \/ \E p, policy, targets, left :
                    ReplacePlan("auto", NewPlan(p, policy, targets, left))
             \/ \E v : EditPlan("auto", [plan["auto"] EXCEPT !.targets = v])
    <3>1. CASE k = "auto"
      BY <2>0, <2>3, <3>1, ReplacedNotices, EditedNotices DEF EditPlan
    <3>2. CASE k = "sched"
      <4>1. plan'[k] = plan[k]
        BY <2>0, <2>3, <3>2, KindSet, PlansLeft
      <4> QED
        BY <2>0, <4>1, PlanNoticesKept
    <3> QED
      BY <3>1, <3>2
  <2>4. CASE \/ ReplacePlan("sched", NoPlan)
             \/ \E p, policy, targets, left :
                    ReplacePlan("sched", NewPlan(p, policy, targets, left))
    <3>1. CASE k = "sched"
      BY <2>0, <2>4, <3>1, ReplacedNotices
    <3>2. CASE k = "auto"
      <4>1. plan'[k] = plan[k]
        BY <2>0, <2>4, <3>2, KindSet, PlansLeft
      <4> QED
        BY <2>0, <4>1, PlanNoticesKept
    <3> QED
      BY <3>1, <3>2
  <2> QED
    <3>1. CASE Queries
      BY <3>1, <2>1, <2>2 DEF Queries, DetectModUpdate, SignalDetection, VersionQuery
    <3>2. CASE \E on, newTime \in BOOLEAN, policy \in Policies : SetMod(on, policy, newTime)
      BY <3>2, <2>1, <2>2 DEF SetMod
    <3>3. CASE \E products \in SUBSET Products, policies \in [Products -> Policies],
                  newTime \in BOOLEAN : SetAuto(products, policies, newTime)
      BY <3>3, <2>1, <2>3 DEF SetAuto
    <3>4. CASE \/ \E on \in BOOLEAN : SetSched(on)
               \/ EnsureSettings
               \/ \E action \in OtherActions : OtherOperation(action)
      BY <3>4, <2>1, <2>4 DEF SetSched, EnsureSettings, OtherOperation, Occurrence
    <3> QED
      BY <3>1, <3>2, <3>3, <3>4 DEF Administrator
<1> QED
  BY <1>2, <1>3, <1>4, OthersTell

LEMMA LaterNotices ==
    ASSUME IInv, NEW k \in Kinds, PlanNotices(k), Tick
    PROVE  PlanNotices(k)'
<1> USE DEF IInv
<1> DEFINE s == plan[k]
           t == plan'[k]
<1>1. s \in Plan /\ t = Later(s) /\ running' = running
  BY DEF Tick, PlansOK, serverVars
<1>2. s.left \in Int /\ Late \in Nat
  <2>1. s.left \in Lefts
    BY <1>1 DEF Plan
  <2> QED
    BY <2>1, Times
<1>3. OnlyEmpty(t)
  BY <1>1 DEF Later, Plan, PlanNotices, OnlyEmpty
<1>4. ASSUME running, t.pid = "this", t.policy = "scheduled", t.left > -(Late + 1)
      PROVE  \A i \in 1 .. t.notice : <<t.left, i>> \in told'[k]
  <2>1. s.policy = "scheduled" /\ s.pid = "this" /\ s.notice = t.notice
    BY <1>1, <1>4 DEF Later, Plan
  <2>2. s = NoPlan => t.notice = 0
    BY <1>1 DEF Later, NoPlan, NewPlan
  <2>3. s # NoPlan => s.left > -(Late + 1) /\ t.left = s.left - 1
    BY <1>1, <1>2, <1>4, <2>1 DEF Later, Plan
  <2>4. told'[k] = {<<n[1] - 1, n[2]>> : n \in {m \in told[k] : m[1] > -(Late + 1)}}
    BY DEF Tick
  <2>5. ASSUME s # NoPlan, NEW i \in 1 .. t.notice
        PROVE  <<t.left, i>> \in told'[k]
    <3>1. <<s.left, i>> \in told[k]
      BY <1>4, <2>1, <2>3, <2>5 DEF PlanNotices, Counted, Told
    <3> QED
      BY <2>3, <2>4, <2>5, <3>1
  <2> QED
    BY <2>2, <2>5
<1> QED
  BY <1>1, <1>3, <1>4 DEF PlanNotices, Counted, Told

LEMMA EnvironmentTells ==
    ASSUME IInv, NoticeInv, Environment
    PROVE  NoticeInv'
<1> USE DEF IInv
<1>0. {"auto", "sched"} \subseteq Kinds
  BY KindSet
<1>1. ASSUME NEW k \in {"auto", "sched"}
      PROVE  k \in Kinds /\ PlanNotices(k) /\ PassNotices(k)
  BY <1>0 DEF NoticeInv
<1>2. CASE Tick \/ ProcessStarts
  <2>1. loop' = loop /\ \A k \in Kinds : Resting(k)
    BY <1>2 DEF Tick, ProcessStarts, AllRest
  <2>2. ASSUME NEW k \in {"auto", "sched"}
        PROVE  PlanNotices(k)'
    <3>1. CASE Tick
      BY <1>1, <2>2, <3>1, LaterNotices
    <3>2. CASE ProcessStarts
      <4>1. \/ plan'[k] = NewPlan("none", "scheduled", {}, 0)
            \/ plan'[k] = [plan[k] EXCEPT !.pid = "earlier"]
        BY <1>0, <3>2 DEF ProcessStarts, NoPlan
      <4>2. plan[k] \in Plan
        BY <1>0 DEF PlansOK
      <4>3. CASE plan'[k] = [plan[k] EXCEPT !.pid = "earlier"]
        BY <1>1, <2>2, <4>2, <4>3 DEF Plan, PlanNotices, Counted, OnlyEmpty
      <4> QED
        BY <4>1, <4>3, NewPlanNotices
    <3> QED
      BY <1>2, <3>1, <3>2
  <2>3. ASSUME NEW k \in {"auto", "sched"}
        PROVE  PassNotices(k)'
    BY <1>0, <2>1 DEF PassNotices, Resting, At
  <2> QED
    BY <2>2, <2>3 DEF NoticeInv
<1>3. ASSUME \A k \in {"auto", "sched"} :
                 /\ plan'[k] = plan[k] /\ StillTold(k) /\ (Stays(k) \/ Resting(k)')
      PROVE  NoticeInv'
  BY <1>1, <1>3, PlanNoticesKept, OthersTell
<1>4. CASE ManagerRestarts
  <2>1. told' = told /\ running' = running
    BY <1>4 DEF ManagerRestarts, KeepPlans, ReplacePlan
  <2>2. KeepPlans \/ \E new : ReplacePlan("mod", new)
    BY <1>4 DEF ManagerRestarts
  <2>3. ASSUME NEW k \in {"auto", "sched"}
        PROVE  /\ plan'[k] = plan[k] /\ StillTold(k) /\ Resting(k)'
    BY <1>0, <1>4, <2>1, <2>2, <2>3, KindSet, PlansLeft
       DEF ManagerRestarts, IdleLoop, Resting, StillTold
  <2> QED
    BY <1>3, <2>3
<1>5. CASE ProcessExits \/ UNCHANGED <<plan, loop, running, told>>
  <2>1. \A k \in {"auto", "sched"} :
            plan'[k] = plan[k] /\ StillTold(k) /\ (Stays(k) \/ Resting(k)')
    BY <1>5 DEF ProcessExits, StillTold, Stays
  <2> QED
    BY <1>3, <2>1
<1> QED
  BY <1>2, <1>4, <1>5 DEF Environment, OperationEnds, UpdateEnds, WebRestarts,
                          PlayersChange, adminVars, loopVars

LEMMA NoticeInvariance == Spec => [](IInv /\ OwnInv /\ NoticeInv)
<1>1. Init => NoticeInv
  <2> SUFFICES ASSUME Init
               PROVE  NoticeInv
    OBVIOUS
  <2>1. ASSUME NEW k \in {"auto", "sched"}
        PROVE  plan[k] = NewPlan("none", "scheduled", {}, 0) /\ loop[k].pc = "timer"
               /\ ~running
    BY <2>1, KindSet DEF Init, NoPlan, IdleLoop
  <2> QED
    BY <2>1 DEF NoticeInv, PlanNotices, PassNotices, Counted, OnlyEmpty, NewPlan, At
<1>2. IInv /\ OwnInv /\ NoticeInv /\ [Next]_vars => NoticeInv'
  <2> SUFFICES ASSUME IInv, OwnInv, NoticeInv, [Next]_vars
               PROVE  NoticeInv'
    OBVIOUS
  <2>1. CASE UNCHANGED vars
    BY <2>1 DEF vars, serverVars, adminVars, loopVars, NoticeInv, PlanNotices, PassNotices,
       Counted, Told, OnlyEmpty, At, Seen
  <2> QED
    BY <2>1, LoopsTell, RequestsTell, EnvironmentTells DEF Next
<1> QED
  BY <1>1, <1>2, OwnInvariance, PTL DEF Spec

\* The notices are counted in the plan and not read back from the game: what a plan
\* of the running process counts it has sent, over its edits, moves and new times,
\* a notice sent is counted once, and a schedule that lacks one at its deadline is
\* missed (advanceModRestartNotice and its siblings, skipScheduledServerRestart,
\* rescheduleMissedAutomaticUpdate).
THEOREM AllNoticesGoFirst == Spec => NoticesBeforeRestart
<1>1. IInv /\ NoticeInv =>
          \A k \in {"auto", "sched"} :
             Accepts(k) /\ running /\ Seen(k).policy = "scheduled" =>
                 ToldFor(k, Seen(k).left) = Notices
  BY DEF NoticeInv, PassNotices, Accepts, Told, ToldFor, Notices
<1> QED
  BY NoticeInvariance, <1>1, PTL DEF NoticesBeforeRestart

-----------------------------------------------------------------------------
(* No restart while another one is announced, as long as the settings stay *)

\* Notices are sent within the last Lead of a plan.
InTime(k) ==
    /\ \A m \in told[k] : m[1] <= Lead
    /\ At(k, "notice") => Seen(k).left <= Lead

\* A pass of the sched loop has its plan to itself.
SchedSteady ==
    /\ ~ensuring
    /\ plan["sched"].policy = "scheduled" /\ Seen("sched").policy = "scheduled"
    /\ loop["sched"].pc \notin {"waiting", "announced", "empty", "update"}
    /\ At("sched", "ensure") => ~(running /\ plan["sched"].pid = "this")
    /\ ~Resting("sched") /\ running => loop["sched"].alive
    /\ loop["sched"].pc \in Acting \cup {"decide"} =>
           plan["sched"].pid = "this" /\ plan["sched"].left = Seen("sched").left
    /\ loop["sched"].pc \in Acting => Seen("sched").left <= Lead
    /\ loop["sched"].pc \in {"final", "mark", "request"} => Seen("sched").left <= 0

\* What the players were told of the schedule is about this occurrence or one that
\* is over.
SchedTold ==
    told["sched"] # {} => /\ running /\ plan["sched"].pid = "this"
                          /\ \A m \in told["sched"] : m[1] <= plan["sched"].left

\* The time of a plan has come.
Ripe(s) == s.since = "grace" \/ (s.policy # "when_empty" /\ s.left <= 0)

\* A pass of the auto loop has its plan to itself.
AutoSteady ==
    /\ loop["auto"].pc \in Acting \cup {"decide"} =>
           /\ plan["auto"].pid = "this"
           /\ \A field \in {"left", "policy", "since"} :
                  plan["auto"][field] = Seen("auto")[field]
    /\ loop["auto"].pc \in {"final", "mark", "request"} => Ripe(Seen("auto"))

\* The automatic update has not looked at a schedule that is due.
DueSched == Planned("sched") /\ plan["sched"].left <= 0 => Resting("auto")

\* A pass of the auto loop that will request its restart, unless something else
\* is in its way.
Committed ==
    /\ ~Resting("auto") /\ loop["auto"].pc \notin {"update", "record"}
    /\ Planned("auto") /\ Ripe(plan["auto"])

\* Who is about to restart has the server to itself.
SchedAlone ==
    loop["sched"].pc \in {"final", "mark", "request"} => ~Active("auto") /\ ~Active("mod")
AutoAlone ==
    Committed =>
        /\ ~Active("mod")
        /\ \A n \in Notices : <<plan["sched"].left, n>> \notin told["sched"]
        /\ loop["sched"].pc \notin Acting
YieldInv ==
    /\ \A k \in Kinds : InTime(k)
    /\ SchedSteady /\ SchedTold /\ AutoSteady
    /\ DueSched /\ SchedAlone /\ AutoAlone

\* A notice that is due lies within the list.
LEMMA DueInTime ==
    ASSUME NEW left \in Lefts, DueNotice(left) > 0
    PROVE  left <= Lead
<1> DEFINE D == {i \in Notices : left <= NoticeAt[i]}
<1>1. Cardinality(D) > 0 /\ left \in Int /\ Lead \in Nat /\ Last \in Nat
  BY Times, NoticeCount DEF DueNotice
<1>2. D # {}
  BY <1>1, FS_EmptySet
<1>3. PICK i \in Notices : left <= NoticeAt[i]
  BY <1>2
<1>4. NoticeAt[i] \in 1 .. Lead
  BY <1>1, <1>3, NoticeAssumption DEF Notices, Last
<1> QED
  BY <1>1, <1>3, <1>4

\* What a step of one loop leaves to the others.
Undisturbed(j) ==
    /\ plan'[j] = plan[j] /\ told'[j] = told[j] /\ running' = running
    /\ loop'[j] = loop[j] \/ loop'[j] = IdleLoop("timer")
    /\ ensuring' => ensuring

LEMMA StepsApart ==
    ASSUME IInv, NEW k \in Kinds, Step(k), NEW j \in Kinds \ {k}
    PROVE  Undisturbed(j)
<1> USE DEF IInv
<1>1. CASE \/ SendNotice(k) \/ AdvanceNotice(k) \/ SendWaiting(k) \/ MarkWaiting(k)
           \/ Resume(k) \/ ObserveEmpty(k) \/ SendFinal(k) \/ MarkFinal(k)
  <2>1. plan'[j] = plan[j]
    BY <1>1, CommonLeavesTold DEF LeavesTold
  <2>2. running' = running
    BY <1>1 DEF SendNotice, AdvanceNotice, SendWaiting, MarkWaiting, Resume, ObserveEmpty,
       SendFinal, MarkFinal, serverVars
  <2>3. told'[j] = told[j]
    <3>1. CASE SendNotice(k)
      BY <3>1 DEF SendNotice, PlansOK
    <3> QED
      BY <1>1, <3>1 DEF AdvanceNotice, SendWaiting, MarkWaiting, Resume, ObserveEmpty,
         SendFinal, MarkFinal, KeepPlans, EditPlan, ReplacePlan
  <2>4. (loop'[j] = loop[j] \/ loop'[j] = IdleLoop("timer")) /\ (ensuring' => ensuring)
    BY <1>1, CommonLeaves DEF Leaves, StartsAnew
  <2> QED
    BY <2>1, <2>2, <2>3, <2>4 DEF Undisturbed
<1>2. ASSUME Leaves(j), running' = running, told' = told
      PROVE  Undisturbed(j)
  BY <1>2 DEF Leaves, Undisturbed
<1> QED
  BY <1>1, <1>2, PassLeavesTold, ModStepLeaves, AutoStepLeaves, SchedStepLeaves DEF Step

LEMMA InTimeKept ==
    ASSUME NEW k, InTime(k), told'[k] = told[k] \/ told'[k] = {},
           loop'[k] = loop[k] \/ ~At(k, "notice")'
    PROVE  InTime(k)'
BY DEF InTime, At, Seen

LEMMA StepInTime ==
    ASSUME IInv, NEW k \in Kinds, InTime(k), Step(k)
    PROVE  InTime(k)'
<1> USE DEF IInv
<1> DEFINE s == Seen(k)
<1>1. s.left \in Lefts /\ s.left \in Int /\ s.notice \in Nat /\ DueNotice(s.left) \in Int
  <2>1. s.left \in Lefts /\ s.left \in Int
    BY SeenTypes, Times
  <2>2. s.notice \in Nat
    BY SeenTypes, NoticeCount DEF Plan
  <2>3. DueNotice(s.left) \in Int
    BY <2>1, NoticeCount
  <2> QED
    BY <2>1, <2>2, <2>3
<1>2. CASE SendNotice(k)
  <2>1. At(k, "notice") /\ ~At(k, "notice")'
    BY <1>2, PlacesKept DEF SendNotice, At, Return, IdleLoop, LoopOK
  <2>2. told'[k] = told[k] \/ told'[k] = told[k] \cup {<<s.left, DueNotice(s.left)>>}
    BY <1>2 DEF SendNotice, PlansOK
  <2> QED
    BY <2>1, <2>2 DEF InTime
<1>3. ASSUME told' = told, GoOn(k, "notice"), DueNotice(s.left) > s.notice
      PROVE  InTime(k)'
  <2>1. s.left <= Lead
    BY <1>1, <1>3, DueInTime
  <2>2. Seen(k)' = s
    BY <1>3, PassPlaces
  <2> QED
    BY <1>3, <2>1, <2>2 DEF InTime
<1>4. ASSUME told' = told, loop'[k].pc # "notice"
      PROVE  InTime(k)'
  BY <1>4, InTimeKept DEF At
<1>5. \A pc : Return(k, pc) \/ GoOn(k, pc) \/ (\E t : Read(k, pc, t)) => loop'[k].pc = pc
  BY PlacesKept DEF Return, IdleLoop, LoopOK
<1>6. CASE \/ AdvanceNotice(k) \/ SendWaiting(k) \/ MarkWaiting(k)
           \/ Resume(k) \/ ObserveEmpty(k) \/ SendFinal(k) \/ MarkFinal(k)
  <2>1. told' = told
    BY <1>6 DEF AdvanceNotice, SendWaiting, MarkWaiting, Resume, ObserveEmpty,
       SendFinal, MarkFinal, KeepPlans, EditPlan, ReplacePlan
  <2>2. loop'[k].pc # "notice"
    <3>1. CASE Resume(k)
      BY <3>1, <1>5 DEF Resume, IdleLoop, LoopOK, Loop
    <3> QED
      BY <1>5, <1>6, <3>1 DEF AdvanceNotice, SendWaiting, MarkWaiting, ObserveEmpty,
         SendFinal, MarkFinal
  <2> QED
    BY <1>4, <2>1, <2>2
<1>7. CASE k = "mod" /\ ModStep
  <2>1. told' = told
    BY <1>7, PassLeavesTold
  <2>2. loop'[k].pc # "notice" \/ (GoOn(k, "notice") /\ DueNotice(s.left) > s.notice)
    BY <1>5, <1>7 DEF ModStep, LookMod, DecideMod, RequestMod, RecordMod, ClearMod, CountDown
  <2> QED
    BY <1>3, <1>4, <2>1, <2>2
<1>8. CASE k = "auto" /\ AutoStep
  <2>1. told' = told
    BY <1>8, PassLeavesTold
  <2>2. loop'[k].pc # "notice" \/ (GoOn(k, "notice") /\ DueNotice(s.left) > s.notice)
    <3>1. CASE LookAuto \/ UpdateStopped \/ RequestAuto \/ RecordAuto
      BY <1>5, <1>8, <3>1 DEF LookAuto, UpdateStopped, RequestAuto, Execute, RecordAuto
    <3>2. CASE EnsureAuto
      BY <1>5, <1>8, <3>2 DEF EnsureAuto
    <3>3. CASE DecideAuto
      BY <1>5, <1>8, <3>3 DEF DecideAuto, CountDown
    <3> QED
      BY <1>8, <3>1, <3>2, <3>3 DEF AutoStep
  <2> QED
    BY <1>3, <1>4, <2>1, <2>2
<1>9. CASE k = "sched" /\ SchedStep
  <2>1. told' = told
    BY <1>9, PassLeavesTold
  <2>2. loop'[k].pc # "notice" \/ (GoOn(k, "notice") /\ DueNotice(s.left) > s.notice)
    <3>1. CASE LookSched \/ EnsureSched \/ RequestSched \/ RecordSched
      BY <1>5, <1>9, <3>1 DEF LookSched, EnsureSched, RequestSched, RecordSched
    <3>2. CASE DecideSched
      <4>1. CASE GoOn(k, "notice") /\ DueNotice(s.left) = s.notice + 1
        BY <1>1, <4>1
      <4>2. CASE Return(k, "timer") \/ GoOn(k, IF s.final THEN "request" ELSE "final")
        BY <1>5, <4>2
      <4> QED
        BY <1>9, <3>2, <4>1, <4>2 DEF DecideSched, SkipSched
    <3> QED
      BY <1>9, <3>1, <3>2 DEF SchedStep
  <2> QED
    BY <1>3, <1>4, <2>1, <2>2
<1> QED
  BY <1>2, <1>6, <1>7, <1>8, <1>9 DEF Step

\* The sched loop.
SchedPart == SchedSteady /\ SchedTold

LEMMA IdleFields ==
    ASSUME NEW pc
    PROVE  /\ IdleLoop(pc).pc = pc /\ IdleLoop(pc).seen.policy = "scheduled"
           /\ NoPlan.policy = "scheduled" /\ NoPlan.pid # "this" /\ NoPlan.since = "never"
BY DEF IdleLoop, NoPlan, NewPlan

LEMMA SchedApart ==
    ASSUME SchedPart, Undisturbed("sched")
    PROVE  SchedPart'
<1>1. SchedTold'
  BY DEF SchedPart, SchedTold, Undisturbed
<1>2. CASE loop'["sched"] = loop["sched"]
  BY <1>1, <1>2 DEF SchedPart, SchedSteady, Undisturbed, Resting, At, Seen
<1>3. CASE loop'["sched"] = IdleLoop("timer")
  BY <1>1, <1>3, IdleFields DEF SchedPart, SchedSteady, Undisturbed, Resting, At, Seen, Acting
<1> QED
  BY <1>2, <1>3 DEF Undisturbed

\* The sched loop goes on within its pass, its plan's process and time unchanged.
LEMMA SchedGoesOn ==
    ASSUME IInv, SchedPart, NEW pc, GoOn("sched", pc), ~Resting("sched"),
           pc \notin {"waiting", "announced", "empty", "update", "ensure", "decide"},
           running' = running, ~ensuring',
           \A field \in {"pid", "left", "policy"} :
               plan'["sched"][field] = plan["sched"][field],
           pc \in Acting => /\ loop["sched"].pc \in Acting \cup {"decide"}
                            /\ Seen("sched").left <= Lead,
           pc \in {"final", "mark", "request"} => Seen("sched").left <= 0
    PROVE  SchedSteady'
<1>1. /\ loop'["sched"].pc = pc /\ Seen("sched")' = Seen("sched")
      /\ loop'["sched"].alive = loop["sched"].alive
  <2>1. loop'["sched"].alive = loop["sched"].alive
    BY KindSet DEF GoOn, IInv, LoopOK, Loop
  <2> QED
    BY <2>1, KindSet, PassPlaces DEF IInv
<1> QED
  BY <1>1 DEF SchedPart, SchedSteady, At, Resting

LEMMA SchedReturns ==
    ASSUME IInv, SchedPart, NEW pc \in {"timer", "asleep"},
           Return("sched", pc) \/ loop'["sched"] = IdleLoop(pc),
           ~ensuring', plan'["sched"].policy = "scheduled"
    PROVE  SchedSteady'
<1>1. loop'["sched"] = IdleLoop(pc)
  BY KindSet DEF Return, IInv, LoopOK
<1> QED
  BY <1>1, IdleFields DEF SchedSteady, At, Resting, Seen, Acting

\* A plan that is edited keeps what the players were told.
LEMMA SchedToldKept ==
    ASSUME SchedPart, told'["sched"] = told["sched"], running' = running,
           plan'["sched"].pid = plan["sched"].pid, plan'["sched"].left = plan["sched"].left
    PROVE  SchedTold'
BY DEF SchedPart, SchedTold

LEMMA SchedEdits ==
    ASSUME PlansOK, NEW k \in Kinds,
           \/ plan' = plan \/ KeepPlans
           \/ \E n : SetPlan(k, [plan[k] EXCEPT !.notice = n])
           \/ SetPlan(k, [plan[k] EXCEPT !.waiting = TRUE])
           \/ SetPlan(k, [plan[k] EXCEPT !.final = TRUE])
           \/ \E v : SetPlan(k, [plan[k] EXCEPT !.since = v])
    PROVE  \A field \in {"pid", "left", "policy"} : plan'[k][field] = plan[k][field]
<1>1. plan[k] \in Plan
  BY DEF PlansOK
<1> QED
  BY <1>1, ChangedPlan DEF Plan, KeepPlans

LEMMA CommonKeepsSched ==
    ASSUME IInv, SchedPart, InTime("sched"),
           \/ SendNotice("sched") \/ AdvanceNotice("sched") \/ SendWaiting("sched")
           \/ MarkWaiting("sched") \/ Resume("sched") \/ ObserveEmpty("sched")
           \/ SendFinal("sched") \/ MarkFinal("sched")
    PROVE  SchedPart'
<1> USE DEF IInv
<1>0. /\ "sched" \in Kinds /\ ~ensuring
      /\ SendNotice("sched") \/ AdvanceNotice("sched") \/ Resume("sched")
         \/ SendFinal("sched") \/ MarkFinal("sched")
  BY KindSet DEF SchedPart, SchedSteady, SendWaiting, MarkWaiting, ObserveEmpty, At
<1>1. /\ running' = running
      /\ ~Resting("sched") /\ loop["sched"].pc \in Acting
      /\ ~ensuring'
  BY <1>0 DEF SendNotice, AdvanceNotice, Resume, SendFinal, MarkFinal, serverVars, adminVars,
     At, Resting, Acting
<1>2. \A field \in {"pid", "left", "policy"} : plan'["sched"][field] = plan["sched"][field]
  BY <1>0, SchedEdits DEF SendNotice, AdvanceNotice, Resume, SendFinal, MarkFinal, EditPlan
<1>3. SchedSteady'
  <2>1. plan'["sched"].policy = "scheduled" /\ Seen("sched").left <= Lead
    BY <1>1, <1>2 DEF SchedPart, SchedSteady
  <2>2. CASE Return("sched", "timer") \/ loop'["sched"] = IdleLoop("timer")
    BY <1>1, <2>1, <2>2, SchedReturns
  <2>3. CASE \E pc \in {"advance", "resume"} : GoOn("sched", pc)
    BY <1>0, <1>1, <1>2, <2>1, <2>3, SchedGoesOn
  <2>4. CASE \E pc \in {"mark", "request"} : /\ GoOn("sched", pc)
                                             /\ loop["sched"].pc \in {"final", "mark"}
    <3>1. Seen("sched").left <= 0
      BY <2>4 DEF SchedPart, SchedSteady
    <3> QED
      BY <1>0, <1>1, <1>2, <2>1, <2>4, <3>1, SchedGoesOn
  <2>5. CASE Resume("sched")
    <3>1. Seen("sched").policy = "scheduled"
      BY DEF SchedPart, SchedSteady
    <3> QED
      BY <1>0, <2>2, <2>5, <3>1 DEF Resume
  <2> QED
    BY <1>0, <2>2, <2>3, <2>4, <2>5 DEF SendNotice, AdvanceNotice, SendFinal, MarkFinal, At
<1>4. SchedTold'
  <2>1. CASE told'["sched"] = told["sched"]
    BY <1>1, <1>2, <2>1, SchedToldKept
  <2>2. CASE SendNotice("sched") /\ running
    <3>1. told'["sched"] \subseteq
              told["sched"] \cup {<<Seen("sched").left, DueNotice(Seen("sched").left)>>}
      BY <1>0, <2>2 DEF SendNotice, PlansOK
    <3>2. plan["sched"].pid = "this" /\ plan["sched"].left = Seen("sched").left
      BY <1>1 DEF SchedPart, SchedSteady
    <3>3. Seen("sched").left \in Int
      BY <1>0, SeenTypes, Times
    <3> QED
      BY <1>1, <1>2, <2>2, <3>1, <3>2, <3>3 DEF SchedPart, SchedTold
  <2> QED
    BY <1>0, <2>1, <2>2 DEF SendNotice, AdvanceNotice, Resume, SendFinal, MarkFinal, KeepPlans,
       EditPlan
<1> QED
  BY <1>3, <1>4 DEF SchedPart

\* The next occurrence is later than all that the players were told of.
LEMMA SchedMoved ==
    ASSUME IInv, SchedPart, Same("sched"), NEW left \in OccurrencesAfter(Seen("sched").left),
           ReplacePlan("sched", Occurrence(Seen("sched").pid, left)), running' = running
    PROVE  /\ SchedTold' /\ plan'["sched"].policy = "scheduled"
           /\ \A n : <<plan'["sched"].left, n>> \notin told'["sched"]
<1> USE DEF IInv
<1>1. /\ plan'["sched"].pid = plan["sched"].pid /\ plan'["sched"].left = left
      /\ plan'["sched"].policy = "scheduled" /\ told' = told
      /\ plan["sched"].left = Seen("sched").left
  <2>1. plan'["sched"] = Occurrence(Seen("sched").pid, left)
    BY KindSet, ChangedPlan
  <2> QED
    BY <2>1 DEF Occurrence, NewPlan, Same, ReplacePlan
<1>2. left \in Int /\ left > Seen("sched").left /\ Seen("sched").left \in Int
  <2>1. Seen("sched").left \in Int
    BY KindSet, SeenTypes, Times
  <2>2. left \in Gaps /\ left > Seen("sched").left + Lead
    BY DEF OccurrencesAfter
  <2> QED
    BY <2>1, <2>2, TimeAssumption
<1>3. \A m \in told["sched"] : m[1] <= Seen("sched").left /\ m[1] \in Int
  <2>1. told["sched"] \subseteq Lefts \X (0 .. Last)
    BY KindSet DEF PlansOK
  <2> QED
    BY <1>1, <2>1, Times DEF SchedPart, SchedTold
<1>4. SchedTold'
  BY <1>1, <1>2, <1>3 DEF SchedPart, SchedTold
<1>5. \A n : <<plan'["sched"].left, n>> \notin told'["sched"]
  BY <1>1, <1>2, <1>3
<1> QED
  BY <1>1, <1>4, <1>5

\* A plan is made or dropped only for a process that was told nothing of it.
LEMMA SchedRenewed ==
    ASSUME IInv, SchedPart, told["sched"] = {}, running' = running,
           \/ ReplacePlan("sched", NoPlan)
           \/ \E left : ReplacePlan("sched", Occurrence("this", left))
    PROVE  /\ SchedTold' /\ plan'["sched"].policy = "scheduled" /\ told'["sched"] = {}
           /\ \A left : ReplacePlan("sched", Occurrence("this", left)) =>
                  plan'["sched"].pid = "this" /\ plan'["sched"].left = left
<1>1. told' = told
  BY DEF ReplacePlan
<1>2. \A new : ReplacePlan("sched", new) => plan'["sched"] = new
  BY KindSet, ChangedPlan DEF IInv
<1>3. \A left : /\ Occurrence("this", left).pid = "this"
                /\ Occurrence("this", left).left = left
                /\ Occurrence("this", left).policy = "scheduled"
  BY DEF Occurrence, NewPlan
<1>4. plan'["sched"].policy = "scheduled"
  BY <1>2, <1>3, IdleFields
<1> QED
  BY <1>1, <1>2, <1>3, <1>4 DEF SchedTold

LEMMA SchedReads ==
    ASSUME IInv, SchedPart, NEW pc \in {"ensure", "decide"}, NEW s, Read("sched", pc, s),
           running' = running, ~ensuring', plan'["sched"].policy = "scheduled",
           s.policy = "scheduled",
           pc = "ensure" => ~(running /\ plan'["sched"].pid = "this"),
           pc = "decide" => plan'["sched"].pid = "this" /\ plan'["sched"].left = s.left
    PROVE  SchedSteady'
<1>1. loop'["sched"].pc = pc /\ Seen("sched")' = s /\ loop'["sched"].alive = running
  BY KindSet DEF IInv, LoopOK, Read, Seen
<1> QED
  BY <1>1 DEF SchedSteady, At, Resting, Acting

LEMMA SchedStepKeeps ==
    ASSUME IInv, SchedPart, InTime("sched"), SchedStep
    PROVE  SchedPart'
<1> USE DEF IInv
<1> DEFINE s == Seen("sched")
<1>0. /\ "sched" \in Kinds /\ running' = running /\ told' = told /\ ~ensuring'
      /\ plan["sched"].policy = "scheduled" /\ s.policy = "scheduled"
  <2>1. ensuring' = ensuring
    BY DEF SchedStep, LookSched, EnsureSched, DecideSched, RequestSched, RecordSched, adminVars
  <2> QED
    BY <2>1, KindSet, PassLeavesTold DEF SchedPart, SchedSteady
<1>1. ASSUME plan' = plan \/ KeepPlans
      PROVE  /\ plan'["sched"] = plan["sched"] /\ SchedTold'
  BY <1>0, <1>1, SchedToldKept DEF KeepPlans
<1>2. CASE LookSched
  <2>1. plan' = plan
    BY <1>2 DEF LookSched
  <2>2. CASE Return("sched", "asleep")
    BY <1>0, <1>1, <2>1, <2>2, SchedReturns DEF SchedPart
  <2>3. CASE running /\ plan["sched"].pid = "this" /\ Read("sched", "decide", plan["sched"])
    BY <1>0, <1>1, <2>1, <2>3, SchedReads DEF SchedPart
  <2>4. CASE ~(running /\ plan["sched"].pid = "this") /\ Read("sched", "ensure", plan["sched"])
    BY <1>0, <1>1, <2>1, <2>4, SchedReads DEF SchedPart
  <2> QED
    BY <1>2, <2>2, <2>3, <2>4 DEF LookSched
<1>3. CASE EnsureSched
  <2>1. told["sched"] = {}
    BY <1>3 DEF EnsureSched, SchedPart, SchedSteady, SchedTold
  <2>2. CASE Return("sched", "timer") /\ (KeepPlans \/ ReplacePlan("sched", NoPlan))
    BY <1>0, <1>1, <2>1, <2>2, SchedRenewed, SchedReturns DEF SchedPart
  <2>3. CASE \E left \in Gaps : /\ ReplacePlan("sched", Occurrence("this", left))
                                /\ Read("sched", "decide", Occurrence("this", left))
    <3>1. PICK left \in Gaps : /\ ReplacePlan("sched", Occurrence("this", left))
                               /\ Read("sched", "decide", Occurrence("this", left))
      BY <2>3
    <3>2. Occurrence("this", left).left = left /\ Occurrence("this", left).policy = "scheduled"
      BY DEF Occurrence, NewPlan
    <3>3. /\ SchedTold' /\ plan'["sched"].policy = "scheduled"
          /\ plan'["sched"].pid = "this" /\ plan'["sched"].left = left
      BY <1>0, <2>1, <3>1, SchedRenewed
    <3>4. SchedSteady'
      BY <1>0, <3>1, <3>2, <3>3, SchedReads
    <3> QED
      BY <3>3, <3>4 DEF SchedPart
  <2> QED
    BY <1>3, <2>2, <2>3 DEF EnsureSched
<1>4. ASSUME Same("sched"),
             \E left \in OccurrencesAfter(s.left) :
                 ReplacePlan("sched", Occurrence(s.pid, left))
      PROVE  SchedTold' /\ plan'["sched"].policy = "scheduled"
  BY <1>0, <1>4, SchedMoved
<1>5. CASE DecideSched
  <2>0. ~Resting("sched") /\ loop["sched"].pc = "decide" /\ plan["sched"].pid = "this"
    BY <1>5 DEF DecideSched, At, Resting, SchedPart, SchedSteady
  <2>1. CASE SkipSched
    BY <1>0, <1>1, <1>4, <2>1, SchedReturns DEF SkipSched, SchedPart
  <2>2. CASE Return("sched", "timer") /\ KeepPlans
    BY <1>0, <1>1, <2>2, SchedReturns DEF SchedPart
  <2>3. CASE /\ Return("sched", "timer") /\ ~IsOf("sched")
             /\ Same("sched") /\ ReplacePlan("sched", NoPlan)
    <3>1. told["sched"] = {}
      BY <2>0, <2>3 DEF IsOf, Same, SchedPart, SchedTold
    <3> QED
      BY <1>0, <2>3, <3>1, SchedRenewed, SchedReturns DEF SchedPart
  <2>4. CASE /\ s.left <= Lead /\ s.left <= 0 /\ KeepPlans
             /\ \E pc \in {"request", "final"} : GoOn("sched", pc)
    BY <1>0, <1>1, <2>0, <2>4, SchedGoesOn DEF SchedPart, Acting
  <2>5. CASE s.left <= Lead /\ GoOn("sched", "notice") /\ KeepPlans
    BY <1>0, <1>1, <2>0, <2>5, SchedGoesOn DEF SchedPart, Acting
  <2> QED
    BY <1>5, <2>1, <2>2, <2>3, <2>4, <2>5 DEF DecideSched
<1>6. CASE RequestSched
  <2>1. KeepPlans /\ ~Resting("sched")
    BY <1>6 DEF RequestSched, At, Resting
  <2>2. CASE Return("sched", "timer")
    BY <1>0, <1>1, <2>1, <2>2, SchedReturns DEF SchedPart
  <2>3. CASE GoOn("sched", "record")
    BY <1>0, <1>1, <2>1, <2>3, SchedGoesOn DEF SchedPart, Acting
  <2> QED
    BY <1>6, <2>2, <2>3 DEF RequestSched
<1>7. CASE RecordSched
  BY <1>0, <1>1, <1>4, <1>7, SchedReturns DEF RecordSched, SchedPart
<1> QED
  BY <1>2, <1>3, <1>5, <1>6, <1>7 DEF SchedStep

\* The auto loop.
LEMMA AutoElsewhere ==
    ASSUME loop'["auto"].pc \notin Acting \cup {"decide"}
    PROVE  AutoSteady'
BY DEF AutoSteady, Acting

LEMMA AutoGoesOn ==
    ASSUME IInv, AutoSteady, NEW pc, GoOn("auto", pc),
           loop["auto"].pc \in Acting \cup {"decide"},
           \A field \in {"pid", "left", "policy", "since"} :
               plan'["auto"][field] = plan["auto"][field],
           pc \in {"final", "mark", "request"} => Ripe(Seen("auto"))
    PROVE  AutoSteady'
<1>1. loop'["auto"].pc = pc /\ Seen("auto")' = Seen("auto")
  BY KindSet, PassPlaces DEF IInv
<1> QED
  BY <1>1 DEF AutoSteady, Ripe

LEMMA AutoReads ==
    ASSUME IInv, NEW s, Read("auto", "decide", s) /\ plan'["auto"] = s, s.pid = "this"
    PROVE  AutoSteady'
<1>1. loop'["auto"].pc = "decide" /\ Seen("auto")' = s
  BY KindSet, PassPlaces DEF IInv
<1> QED
  BY <1>1 DEF AutoSteady

LEMMA AutoEdits ==
    ASSUME PlansOK, NEW k \in Kinds,
           \/ plan' = plan \/ KeepPlans
           \/ \E n : SetPlan(k, [plan[k] EXCEPT !.notice = n])
           \/ SetPlan(k, [plan[k] EXCEPT !.waiting = TRUE])
           \/ SetPlan(k, [plan[k] EXCEPT !.final = TRUE])
    PROVE  \A field \in {"pid", "left", "policy", "since"} :
               plan'[k][field] = plan[k][field]
<1>1. plan[k] \in Plan
  BY DEF PlansOK
<1> QED
  BY <1>1, ChangedPlan DEF Plan, KeepPlans

LEMMA CommonKeepsAuto ==
    ASSUME IInv, AutoSteady,
           \/ SendNotice("auto") \/ AdvanceNotice("auto") \/ SendWaiting("auto")
           \/ MarkWaiting("auto") \/ Resume("auto") \/ ObserveEmpty("auto")
           \/ SendFinal("auto") \/ MarkFinal("auto")
    PROVE  AutoSteady'
<1> USE DEF IInv
<1>0. "auto" \in Kinds /\ loop["auto"].pc \in Acting
  BY KindSet DEF SendNotice, AdvanceNotice, SendWaiting, MarkWaiting, Resume, ObserveEmpty,
     SendFinal, MarkFinal, At, Acting
<1>1. ASSUME NEW pc \in {"timer", "asleep"}, Return("auto", pc)
      PROVE  AutoSteady'
  <2>1. loop'["auto"].pc = pc
    BY <1>0, <1>1 DEF Return, IdleLoop, LoopOK
  <2> QED
    BY <2>1, AutoElsewhere DEF Acting
<1>2. CASE SendNotice("auto") \/ AdvanceNotice("auto") \/ SendWaiting("auto")
           \/ MarkWaiting("auto")
  <2>1. \A field \in {"pid", "left", "policy", "since"} :
            plan'["auto"][field] = plan["auto"][field]
    BY <1>0, <1>2, AutoEdits DEF SendNotice, AdvanceNotice, SendWaiting, MarkWaiting, EditPlan
  <2>2. CASE \E pc \in {"advance", "resume", "announced"} : GoOn("auto", pc)
    BY <1>0, <2>1, <2>2, AutoGoesOn
  <2> QED
    BY <1>1, <1>2, <2>2 DEF SendNotice, AdvanceNotice, SendWaiting, MarkWaiting
<1>3. CASE Resume("auto")
  <2>1. CASE loop' = [loop EXCEPT !["auto"].pc = "empty", !["auto"].seen = plan["auto"],
                                  !["auto"].stale = FALSE]
    <3>1. loop'["auto"].pc = "empty" /\ Seen("auto")' = plan["auto"] /\ plan' = plan
      BY <1>0, <1>3, <2>1 DEF LoopOK, Loop, Seen, Resume
    <3> QED
      BY <1>0, <3>1 DEF AutoSteady
  <2> QED
    BY <1>1, <1>3, <2>1 DEF Resume
<1>4. CASE ObserveEmpty("auto")
  <2>1. CASE /\ Seen("auto").since = "grace" /\ KeepPlans
             /\ \E pc \in {"request", "final"} : GoOn("auto", pc)
    <3>1. \A field \in {"pid", "left", "policy", "since"} :
              plan'["auto"][field] = plan["auto"][field]
      BY <1>0, <2>1, AutoEdits
    <3> QED
      BY <1>0, <2>1, <3>1, AutoGoesOn DEF Ripe
  <2> QED
    BY <1>1, <1>4, <2>1 DEF ObserveEmpty
<1>5. CASE SendFinal("auto") \/ MarkFinal("auto")
  <2>1. \A field \in {"pid", "left", "policy", "since"} :
            plan'["auto"][field] = plan["auto"][field]
    BY <1>0, <1>5, AutoEdits DEF SendFinal, MarkFinal, EditPlan
  <2>2. Ripe(Seen("auto"))
    BY <1>5 DEF SendFinal, MarkFinal, At, AutoSteady
  <2> QED
    BY <1>0, <1>5, <2>1, <2>2, AutoGoesOn DEF SendFinal, MarkFinal
<1> QED
  BY <1>2, <1>3, <1>4, <1>5

LEMMA AutoStepKeeps ==
    ASSUME IInv, AutoSteady, AutoStep
    PROVE  AutoSteady'
<1> USE DEF IInv
<1> DEFINE s == Seen("auto")
<1>0. "auto" \in Kinds /\ s.left \in Int
  BY KindSet, SeenTypes, Times
<1>1. ASSUME NEW pc \in {"timer", "asleep", "ensure", "update", "record"},
             Return("auto", pc) \/ GoOn("auto", pc) \/ \E t : Read("auto", pc, t)
      PROVE  AutoSteady'
  <2>1. loop'["auto"].pc = pc
    BY <1>0, <1>1, PassPlaces DEF Return, IdleLoop, LoopOK
  <2> QED
    BY <2>1, AutoElsewhere DEF Acting
<1>2. CASE LookAuto \/ UpdateStopped \/ RequestAuto \/ RecordAuto
  BY <1>1, <1>2 DEF LookAuto, UpdateStopped, RequestAuto, RecordAuto, Execute
<1>3. CASE EnsureAuto
  <2>1. CASE AutoPlanIsCurrent /\ KeepPlans /\ Read("auto", "decide", plan["auto"])
    BY <2>1, AutoReads DEF AutoPlanIsCurrent, KeepPlans
  <2>2. CASE \E left \in LeftsOf(AutoPolicy(Targets)) :
                LET new == NewPlan("this", AutoPolicy(Targets), Targets, left)
                IN  ReplacePlan("auto", new) /\ Read("auto", "decide", new)
    <3>1. PICK left \in LeftsOf(AutoPolicy(Targets)) :
              /\ ReplacePlan("auto", NewPlan("this", AutoPolicy(Targets), Targets, left))
              /\ Read("auto", "decide", NewPlan("this", AutoPolicy(Targets), Targets, left))
      BY <2>2
    <3>2. NewPlan("this", AutoPolicy(Targets), Targets, left).pid = "this"
      BY DEF NewPlan
    <3> QED
      BY <1>0, <3>1, <3>2, ChangedPlan, AutoReads
  <2> QED
    BY <1>1, <1>3, <2>1, <2>2 DEF EnsureAuto
<1>4. CASE DecideAuto
  <2>1. CASE CountDown("auto") /\ KeepPlans
    <3>1. \A field \in {"pid", "left", "policy", "since"} :
              plan'["auto"][field] = plan["auto"][field]
      BY <1>0, <2>1, AutoEdits
    <3>2. loop["auto"].pc \in Acting \cup {"decide"}
      BY <1>4 DEF DecideAuto, At
    <3>3. CASE \E pc \in {"empty", "waiting", "notice"} : GoOn("auto", pc)
      BY <3>1, <3>2, <3>3, AutoGoesOn
    <3>4. CASE /\ s.policy # "when_empty" /\ s.left <= 0
               /\ \E pc \in {"request", "final"} : GoOn("auto", pc)
      BY <3>1, <3>2, <3>4, AutoGoesOn DEF Ripe
    <3> QED
      BY <1>1, <2>1, <3>3, <3>4 DEF CountDown
  <2> QED
    BY <1>1, <1>4, <2>1 DEF DecideAuto
<1> QED
  BY <1>2, <1>3, <1>4 DEF AutoStep

\* What the mod loop does makes no plan of its own active, and what the auto loop
\* does makes no plan ripe.
LEMMA ModStaysInactive ==
    ASSUME IInv, Step("mod"), Active("mod")'
    PROVE  Active("mod")
<1> USE DEF IInv
<1>0. "mod" \in Kinds
  BY KindSet
<1>1. \/ plan' = plan \/ KeepPlans \/ ReplacePlan("mod", NoPlan)
      \/ /\ Planned("mod")
         /\ \/ \E n : SetPlan("mod", [plan["mod"] EXCEPT !.notice = n])
            \/ SetPlan("mod", [plan["mod"] EXCEPT !.waiting = TRUE])
            \/ SetPlan("mod", [plan["mod"] EXCEPT !.final = TRUE])
            \/ \E v : SetPlan("mod", [plan["mod"] EXCEPT !.since = v])
  <2>1. CASE \/ SendNotice("mod") \/ SendWaiting("mod") \/ Resume("mod") \/ SendFinal("mod")
    BY <2>1 DEF SendNotice, SendWaiting, Resume, SendFinal
  <2>2. CASE AdvanceNotice("mod") \/ MarkWaiting("mod") \/ MarkFinal("mod")
    BY <1>0, <2>2, SamePlan DEF AdvanceNotice, MarkWaiting, MarkFinal, EditPlan
  <2>3. CASE ObserveEmpty("mod")
    BY <1>0, <2>3, SamePlan DEF ObserveEmpty, ReplacePlan
  <2>4. CASE ModStep
    BY <2>4 DEF ModStep, LookMod, DecideMod, RequestMod, RecordMod, ClearMod
  <2> QED
    BY <2>1, <2>2, <2>3, <2>4 DEF Step
<1>2. CASE ReplacePlan("mod", NoPlan)
  BY <1>0, <1>2, ChangedPlan DEF Active, Planned
<1>3. CASE ~ReplacePlan("mod", NoPlan)
  <2>1. \A field \in {"pid", "left", "policy"} : plan'["mod"][field] = plan["mod"][field]
    BY <1>0, <1>1, <1>3, SchedEdits
  <2>2. Planned("mod")
    BY <1>1, <1>3 DEF Active, Planned, KeepPlans
  <2> QED
    BY <2>1, <2>2 DEF Active
<1> QED
  BY <1>2, <1>3

LEMMA NewIsNotRipe ==
    ASSUME NEW policy \in AllPolicies, NEW left \in LeftsOf(policy), NEW targets
    PROVE  ~Ripe(NewPlan("this", policy, targets, left))
<1>1. NewPlan("this", policy, targets, left).since = "never"
      /\ NewPlan("this", policy, targets, left).policy = policy
      /\ NewPlan("this", policy, targets, left).left = left
  BY DEF NewPlan
<1>2. policy # "when_empty" => left \in Int /\ left > 0
  BY TimeAssumption DEF AllPolicies, LeftsOf
<1> QED
  BY <1>1, <1>2 DEF Ripe

LEMMA CommittedBefore ==
    ASSUME IInv, Step("auto"), Committed'
    PROVE  Committed \/ LookAuto
<1> USE DEF IInv
<1>0. "auto" \in Kinds
  BY KindSet
<1>1. \A pc : Return("auto", pc) \/ GoOn("auto", pc) \/ (\E t : Read("auto", pc, t)) =>
          loop'["auto"].pc = pc
  BY <1>0, PassPlaces DEF Return, IdleLoop, LoopOK
<1>2. \A pc \in {"timer", "asleep", "update", "record"} :
          ~(Return("auto", pc) \/ GoOn("auto", pc) \/ \E t : Read("auto", pc, t))
  BY <1>1 DEF Committed, Resting
<1>3. ASSUME Planned("auto"),
             \A field \in {"pid", "left", "policy", "since"} :
                 plan'["auto"][field] = plan["auto"][field]
      PROVE  Planned("auto") /\ Ripe(plan["auto"])
  BY <1>3 DEF Committed, Ripe
<1>4. CASE SendNotice("auto") \/ AdvanceNotice("auto") \/ SendWaiting("auto")
           \/ MarkWaiting("auto") \/ Resume("auto") \/ ObserveEmpty("auto")
           \/ SendFinal("auto") \/ MarkFinal("auto")
  <2>1. ~Resting("auto") /\ loop["auto"].pc \notin {"update", "record"}
    BY <1>4 DEF SendNotice, AdvanceNotice, SendWaiting, MarkWaiting, Resume, ObserveEmpty,
       SendFinal, MarkFinal, At, Resting
  <2>2. \/ plan' = plan \/ KeepPlans
        \/ /\ Planned("auto")
           /\ \/ \E n : SetPlan("auto", [plan["auto"] EXCEPT !.notice = n])
              \/ SetPlan("auto", [plan["auto"] EXCEPT !.waiting = TRUE])
              \/ SetPlan("auto", [plan["auto"] EXCEPT !.final = TRUE])
    <3>1. CASE SendNotice("auto") \/ SendWaiting("auto") \/ Resume("auto") \/ SendFinal("auto")
      BY <3>1 DEF SendNotice, SendWaiting, Resume, SendFinal
    <3>2. CASE AdvanceNotice("auto") \/ MarkWaiting("auto") \/ MarkFinal("auto")
      BY <1>0, <3>2, SamePlan DEF AdvanceNotice, MarkWaiting, MarkFinal, EditPlan
    <3>3. CASE ObserveEmpty("auto")
      BY <1>2, <3>3 DEF ObserveEmpty
    <3> QED
      BY <1>4, <3>1, <3>2, <3>3
  <2>3. Planned("auto")
    BY <2>2 DEF Committed, Planned, KeepPlans
  <2> QED
    BY <1>0, <1>3, <2>1, <2>2, <2>3, AutoEdits DEF Committed
<1>5. CASE EnsureAuto
  <2>1. CASE KeepPlans
    BY <1>5, <2>1 DEF EnsureAuto, Committed, KeepPlans, At, Resting, Planned
  <2>2. ASSUME NEW left \in LeftsOf(AutoPolicy(Targets)), Targets # {},
               ReplacePlan("auto", NewPlan("this", AutoPolicy(Targets), Targets, left))
        PROVE  FALSE
    <3>1. AutoPolicy(Targets) \in AllPolicies
      BY <2>2, SettingTypes, PolicyTypes
    <3>2. plan'["auto"] = NewPlan("this", AutoPolicy(Targets), Targets, left)
      BY <1>0, <2>2, ChangedPlan
    <3> QED
      BY <3>1, <3>2, NewIsNotRipe DEF Committed
  <2>3. CASE ReplacePlan("auto", NoPlan)
    BY <1>0, <2>3, ChangedPlan DEF Committed, Planned
  <2> QED
    BY <1>5, <2>1, <2>2, <2>3 DEF EnsureAuto
<1>6. CASE DecideAuto
  <2>1. KeepPlans
    BY <1>2, <1>6 DEF DecideAuto
  <2> QED
    BY <1>6, <2>1 DEF DecideAuto, Committed, KeepPlans, At, Resting, Planned
<1>7. CASE UpdateStopped \/ RequestAuto \/ RecordAuto
  BY <1>2, <1>7 DEF UpdateStopped, RequestAuto, RecordAuto, Execute
<1> QED
  BY <1>4, <1>5, <1>6, <1>7 DEF Step, AutoStep

\* A plan that nobody was told of yet.
Untold(j) == \A n \in Notices : <<plan[j].left, n>> \notin told[j]

LEMMA PlanTimes ==
    ASSUME IInv, NEW k \in Kinds
    PROVE  plan[k].left \in Int /\ Lead \in Nat /\ Lead > 0
<1>1. plan[k].left \in Lefts
  BY PlanFields DEF IInv
<1>2. plan[k].left \in Int
  BY <1>1, Times
<1> QED
  BY <1>2, TimeAssumption

LEMMA InactiveIsUntold ==
    ASSUME IInv, NEW k \in Kinds, InTime(k), Planned(k), ~Active(k)
    PROVE  Untold(k)
<1>1. plan[k].left > Lead /\ plan[k].left \in Int
  BY PlanTimes DEF Active
<1> QED
  BY <1>1, Times DEF InTime, Untold

\* A plan of no process is no plan of this one.
LEMMA OwnIsPlanned ==
    ASSUME NEW k, plan[k].pid = "this"
    PROVE  Planned(k)
BY IdleFields DEF Planned

\* Whoever is about to restart counts as active for the others.
LEMMA CommittedIsActive ==
    ASSUME IInv, NoticeInv, Committed
    PROVE  Active("auto")
<1>1. plan["auto"].since = "grace" => plan["auto"].policy = "when_empty"
  BY DEF NoticeInv, PlanNotices, OnlyEmpty
<1>2. plan["auto"].left \in Int /\ Lead \in Nat
  BY KindSet, PlanTimes
<1> QED
  BY <1>1, <1>2 DEF Committed, Ripe, Active

LEMMA DueIsActive ==
    ASSUME IInv, SchedSteady, loop["sched"].pc \in {"final", "mark", "request"}
    PROVE  Active("sched") /\ Planned("sched") /\ plan["sched"].left <= 0
<1>1. plan["sched"].pid = "this" /\ plan["sched"].left <= 0
  BY DEF SchedSteady, Acting
<1>2. plan["sched"].left \in Int /\ Lead \in Nat
  BY KindSet, PlanTimes
<1> QED
  BY <1>1, <1>2, OwnIsPlanned DEF Active

CrossInv == DueSched /\ SchedAlone /\ AutoAlone

\* The steps of the mod loop and of the auto loop.
LEMMA ModStepsAlone ==
    ASSUME IInv, YieldInv, Step("mod")
    PROVE  CrossInv'
<1>1. Undisturbed("auto") /\ Undisturbed("sched")
  BY KindSet, StepsApart DEF Kinds
<1>2. Active("mod")' => Active("mod")
  BY ModStaysInactive
<1>3. DueSched'
  BY <1>1, IdleFields DEF YieldInv, DueSched, Undisturbed, Planned, Resting
<1>4. SchedAlone'
  BY <1>1, <1>2, IdleFields DEF YieldInv, SchedAlone, Undisturbed, Active, Planned
<1>5. Committed' => Committed
  BY <1>1, IdleFields DEF Committed, Undisturbed, Planned, Resting, Ripe
<1>6. AutoAlone'
  BY <1>1, <1>2, <1>5, IdleFields DEF YieldInv, AutoAlone, Undisturbed, Acting
<1> QED
  BY <1>3, <1>4, <1>6 DEF CrossInv

LEMMA AutoStepsAlone ==
    ASSUME IInv, YieldInv, Step("auto")
    PROVE  CrossInv'
<1> USE DEF IInv
<1>1. Undisturbed("mod") /\ Undisturbed("sched") /\ "auto" \in Kinds /\ "sched" \in Kinds
  BY KindSet, StepsApart DEF Kinds
<1>2. ~Resting("auto") \/ LookAuto
  BY DEF Step, SendNotice, AdvanceNotice, SendWaiting, MarkWaiting, Resume, ObserveEmpty,
     SendFinal, MarkFinal, AutoStep, EnsureAuto, DecideAuto, UpdateStopped, RequestAuto,
     RecordAuto, At, Resting
<1>3. LookAuto => plan' = plan /\ (Resting("auto")' \/ (~Active("mod") /\ ~Active("sched")))
  BY <1>1, PlacesKept DEF LookAuto
<1>4. DueSched'
  <2>1. Active("sched") \/ ~(Planned("sched") /\ plan["sched"].left <= 0)
    BY <1>1, PlanTimes DEF Active
  <2> QED
    BY <1>1, <1>2, <1>3, <2>1 DEF YieldInv, DueSched, Undisturbed, Planned
<1>5. SchedAlone'
  <2>1. CASE loop["sched"].pc \in {"final", "mark", "request"}
    <3>1. LookAuto
      BY <1>2, <2>1, DueIsActive DEF YieldInv, DueSched
    <3> QED
      BY <1>3, <2>1, <3>1 DEF YieldInv, SchedAlone, Active, Planned
  <2>2. CASE loop["sched"].pc \notin {"final", "mark", "request"}
    BY <1>1, <2>2, IdleFields DEF SchedAlone, Undisturbed
  <2> QED
    BY <2>1, <2>2
<1>6. AutoAlone'
  <2>1. SUFFICES ASSUME Committed'
                 PROVE  /\ ~Active("mod")'
                        /\ \A n \in Notices : <<plan'["sched"].left, n>> \notin told'["sched"]
                        /\ loop'["sched"].pc \notin Acting
    BY DEF AutoAlone
  <2>2. CASE Committed
    BY <1>1, <2>2, IdleFields DEF YieldInv, AutoAlone, Undisturbed, Active, Planned, Acting
  <2>3. CASE LookAuto
    <3>1. ~Active("mod") /\ ~Active("sched")
      BY <1>3, <2>1, <2>3 DEF Committed
    <3>2. Untold("sched")
      <4>1. CASE Planned("sched")
        BY <1>1, <3>1, <4>1, InactiveIsUntold DEF YieldInv
      <4>2. CASE ~Planned("sched")
        BY <4>2, OwnIsPlanned DEF YieldInv, SchedTold, Untold
      <4> QED
        BY <4>1, <4>2
    <3>3. loop["sched"].pc \notin Acting
      BY <3>1, OwnIsPlanned DEF YieldInv, SchedSteady, Active
    <3> QED
      BY <1>1, <3>1, <3>2, <3>3, IdleFields
         DEF Undisturbed, Active, Planned, Untold, Acting
  <2> QED
    BY <2>1, <2>2, <2>3, CommittedBefore
<1> QED
  BY <1>4, <1>5, <1>6 DEF CrossInv

\* The steps of the sched loop.
LEMMA SchedRipens ==
    ASSUME IInv, SchedPart, Step("sched"), Planned("sched")', plan'["sched"].left <= 0
    PROVE  Planned("sched") /\ plan["sched"].left <= 0
<1> USE DEF IInv
<1>0. "sched" \in Kinds
  BY KindSet
<1>1. \/ plan' = plan \/ KeepPlans
      \/ /\ Planned("sched")
         /\ \/ \E n : SetPlan("sched", [plan["sched"] EXCEPT !.notice = n])
            \/ SetPlan("sched", [plan["sched"] EXCEPT !.waiting = TRUE])
            \/ SetPlan("sched", [plan["sched"] EXCEPT !.final = TRUE])
            \/ \E v : SetPlan("sched", [plan["sched"] EXCEPT !.since = v])
      \/ ReplacePlan("sched", NoPlan)
      \/ \E p : \E left \in Gaps : ReplacePlan("sched", Occurrence(p, left))
  <2>1. CASE \/ SendNotice("sched") \/ SendWaiting("sched") \/ Resume("sched")
             \/ SendFinal("sched")
    BY <2>1 DEF SendNotice, SendWaiting, Resume, SendFinal
  <2>2. CASE AdvanceNotice("sched") \/ MarkWaiting("sched") \/ MarkFinal("sched")
    BY <1>0, <2>2, SamePlan DEF AdvanceNotice, MarkWaiting, MarkFinal, EditPlan
  <2>3. CASE ObserveEmpty("sched")
    BY <1>0, <2>3, SamePlan DEF ObserveEmpty, ReplacePlan
  <2>4. CASE SchedStep
    <3>1. CASE LookSched \/ RequestSched
      BY <3>1 DEF LookSched, RequestSched
    <3>2. CASE EnsureSched
      BY <3>2 DEF EnsureSched
    <3>3. OccurrencesAfter(Seen("sched").left) \subseteq Gaps
      BY DEF OccurrencesAfter
    <3>4. CASE RecordSched
      BY <3>3, <3>4 DEF RecordSched
    <3>5. CASE DecideSched
      <4>1. CASE SkipSched
        BY <3>3, <4>1 DEF SkipSched
      <4> QED
        BY <3>5, <4>1 DEF DecideSched
    <3> QED
      BY <2>4, <3>1, <3>2, <3>4, <3>5 DEF SchedStep
  <2> QED
    BY <2>1, <2>2, <2>3, <2>4 DEF Step
<1>2. ~ReplacePlan("sched", NoPlan)
  BY <1>0, ChangedPlan DEF Planned
<1>3. ASSUME NEW p, NEW left \in Gaps, ReplacePlan("sched", Occurrence(p, left))
      PROVE  FALSE
  <2>1. plan'["sched"] = Occurrence(p, left)
    BY <1>0, <1>3, ChangedPlan
  <2>2. plan'["sched"].left = left
    BY <2>1 DEF Occurrence, NewPlan
  <2> QED
    BY <2>2, TimeAssumption
<1>4. Planned("sched")
  BY <1>1, <1>2, <1>3 DEF Planned, KeepPlans
<1>5. plan'["sched"].left = plan["sched"].left
  BY <1>0, <1>1, <1>2, <1>3, SchedEdits
<1> QED
  BY <1>4, <1>5

LEMMA SchedCommits ==
    ASSUME IInv, SchedPart, Step("sched"), loop'["sched"].pc \in {"final", "mark", "request"}
    PROVE  \/ loop["sched"].pc \in {"final", "mark", "request"}
           \/ ~Active("auto") /\ ~Active("mod")
<1> USE DEF IInv
<1>0. "sched" \in Kinds
  BY KindSet
<1>1. \A pc : Return("sched", pc) \/ GoOn("sched", pc) \/ (\E t : Read("sched", pc, t)) =>
          loop'["sched"].pc = pc
  BY <1>0, PassPlaces DEF Return, IdleLoop, LoopOK
<1>2. \A pc \in LoopSteps \ {"final", "mark", "request"} :
          ~(Return("sched", pc) \/ GoOn("sched", pc) \/ \E t : Read("sched", pc, t))
  BY <1>1
<1>3. CASE DecideSched
  BY <1>2, <1>3, StepNames DEF DecideSched, SkipSched, SchedYields
<1>4. CASE LookSched \/ EnsureSched \/ RequestSched \/ RecordSched
  BY <1>2, <1>4, StepNames DEF LookSched, EnsureSched, RequestSched, RecordSched
<1>5. CASE SendFinal("sched") \/ MarkFinal("sched")
  BY <1>5 DEF SendFinal, MarkFinal, At
<1>6. CASE SendNotice("sched") \/ AdvanceNotice("sched")
  BY <1>2, <1>6, StepNames DEF SendNotice, AdvanceNotice
<1>7. ~SendWaiting("sched") /\ ~MarkWaiting("sched") /\ ~ObserveEmpty("sched")
  BY DEF SchedPart, SchedSteady, SendWaiting, MarkWaiting, ObserveEmpty, At
<1>8. CASE Resume("sched")
  <2>1. Seen("sched").policy # "when_empty"
    BY DEF SchedPart, SchedSteady
  <2> QED
    BY <1>0, <1>2, <1>8, <2>1, StepNames DEF Resume, IdleLoop
<1> QED
  BY <1>3, <1>4, <1>5, <1>6, <1>7, <1>8 DEF Step, SchedStep

LEMMA SchedLeavesCommitted ==
    ASSUME IInv, SchedPart, SchedStep, Active("auto"), Untold("sched"),
           loop["sched"].pc \notin Acting
    PROVE  Untold("sched")' /\ loop'["sched"].pc \notin Acting
<1> USE DEF IInv
<1>0. "sched" \in Kinds /\ running' = running /\ told' = told
  BY KindSet, PassLeavesTold
<1>1. \A pc : Return("sched", pc) \/ (\E t : Read("sched", pc, t)) => loop'["sched"].pc = pc
  BY <1>0, PassPlaces DEF Return, IdleLoop, LoopOK
<1>2. \A pc \in {"timer", "asleep", "decide", "ensure"} :
          Return("sched", pc) \/ (\E t : Read("sched", pc, t)) => loop'["sched"].pc \notin Acting
  BY <1>1 DEF Acting
<1>3. plan' = plan \/ KeepPlans => Untold("sched")'
  BY <1>0 DEF Untold, KeepPlans
<1>4. told["sched"] = {} => Untold("sched")'
  BY <1>0 DEF Untold
<1>5. ASSUME Same("sched"),
             \E left \in OccurrencesAfter(Seen("sched").left) :
                 ReplacePlan("sched", Occurrence(Seen("sched").pid, left))
      PROVE  Untold("sched")'
  BY <1>0, <1>5, SchedMoved DEF Untold
<1>6. CASE LookSched
  BY <1>2, <1>3, <1>6 DEF LookSched
<1>7. CASE EnsureSched
  <2>1. told["sched"] = {}
    BY <1>7 DEF EnsureSched, SchedPart, SchedSteady, SchedTold
  <2> QED
    BY <1>2, <1>4, <1>7, <2>1 DEF EnsureSched
<1>8. CASE DecideSched
  <2>1. SchedYields
    BY DEF SchedYields
  <2>2. Return("sched", "timer")
    BY <1>8, <2>1 DEF DecideSched, SkipSched
  <2>3. KeepPlans \/ SkipSched
    BY <1>8, <2>1 DEF DecideSched
  <2> QED
    BY <1>2, <1>3, <1>5, <2>2, <2>3 DEF SkipSched
<1>9. CASE RecordSched
  BY <1>2, <1>3, <1>5, <1>9 DEF RecordSched
<1>10. ~RequestSched
  BY DEF RequestSched, At, Acting
<1> QED
  BY <1>6, <1>7, <1>8, <1>9, <1>10 DEF SchedStep

LEMMA SchedStepsAlone ==
    ASSUME IInv, NoticeInv, YieldInv, Step("sched")
    PROVE  CrossInv'
<1>1. Undisturbed("mod") /\ Undisturbed("auto") /\ SchedPart
  BY KindSet, StepsApart DEF Kinds, YieldInv, SchedPart
<1>2. DueSched'
  BY <1>1, SchedRipens, IdleFields DEF YieldInv, DueSched, Undisturbed, Resting
<1>3. SchedAlone'
  BY <1>1, SchedCommits DEF YieldInv, SchedAlone, Undisturbed, Active, Planned
<1>4. AutoAlone'
  <2>1. SUFFICES ASSUME Committed'
                 PROVE  /\ ~Active("mod")'
                        /\ \A n \in Notices : <<plan'["sched"].left, n>> \notin told'["sched"]
                        /\ loop'["sched"].pc \notin Acting
    BY DEF AutoAlone
  <2>2. Committed
    BY <1>1, <2>1, IdleFields DEF Committed, Undisturbed, Planned, Resting, Ripe
  <2>3. ~Active("mod") /\ Untold("sched") /\ loop["sched"].pc \notin Acting /\ Active("auto")
    BY <2>2, CommittedIsActive DEF YieldInv, AutoAlone, Untold
  <2>4. SchedStep
    BY <2>3 DEF Step, SendNotice, AdvanceNotice, SendWaiting, MarkWaiting, Resume,
       ObserveEmpty, SendFinal, MarkFinal, At, Acting
  <2> QED
    BY <1>1, <2>3, <2>4, SchedLeavesCommitted DEF Undisturbed, Active, Planned, Untold
<1> QED
  BY <1>2, <1>3, <1>4 DEF CrossInv

LEMMA LoopsYield ==
    ASSUME IInv, NoticeInv, YieldInv, NEW k \in Watched, Step(k)
    PROVE  YieldInv'
<1>0. k \in Kinds /\ "auto" \in Kinds /\ "sched" \in Kinds /\ SchedPart /\ InTime("sched")
  BY WatchedAssumption, KindSet DEF YieldInv, SchedPart
<1>1. \A j \in Kinds \ {k} : Undisturbed(j)
  BY <1>0, StepsApart
<1>2. ASSUME NEW j \in Kinds
      PROVE  InTime(j)'
  <2>1. CASE j = k
    BY <1>0, <2>1, StepInTime DEF YieldInv
  <2>2. CASE j # k
    <3>1. told'[j] = told[j] /\ (loop'[j] = loop[j] \/ ~At(j, "notice")')
      BY <1>1, <2>2, IdleFields DEF Undisturbed, At
    <3> QED
      BY <3>1, InTimeKept DEF YieldInv
  <2> QED
    BY <2>1, <2>2
<1>3. SchedPart'
  <2>1. CASE k = "sched"
    BY <1>0, <2>1, CommonKeepsSched, SchedStepKeeps DEF Step
  <2>2. CASE k # "sched"
    BY <1>0, <1>1, <2>2, SchedApart
  <2> QED
    BY <2>1, <2>2
<1>4. AutoSteady'
  <2>1. CASE k = "auto"
    BY <2>1, CommonKeepsAuto, AutoStepKeeps DEF Step, YieldInv
  <2>2. CASE k # "auto"
    <3>1. Undisturbed("auto")
      BY <1>0, <1>1, <2>2
    <3>2. CASE loop'["auto"] = IdleLoop("timer")
      BY <3>2, IdleFields, AutoElsewhere DEF Acting
    <3> QED
      BY <3>1, <3>2 DEF Undisturbed, AutoSteady, YieldInv, Seen
  <2> QED
    BY <2>1, <2>2
<1>5. CrossInv'
  BY <1>0, ModStepsAlone, AutoStepsAlone, SchedStepsAlone DEF Kinds
<1> QED
  BY <1>2, <1>3, <1>4, <1>5 DEF YieldInv, SchedPart, CrossInv

\* A step that concerns neither the loops nor the plans.
LEMMA StillYields ==
    ASSUME YieldInv, UNCHANGED <<plan, loop, told, running, ensuring>>
    PROVE  YieldInv'
BY DEF YieldInv, InTime, At, Seen, SchedSteady, SchedTold, AutoSteady, Resting, DueSched,
       Planned, SchedAlone, AutoAlone, Active, Committed

\* A step that is taken while the loops rest, or that makes them start again.
LEMMA RestYields ==
    ASSUME \A j \in Kinds : Resting(j)' /\ InTime(j)', SchedTold', ~ensuring',
           plan'["sched"].policy = "scheduled", Seen("sched")'.policy = "scheduled"
    PROVE  YieldInv'
<1>1. /\ loop'["auto"].pc \in {"timer", "asleep"} /\ loop'["sched"].pc \in {"timer", "asleep"}
  BY KindSet DEF Resting
<1> QED
  BY <1>1 DEF YieldInv, SchedSteady, AutoSteady, DueSched, SchedAlone, AutoAlone, Resting,
     Committed, Acting, At

\* Updates of the mods are looked for only while no other restart is under way.
LEMMA DetectYields ==
    ASSUME IInv, NoticeInv, YieldInv, DetectModUpdate
    PROVE  YieldInv'
<1> USE DEF IInv
<1>1. ~Active("auto") /\ ~Active("sched") /\ running' = running /\ told' = told
      /\ ensuring' = ensuring
  BY DEF DetectModUpdate, serverVars, KeepPlans, ReplacePlan
<1>2. plan'["auto"] = plan["auto"] /\ plan'["sched"] = plan["sched"]
  <2>1. KeepPlans \/ \E new : ReplacePlan("mod", new)
    BY DEF DetectModUpdate
  <2> QED
    BY <2>1, KindSet, PlansLeft
<1>3. /\ loop'["auto"] = loop["auto"] /\ loop'["sched"] = loop["sched"]
      /\ \A j \in Kinds : loop'[j].pc = loop[j].pc /\ Seen(j)' = Seen(j)
  BY KindSet DEF DetectModUpdate, Outdates, LoopOK, Loop, Seen
<1>4. Undisturbed("auto") /\ Undisturbed("sched")
  BY <1>1, <1>2, <1>3 DEF Undisturbed
<1>5. \A j \in Kinds : InTime(j)'
  BY <1>1, <1>3 DEF YieldInv, InTime, At
<1>6. SchedPart'
  BY <1>4, SchedApart DEF YieldInv, SchedPart
<1>7. AutoSteady' /\ DueSched'
  BY <1>2, <1>3 DEF YieldInv, AutoSteady, DueSched, Planned, Resting, Ripe, Seen
<1>8. loop'["sched"].pc \notin {"final", "mark", "request"}
  BY <1>1, <1>3, DueIsActive DEF YieldInv
<1>9. ~Committed'
  BY <1>1, <1>2, <1>3, CommittedIsActive DEF Committed, Resting, Planned, Ripe
<1> QED
  BY <1>5, <1>6, <1>7, <1>8, <1>9 DEF YieldInv, SchedPart, SchedAlone, AutoAlone

LEMMA RequestsYield ==
    ASSUME Changes = {}, IInv, NoticeInv, YieldInv, Administrator \/ Queries
    PROVE  YieldInv'
<1>1. \/ \E action \in OtherActions : OtherOperation(action)
      \/ Queries
  BY DEF Administrator, SetMod, SetAuto, SetSched, EnsureSettings, YieldInv, SchedSteady
<1>2. CASE \E action \in OtherActions : OtherOperation(action)
  BY <1>2, StillYields DEF OtherOperation, Requests, adminVars
<1>3. CASE SignalDetection \/ \E found \in SUBSET Products : VersionQuery(found)
  BY <1>3, StillYields DEF SignalDetection, VersionQuery, serverVars
<1> QED
  BY <1>1, <1>2, <1>3, DetectYields DEF Queries

LEMMA TickYields ==
    ASSUME IInv, YieldInv, Tick
    PROVE  YieldInv'
<1> USE DEF IInv
<1>1. /\ loop' = loop /\ \A j \in Kinds : Resting(j)
      /\ running' = running /\ ~ensuring' /\ "sched" \in Kinds
  BY KindSet DEF Tick, AllRest, serverVars, adminVars
<1>2. \A j \in Kinds : told'[j] = {<<n[1] - 1, n[2]>> :
                                       n \in {m \in told[j] : m[1] > -(Late + 1)}}
  BY DEF Tick
<1>3. ASSUME NEW j \in Kinds, NEW m \in told[j]
      PROVE  m[1] \in Int
  <2>1. m \in Lefts \X (0 .. Last)
    BY DEF PlansOK
  <2> QED
    BY <2>1, Times
<1>4. ASSUME NEW j \in Kinds
      PROVE  Resting(j)' /\ InTime(j)'
  <2>1. Resting(j)' /\ ~At(j, "notice")'
    BY <1>1 DEF Resting, At
  <2>2. \A m \in told'[j] : m[1] <= Lead
    <3>1. ASSUME NEW n \in told[j]
          PROVE  n[1] - 1 <= Lead
      BY <1>3, <3>1, TimeAssumption DEF YieldInv, InTime
    <3> QED
      BY <1>2, <3>1
  <2> QED
    BY <2>1, <2>2 DEF InTime
<1> DEFINE s == plan["sched"]
<1>5. s \in Plan /\ plan'["sched"] = Later(s) /\ s.policy = "scheduled"
  BY <1>1 DEF Tick, PlansOK, YieldInv, SchedSteady
<1>6. Later(s).policy = "scheduled" /\ Later(s).pid = s.pid
  BY <1>5 DEF Later, Plan
<1>7. SchedTold'
  <2>1. SUFFICES ASSUME told'["sched"] # {}
                 PROVE  /\ running /\ s.pid = "this"
                        /\ \A m \in told'["sched"] : m[1] <= Later(s).left
    BY <1>1, <1>5, <1>6 DEF SchedTold
  <2>2. PICK n \in told["sched"] : n[1] > -(Late + 1)
    BY <1>1, <1>2, <2>1
  <2>3. running /\ s.pid = "this" /\ \A m \in told["sched"] : m[1] <= s.left
    BY <2>2 DEF YieldInv, SchedTold
  <2>4. s.left \in Int /\ Late \in Nat
    BY <1>1, PlanTimes, TimeAssumption
  <2>5. s.left # -(Late + 1)
    BY <1>1, <1>3, <2>2, <2>3, <2>4
  <2>6. Later(s).left = s.left - 1
    BY <1>5, <2>3, <2>5, OwnIsPlanned DEF Later, Plan, Planned
  <2>7. ASSUME NEW m \in told["sched"]
        PROVE  m[1] - 1 <= Later(s).left
    BY <1>1, <1>3, <2>3, <2>4, <2>6, <2>7
  <2> QED
    BY <1>1, <1>2, <2>3, <2>7
<1>8. Seen("sched")'.policy = "scheduled"
  BY <1>1 DEF YieldInv, SchedSteady, Seen
<1> QED
  BY <1>1, <1>4, <1>5, <1>6, <1>7, <1>8, RestYields

LEMMA EnvironmentYields ==
    ASSUME IInv, YieldInv, Environment
    PROVE  YieldInv'
<1> USE DEF IInv
<1>0. "auto" \in Kinds /\ "sched" \in Kinds /\ ~ensuring /\ plan["sched"].policy = "scheduled"
      /\ Seen("sched").policy = "scheduled"
  BY KindSet DEF YieldInv, SchedSteady
<1>1. CASE ProcessStarts
  <2>1. /\ loop' = loop /\ told' = told /\ ~ensuring' /\ ~running
        /\ \A j \in Kinds : Resting(j)
    BY <1>0, <1>1 DEF ProcessStarts, AllRest, adminVars
  <2>2. \A j \in Kinds : Resting(j)' /\ InTime(j)'
    BY <2>1 DEF YieldInv, InTime, Resting, At
  <2>3. SchedTold'
    BY <2>1 DEF YieldInv, SchedTold
  <2>4. plan'["sched"].policy = "scheduled"
    <3>1. plan["sched"] \in Plan
      BY <1>0 DEF PlansOK
    <3>2. plan'["sched"] \in {NoPlan, [plan["sched"] EXCEPT !.pid = "earlier"]}
      BY <1>0, <1>1 DEF ProcessStarts
    <3> QED
      BY <1>0, <3>1, <3>2, IdleFields DEF Plan
  <2> QED
    BY <1>0, <2>1, <2>2, <2>3, <2>4, RestYields DEF Seen
<1>2. CASE ProcessExits
  <2>1. UNCHANGED <<plan, loop, ensuring>> /\ ~running' /\ \A j \in Kinds : told'[j] = {}
    BY <1>2 DEF ProcessExits, adminVars
  <2>2. \A j \in Kinds : InTime(j)'
    BY <2>1 DEF YieldInv, InTime, At, Seen
  <2>3. SchedSteady' /\ SchedTold' /\ AutoSteady' /\ DueSched' /\ SchedAlone'
    BY <1>0, <2>1 DEF YieldInv, SchedSteady, SchedTold, AutoSteady, DueSched, SchedAlone, At,
       Seen, Resting, Planned, Active
  <2>4. AutoAlone'
    BY <1>0, <2>1 DEF YieldInv, AutoAlone, Committed, Active, Planned, Resting
  <2> QED
    BY <2>2, <2>3, <2>4 DEF YieldInv
<1>3. CASE ManagerRestarts
  <2>1. told' = told /\ running' = running /\ ~ensuring'
    BY <1>3 DEF ManagerRestarts, KeepPlans, ReplacePlan
  <2>2. plan'["sched"] = plan["sched"]
    <3>1. KeepPlans \/ \E new : ReplacePlan("mod", new)
      BY <1>3 DEF ManagerRestarts
    <3> QED
      BY <3>1, KindSet, PlansLeft
  <2>3. \A j \in Kinds : loop'[j] = IdleLoop("timer")
    BY <1>3 DEF ManagerRestarts
  <2>4. \A j \in Kinds : Resting(j)' /\ InTime(j)'
    BY <2>1, <2>3, IdleFields DEF YieldInv, InTime, Resting, At
  <2>5. SchedTold'
    BY <2>1, <2>2 DEF YieldInv, SchedTold
  <2> QED
    BY <1>0, <2>1, <2>2, <2>3, <2>4, <2>5, IdleFields, RestYields DEF Seen
<1>4. CASE UNCHANGED <<plan, loop, told, running, ensuring>>
  BY <1>4, StillYields
<1> QED
  BY <1>1, <1>2, <1>3, <1>4, TickYields DEF Environment, OperationEnds, UpdateEnds,
                                            WebRestarts, PlayersChange, adminVars, loopVars

\* The loops read each other's plans and share no lock, yet none of them acts on
\* what it read too long ago: a schedule that is due stops the automatic update from
\* looking, an automatic update that is due makes the schedule move, and updates of
\* the mods are looked for while neither is under way.  The settings are taken to
\* stay as they are: RequestAuto reads nothing again, and a change of the settings
\* between the final notice and the request goes unseen (processScheduledServerRestart,
\* processAutomaticUpdates, recordSuccessfulModRefreshLocked).
THEOREM AnnouncedRestartsAreAwaited ==
    ASSUME Changes = {}
    PROVE  Spec => YieldsToAnnounced
<1>1. Init => YieldInv
  <2> SUFFICES ASSUME Init
               PROVE  YieldInv
    OBVIOUS
  <2>1. /\ \A k \in Kinds : told[k] = {} /\ plan[k] = NoPlan /\ loop[k] = IdleLoop("timer")
        /\ ~ensuring
    BY DEF Init
  <2>2. \A k \in Kinds : Resting(k) /\ InTime(k)
    BY <2>1, IdleFields DEF Resting, InTime, At
  <2>3. /\ loop["sched"].pc = "timer" /\ loop["auto"].pc = "timer"
        /\ plan["sched"].policy = "scheduled" /\ Seen("sched").policy = "scheduled"
    BY <2>1, KindSet, IdleFields DEF Seen
  <2> QED
    BY <2>1, <2>2, <2>3, KindSet
       DEF YieldInv, SchedSteady, SchedTold, AutoSteady, DueSched, SchedAlone, AutoAlone,
           Resting, Committed, Acting, At
<1>2. IInv /\ NoticeInv /\ YieldInv /\ [Next]_vars => YieldInv'
  <2> SUFFICES ASSUME IInv, NoticeInv, YieldInv, [Next]_vars
               PROVE  YieldInv'
    OBVIOUS
  <2>1. CASE UNCHANGED vars
    BY <2>1, StillYields DEF vars, serverVars, adminVars, loopVars
  <2> QED
    BY <2>1, LoopsYield, RequestsYield, EnvironmentYields DEF Next
<1>3. Spec => [](IInv /\ OwnInv /\ NoticeInv /\ YieldInv)
  BY <1>1, <1>2, NoticeInvariance, PTL DEF Spec
<1>4. ASSUME IInv, NoticeInv, YieldInv, NEW k \in {"auto", "sched"}, NEW j \in Kinds,
             Accepts(k), j # k, Planned(j), plan[j].pid = "this"
      PROVE  ToldFor(j, plan[j].left) = {}
  <2>1. CASE ~Active(j)
    BY <1>4, <2>1, InactiveIsUntold DEF YieldInv, Untold, ToldFor
  <2>2. CASE Active(j)
    <3>1. CASE k = "sched"
      BY <1>4, <2>2, <3>1 DEF YieldInv, SchedAlone, Accepts, Kinds
    <3>2. CASE k = "auto"
      <4>1. Committed
        BY <1>4, <3>2, OwnIsPlanned
           DEF YieldInv, AutoSteady, Accepts, Committed, Resting, Ripe, Acting
      <4> QED
        BY <1>4, <2>2, <3>2, <4>1 DEF YieldInv, AutoAlone, Kinds, ToldFor
    <3> QED
      BY <3>1, <3>2
  <2> QED
    BY <2>1, <2>2
<1>5. IInv /\ NoticeInv /\ YieldInv =>
          \A k \in {"auto", "sched"}, j \in Kinds :
             Accepts(k) /\ j # k /\ Planned(j) /\ plan[j].pid = "this" =>
                 ToldFor(j, plan[j].left) = {}
  BY <1>4
<1> QED
  BY <1>3, <1>5, PTL DEF YieldsToAnnounced

=============================================================================
