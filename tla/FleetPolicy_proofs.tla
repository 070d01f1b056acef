-------------------------- MODULE FleetPolicy_proofs --------------------------
(***************************************************************************)
(* Proofs about FleetPolicy, for any policies, any number of workers at a  *)
(* time and any number of changes.                                         *)
(***************************************************************************)
EXTENDS FleetPolicy, TLAPS

\* A worker that is told to stop runs, and is not the supervisor's.
CancelledInv ==
    /\ \A w \in cancelled : Running(w)
    /\ worker # NoWorker => worker.id \notin cancelled

\* Nothing is shown of a peer that is none.
StatusInv == Peer = "absent" => status = "none"

\* The supervisor's worker runs, or there is something to do for the supervisor.
WatchInv == ~missed => worker = NoWorker \/ OutOfDate \/ Running(worker.id)

IInv == TypeOK /\ OneWorker /\ CancelledInv /\ StatusInv /\ WatchInv

-----------------------------------------------------------------------------

LEMMA InitIInv == Init => IInv
<1> SUFFICES ASSUME Init PROVE IInv
  OBVIOUS
<1>1. TypeOK
  BY PolicyAssumption DEF Init, TypeOK, Steps
<1>2. \A w \in Workers : ~Running(w)
  BY DEF Init, Running
<1> QED
  BY <1>1, <1>2 DEF Init, IInv, OneWorker, CancelledInv, StatusInv, WatchInv

\* The worker of the supervisor has a name and an entry of the peer.
LEMMA WorkerTypes ==
    ASSUME TypeOK
    PROVE  /\ worker # NoWorker => worker.id \in Workers /\ worker.signature \in Policies
           /\ worker.id \in Workers => worker # NoWorker
           /\ Peer \in Policies \cup {"absent"}
<1>1. worker.id \in Workers => worker # NoWorker
  BY WorkerAssumption DEF NoWorker
<1> QED
  BY <1>1 DEF TypeOK, Peer

\* A worker whose peer is gone has been noticed, or will be.
LEMMA GoneIsDue ==
    ASSUME TypeOK, Peer = "absent", worker # NoWorker
    PROVE  OutOfDate
BY WorkerTypes, PolicyAssumption DEF OutOfDate

-----------------------------------------------------------------------------
(* Settings and the supervisor *)

LEMMA SaveKeeps ==
    ASSUME IInv, NEW e \in Policies \cup {"absent"}, NEW r \in BOOLEAN, Save(e, r)
    PROVE  IInv'
<1>1. /\ entry' = e /\ role' = r /\ missed' = (missed \/ Due)
      /\ status' = IF r /\ e # "absent" THEN status ELSE "none"
      /\ UNCHANGED <<worker, pc, sees, cancelled, posts, local, paired, foreign>>
  BY DEF Save, work
<1>2. TypeOK /\ OneWorker /\ CancelledInv /\ WatchInv
  BY DEF IInv
<1>3. Due \in BOOLEAN
  BY DEF Due
<1>4. TypeOK'
  BY <1>1, <1>2, <1>3 DEF TypeOK
<1>5. OneWorker' /\ CancelledInv'
  BY <1>1, <1>2 DEF OneWorker, CancelledInv, Running
<1>6. StatusInv'
  BY <1>1 DEF StatusInv, Peer
<1>7. WatchInv'
  BY <1>1, <1>2 DEF WatchInv, Due, Running
<1> QED
  BY <1>4, <1>5, <1>6, <1>7 DEF IInv

LEMMA SettingsKeep == ASSUME IInv, Settings PROVE IInv'
<1>1. TypeOK /\ OneWorker /\ CancelledInv /\ StatusInv /\ WatchInv
  BY DEF IInv
<1>2. role \in BOOLEAN /\ entry \in Policies \cup {"absent"}
  BY <1>1 DEF TypeOK
<1>3. CASE AddPeer
  BY <1>2, <1>3, SaveKeeps, PolicyAssumption DEF AddPeer
<1>4. CASE RemovePeer
  BY <1>2, <1>4, SaveKeeps DEF RemovePeer
<1>5. CASE SetPolicy
  BY <1>2, <1>5, SaveKeeps DEF SetPolicy
<1>6. CASE SwitchRole
  <2>1. (~role) \in BOOLEAN
    OBVIOUS
  <2> QED
    BY <1>2, <1>6, <2>1, SaveKeeps DEF SwitchRole
<1>7. ASSUME UNCHANGED <<entry, role, worker, work, posts, status, missed>>,
             local' \in Policies, paired' \in BOOLEAN, foreign' \in BOOLEAN
      PROVE  IInv'
  BY <1>1, <1>7 DEF IInv, work, TypeOK, OneWorker, CancelledInv, StatusInv, WatchInv,
                    Running, OutOfDate, Peer
<1>8. CASE Pair
  BY <1>1, <1>7, <1>8 DEF Pair, TypeOK
<1>9. CASE SetLocal
  BY <1>1, <1>7, <1>9 DEF SetLocal, TypeOK
<1> QED
  BY <1>3, <1>4, <1>5, <1>6, <1>8, <1>9 DEF Settings

LEMMA ReconcileKeeps == ASSUME IInv, Reconcile PROVE IInv'
<1>1. TypeOK /\ OneWorker /\ CancelledInv /\ StatusInv
  BY DEF IInv
<1>2. UNCHANGED <<entry, role, sees, posts, local, paired, status, foreign>> /\ missed' = FALSE
  BY DEF Reconcile
<1>3. UNCHANGED Peer
  BY <1>2 DEF Peer
<1>4. StatusInv'
  BY <1>1, <1>2, <1>3 DEF StatusInv
<1>5. cancelled' = Stop /\ Stop \subseteq Workers
  BY <1>1 DEF Reconcile, Stop, TypeOK
<1>6. worker = NoWorker \/ OutOfDate
  BY DEF Reconcile, Due
<1>7. \A w \in Workers : Running(w) => w \in Stop
  BY <1>1, <1>6, WorkerTypes DEF Stop, OneWorker
<1>8. \A w \in Stop : Running(w)
  BY <1>1 DEF Stop, CancelledInv
<1>9. CASE Peer = "absent"
  <2>1. worker' = NoWorker /\ UNCHANGED pc
    BY <1>9 DEF Reconcile
  <2>2. TypeOK'
    BY <1>1, <1>2, <1>5, <2>1 DEF TypeOK
  <2>3. OneWorker'
    BY <1>5, <1>7, <2>1 DEF OneWorker, Running
  <2>4. CancelledInv' /\ WatchInv'
    BY <1>5, <1>8, <2>1 DEF CancelledInv, WatchInv, Running
  <2> QED
    BY <1>4, <2>2, <2>3, <2>4 DEF IInv
<1>10. CASE Peer # "absent"
  <2>1. PICK w \in Free : /\ worker' = [id |-> w, signature |-> Peer]
                          /\ pc' = [pc EXCEPT ![w] = "read"]
    BY <1>10 DEF Reconcile
  <2>2. w \in Workers /\ ~Running(w) /\ w \notin Stop
    BY <1>8 DEF Free
  <2>3. Peer \in Policies
    BY <1>1, <1>10, WorkerTypes
  <2>4. pc' \in [Workers -> Steps] /\ pc'[w] = "read" /\ \A v \in Workers \ {w} : pc'[v] = pc[v]
    BY <1>1, <2>1, <2>2 DEF TypeOK, Steps
  <2>5. worker'.id = w /\ worker' \in [id : Workers, signature : Policies]
    BY <2>1, <2>2, <2>3
  <2>6. TypeOK'
    BY <1>1, <1>2, <1>5, <2>4, <2>5 DEF TypeOK
  <2>7. OneWorker'
    BY <1>5, <1>7, <2>4, <2>5 DEF OneWorker, Running
  <2>8. CancelledInv'
    BY <1>5, <1>8, <2>2, <2>4, <2>5 DEF CancelledInv, Running
  <2>9. WatchInv'
    BY <2>2, <2>4, <2>5 DEF WatchInv, Running
  <2> QED
    BY <1>4, <2>6, <2>7, <2>8, <2>9 DEF IInv
<1> QED
  BY <1>9, <1>10

-----------------------------------------------------------------------------
(* The workers *)

\* What a step that leaves the settings and the supervisor alone may do to the
\* workers: one that goes on stays told to stop, and one that ends was told so or
\* has no peer any more.
WorkersGo ==
    /\ UNCHANGED <<entry, role, worker, missed>>
    /\ pc' \in [Workers -> Steps] /\ sees' \in [Workers -> Policies]
    /\ posts' \subseteq [by : Workers, policy : Policies]
    /\ local' \in Policies /\ paired' \in BOOLEAN /\ foreign' \in BOOLEAN
    /\ status' \in {status, StatusOf("up"), StatusOf("down")}
    /\ cancelled' \subseteq cancelled
    /\ \A w \in Workers :
           IF pc'[w] = "none" THEN w \notin cancelled' /\ (Running(w) => w \in cancelled \/ Peer = "absent")
           ELSE Running(w) /\ (w \in cancelled => w \in cancelled')

LEMMA WorkersGoKeeps == ASSUME IInv, WorkersGo PROVE IInv'
<1>1. TypeOK /\ OneWorker /\ CancelledInv /\ StatusInv /\ WatchInv
  BY DEF IInv
<1>2. UNCHANGED <<entry, role, worker, missed>> /\ cancelled' \subseteq cancelled
  BY DEF WorkersGo
<1>3. UNCHANGED <<Peer, OutOfDate>>
  BY <1>2 DEF Peer, OutOfDate
<1>4. TypeOK'
  BY <1>1, <1>2 DEF WorkersGo, TypeOK, StatusOf
<1>5. OneWorker'
  BY <1>1, <1>2 DEF WorkersGo, OneWorker, Running
<1>6. CancelledInv'
  BY <1>1, <1>2 DEF WorkersGo, CancelledInv, Running, TypeOK
<1>7. StatusInv'
  BY <1>1, <1>3 DEF WorkersGo, StatusInv, StatusOf
<1>8. WatchInv'
  <2> SUFFICES ASSUME ~missed, worker # NoWorker, ~OutOfDate PROVE Running(worker.id)'
    BY <1>2, <1>3 DEF WatchInv
  <2>1. Running(worker.id) /\ worker.id \in Workers /\ worker.id \notin cancelled
    BY <1>1, WorkerTypes DEF WatchInv, CancelledInv
  <2>2. Peer # "absent"
    BY <1>1, GoneIsDue
  <2> QED
    BY <1>2, <2>1, <2>2 DEF WorkersGo, Running
<1> QED
  BY <1>4, <1>5, <1>6, <1>7, <1>8 DEF IInv

\* One worker goes on, and nothing else happens but to posts, local and status.
LEMMA OneGoes ==
    ASSUME IInv, NEW w \in Workers, NEW to \in Steps \ {"none"}, Running(w),
           pc' = [pc EXCEPT ![w] = to],
           UNCHANGED <<entry, role, worker, missed, cancelled, paired>>,
           sees' \in [Workers -> Policies],
           posts' \subseteq [by : Workers, policy : Policies],
           local' \in Policies, foreign' \in BOOLEAN,
           status' \in {status, StatusOf("up"), StatusOf("down")}
    PROVE  WorkersGo
<1>1. TypeOK /\ CancelledInv
  BY DEF IInv
<1>2. pc' \in [Workers -> Steps] /\ pc'[w] = to /\ \A v \in Workers \ {w} : pc'[v] = pc[v]
  BY <1>1 DEF TypeOK
<1> QED
  BY <1>1, <1>2 DEF WorkersGo, CancelledInv, Running, TypeOK

\* One worker ends.
LEMMA OneEnds ==
    ASSUME IInv, NEW w \in Workers, Running(w), w \in cancelled \/ Peer = "absent",
           pc' = [pc EXCEPT ![w] = "none"], cancelled' = cancelled \ {w},
           UNCHANGED <<entry, role, worker, missed, sees, posts, local, paired, foreign, status>>
    PROVE  WorkersGo
<1>1. TypeOK /\ CancelledInv
  BY DEF IInv
<1>2. pc' \in [Workers -> Steps] /\ pc'[w] = "none" /\ \A v \in Workers \ {w} : pc'[v] = pc[v]
  BY <1>1 DEF TypeOK, Steps
<1> QED
  BY <1>1, <1>2 DEF WorkersGo, CancelledInv, Running, TypeOK

\* Nobody goes on.
LEMMA NobodyGoes ==
    ASSUME IInv, UNCHANGED <<entry, role, worker, missed, pc, sees, cancelled, paired>>,
           posts' \subseteq [by : Workers, policy : Policies],
           local' \in Policies, foreign' \in BOOLEAN,
           status' \in {status, StatusOf("up"), StatusOf("down")}
    PROVE  WorkersGo
<1>1. TypeOK /\ CancelledInv
  BY DEF IInv
<1> QED
  BY <1>1 DEF WorkersGo, CancelledInv, Running, TypeOK

\* A worker that looks at its context goes on or ends.
LEMMA ContextGoes ==
    ASSUME IInv, NEW w \in Workers, NEW from \in Steps \ {"none"}, NEW to \in Steps \ {"none"},
           GoesOnOrEnds(w, from, to),
           UNCHANGED <<entry, role, worker, missed, sees, posts, local, paired, foreign, status>>
    PROVE  WorkersGo
<1>1. TypeOK
  BY DEF IInv
<1>2. Running(w) /\ cancelled' = cancelled \ {w}
      /\ pc' = [pc EXCEPT ![w] = IF w \in cancelled THEN "none" ELSE to]
  BY DEF GoesOnOrEnds, Goes, Running
<1>3. CASE w \in cancelled
  BY <1>2, <1>3, OneEnds
<1>4. CASE w \notin cancelled
  <2>1. UNCHANGED cancelled /\ pc' = [pc EXCEPT ![w] = to]
    BY <1>2, <1>4
  <2> QED
    BY <1>1, <1>2, <2>1, OneGoes DEF TypeOK
<1> QED
  BY <1>3, <1>4

LEMMA WorkerStepGoes ==
    ASSUME IInv, NEW w \in Workers, WorkerStep(w)
    PROVE  WorkersGo
<1>1. TypeOK
  BY DEF IInv
<1>2. AllOff \in Policies
  BY PolicyAssumption
<1>3. CASE ReadPeer(w)
  <2>1. CASE Peer = "absent"
    <3>1. /\ Running(w) /\ pc' = [pc EXCEPT ![w] = "none"] /\ cancelled' = cancelled \ {w}
          /\ UNCHANGED <<entry, role, worker, missed, sees, posts, local, paired, foreign, status>>
      BY <1>3, <2>1 DEF ReadPeer, Goes, Running
    <3> QED
      BY <2>1, <3>1, OneEnds
  <2>2. CASE Peer # "absent"
    <3>1. /\ Running(w) /\ pc' = [pc EXCEPT ![w] = "hello"] /\ sees' = [sees EXCEPT ![w] = Peer]
          /\ UNCHANGED <<entry, role, worker, missed, cancelled, posts, local, paired, foreign, status>>
      BY <1>3, <2>2 DEF ReadPeer, Goes, Running
    <3>2. Peer \in Policies
      BY <1>1, <2>2, WorkerTypes
    <3>3. sees' \in [Workers -> Policies] /\ "hello" \in Steps \ {"none"}
      BY <1>1, <3>1, <3>2 DEF TypeOK, Steps
    <3> QED
      BY <1>1, <3>1, <3>3, OneGoes DEF TypeOK
  <2> QED
    BY <2>1, <2>2
<1>4. CASE Hello(w)
  <2>1. /\ Running(w) /\ pc' = [pc EXCEPT ![w] = "post"] /\ sees' = [sees EXCEPT ![w] = AllOff]
        /\ posts' = posts \cup {[by |-> w, policy |-> sees[w]]}
        /\ UNCHANGED <<entry, role, worker, missed, cancelled, local, paired, foreign, status>>
    BY <1>4 DEF Hello, Goes, Running
  <2>2. sees' \in [Workers -> Policies] /\ posts' \subseteq [by : Workers, policy : Policies]
        /\ "post" \in Steps \ {"none"}
    BY <1>1, <1>2, <2>1 DEF TypeOK, Steps
  <2> QED
    BY <1>1, <2>1, <2>2, OneGoes DEF TypeOK
<1>5. CASE HelloFails(w)
  <2>1. /\ Running(w) /\ pc' = [pc EXCEPT ![w] = "failed"] /\ sees' = [sees EXCEPT ![w] = AllOff]
        /\ UNCHANGED <<entry, role, worker, missed, cancelled, posts, local, paired, foreign, status>>
    BY <1>5 DEF HelloFails, Goes, Running
  <2>2. sees' \in [Workers -> Policies] /\ "failed" \in Steps \ {"none"}
    BY <1>1, <1>2, <2>1 DEF TypeOK, Steps
  <2> QED
    BY <1>1, <2>1, <2>2, OneGoes DEF TypeOK
<1>6. CASE GiveUp(w)
  <2>1. /\ Running(w) /\ pc' = [pc EXCEPT ![w] = "failed"] /\ "failed" \in Steps \ {"none"}
        /\ UNCHANGED <<entry, role, worker, missed, cancelled, sees, posts, local, paired, foreign, status>>
    BY <1>6 DEF GiveUp, Goes, Running, Steps
  <2> QED
    BY <1>1, <2>1, OneGoes DEF TypeOK
<1>7. CASE Context(w)
  <2>1. {"answered", "up", "failed", "down"} \subseteq Steps \ {"none"}
    BY DEF Steps
  <2>2. UNCHANGED <<entry, role, worker, missed, sees, posts, local, paired, foreign, status>>
    BY <1>7 DEF Context
  <2> QED
    BY <1>7, <2>1, <2>2, ContextGoes DEF Context
<1>8. CASE Report(w)
  <2>1. /\ Running(w) /\ {"feed", "wait"} \subseteq Steps \ {"none"}
        /\ \E to \in {"feed", "wait"} : pc' = [pc EXCEPT ![w] = to]
        /\ status' \in {StatusOf("up"), StatusOf("down")}
        /\ UNCHANGED <<entry, role, worker, missed, cancelled, sees, posts, local, paired, foreign>>
    BY <1>8 DEF Report, Goes, Running, Steps
  <2> QED
    BY <1>1, <2>1, OneGoes DEF TypeOK
<1>9. CASE Beat(w)
  BY <1>1, <1>9, NobodyGoes DEF Beat, TypeOK, work
<1>10. CASE FeedEnds(w)
  <2>1. /\ Running(w) /\ {"down", "wait"} \subseteq Steps \ {"none"}
        /\ \E to \in {"down", "wait"} : pc' = [pc EXCEPT ![w] = to]
        /\ UNCHANGED <<entry, role, worker, missed, cancelled, sees, posts, local, paired, foreign, status>>
    BY <1>10 DEF FeedEnds, Goes, Running, Steps
  <2> QED
    BY <1>1, <2>1, OneGoes DEF TypeOK
<1>11. CASE Backoff(w)
  <2>1. {"wait", "read"} \subseteq Steps \ {"none"}
    BY DEF Steps
  <2> QED
    BY <1>11, <2>1, ContextGoes DEF Backoff
<1> QED
  BY <1>3, <1>4, <1>5, <1>6, <1>7, <1>8, <1>9, <1>10, <1>11 DEF WorkerStep

\* A post is handled, or lost, and its worker goes on if it still waits.
LEMMA PostGoes == ASSUME IInv, Handle \/ Lost PROVE WorkersGo
<1>1. TypeOK
  BY DEF IInv
<1>2. PICK p \in posts :
        /\ posts' = posts \ {p}
        /\ local' \in {local, p.policy} /\ foreign' \in BOOLEAN
        /\ \/ UNCHANGED pc
           \/ /\ pc[p.by] = "post"
              /\ \E to \in {"answered", "failed"} : pc' = [pc EXCEPT ![p.by] = to]
        /\ UNCHANGED <<entry, role, worker, missed, sees, cancelled, paired, status>>
  <2>1. CASE Handle
    BY <1>1, <2>1 DEF Handle, TypeOK
  <2>2. CASE Lost
    BY <1>1, <2>2 DEF Lost, TypeOK
  <2> QED
    BY <2>1, <2>2
<1>3. p.by \in Workers /\ p.policy \in Policies
  BY <1>1, <1>2 DEF TypeOK
<1>4. posts' \subseteq [by : Workers, policy : Policies] /\ local' \in Policies
  BY <1>1, <1>2, <1>3 DEF TypeOK
<1>5. {"answered", "failed"} \subseteq Steps \ {"none"}
  BY DEF Steps
<1>6. pc[p.by] = "post" => Running(p.by)
  BY DEF Running
<1>7. sees' \in [Workers -> Policies]
  BY <1>1, <1>2 DEF TypeOK
<1> QED
  BY <1>2, <1>3, <1>4, <1>5, <1>6, <1>7, OneGoes, NobodyGoes

LEMMA RestartKeeps == ASSUME IInv, Restart PROVE IInv'
<1>1. TypeOK
  BY DEF IInv
<1>2. TypeOK'
  BY <1>1, PolicyAssumption DEF Restart, TypeOK, Steps
<1> QED
  BY <1>2 DEF Restart, IInv, OneWorker, CancelledInv, StatusInv, WatchInv, Running

-----------------------------------------------------------------------------
(* The theorems *)

LEMMA Invariance == Spec => []IInv
<1>1. IInv /\ [Next]_vars => IInv'
  <2> SUFFICES ASSUME IInv, [Next]_vars PROVE IInv'
    OBVIOUS
  <2>1. CASE Settings
    BY <2>1, SettingsKeep
  <2>2. CASE Restart
    BY <2>2, RestartKeeps
  <2>3. CASE Reconcile
    BY <2>3, ReconcileKeeps
  <2>4. CASE Handle \/ Lost
    BY <2>4, PostGoes, WorkersGoKeeps
  <2>5. CASE \E w \in Workers : WorkerStep(w)
    BY <2>5, WorkerStepGoes, WorkersGoKeeps
  <2>6. CASE UNCHANGED vars
    <3>1. /\ TypeOK /\ posts' = posts /\ local' = local /\ foreign' = foreign /\ status' = status
          /\ UNCHANGED <<entry, role, worker, missed, pc, sees, cancelled, paired>>
      BY <2>6 DEF IInv, vars, work
    <3> QED
      BY <3>1, NobodyGoes, WorkersGoKeeps DEF TypeOK
  <2> QED
    BY <2>1, <2>2, <2>3, <2>4, <2>5, <2>6 DEF Next, Undisturbed
<1> QED
  BY <1>1, InitIInv, PTL DEF Spec

\* However often the entry, the role and the pairing change and the controller
\* restarts, one worker at most goes on, and it is the supervisor's, although
\* those it replaces are not joined (fleetSupervisorLoop).
THEOREM OneWorkerGoesOn == Spec => []OneWorker
<1>1. IInv => OneWorker
  BY DEF IInv
<1> QED
  BY <1>1, Invariance, PTL

\* A peer shown as connected is one, and has a worker that will tell of its end,
\* although a replaced worker may still report (updateFleetStatus).
THEOREM ConnectedIsWatched == Spec => []StatusIsWatched
<1>1. IInv => StatusIsWatched
  BY DEF IInv, StatusInv, WatchInv, StatusIsWatched
<1> QED
  BY <1>1, Invariance, PTL

=============================================================================
