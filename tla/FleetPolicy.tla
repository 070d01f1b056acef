---------------------------- MODULE FleetPolicy ----------------------------
(***************************************************************************)
(* How the policy a controller has for a managed server reaches it         *)
(* (fleet.go, fleet_http.go, fleet_transport.go).  The controller's        *)
(* supervisor keeps one worker per peer; a worker greets the peer, posts   *)
(* its policy and reads its feed.  A change of the peer's entry cancels    *)
(* the worker and starts another one without waiting for the first, whose  *)
(* post may still be on its way.                                           *)
(*                                                                         *)
(* Peers share nothing but the settings file, so this is the part of the   *)
(* state that concerns one of them.  A policy stands for the whole entry   *)
(* of the peer: the supervisor compares all of it.                         *)
(***************************************************************************)
EXTENDS Integers, FiniteSets

CONSTANTS
    Policies, AllOff,   \* AllOff: the policy of a peer that was just added
    Workers             \* bound: workers that run at a time

ASSUME PolicyAssumption == AllOff \in Policies /\ "absent" \notin Policies
ASSUME WorkerAssumption == "none" \notin Workers

VARIABLES
    entry,      \* the peer in the controller's settings: a policy or "absent"
    role,       \* is it a controller now?
    worker,     \* the supervisor's entry for the peer: [id, signature] or NoWorker
    pc,         \* [Workers -> where a worker is, "none" if it does not run]
    sees,       \* [Workers -> the policy it has read and not posted]
    cancelled,  \* workers whose context is cancelled
    posts,      \* policies under way: [by, policy]
    local,      \* LocalSync of the managed server
    paired,     \* is that server managed, with this controller?
    status,     \* what the controller shows of the peer: "none", "up" or "down"
    foreign,    \* history: local was last set by other than the present worker
    missed      \* history: two changes before the supervisor looked

work == <<pc, sees, cancelled>>
vars == <<entry, role, worker, work, posts, local, paired, status, foreign, missed>>

NoWorker == [id |-> "none", signature |-> "none"]
Running(w) == pc[w] # "none"

\* fleetPeer
Peer == IF role THEN entry ELSE "absent"

\* Mutant: a worker stays as long as its peer does.
OutOfDateIfGone == worker # NoWorker /\ Peer = "absent"

\* Is the present worker not the one for the peer's entry?
OutOfDate == worker # NoWorker /\ worker.signature # Peer

\* The listener of the peer runs for its controller, and answers no other.
Serves == paired

\* There is something for the supervisor to do.
Due == OutOfDate \/ (worker = NoWorker /\ Peer # "absent")

\* A new worker must not be mistaken for one with a post under way.
Free == {w \in Workers : ~Running(w) /\ w # worker.id /\ \A p \in posts : p.by # w}

-----------------------------------------------------------------------------
(* Settings *)

\* saveFleetSettings forgets the status of what is no peer any more.
Save(e, r) ==
    /\ entry' = e /\ role' = r
    /\ status' = IF r /\ e # "absent" THEN status ELSE "none"
    /\ missed' = (missed \/ Due)
    /\ UNCHANGED <<worker, work, posts, local, paired, foreign>>

AddPeer == role /\ entry = "absent" /\ Save(AllOff, role)
RemovePeer == role /\ entry # "absent" /\ Save("absent", role)
SetPolicy == role /\ entry # "absent" /\ \E p \in Policies \ {entry} : Save(p, role)

\* Another role keeps the peers for a later return.
SwitchRole == Save(entry, ~role)

\* The managed server: its pairing, and its own change of its policy.
Pair ==
    /\ paired' = ~paired
    /\ UNCHANGED <<entry, role, worker, work, posts, local, status, foreign, missed>>

SetLocal ==
    /\ \E p \in Policies \ {local} : local' = p
    /\ foreign' = TRUE
    /\ UNCHANGED <<entry, role, worker, work, posts, paired, status, missed>>

-----------------------------------------------------------------------------
(* fleetSupervisorLoop *)

\* Mutant: a worker that is replaced goes on.
StopRemovedOnly ==
    cancelled \cup {w \in Workers : Peer = "absent" /\ w = worker.id /\ Running(w)}

Stop == cancelled \cup {w \in Workers : OutOfDate /\ w = worker.id /\ Running(w)}

Reconcile ==
    /\ Due
    /\ IF Peer = "absent"
       THEN worker' = NoWorker /\ cancelled' = Stop /\ UNCHANGED pc
       ELSE \E w \in Free :
                /\ worker' = [id |-> w, signature |-> Peer]
                /\ pc' = [pc EXCEPT ![w] = "read"]
                /\ cancelled' = Stop
    /\ missed' = FALSE
    /\ UNCHANGED <<entry, role, sees, posts, local, paired, status, foreign>>

-----------------------------------------------------------------------------
(* fleetPeerWorker *)

Goes(w, from, to) == pc[w] = from /\ pc' = [pc EXCEPT ![w] = to]

\* The worker of a peer that is gone returns.
ReadPeer(w) ==
    /\ Goes(w, "read", IF Peer = "absent" THEN "none" ELSE "hello")
    /\ IF Peer = "absent" THEN cancelled' = cancelled \ {w} /\ UNCHANGED sees
                          ELSE sees' = [sees EXCEPT ![w] = Peer] /\ UNCHANGED cancelled
    /\ UNCHANGED <<entry, role, worker, posts, local, paired, status, foreign, missed>>

\* The peer answers and the policy is posted.
Hello(w) ==
    /\ w \notin cancelled /\ Serves
    /\ Goes(w, "hello", "post")
    /\ posts' = posts \cup {[by |-> w, policy |-> sees[w]]}
    /\ sees' = [sees EXCEPT ![w] = AllOff]
    /\ UNCHANGED <<entry, role, worker, cancelled, local, paired, status, foreign, missed>>

HelloFails(w) ==
    /\ Goes(w, "hello", "failed")
    /\ sees' = [sees EXCEPT ![w] = AllOff]
    /\ UNCHANGED <<entry, role, worker, cancelled, posts, local, paired, status, foreign, missed>>

\* fleetInternalPolicyHandler, and its answer if somebody waits for it.
Handle ==
    \E p \in posts :
        /\ posts' = posts \ {p}
        /\ IF Serves THEN /\ local' = p.policy
                          /\ foreign' = (p.by # worker.id)
                     ELSE UNCHANGED <<local, foreign>>
        /\ pc' = IF pc[p.by] = "post"
                 THEN [pc EXCEPT ![p.by] = IF Serves THEN "answered" ELSE "failed"] ELSE pc
        /\ UNCHANGED <<entry, role, worker, sees, cancelled, paired, status, missed>>

\* The post, or the settings file of the peer, fails.
Lost ==
    \E p \in posts :
        /\ posts' = posts \ {p}
        /\ pc' = IF pc[p.by] = "post" THEN [pc EXCEPT ![p.by] = "failed"] ELSE pc
        /\ UNCHANGED <<entry, role, worker, sees, cancelled, local, paired, status, foreign, missed>>

\* Eight seconds are over, or the context is cancelled.
GiveUp(w) ==
    /\ Goes(w, "post", "failed")
    /\ UNCHANGED <<entry, role, worker, sees, cancelled, posts, local, paired, status, foreign, missed>>

\* A cancelled worker returns when it looks at its context.
GoesOnOrEnds(w, from, to) ==
    /\ Goes(w, from, IF w \in cancelled THEN "none" ELSE to)
    /\ cancelled' = cancelled \ {w}

Context(w) ==
    /\ GoesOnOrEnds(w, "answered", "up") \/ GoesOnOrEnds(w, "failed", "down")
    /\ UNCHANGED <<entry, role, worker, sees, posts, local, paired, status, foreign, missed>>

\* Mutant: the status of a peer that is gone is noted.
StatusOfAny(new) == new

\* updateFleetStatus
StatusOf(new) == IF Peer = "absent" THEN status ELSE new

Report(w) ==
    /\ Goes(w, "up", "feed") \/ Goes(w, "down", "wait")
    /\ status' = StatusOf(pc[w])
    /\ UNCHANGED <<entry, role, worker, sees, cancelled, posts, local, paired, foreign, missed>>

\* consumeFleetPeerFeed: any event or heartbeat shows the peer connected.
Beat(w) ==
    /\ pc[w] = "feed"
    /\ status' = StatusOf("up")
    /\ UNCHANGED <<entry, role, worker, work, posts, local, paired, foreign, missed>>

\* A stream that ends in good order is no error and nothing is reported.
FeedEnds(w) ==
    /\ Goes(w, "feed", "wait") \/ (w \notin cancelled /\ Goes(w, "feed", "down"))
    /\ UNCHANGED <<entry, role, worker, sees, cancelled, posts, local, paired, status, foreign, missed>>

Backoff(w) ==
    /\ GoesOnOrEnds(w, "wait", "read")
    /\ UNCHANGED <<entry, role, worker, sees, posts, local, paired, status, foreign, missed>>

\* The controller's manager starts again.
Restart ==
    /\ worker' = NoWorker
    /\ pc' = [w \in Workers |-> "none"] /\ cancelled' = {}
    /\ sees' = [w \in Workers |-> AllOff]
    /\ status' = "none"
    /\ UNCHANGED <<entry, role, posts, local, paired, foreign, missed>>

-----------------------------------------------------------------------------

Init ==
    /\ entry = "absent" /\ role = TRUE
    /\ worker = NoWorker
    /\ pc = [w \in Workers |-> "none"] /\ sees = [w \in Workers |-> AllOff]
    /\ cancelled = {} /\ posts = {}
    /\ local = AllOff /\ paired \in BOOLEAN
    /\ status = "none" /\ foreign = FALSE /\ missed = FALSE

Settings == AddPeer \/ RemovePeer \/ SetPolicy \/ SwitchRole \/ Pair \/ SetLocal

WorkerStep(w) ==
    \/ ReadPeer(w) \/ Hello(w) \/ HelloFails(w) \/ GiveUp(w) \/ Context(w)
    \/ Report(w) \/ Beat(w) \/ FeedEnds(w) \/ Backoff(w)

Undisturbed == Reconcile \/ Handle \/ Lost \/ \E w \in Workers : WorkerStep(w)

Next == Undisturbed \/ Settings \/ Restart

\* The loops run; a cancelled request ends; of many attempts to greet a
\* paired peer and to post to it, one succeeds.
Fairness ==
    /\ WF_vars(Reconcile) /\ WF_vars(Handle \/ Lost) /\ SF_vars(Handle)
    /\ \A w \in Workers :
           /\ WF_vars(ReadPeer(w)) /\ WF_vars(Context(w)) /\ WF_vars(Report(w))
           /\ WF_vars(Backoff(w)) /\ WF_vars(GiveUp(w)) /\ WF_vars(HelloFails(w))
           /\ SF_vars(Hello(w)) /\ WF_vars(w \in cancelled /\ FeedEnds(w))

Spec == Init /\ [][Next]_vars /\ Fairness

-----------------------------------------------------------------------------
(* Properties *)

Steps == {"none", "read", "hello", "post", "answered", "failed", "up", "down", "feed", "wait"}

\* Every variable has its type.
TypeOK ==
    /\ entry \in Policies \cup {"absent"} /\ role \in BOOLEAN
    /\ worker = NoWorker \/ worker \in [id : Workers, signature : Policies]
    /\ pc \in [Workers -> Steps] /\ sees \in [Workers -> Policies]
    /\ cancelled \subseteq Workers
    /\ posts \subseteq [by : Workers, policy : Policies]
    /\ local \in Policies /\ paired \in BOOLEAN
    /\ status \in {"none", "up", "down"} /\ {foreign, missed} \subseteq BOOLEAN

\* The supervisor knows the one worker it has not told to stop: two that go on
\* would post different policies and read the feed twice, for ever.
OneWorker == \A w \in Workers : Running(w) /\ w \notin cancelled => w = worker.id

\* A peer that is shown as connected is one, and there is a worker to correct
\* that, or will be: a worker that was replaced, and reports late, may tell of
\* a connection that is no more.
StatusIsWatched ==
    status = "up" /\ ~missed => Peer # "absent" /\ (worker = NoWorker \/ OutOfDate \/ Running(worker.id))

\* The policy of a peer arrives and stays, though workers are replaced while
\* they post, posts are lost or late and the controller restarts: unless an
\* old post or an administrator of the peer has the last word, or the entry
\* changed twice before the supervisor looked, which may leave its worker with
\* the policy in between, or without one if the peer was gone for that moment.
PolicyArrives ==
    \A p \in Policies :
        <>[](Peer = p /\ paired /\ ~foreign /\ ~missed) /\ <>[][~Restart]_vars
            => <>[](local = p)

=============================================================================
