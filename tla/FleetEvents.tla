---------------------------- MODULE FleetEvents ----------------------------
(***************************************************************************)
(* Chat, login and logout messages between the servers of a fleet          *)
(* (fleet_events.go and the feed and delivery of fleet_transport.go), for  *)
(* one category of event.  Managed servers feed their events to the        *)
(* controller over a stream; the controller routes each to the other       *)
(* servers through a route queue and one delivery queue per destination.   *)
(* Every queue drops what it has no room for, a stream starts empty, and a *)
(* delivery that took eight seconds is given up, though the destination    *)
(* may still be at work on it.                                             *)
(*                                                                         *)
(* An event is a number: what makes its identifier unique is the node, the *)
(* start of its manager and a sequence number.  Bounds: MaxEvents events,  *)
(* and none is older than the ten minutes a node remembers it for.  A      *)
(* delivery queue serves one destination; the code has 16 queues and a     *)
(* hash, and two destinations in one queue wait for each other only.  The  *)
(* controller keeps its role: no node of the fleet becomes another one.    *)
(***************************************************************************)
EXTENDS Integers, Sequences, SequencesExt, FiniteSets

CONSTANTS
    Controller, Managed,    \* the nodes
    Streams,                \* connections for the feed of one node
    MaxEvents,              \* events of a behaviour
    FeedSize, RouteSize, QueueSize,
    None

Nodes == Managed \cup {Controller}

ASSUME NodeAssumption == Controller \notin Managed
ASSUME SizeAssumption == {MaxEvents, FeedSize, RouteSize, QueueSize} \subseteq Nat \ {0}
ASSUME NoneAssumption == None \notin Nat

VARIABLES
    sync,       \* the controller's settings: [Nodes -> {"absent", "off", "on"}]
    local,      \* a managed node's own copy of its policy: [Managed -> BOOLEAN]
    origins,    \* the origin of every event published so far
    feeds,      \* [Managed -> [Streams -> events under way, None if closed]]
    route,      \* the controller's route queue
    recent,     \* fleetRecentDeliveries of every node
    queues,     \* fleetDeliverQueues
    sending,    \* the event each delivery loop waits for, or None
    handling,   \* the deliveries at work at each destination
    shown,      \* the events each node has shown to its players, in order
    routed,     \* history: events in the order the controller routed them
    late,       \* history: nodes with a delivery given up while at work
    doubled,    \* history: nodes that have had two streams at a time
    barred      \* history: <<event, node>> switched off before it was sent

settings == <<sync, local>>
vars == <<sync, local, origins, feeds, route, recent, queues, sending, handling,
          shown, routed, late, doubled, barred>>

Events == DOMAIN origins
Closed(p) == {s \in Streams : feeds[p][s] = None}

\* A send that is dropped if the queue is full.
Offer(queue, size, e) == IF Len(queue) < size THEN Append(queue, e) ELSE queue

\* fleetEventOrigin and the policies of origin and destination.
Allowed(e, n) == sync[origins[e]] = "on" /\ sync[n] = "on"

\* The destination has, or had, a delivery of the event.
Sent(e, n) == (\E d \in handling[n] : d.event = e) \/ e \in Range(shown[n])

-----------------------------------------------------------------------------
(* Publishing *)

\* publishFleetPlayerEventAt: what a node knows of its own policy decides.
Publish(n) ==
    LET e == Len(origins) + 1 IN
    /\ e <= MaxEvents
    /\ IF n = Controller THEN sync[n] = "on" ELSE local[n]
    /\ origins' = Append(origins, n)
    /\ feeds' = IF n = Controller THEN feeds
                ELSE [feeds EXCEPT ![n] = [s \in Streams |->
                         IF @[s] = None THEN None ELSE Offer(@[s], FeedSize, e)]]
    /\ route' = IF n = Controller THEN Offer(route, RouteSize, e) ELSE route
    /\ barred' = barred \cup {<<e, d>> : d \in {x \in Nodes : sync[n] # "on" \/ sync[x] # "on"}}
    /\ UNCHANGED <<settings, recent, queues, sending, handling, shown, routed, late, doubled>>

\* A peer worker subscribes to a feed; one that was replaced may still read it.
FeedOpens(p) ==
    /\ sync[p] # "absent"
    /\ \E s \in Closed(p) : feeds' = [feeds EXCEPT ![p][s] = <<>>]
    /\ doubled' = IF Closed(p) = Streams THEN doubled ELSE doubled \cup {p}
    /\ UNCHANGED <<settings, origins, route, recent, queues, sending, handling, shown,
                   routed, late, barred>>

FeedCloses(p) ==
    /\ \E s \in Streams \ Closed(p) : feeds' = [feeds EXCEPT ![p][s] = None]
    /\ UNCHANGED <<settings, origins, route, recent, queues, sending, handling, shown,
                   routed, late, doubled, barred>>

\* consumeFleetPeerFeed takes the next event to the route queue.
FeedDelivers(p) ==
    /\ \E s \in Streams \ Closed(p) :
           /\ feeds[p][s] # <<>>
           /\ route' = Offer(route, RouteSize, Head(feeds[p][s]))
           /\ feeds' = [feeds EXCEPT ![p][s] = Tail(@)]
    /\ UNCHANGED <<settings, origins, recent, queues, sending, handling, shown, routed,
                   late, doubled, barred>>

-----------------------------------------------------------------------------
(* Routing and delivery *)

\* The destinations of an event that is routed now.
Destinations(e) == {n \in Nodes \ {origins[e]} : Allowed(e, n)}

\* Mutant: an event that came twice is routed twice.
RouteAgain ==
    /\ route # <<>>
    /\ LET e == Head(route) IN
       /\ recent' = [recent EXCEPT ![Controller] = @ \cup {e}]
       /\ queues' = [n \in Nodes |->
              IF n \in Destinations(e) THEN Offer(queues[n], QueueSize, e) ELSE queues[n]]
       /\ routed' = Append(routed, e)
    /\ route' = Tail(route)
    /\ UNCHANGED <<settings, origins, feeds, sending, handling, shown, late, doubled, barred>>

\* routeFleetEvent
Route ==
    /\ route # <<>>
    /\ LET e == Head(route) IN
       IF e \in recent[Controller] THEN UNCHANGED <<recent, queues, routed>>
       ELSE /\ recent' = [recent EXCEPT ![Controller] = @ \cup {e}]
            /\ queues' = [n \in Nodes |->
                   IF n \in Destinations(e) THEN Offer(queues[n], QueueSize, e) ELSE queues[n]]
            /\ routed' = Append(routed, e)
    /\ route' = Tail(route)
    /\ UNCHANGED <<settings, origins, feeds, sending, handling, shown, late, doubled, barred>>

\* Mutant: the policies of the time of routing decide.
DeliverAsRouted(n) ==
    /\ queues[n] # <<>> /\ sending[n] = None
    /\ queues' = [queues EXCEPT ![n] = Tail(@)]
    /\ sending' = [sending EXCEPT ![n] = Head(queues[n])]
    /\ handling' = [handling EXCEPT ![n] = @ \cup
           {[event |-> Head(queues[n]), checked |-> n = Controller]}]
    /\ UNCHANGED <<settings, origins, feeds, route, recent, shown, routed, late, doubled, barred>>

\* Mutant: a delivery does not wait for the one before.
DeliverAlongside(n) ==
    /\ queues[n] # <<>>
    /\ queues' = [queues EXCEPT ![n] = Tail(@)]
    /\ handling' = IF Allowed(Head(queues[n]), n)
           THEN [handling EXCEPT ![n] = @ \cup
                    {[event |-> Head(queues[n]), checked |-> n = Controller]}]
           ELSE handling
    /\ UNCHANGED <<settings, origins, feeds, route, recent, sending, shown, routed, late,
                   doubled, barred>>

\* fleetDeliveryLoop reads the policies again.  The controller shows an event
\* itself; a managed node is sent it and decides.
Deliver(n) ==
    /\ queues[n] # <<>> /\ sending[n] = None
    /\ queues' = [queues EXCEPT ![n] = Tail(@)]
    /\ LET e == Head(queues[n]) IN
       IF Allowed(e, n)
       THEN /\ sending' = [sending EXCEPT ![n] = e]
            /\ handling' = [handling EXCEPT ![n] = @ \cup
                   {[event |-> e, checked |-> n = Controller]}]
       ELSE UNCHANGED <<sending, handling>>
    /\ UNCHANGED <<settings, origins, feeds, route, recent, shown, routed, late, doubled, barred>>

\* A delivery comes to its end; the loop goes on if it still waits for it.
Ends(n, d) ==
    /\ handling' = [handling EXCEPT ![n] = @ \ {d}]
    /\ sending' = IF sending[n] = d.event THEN [sending EXCEPT ![n] = None] ELSE sending

\* fleetInternalDeliverHandler: the node's policy, then what it has seen.
Check(n) ==
    /\ \E d \in handling[n] :
           /\ ~d.checked
           /\ IF local[n] /\ d.event \notin recent[n]
              THEN /\ recent' = [recent EXCEPT ![n] = @ \cup {d.event}]
                   /\ handling' = [handling EXCEPT ![n] =
                          (@ \ {d}) \cup {[d EXCEPT !.checked = TRUE]}]
                   /\ UNCHANGED sending
              ELSE Ends(n, d) /\ UNCHANGED recent
    /\ UNCHANGED <<settings, origins, feeds, route, queues, shown, routed, late, doubled, barred>>

\* deliverFleetEventLocal: the game server shows the event, or RCON fails.
Show(n) ==
    /\ \E d \in handling[n] :
           /\ d.checked
           /\ shown' \in {shown, [shown EXCEPT ![n] = Append(@, d.event)]}
           /\ Ends(n, d)
    /\ UNCHANGED <<settings, origins, feeds, route, recent, queues, routed, late, doubled, barred>>

\* The request is lost on its way.
Lost(n) ==
    /\ \E d \in handling[n] : ~d.checked /\ Ends(n, d)
    /\ UNCHANGED <<settings, origins, feeds, route, recent, queues, shown, routed, late,
                   doubled, barred>>

\* Mutant: the loop waits for the answer, however long that takes.
GiveUpNever(n) == FALSE /\ UNCHANGED vars

\* The eight seconds are over.
GiveUp(n) ==
    /\ n # Controller /\ sending[n] # None
    /\ sending' = [sending EXCEPT ![n] = None]
    /\ late' = late \cup {n}
    /\ UNCHANGED <<settings, origins, feeds, route, recent, queues, handling, shown, routed,
                   doubled, barred>>

-----------------------------------------------------------------------------
(* Settings and restarts *)

\* fleetSyncHandler and fleetNodesHandler at the controller; a node that is
\* added has every category disabled.
SetSync(n) ==
    /\ \E policy \in IF n = Controller THEN {"off", "on"} ELSE {"absent", "off", "on"} :
           /\ policy # sync[n]
           /\ sync[n] = "absent" => policy = "off"
           /\ sync' = [sync EXCEPT ![n] = policy]
    /\ barred' = IF sync'[n] = "on"
                 THEN {b \in barred : sync'[origins[b[1]]] # "on" \/ sync'[b[2]] # "on"}
                 ELSE barred \cup {b \in Events \X Nodes :
                          n \in {b[2], origins[b[1]]} /\ ~Sent(b[1], b[2])}
    /\ UNCHANGED <<local, origins, feeds, route, recent, queues, sending, handling, shown,
                   routed, late, doubled>>

\* The policy of a managed node: the controller's (see FleetPolicy), or what
\* an administrator of that node sets.
SetLocal(p) ==
    /\ local' = [local EXCEPT ![p] = ~@]
    /\ UNCHANGED <<sync, origins, feeds, route, recent, queues, sending, handling, shown,
                   routed, late, doubled, barred>>

\* A manager starts again: queues and memory are empty, settings are kept.
RestartController ==
    /\ feeds' = [p \in Managed |-> [s \in Streams |-> None]]
    /\ route' = <<>>
    /\ recent' = [recent EXCEPT ![Controller] = {}]
    /\ queues' = [n \in Nodes |-> <<>>]
    /\ late' = late \cup {p \in Managed : sending[p] # None}
    /\ sending' = [n \in Nodes |-> None]
    /\ handling' = [handling EXCEPT ![Controller] = {}]
    /\ UNCHANGED <<settings, origins, shown, routed, doubled, barred>>

RestartManaged(p) ==
    /\ feeds' = [feeds EXCEPT ![p] = [s \in Streams |-> None]]
    /\ recent' = [recent EXCEPT ![p] = {}]
    /\ handling' = [handling EXCEPT ![p] = {}]
    /\ sending' = [sending EXCEPT ![p] = None]
    /\ UNCHANGED <<settings, origins, route, queues, shown, routed, late, doubled, barred>>

-----------------------------------------------------------------------------

Init ==
    /\ sync = [n \in Nodes |-> "on"] /\ local = [p \in Managed |-> TRUE]
    /\ origins = <<>>
    /\ feeds = [p \in Managed |-> [s \in Streams |-> None]]
    /\ route = <<>> /\ queues = [n \in Nodes |-> <<>>]
    /\ recent = [n \in Nodes |-> {}]
    /\ sending = [n \in Nodes |-> None] /\ handling = [n \in Nodes |-> {}]
    /\ shown = [n \in Nodes |-> <<>>] /\ routed = <<>>
    /\ late = {} /\ doubled = {} /\ barred = {}

Delivery(n) == Deliver(n) \/ Check(n) \/ Show(n) \/ Lost(n) \/ GiveUp(n)
Disturbance ==
    \/ \E n \in Nodes : SetSync(n)
    \/ \E p \in Managed : SetLocal(p) \/ RestartManaged(p) \/ FeedCloses(p)
    \/ RestartController

Undisturbed ==
    \/ \E n \in Nodes : Publish(n) \/ Delivery(n)
    \/ \E p \in Managed : FeedOpens(p) \/ FeedDelivers(p)
    \/ Route

Next == Undisturbed \/ Disturbance

\* The loops of the controller run; its game server answers or times out.
Fairness ==
    /\ WF_vars(Route)
    /\ \A n \in Nodes : WF_vars(Deliver(n)) /\ WF_vars(GiveUp(n))
    /\ WF_vars(Show(Controller))

Spec == Init /\ [][Next]_vars /\ Fairness

-----------------------------------------------------------------------------
(* Properties *)

Queue(size) == UNION {[1 .. k -> 1 .. MaxEvents] : k \in 0 .. size}

\* Every variable has its type and every queue its limit.
TypeOK ==
    /\ sync \in [Nodes -> {"absent", "off", "on"}] /\ local \in [Managed -> BOOLEAN]
    /\ origins \in UNION {[1 .. k -> Nodes] : k \in 0 .. MaxEvents}
    /\ feeds \in [Managed -> [Streams -> Queue(FeedSize) \cup {None}]]
    /\ route \in Queue(RouteSize) /\ queues \in [Nodes -> Queue(QueueSize)]
    /\ recent \in [Nodes -> SUBSET Events] /\ sending \in [Nodes -> Events \cup {None}]
    /\ handling \in [Nodes -> SUBSET [event : Events, checked : BOOLEAN]]

\* Players see an event once, and never one of their own server's: though a
\* peer may have two streams, deliveries are given up, and managers restart.
ShownOnce ==
    \A n \in Nodes :
        /\ IsInjective(shown[n])
        /\ \A e \in Range(shown[n]) : origins[e] # n

\* a comes before b in s.
Before(s, a, b) == \E i, j \in DOMAIN s : i < j /\ s[i] = a /\ s[j] = b

\* Every destination shows events in the order the controller routed them,
\* unless it was given up on, and the controller routes those of a node in
\* the order of their publication, unless the node had two streams.
OrderIsKept ==
    /\ \A n \in Nodes \ late : \A i, j \in DOMAIN shown[n] :
           i < j => ~Before(routed, shown[n][j], shown[n][i])
    /\ \A i, j \in DOMAIN routed :
           i < j /\ origins[routed[i]] = origins[routed[j]]
                 /\ origins[routed[i]] \notin doubled => routed[i] < routed[j]

\* What the controller has switched off, for its origin or its destination,
\* before it was sent is not shown until both are on again, wherever in the
\* queues the event was then.
OffIsSilent == \A b \in barred : ~Sent(b[1], b[2])

\* Nothing stays in a queue: a destination that does not answer delays the
\* events for it, but not for ever.
QueuesDrain == \A n \in Nodes : []<>(queues[n] = <<>> /\ sending[n] = None)

=============================================================================
