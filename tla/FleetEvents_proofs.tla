-------------------------- MODULE FleetEvents_proofs --------------------------
(***************************************************************************)
(* Proofs about FleetEvents, for any nodes, streams, number of events and  *)
(* size of the queues, and any number of changes and restarts.             *)
(***************************************************************************)
EXTENDS FleetEvents, TLAPS

-----------------------------------------------------------------------------
(* Sequences *)

LEMMA AppendLemma ==
    ASSUME NEW S, NEW q \in Seq(S), NEW e \in S
    PROVE  /\ Append(q, e) \in Seq(S)
           /\ Range(Append(q, e)) = Range(q) \cup {e}
           /\ IsInjective(q) /\ e \notin Range(q) => IsInjective(Append(q, e))
<1>1. /\ Append(q, e) \in Seq(S) /\ Len(q) \in Nat
      /\ DOMAIN q = 1 .. Len(q) /\ DOMAIN Append(q, e) = 1 .. Len(q) + 1
      /\ \A i \in 1 .. Len(q) : Append(q, e)[i] = q[i]
      /\ Append(q, e)[Len(q) + 1] = e
  OBVIOUS
<1>2. Range(Append(q, e)) \subseteq Range(q) \cup {e}
  BY <1>1 DEF Range
<1>3. Range(q) \subseteq Range(Append(q, e))
  <2> SUFFICES ASSUME NEW x \in Range(q) PROVE x \in Range(Append(q, e))
    OBVIOUS
  <2>1. PICK i \in 1 .. Len(q) : x = q[i]
    BY <1>1 DEF Range
  <2>2. i \in DOMAIN Append(q, e) /\ x = Append(q, e)[i]
    BY <1>1, <2>1
  <2> QED
    BY <2>2 DEF Range
<1>4. e \in Range(Append(q, e))
  <2>1. Len(q) + 1 \in DOMAIN Append(q, e)
    BY <1>1
  <2> QED
    BY <1>1, <2>1 DEF Range
<1>5. IsInjective(q) /\ e \notin Range(q) => IsInjective(Append(q, e))
  BY DEF Range, IsInjective
<1> QED
  BY <1>1, <1>2, <1>3, <1>4, <1>5

LEMMA TailLemma ==
    ASSUME NEW S, NEW q \in Seq(S), q # <<>>
    PROVE  /\ Tail(q) \in Seq(S) /\ Head(q) \in S
           /\ Head(q) \in Range(q) /\ Range(Tail(q)) \subseteq Range(q)
           /\ IsInjective(q) => IsInjective(Tail(q)) /\ Head(q) \notin Range(Tail(q))
<1>1. Tail(q) \in Seq(S) /\ Head(q) \in S
  OBVIOUS
<1>2. Head(q) \in Range(q) /\ Range(Tail(q)) \subseteq Range(q)
  BY DEF Range
<1>3. IsInjective(q) => IsInjective(Tail(q)) /\ Head(q) \notin Range(Tail(q))
  BY DEF Range, IsInjective
<1> QED
  BY <1>1, <1>2, <1>3

\* What a queue holds after a send that may be dropped.
LEMMA OfferLemma ==
    ASSUME NEW S, NEW q \in Seq(S), NEW e \in S, NEW size
    PROVE  /\ Offer(q, size, e) \in Seq(S)
           /\ Range(Offer(q, size, e)) \subseteq Range(q) \cup {e}
           /\ IsInjective(q) /\ e \notin Range(q) => IsInjective(Offer(q, size, e))
BY AppendLemma DEF Offer

LEMMA EmptyLemma ==
    /\ \A S : <<>> \in Seq(S)
    /\ Range(<<>>) = {} /\ IsInjective(<<>>)
<1>1. DOMAIN <<>> = {}
  OBVIOUS
<1> QED
  BY <1>1 DEF Range, IsInjective

LEMMA RangeLemma ==
    ASSUME NEW S, NEW q \in Seq(S)
    PROVE  Range(q) \subseteq S
BY DEF Range

-----------------------------------------------------------------------------
(* Types *)

FlowTypes ==
    /\ origins \in Seq(Nodes)
    /\ feeds \in [Managed -> [Streams -> Seq(Events) \cup {None}]]
    /\ route \in Seq(Events)
    /\ queues \in [Nodes -> Seq(Events)]
Deliveries == [event : Events, checked : BOOLEAN]
NodeTypes ==
    /\ sync \in [Nodes -> {"absent", "off", "on"}]
    /\ handling \in [Nodes -> SUBSET Deliveries]
    /\ shown \in [Nodes -> Seq(Events)]
    /\ recent \in [Nodes -> SUBSET Events]
    /\ barred \subseteq Events \X Nodes
Types == FlowTypes /\ NodeTypes

LEMMA EventsAreNumbers == ASSUME Types PROVE Events = 1 .. Len(origins) /\ Len(origins) \in Nat
BY DEF Types, FlowTypes, Events

\* A new event makes the set of events larger, and changes no origin.
LEMMA PublishedEvent ==
    ASSUME Types, NEW n \in Nodes, origins' = Append(origins, n)
    PROVE  LET e == Len(origins) + 1
           IN  /\ Events' = Events \cup {e} /\ e \notin Events
               /\ origins'[e] = n /\ \A x \in Events : origins'[x] = origins[x]
               /\ origins' \in Seq(Nodes)
               /\ Seq(Events) \subseteq Seq(Events')
<1>1. /\ origins \in Seq(Nodes) /\ Events = 1 .. Len(origins) /\ Len(origins) \in Nat
  BY EventsAreNumbers DEF Types, FlowTypes
<1>2. /\ origins' \in Seq(Nodes) /\ Len(origins') = Len(origins) + 1
      /\ origins'[Len(origins) + 1] = n
      /\ \A x \in 1 .. Len(origins) : origins'[x] = origins[x]
  BY <1>1
<1>3. Events' = 1 .. (Len(origins) + 1)
  BY <1>2 DEF Events
<1>4. Events' = Events \cup {Len(origins) + 1} /\ Len(origins) + 1 \notin Events
  BY <1>1, <1>3
<1>5. Seq(Events) \subseteq Seq(Events')
  BY <1>4
<1> QED
  BY <1>1, <1>2, <1>4, <1>5

LEMMA PublishTypes == ASSUME Types, NEW n \in Nodes, Publish(n) PROVE Types'
<1> DEFINE e == Len(origins) + 1
<1>1. /\ Events' = Events \cup {e} /\ origins' \in Seq(Nodes)
      /\ Seq(Events) \subseteq Seq(Events')
  BY PublishedEvent DEF Publish
<1> HIDE DEF e
<1>2. /\ feeds \in [Managed -> [Streams -> Seq(Events) \cup {None}]]
      /\ route \in Seq(Events) /\ queues \in [Nodes -> Seq(Events)]
  BY DEF Types, FlowTypes
<1>3. \A q \in Seq(Events) : Offer(q, RouteSize, e) \in Seq(Events')
                             /\ Offer(q, FeedSize, e) \in Seq(Events')
  BY <1>1, OfferLemma
<1>4. feeds' \in [Managed -> [Streams -> Seq(Events') \cup {None}]]
  <2>1. CASE n = Controller
    <3>1. feeds' = feeds
      BY <2>1 DEF Publish
    <3> QED
      BY <1>1, <1>2, <3>1
  <2>2. CASE n # Controller
    <3>1. n \in Managed
      BY <2>2 DEF Nodes
    <3>2. feeds' = [feeds EXCEPT ![n] = [s \in Streams |->
                        IF feeds[n][s] = None THEN None ELSE Offer(feeds[n][s], FeedSize, e)]]
      BY <1>2, <2>2, <3>1 DEF Publish, e
    <3>3. \A s \in Streams : feeds[n][s] # None => feeds[n][s] \in Seq(Events)
      BY <1>2, <3>1
    <3>4. [s \in Streams |-> IF feeds[n][s] = None THEN None
                             ELSE Offer(feeds[n][s], FeedSize, e)]
              \in [Streams -> Seq(Events') \cup {None}]
      BY <1>3, <3>3
    <3> QED
      BY <1>1, <1>2, <3>1, <3>2, <3>4
  <2> QED
    BY <2>1, <2>2
<1>5. route' \in Seq(Events')
  BY <1>1, <1>2, <1>3 DEF Publish, e
<1>6. queues' \in [Nodes -> Seq(Events')]
  BY <1>1, <1>2 DEF Publish
<1>7. NodeTypes'
  <2>1. UNCHANGED <<sync, handling, shown, recent>>
    BY DEF Publish, settings
  <2>2. Deliveries \subseteq Deliveries'
    BY <1>1 DEF Deliveries
  <2>3. barred' \subseteq Events' \X Nodes
    BY <1>1 DEF Publish, e, Types, NodeTypes
  <2>4. NodeTypes
    BY DEF Types
  <2>5. handling' \in [Nodes -> SUBSET Deliveries']
    BY <2>1, <2>2, <2>4 DEF NodeTypes
  <2>6. shown' \in [Nodes -> Seq(Events')] /\ recent' \in [Nodes -> SUBSET Events']
    BY <1>1, <2>1, <2>4 DEF NodeTypes
  <2> QED
    BY <2>1, <2>3, <2>4, <2>5, <2>6 DEF NodeTypes
<1> QED
  BY <1>1, <1>4, <1>5, <1>6, <1>7 DEF Types, FlowTypes

LEMMA FlowStepTypes ==
    ASSUME Types, UNCHANGED <<origins, sync, handling, shown, barred>>,
           feeds' \in [Managed -> [Streams -> Seq(Events) \cup {None}]],
           route' \in Seq(Events), queues' \in [Nodes -> Seq(Events)],
           recent' \in [Nodes -> SUBSET Events]
    PROVE  Types'
<1>1. Events' = Events
  BY DEF Events
<1>2. Deliveries' = Deliveries
  BY <1>1 DEF Deliveries
<1> QED
  BY <1>1, <1>2 DEF Types, FlowTypes, NodeTypes

LEMMA NodeStepTypes ==
    ASSUME Types, UNCHANGED <<origins, feeds, route, barred>>,
           sync' \in [Nodes -> {"absent", "off", "on"}],
           queues' \in [Nodes -> Seq(Events)],
           handling' \in [Nodes -> SUBSET Deliveries],
           shown' \in [Nodes -> Seq(Events)], recent' \in [Nodes -> SUBSET Events]
    PROVE  Types'
<1>1. Events' = Events
  BY DEF Events
<1>2. Deliveries' = Deliveries
  BY <1>1 DEF Deliveries
<1> QED
  BY <1>1, <1>2 DEF Types, FlowTypes, NodeTypes

LEMMA FeedTypes ==
    ASSUME Types, NEW p \in Managed, FeedOpens(p) \/ FeedCloses(p) \/ FeedDelivers(p)
    PROVE  Types'
<1>1. /\ feeds \in [Managed -> [Streams -> Seq(Events) \cup {None}]]
      /\ route \in Seq(Events) /\ queues \in [Nodes -> Seq(Events)]
      /\ recent \in [Nodes -> SUBSET Events]
  BY DEF Types, FlowTypes, NodeTypes
<1>2. CASE FeedOpens(p)
  <2>1. feeds' \in [Managed -> [Streams -> Seq(Events) \cup {None}]]
    <3>1. PICK s \in Closed(p) : feeds' = [feeds EXCEPT ![p][s] = <<>>]
      BY <1>2 DEF FeedOpens
    <3>2. s \in Streams /\ <<>> \in Seq(Events)
      BY <3>1, EmptyLemma DEF Closed
    <3> QED
      BY <1>1, <3>1, <3>2
  <2>2. UNCHANGED <<origins, sync, handling, shown, barred, route, queues, recent>>
    BY <1>2 DEF FeedOpens, settings
  <2> QED
    BY <1>1, <2>1, <2>2, FlowStepTypes
<1>3. CASE FeedCloses(p)
  <2>1. feeds' \in [Managed -> [Streams -> Seq(Events) \cup {None}]]
    BY <1>1, <1>3 DEF FeedCloses
  <2>2. UNCHANGED <<origins, sync, handling, shown, barred, route, queues, recent>>
    BY <1>3 DEF FeedCloses, settings
  <2> QED
    BY <1>1, <2>1, <2>2, FlowStepTypes
<1>4. CASE FeedDelivers(p)
  <2>1. PICK s \in Streams \ Closed(p) :
            /\ feeds[p][s] # <<>>
            /\ route' = Offer(route, RouteSize, Head(feeds[p][s]))
            /\ feeds' = [feeds EXCEPT ![p][s] = Tail(@)]
    BY <1>4 DEF FeedDelivers
  <2>2. feeds[p][s] \in Seq(Events)
    BY <1>1, <2>1 DEF Closed
  <2>3. Head(feeds[p][s]) \in Events /\ Tail(feeds[p][s]) \in Seq(Events)
    BY <2>1, <2>2, TailLemma
  <2>4. route' \in Seq(Events)
    BY <1>1, <2>1, <2>3, OfferLemma
  <2>5. feeds' \in [Managed -> [Streams -> Seq(Events) \cup {None}]]
    BY <1>1, <2>1, <2>3
  <2>6. UNCHANGED <<origins, sync, handling, shown, barred, queues, recent>>
    BY <1>4 DEF FeedDelivers, settings
  <2> QED
    BY <1>1, <2>4, <2>5, <2>6, FlowStepTypes
<1> QED
  BY <1>2, <1>3, <1>4

LEMMA RouteTypes == ASSUME Types, Route PROVE Types'
<1>1. /\ feeds \in [Managed -> [Streams -> Seq(Events) \cup {None}]]
      /\ route \in Seq(Events) /\ queues \in [Nodes -> Seq(Events)]
      /\ recent \in [Nodes -> SUBSET Events]
  BY DEF Types, FlowTypes, NodeTypes
<1>2. Head(route) \in Events /\ Tail(route) \in Seq(Events)
  BY <1>1, TailLemma DEF Route
<1>3. queues' \in [Nodes -> Seq(Events)]
  <2>1. \A n \in Nodes : Offer(queues[n], QueueSize, Head(route)) \in Seq(Events)
    BY <1>1, <1>2, OfferLemma
  <2> QED
    BY <1>1, <2>1 DEF Route
<1>4. recent' \in [Nodes -> SUBSET Events]
  <2>1. recent' = recent \/ recent' = [recent EXCEPT ![Controller] = @ \cup {Head(route)}]
    BY DEF Route
  <2>2. recent[Controller] \cup {Head(route)} \in SUBSET Events
    BY <1>1, <1>2 DEF Nodes
  <2> QED
    BY <1>1, <2>1, <2>2
<1>5. UNCHANGED <<origins, sync, handling, shown, barred, feeds>> /\ route' = Tail(route)
  BY DEF Route, settings
<1> QED
  BY <1>1, <1>2, <1>3, <1>4, <1>5, FlowStepTypes

\* The end of a delivery leaves the others.
LEMMA EndsLemma ==
    ASSUME Types, NEW n \in Nodes, NEW d \in handling[n], Ends(n, d)
    PROVE  /\ handling' = [handling EXCEPT ![n] = @ \ {d}]
           /\ handling' \in [Nodes -> SUBSET Deliveries]
BY DEF Types, NodeTypes, Ends

LEMMA DeliveryTypes == ASSUME Types, NEW n \in Nodes, Delivery(n) PROVE Types'
<1>1. /\ queues \in [Nodes -> Seq(Events)] /\ recent \in [Nodes -> SUBSET Events]
      /\ handling \in [Nodes -> SUBSET Deliveries] /\ shown \in [Nodes -> Seq(Events)]
      /\ sync \in [Nodes -> {"absent", "off", "on"}]
  BY DEF Types, FlowTypes, NodeTypes
<1>2. CASE Deliver(n)
  <2>1. Head(queues[n]) \in Events /\ Tail(queues[n]) \in Seq(Events)
    BY <1>1, <1>2, TailLemma DEF Deliver
  <2>2. queues' \in [Nodes -> Seq(Events)]
    BY <1>1, <1>2, <2>1 DEF Deliver
  <2>3. [event |-> Head(queues[n]), checked |-> n = Controller] \in Deliveries
    BY <2>1 DEF Deliveries
  <2>4. handling' \in [Nodes -> SUBSET Deliveries]
    <3>1. \/ handling' = handling
          \/ handling' = [handling EXCEPT ![n] = @ \cup
                 {[event |-> Head(queues[n]), checked |-> n = Controller]}]
      BY <1>2 DEF Deliver
    <3>2. handling[n] \cup {[event |-> Head(queues[n]), checked |-> n = Controller]}
              \in SUBSET Deliveries
      BY <1>1, <2>3
    <3> QED
      BY <1>1, <3>1, <3>2
  <2>5. UNCHANGED <<origins, feeds, route, barred, sync, shown, recent>>
    BY <1>2 DEF Deliver, settings
  <2> QED
    BY <1>1, <2>2, <2>4, <2>5, NodeStepTypes
<1>3. CASE Check(n)
  <2>1. PICK d \in handling[n] :
            \/ /\ recent' = [recent EXCEPT ![n] = @ \cup {d.event}]
               /\ handling' = [handling EXCEPT ![n] =
                      (@ \ {d}) \cup {[d EXCEPT !.checked = TRUE]}]
            \/ Ends(n, d) /\ UNCHANGED recent
    BY <1>3 DEF Check
  <2>2. d.event \in Events /\ [d EXCEPT !.checked = TRUE] \in Deliveries
    <3>1. d \in Deliveries
      BY <1>1, <2>1
    <3> QED
      BY <3>1 DEF Deliveries
  <2>3. handling' \in [Nodes -> SUBSET Deliveries] /\ recent' \in [Nodes -> SUBSET Events]
    <3>1. /\ recent[n] \cup {d.event} \in SUBSET Events
          /\ (handling[n] \ {d}) \cup {[d EXCEPT !.checked = TRUE]} \in SUBSET Deliveries
      BY <1>1, <2>2
    <3> QED
      BY <1>1, <2>1, <3>1, EndsLemma
  <2>4. UNCHANGED <<origins, feeds, route, barred, sync, shown, queues>>
    BY <1>3 DEF Check, settings
  <2> QED
    BY <1>1, <2>3, <2>4, NodeStepTypes
<1>4. CASE Show(n)
  <2>1. PICK d \in handling[n] :
            /\ shown' \in {shown, [shown EXCEPT ![n] = Append(@, d.event)]}
            /\ Ends(n, d)
    BY <1>4 DEF Show
  <2>2. d.event \in Events
    BY <1>1, <2>1 DEF Deliveries
  <2>3. Append(shown[n], d.event) \in Seq(Events)
    BY <1>1, <2>2
  <2>4. shown' \in [Nodes -> Seq(Events)]
    BY <1>1, <2>1, <2>3
  <2>5. UNCHANGED <<origins, feeds, route, barred, sync, queues, recent>>
    BY <1>4 DEF Show, settings
  <2> QED
    BY <1>1, <2>1, <2>4, <2>5, EndsLemma, NodeStepTypes
<1>5. CASE Lost(n)
  <2>1. PICK d \in handling[n] : Ends(n, d)
    BY <1>5 DEF Lost
  <2>2. UNCHANGED <<origins, feeds, route, barred, sync, shown, queues, recent>>
    BY <1>5 DEF Lost, settings
  <2> QED
    BY <1>1, <2>1, <2>2, EndsLemma, NodeStepTypes
<1>6. CASE GiveUp(n)
  <2>1. UNCHANGED <<origins, feeds, route, barred, sync, shown, queues, recent, handling>>
    BY <1>6 DEF GiveUp, settings
  <2> QED
    BY <1>1, <2>1, NodeStepTypes
<1> QED
  BY <1>2, <1>3, <1>4, <1>5, <1>6 DEF Delivery

LEMMA DisturbanceTypes == ASSUME Types, Disturbance PROVE Types'
<1>1. /\ feeds \in [Managed -> [Streams -> Seq(Events) \cup {None}]]
      /\ route \in Seq(Events) /\ queues \in [Nodes -> Seq(Events)]
      /\ recent \in [Nodes -> SUBSET Events] /\ origins \in Seq(Nodes)
      /\ handling \in [Nodes -> SUBSET Deliveries] /\ shown \in [Nodes -> Seq(Events)]
      /\ sync \in [Nodes -> {"absent", "off", "on"}] /\ barred \subseteq Events \X Nodes
  BY DEF Types, FlowTypes, NodeTypes
<1>2. UNCHANGED origins => Events' = Events /\ Deliveries' = Deliveries
  BY DEF Events, Deliveries
<1>3. ASSUME NEW n \in Nodes, SetSync(n)
      PROVE  Types'
  <2>1. sync' \in [Nodes -> {"absent", "off", "on"}]
    BY <1>1, <1>3 DEF SetSync
  <2>2. barred' \subseteq Events \X Nodes
    BY <1>1, <1>3 DEF SetSync
  <2>3. UNCHANGED <<origins, feeds, route, queues, recent, handling, shown>>
    BY <1>3 DEF SetSync
  <2> QED
    BY <1>1, <1>2, <2>1, <2>2, <2>3 DEF Types, FlowTypes, NodeTypes
<1>4. ASSUME NEW p \in Managed, SetLocal(p) \/ FeedCloses(p)
      PROVE  Types'
  <2>1. CASE SetLocal(p)
    <3>1. UNCHANGED <<origins, feeds, route, barred, sync, shown, queues, recent, handling>>
      BY <2>1 DEF SetLocal
    <3> QED
      BY <1>1, <3>1, NodeStepTypes
  <2> QED
    BY <1>4, <2>1, FeedTypes
<1>5. ASSUME NEW p \in Managed, RestartManaged(p)
      PROVE  Types'
  <2>1. /\ feeds' \in [Managed -> [Streams -> Seq(Events) \cup {None}]]
        /\ recent' \in [Nodes -> SUBSET Events]
        /\ handling' \in [Nodes -> SUBSET Deliveries]
    BY <1>1, <1>5 DEF RestartManaged, Nodes
  <2>2. UNCHANGED <<origins, route, queues, shown, sync, barred>>
    BY <1>5 DEF RestartManaged, settings
  <2> QED
    BY <1>1, <1>2, <2>1, <2>2 DEF Types, FlowTypes, NodeTypes
<1>6. CASE RestartController
  <2>1. /\ feeds' \in [Managed -> [Streams -> Seq(Events) \cup {None}]]
        /\ recent' \in [Nodes -> SUBSET Events]
        /\ handling' \in [Nodes -> SUBSET Deliveries]
        /\ route' \in Seq(Events) /\ queues' \in [Nodes -> Seq(Events)]
    BY <1>1, <1>6, EmptyLemma DEF RestartController, Nodes
  <2>2. UNCHANGED <<origins, shown, sync, barred>>
    BY <1>6 DEF RestartController, settings
  <2> QED
    BY <1>1, <1>2, <2>1, <2>2 DEF Types, FlowTypes, NodeTypes
<1> QED
  BY <1>3, <1>4, <1>5, <1>6 DEF Disturbance

LEMMA TypeStep == ASSUME Types, Next PROVE Types'
<1>1. ASSUME NEW p \in Managed, FeedOpens(p) \/ FeedDelivers(p)
      PROVE  Types'
  BY <1>1, FeedTypes
<1>2. ASSUME NEW n \in Nodes, Publish(n) \/ Delivery(n)
      PROVE  Types'
  BY <1>2, PublishTypes, DeliveryTypes
<1> QED
  BY <1>1, <1>2, RouteTypes, DisturbanceTypes DEF Next, Undisturbed

-----------------------------------------------------------------------------
(* Deliveries *)

LEMMA NodeParts ==
    ASSUME Types, NEW n \in Nodes
    PROVE  /\ queues[n] \in Seq(Events) /\ shown[n] \in Seq(Events)
           /\ handling[n] \subseteq Deliveries
           /\ \A d \in handling[n] : d.event \in Events
           /\ \A e : Sent(e, n) => e \in Events
<1>1. /\ queues[n] \in Seq(Events) /\ shown[n] \in Seq(Events)
      /\ handling[n] \subseteq Deliveries
  BY DEF Types, FlowTypes, NodeTypes
<1>2. \A d \in handling[n] : d.event \in Events
  BY <1>1 DEF Deliveries
<1>3. \A e : Sent(e, n) => e \in Events
  BY <1>1, <1>2, RangeLemma DEF Sent
<1> QED
  BY <1>1, <1>2, <1>3

\* A delivery that begins is of the first event of the queue, allowed now.
LEMMA DeliverSends ==
    ASSUME Types, NEW n \in Nodes, Deliver(n)
    PROVE  /\ queues[n] # <<>> /\ queues' = [queues EXCEPT ![n] = Tail(@)]
           /\ \/ handling' = handling
              \/ /\ Allowed(Head(queues[n]), n)
                 /\ \E c \in BOOLEAN : handling' = [handling EXCEPT ![n] = @ \cup
                        {[event |-> Head(queues[n]), checked |-> c]}]
           /\ UNCHANGED <<settings, origins, feeds, route, recent, shown, barred>>
BY DEF Deliver

\* A delivery that goes on was there before, and each node shows what it had.
LEMMA DeliveryGoesOn ==
    ASSUME Types, NEW n \in Nodes, Check(n) \/ Show(n) \/ Lost(n) \/ GiveUp(n)
    PROVE  /\ \A m \in Nodes : \A d \in handling'[m] :
                  \E c \in handling[m] : c.event = d.event
           /\ \A m \in Nodes : \A c, d \in handling'[m] :
                  c.event = d.event /\ (\A a, b \in handling[m] : a.event = b.event => a = b)
                      => c = d
           /\ \/ shown' = shown
              \/ \E d \in handling[n] :
                     /\ shown' = [shown EXCEPT ![n] = Append(@, d.event)]
                     /\ handling' = [handling EXCEPT ![n] = @ \ {d}]
           /\ \A m \in Nodes : recent[m] \subseteq recent'[m]
           /\ UNCHANGED <<sync, origins, feeds, route, queues, barred>>
<1>1. /\ handling \in [Nodes -> SUBSET Deliveries] /\ recent \in [Nodes -> SUBSET Events]
      /\ shown \in [Nodes -> Seq(Events)]
  BY DEF Types, NodeTypes
<1>2. UNCHANGED <<sync, origins, feeds, route, queues, barred>>
  BY DEF Check, Show, Lost, GiveUp, settings
<1> DEFINE Less == \A m \in Nodes : handling'[m] \subseteq handling[m]
<1>3. \A d : d \in handling[n] /\ Ends(n, d) =>
          Less /\ handling' = [handling EXCEPT ![n] = @ \ {d}]
  BY <1>1 DEF Ends
<1> DEFINE Kept ==
               /\ \A m \in Nodes : \A d \in handling'[m] :
                      \E c \in handling[m] : c.event = d.event
               /\ \A m \in Nodes : \A c, d \in handling'[m] :
                      c.event = d.event /\ (\A a, b \in handling[m] : a.event = b.event => a = b)
                          => c = d
<1>4. Less => Kept
  OBVIOUS
<1>5. CASE Check(n)
  <2>1. PICK d \in handling[n] :
            \/ /\ recent' = [recent EXCEPT ![n] = @ \cup {d.event}]
               /\ handling' = [handling EXCEPT ![n] =
                      (@ \ {d}) \cup {[d EXCEPT !.checked = TRUE]}]
            \/ Ends(n, d) /\ UNCHANGED recent
    BY <1>5 DEF Check
  <2>2. shown' = shown
    BY <1>5 DEF Check
  <2>3. \A m \in Nodes : recent[m] \subseteq recent'[m]
    BY <1>1, <2>1
  <2>4. CASE Ends(n, d)
    BY <1>2, <1>3, <1>4, <2>2, <2>3, <2>4
  <2>5. CASE handling' = [handling EXCEPT ![n] = (@ \ {d}) \cup {[d EXCEPT !.checked = TRUE]}]
    <3> DEFINE new == [d EXCEPT !.checked = TRUE]
    <3>1. new.event = d.event
      <4>1. d \in Deliveries
        BY <1>1, <2>1
      <4> QED
        BY <4>1 DEF Deliveries
    <3>2. /\ handling'[n] = (handling[n] \ {d}) \cup {new}
          /\ \A m \in Nodes \ {n} : handling'[m] = handling[m]
      BY <1>1, <2>5
    <3> HIDE DEF new
    <3>3. Kept
      BY <2>1, <3>1, <3>2
    <3> QED
      BY <1>2, <2>2, <2>3, <3>3
  <2> QED
    BY <2>1, <2>4, <2>5
<1>6. CASE Show(n)
  <2>1. PICK d \in handling[n] :
            /\ shown' \in {shown, [shown EXCEPT ![n] = Append(@, d.event)]}
            /\ Ends(n, d)
    BY <1>6 DEF Show
  <2>2. UNCHANGED recent
    BY <1>6 DEF Show
  <2> HIDE DEF Kept
  <2> QED
    BY <1>2, <1>3, <1>4, <2>1, <2>2 DEF Kept
<1>7. CASE Lost(n)
  <2>1. PICK d \in handling[n] : Ends(n, d)
    BY <1>7 DEF Lost
  <2>2. UNCHANGED <<shown, recent>>
    BY <1>7 DEF Lost
  <2> QED
    BY <1>2, <1>3, <1>4, <2>1, <2>2
<1>8. CASE GiveUp(n)
  BY <1>2, <1>4, <1>8 DEF GiveUp
<1> QED
  BY <1>5, <1>6, <1>7, <1>8

\* What has not been sent is not sent by a delivery that goes on.
LEMMA NothingNewSent ==
    ASSUME Types, NEW n \in Nodes, Check(n) \/ Show(n) \/ Lost(n) \/ GiveUp(n),
           NEW m \in Nodes, NEW e, Sent(e, m)'
    PROVE  Sent(e, m)
<1>1. CASE \E d \in handling'[m] : d.event = e
  BY <1>1, DeliveryGoesOn DEF Sent
<1>2. CASE e \in Range(shown'[m])
  <2>1. CASE shown' = shown
    BY <1>2, <2>1 DEF Sent
  <2>2. CASE shown' # shown
    <3>1. PICK d \in handling[n] : shown' = [shown EXCEPT ![n] = Append(@, d.event)]
      BY <2>2, DeliveryGoesOn
    <3>2. d.event \in Events /\ shown[n] \in Seq(Events) /\ shown \in [Nodes -> Seq(Events)]
      BY NodeParts DEF Types, NodeTypes
    <3>3. Range(Append(shown[n], d.event)) = Range(shown[n]) \cup {d.event}
      BY <3>2, AppendLemma
    <3>4. CASE m = n
      BY <1>2, <3>1, <3>2, <3>3, <3>4 DEF Sent
    <3>5. CASE m # n
      BY <1>2, <3>1, <3>2, <3>5 DEF Sent
    <3> QED
      BY <3>4, <3>5
  <2> QED
    BY <2>1, <2>2
<1> QED
  BY <1>1, <1>2 DEF Sent

LEMMA DeliverSent ==
    ASSUME Types, NEW n \in Nodes, Deliver(n), NEW m \in Nodes, NEW e, Sent(e, m)'
    PROVE  Sent(e, m) \/ (m = n /\ e = Head(queues[n]) /\ Allowed(e, n))
<1>1. shown' = shown /\ handling \in [Nodes -> SUBSET Deliveries]
  BY DeliverSends DEF Types, NodeTypes
<1>2. CASE handling' = handling
  BY <1>1, <1>2 DEF Sent
<1>3. CASE handling' # handling
  <2>1. Allowed(Head(queues[n]), n)
    BY <1>3, DeliverSends
  <2>2. PICK c \in BOOLEAN : handling' = [handling EXCEPT ![n] = @ \cup
                                {[event |-> Head(queues[n]), checked |-> c]}]
    BY <1>3, DeliverSends
  <2>3. m # n => handling'[m] = handling[m]
    BY <1>1, <2>2
  <2>4. m = n => handling'[m] = handling[m] \cup {[event |-> Head(queues[n]), checked |-> c]}
    BY <1>1, <2>2
  <2> QED
    BY <1>1, <2>1, <2>3, <2>4 DEF Sent
<1> QED
  BY <1>2, <1>3

\* A manager that restarts forgets what it was at work on.
LEMMA RestartSends ==
    ASSUME Types, RestartController \/ \E p \in Managed : RestartManaged(p)
    PROVE  /\ \A m \in Nodes : handling'[m] \subseteq handling[m]
           /\ shown' = shown
           /\ \A m \in Nodes : \A e : Sent(e, m)' => Sent(e, m)
<1>1. handling \in [Nodes -> SUBSET Deliveries]
  BY DEF Types, NodeTypes
<1>2. shown' = shown
  BY DEF RestartController, RestartManaged
<1>3. \A m \in Nodes : handling'[m] \subseteq handling[m]
  BY <1>1 DEF RestartController, RestartManaged
<1> QED
  BY <1>2, <1>3 DEF Sent

-----------------------------------------------------------------------------
(* What is switched off *)

SilentInv == \A b \in barred : ~ Allowed(b[1], b[2]) /\ ~ Sent(b[1], b[2])

\* A step that switches nothing on and sends nothing new that is not allowed.
LEMMA SilentKept ==
    ASSUME Types, SilentInv, UNCHANGED <<sync, origins, barred>>,
           \A m \in Nodes : \A e : Sent(e, m)' => Sent(e, m) \/ Allowed(e, m)
    PROVE  SilentInv'
<1>1. \A b \in barred : b[1] \in Events /\ b[2] \in Nodes
  BY DEF Types, NodeTypes
<1>2. \A b \in barred : ~ Allowed(b[1], b[2])'
  BY DEF SilentInv, Allowed
<1>3. \A b \in barred : ~ Sent(b[1], b[2])'
  BY <1>1 DEF SilentInv
<1> QED
  BY <1>2, <1>3 DEF SilentInv

LEMMA PublishSilent ==
    ASSUME Types, SilentInv, NEW n \in Nodes, Publish(n)
    PROVE  SilentInv'
<1>0. PICK e : e = Len(origins) + 1
  OBVIOUS
<1>1. /\ e \notin Events /\ origins'[e] = n
      /\ \A x \in Events : origins'[x] = origins[x]
  BY <1>0, PublishedEvent DEF Publish
<1>2. /\ UNCHANGED <<sync, handling, shown>>
      /\ barred' = barred \cup {<<e, d>> : d \in {x \in Nodes : sync[n] # "on" \/ sync[x] # "on"}}
  BY <1>0 DEF Publish, settings
<1>3. ASSUME NEW b \in barred
      PROVE  ~ Allowed(b[1], b[2])' /\ ~ Sent(b[1], b[2])'
  <2>1. b[1] \in Events
    BY DEF Types, NodeTypes
  <2> QED
    BY <1>1, <1>2, <2>1 DEF SilentInv, Allowed, Sent
<1>4. ASSUME NEW d \in Nodes, sync[n] # "on" \/ sync[d] # "on"
      PROVE  ~ Allowed(e, d)' /\ ~ Sent(e, d)'
  <2>1. ~ Allowed(e, d)'
    BY <1>1, <1>2, <1>4 DEF Allowed
  <2>2. ~ Sent(e, d)
    BY <1>1, NodeParts
  <2> QED
    BY <1>2, <2>1, <2>2 DEF Sent
<1> QED
  BY <1>2, <1>3, <1>4 DEF SilentInv

LEMMA SetSyncSilent ==
    ASSUME Types, SilentInv, NEW n \in Nodes, SetSync(n)
    PROVE  SilentInv'
<1>1. /\ UNCHANGED <<origins, handling, shown>>
      /\ barred' = IF sync'[n] = "on"
                   THEN {b \in barred : sync'[origins[b[1]]] # "on" \/ sync'[b[2]] # "on"}
                   ELSE barred \cup {b \in Events \X Nodes :
                            n \in {b[2], origins[b[1]]} /\ ~Sent(b[1], b[2])}
      /\ \A m \in Nodes \ {n} : sync'[m] = sync[m]
  BY DEF SetSync, Types, NodeTypes
<1>2. \A e, m : Sent(e, m)' = Sent(e, m)
  BY <1>1 DEF Sent
<1>3. \A b \in barred : b[1] \in Events /\ b[2] \in Nodes /\ origins[b[1]] \in Nodes
  BY EventsAreNumbers DEF Types, NodeTypes, FlowTypes
<1>4. CASE sync'[n] = "on"
  BY <1>1, <1>2, <1>4 DEF SilentInv, Allowed
<1>5. CASE sync'[n] # "on"
  <2>1. \A b \in barred : ~ Allowed(b[1], b[2])'
    BY <1>1, <1>3, <1>5 DEF SilentInv, Allowed
  <2>2. \A b \in Events \X Nodes : n \in {b[2], origins[b[1]]} => ~ Allowed(b[1], b[2])'
    BY <1>1, <1>5 DEF Allowed
  <2> QED
    BY <1>1, <1>2, <1>5, <2>1, <2>2 DEF SilentInv
<1> QED
  BY <1>4, <1>5

LEMMA SilentStep == ASSUME Types, SilentInv, Next PROVE SilentInv'
<1>1. ASSUME NEW n \in Nodes, Publish(n)
      PROVE  SilentInv'
  BY <1>1, PublishSilent
<1>2. ASSUME NEW n \in Nodes, Delivery(n)
      PROVE  SilentInv'
  <2>1. CASE Deliver(n)
    BY <2>1, DeliverSends, DeliverSent, SilentKept DEF settings
  <2>2. CASE Check(n) \/ Show(n) \/ Lost(n) \/ GiveUp(n)
    <3>1. UNCHANGED <<sync, origins, barred>>
      BY <2>2, DeliveryGoesOn
    <3> QED
      BY <2>2, <3>1, NothingNewSent, SilentKept
  <2> QED
    BY <1>2, <2>1, <2>2 DEF Delivery
<1>3. ASSUME UNCHANGED <<sync, origins, barred, handling, shown>>
      PROVE  SilentInv'
  BY <1>3 DEF SilentInv, Allowed, Sent
<1>4. CASE Route \/ \E p \in Managed : FeedOpens(p) \/ FeedDelivers(p) \/ FeedCloses(p)
                                       \/ SetLocal(p)
  BY <1>3, <1>4 DEF Route, FeedOpens, FeedDelivers, FeedCloses, SetLocal, settings
<1>5. CASE RestartController \/ \E p \in Managed : RestartManaged(p)
  <2>1. UNCHANGED <<sync, origins, barred>>
    BY <1>5 DEF RestartController, RestartManaged, settings
  <2> QED
    BY <1>5, <2>1, RestartSends, SilentKept
<1> QED
  BY <1>1, <1>2, <1>4, <1>5, SetSyncSilent DEF Next, Undisturbed, Disturbance

-----------------------------------------------------------------------------
(* Each event once *)

\* An event the controller may still route.
Pending(e) ==
    \/ e \in Range(route)
    \/ \E p \in Managed : \E s \in Streams \ Closed(p) : e \in Range(feeds[p][s])

\* An event is in one place of its way to a node, and its origin is elsewhere.
OnceAt(n) ==
    /\ IsInjective(shown[n]) /\ IsInjective(queues[n])
    /\ \A e \in Range(shown[n]) : origins[e] # n
    /\ \A d \in handling[n] : origins[d.event] # n /\ d.event \notin Range(shown[n])
    /\ \A c, d \in handling[n] : c.event = d.event => c = d
    /\ \A e \in Range(queues[n]) :
           origins[e] # n /\ ~ Sent(e, n) /\ e \in recent[Controller]

\* The controller remembers what it has routed, or nothing of it can come again.
PendingInv ==
    \A e \in Events : Pending(e) =>
        e \in recent[Controller] \/ \A n \in Nodes : ~ Sent(e, n)

OnceInv == PendingInv /\ \A n \in Nodes : OnceAt(n)

\* A step that leaves queues and deliveries alone and brings no event back.
LEMMA OnceKept ==
    ASSUME Types, OnceInv, UNCHANGED <<origins, queues, handling, shown>>,
           recent[Controller] \subseteq recent'[Controller],
           \A e \in Events : Pending(e)' => Pending(e)
    PROVE  OnceInv'
<1>1. Events' = Events
  BY DEF Events
<1>2. \A e, n : Sent(e, n)' = Sent(e, n)
  BY DEF Sent
<1>3. PendingInv'
  BY <1>1, <1>2 DEF OnceInv, PendingInv
<1>4. \A n \in Nodes : OnceAt(n)'
  BY <1>2 DEF OnceInv, OnceAt
<1> QED
  BY <1>3, <1>4 DEF OnceInv

\* A new event brings no other one back.
LEMMA PublishPending ==
    ASSUME Types, NEW n \in Nodes, Publish(n), NEW x \in Events, Pending(x)'
    PROVE  Pending(x)
<1>1. PICK e : e = Len(origins) + 1
  OBVIOUS
<1>2. e \notin Events
  BY <1>1, PublishedEvent DEF Publish
<1>3. /\ feeds \in [Managed -> [Streams -> Seq(Events) \cup {None}]]
      /\ route \in Seq(Events)
  BY DEF Types, FlowTypes
<1>4. \A q : q \in Seq(Events) =>
          /\ Range(Offer(q, RouteSize, e)) \subseteq Range(q) \cup {e}
          /\ Range(Offer(q, FeedSize, e)) \subseteq Range(q) \cup {e}
  <2> SUFFICES ASSUME NEW q \in Seq(Events)
               PROVE  /\ Range(Offer(q, RouteSize, e)) \subseteq Range(q) \cup {e}
                      /\ Range(Offer(q, FeedSize, e)) \subseteq Range(q) \cup {e}
    OBVIOUS
  <2>1. q \in Seq(Events \cup {e}) /\ e \in Events \cup {e}
    OBVIOUS
  <2> QED
    BY <2>1, OfferLemma
<1>5. x # e
  BY <1>2
<1>6. CASE x \in Range(route')
  <2>1. route' = route \/ route' = Offer(route, RouteSize, e)
    BY <1>1 DEF Publish
  <2> QED
    BY <1>3, <1>4, <1>5, <1>6, <2>1 DEF Pending
<1>7. CASE \E p \in Managed : \E s \in Streams \ Closed(p)' : x \in Range(feeds'[p][s])
  <2>0. PICK p \in Managed : \E s \in Streams \ Closed(p)' : x \in Range(feeds'[p][s])
    BY <1>7
  <2>1. PICK s \in Streams \ Closed(p)' : x \in Range(feeds'[p][s])
    BY <2>0
  <2>2. \/ feeds'[p][s] = feeds[p][s]
        \/ feeds[p][s] # None /\ feeds'[p][s] = Offer(feeds[p][s], FeedSize, e)
    <3>1. CASE n = Controller
      BY <3>1 DEF Publish
    <3>2. CASE n # Controller
      <4>1. n \in Managed
        BY <3>2 DEF Nodes
      <4>2. feeds' = [feeds EXCEPT ![n] = [t \in Streams |->
                IF feeds[n][t] = None THEN None ELSE Offer(feeds[n][t], FeedSize, e)]]
        BY <1>1, <1>3, <3>2, <4>1 DEF Publish
      <4>3. p # n => feeds'[p] = feeds[p]
        BY <1>3, <4>1, <4>2
      <4>4. p = n => feeds'[p][s] = IF feeds[n][s] = None THEN None
                                    ELSE Offer(feeds[n][s], FeedSize, e)
        BY <1>3, <4>1, <4>2
      <4> QED
        BY <4>3, <4>4
    <3> QED
      BY <3>1, <3>2
  <2>3. feeds'[p][s] # None
    BY <2>1 DEF Closed
  <2>4. feeds[p][s] # None
    BY <2>2, <2>3
  <2>5. s \in Streams \ Closed(p) /\ feeds[p][s] \in Seq(Events)
    BY <1>3, <2>1, <2>4 DEF Closed
  <2>6. x \in Range(feeds[p][s])
    BY <1>4, <1>5, <2>1, <2>2, <2>5
  <2> QED
    BY <2>5, <2>6 DEF Pending
<1> QED
  BY <1>6, <1>7 DEF Pending

LEMMA PublishOnce ==
    ASSUME Types, OnceInv, NEW n \in Nodes, Publish(n)
    PROVE  OnceInv'
<1>1. PICK e : e = Len(origins) + 1
  OBVIOUS
<1>2. /\ Events' = Events \cup {e} /\ e \notin Events
      /\ \A x \in Events : origins'[x] = origins[x]
  BY <1>1, PublishedEvent DEF Publish
<1>3. UNCHANGED <<queues, handling, shown, recent>>
  BY DEF Publish
<1>4. \A x, m : Sent(x, m)' = Sent(x, m)
  BY <1>3 DEF Sent
<1>5. PendingInv'
  <2>1. \A m \in Nodes : ~ Sent(e, m)
    BY <1>2, NodeParts
  <2> QED
    BY <1>2, <1>3, <1>4, <2>1, PublishPending DEF OnceInv, PendingInv
<1>6. ASSUME NEW m \in Nodes
      PROVE  OnceAt(m)'
  <2>1. /\ OnceAt(m) /\ Range(shown[m]) \subseteq Events /\ Range(queues[m]) \subseteq Events
        /\ \A d \in handling[m] : d.event \in Events
    BY NodeParts, RangeLemma DEF OnceInv
  <2> QED
    BY <1>2, <1>3, <1>4, <2>1 DEF OnceAt
<1> QED
  BY <1>5, <1>6 DEF OnceInv

LEMMA FeedPending ==
    ASSUME Types, NEW p \in Managed, FeedOpens(p) \/ FeedCloses(p) \/ FeedDelivers(p),
           NEW x \in Events, Pending(x)'
    PROVE  Pending(x)
<1>1. /\ feeds \in [Managed -> [Streams -> Seq(Events) \cup {None}]]
      /\ route \in Seq(Events)
  BY DEF Types, FlowTypes
<1>2. ASSUME NEW s \in Streams, NEW q, feeds' = [feeds EXCEPT ![p][s] = q],
             q # None => Range(q) \subseteq {e \in Events : Pending(e)},
             \A e \in Range(route') : e \in Events => Pending(e)
      PROVE  \A e \in Events : Pending(e)' => Pending(e)
  <2> SUFFICES ASSUME NEW e \in Events, Pending(e)'
               PROVE  Pending(e)
    OBVIOUS
  <2>1. CASE e \in Range(route')
    BY <1>2, <2>1
  <2>2. CASE \E r \in Managed : \E t \in Streams \ Closed(r)' : e \in Range(feeds'[r][t])
    <3>0. PICK r \in Managed : \E t \in Streams \ Closed(r)' : e \in Range(feeds'[r][t])
      BY <2>2
    <3>1. PICK t \in Streams \ Closed(r)' : e \in Range(feeds'[r][t])
      BY <3>0
    <3>2. feeds'[r][t] # None
      BY <3>1 DEF Closed
    <3>3. feeds'[r][t] = feeds[r][t] \/ feeds'[r][t] = q
      BY <1>1, <1>2
    <3>4. CASE feeds'[r][t] = feeds[r][t]
      BY <3>1, <3>2, <3>4 DEF Pending, Closed
    <3>5. CASE feeds'[r][t] = q
      BY <1>2, <3>1, <3>2, <3>5
    <3> QED
      BY <3>3, <3>4, <3>5
  <2> QED
    BY <2>1, <2>2 DEF Pending
<1>3. CASE FeedOpens(p)
  <2>1. PICK s \in Closed(p) : feeds' = [feeds EXCEPT ![p][s] = <<>>]
    BY <1>3 DEF FeedOpens
  <2>2. s \in Streams /\ route' = route
    BY <1>3 DEF FeedOpens, Closed
  <2> QED
    BY <1>2, <2>1, <2>2, EmptyLemma DEF Pending
<1>4. CASE FeedCloses(p)
  <2>1. PICK s \in Streams \ Closed(p) : feeds' = [feeds EXCEPT ![p][s] = None]
    BY <1>4 DEF FeedCloses
  <2>2. route' = route
    BY <1>4 DEF FeedCloses
  <2> QED
    BY <1>2, <2>1, <2>2 DEF Pending
<1>5. CASE FeedDelivers(p)
  <2>1. PICK s \in Streams \ Closed(p) :
            /\ feeds[p][s] # <<>>
            /\ route' = Offer(route, RouteSize, Head(feeds[p][s]))
            /\ feeds' = [feeds EXCEPT ![p][s] = Tail(@)]
    BY <1>5 DEF FeedDelivers
  <2>2. feeds[p][s] \in Seq(Events)
    BY <1>1, <2>1 DEF Closed
  <2>3. /\ Head(feeds[p][s]) \in Range(feeds[p][s]) /\ Head(feeds[p][s]) \in Events
        /\ Range(Tail(feeds[p][s])) \subseteq Range(feeds[p][s])
    BY <2>1, <2>2, TailLemma
  <2>4. Range(feeds[p][s]) \subseteq {e \in Events : Pending(e)}
    BY <2>1, <2>2, RangeLemma DEF Pending
  <2>5. Range(route') \subseteq Range(route) \cup {Head(feeds[p][s])}
    BY <1>1, <2>1, <2>3, OfferLemma
  <2>6. \A e \in Range(route') : e \in Events => Pending(e)
    BY <2>3, <2>4, <2>5 DEF Pending
  <2>7. feeds' = [feeds EXCEPT ![p][s] = Tail(feeds[p][s])]
    BY <1>1, <2>1
  <2> QED
    BY <1>2, <2>1, <2>3, <2>4, <2>6, <2>7
<1> QED
  BY <1>3, <1>4, <1>5

LEMMA FeedOnce ==
    ASSUME Types, OnceInv, NEW p \in Managed,
           FeedOpens(p) \/ FeedCloses(p) \/ FeedDelivers(p)
    PROVE  OnceInv'
<1>1. UNCHANGED <<origins, queues, handling, shown, recent>>
  BY DEF FeedOpens, FeedCloses, FeedDelivers
<1> QED
  BY <1>1, FeedPending, OnceKept

LEMMA RouteOnce == ASSUME Types, OnceInv, Route PROVE OnceInv'
<1>1. PICK e : e = Head(route)
  OBVIOUS
<1>2. /\ route \in Seq(Events) /\ queues \in [Nodes -> Seq(Events)] /\ route # <<>>
      /\ recent \in [Nodes -> SUBSET Events] /\ Controller \in Nodes
  BY DEF Types, FlowTypes, NodeTypes, Route, Nodes
<1>3. /\ e \in Events /\ e \in Range(route) /\ Range(Tail(route)) \subseteq Range(route)
  BY <1>1, <1>2, TailLemma
<1>4. /\ UNCHANGED <<origins, feeds, handling, shown>> /\ route' = Tail(route)
  BY DEF Route
<1>5. \A x : Pending(x)' => Pending(x)
  BY <1>3, <1>4 DEF Pending, Closed
<1>6. CASE e \in recent[Controller]
  <2>1. UNCHANGED <<queues, recent>>
    BY <1>1, <1>6 DEF Route
  <2> QED
    BY <1>4, <1>5, <2>1, OnceKept
<1>7. CASE e \notin recent[Controller]
  <2>1. /\ recent' = [recent EXCEPT ![Controller] = @ \cup {e}]
        /\ queues' = [n \in Nodes |->
               IF n \in Destinations(e) THEN Offer(queues[n], QueueSize, e) ELSE queues[n]]
    BY <1>1, <1>7 DEF Route
  <2>2. recent'[Controller] = recent[Controller] \cup {e}
    BY <1>2, <2>1
  <2>3. \A x, m : Sent(x, m)' = Sent(x, m)
    BY <1>4 DEF Sent
  <2>4. \A m \in Nodes : ~ Sent(e, m)
    BY <1>3, <1>7 DEF OnceInv, PendingInv, Pending
  <2>5. PendingInv'
    BY <1>4, <1>5, <2>2, <2>3 DEF OnceInv, PendingInv, Events
  <2>6. ASSUME NEW n \in Nodes
        PROVE  OnceAt(n)'
    <3>1. OnceAt(n) /\ e \notin Range(queues[n])
      BY <1>7 DEF OnceInv, OnceAt
    <3>2. CASE n \in Destinations(e)
      <4>1. queues'[n] = Offer(queues[n], QueueSize, e) /\ origins[e] # n
        BY <2>1, <3>2 DEF Destinations
      <4>2. IsInjective(queues'[n]) /\ Range(queues'[n]) \subseteq Range(queues[n]) \cup {e}
        BY <1>2, <1>3, <3>1, <4>1, OfferLemma DEF OnceAt
      <4> QED
        BY <1>4, <2>2, <2>3, <2>4, <3>1, <4>1, <4>2 DEF OnceAt
    <3>3. CASE n \notin Destinations(e)
      <4>1. queues'[n] = queues[n]
        BY <2>1, <3>3
      <4> QED
        BY <1>4, <2>2, <2>3, <3>1, <4>1 DEF OnceAt
    <3> QED
      BY <3>2, <3>3
  <2> QED
    BY <2>5, <2>6 DEF OnceInv
<1> QED
  BY <1>6, <1>7

LEMMA DeliverOnce ==
    ASSUME Types, OnceInv, NEW n \in Nodes, Deliver(n)
    PROVE  OnceInv'
<1>1. PICK e : e = Head(queues[n])
  OBVIOUS
<1>2. /\ queues[n] # <<>> /\ queues' = [queues EXCEPT ![n] = Tail(@)]
      /\ UNCHANGED <<origins, feeds, route, recent, shown>>
  BY DeliverSends
<1>3. /\ queues \in [Nodes -> Seq(Events)] /\ handling \in [Nodes -> SUBSET Deliveries]
  BY DEF Types, FlowTypes, NodeTypes
<1>4. /\ queues'[n] = Tail(queues[n]) /\ \A m \in Nodes \ {n} : queues'[m] = queues[m]
  BY <1>2, <1>3
<1>5. OnceAt(n)
  BY DEF OnceInv
<1>6. /\ e \in Events /\ e \in Range(queues[n]) /\ Range(queues'[n]) \subseteq Range(queues[n])
      /\ IsInjective(queues'[n]) /\ e \notin Range(queues'[n])
  BY <1>1, <1>2, <1>3, <1>4, <1>5, TailLemma DEF OnceAt
<1>7. origins[e] # n /\ ~ Sent(e, n) /\ e \in recent[Controller]
  BY <1>5, <1>6 DEF OnceAt
<1>8. \A m \in Nodes : \A x : Sent(x, m)' => Sent(x, m) \/ (m = n /\ x = e)
  BY <1>1, DeliverSent
<1>9. \/ handling' = handling
      \/ \E c \in BOOLEAN : handling' = [handling EXCEPT ![n] = @ \cup
                                {[event |-> e, checked |-> c]}]
  BY <1>1, DeliverSends
<1>10. PendingInv'
  <2>1. \A x : Pending(x)' = Pending(x)
    BY <1>2 DEF Pending, Closed
  <2>2. Events' = Events
    BY <1>2 DEF Events
  <2> QED
    BY <1>2, <1>7, <1>8, <2>1, <2>2 DEF OnceInv, PendingInv
<1>11. ASSUME NEW m \in Nodes, m # n
       PROVE  OnceAt(m)'
  <2>1. handling'[m] = handling[m] /\ queues'[m] = queues[m]
    BY <1>3, <1>4, <1>9, <1>11
  <2>2. OnceAt(m)
    BY DEF OnceInv
  <2> QED
    BY <1>2, <1>8, <1>11, <2>1, <2>2 DEF OnceAt
<1>12. OnceAt(n)'
  <2>1. \A d \in handling'[n] : d \in handling[n] \/ d.event = e
    BY <1>3, <1>9
  <2>2. \A d \in handling[n] : d.event # e
    BY <1>7 DEF Sent
  <2>3. \A c, d \in handling'[n] : c.event = d.event => c = d
    <3>1. CASE handling' = handling
      BY <1>5, <3>1 DEF OnceAt
    <3>2. CASE handling' # handling
      <4>1. PICK c \in BOOLEAN : handling' = [handling EXCEPT ![n] = @ \cup
                                {[event |-> e, checked |-> c]}]
        BY <1>9, <3>2
      <4>2. handling'[n] = handling[n] \cup {[event |-> e, checked |-> c]}
        BY <1>3, <4>1
      <4> QED
        BY <1>5, <2>2, <4>2 DEF OnceAt
    <3> QED
      BY <3>1, <3>2
  <2>4. e \notin Range(shown[n])
    BY <1>7 DEF Sent
  <2>5. \A d \in handling'[n] : origins[d.event] # n /\ d.event \notin Range(shown[n])
    BY <1>5, <1>7, <2>1, <2>4 DEF OnceAt
  <2>6. \A x \in Range(queues'[n]) : ~ Sent(x, n)' /\ origins[x] # n /\ x \in recent[Controller]
    BY <1>5, <1>6, <1>8 DEF OnceAt
  <2> QED
    BY <1>2, <1>5, <1>6, <2>3, <2>5, <2>6 DEF OnceAt
<1> QED
  BY <1>10, <1>11, <1>12 DEF OnceInv

LEMMA GoesOnOnce ==
    ASSUME Types, OnceInv, NEW n \in Nodes, Check(n) \/ Show(n) \/ Lost(n) \/ GiveUp(n)
    PROVE  OnceInv'
<1>1. /\ UNCHANGED <<sync, origins, feeds, route, queues, barred>>
      /\ \A m \in Nodes : recent[m] \subseteq recent'[m]
      /\ \A m \in Nodes : \A d \in handling'[m] : \E c \in handling[m] : c.event = d.event
  BY DeliveryGoesOn
<1>2. \A m \in Nodes : \A x : Sent(x, m)' => Sent(x, m)
  BY NothingNewSent
<1>3. PendingInv'
  <2>1. \A x : Pending(x)' = Pending(x)
    BY <1>1 DEF Pending, Closed
  <2>2. Events' = Events /\ Controller \in Nodes
    BY <1>1 DEF Events, Nodes
  <2> QED
    BY <1>1, <1>2, <2>1, <2>2 DEF OnceInv, PendingInv
<1>4. ASSUME NEW m \in Nodes
      PROVE  OnceAt(m)'
  <2>1. OnceAt(m) /\ Controller \in Nodes
    BY DEF OnceInv, Nodes
  <2>2. \A c, d \in handling'[m] : c.event = d.event => c = d
    BY <2>1, DeliveryGoesOn DEF OnceAt
  <2>3. \A e \in Range(queues'[m]) :
            origins'[e] # m /\ ~ Sent(e, m)' /\ e \in recent'[Controller]
    BY <1>1, <1>2, <2>1 DEF OnceAt
  <2>4. \A d \in handling'[m] : origins'[d.event] # m
    BY <1>1, <2>1 DEF OnceAt
  <2>5. CASE shown'[m] = shown[m]
    <3>1. \A d \in handling'[m] : d.event \notin Range(shown[m])
      BY <1>1, <2>1 DEF OnceAt
    <3> QED
      BY <1>1, <2>1, <2>2, <2>3, <2>4, <2>5, <3>1 DEF OnceAt
  <2>6. CASE shown'[m] # shown[m]
    <3>1. PICK d \in handling[n] : /\ shown' = [shown EXCEPT ![n] = Append(@, d.event)]
                                   /\ handling' = [handling EXCEPT ![n] = @ \ {d}]
      BY <2>6, DeliveryGoesOn
    <3>2. /\ shown \in [Nodes -> Seq(Events)] /\ handling \in [Nodes -> SUBSET Deliveries]
          /\ d.event \in Events
      BY NodeParts DEF Types, NodeTypes
    <3>3. m = n
      BY <2>6, <3>1, <3>2
    <3>4. shown'[m] = Append(shown[m], d.event) /\ handling'[m] = handling[m] \ {d}
      BY <3>1, <3>2, <3>3
    <3>5. /\ Range(shown'[m]) = Range(shown[m]) \cup {d.event}
          /\ IsInjective(shown'[m])
      BY <2>1, <3>1, <3>2, <3>3, <3>4, AppendLemma DEF OnceAt
    <3>6. \A c \in handling'[m] : c.event \notin Range(shown'[m])
      BY <2>1, <3>1, <3>3, <3>4, <3>5 DEF OnceAt
    <3>7. \A e \in Range(shown'[m]) : origins'[e] # m
      BY <1>1, <2>1, <3>1, <3>3, <3>5 DEF OnceAt
    <3> QED
      BY <1>1, <2>1, <2>2, <2>3, <2>4, <3>5, <3>6, <3>7 DEF OnceAt
  <2> QED
    BY <2>5, <2>6
<1> QED
  BY <1>3, <1>4 DEF OnceInv

LEMMA RestartPending ==
    ASSUME Types, NEW p \in Managed, RestartManaged(p), NEW e, Pending(e)'
    PROVE  Pending(e)
<1>1. \A r \in Managed, s \in Streams :
          feeds'[r][s] = feeds[r][s] \/ feeds'[r][s] = None
  BY DEF RestartManaged, Types, FlowTypes
<1> QED
  BY <1>1 DEF RestartManaged, Pending, Closed

LEMMA RestartOnce ==
    ASSUME Types, OnceInv, RestartController \/ \E p \in Managed : RestartManaged(p)
    PROVE  OnceInv'
<1>1. /\ \A m \in Nodes : handling'[m] \subseteq handling[m]
      /\ shown' = shown /\ origins' = origins
      /\ \A m \in Nodes : \A e : Sent(e, m)' => Sent(e, m)
  BY RestartSends DEF RestartController, RestartManaged
<1>2. Events' = Events
  BY <1>1 DEF Events
<1>3. CASE RestartController
  <2>1. /\ route' = <<>> /\ feeds' = [p \in Managed |-> [s \in Streams |-> None]]
        /\ queues' = [n \in Nodes |-> <<>>]
    BY <1>3 DEF RestartController
  <2>2. \A e : ~ Pending(e)'
    BY <2>1, EmptyLemma DEF Pending, Closed
  <2>3. PendingInv'
    BY <2>2 DEF PendingInv
  <2>4. ASSUME NEW m \in Nodes
        PROVE  OnceAt(m)'
    <3>1. OnceAt(m) /\ Range(queues'[m]) = {} /\ IsInjective(queues'[m])
      BY <2>1, EmptyLemma DEF OnceInv
    <3> QED
      BY <1>1, <3>1 DEF OnceAt
  <2> QED
    BY <2>3, <2>4 DEF OnceInv
<1>4. ASSUME NEW p \in Managed, RestartManaged(p)
      PROVE  OnceInv'
  <2>1. /\ UNCHANGED <<route, queues>> /\ recent'[Controller] = recent[Controller]
        /\ feeds' = [feeds EXCEPT ![p] = [s \in Streams |-> None]]
    BY <1>4, NodeAssumption DEF RestartManaged, Types, NodeTypes, Nodes
  <2>2. \A e : Pending(e)' => Pending(e)
    BY <1>4, RestartPending
  <2>3. PendingInv'
    BY <1>1, <1>2, <2>1, <2>2 DEF OnceInv, PendingInv
  <2>4. ASSUME NEW m \in Nodes
        PROVE  OnceAt(m)'
    <3>1. OnceAt(m)
      BY DEF OnceInv
    <3> QED
      BY <1>1, <2>1, <3>1 DEF OnceAt
  <2> QED
    BY <2>3, <2>4 DEF OnceInv
<1> QED
  BY <1>3, <1>4

LEMMA OnceStep == ASSUME Types, OnceInv, Next PROVE OnceInv'
<1>1. ASSUME NEW n \in Nodes, Publish(n) \/ Delivery(n)
      PROVE  OnceInv'
  BY <1>1, PublishOnce, DeliverOnce, GoesOnOnce DEF Delivery
<1>2. ASSUME NEW p \in Managed, FeedOpens(p) \/ FeedDelivers(p) \/ FeedCloses(p)
      PROVE  OnceInv'
  BY <1>2, FeedOnce
<1>3. CASE (\E n \in Nodes : SetSync(n)) \/ \E p \in Managed : SetLocal(p)
  <2>1. UNCHANGED <<origins, feeds, route, recent, queues, handling, shown>>
    BY <1>3 DEF SetSync, SetLocal
  <2>2. \A e : Pending(e)' = Pending(e)
    BY <2>1 DEF Pending, Closed
  <2> QED
    BY <2>1, <2>2, OnceKept
<1> QED
  BY <1>1, <1>2, <1>3, RouteOnce, RestartOnce DEF Next, Undisturbed, Disturbance

-----------------------------------------------------------------------------
(* The invariants, and what they give *)

LEMMA Initially == Init => Types /\ SilentInv /\ OnceInv
<1> SUFFICES ASSUME Init PROVE Types /\ SilentInv /\ OnceInv
  OBVIOUS
<1>1. Types
  <2>1. \A S : <<>> \in Seq(S)
    BY EmptyLemma
  <2> QED
    BY <2>1 DEF Init, Types, FlowTypes, NodeTypes
<1>2. SilentInv
  BY DEF Init, SilentInv
<1>3. \A n \in Nodes : OnceAt(n)
  BY EmptyLemma DEF Init, OnceAt
<1>4. PendingInv
  BY EmptyLemma DEF Init, PendingInv, Pending, Closed
<1> QED
  BY <1>1, <1>2, <1>3, <1>4 DEF OnceInv

LEMMA Invariance == Spec => [](Types /\ SilentInv /\ OnceInv)
<1>1. Types /\ SilentInv /\ OnceInv /\ [Next]_vars => (Types /\ SilentInv /\ OnceInv)'
  <2> SUFFICES ASSUME Types, SilentInv, OnceInv, [Next]_vars
               PROVE  Types' /\ SilentInv' /\ OnceInv'
    OBVIOUS
  <2>1. CASE Next
    BY <2>1, TypeStep, SilentStep, OnceStep
  <2>2. CASE UNCHANGED vars
    <3>1. UNCHANGED <<origins, feeds, route, queues, sync, handling, shown, recent, barred>>
      BY <2>2 DEF vars, settings
    <3>2. Types'
      BY <3>1 DEF Types, FlowTypes, NodeTypes, Events, Deliveries
    <3>3. SilentInv'
      BY <3>1 DEF SilentInv, Allowed, Sent
    <3>4. \A e : Pending(e)' = Pending(e)
      BY <3>1 DEF Pending, Closed
    <3> QED
      BY <3>1, <3>2, <3>3, <3>4, OnceKept
  <2> QED
    BY <2>1, <2>2
<1> QED
  BY <1>1, Initially, PTL DEF Spec

\* What the controller switched off for an event's origin or its destination,
\* before the event was sent, is not sent to that destination's players,
\* wherever in the queues it was (fleetDeliveryLoop's second look).
THEOREM OffStaysSilent == Spec => []OffIsSilent
<1>1. SilentInv => OffIsSilent
  BY DEF SilentInv, OffIsSilent
<1> QED
  BY <1>1, Invariance, PTL

\* Players see an event once and none of their own server's, with any number of
\* streams of a node, deliveries given up and managers that restart.
THEOREM EachShownOnce == Spec => []ShownOnce
<1>1. OnceInv => ShownOnce
  BY DEF OnceInv, OnceAt, ShownOnce
<1> QED
  BY <1>1, Invariance, PTL

-----------------------------------------------------------------------------
(* Order: the lemmas *)

\* A sequence in the order of a relation, and two sets of which one goes first.
Sorted(q, R) == \A i, j \in DOMAIN q : i < j => <<q[i], q[j]>> \in R
First(S, T, R) == \A x \in S, y \in T : <<x, y>> \in R

LEMMA SortedAppend ==
    ASSUME NEW S, NEW q \in Seq(S), NEW R, NEW e, Sorted(q, R), First(Range(q), {e}, R)
    PROVE  Sorted(Append(q, e), R)
BY DEF Sorted, First, Range

LEMMA SortedTail ==
    ASSUME NEW S, NEW q \in Seq(S), NEW R, Sorted(q, R), q # <<>>
    PROVE  Sorted(Tail(q), R) /\ First({Head(q)}, Range(Tail(q)), R)
<1>1. Sorted(Tail(q), R)
  BY DEF Sorted
<1>2. ASSUME NEW y \in Range(Tail(q))
      PROVE  <<Head(q), y>> \in R
  <2>1. PICK i \in DOMAIN Tail(q) : y = Tail(q)[i]
    BY DEF Range
  <2>2. /\ i + 1 \in DOMAIN q /\ 1 \in DOMAIN q /\ 1 < i + 1
        /\ y = q[i + 1] /\ Head(q) = q[1]
    BY <2>1
  <2> QED
    BY <2>2 DEF Sorted
<1> QED
  BY <1>1, <1>2 DEF First

LEMMA SortedEmpty == \A R : Sorted(<<>>, R)
<1>1. DOMAIN <<>> = {}
  OBVIOUS
<1> QED
  BY <1>1 DEF Sorted

\* A relation that holds for as many pairs of the sequence.
LEMMA SortedMore ==
    ASSUME NEW q, NEW R, NEW Q, Sorted(q, R),
           \A x, y \in Range(q) : <<x, y>> \in R => <<x, y>> \in Q
    PROVE  Sorted(q, Q)
BY DEF Sorted, Range

\* A sequence that may have grown.
Grown(p, q, e) == p = q \/ p = Append(q, e)

LEMMA SortedGrown ==
    ASSUME NEW S, NEW q \in Seq(S), NEW e \in S, NEW R, Sorted(q, R), First(Range(q), {e}, R),
           NEW p, Grown(p, q, e)
    PROVE  p \in Seq(S) /\ Sorted(p, R) /\ Range(p) \subseteq Range(q) \cup {e}
<1>1. CASE p = q
  BY <1>1
<1>2. CASE p = Append(q, e)
  <2>1. Append(q, e) \in Seq(S) /\ Range(Append(q, e)) = Range(q) \cup {e}
    BY AppendLemma
  <2>2. Sorted(Append(q, e), R)
    BY SortedAppend
  <2> QED
    BY <1>2, <2>1, <2>2
<1> QED
  BY <1>1, <1>2 DEF Grown

\* What a queue holds after a send, unless there is no room.
LEMMA OfferCases == \A q, size, e : Offer(q, size, e) \in {q, Append(q, e)}
BY DEF Offer

-----------------------------------------------------------------------------
(* The order of publication, up to the controller *)

\* Two events go in turn if they are not of the same node, or of one that had two
\* streams, or in the order of their publication.
InTurn == {b \in Events \X Events :
               origins[b[1]] = origins[b[2]] /\ origins[b[1]] \notin doubled => b[1] < b[2]}
Open(p) == Streams \ Closed(p)

FeedInTurn(p, s) ==
    /\ Sorted(feeds[p][s], InTurn)
    /\ \A e \in Range(feeds[p][s]) : origins[e] = p
    /\ First(Range(routed), Range(feeds[p][s]), InTurn)
    /\ First(Range(route), Range(feeds[p][s]), InTurn)
TurnInv ==
    /\ routed \in Seq(Events)
    /\ Sorted(routed, InTurn) /\ Sorted(route, InTurn)
    /\ First(Range(routed), Range(route), InTurn)
    /\ \A p \in Managed : \A s \in Open(p) : FeedInTurn(p, s)
    /\ \A p \in Managed \ doubled : \A s, t \in Open(p) : s = t

LEMMA FlowParts ==
    ASSUME Types
    PROVE  /\ route \in Seq(Events) /\ Range(route) \subseteq Events
           /\ \A p \in Managed : \A s \in Open(p) :
                  feeds[p][s] \in Seq(Events) /\ Range(feeds[p][s]) \subseteq Events
           /\ \A p \in Managed : \A s \in Streams : s \in Open(p) <=> feeds[p][s] # None
<1>1. /\ feeds \in [Managed -> [Streams -> Seq(Events) \cup {None}]] /\ route \in Seq(Events)
  BY DEF Types, FlowTypes
<1>2. \A p \in Managed : \A s \in Streams : s \in Open(p) <=> feeds[p][s] # None
  BY DEF Open, Closed
<1>3. \A p \in Managed : \A s \in Open(p) : feeds[p][s] \in Seq(Events)
  BY <1>1, <1>2 DEF Open
<1> QED
  BY <1>1, <1>2, <1>3, RangeLemma

\* Streams close and queues are emptied, or nothing of all that happens.
LEMMA TurnKept ==
    ASSUME Types, TurnInv, UNCHANGED <<origins, doubled, routed>>,
           route' = route \/ route' = <<>>,
           \A p \in Managed, s \in Streams : feeds'[p][s] \in {feeds[p][s], None}
    PROVE  TurnInv'
<1>1. InTurn' = InTurn /\ Events' = Events
  BY DEF InTurn, Events
<1>2. \A p \in Managed : \A s \in Open(p)' : s \in Open(p) /\ feeds'[p][s] = feeds[p][s]
  BY DEF Open, Closed
<1>3. Sorted(route', InTurn) /\ Range(route') \subseteq Range(route)
  BY SortedEmpty, EmptyLemma DEF TurnInv
<1>4. ASSUME NEW p \in Managed, NEW s \in Open(p)'
      PROVE  FeedInTurn(p, s)'
  BY <1>1, <1>2, <1>3 DEF TurnInv, FeedInTurn, First
<1> QED
  BY <1>1, <1>2, <1>3, <1>4 DEF TurnInv, First

LEMMA PublishTurn ==
    ASSUME Types, TurnInv, NEW n \in Nodes, Publish(n)
    PROVE  TurnInv'
<1>1. PICK e : e = Len(origins) + 1
  OBVIOUS
<1>2. /\ Events' = Events \cup {e} /\ e \notin Events /\ origins'[e] = n
      /\ \A x \in Events : origins'[x] = origins[x]
      /\ Seq(Events) \subseteq Seq(Events')
  BY <1>1, PublishedEvent DEF Publish
<1>3. doubled' = doubled /\ routed' = routed
  BY DEF Publish
<1>4. InTurn \subseteq InTurn'
  BY <1>2, <1>3 DEF InTurn
<1>5. \A x \in Events : <<x, e>> \in InTurn'
  <2>1. \A x \in Events : x < e
    BY <1>1, EventsAreNumbers
  <2> QED
    BY <1>2, <2>1 DEF InTurn
<1>6. Range(routed) \subseteq Events
  BY RangeLemma DEF TurnInv
<1>7. route' = route \/ (n = Controller /\ route' = Append(route, e))
  BY <1>1, OfferCases DEF Publish
<1>8. /\ Range(route) \subseteq Events /\ Range(route') \subseteq Range(route) \cup {e}
      /\ Sorted(route', InTurn')
  <2>1. Sorted(route, InTurn') /\ First(Range(route), {e}, InTurn')
    BY <1>4, <1>5, FlowParts, SortedMore DEF TurnInv, First
  <2>2. route \in Seq(Events \cup {e}) /\ e \in Events \cup {e}
    BY FlowParts
  <2>3. Grown(route', route, e)
    BY <1>7 DEF Grown
  <2>4. Sorted(route', InTurn') /\ Range(route') \subseteq Range(route) \cup {e}
    BY <2>1, <2>2, <2>3, SortedGrown
  <2> QED
    BY <2>4, FlowParts
<1>9. ASSUME NEW p \in Managed, NEW s \in Open(p)'
      PROVE  /\ s \in Open(p)
             /\ \/ feeds'[p][s] = feeds[p][s]
                \/ p = n /\ feeds'[p][s] = Append(feeds[p][s], e)
  <2>1. feeds \in [Managed -> [Streams -> Seq(Events) \cup {None}]]
    BY DEF Types, FlowTypes
  <2>2. s \in Streams /\ feeds'[p][s] # None
    BY DEF Open, Closed
  <2>3. CASE n = Controller
    BY <2>2, <2>3 DEF Publish, Open, Closed
  <2>4. CASE n # Controller
    <3>1. feeds' = [feeds EXCEPT ![n] = [t \in Streams |->
              IF feeds[n][t] = None THEN None ELSE Offer(feeds[n][t], FeedSize, e)]]
      BY <1>1, <2>1, <2>4 DEF Publish, Nodes
    <3>2. CASE p # n
      BY <2>1, <2>2, <3>1, <3>2 DEF Open, Closed
    <3>3. CASE p = n
      <4>1. feeds'[p][s] = IF feeds[p][s] = None THEN None
                           ELSE Offer(feeds[p][s], FeedSize, e)
        BY <2>1, <2>2, <3>1, <3>3
      <4> QED
        BY <2>2, <3>3, <4>1, OfferCases DEF Open, Closed
    <3> QED
      BY <3>2, <3>3
  <2> QED
    BY <2>3, <2>4
<1>10. ASSUME NEW p \in Managed, NEW s \in Open(p)'
       PROVE  FeedInTurn(p, s)'
  <2>1. /\ s \in Open(p) /\ FeedInTurn(p, s) /\ feeds[p][s] \in Seq(Events)
        /\ Range(feeds[p][s]) \subseteq Events
    BY <1>9, FlowParts DEF TurnInv
  <2>2. Sorted(feeds[p][s], InTurn') /\ First(Range(feeds[p][s]), {e}, InTurn')
    BY <1>4, <1>5, <2>1, SortedMore DEF FeedInTurn, First
  <2>3. feeds[p][s] \in Seq(Events \cup {e}) /\ e \in Events \cup {e}
    BY <2>1
  <2>4. /\ Sorted(feeds'[p][s], InTurn')
        /\ Range(feeds'[p][s]) \subseteq Range(feeds[p][s]) \cup {e}
        /\ e \in Range(feeds'[p][s]) => p = n
    <3>1. Grown(feeds'[p][s], feeds[p][s], e)
      BY <1>9 DEF Grown
    <3>2. /\ Sorted(feeds'[p][s], InTurn')
          /\ Range(feeds'[p][s]) \subseteq Range(feeds[p][s]) \cup {e}
      BY <2>2, <2>3, <3>1, SortedGrown
    <3>3. e \notin Range(feeds[p][s])
      BY <1>2, <2>1
    <3> QED
      BY <1>9, <3>2, <3>3
  <2>5. \A x \in Range(feeds'[p][s]) : origins'[x] = p
    BY <1>2, <2>1, <2>4 DEF FeedInTurn
  <2>6. First(Range(routed'), Range(feeds'[p][s]), InTurn')
    BY <1>3, <1>4, <1>5, <1>6, <2>1, <2>4 DEF FeedInTurn, First
  <2>7. First(Range(route'), Range(feeds'[p][s]), InTurn')
    <3>1. First(Range(route), Range(feeds'[p][s]), InTurn')
      BY <1>4, <1>5, <1>8, <2>1, <2>4 DEF FeedInTurn, First
    <3>2. CASE n = Controller
      <4>1. n # p
        BY <3>2, NodeAssumption
      <4>2. \A y \in Range(feeds'[p][s]) : <<e, y>> \in InTurn'
        BY <1>2, <2>1, <2>4, <2>5, <4>1 DEF InTurn
      <4> QED
        BY <1>8, <3>1, <4>2 DEF First
    <3> QED
      BY <1>7, <3>1, <3>2
  <2> QED
    BY <2>4, <2>5, <2>6, <2>7 DEF FeedInTurn
<1>11. Sorted(routed', InTurn') /\ routed' \in Seq(Events')
  BY <1>2, <1>3, <1>4, SortedMore DEF TurnInv
<1>12. First(Range(routed'), Range(route'), InTurn')
  BY <1>3, <1>4, <1>5, <1>6, <1>8 DEF TurnInv, First
<1> QED
  BY <1>3, <1>8, <1>9, <1>10, <1>11, <1>12 DEF TurnInv

LEMMA FeedTurn ==
    ASSUME Types, TurnInv, NEW p \in Managed,
           FeedOpens(p) \/ FeedCloses(p) \/ FeedDelivers(p)
    PROVE  TurnInv'
<1>1. feeds \in [Managed -> [Streams -> Seq(Events) \cup {None}]]
  BY DEF Types, FlowTypes
<1>2. origins' = origins /\ routed' = routed /\ Events' = Events
  BY DEF FeedOpens, FeedCloses, FeedDelivers, Events
<1>3. CASE FeedOpens(p)
  <2>1. PICK s \in Closed(p) : feeds' = [feeds EXCEPT ![p][s] = <<>>]
    BY <1>3 DEF FeedOpens
  <2>2. /\ route' = route /\ doubled \subseteq doubled'
        /\ Closed(p) = Streams \/ p \in doubled'
    BY <1>3 DEF FeedOpens
  <2>3. InTurn \subseteq InTurn'
    BY <1>2, <2>2 DEF InTurn
  <2>4. s \in Streams
    BY DEF Closed
  <2>5. ASSUME NEW r \in Managed, NEW t \in Open(r)'
        PROVE  /\ r # p \/ t # s => t \in Open(r) /\ feeds'[r][t] = feeds[r][t]
               /\ r = p /\ t = s => feeds'[r][t] = <<>>
    BY <1>1, <2>1, <2>4 DEF Open, Closed
  <2>6. ASSUME NEW r \in Managed, NEW t \in Open(r)'
        PROVE  FeedInTurn(r, t)'
    <3>1. CASE r # p \/ t # s
      BY <1>2, <2>2, <2>3, <2>5, <3>1, SortedMore DEF TurnInv, FeedInTurn, First
    <3>2. CASE r = p /\ t = s
      BY <2>5, <3>2, SortedEmpty, EmptyLemma DEF FeedInTurn, First
    <3> QED
      BY <3>1, <3>2
  <2>7. ASSUME NEW r \in Managed \ doubled', NEW t \in Open(r)', NEW u \in Open(r)'
        PROVE  t = u
    <3>1. CASE r # p
      BY <2>2, <2>5, <3>1 DEF TurnInv
    <3>2. CASE r = p
      BY <2>2, <2>5, <3>2 DEF Open
    <3> QED
      BY <3>1, <3>2
  <2> QED
    BY <1>2, <2>2, <2>3, <2>6, <2>7, SortedMore DEF TurnInv, First
<1>4. CASE FeedCloses(p)
  <2>1. UNCHANGED <<doubled, route>>
    BY <1>4 DEF FeedCloses
  <2>2. \A r \in Managed, s \in Streams : feeds'[r][s] \in {feeds[r][s], None}
    BY <1>1, <1>4 DEF FeedCloses
  <2> QED
    BY <1>2, <2>1, <2>2, TurnKept
<1>5. CASE FeedDelivers(p)
  <2>1. PICK s \in Open(p) :
            /\ feeds[p][s] # <<>>
            /\ route' = Offer(route, RouteSize, Head(feeds[p][s]))
            /\ feeds' = [feeds EXCEPT ![p][s] = Tail(@)]
    BY <1>5 DEF FeedDelivers, Open
  <2> DEFINE e == Head(feeds[p][s])
  <2>2. doubled' = doubled /\ InTurn' = InTurn
    BY <1>2, <1>5 DEF FeedDelivers, InTurn
  <2>3. FeedInTurn(p, s) /\ feeds[p][s] \in Seq(Events) /\ s \in Streams
    BY FlowParts DEF TurnInv, Open
  <2>4. /\ e \in Events /\ e \in Range(feeds[p][s]) /\ origins[e] = p
        /\ Range(Tail(feeds[p][s])) \subseteq Range(feeds[p][s])
    BY <2>1, <2>3, TailLemma DEF FeedInTurn
  <2>5. /\ Sorted(Tail(feeds[p][s]), InTurn)
        /\ First({e}, Range(Tail(feeds[p][s])), InTurn)
    BY <2>1, <2>3, SortedTail DEF FeedInTurn
  <2>6. Sorted(route', InTurn) /\ Range(route') \subseteq Range(route) \cup {e}
    <3>1. First(Range(route), {e}, InTurn)
      BY <2>3, <2>4 DEF FeedInTurn, First
    <3>2. Grown(route', route, e)
      BY <2>1, OfferCases DEF Grown
    <3>3. route \in Seq(Events) /\ e \in Events /\ Sorted(route, InTurn)
      BY <2>4, FlowParts DEF TurnInv
    <3> HIDE DEF e
    <3> QED
      BY <3>1, <3>2, <3>3, SortedGrown
  <2>7. First(Range(routed), Range(route'), InTurn)
    BY <2>3, <2>4, <2>6 DEF TurnInv, FeedInTurn, First
  <2>8. ASSUME NEW r \in Managed, NEW t \in Open(r)'
        PROVE  /\ t \in Open(r)
               /\ r # p \/ t # s => feeds'[r][t] = feeds[r][t]
               /\ r = p /\ t = s => feeds'[r][t] = Tail(feeds[p][s])
    BY <1>1, <2>1, <2>3 DEF Open, Closed
  <2>9. ASSUME NEW r \in Managed, NEW t \in Open(r)'
        PROVE  FeedInTurn(r, t)'
    <3>1. FeedInTurn(r, t) /\ Range(feeds[r][t]) \subseteq Events
      BY <2>8, FlowParts DEF TurnInv
    <3>2. CASE r = p /\ t = s
      BY <1>2, <2>2, <2>4, <2>5, <2>6, <2>8, <3>1, <3>2 DEF FeedInTurn, First
    <3>3. CASE r # p \/ t # s
      <4>1. r # p \/ p \in doubled
        BY <2>8, <3>3 DEF TurnInv
      <4>2. \A y \in Range(feeds[r][t]) : <<e, y>> \in InTurn
        BY <2>4, <3>1, <4>1 DEF FeedInTurn, InTurn
      <4> QED
        BY <1>2, <2>2, <2>6, <2>8, <3>1, <3>3, <4>2 DEF FeedInTurn, First
    <3> QED
      BY <3>2, <3>3
  <2> QED
    BY <1>2, <2>2, <2>6, <2>7, <2>8, <2>9 DEF TurnInv
<1> QED
  BY <1>3, <1>4, <1>5

LEMMA RouteTurn ==
    ASSUME Types, TurnInv, Route
    PROVE  TurnInv'
<1> DEFINE e == Head(route)
<1>1. /\ route \in Seq(Events) /\ route # <<>> /\ route' = Tail(route)
      /\ routed' \in {routed, Append(routed, e)}
      /\ UNCHANGED <<origins, feeds, doubled>>
  BY FlowParts DEF Route
<1>2. Events' = Events /\ InTurn' = InTurn /\ \A p : Open(p)' = Open(p)
  BY <1>1 DEF Events, InTurn, Open, Closed
<1>3. /\ e \in Events /\ e \in Range(route) /\ Range(Tail(route)) \subseteq Range(route)
  BY <1>1, TailLemma
<1>4. Sorted(Tail(route), InTurn) /\ First({e}, Range(Tail(route)), InTurn)
  BY <1>1, SortedTail DEF TurnInv
<1>5. /\ routed' \in Seq(Events) /\ Range(routed') \subseteq Range(routed) \cup {e}
      /\ Sorted(routed', InTurn)
  <2>1. First(Range(routed), {e}, InTurn) /\ Sorted(routed, InTurn) /\ routed \in Seq(Events)
    BY <1>3 DEF TurnInv, First
  <2>2. e \in Events /\ Grown(routed', routed, e)
    BY <1>1, <1>3 DEF Grown
  <2> HIDE DEF e
  <2> QED
    BY <2>1, <2>2, SortedGrown
<1>6. First(Range(routed'), Range(route'), InTurn)
  BY <1>1, <1>3, <1>4, <1>5 DEF TurnInv, First
<1>7. ASSUME NEW p \in Managed, NEW s \in Open(p)
      PROVE  FeedInTurn(p, s)'
  <2>1. FeedInTurn(p, s)
    BY DEF TurnInv
  <2> QED
    BY <1>1, <1>2, <1>3, <1>5, <2>1 DEF FeedInTurn, First
<1> QED
  BY <1>1, <1>2, <1>4, <1>5, <1>6, <1>7 DEF TurnInv

LEMMA TurnStep == ASSUME Types, TurnInv, Next PROVE TurnInv'
<1>1. ASSUME NEW n \in Nodes, Delivery(n) \/ SetSync(n)
      PROVE  TurnInv'
  <2>1. UNCHANGED <<origins, doubled, routed, route, feeds>>
    BY <1>1 DEF Delivery, Deliver, Check, Show, Lost, GiveUp, SetSync
  <2> QED
    BY <2>1, TurnKept
<1>2. ASSUME NEW p \in Managed, SetLocal(p)
      PROVE  TurnInv'
  BY <1>2, TurnKept DEF SetLocal
<1>3. ASSUME NEW p \in Managed, RestartManaged(p)
      PROVE  TurnInv'
  <2>1. \A r \in Managed, s \in Streams : feeds'[r][s] \in {feeds[r][s], None}
    BY <1>3 DEF RestartManaged, Types, FlowTypes
  <2> QED
    BY <1>3, <2>1, TurnKept DEF RestartManaged
<1>4. CASE RestartController
  BY <1>4, TurnKept DEF RestartController
<1> QED
  BY <1>1, <1>2, <1>3, <1>4, PublishTurn, FeedTurn, RouteTurn
     DEF Next, Undisturbed, Disturbance

-----------------------------------------------------------------------------
(* The order of routing, up to the players *)

RoutedBefore == {b \in Range(routed) \X Range(routed) : Before(routed, b[1], b[2])}
Under(n) == {d.event : d \in handling[n]}

\* At a destination that was not given up on, what is shown was routed before
\* the delivery under way, and that before what is queued; the controller waits
\* for that delivery.
InTime(n) ==
    /\ \A d \in handling[n] : d.event = sending[n]
    /\ Sorted(shown[n], RoutedBefore) /\ Sorted(queues[n], RoutedBefore)
    /\ First(Range(shown[n]), Under(n), RoutedBefore)
    /\ First(Range(shown[n]), Range(queues[n]), RoutedBefore)
    /\ First(Under(n), Range(queues[n]), RoutedBefore)
DeliveryOrder(n) ==
    /\ Range(shown[n]) \subseteq Range(routed)
    /\ Under(n) \subseteq Range(routed)
    /\ Range(queues[n]) \subseteq Range(routed)
    /\ n \notin late => InTime(n)
RoutedInv ==
    /\ IsInjective(routed)
    /\ \A e \in Events : Pending(e) => e \in recent[Controller] \/ e \notin Range(routed)
    /\ sending \in [Nodes -> Nat \cup {None}]
OrderInv == TurnInv /\ RoutedInv /\ \A n \in Nodes : DeliveryOrder(n)

LEMMA BeforeGrows ==
    ASSUME NEW S, NEW q \in Seq(S), NEW e \in S
    PROVE  /\ \A x, y : Before(q, x, y) => Before(Append(q, e), x, y)
           /\ \A x \in Range(q) : Before(Append(q, e), x, e)
<1>1. /\ Len(q) \in Nat /\ DOMAIN q = 1 .. Len(q) /\ DOMAIN Append(q, e) = 1 .. Len(q) + 1
      /\ \A i \in 1 .. Len(q) : Append(q, e)[i] = q[i]
      /\ Append(q, e)[Len(q) + 1] = e
  OBVIOUS
<1>2. ASSUME NEW x, NEW y, Before(q, x, y)
      PROVE  Before(Append(q, e), x, y)
  <2>1. PICK i, j \in 1 .. Len(q) : i < j /\ q[i] = x /\ q[j] = y
    BY <1>1, <1>2 DEF Before
  <2> QED
    BY <1>1, <2>1 DEF Before
<1>3. ASSUME NEW x \in Range(q)
      PROVE  Before(Append(q, e), x, e)
  <2>1. PICK i \in 1 .. Len(q) : q[i] = x
    BY <1>1 DEF Range
  <2>2. /\ i \in DOMAIN Append(q, e) /\ Len(q) + 1 \in DOMAIN Append(q, e)
        /\ i < Len(q) + 1 /\ Append(q, e)[i] = x
    BY <1>1, <2>1
  <2> QED
    BY <1>1, <2>2 DEF Before
<1> QED
  BY <1>2, <1>3

\* In a sequence without repetition no two elements come before each other.
LEMMA BeforeOnce ==
    ASSUME NEW S, NEW q \in Seq(S), IsInjective(q), NEW x, NEW y, Before(q, x, y)
    PROVE  ~ Before(q, y, x)
<1>1. Len(q) \in Nat /\ DOMAIN q = 1 .. Len(q)
  OBVIOUS
<1>2. PICK i, j \in 1 .. Len(q) : i < j /\ q[i] = x /\ q[j] = y
  BY <1>1 DEF Before
<1>3. ASSUME NEW k \in 1 .. Len(q), NEW l \in 1 .. Len(q), k < l, q[k] = y, q[l] = x
      PROVE  FALSE
  <2>1. l = i /\ k = j
    BY <1>1, <1>2, <1>3 DEF IsInjective
  <2> QED
    BY <1>1, <1>2, <1>3, <2>1
<1> QED
  BY <1>1, <1>3 DEF Before

LEMMA RoutedGrows ==
    ASSUME TurnInv, NEW e \in Events, routed' = Append(routed, e)
    PROVE  /\ RoutedBefore \subseteq RoutedBefore'
           /\ \A x \in Range(routed) : <<x, e>> \in RoutedBefore'
           /\ Range(routed') = Range(routed) \cup {e}
<1>1. routed \in Seq(Events)
  BY DEF TurnInv
<1>2. Range(routed') = Range(routed) \cup {e}
  BY <1>1, AppendLemma
<1>3. /\ \A x, y : Before(routed, x, y) => Before(routed', x, y)
      /\ \A x \in Range(routed) : Before(routed', x, e)
  BY <1>1, BeforeGrows
<1>4. RoutedBefore' = {b \in Range(routed') \X Range(routed') : Before(routed', b[1], b[2])}
  BY DEF RoutedBefore
<1> QED
  BY <1>2, <1>3, <1>4 DEF RoutedBefore

\* What is under way goes on or ends, and queues stay or are emptied.
LEMMA OrderKept ==
    ASSUME NEW n, DeliveryOrder(n), routed' = routed, shown'[n] = shown[n],
           queues'[n] = queues[n] \/ queues'[n] = <<>>, Under(n)' \subseteq Under(n),
           n \notin late' => n \notin late /\ \A d \in handling'[n] : d.event = sending'[n]
    PROVE  DeliveryOrder(n)'
<1>1. RoutedBefore' = RoutedBefore
  BY DEF RoutedBefore
<1>2. Range(queues'[n]) \subseteq Range(queues[n])
  BY EmptyLemma
<1>3. ASSUME n \notin late'
      PROVE  InTime(n)'
  <2>1. InTime(n)
    BY <1>3 DEF DeliveryOrder
  <2>2. Sorted(queues'[n], RoutedBefore)
    BY <2>1, SortedEmpty DEF InTime
  <2> QED
    BY <1>1, <1>2, <1>3, <2>1, <2>2 DEF InTime, First
<1> QED
  BY <1>2, <1>3 DEF DeliveryOrder

\* A step that leaves deliveries and what was routed alone.
LEMMA QuietOrder ==
    ASSUME Types, OrderInv, UNCHANGED <<handling, shown, queues, sending, late, routed, recent>>,
           \A e \in Events' : Pending(e)' => (e \in Events /\ Pending(e)) \/ e \notin Range(routed)
    PROVE  RoutedInv' /\ \A n \in Nodes : DeliveryOrder(n)'
<1>1. RoutedInv'
  BY DEF OrderInv, RoutedInv
<1>2. ASSUME NEW n \in Nodes
      PROVE  DeliveryOrder(n)'
  <2>1. DeliveryOrder(n) /\ Under(n)' = Under(n)
    BY DEF OrderInv, Under
  <2>2. n \notin late' => n \notin late /\ \A d \in handling'[n] : d.event = sending'[n]
    BY <2>1 DEF DeliveryOrder, InTime
  <2> QED
    BY <2>1, <2>2, OrderKept
<1> QED
  BY <1>1, <1>2

LEMMA PublishOrder ==
    ASSUME Types, OrderInv, NEW n \in Nodes, Publish(n)
    PROVE  RoutedInv' /\ \A m \in Nodes : DeliveryOrder(m)'
<1>1. PICK e : e = Len(origins) + 1
  OBVIOUS
<1>2. Events' = Events \cup {e} /\ e \notin Events
  BY <1>1, PublishedEvent DEF Publish
<1>3. UNCHANGED <<handling, shown, queues, sending, late, routed, recent>>
  BY DEF Publish
<1>4. e \notin Range(routed)
  BY <1>2, RangeLemma DEF OrderInv, TurnInv
<1> QED
  BY <1>2, <1>3, <1>4, PublishPending, QuietOrder

LEMMA FeedOrder ==
    ASSUME Types, OrderInv, NEW p \in Managed,
           FeedOpens(p) \/ FeedCloses(p) \/ FeedDelivers(p)
    PROVE  RoutedInv' /\ \A m \in Nodes : DeliveryOrder(m)'
<1>1. UNCHANGED <<origins, handling, shown, queues, sending, late, routed, recent>>
  BY DEF FeedOpens, FeedCloses, FeedDelivers
<1>2. Events' = Events
  BY <1>1 DEF Events
<1> QED
  BY <1>1, <1>2, FeedPending, QuietOrder

LEMMA SettingsOrder ==
    ASSUME Types, OrderInv, (\E n \in Nodes : SetSync(n)) \/ \E p \in Managed : SetLocal(p)
    PROVE  RoutedInv' /\ \A m \in Nodes : DeliveryOrder(m)'
<1>1. UNCHANGED <<origins, feeds, route, handling, shown, queues, sending, late, routed, recent>>
  BY DEF SetSync, SetLocal
<1>2. Events' = Events /\ \A e : Pending(e)' = Pending(e)
  BY <1>1 DEF Events, Pending, Closed
<1> QED
  BY <1>1, <1>2, QuietOrder

LEMMA RouteOrder ==
    ASSUME Types, OrderInv, Route
    PROVE  RoutedInv' /\ \A m \in Nodes : DeliveryOrder(m)'
<1>1. PICK e : e = Head(route)
  OBVIOUS
<1>2. /\ route \in Seq(Events) /\ queues \in [Nodes -> Seq(Events)] /\ route # <<>>
      /\ recent \in [Nodes -> SUBSET Events] /\ Controller \in Nodes
  BY DEF Types, FlowTypes, NodeTypes, Route, Nodes
<1>3. /\ e \in Events /\ e \in Range(route) /\ Range(Tail(route)) \subseteq Range(route)
  BY <1>1, <1>2, TailLemma
<1>4. /\ UNCHANGED <<origins, feeds, handling, shown, sending, late>> /\ route' = Tail(route)
  BY DEF Route
<1>5. Events' = Events /\ \A x : Pending(x)' => Pending(x)
  BY <1>3, <1>4 DEF Pending, Closed, Events
<1>6. CASE e \in recent[Controller]
  <2>1. UNCHANGED <<queues, recent, routed>>
    BY <1>1, <1>6 DEF Route
  <2> QED
    BY <1>4, <1>5, <2>1, QuietOrder
<1>7. CASE e \notin recent[Controller]
  <2>1. /\ recent' = [recent EXCEPT ![Controller] = @ \cup {e}]
        /\ routed' = Append(routed, e)
        /\ queues' = [n \in Nodes |->
               IF n \in Destinations(e) THEN Offer(queues[n], QueueSize, e) ELSE queues[n]]
    BY <1>1, <1>7 DEF Route
  <2>2. recent'[Controller] = recent[Controller] \cup {e}
    BY <1>2, <2>1
  <2>3. e \notin Range(routed)
    BY <1>3, <1>7 DEF OrderInv, RoutedInv, Pending
  <2>4. /\ RoutedBefore \subseteq RoutedBefore'
        /\ \A x \in Range(routed) : <<x, e>> \in RoutedBefore'
        /\ Range(routed') = Range(routed) \cup {e}
    BY <1>3, <2>1, RoutedGrows DEF OrderInv
  <2>5. RoutedInv'
    <3>1. IsInjective(routed')
      BY <1>3, <2>1, <2>3, AppendLemma DEF OrderInv, RoutedInv, TurnInv
    <3>2. sending' \in [Nodes -> Nat \cup {None}]
      BY <1>4 DEF OrderInv, RoutedInv
    <3>3. \A x \in Events : Pending(x) => x \in recent[Controller] \/ x \notin Range(routed)
      BY DEF OrderInv, RoutedInv
    <3>4. \A x \in Events' :
              Pending(x)' => x \in recent'[Controller] \/ x \notin Range(routed')
      BY <1>5, <2>2, <2>4, <3>3
    <3> QED
      BY <3>1, <3>2, <3>4 DEF RoutedInv
  <2>6. ASSUME NEW n \in Nodes
        PROVE  DeliveryOrder(n)'
    <3>1. /\ DeliveryOrder(n) /\ Under(n)' = Under(n) /\ shown'[n] = shown[n]
          /\ handling'[n] = handling[n] /\ sending'[n] = sending[n] /\ late' = late
      BY <1>4 DEF OrderInv, Under
    <3>2. queues[n] \in Seq(Events) /\ Grown(queues'[n], queues[n], e)
      BY <1>2, <2>1, OfferCases DEF Grown
    <3>3. Range(queues'[n]) \subseteq Range(queues[n]) \cup {e}
      BY <1>3, <3>2, AppendLemma DEF Grown
    <3>4. ASSUME n \notin late
          PROVE  InTime(n)'
      <4>1. InTime(n)
        BY <3>1, <3>4 DEF DeliveryOrder
      <4>2. Sorted(queues[n], RoutedBefore') /\ Sorted(shown[n], RoutedBefore')
        BY <2>4, <4>1, SortedMore DEF InTime
      <4>3. First(Range(queues[n]), {e}, RoutedBefore')
        BY <2>4, <3>1 DEF DeliveryOrder, First
      <4>4. Sorted(queues'[n], RoutedBefore')
        BY <1>3, <3>2, <4>2, <4>3, SortedGrown
      <4>5. /\ First(Range(shown[n]), Under(n), RoutedBefore')
            /\ First(Range(shown[n]), Range(queues'[n]), RoutedBefore')
            /\ First(Under(n), Range(queues'[n]), RoutedBefore')
        BY <2>4, <3>1, <3>3, <4>1 DEF DeliveryOrder, InTime, First
      <4> QED
        BY <3>1, <4>1, <4>2, <4>4, <4>5 DEF InTime
    <3> QED
      BY <2>4, <3>1, <3>3, <3>4 DEF DeliveryOrder
  <2> QED
    BY <2>5, <2>6
<1> QED
  BY <1>6, <1>7

LEMMA RestartOrder ==
    ASSUME Types, OrderInv, RestartController \/ \E p \in Managed : RestartManaged(p)
    PROVE  RoutedInv' /\ \A m \in Nodes : DeliveryOrder(m)'
<1>1. /\ handling \in [Nodes -> SUBSET Deliveries] /\ sending \in [Nodes -> Nat \cup {None}]
      /\ Controller \in Nodes /\ Managed \subseteq Nodes
      /\ recent \in [Nodes -> SUBSET Events]
  BY DEF Types, NodeTypes, OrderInv, RoutedInv, Nodes
<1>2. UNCHANGED <<origins, shown, routed>> /\ Events' = Events
  BY DEF RestartController, RestartManaged, Events
<1>3. CASE RestartController
  <2>1. /\ route' = <<>> /\ feeds' = [p \in Managed |-> [s \in Streams |-> None]]
        /\ queues' = [n \in Nodes |-> <<>>] /\ sending' = [n \in Nodes |-> None]
        /\ handling' = [handling EXCEPT ![Controller] = {}]
        /\ late' = late \cup {p \in Managed : sending[p] # None}
    BY <1>3 DEF RestartController
  <2>2. \A e : ~ Pending(e)'
    BY <2>1, EmptyLemma DEF Pending, Closed
  <2>3. sending' \in [Nodes -> Nat \cup {None}]
    BY <2>1
  <2>4. RoutedInv'
    BY <1>2, <2>2, <2>3 DEF OrderInv, RoutedInv
  <2>5. ASSUME NEW n \in Nodes
        PROVE  DeliveryOrder(n)'
    <3>1. DeliveryOrder(n) /\ shown'[n] = shown[n] /\ queues'[n] = <<>> /\ sending'[n] = None
      BY <1>2, <2>1 DEF OrderInv
    <3>2. handling'[n] = IF n = Controller THEN {} ELSE handling[n]
      BY <1>1, <2>1
    <3>3. Under(n)' \subseteq Under(n)
      BY <3>2 DEF Under
    <3>4. ASSUME n \notin late'
          PROVE  n \notin late /\ \A d \in handling'[n] : d.event = sending'[n]
      <4>1. n \notin late /\ (n = Controller \/ sending[n] = None)
        BY <2>1, <3>4 DEF Nodes
      <4> QED
        BY <3>1, <3>2, <4>1 DEF DeliveryOrder, InTime
    <3> QED
      BY <1>2, <3>1, <3>3, <3>4, OrderKept
  <2> QED
    BY <2>4, <2>5
<1>4. ASSUME NEW p \in Managed, RestartManaged(p)
      PROVE  RoutedInv' /\ \A m \in Nodes : DeliveryOrder(m)'
  <2>1. /\ UNCHANGED <<queues, late>> /\ recent'[Controller] = recent[Controller]
        /\ handling' = [handling EXCEPT ![p] = {}] /\ sending' = [sending EXCEPT ![p] = None]
    BY <1>1, <1>4, NodeAssumption DEF RestartManaged
  <2>2. \A e : Pending(e)' => Pending(e)
    BY <1>4, RestartPending
  <2>3. sending' \in [Nodes -> Nat \cup {None}]
    BY <1>1, <2>1
  <2>4. RoutedInv'
    BY <1>2, <2>1, <2>2, <2>3 DEF OrderInv, RoutedInv
  <2>5. ASSUME NEW n \in Nodes
        PROVE  DeliveryOrder(n)'
    <3>1. DeliveryOrder(n) /\ shown'[n] = shown[n] /\ queues'[n] = queues[n]
      BY <1>2, <2>1 DEF OrderInv
    <3>2. /\ handling'[n] = IF n = p THEN {} ELSE handling[n]
          /\ sending'[n] = IF n = p THEN None ELSE sending[n]
      BY <1>1, <2>1
    <3>3. Under(n)' \subseteq Under(n)
      BY <3>2 DEF Under
    <3>4. n \notin late' => n \notin late /\ \A d \in handling'[n] : d.event = sending'[n]
      BY <2>1, <3>1, <3>2 DEF DeliveryOrder, InTime
    <3> QED
      BY <1>2, <3>1, <3>3, <3>4, OrderKept
  <2> QED
    BY <2>4, <2>5
<1> QED
  BY <1>3, <1>4

LEMMA DeliverOrder ==
    ASSUME Types, OrderInv, NEW n \in Nodes, Deliver(n)
    PROVE  RoutedInv' /\ \A m \in Nodes : DeliveryOrder(m)'
<1>1. PICK e : e = Head(queues[n])
  OBVIOUS
<1>2. /\ queues \in [Nodes -> Seq(Events)] /\ handling \in [Nodes -> SUBSET Deliveries]
      /\ sending \in [Nodes -> Nat \cup {None}]
  BY DEF Types, FlowTypes, NodeTypes, OrderInv, RoutedInv
<1>3. /\ queues[n] # <<>> /\ sending[n] = None /\ queues' = [queues EXCEPT ![n] = Tail(@)]
      /\ UNCHANGED <<origins, feeds, route, recent, shown, routed, late>>
  BY DEF Deliver
<1>4. \/ UNCHANGED <<sending, handling>>
      \/ /\ sending' = [sending EXCEPT ![n] = e]
         /\ \E c \in BOOLEAN : handling' = [handling EXCEPT ![n] = @ \cup
                {[event |-> e, checked |-> c]}]
  BY <1>1 DEF Deliver
<1>5. /\ queues'[n] = Tail(queues[n]) /\ e \in Events /\ e \in Range(queues[n])
      /\ Range(queues'[n]) \subseteq Range(queues[n])
  BY <1>1, <1>2, <1>3, TailLemma
<1>6. e \in Nat
  BY <1>5, EventsAreNumbers
<1>7. RoutedInv'
  <2>1. sending' \in [Nodes -> Nat \cup {None}]
    BY <1>2, <1>4, <1>6
  <2>2. Events' = Events /\ \A x : Pending(x)' = Pending(x)
    BY <1>3 DEF Events, Pending, Closed
  <2> QED
    BY <1>3, <2>1, <2>2 DEF OrderInv, RoutedInv
<1>8. ASSUME NEW m \in Nodes, m # n
      PROVE  DeliveryOrder(m)'
  <2>1. queues'[m] = queues[m] /\ handling'[m] = handling[m] /\ sending'[m] = sending[m]
    BY <1>2, <1>3, <1>4, <1>8
  <2>2. DeliveryOrder(m) /\ Under(m)' = Under(m)
    BY <2>1 DEF OrderInv, Under
  <2>3. m \notin late' => m \notin late /\ \A d \in handling'[m] : d.event = sending'[m]
    BY <1>3, <2>1, <2>2 DEF DeliveryOrder, InTime
  <2> QED
    BY <1>3, <2>1, <2>2, <2>3, OrderKept
<1>9. DeliveryOrder(n)'
  <2>1. DeliveryOrder(n) /\ shown'[n] = shown[n] /\ RoutedBefore' = RoutedBefore
    BY <1>3 DEF OrderInv, RoutedBefore
  <2>2. \/ sending'[n] = sending[n] /\ handling'[n] = handling[n]
        \/ /\ sending'[n] = e
           /\ \E c \in BOOLEAN : handling'[n] = handling[n] \cup {[event |-> e, checked |-> c]}
    BY <1>2, <1>4
  <2>3. Under(n)' \subseteq Under(n) \cup {e}
    BY <2>2 DEF Under
  <2>4. ASSUME n \notin late
        PROVE  InTime(n)'
    <3>1. InTime(n)
      BY <2>1, <2>4 DEF DeliveryOrder
    <3>2. handling[n] = {}
      <4>1. \A d \in handling[n] : d.event \in Nat /\ d.event = None
        BY <1>3, <3>1, NodeParts, EventsAreNumbers DEF InTime
      <4> QED
        BY <4>1, NoneAssumption
    <3>3. /\ \A d \in handling'[n] : d.event = sending'[n]
          /\ Under(n)' \subseteq {e}
      BY <2>2, <3>2 DEF Under
    <3>4. Sorted(queues'[n], RoutedBefore) /\ First({e}, Range(queues'[n]), RoutedBefore)
      BY <1>1, <1>2, <1>3, <1>5, <3>1, SortedTail DEF InTime
    <3>5. First(Range(shown[n]), {e}, RoutedBefore)
      BY <1>5, <3>1 DEF InTime, First
    <3>6. First(Range(shown[n]), Range(queues'[n]), RoutedBefore)
      BY <1>5, <3>1 DEF InTime, First
    <3>7. /\ First(Range(shown[n]), Under(n)', RoutedBefore)
          /\ First(Under(n)', Range(queues'[n]), RoutedBefore)
      BY <3>3, <3>4, <3>5 DEF First
    <3> QED
      BY <2>1, <3>1, <3>3, <3>4, <3>6, <3>7 DEF InTime
  <2> QED
    BY <1>3, <1>5, <2>1, <2>3, <2>4 DEF DeliveryOrder
<1> QED
  BY <1>7, <1>8, <1>9

\* The controller's loop is not waiting for the wrong delivery: the one that ends
\* is the only one at work, unless one was given up.
LEMMA EndsOrder ==
    ASSUME Types, OnceInv, OrderInv, NEW n \in Nodes, NEW d \in handling[n], Ends(n, d)
    PROVE  /\ sending' \in [Nodes -> Nat \cup {None}]
           /\ handling'[n] = handling[n] \ {d}
           /\ \A m \in Nodes \ {n} : handling'[m] = handling[m] /\ sending'[m] = sending[m]
           /\ n \notin late => handling'[n] = {}
<1>1. /\ handling \in [Nodes -> SUBSET Deliveries] /\ sending \in [Nodes -> Nat \cup {None}]
  BY DEF Types, NodeTypes, OrderInv, RoutedInv
<1>2. /\ sending' \in [Nodes -> Nat \cup {None}]
      /\ handling'[n] = handling[n] \ {d}
      /\ \A m \in Nodes \ {n} : handling'[m] = handling[m] /\ sending'[m] = sending[m]
  BY <1>1 DEF Ends
<1>3. ASSUME n \notin late
      PROVE  handling'[n] = {}
  <2>1. \A c \in handling[n] : c.event = d.event
    BY <1>3 DEF OrderInv, DeliveryOrder, InTime
  <2>2. \A c \in handling[n] : c = d
    BY <2>1 DEF OnceInv, OnceAt
  <2> QED
    BY <1>2, <2>2
<1> QED
  BY <1>2, <1>3

\* A delivery ends without being shown.
LEMMA UnshownOrder ==
    ASSUME Types, OnceInv, OrderInv, NEW n \in Nodes, NEW d \in handling[n], Ends(n, d),
           UNCHANGED <<shown, queues, routed, late>>
    PROVE  \A m \in Nodes : DeliveryOrder(m)'
<1> SUFFICES ASSUME NEW m \in Nodes PROVE DeliveryOrder(m)'
  OBVIOUS
<1>1. DeliveryOrder(m)
  BY DEF OrderInv
<1>2. Under(m)' \subseteq Under(m)
  BY EndsOrder DEF Under
<1>3. m \notin late' => m \notin late /\ \A c \in handling'[m] : c.event = sending'[m]
  BY <1>1, EndsOrder DEF DeliveryOrder, InTime
<1> QED
  BY <1>1, <1>2, <1>3, OrderKept

LEMMA ShownOrder ==
    ASSUME Types, OnceInv, OrderInv, NEW n \in Nodes, NEW d \in handling[n], Ends(n, d),
           shown' = [shown EXCEPT ![n] = Append(@, d.event)],
           UNCHANGED <<queues, routed, late>>
    PROVE  \A m \in Nodes : DeliveryOrder(m)'
<1>1. /\ shown \in [Nodes -> Seq(Events)] /\ shown[n] \in Seq(Events) /\ d.event \in Events
  BY NodeParts DEF Types, NodeTypes
<1>2. ASSUME NEW m \in Nodes, m # n
      PROVE  DeliveryOrder(m)'
  <2>1. /\ DeliveryOrder(m) /\ handling'[m] = handling[m] /\ sending'[m] = sending[m]
        /\ shown'[m] = shown[m]
    BY <1>1, <1>2, EndsOrder DEF OrderInv
  <2>2. Under(m)' = Under(m)
    BY <2>1 DEF Under
  <2>3. m \notin late' => m \notin late /\ \A c \in handling'[m] : c.event = sending'[m]
    BY <2>1 DEF DeliveryOrder, InTime
  <2> QED
    BY <2>1, <2>2, <2>3, OrderKept
<1>3. DeliveryOrder(n)'
  <2>1. /\ DeliveryOrder(n) /\ RoutedBefore' = RoutedBefore /\ d.event \in Under(n)
        /\ shown'[n] = Append(shown[n], d.event)
    BY <1>1 DEF OrderInv, RoutedBefore, Under
  <2>2. Range(shown'[n]) = Range(shown[n]) \cup {d.event}
    BY <1>1, <2>1, AppendLemma
  <2>3. Under(n)' \subseteq Under(n)
    BY EndsOrder DEF Under
  <2>4. ASSUME n \notin late
        PROVE  InTime(n)'
    <3>1. InTime(n)
      BY <2>1, <2>4 DEF DeliveryOrder
    <3>2. handling'[n] = {} /\ Under(n)' = {}
      BY <2>4, EndsOrder DEF Under
    <3>3. First(Range(shown[n]), {d.event}, RoutedBefore)
      BY <2>1, <3>1 DEF InTime, First
    <3>4. Sorted(shown'[n], RoutedBefore)
      BY <1>1, <2>1, <3>1, <3>3, SortedAppend DEF InTime
    <3>5. First(Range(shown'[n]), Range(queues[n]), RoutedBefore)
      BY <2>1, <2>2, <3>1 DEF InTime, First
    <3> QED
      BY <2>1, <3>1, <3>2, <3>4, <3>5 DEF InTime, First
  <2> QED
    BY <2>1, <2>2, <2>3, <2>4 DEF DeliveryOrder
<1> QED
  BY <1>2, <1>3

LEMMA GoesOnOrder ==
    ASSUME Types, OnceInv, OrderInv, NEW n \in Nodes, Check(n) \/ Show(n) \/ Lost(n) \/ GiveUp(n)
    PROVE  RoutedInv' /\ \A m \in Nodes : DeliveryOrder(m)'
<1>1. /\ UNCHANGED <<origins, feeds, route, queues, routed>>
      /\ \A m \in Nodes : recent[m] \subseteq recent'[m]
  BY DeliveryGoesOn DEF Check, Show, Lost, GiveUp
<1>2. /\ handling \in [Nodes -> SUBSET Deliveries] /\ sending \in [Nodes -> Nat \cup {None}]
  BY DEF Types, NodeTypes, OrderInv, RoutedInv
<1>3. sending' \in [Nodes -> Nat \cup {None}] => RoutedInv'
  <2>1. Events' = Events /\ Controller \in Nodes /\ \A x : Pending(x)' = Pending(x)
    BY <1>1 DEF Events, Nodes, Pending, Closed
  <2> QED
    BY <1>1, <2>1 DEF OrderInv, RoutedInv
<1>4. ASSUME NEW d \in handling[n], Ends(n, d), UNCHANGED <<shown, late>>
      PROVE  RoutedInv' /\ \A m \in Nodes : DeliveryOrder(m)'
  BY <1>1, <1>3, <1>4, EndsOrder, UnshownOrder
<1>5. CASE Check(n)
  <2>1. PICK d \in handling[n] :
            \/ Ends(n, d)
            \/ /\ handling' = [handling EXCEPT ![n] =
                      (@ \ {d}) \cup {[d EXCEPT !.checked = TRUE]}]
               /\ sending' = sending
    BY <1>5 DEF Check
  <2>2. UNCHANGED <<shown, late>>
    BY <1>5 DEF Check
  <2>3. ASSUME handling' = [handling EXCEPT ![n] =
                   (@ \ {d}) \cup {[d EXCEPT !.checked = TRUE]}],
               sending' = sending, NEW m \in Nodes
        PROVE  DeliveryOrder(m)'
    <3>1. d \in Deliveries /\ [d EXCEPT !.checked = TRUE].event = d.event
      BY <1>2 DEF Deliveries
    <3>2. \A c \in handling'[m] : \E b \in handling[m] : b.event = c.event
      BY <1>2, <2>3, <3>1
    <3>3. Under(m)' \subseteq Under(m)
      BY <3>2 DEF Under
    <3>4. DeliveryOrder(m)
      BY DEF OrderInv
    <3>5. m \notin late' => m \notin late /\ \A c \in handling'[m] : c.event = sending'[m]
      BY <2>2, <2>3, <3>2, <3>4 DEF DeliveryOrder, InTime
    <3> QED
      BY <1>1, <2>2, <3>3, <3>4, <3>5, OrderKept
  <2> QED
    BY <1>2, <1>3, <1>4, <2>1, <2>2, <2>3
<1>6. CASE Show(n)
  <2>1. PICK d \in handling[n] :
            /\ shown' \in {shown, [shown EXCEPT ![n] = Append(@, d.event)]}
            /\ Ends(n, d)
    BY <1>6 DEF Show
  <2>2. late' = late
    BY <1>6 DEF Show
  <2>3. CASE shown' = shown
    BY <1>4, <2>1, <2>2, <2>3
  <2>4. CASE shown' = [shown EXCEPT ![n] = Append(@, d.event)]
    BY <1>1, <1>3, <2>1, <2>2, <2>4, EndsOrder, ShownOrder
  <2> QED
    BY <2>1, <2>3, <2>4
<1>7. CASE Lost(n)
  BY <1>4, <1>7 DEF Lost
<1>8. CASE GiveUp(n)
  <2>1. /\ sending' = [sending EXCEPT ![n] = None] /\ late' = late \cup {n}
        /\ UNCHANGED <<handling, shown>>
    BY <1>8 DEF GiveUp
  <2>2. RoutedInv'
    BY <1>2, <1>3, <2>1
  <2>3. ASSUME NEW m \in Nodes
        PROVE  DeliveryOrder(m)'
    <3>1. DeliveryOrder(m) /\ Under(m)' = Under(m)
      BY <2>1 DEF OrderInv, Under
    <3>2. m \notin late' => m \notin late /\ \A c \in handling'[m] : c.event = sending'[m]
      BY <1>2, <2>1, <3>1 DEF DeliveryOrder, InTime
    <3> QED
      BY <1>1, <2>1, <3>1, <3>2, OrderKept
  <2> QED
    BY <2>2, <2>3
<1> QED
  BY <1>5, <1>6, <1>7, <1>8

LEMMA OrderStep == ASSUME Types, OnceInv, OrderInv, Next PROVE OrderInv'
<1>1. TurnInv'
  BY TurnStep DEF OrderInv
<1>2. ASSUME NEW n \in Nodes, Publish(n) \/ Delivery(n)
      PROVE  RoutedInv' /\ \A m \in Nodes : DeliveryOrder(m)'
  BY <1>2, PublishOrder, DeliverOrder, GoesOnOrder DEF Delivery
<1>3. ASSUME NEW p \in Managed, FeedOpens(p) \/ FeedDelivers(p) \/ FeedCloses(p)
      PROVE  RoutedInv' /\ \A m \in Nodes : DeliveryOrder(m)'
  BY <1>3, FeedOrder
<1>4. RoutedInv' /\ \A m \in Nodes : DeliveryOrder(m)'
  BY <1>2, <1>3, RouteOrder, SettingsOrder, RestartOrder DEF Next, Undisturbed, Disturbance
<1> QED
  BY <1>1, <1>4 DEF OrderInv

LEMMA OrderInitially == Init => OrderInv
<1> SUFFICES ASSUME Init PROVE OrderInv
  OBVIOUS
<1>1. /\ Range(<<>>) = {} /\ IsInjective(<<>>) /\ \A S : <<>> \in Seq(S)
      /\ \A R : Sorted(<<>>, R)
  BY EmptyLemma, SortedEmpty
<1>2. /\ routed = <<>> /\ route = <<>> /\ feeds = [p \in Managed |-> [s \in Streams |-> None]]
      /\ sending = [n \in Nodes |-> None]
  BY DEF Init
<1>3. \A p \in Managed : Open(p) = {}
  BY <1>2 DEF Open, Closed
<1>4. TurnInv
  BY <1>1, <1>2, <1>3 DEF TurnInv, First
<1>5. RoutedInv
  BY <1>1, <1>2 DEF RoutedInv
<1>6. ASSUME NEW n \in Nodes
      PROVE  DeliveryOrder(n)
  <2>1. handling[n] = {} /\ shown[n] = <<>> /\ queues[n] = <<>> /\ Under(n) = {}
    BY DEF Init, Under
  <2> QED
    BY <1>1, <2>1 DEF DeliveryOrder, InTime, First
<1> QED
  BY <1>4, <1>5, <1>6 DEF OrderInv

\* Destinations show events in the order they were routed, unless a delivery to
\* them was given up, and those of a node are routed in the order of their
\* publication, unless it had two streams (fleetRouteLoop, fleetDeliveryLoop).
THEOREM OrderStays == Spec => []OrderIsKept
<1>1. OrderInv => OrderIsKept
  <2> SUFFICES ASSUME OrderInv PROVE OrderIsKept
    OBVIOUS
  <2>1. routed \in Seq(Events) /\ IsInjective(routed)
    BY DEF OrderInv, TurnInv, RoutedInv
  <2>2. ASSUME NEW n \in Nodes \ late, NEW i \in DOMAIN shown[n], NEW j \in DOMAIN shown[n],
               i < j
        PROVE  ~ Before(routed, shown[n][j], shown[n][i])
    <3>1. <<shown[n][i], shown[n][j]>> \in RoutedBefore
      BY <2>2 DEF OrderInv, DeliveryOrder, InTime, Sorted
    <3> QED
      BY <2>1, <3>1, BeforeOnce DEF RoutedBefore
  <2>3. ASSUME NEW i \in DOMAIN routed, NEW j \in DOMAIN routed, i < j,
               origins[routed[i]] = origins[routed[j]], origins[routed[i]] \notin doubled
        PROVE  routed[i] < routed[j]
    BY <2>3 DEF OrderInv, TurnInv, Sorted, InTurn
  <2> QED
    BY <2>2, <2>3 DEF OrderIsKept
<1>2. Types /\ OnceInv /\ OrderInv /\ [Next]_vars => OrderInv'
  <2> SUFFICES ASSUME Types, OnceInv, OrderInv, [Next]_vars PROVE OrderInv'
    OBVIOUS
  <2>1. CASE UNCHANGED vars
    <3>1. UNCHANGED <<origins, feeds, route, recent, queues, sending, handling, shown, routed,
                      late, doubled>>
      BY <2>1 DEF vars
    <3>2. TurnInv'
      BY <3>1, TurnKept DEF OrderInv, Types, FlowTypes
    <3>3. Events' = Events /\ \A e : Pending(e)' = Pending(e)
      BY <3>1 DEF Events, Pending, Closed
    <3> QED
      BY <3>1, <3>2, <3>3, QuietOrder DEF OrderInv
  <2> QED
    BY <2>1, OrderStep
<1> QED
  BY <1>1, <1>2, OrderInitially, Invariance, PTL DEF Spec

=============================================================================
