----------------------------- MODULE Discovery -----------------------------
(***************************************************************************)
(* MQTT peer discovery (discovery.go).  Every node runs the same code; the *)
(* publishing half (heartbeatLoop, UpdateLocalEndpoint, presence) is       *)
(* modelled for each node, the receiving half (subscribe, the two message  *)
(* handlers, healthCheckLoop) for one node, Self.  The receiving halves of *)
(* other nodes are copies that nothing here depends on.                    *)
(*                                                                         *)
(* The broker is external.  It forwards a message to Self's queue while    *)
(* Self is subscribed, forgets the queue with the session (clean session), *)
(* and keeps the retained presence of each node.  paho calls the handlers  *)
(* of one client one at a time and in order.                               *)
(*                                                                         *)
(* Time is counted in heartbeat intervals since a peer was last seen.      *)
(***************************************************************************)
EXTENDS Naturals, Sequences

CONSTANTS
    Nodes, Self,  \* node names, and the one whose peer table is modelled
    Endpoints,    \* public endpoints STUN may find
    NoEndpoint,   \* PublicIP "" and PublicPort 0
    NoPeer,       \* "not in d.peers"
    NoCallback,   \* no callback is owed
    MaxQueue,     \* bound on Self's queue at the broker
    MaxStarts     \* bound on the number of times a node is started

Window == 3       \* checkPeerHealth: HeartbeatInterval*3
Down == 3         \* "peer appears down"; stands for every count from 3 to 998
Offline == 4      \* handlePresence: 999; stands for every count from 999 on

Heartbeat == [kind : {"heartbeat"}, node : Nodes, ep : Endpoints \cup {NoEndpoint},
              inc : 1..MaxStarts]
Presence == [kind : {"offline"}, node : Nodes]

\* PeerInfo.  `age` is time.Since(LastSeen).
PeerInfo == [ep : Endpoints \cup {NoEndpoint}, inc : 1..MaxStarts,
             age : 0..(Window + 1), missed : 0..Offline]

ASSUME DiscoveryAssumption ==
    /\ Self \in Nodes
    /\ NoEndpoint \notin Endpoints
    /\ NoPeer \notin PeerInfo /\ NoCallback \notin Heartbeat
    /\ MaxQueue \in Nat /\ MaxStarts \in Nat

VARIABLES
    proc,       \* the process of each node: "off", "up", "stopping" (in Stop)
    cancelled,  \* its context is cancelled
    beating,    \* its heartbeatLoop has not returned
    link,       \* its MQTT client is connected
    starts,     \* how often it was started; stands for Timestamp in messages
    retained,   \* broker: nodes with a retained "offline" presence
    subscribed, \* broker: Self's subscriptions are in force
    queue,      \* broker: messages for Self
    due,        \* broker: retained presences owed to Self's new subscription
    peers,      \* d.peers of Self
    callback    \* Self: the onPeerUpdate call handleHeartbeat still has to make

pubVars == <<proc, cancelled, beating, link, starts>>
subVars == <<subscribed, queue, due, peers, callback>>
vars == <<pubVars, retained, subVars>>

Known(p) == peers[p] # NoPeer

Init ==
    /\ proc = [n \in Nodes |-> "off"]
    /\ cancelled = [n \in Nodes |-> FALSE]
    /\ beating = [n \in Nodes |-> FALSE]
    /\ link = [n \in Nodes |-> FALSE]
    /\ starts = [n \in Nodes |-> 0]
    /\ retained = {}
    /\ subscribed = FALSE
    /\ queue = <<>>
    /\ due = {}
    /\ peers = [n \in Nodes |-> NoPeer]
    /\ callback = NoCallback

-----------------------------------------------------------------------------
(* The broker.                                                             *)

\* A message reaches Self's queue if Self is subscribed.
Forward(m) == queue' = IF subscribed THEN Append(queue, m) ELSE queue

Room == subscribed => Len(queue) < MaxQueue

\* Self's session ends: queue and subscriptions are gone.
SessionEnds(n) ==
    IF n = Self THEN subscribed' = FALSE /\ queue' = <<>> /\ due' = {}
    ELSE UNCHANGED <<subscribed, queue, due>>

\* What Self's process holds in memory is gone.
MemoryLost(n) ==
    IF n = Self THEN peers' = [p \in Nodes |-> NoPeer] /\ callback' = NoCallback
    ELSE UNCHANGED <<peers, callback>>

-----------------------------------------------------------------------------
(* The publishing half.                                                    *)

\* NewDiscovery and Start: connect and spawn the two loops.  subscribe runs in
\* the OnConnect handler, on its own.  A failed connect returns an error.
Start(n) ==
    /\ proc[n] = "off" /\ starts[n] < MaxStarts
    /\ proc' = [proc EXCEPT ![n] = "up"]
    /\ cancelled' = [cancelled EXCEPT ![n] = FALSE]
    /\ beating' = [beating EXCEPT ![n] = TRUE]
    /\ link' = [link EXCEPT ![n] = TRUE]
    /\ starts' = [starts EXCEPT ![n] = @ + 1]
    /\ UNCHANGED <<retained, subVars>>

Msg(n, ep) == [kind |-> "heartbeat", node |-> n, ep |-> ep, inc |-> starts[n]]

\* publishHeartbeat, at once and on every tick: it fills in no endpoint.  While
\* the client is disconnected the publish is held up.
PublishHeartbeat(n) ==
    /\ beating[n] /\ link[n] /\ Room
    /\ Forward(Msg(n, NoEndpoint))
    /\ UNCHANGED <<pubVars, retained, subscribed, due, peers, callback>>

\* UpdateLocalEndpoint announces the endpoint and stores it nowhere.
UpdateLocalEndpoint(n, ep) ==
    /\ proc[n] # "off" /\ link[n] /\ Room
    /\ Forward(Msg(n, ep))
    /\ UNCHANGED <<pubVars, retained, subscribed, due, peers, callback>>

\* The signal handler cancels the context.
Cancel(n) ==
    /\ proc[n] # "off" /\ ~cancelled[n]
    /\ cancelled' = [cancelled EXCEPT ![n] = TRUE]
    /\ UNCHANGED <<proc, beating, link, starts, retained, subVars>>

\* Mutant: the presence is not retained.
AnnounceOnce(n) ==
    /\ Room
    /\ Forward([kind |-> "offline", node |-> n])
    /\ UNCHANGED retained

\* publishPresence("offline"): retained.
Announce(n) ==
    /\ Room
    /\ Forward([kind |-> "offline", node |-> n])
    /\ retained' = retained \cup {n}

\* heartbeatLoop sees ctx.Done: it announces the node offline and returns.
LoopEnds(n) ==
    /\ beating[n] /\ cancelled[n]
    /\ beating' = [beating EXCEPT ![n] = FALSE]
    /\ \/ link[n] /\ Announce(n)
       \/ ~link[n] /\ UNCHANGED <<queue, retained>>
    /\ UNCHANGED <<proc, cancelled, link, starts, subscribed, due, peers, callback>>

\* Stop, first part: announce and disconnect, if connected.
Stop(n) ==
    /\ proc[n] = "up"
    /\ proc' = [proc EXCEPT ![n] = "stopping"]
    /\ link' = [link EXCEPT ![n] = FALSE]
    /\ \/ /\ link[n] /\ n # Self /\ Announce(n)
          /\ UNCHANGED <<subscribed, due>>
       \/ /\ link[n] /\ n = Self
          /\ retained' = retained \cup {n}
          /\ SessionEnds(n)
       \/ ~link[n] /\ UNCHANGED <<retained, subscribed, queue, due>>
    /\ UNCHANGED <<cancelled, beating, starts, peers, callback>>

\* Stop, second part: the loops have returned, and the process ends.
StopReturns(n) ==
    /\ proc[n] = "stopping" /\ cancelled[n] /\ ~beating[n]
    /\ proc' = [proc EXCEPT ![n] = "off"]
    /\ MemoryLost(n)
    /\ UNCHANGED <<cancelled, beating, link, starts, retained, subscribed, queue, due>>

\* The process dies.  No will was registered with the broker.
Crash(n) ==
    /\ proc[n] # "off"
    /\ proc' = [proc EXCEPT ![n] = "off"]
    /\ beating' = [beating EXCEPT ![n] = FALSE]
    /\ link' = [link EXCEPT ![n] = FALSE]
    /\ SessionEnds(n) /\ MemoryLost(n)
    /\ UNCHANGED <<cancelled, starts, retained>>

\* The connection to the broker breaks, and paho reconnects.
LinkLost(n) ==
    /\ link[n]
    /\ link' = [link EXCEPT ![n] = FALSE]
    /\ SessionEnds(n)
    /\ UNCHANGED <<proc, cancelled, beating, starts, retained, peers, callback>>

Reconnect(n) ==
    /\ proc[n] = "up" /\ ~link[n]
    /\ link' = [link EXCEPT ![n] = TRUE]
    /\ UNCHANGED <<proc, cancelled, beating, starts, retained, subVars>>

-----------------------------------------------------------------------------
(* The receiving half, at Self.                                            *)

\* subscribe, from the OnConnect handler, also after every reconnect: the
\* broker owes the new subscription every retained presence.
Subscribe ==
    /\ link[Self] /\ ~subscribed
    /\ subscribed' = TRUE
    /\ due' = retained
    /\ UNCHANGED <<pubVars, retained, queue, peers, callback>>

\* Mutant: the count of missed heartbeats is not reset.
RecordKeepsCount(m) ==
    LET old == peers[m.node] IN
    [ep |-> m.ep, inc |-> m.inc, age |-> 0,
     missed |-> IF old = NoPeer THEN 0 ELSE old.missed]

\* What handleHeartbeat stores: the message replaces all that was known.
Record(m) == [ep |-> m.ep, inc |-> m.inc, age |-> 0, missed |-> 0]

\* One handler runs at a time.
HandlerIdle == callback = NoCallback

\* handleHeartbeat up to the unlock; the node's own heartbeats are ignored.
HandleHeartbeat ==
    /\ HandlerIdle /\ queue # <<>> /\ Head(queue).kind = "heartbeat"
    /\ queue' = Tail(queue)
    /\ \/ /\ Head(queue).node # Self
          /\ peers' = [peers EXCEPT ![Head(queue).node] = Record(Head(queue))]
          /\ callback' = Head(queue)
       \/ /\ Head(queue).node = Self
          /\ UNCHANGED <<peers, callback>>
    /\ UNCHANGED <<pubVars, retained, subscribed, due>>

\* onPeerUpdate gets the pointer into d.peers, and reads it without the lock.
OnPeerUpdate ==
    /\ callback # NoCallback
    /\ callback' = NoCallback
    /\ UNCHANGED <<pubVars, retained, subscribed, queue, due, peers>>

\* handlePresence: a peer that is not in the map is not added.
MarkOffline(p) ==
    peers' = IF p # Self /\ Known(p) THEN [peers EXCEPT ![p].missed = Offline] ELSE peers

HandlePresence ==
    /\ HandlerIdle /\ queue # <<>> /\ Head(queue).kind = "offline"
    /\ queue' = Tail(queue)
    /\ MarkOffline(Head(queue).node)
    /\ UNCHANGED <<pubVars, retained, subscribed, due, callback>>

HandleRetained(p) ==
    /\ HandlerIdle /\ p \in due
    /\ due' = due \ {p}
    /\ MarkOffline(p)
    /\ UNCHANGED <<pubVars, retained, subscribed, queue, callback>>

\* Mutant: the count starts again once the peer has been reported.
BumpRestarts(k) == IF k < Down THEN k + 1 ELSE 0

Bump(k) == IF k < Down THEN k + 1 ELSE k

\* Mutant: the comparison is the wrong way round.
OverdueReversed(p) == Known(p) /\ peers[p].age < Window

\* time.Since(peer.LastSeen) > HeartbeatInterval*3.
Overdue(p) == Known(p) /\ peers[p].age > Window

\* checkPeerHealth, on a tick of healthCheckLoop.
CheckPeerHealth ==
    /\ proc[Self] # "off" /\ ~cancelled[Self]
    /\ peers' = [p \in Nodes |->
                    IF Overdue(p) THEN [peers[p] EXCEPT !.missed = Bump(@)] ELSE peers[p]]
    /\ UNCHANGED <<pubVars, retained, subscribed, queue, due, callback>>

\* A heartbeat interval passes.
Tick ==
    /\ proc[Self] # "off"
    /\ peers' = [p \in Nodes |->
                    IF Known(p) /\ peers[p].age <= Window
                    THEN [peers[p] EXCEPT !.age = @ + 1] ELSE peers[p]]
    /\ UNCHANGED <<pubVars, retained, subscribed, queue, due, callback>>

Next ==
    \/ \E n \in Nodes :
          \/ Start(n) \/ PublishHeartbeat(n) \/ Cancel(n) \/ LoopEnds(n)
          \/ Stop(n) \/ StopReturns(n) \/ Crash(n) \/ LinkLost(n) \/ Reconnect(n)
          \/ HandleRetained(n)
          \/ \E ep \in Endpoints : UpdateLocalEndpoint(n, ep)
    \/ Subscribe \/ HandleHeartbeat \/ OnPeerUpdate \/ HandlePresence
    \/ CheckPeerHealth \/ Tick

Spec == Init /\ [][Next]_vars

\* Tickers fire, handlers run and time passes.  Strong fairness for heartbeats:
\* a full queue is a bound of this model, the broker accepts them all.
FairSpec ==
    /\ Spec
    /\ WF_vars(Tick) /\ WF_vars(CheckPeerHealth) /\ WF_vars(Subscribe)
    /\ WF_vars(HandleHeartbeat) /\ WF_vars(OnPeerUpdate) /\ WF_vars(HandlePresence)
    /\ \A n \in Nodes : WF_vars(HandleRetained(n)) /\ SF_vars(PublishHeartbeat(n))

-----------------------------------------------------------------------------
\* The types of the variables.
TypeOK ==
    /\ proc \in [Nodes -> {"off", "up", "stopping"}]
    /\ cancelled \in [Nodes -> BOOLEAN] /\ beating \in [Nodes -> BOOLEAN]
    /\ link \in [Nodes -> BOOLEAN] /\ starts \in [Nodes -> 0..MaxStarts]
    /\ retained \subseteq Nodes /\ due \subseteq Nodes
    /\ subscribed \in BOOLEAN
    /\ queue \in Seq(Heartbeat \cup Presence) /\ Len(queue) <= MaxQueue
    /\ peers \in [Nodes -> PeerInfo \cup {NoPeer}]
    /\ callback \in Heartbeat \cup {NoCallback}

\* A peer has a count of missed heartbeats only while none has been handled for
\* more than three intervals: what handleHeartbeat and checkPeerHealth do to
\* LastSeen and MissedHeartbeats fits together in every order.
SuspectIsSilent ==
    \A p \in Nodes : Known(p) /\ peers[p].missed \in 1..Down => peers[p].age > Window

\* A node is marked offline only if it once announced that it was, by
\* heartbeatLoop or by Stop, and it is in the table only if it was started.
OfflineWasAnnounced ==
    \A p \in Nodes : Known(p) =>
        /\ p # Self /\ peers[p].inc <= starts[p]
        /\ peers[p].missed = Offline => p \in retained

\* A peer that is gone is noticed, by its presence or by its silence, unless it
\* comes back or Self is shut down.
DownNoticed ==
    \A p \in Nodes \ {Self} :
        (Known(p) /\ proc[p] = "off")
            ~> (\/ ~Known(p) \/ peers[p].missed >= Down
                \/ proc[p] # "off" \/ cancelled[Self])

\* A node that stays down ends up reported down for good: no heartbeat still on
\* its way, no resubscription and no retained presence revives it for ever.
DownStays ==
    \A p \in Nodes \ {Self} :
        <>[](proc[p] = "off" /\ proc[Self] = "up" /\ ~cancelled[Self])
            => <>[](Known(p) => peers[p].missed >= Down)

Stable(p) ==
    \A n \in {p, Self} : proc[n] = "up" /\ ~cancelled[n] /\ link[n]

\* A peer that stays up and connected is in good standing again and again.
LiveSeen ==
    \A p \in Nodes \ {Self} :
        <>[]Stable(p) => []<>(Known(p) /\ peers[p].missed = 0)

\* "mark as offline", "peer went offline": a running node is not marked offline
\* once a heartbeat of its current start has been handled.
LiveNotOffline ==
    \A p \in Nodes :
        Known(p) /\ peers[p].missed = Offline /\ proc[p] = "up" /\ ~cancelled[p]
            => peers[p].inc < starts[p]
=============================================================================
