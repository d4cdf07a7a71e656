-------------------------- MODULE DiscoveryProofs --------------------------
(***************************************************************************)
(* Proofs about peer discovery: for every set of nodes and endpoints and   *)
(* all bounds, Discovery keeps TypeOK, SuspectIsSilent and                 *)
(* OfflineWasAnnounced.                                                    *)
(***************************************************************************)
EXTENDS Discovery, TLAPS

Message == Heartbeat \cup Presence

\* A process that runs, beats or is connected was started.
RunningStarted ==
    \A n \in Nodes : proc[n] # "off" \/ beating[n] \/ link[n] => starts[n] >= 1

\* What is on its way to Self was true when it was sent, and still is: starts are
\* only counted up, and the broker never forgets a retained presence.
MailTruthful ==
    /\ due \subseteq retained
    /\ \A i \in DOMAIN queue :
          /\ queue[i] \in Heartbeat => queue[i].inc <= starts[queue[i].node]
          /\ queue[i] \in Presence => queue[i].node \in retained

DInv ==
    /\ TypeOK /\ RunningStarted /\ MailTruthful
    /\ SuspectIsSilent /\ OfflineWasAnnounced

-----------------------------------------------------------------------------
(* Facts about messages and queues.                                        *)

\* The kind of a message tells heartbeats and presences apart.
LEMMA MessageKinds ==
    /\ \A m \in Message : m.kind = "heartbeat" <=> m \in Heartbeat
    /\ \A m \in Message : m.kind = "offline" <=> m \in Presence
    /\ \A m \in Message : m.node \in Nodes
    /\ \A m \in Heartbeat : m.kind = "heartbeat" /\ m.inc \in 1..MaxStarts
                            /\ m.ep \in Endpoints \cup {NoEndpoint}
  BY DEF Message, Heartbeat, Presence

\* A queue after a message was added at its end.
LEMMA Appended ==
    ASSUME NEW q \in Seq(Message), NEW m \in Message
    PROVE  /\ Append(q, m) \in Seq(Message) /\ Len(Append(q, m)) = Len(q) + 1
           /\ \A i \in DOMAIN Append(q, m) :
                 (i \in DOMAIN q /\ Append(q, m)[i] = q[i]) \/ Append(q, m)[i] = m
  OBVIOUS

\* A queue after its first message was taken.
LEMMA Taken ==
    ASSUME NEW q \in Seq(Message), q # <<>>
    PROVE  /\ Head(q) \in Message /\ 1 \in DOMAIN q /\ Head(q) = q[1]
           /\ Tail(q) \in Seq(Message) /\ Len(Tail(q)) <= Len(q)
           /\ \A i \in DOMAIN Tail(q) : i + 1 \in DOMAIN q /\ Tail(q)[i] = q[i + 1]
  OBVIOUS

\* The broker forwards a true message, and the queue stays within its bound.
LEMMA ForwardFacts ==
    ASSUME DInv, NEW m \in Message, Room, Forward(m),
           m \in Heartbeat => m.inc <= starts[m.node],
           m \in Presence => m.node \in retained',
           starts' = starts, retained \subseteq retained'
    PROVE  /\ queue' \in Seq(Message) /\ Len(queue') <= MaxQueue
           /\ \A i \in DOMAIN queue' :
                 /\ queue'[i] \in Heartbeat => queue'[i].inc <= starts'[queue'[i].node]
                 /\ queue'[i] \in Presence => queue'[i].node \in retained'
<1> USE DEF DInv
<1>1. queue \in Seq(Message) /\ Len(queue) <= MaxQueue /\ MaxQueue \in Nat /\ Len(queue) \in Nat
  BY DiscoveryAssumption DEF TypeOK, Message
<1>2. CASE subscribed
  <2>1. queue' = Append(queue, m) /\ Len(queue) < MaxQueue
    BY <1>2 DEF Forward, Room
  <2>2. /\ queue' \in Seq(Message) /\ Len(queue') = Len(queue) + 1
        /\ \A i \in DOMAIN queue' : (i \in DOMAIN queue /\ queue'[i] = queue[i]) \/ queue'[i] = m
    BY <1>1, <2>1, Appended
  <2>3. QED
    BY <1>1, <2>1, <2>2 DEF MailTruthful
<1>3. CASE ~subscribed
  BY <1>1, <1>3 DEF Forward, MailTruthful
<1>4. QED
  BY <1>2, <1>3

\* A heartbeat of a node that was started.
LEMMA MsgFacts ==
    ASSUME DInv, NEW n \in Nodes, starts[n] >= 1, NEW ep \in Endpoints \cup {NoEndpoint}
    PROVE  /\ Msg(n, ep) \in Heartbeat /\ Msg(n, ep) \in Message
           /\ Msg(n, ep) \notin Presence
           /\ Msg(n, ep).inc <= starts[Msg(n, ep).node]
<1>1. starts[n] \in 1..MaxStarts
  BY DiscoveryAssumption DEF DInv, TypeOK
<1>2. Msg(n, ep) \in Heartbeat
  BY <1>1 DEF Msg, Heartbeat
<1>3. QED
  BY <1>1, <1>2, DiscoveryAssumption DEF Msg, Message, Presence

\* What handling a presence does to the table.
LEMMA MarkOfflineFacts ==
    ASSUME DInv, NEW p \in Nodes, p \in retained, MarkOffline(p)
    PROVE  /\ peers' \in [Nodes -> PeerInfo \cup {NoPeer}]
           /\ \A q \in Nodes :
                 \/ peers'[q] = peers[q]
                 \/ /\ q = p /\ Known(q) /\ peers'[q] # NoPeer
                    /\ peers'[q].missed = Offline /\ peers'[q].inc = peers[q].inc
                    /\ peers'[q].ep = peers[q].ep
<1>1. CASE p # Self /\ Known(p)
  <2>1. peers[p] \in PeerInfo
    BY <1>1 DEF DInv, TypeOK, Known
  <2>2. [peers[p] EXCEPT !.missed = Offline] \in PeerInfo
    BY <2>1 DEF PeerInfo, Offline
  <2>3. peers' = [peers EXCEPT ![p] = [peers[p] EXCEPT !.missed = Offline]]
    BY <1>1 DEF MarkOffline, DInv, TypeOK
  <2>4. QED
    BY <1>1, <2>1, <2>2, <2>3, DiscoveryAssumption DEF DInv, TypeOK, PeerInfo
<1>2. CASE ~(p # Self /\ Known(p))
  BY <1>2 DEF MarkOffline, DInv, TypeOK
<1>3. QED
  BY <1>1, <1>2

-----------------------------------------------------------------------------
(* One lemma per group of actions.                                         *)

\* NewDiscovery starts with an empty table.
LEMMA InitDInv == Init => DInv
<1> SUFFICES ASSUME Init PROVE DInv
  OBVIOUS
<1>1. /\ queue \in Seq(Heartbeat \cup Presence) /\ Len(queue) <= MaxQueue
      /\ DOMAIN queue = {}
  BY DiscoveryAssumption DEF Init
<1>2. TypeOK
  <2>1. /\ proc \in [Nodes -> {"off", "up", "stopping"}]
        /\ starts \in [Nodes -> 0..MaxStarts]
        /\ retained \subseteq Nodes /\ due \subseteq Nodes
        /\ peers \in [Nodes -> PeerInfo \cup {NoPeer}]
        /\ callback \in Heartbeat \cup {NoCallback}
    BY DiscoveryAssumption DEF Init
  <2>2. /\ cancelled \in [Nodes -> BOOLEAN] /\ beating \in [Nodes -> BOOLEAN]
        /\ link \in [Nodes -> BOOLEAN] /\ subscribed \in BOOLEAN
    BY DEF Init
  <2>3. QED
    BY <1>1, <2>1, <2>2 DEF TypeOK
<1>3. RunningStarted /\ MailTruthful
  BY <1>1 DEF Init, RunningStarted, MailTruthful
<1>4. SuspectIsSilent /\ OfflineWasAnnounced
  BY DEF Init, SuspectIsSilent, OfflineWasAnnounced, Known
<1>5. QED
  BY <1>2, <1>3, <1>4 DEF DInv

\* What the table says stays true while nobody touches it.
LEMMA TableKept ==
    ASSUME DInv, UNCHANGED peers, starts' \in [Nodes -> 0..MaxStarts],
           \A n \in Nodes : starts[n] <= starts'[n], retained \subseteq retained'
    PROVE  SuspectIsSilent' /\ OfflineWasAnnounced'
<1>1. \A p \in Nodes : Known(p) =>
         /\ peers[p].inc \in Nat /\ starts[p] \in Nat /\ starts'[p] \in Nat
  BY DiscoveryAssumption DEF DInv, TypeOK, PeerInfo, Known
<1>2. QED
  BY <1>1 DEF DInv, SuspectIsSilent, OfflineWasAnnounced, Known

\* Queue and due after Self's session has ended, or not.
LEMMA SessionFacts ==
    ASSUME DInv, NEW n \in Nodes, SessionEnds(n)
    PROVE  /\ subscribed' \in BOOLEAN /\ queue' \in Seq(Message) /\ Len(queue') <= MaxQueue
           /\ due' \subseteq due
           /\ queue' = queue \/ queue' = <<>>
<1>1. MaxQueue \in Nat /\ <<>> \in Seq(Message) /\ Len(<<>>) = 0
  BY DiscoveryAssumption
<1>2. CASE n = Self
  <2>1. subscribed' = FALSE /\ queue' = <<>> /\ due' = {}
    BY <1>2 DEF SessionEnds
  <2>2. subscribed' \in BOOLEAN /\ due' \subseteq due
    BY <2>1
  <2>3. QED
    BY <1>1, <2>1, <2>2
<1>3. CASE n # Self
  BY <1>3 DEF SessionEnds, DInv, TypeOK, Message
<1>4. QED
  BY <1>2, <1>3

\* Start, Cancel and Reconnect change a node's own state only.
LEMMA LocalStep ==
    ASSUME DInv, NEW n \in Nodes, Start(n) \/ Cancel(n) \/ Reconnect(n)
    PROVE  DInv'
<1> USE DEF DInv
<1>1. /\ starts' \in [Nodes -> 0..MaxStarts] /\ \A p \in Nodes : starts[p] <= starts'[p]
      /\ RunningStarted'
  <2>1. CASE Start(n)
    BY <2>1, DiscoveryAssumption DEF Start, TypeOK, RunningStarted
  <2>2. CASE Cancel(n)
    BY <2>2, DiscoveryAssumption DEF Cancel, TypeOK, RunningStarted
  <2>3. CASE Reconnect(n)
    BY <2>3, DiscoveryAssumption DEF Reconnect, TypeOK, RunningStarted
  <2>4. QED
    BY <2>1, <2>2, <2>3
<1>2. /\ proc' \in [Nodes -> {"off", "up", "stopping"}]
      /\ cancelled' \in [Nodes -> BOOLEAN] /\ beating' \in [Nodes -> BOOLEAN]
      /\ link' \in [Nodes -> BOOLEAN]
  BY DEF Start, Cancel, Reconnect, TypeOK
<1>3. UNCHANGED <<retained, subscribed, queue, due, peers, callback>>
  BY DEF Start, Cancel, Reconnect, subVars
<1>4. TypeOK'
  BY <1>1, <1>2, <1>3 DEF TypeOK
<1>5. MailTruthful'
  <2>1. \A i \in DOMAIN queue : queue[i] \in Message
    BY DEF TypeOK, Message
  <2>2. \A i \in DOMAIN queue : queue[i] \in Heartbeat =>
           queue[i].inc \in Nat /\ queue[i].node \in Nodes
    BY <2>1, MessageKinds
  <2>3. \A p \in Nodes : starts[p] \in Nat /\ starts'[p] \in Nat
    BY <1>1 DEF TypeOK
  <2>4. QED
    BY <1>1, <1>3, <2>2, <2>3 DEF MailTruthful
<1>6. SuspectIsSilent' /\ OfflineWasAnnounced'
  BY <1>1, <1>3, TableKept
<1>7. QED
  BY <1>1, <1>4, <1>5, <1>6

\* A heartbeat is published, with an endpoint or without.
LEMMA PublishStep ==
    ASSUME DInv, NEW n \in Nodes,
           PublishHeartbeat(n) \/ \E ep \in Endpoints : UpdateLocalEndpoint(n, ep)
    PROVE  DInv'
<1> USE DEF DInv
<1>1. starts[n] >= 1
  BY DEF PublishHeartbeat, UpdateLocalEndpoint, RunningStarted
<1>2. PICK ep \in Endpoints \cup {NoEndpoint} : Room /\ Forward(Msg(n, ep))
  BY DEF PublishHeartbeat, UpdateLocalEndpoint
<1>3. UNCHANGED <<proc, cancelled, beating, link, starts, retained, subscribed, due, peers, callback>>
  BY DEF PublishHeartbeat, UpdateLocalEndpoint, pubVars
<1>4. /\ queue' \in Seq(Message) /\ Len(queue') <= MaxQueue
      /\ \A i \in DOMAIN queue' :
            /\ queue'[i] \in Heartbeat => queue'[i].inc <= starts'[queue'[i].node]
            /\ queue'[i] \in Presence => queue'[i].node \in retained'
  BY <1>1, <1>2, <1>3, MsgFacts, ForwardFacts
<1>5. TypeOK' /\ RunningStarted' /\ MailTruthful'
  BY <1>3, <1>4 DEF TypeOK, RunningStarted, MailTruthful, Message
<1>6. SuspectIsSilent' /\ OfflineWasAnnounced'
  <2>1. starts' \in [Nodes -> 0..MaxStarts] /\ \A p \in Nodes : starts[p] <= starts'[p]
    BY <1>3, DiscoveryAssumption DEF TypeOK
  <2>2. QED
    BY <1>3, <2>1, TableKept
<1>7. QED
  BY <1>5, <1>6

\* A node announces itself offline: the presence is retained before it is owed.
LEMMA AnnounceFacts ==
    ASSUME DInv, NEW n \in Nodes, Announce(n), starts' = starts
    PROVE  /\ retained \subseteq retained' /\ retained' \subseteq Nodes
           /\ queue' \in Seq(Message) /\ Len(queue') <= MaxQueue
           /\ \A i \in DOMAIN queue' :
                 /\ queue'[i] \in Heartbeat => queue'[i].inc <= starts'[queue'[i].node]
                 /\ queue'[i] \in Presence => queue'[i].node \in retained'
<1> DEFINE m == [kind |-> "offline", node |-> n]
<1>1. m \in Presence /\ m \in Message /\ m \notin Heartbeat /\ m.node = n
  BY DEF Presence, Heartbeat, Message
<1>2. Room /\ Forward(m) /\ retained' = retained \cup {n}
  BY DEF Announce
<1> HIDE DEF m
<1>3. retained \subseteq retained' /\ retained' \subseteq Nodes
  BY <1>2 DEF DInv, TypeOK
<1>4. QED
  BY <1>1, <1>2, <1>3, ForwardFacts

\* A node goes down: its loop ends, it stops, or its link breaks.
LEMMA DownStep ==
    ASSUME DInv, NEW n \in Nodes, LoopEnds(n) \/ Stop(n) \/ LinkLost(n)
    PROVE  DInv'
<1> USE DEF DInv
<1>1. UNCHANGED <<cancelled, starts, peers, callback>>
  BY DEF LoopEnds, Stop, LinkLost
<1>2. /\ retained \subseteq retained' /\ retained' \subseteq Nodes
      /\ subscribed' \in BOOLEAN /\ due' \subseteq due
      /\ queue' \in Seq(Message) /\ Len(queue') <= MaxQueue
      /\ \A i \in DOMAIN queue' :
            /\ queue'[i] \in Heartbeat => queue'[i].inc <= starts'[queue'[i].node]
            /\ queue'[i] \in Presence => queue'[i].node \in retained'
  <2>1. CASE Announce(n) /\ UNCHANGED <<subscribed, due>>
    BY <1>1, <2>1, AnnounceFacts DEF TypeOK
  <2>2. CASE SessionEnds(n) /\ retained' \in {retained, retained \cup {n}}
    BY <1>1, <2>2, SessionFacts DEF TypeOK, MailTruthful
  <2>3. CASE UNCHANGED <<queue, retained, subscribed, due>>
    BY <1>1, <2>3 DEF TypeOK, MailTruthful, Message
  <2>4. QED
    BY <2>1, <2>2, <2>3 DEF LoopEnds, Stop, LinkLost
<1>3. /\ proc' \in [Nodes -> {"off", "up", "stopping"}]
      /\ beating' \in [Nodes -> BOOLEAN] /\ link' \in [Nodes -> BOOLEAN]
      /\ RunningStarted'
  BY <1>1 DEF LoopEnds, Stop, LinkLost, TypeOK, RunningStarted
<1>4. TypeOK' /\ MailTruthful'
  BY <1>1, <1>2, <1>3 DEF TypeOK, MailTruthful, Message
<1>5. SuspectIsSilent' /\ OfflineWasAnnounced'
  <2>1. starts' \in [Nodes -> 0..MaxStarts] /\ \A p \in Nodes : starts[p] <= starts'[p]
    BY <1>1, DiscoveryAssumption DEF TypeOK
  <2>2. QED
    BY <1>1, <1>2, <2>1, TableKept
<1>6. QED
  BY <1>3, <1>4, <1>5

\* A process ends, in order or not; Self's table goes with it.
LEMMA EndStep ==
    ASSUME DInv, NEW n \in Nodes, StopReturns(n) \/ Crash(n)
    PROVE  DInv'
<1> USE DEF DInv
<1>1. UNCHANGED <<cancelled, starts, retained>> /\ MemoryLost(n)
  BY DEF StopReturns, Crash
<1>2. /\ subscribed' \in BOOLEAN /\ queue' \in Seq(Message) /\ Len(queue') <= MaxQueue
      /\ due' \subseteq due
      /\ queue' = queue \/ queue' = <<>>
  <2>1. CASE StopReturns(n)
    BY <2>1 DEF StopReturns, TypeOK, Message
  <2>2. CASE Crash(n)
    BY <2>2, SessionFacts DEF Crash
  <2>3. QED
    BY <2>1, <2>2
<1>3. /\ proc' \in [Nodes -> {"off", "up", "stopping"}]
      /\ beating' \in [Nodes -> BOOLEAN] /\ link' \in [Nodes -> BOOLEAN]
      /\ RunningStarted'
  BY <1>1 DEF StopReturns, Crash, TypeOK, RunningStarted
<1>4. CASE peers' = [p \in Nodes |-> NoPeer] /\ callback' = NoCallback
  <2>1. TypeOK' /\ MailTruthful'
    BY <1>1, <1>2, <1>3, <1>4 DEF TypeOK, MailTruthful, Message
  <2>2. SuspectIsSilent' /\ OfflineWasAnnounced'
    BY <1>4 DEF SuspectIsSilent, OfflineWasAnnounced, Known
  <2>3. QED
    BY <1>3, <2>1, <2>2
<1>5. CASE UNCHANGED <<peers, callback>>
  <2>1. TypeOK' /\ MailTruthful'
    BY <1>1, <1>2, <1>3, <1>5 DEF TypeOK, MailTruthful, Message
  <2>2. starts' \in [Nodes -> 0..MaxStarts] /\ \A p \in Nodes : starts[p] <= starts'[p]
    BY <1>1, DiscoveryAssumption DEF TypeOK
  <2>3. SuspectIsSilent' /\ OfflineWasAnnounced'
    BY <1>1, <1>5, <2>2, TableKept
  <2>4. QED
    BY <1>3, <2>1, <2>3
<1>6. QED
  BY <1>1, <1>4, <1>5 DEF MemoryLost

\* Self subscribes, or the callback has returned.
LEMMA QuietStep ==
    ASSUME DInv, Subscribe \/ OnPeerUpdate \/ UNCHANGED vars
    PROVE  DInv'
<1> USE DEF DInv
<1>1. UNCHANGED <<proc, cancelled, beating, link, starts, retained, queue, peers>>
  BY DEF Subscribe, OnPeerUpdate, vars, pubVars, subVars
<1>2. /\ subscribed' \in BOOLEAN /\ due' \subseteq retained
      /\ callback' = callback \/ callback' = NoCallback
  BY DEF Subscribe, OnPeerUpdate, vars, subVars, TypeOK, MailTruthful
<1>3. TypeOK'
  BY <1>1, <1>2 DEF TypeOK
<1>4. RunningStarted' /\ MailTruthful'
  BY <1>1, <1>2 DEF RunningStarted, MailTruthful
<1>5. SuspectIsSilent' /\ OfflineWasAnnounced'
  BY <1>1, <1>2 DEF SuspectIsSilent, OfflineWasAnnounced, Known
<1>6. QED
  BY <1>3, <1>4, <1>5

\* What handling a message leaves of the queue.
LEMMA HandledFacts ==
    ASSUME DInv, queue # <<>>, queue' = Tail(queue), UNCHANGED <<starts, retained>>
    PROVE  /\ Head(queue) \in Message
           /\ queue' \in Seq(Message) /\ Len(queue') <= MaxQueue
           /\ Head(queue) \in Heartbeat => Head(queue).inc <= starts[Head(queue).node]
           /\ Head(queue) \in Presence => Head(queue).node \in retained
           /\ \A i \in DOMAIN queue' :
                 /\ queue'[i] \in Heartbeat => queue'[i].inc <= starts'[queue'[i].node]
                 /\ queue'[i] \in Presence => queue'[i].node \in retained'
<1>1. queue \in Seq(Message) /\ Len(queue) <= MaxQueue /\ MaxQueue \in Nat
  BY DiscoveryAssumption DEF DInv, TypeOK, Message
<1>2. /\ Head(queue) \in Message /\ 1 \in DOMAIN queue /\ Head(queue) = queue[1]
      /\ queue' \in Seq(Message) /\ Len(queue') <= Len(queue)
      /\ \A i \in DOMAIN queue' : i + 1 \in DOMAIN queue /\ queue'[i] = queue[i + 1]
  BY <1>1, Taken
<1>3. QED
  BY <1>1, <1>2 DEF DInv, MailTruthful

\* handleHeartbeat: the table gets what the message says.
LEMMA HeartbeatStep ==
    ASSUME DInv, HandleHeartbeat
    PROVE  DInv'
<1> USE DEF DInv
<1> DEFINE m == Head(queue)
<1>1. /\ queue # <<>> /\ queue' = Tail(queue) /\ m.kind = "heartbeat"
      /\ UNCHANGED <<proc, cancelled, beating, link, starts, retained, subscribed, due>>
  BY DEF HandleHeartbeat, pubVars
<1>2. /\ m \in Message
      /\ queue' \in Seq(Message) /\ Len(queue') <= MaxQueue
      /\ m \in Heartbeat => m.inc <= starts[m.node]
      /\ \A i \in DOMAIN queue' :
            /\ queue'[i] \in Heartbeat => queue'[i].inc <= starts'[queue'[i].node]
            /\ queue'[i] \in Presence => queue'[i].node \in retained'
  BY <1>1, HandledFacts
<1>3. /\ m \in Heartbeat /\ m.node \in Nodes /\ m.inc \in 1..MaxStarts
      /\ m.ep \in Endpoints \cup {NoEndpoint}
  BY <1>1, <1>2, MessageKinds
<1>4. CASE m.node = Self /\ UNCHANGED <<peers, callback>>
  <2>1. TypeOK' /\ RunningStarted' /\ MailTruthful'
    BY <1>1, <1>2, <1>4 DEF TypeOK, RunningStarted, MailTruthful, Message
  <2>2. starts' \in [Nodes -> 0..MaxStarts] /\ \A p \in Nodes : starts[p] <= starts'[p]
    BY <1>1, DiscoveryAssumption DEF TypeOK
  <2>3. QED
    BY <1>1, <1>4, <2>1, <2>2, TableKept
<1>5. CASE /\ m.node # Self /\ peers' = [peers EXCEPT ![m.node] = Record(m)]
           /\ callback' = m
  <2>1. /\ Record(m) \in PeerInfo /\ Record(m) # NoPeer
        /\ Record(m).missed = 0 /\ Record(m).inc = m.inc /\ Record(m).ep = m.ep
    BY <1>3, DiscoveryAssumption DEF Record, PeerInfo, Window, Offline
  <2> HIDE DEF m
  <2>2. /\ peers' \in [Nodes -> PeerInfo \cup {NoPeer}] /\ peers'[m.node] = Record(m)
        /\ \A p \in Nodes \ {m.node} : peers'[p] = peers[p]
    BY <1>3, <1>5, <2>1 DEF TypeOK
  <2>3. TypeOK' /\ RunningStarted' /\ MailTruthful'
    BY <1>1, <1>2, <1>3, <1>5, <2>2 DEF TypeOK, RunningStarted, MailTruthful, Message
  <2>4. SuspectIsSilent'
    BY <2>1, <2>2 DEF SuspectIsSilent, Known, Down
  <2>5. OfflineWasAnnounced'
    BY <1>1, <1>2, <1>3, <1>5, <2>1, <2>2 DEF OfflineWasAnnounced, Known, Offline
  <2>6. QED
    BY <2>3, <2>4, <2>5
<1>6. QED
  BY <1>4, <1>5 DEF HandleHeartbeat

\* handlePresence: who is marked has announced it.
LEMMA PresenceStep ==
    ASSUME DInv, HandlePresence \/ \E p \in Nodes : HandleRetained(p)
    PROVE  DInv'
<1> USE DEF DInv
<1>1. /\ HandlerIdle
      /\ UNCHANGED <<proc, cancelled, beating, link, starts, retained, subscribed, callback>>
  BY DEF HandlePresence, HandleRetained, pubVars
<1>2. /\ \E p \in Nodes : p \in retained /\ MarkOffline(p)
      /\ queue' \in Seq(Message) /\ Len(queue') <= MaxQueue /\ due' \subseteq retained
      /\ \A i \in DOMAIN queue' :
            /\ queue'[i] \in Heartbeat => queue'[i].inc <= starts'[queue'[i].node]
            /\ queue'[i] \in Presence => queue'[i].node \in retained'
  <2>1. CASE HandlePresence
    <3>1. queue # <<>> /\ queue' = Tail(queue) /\ Head(queue).kind = "offline" /\ due' = due
      BY <2>1 DEF HandlePresence
    <3>2. /\ Head(queue) \in Message
          /\ queue' \in Seq(Message) /\ Len(queue') <= MaxQueue
          /\ Head(queue) \in Presence => Head(queue).node \in retained
          /\ \A i \in DOMAIN queue' :
                /\ queue'[i] \in Heartbeat => queue'[i].inc <= starts'[queue'[i].node]
                /\ queue'[i] \in Presence => queue'[i].node \in retained'
      BY <1>1, <3>1, HandledFacts
    <3>3. Head(queue).node \in Nodes /\ Head(queue) \in Presence
      BY <3>1, <3>2, MessageKinds
    <3>4. QED
      BY <2>1, <3>1, <3>2, <3>3 DEF HandlePresence, MailTruthful
  <2>2. CASE \E p \in Nodes : HandleRetained(p)
    BY <1>1, <2>2 DEF HandleRetained, MailTruthful, TypeOK, Message
  <2>3. QED
    BY <2>1, <2>2
<1>3. PICK p \in Nodes : p \in retained /\ MarkOffline(p)
  BY <1>2
<1>4. /\ peers' \in [Nodes -> PeerInfo \cup {NoPeer}]
      /\ \A q \in Nodes :
            \/ peers'[q] = peers[q]
            \/ /\ q = p /\ Known(q) /\ peers'[q] # NoPeer
               /\ peers'[q].missed = Offline /\ peers'[q].inc = peers[q].inc
               /\ peers'[q].ep = peers[q].ep
  BY <1>3, MarkOfflineFacts
<1>5. TypeOK' /\ RunningStarted' /\ MailTruthful'
  BY <1>1, <1>2, <1>4 DEF TypeOK, RunningStarted, MailTruthful, Message
<1>6. SuspectIsSilent'
  BY <1>4 DEF SuspectIsSilent, Known, Down, Offline
<1>7. OfflineWasAnnounced'
  BY <1>1, <1>3, <1>4 DEF OfflineWasAnnounced, Known
<1>8. QED
  BY <1>5, <1>6, <1>7

\* Time passes, or checkPeerHealth runs: no peer comes, goes or changes its
\* announcement.
LEMMA TimeStep ==
    ASSUME DInv, CheckPeerHealth \/ Tick
    PROVE  DInv'
<1> USE DEF DInv
<1>1. UNCHANGED <<proc, cancelled, beating, link, starts, retained, subscribed, queue, due,
                  callback>>
  BY DEF CheckPeerHealth, Tick, pubVars
<1>2. ASSUME NEW p \in Nodes
      PROVE  \/ peers'[p] = peers[p]
             \/ /\ Known(p) /\ peers'[p] \in PeerInfo
                /\ peers'[p].inc = peers[p].inc /\ peers'[p].ep = peers[p].ep
                /\ peers'[p].missed \in 1..Down => peers'[p].age > Window
                /\ peers'[p].missed = Offline => peers[p].missed = Offline
  <2>1. CASE ~Known(p)
    BY <2>1 DEF CheckPeerHealth, Tick, Overdue
  <2>2. CASE Known(p)
    <3>1. /\ peers[p] \in PeerInfo /\ peers[p].age \in 0..4 /\ peers[p].missed \in 0..4
          /\ peers[p].missed \in 1..3 => peers[p].age > 3
      BY <2>2 DEF TypeOK, Known, PeerInfo, Window, Offline, SuspectIsSilent, Down
    <3>2. CASE CheckPeerHealth /\ Overdue(p)
      <4>1. peers'[p] = [peers[p] EXCEPT !.missed = Bump(peers[p].missed)] /\ peers[p].age > 3
        BY <3>2 DEF CheckPeerHealth, Overdue, Window
      <4>2. /\ Bump(peers[p].missed) \in 0..4
            /\ Bump(peers[p].missed) = 4 => peers[p].missed = 4
        BY <3>1 DEF Bump, Down
      <4>3. QED
        BY <2>2, <3>1, <4>1, <4>2 DEF PeerInfo, Window, Offline, Down
    <3>3. CASE CheckPeerHealth /\ ~Overdue(p)
      BY <3>3 DEF CheckPeerHealth
    <3>4. CASE Tick /\ peers[p].age <= Window
      <4>1. peers'[p] = [peers[p] EXCEPT !.age = peers[p].age + 1] /\ peers[p].age <= 3
        BY <2>2, <3>4 DEF Tick, Window
      <4>2. QED
        BY <2>2, <3>1, <4>1 DEF PeerInfo, Window, Offline, Down
    <3>5. CASE Tick /\ ~(peers[p].age <= Window)
      BY <3>5 DEF Tick
    <3>6. QED
      BY <3>2, <3>3, <3>4, <3>5
  <2>3. QED
    BY <2>1, <2>2
<1>3. peers' \in [Nodes -> PeerInfo \cup {NoPeer}]
  <2>1. peers' = [p \in Nodes |-> peers'[p]]
    BY DEF CheckPeerHealth, Tick
  <2>2. \A p \in Nodes : peers'[p] \in PeerInfo \cup {NoPeer}
    BY <1>2 DEF TypeOK
  <2>3. QED
    BY <2>1, <2>2
<1>4. TypeOK' /\ RunningStarted' /\ MailTruthful'
  BY <1>1, <1>3 DEF TypeOK, RunningStarted, MailTruthful
<1>5. SuspectIsSilent'
  BY <1>2 DEF SuspectIsSilent, Known
<1>6. OfflineWasAnnounced'
  BY <1>1, <1>2 DEF OfflineWasAnnounced, Known
<1>7. QED
  BY <1>4, <1>5, <1>6

-----------------------------------------------------------------------------

\* The parts of the invariant hold together in every state.
LEMMA Invariance == Spec => []DInv
<1>1. DInv /\ [Next]_vars => DInv'
  BY LocalStep, PublishStep, DownStep, EndStep, QuietStep, HeartbeatStep, PresenceStep, TimeStep
  DEF Next
<1>2. QED
  BY InitDInv, <1>1, PTL DEF Spec

\* The peer table, the queue at the broker and the loops' states keep their types.
THEOREM TypeCorrect == Spec => []TypeOK
<1>1. DInv => TypeOK
  BY DEF DInv
<1>2. QED
  BY Invariance, <1>1, PTL

\* checkPeerHealth never counts against a peer that was heard from within three
\* intervals, and handleHeartbeat always clears the count.
THEOREM OnlySilentSuspected == Spec => []SuspectIsSilent
<1>1. DInv => SuspectIsSilent
  BY DEF DInv
<1>2. QED
  BY Invariance, <1>1, PTL

\* handlePresence marks nobody who has not announced it, through every restart,
\* reconnection and resubscription.
THEOREM OnlyAnnouncedOffline == Spec => []OfflineWasAnnounced
<1>1. DInv => OfflineWasAnnounced
  BY DEF DInv
<1>2. QED
  BY Invariance, <1>1, PTL
=============================================================================
