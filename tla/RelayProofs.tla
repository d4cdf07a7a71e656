---------------------------- MODULE RelayProofs ----------------------------
(***************************************************************************)
(* Proofs about the relay: for every set of nodes and connections, every   *)
(* buffer size and every number of frames, Relay keeps TypeOK,             *)
(* RegistryLive, SoleOwnerReachable, StopQuiesced, ForwardedInOrder and    *)
(* ConnectRegisters, and it implements Mailbox.                            *)
(***************************************************************************)
EXTENDS RelayRefinement, SequenceTheorems, TLAPS

-----------------------------------------------------------------------------
(* The inductive invariant, in two layers; a third is at the end.          *)

\* The locals of a handler in the middle of sendMessage are set.
WriterReady == \A c \in Conns : pc[c] = "write" => wdst[c] \in Conns /\ wmsg[c] \in Frame

\* A Connect between its two halves has a connection.
ConnectorReady ==
    \A n \in Nodes, c \in Conns : connecting[c] = n => rc[n] \in Conns

\* A queued data frame names its destination, a register frame its source.
FramesNamed ==
    \A c \in Conns : \A i \in DOMAIN inq[c] :
        /\ inq[c][i].type = "data" => inq[c][i].dst \in Nodes
        /\ inq[c][i].type = "register" => inq[c][i].src \in Nodes

\* The server's end of a connection is open while its handler runs, and the
\* handler has a name exactly from its registration on.
HandlerShape ==
    \A c \in Conns :
        /\ srvOpen[c] <=> Running(c)
        /\ Serving(c) => name[c] \in Nodes
        /\ pc[c] \in {"none", "backlog", "first"} => name[c] = NoNode

\* SoleOwnerReachable, up to the deferred delete itself.
SoleOwnerMapped ==
    \A c \in Conns :
        Serving(c) /\ (\A d \in Conns \ {c} : name[d] # name[c]) => clients[name[c]] = c

\* Stop closed the listener first, and returned with no goroutine left.
StopShape ==
    /\ stopper # "idle" => listener # "open"
    /\ stopper = "done" => acceptor # "running" /\ \A c \in Conns : ~Running(c)

RInv ==
    /\ TypeOK /\ WriterReady /\ ConnectorReady /\ FramesNamed
    /\ HandlerShape /\ RegistryLive /\ SoleOwnerMapped /\ StopShape

\* k ranks before every frame of connection v that is still upstream: the one
\* its handler is writing, the ones queued, the ones not sent yet.
Ahead(v, k) ==
    /\ k <= nsent[v]
    /\ pc[v] = "write" => k < wmsg[v].id
    /\ \A i \in DOMAIN inq[v] : inq[v][i].type # "register" => k < inq[v][i].id

\* Frames queued towards the server keep the order of sending.
QueuedInOrder ==
    \A v \in Conns : \A i \in DOMAIN inq[v] :
        /\ inq[v][i].via = v /\ inq[v][i].id <= nsent[v]
        /\ \A j \in DOMAIN inq[v] :
              i < j /\ inq[v][i].type # "register" /\ inq[v][j].type # "register"
                  => inq[v][i].id < inq[v][j].id

\* The frame being written precedes all that is behind it, and is addressed
\* to the name its target registered.
WrittenInOrder ==
    \A v \in Conns : pc[v] = "write" =>
        /\ wmsg[v].via = v /\ wmsg[v].id <= nsent[v]
        /\ \A i \in DOMAIN inq[v] :
              inq[v][i].type # "register" => wmsg[v].id < inq[v][i].id
        /\ wmsg[v].type = "data" => wmsg[v].dst = name[wdst[v]]
        /\ pc[wdst[v]] \notin {"none", "backlog", "first"}

\* Whatever has reached a client, or its socket, precedes all that has not.
DeliveredInOrder ==
    \A d \in Conns :
        /\ \A v \in Conns : Ahead(v, seen[d][v])
        /\ \A i \in DOMAIN outq[d] :
              /\ Ahead(outq[d][i].via, outq[d][i].id)
              /\ pc[d] \notin {"none", "backlog", "first"}

OInv == QueuedInOrder /\ WrittenInOrder /\ DeliveredInOrder /\ ForwardedInOrder

IInv == RInv /\ OInv

-----------------------------------------------------------------------------
(* Facts about queues and frames.                                          *)

\* A frame made of typed fields is a frame.
LEMMA FrameIntro ==
    ASSUME NEW t \in Types, NEW s \in Nodes \cup {NoNode}, NEW d \in Nodes \cup {NoNode},
           NEW v \in Conns, NEW k \in Nat
    PROVE  [type |-> t, src |-> s, dst |-> d, via |-> v, id |-> k] \in Frame
  BY DEF Frame

\* The fields of a frame are typed.
LEMMA FrameFields ==
    ASSUME NEW f \in Frame
    PROVE  /\ f.type \in Types /\ f.via \in Conns /\ f.id \in Nat
           /\ f.src \in Nodes \cup {NoNode} /\ f.dst \in Nodes \cup {NoNode}
           /\ [f EXCEPT !.type = "pong"] \in Frame
           /\ [f EXCEPT !.type = "pong"].via = f.via
           /\ [f EXCEPT !.type = "pong"].id = f.id
           /\ [f EXCEPT !.type = "pong"].type = "pong"
  BY DEF Frame, Types

\* Reading one frame off a queue.
LEMMA Dequeue ==
    ASSUME NEW S, NEW q \in Seq(S), q # <<>>
    PROVE  /\ Head(q) \in S /\ Tail(q) \in Seq(S) /\ Len(Tail(q)) = Len(q) - 1
           /\ 1 \in DOMAIN q /\ Head(q) = q[1]
           /\ \A i \in DOMAIN Tail(q) :
                 /\ i \in Nat /\ i + 1 \in DOMAIN q
                 /\ 1 < i + 1 /\ Tail(q)[i] = q[i + 1]
  OBVIOUS

\* Adding one frame to a queue.
LEMMA Enqueue ==
    ASSUME NEW S, NEW q \in Seq(S), NEW e \in S
    PROVE  /\ Append(q, e) \in Seq(S) /\ Len(Append(q, e)) = Len(q) + 1
           /\ \A i \in DOMAIN Append(q, e) :
                 \/ i \in DOMAIN q /\ i < Len(q) + 1 /\ Append(q, e)[i] = q[i]
                 \/ i = Len(q) + 1 /\ Append(q, e)[i] = e
  OBVIOUS

-----------------------------------------------------------------------------
(* The registry layer.                                                     *)

\* Init of relay.go's server and clients satisfies the whole invariant.
LEMMA InitIInv == Init => IInv
<1> SUFFICES ASSUME Init PROVE IInv
  OBVIOUS
<1>1. TypeOK
  <2>1. /\ cancelled \in BOOLEAN /\ listener \in {"none", "open", "closed"}
        /\ acceptor \in {"idle", "starting", "running", "late", "returned"}
        /\ stopper \in {"idle", "waiting", "done"}
        /\ clients \in [Nodes -> Conns \cup {NoConn}]
        /\ pc \in [Conns -> PCs]
        /\ name \in [Conns -> Nodes \cup {NoNode}]
    BY DEF Init, PCs
  <2>2. /\ wmsg \in [Conns -> Frame \cup {NoFrame}]
        /\ wdst \in [Conns -> Conns \cup {NoConn}]
        /\ peerOpen \in [Conns -> BOOLEAN] /\ srvOpen \in [Conns -> BOOLEAN]
        /\ rc \in [Nodes -> Conns \cup {NoConn}] /\ connecting \in [Conns -> Nodes \cup {NoNode}]
        /\ joined \subseteq Conns /\ crossed \subseteq Conns
    BY DEF Init
  <2>3. /\ inq \in [Conns -> Seq(Frame)] /\ outq \in [Conns -> Seq(Frame)]
        /\ \A c \in Conns : Len(inq[c]) <= Cap /\ Len(outq[c]) <= Cap
    BY RelayAssumption DEF Init
  <2>4. nsent \in [Conns -> Nat] /\ seen \in [Conns -> [Conns -> Nat]]
    BY RelayAssumption DEF Init
  <2> QED
    BY <2>1, <2>2, <2>3, <2>4 DEF TypeOK
<1>2. WriterReady /\ ConnectorReady /\ FramesNamed
  BY RelayAssumption DEF Init, WriterReady, ConnectorReady, FramesNamed
<1>3. HandlerShape /\ RegistryLive
  BY DEF Init, HandlerShape, RegistryLive, Serving, Running
<1>4. SoleOwnerMapped /\ StopShape
  BY <1>1 DEF Init, SoleOwnerMapped, StopShape, Serving, Running, TypeOK
<1>5. QueuedInOrder /\ WrittenInOrder /\ DeliveredInOrder /\ ForwardedInOrder
  BY RelayAssumption DEF Init, QueuedInOrder, WrittenInOrder, DeliveredInOrder,
     ForwardedInOrder, Ahead
<1> QED
  BY <1>1, <1>2, <1>3, <1>4, <1>5 DEF IInv, RInv, OInv

\* A frame written on rc.conn keeps the types.
LEMMA SendType ==
    ASSUME RInv, NEW n \in Nodes, NEW t \in Types, NEW src \in Nodes \cup {NoNode},
           NEW to \in Nodes \cup {NoNode}, SendFrame(n, t, src, to)
    PROVE  TypeOK'
<1> DEFINE f == [type |-> t, src |-> src, dst |-> to, via |-> rc[n], id |-> nsent[rc[n]] + 1]
<1>1. rc[n] \in Conns /\ nsent[rc[n]] + 1 \in Nat
  BY RelayAssumption DEF SendFrame, RInv, TypeOK
<1>2. f \in Frame
  BY <1>1, FrameIntro
<1>3. inq[rc[n]] \in Seq(Frame) /\ Len(inq[rc[n]]) < Cap /\ inq' = [inq EXCEPT ![rc[n]] = Append(@, f)]
  BY <1>1 DEF SendFrame, RInv, TypeOK
<1> HIDE DEF f
<1>4. inq' \in [Conns -> Seq(Frame)] /\ \A c \in Conns : Len(inq'[c]) <= Cap
  BY <1>1, <1>2, <1>3, Enqueue, RelayAssumption DEF RInv, TypeOK
<1> QED
  BY <1>1, <1>4, RelayAssumption
     DEF SendFrame, RInv, TypeOK, serverVars, handlerVars, PCs

\* Each variable keeps its type through every step of relay.go.
LEMMA TypeStep == RInv /\ [Next]_vars => TypeOK'
<1> SUFFICES ASSUME RInv, [Next]_vars PROVE TypeOK'
  OBVIOUS
<1> USE RelayAssumption DEF RInv, TypeOK, PCs, serverVars, handlerVars, clientVars
<1>1. CASE Start
  BY <1>1 DEF Start
<1>2. CASE Cancel
  BY <1>2 DEF Cancel
<1>3. CASE Stop
  BY <1>3 DEF Stop
<1>4. CASE StopReturns
  BY <1>4 DEF StopReturns
<1>5. CASE AcceptError
  BY <1>5 DEF AcceptError
<1>6. ASSUME NEW c \in Conns, Accept(c) PROVE TypeOK'
  BY <1>6 DEF Accept
<1>7. ASSUME NEW c \in Conns, FirstRegister(c) PROVE TypeOK'
  <2>1. Head(inq[c]) \in Frame /\ Tail(inq[c]) \in Seq(Frame) /\ Len(Tail(inq[c])) <= Cap
    BY <1>7, Dequeue DEF FirstRegister
  <2>2. Head(inq[c]).src \in Nodes
    BY <1>7, Dequeue DEF FirstRegister, FramesNamed
  <2> QED
    BY <1>7, <2>1, <2>2 DEF FirstRegister, LoopHead
<1>8. ASSUME NEW c \in Conns, FirstReject(c) PROVE TypeOK'
  BY <1>8 DEF FirstReject
<1>9. ASSUME NEW c \in Conns, ReadData(c) PROVE TypeOK'
  <2>1. Head(inq[c]) \in Frame /\ Tail(inq[c]) \in Seq(Frame) /\ Len(Tail(inq[c])) <= Cap
    BY <1>9, Dequeue DEF ReadData
  <2>2. Head(inq[c]).dst \in Nodes
    BY <1>9, Dequeue DEF ReadData, FramesNamed
  <2>3. clients[Head(inq[c]).dst] \in Conns \cup {NoConn}
    BY <2>2
  <2> QED
    BY <1>9, <2>1, <2>3 DEF ReadData
<1>10. ASSUME NEW c \in Conns, ReadUnknown(c) PROVE TypeOK'
  BY <1>10 DEF ReadUnknown, LoopHead
<1>11. ASSUME NEW c \in Conns, ReadPing(c) PROVE TypeOK'
  <2>1. Head(inq[c]) \in Frame /\ Tail(inq[c]) \in Seq(Frame) /\ Len(Tail(inq[c])) <= Cap
    BY <1>11, Dequeue DEF ReadPing
  <2>2. [Head(inq[c]) EXCEPT !.type = "pong"] \in Frame
    BY <2>1, FrameFields
  <2> QED
    BY <1>11, <2>1, <2>2 DEF ReadPing
<1>12. ASSUME NEW c \in Conns, ReadIgnored(c) PROVE TypeOK'
  BY <1>12 DEF ReadIgnored, LoopHead
<1>13. ASSUME NEW c \in Conns, ReadTimeout(c) PROVE TypeOK'
  BY <1>13 DEF ReadTimeout, LoopHead
<1>14. ASSUME NEW c \in Conns, ReadError(c) PROVE TypeOK'
  BY <1>14 DEF ReadError
<1>15. ASSUME NEW c \in Conns, WriteFrame(c) PROVE TypeOK'
  BY <1>15, SMTT(30) DEF WriteFrame, WriteReturns, LoopHead, WriterReady
<1>16. ASSUME NEW c \in Conns, WriteError(c) PROVE TypeOK'
  BY <1>16 DEF WriteError, WriteReturns, LoopHead, WriterReady
<1>17. ASSUME NEW c \in Conns, Unregister(c) PROVE TypeOK'
  BY <1>17 DEF Unregister, HandlerShape, Serving
<1>18. ASSUME NEW c \in Conns, CloseConn(c) PROVE TypeOK'
  BY <1>18 DEF CloseConn
<1>19. ASSUME NEW c \in Conns, ConnLost(c) PROVE TypeOK'
  BY <1>19 DEF ConnLost
<1>20. ASSUME NEW c \in Conns, Recv(c) PROVE TypeOK'
  <2>1. Head(outq[c]) \in Frame /\ Tail(outq[c]) \in Seq(Frame) /\ Len(Tail(outq[c])) <= Cap
    BY <1>20, Dequeue DEF Recv
  <2>2. Head(outq[c]).via \in Conns /\ Head(outq[c]).id \in Nat
    BY <2>1, FrameFields
  <2> QED
    BY <1>20, <2>1, <2>2 DEF Recv
<1>21. ASSUME NEW n \in Nodes, NEW c \in Conns, Dial(n, c) PROVE TypeOK'
  BY <1>21 DEF Dial
<1>22. ASSUME NEW n \in Nodes, NEW to \in Nodes, Send(n, to) PROVE TypeOK'
  BY <1>22, SendType DEF Send, Types
<1>23. ASSUME NEW n \in Nodes, NEW e \in Conns, ConnectRegister(n, e) PROVE TypeOK'
  <2>1. rc[n] \in Conns
    BY <1>23 DEF ConnectRegister, ConnectorReady
  <2> DEFINE f == [type |-> "register", src |-> n, dst |-> NoNode, via |-> rc[n], id |-> 0]
  <2>2. f \in Frame
    BY <2>1, FrameIntro DEF Types
  <2>3. CASE peerOpen[rc[n]] /\ Len(inq[rc[n]]) < Cap /\ UNCHANGED <<outq, peerOpen>>
             /\ joined' = joined \cup {e}
             /\ inq' = IF pc[rc[n]] = "done" THEN inq
                       ELSE [inq EXCEPT ![rc[n]] = Append(@, f)]
    <3> HIDE DEF f
    <3>1. inq' \in [Conns -> Seq(Frame)] /\ \A c \in Conns : Len(inq'[c]) <= Cap
      BY <2>1, <2>2, <2>3, Enqueue
    <3> QED
      BY <1>23, <2>1, <2>3, <3>1 DEF ConnectRegister
  <2>4. CASE /\ peerOpen' = [peerOpen EXCEPT ![e] = FALSE]
             /\ outq' = [outq EXCEPT ![e] = <<>>]
             /\ UNCHANGED <<inq, joined>>
    BY <1>23, <2>1, <2>4 DEF ConnectRegister
  <2> QED
    BY <1>23, <2>3, <2>4 DEF ConnectRegister
<1>24. ASSUME NEW n \in Nodes, SendPing(n) PROVE TypeOK'
  BY <1>24, SendType DEF SendPing, Types
<1>25. ASSUME NEW n \in Nodes, SendDisconnect(n) PROVE TypeOK'
  BY <1>25, SendType DEF SendDisconnect, Types
<1>26. ASSUME NEW n \in Nodes, Close(n) PROVE TypeOK'
  BY <1>26 DEF Close
<1>27. CASE UNCHANGED vars
  BY <1>27 DEF vars
<1>28. CASE StartLoop
  BY <1>28 DEF StartLoop
<1> QED
  BY <1>1, <1>2, <1>3, <1>4, <1>5, <1>6, <1>7, <1>8, <1>9, <1>10, <1>11, <1>12, <1>13,
     <1>14, <1>15, <1>16, <1>17, <1>18, <1>19, <1>20, <1>21, <1>22, <1>23, <1>24, <1>25,
     <1>26, <1>27, <1>28 DEF Next, Handler

\* Connect holds its connection from the dial to the register frame.
LEMMA ConnectorStep == RInv /\ [Next]_vars => ConnectorReady'
<1> SUFFICES ASSUME RInv, [Next]_vars PROVE ConnectorReady'
  OBVIOUS
<1> USE DEF RInv, TypeOK, ConnectorReady, serverVars, handlerVars, clientVars
<1>1. CASE UNCHANGED <<connecting, rc>>
  BY <1>1
<1>2. ASSUME NEW n \in Nodes, NEW c \in Conns, Dial(n, c) PROVE ConnectorReady'
  BY <1>2 DEF Dial
<1>3. ASSUME NEW n \in Nodes, NEW e \in Conns, ConnectRegister(n, e) PROVE ConnectorReady'
  BY <1>3, RelayAssumption DEF ConnectRegister
<1> QED
  BY <1>1, <1>2, <1>3
     DEF Next, Handler, vars, Start, StartLoop, Cancel, Stop, StopReturns, AcceptError, Accept,
         FirstRegister, FirstReject, ReadData, ReadUnknown, ReadPing, ReadIgnored,
         ReadTimeout, ReadError, WriteFrame, WriteReturns, WriteError, Unregister,
         CloseConn, ConnLost, Recv, Send, SendFrame, SendPing, SendDisconnect, Close

\* A handler enters sendMessage only with a frame and an open target.
LEMMA WriterStep == RInv /\ [Next]_vars => WriterReady'
<1> SUFFICES ASSUME RInv, [Next]_vars PROVE WriterReady'
  OBVIOUS
<1> USE DEF RInv, TypeOK, WriterReady, serverVars, handlerVars, clientVars
<1>1. CASE UNCHANGED <<pc, wmsg, wdst>>
  BY <1>1
<1>2. ASSUME NEW c \in Conns, Accept(c) PROVE WriterReady'
  BY <1>2 DEF Accept
<1>3. ASSUME NEW c \in Conns, FirstRegister(c) PROVE WriterReady'
  BY <1>3 DEF FirstRegister, LoopHead
<1>4. ASSUME NEW c \in Conns, FirstReject(c) PROVE WriterReady'
  BY <1>4 DEF FirstReject
<1>5. ASSUME NEW c \in Conns, ReadData(c) PROVE WriterReady'
  <2>1. Head(inq[c]) \in Frame /\ Head(inq[c]).dst \in Nodes
    BY <1>5, Dequeue DEF ReadData, FramesNamed
  <2> QED
    BY <1>5, <2>1 DEF ReadData
<1>6. ASSUME NEW c \in Conns, ReadUnknown(c) PROVE WriterReady'
  BY <1>6 DEF ReadUnknown, LoopHead
<1>7. ASSUME NEW c \in Conns, ReadPing(c) PROVE WriterReady'
  <2>1. [Head(inq[c]) EXCEPT !.type = "pong"] \in Frame
    BY <1>7, Dequeue, FrameFields DEF ReadPing
  <2> QED
    BY <1>7, <2>1 DEF ReadPing
<1>8. ASSUME NEW c \in Conns, ReadIgnored(c) PROVE WriterReady'
  BY <1>8 DEF ReadIgnored, LoopHead
<1>9. ASSUME NEW c \in Conns, ReadTimeout(c) PROVE WriterReady'
  BY <1>9 DEF ReadTimeout, LoopHead
<1>10. ASSUME NEW c \in Conns, ReadError(c) PROVE WriterReady'
  BY <1>10 DEF ReadError
<1>11. ASSUME NEW c \in Conns, WriteFrame(c) PROVE WriterReady'
  BY <1>11 DEF WriteFrame, LoopHead, WriteReturns
<1>12. ASSUME NEW c \in Conns, WriteError(c) PROVE WriterReady'
  BY <1>12 DEF WriteError, LoopHead, WriteReturns
<1>13. ASSUME NEW c \in Conns, Unregister(c) PROVE WriterReady'
  BY <1>13 DEF Unregister
<1>14. ASSUME NEW c \in Conns, CloseConn(c) PROVE WriterReady'
  BY <1>14 DEF CloseConn
<1>15. ASSUME NEW n \in Nodes, NEW c \in Conns, Dial(n, c) PROVE WriterReady'
  BY <1>15 DEF Dial
<1> QED
  BY <1>1, <1>2, <1>3, <1>4, <1>5, <1>6, <1>7, <1>8, <1>9, <1>10, <1>11, <1>12, <1>13, <1>14, <1>15
     DEF Next, Handler, vars, Start, StartLoop, Cancel, Stop, StopReturns, AcceptError,
         ConnLost, Recv, ConnectRegister, Send, SendFrame, SendPing, SendDisconnect,
         Close

\* A frame written on rc.conn leaves the names of all frames in place.
LEMMA SendNamed ==
    ASSUME RInv, NEW n \in Nodes, NEW t \in Types \ {"register"},
           NEW src \in Nodes \cup {NoNode}, NEW to \in Nodes \cup {NoNode},
           t = "data" => to \in Nodes, SendFrame(n, t, src, to)
    PROVE  FramesNamed'
<1> DEFINE f == [type |-> t, src |-> src, dst |-> to, via |-> rc[n], id |-> nsent[rc[n]] + 1]
<1>1. rc[n] \in Conns /\ nsent[rc[n]] + 1 \in Nat
  BY RelayAssumption DEF SendFrame, RInv, TypeOK
<1>2. f \in Frame /\ f.type = t /\ f.dst = to
  BY <1>1, FrameIntro
<1>3. inq[rc[n]] \in Seq(Frame) /\ inq' = [inq EXCEPT ![rc[n]] = Append(@, f)]
  BY <1>1 DEF SendFrame, RInv, TypeOK
<1> HIDE DEF f
<1> QED
  BY <1>1, <1>2, <1>3, Enqueue DEF RInv, TypeOK, FramesNamed

\* Every queued frame carries the names the server will look up.
LEMMA NamedStep == RInv /\ [Next]_vars => FramesNamed'
<1> SUFFICES ASSUME RInv, [Next]_vars PROVE FramesNamed'
  OBVIOUS
<1> USE DEF RInv, TypeOK, FramesNamed, serverVars, handlerVars, clientVars
<1>1. CASE UNCHANGED <<inq>>
  BY <1>1
<1>2. ASSUME NEW c \in Conns, FirstRegister(c) PROVE FramesNamed'
  BY <1>2, Dequeue DEF FirstRegister
<1>3. ASSUME NEW c \in Conns, ReadData(c) PROVE FramesNamed'
  BY <1>3, Dequeue, SMTT(30) DEF ReadData
<1>4. ASSUME NEW c \in Conns, ReadUnknown(c) PROVE FramesNamed'
  BY <1>4, Dequeue DEF ReadUnknown
<1>5. ASSUME NEW c \in Conns, ReadPing(c) PROVE FramesNamed'
  BY <1>5, Dequeue DEF ReadPing
<1>6. ASSUME NEW c \in Conns, ReadIgnored(c) PROVE FramesNamed'
  BY <1>6, Dequeue DEF ReadIgnored
<1>7. ASSUME NEW c \in Conns, CloseConn(c) PROVE FramesNamed'
  BY <1>7 DEF CloseConn
<1>8. ASSUME NEW c \in Conns, ConnLost(c) PROVE FramesNamed'
  BY <1>8 DEF ConnLost
<1>9. ASSUME NEW n \in Nodes, NEW e \in Conns, ConnectRegister(n, e) PROVE FramesNamed'
  <2> DEFINE f == [type |-> "register", src |-> n, dst |-> NoNode, via |-> rc[n], id |-> 0]
  <2>1. rc[n] \in Conns
    BY <1>9 DEF ConnectRegister, ConnectorReady
  <2>2. f \in Frame /\ f.type = "register" /\ f.src = n
    BY <2>1, FrameIntro DEF Types
  <2>3. UNCHANGED inq \/ inq' = [inq EXCEPT ![rc[n]] = Append(@, f)]
    BY <1>9 DEF ConnectRegister
  <2> HIDE DEF f
  <2>4. CASE inq' = [inq EXCEPT ![rc[n]] = Append(@, f)]
    <3>1. PICK d \in Conns : d = rc[n]
      BY <2>1
    <3>2. inq[d] \in Seq(Frame) /\ inq'[d] = Append(inq[d], f)
      BY <2>4, <3>1
    <3>3. \A c \in Conns \ {d} : inq'[c] = inq[c]
      BY <2>4, <3>1
    <3>4. \A i \in DOMAIN inq'[d] :
             (i \in DOMAIN inq[d] /\ inq'[d][i] = inq[d][i]) \/ inq'[d][i] = f
      BY <2>2, <3>2, Enqueue
    <3> QED
      BY <2>2, <3>3, <3>4
  <2> QED
    BY <2>3, <2>4
<1>10. ASSUME NEW n \in Nodes, NEW to \in Nodes, Send(n, to) PROVE FramesNamed'
  BY <1>10, SendNamed DEF Send, Types
<1>11. ASSUME NEW n \in Nodes, SendPing(n) PROVE FramesNamed'
  BY <1>11, SendNamed DEF SendPing, Types
<1>12. ASSUME NEW n \in Nodes, SendDisconnect(n) PROVE FramesNamed'
  BY <1>12, SendNamed DEF SendDisconnect, Types
<1> QED
  BY <1>1, <1>2, <1>3, <1>4, <1>5, <1>6, <1>7, <1>8, <1>9, <1>10, <1>11, <1>12
     DEF Next, Handler, vars, Start, StartLoop, Cancel, Stop, StopReturns, AcceptError, Accept,
         FirstReject, ReadTimeout, ReadError, WriteFrame, WriteReturns, WriteError,
         Unregister, Recv, Dial, Close

\* An accepted connection is open exactly while its handler runs.
LEMMA ShapeStep == RInv /\ [Next]_vars => HandlerShape'
<1> SUFFICES ASSUME RInv, [Next]_vars PROVE HandlerShape'
  OBVIOUS
<1> USE DEF RInv, TypeOK, HandlerShape, Serving, Running, PCs, serverVars, handlerVars, clientVars
<1>1. CASE UNCHANGED <<pc, name, srvOpen>>
  BY <1>1
<1>2. ASSUME NEW c \in Conns, Accept(c) PROVE HandlerShape'
  BY <1>2 DEF Accept
<1>3. ASSUME NEW c \in Conns, FirstRegister(c) PROVE HandlerShape'
  <2>1. Head(inq[c]).src \in Nodes
    BY <1>3, Dequeue DEF FirstRegister, FramesNamed
  <2> QED
    BY <1>3, <2>1 DEF FirstRegister, LoopHead
<1>4. ASSUME NEW c \in Conns, FirstReject(c) PROVE HandlerShape'
  BY <1>4 DEF FirstReject
<1>5. ASSUME NEW c \in Conns, ReadData(c) PROVE HandlerShape'
  BY <1>5 DEF ReadData
<1>6. ASSUME NEW c \in Conns, ReadUnknown(c) PROVE HandlerShape'
  BY <1>6 DEF ReadUnknown, LoopHead
<1>7. ASSUME NEW c \in Conns, ReadPing(c) PROVE HandlerShape'
  BY <1>7 DEF ReadPing
<1>8. ASSUME NEW c \in Conns, ReadIgnored(c) PROVE HandlerShape'
  BY <1>8 DEF ReadIgnored, LoopHead
<1>9. ASSUME NEW c \in Conns, ReadTimeout(c) PROVE HandlerShape'
  BY <1>9 DEF ReadTimeout, LoopHead
<1>10. ASSUME NEW c \in Conns, ReadError(c) PROVE HandlerShape'
  BY <1>10 DEF ReadError
<1>11. ASSUME NEW c \in Conns, WriteFrame(c) PROVE HandlerShape'
  BY <1>11 DEF WriteFrame, LoopHead, WriteReturns
<1>12. ASSUME NEW c \in Conns, WriteError(c) PROVE HandlerShape'
  BY <1>12 DEF WriteError, LoopHead, WriteReturns
<1>13. ASSUME NEW c \in Conns, Unregister(c) PROVE HandlerShape'
  BY <1>13 DEF Unregister
<1>14. ASSUME NEW c \in Conns, CloseConn(c) PROVE HandlerShape'
  BY <1>14 DEF CloseConn
<1>15. ASSUME NEW n \in Nodes, NEW c \in Conns, Dial(n, c) PROVE HandlerShape'
  BY <1>15 DEF Dial
<1> QED
  BY <1>1, <1>2, <1>3, <1>4, <1>5, <1>6, <1>7, <1>8, <1>9, <1>10, <1>11, <1>12, <1>13, <1>14, <1>15
     DEF Next, Handler, vars, Start, StartLoop, Cancel, Stop, StopReturns, AcceptError,
         ConnLost, Recv, ConnectRegister, Send, SendFrame, SendPing, SendDisconnect,
         Close

\* The map entry a handler inserts is gone before the handler is.
LEMMA RegistryStep == RInv /\ [Next]_vars => RegistryLive'
<1> SUFFICES ASSUME RInv, [Next]_vars PROVE RegistryLive'
  OBVIOUS
<1> USE RelayAssumption
    DEF RInv, TypeOK, RegistryLive, HandlerShape, Serving, Running, serverVars, handlerVars,
        clientVars
<1>1. CASE UNCHANGED <<clients, pc, name, srvOpen>>
  BY <1>1
<1>2. ASSUME NEW c \in Conns, Accept(c) PROVE RegistryLive'
  BY <1>2 DEF Accept
<1>3. ASSUME NEW c \in Conns, FirstRegister(c) PROVE RegistryLive'
  <2>1. Head(inq[c]).src \in Nodes
    BY <1>3, Dequeue DEF FirstRegister, FramesNamed
  <2> QED
    BY <1>3, <2>1, SMTT(30) DEF FirstRegister, LoopHead
<1>4. ASSUME NEW c \in Conns, FirstReject(c) PROVE RegistryLive'
  BY <1>4 DEF FirstReject
<1>5. ASSUME NEW c \in Conns, ReadData(c) PROVE RegistryLive'
  BY <1>5 DEF ReadData
<1>6. ASSUME NEW c \in Conns, ReadUnknown(c) PROVE RegistryLive'
  BY <1>6 DEF ReadUnknown, LoopHead
<1>7. ASSUME NEW c \in Conns, ReadPing(c) PROVE RegistryLive'
  BY <1>7 DEF ReadPing
<1>8. ASSUME NEW c \in Conns, ReadIgnored(c) PROVE RegistryLive'
  BY <1>8 DEF ReadIgnored, LoopHead
<1>9. ASSUME NEW c \in Conns, ReadTimeout(c) PROVE RegistryLive'
  BY <1>9 DEF ReadTimeout, LoopHead
<1>10. ASSUME NEW c \in Conns, ReadError(c) PROVE RegistryLive'
  BY <1>10 DEF ReadError
<1>11. ASSUME NEW c \in Conns, WriteFrame(c) PROVE RegistryLive'
  BY <1>11 DEF WriteFrame, LoopHead, WriteReturns
<1>12. ASSUME NEW c \in Conns, WriteError(c) PROVE RegistryLive'
  BY <1>12 DEF WriteError, LoopHead, WriteReturns
<1>13. ASSUME NEW c \in Conns, Unregister(c) PROVE RegistryLive'
  BY <1>13 DEF Unregister
<1>14. ASSUME NEW c \in Conns, CloseConn(c) PROVE RegistryLive'
  BY <1>14 DEF CloseConn
<1>15. ASSUME NEW n \in Nodes, NEW c \in Conns, Dial(n, c) PROVE RegistryLive'
  BY <1>15 DEF Dial
<1> QED
  BY <1>1, <1>2, <1>3, <1>4, <1>5, <1>6, <1>7, <1>8, <1>9, <1>10, <1>11, <1>12, <1>13, <1>14, <1>15
     DEF Next, Handler, vars, Start, StartLoop, Cancel, Stop, StopReturns, AcceptError,
         ConnLost, Recv, ConnectRegister, Send, SendFrame, SendPing, SendDisconnect,
         Close

\* Only a second connection under the same name can unmap a served client.
LEMMA OwnerStep == RInv /\ [Next]_vars => SoleOwnerMapped'
<1> SUFFICES ASSUME RInv, [Next]_vars PROVE SoleOwnerMapped'
  OBVIOUS
<1> USE RelayAssumption
    DEF RInv, TypeOK, SoleOwnerMapped, HandlerShape, Serving, Running, serverVars,
        handlerVars, clientVars
<1>1. CASE UNCHANGED <<clients, pc, name>>
  BY <1>1
<1>2. ASSUME NEW c \in Conns, Accept(c) PROVE SoleOwnerMapped'
  BY <1>2 DEF Accept
<1>3. ASSUME NEW c \in Conns, FirstRegister(c) PROVE SoleOwnerMapped'
  <2>1. Head(inq[c]).src \in Nodes
    BY <1>3, Dequeue DEF FirstRegister, FramesNamed
  <2> QED
    BY <1>3, <2>1 DEF FirstRegister, LoopHead
<1>4. ASSUME NEW c \in Conns, FirstReject(c) PROVE SoleOwnerMapped'
  BY <1>4 DEF FirstReject
<1>5. ASSUME NEW c \in Conns, ReadData(c) PROVE SoleOwnerMapped'
  BY <1>5 DEF ReadData
<1>6. ASSUME NEW c \in Conns, ReadUnknown(c) PROVE SoleOwnerMapped'
  BY <1>6 DEF ReadUnknown, LoopHead
<1>7. ASSUME NEW c \in Conns, ReadPing(c) PROVE SoleOwnerMapped'
  BY <1>7 DEF ReadPing
<1>8. ASSUME NEW c \in Conns, ReadIgnored(c) PROVE SoleOwnerMapped'
  BY <1>8 DEF ReadIgnored, LoopHead
<1>9. ASSUME NEW c \in Conns, ReadTimeout(c) PROVE SoleOwnerMapped'
  BY <1>9 DEF ReadTimeout, LoopHead
<1>10. ASSUME NEW c \in Conns, ReadError(c) PROVE SoleOwnerMapped'
  BY <1>10 DEF ReadError
<1>11. ASSUME NEW c \in Conns, WriteFrame(c) PROVE SoleOwnerMapped'
  BY <1>11 DEF WriteFrame, LoopHead, WriteReturns
<1>12. ASSUME NEW c \in Conns, WriteError(c) PROVE SoleOwnerMapped'
  BY <1>12 DEF WriteError, LoopHead, WriteReturns
<1>13. ASSUME NEW c \in Conns, Unregister(c) PROVE SoleOwnerMapped'
  BY <1>13 DEF Unregister
<1>14. ASSUME NEW c \in Conns, CloseConn(c) PROVE SoleOwnerMapped'
  BY <1>14 DEF CloseConn
<1>15. ASSUME NEW n \in Nodes, NEW c \in Conns, Dial(n, c) PROVE SoleOwnerMapped'
  BY <1>15 DEF Dial
<1> QED
  BY <1>1, <1>2, <1>3, <1>4, <1>5, <1>6, <1>7, <1>8, <1>9, <1>10, <1>11, <1>12, <1>13, <1>14, <1>15
     DEF Next, Handler, vars, Start, StartLoop, Cancel, Stop, StopReturns, AcceptError,
         ConnLost, Recv, ConnectRegister, Send, SendFrame, SendPing, SendDisconnect,
         Close

\* Stop closes the listener before it waits, so nothing is spawned after.
LEMMA StopStep == RInv /\ [Next]_vars => StopShape'
<1> SUFFICES ASSUME RInv, [Next]_vars PROVE StopShape'
  OBVIOUS
<1> USE DEF RInv, TypeOK, StopShape, Running, serverVars, handlerVars, clientVars
<1>1. CASE UNCHANGED <<stopper, listener, acceptor, pc>>
  BY <1>1
<1>2. CASE Start
  BY <1>2 DEF Start
<1>3. CASE Stop
  BY <1>3 DEF Stop
<1>4. CASE StopReturns
  BY <1>4 DEF StopReturns, WaitGroupZero
<1>5. CASE AcceptError \/ StartLoop
  BY <1>5 DEF AcceptError, StartLoop
<1>6. ASSUME NEW c \in Conns, Accept(c) PROVE StopShape'
  BY <1>6 DEF Accept
<1>7. ASSUME NEW c \in Conns, FirstRegister(c) PROVE StopShape'
  BY <1>7 DEF FirstRegister, LoopHead
<1>8. ASSUME NEW c \in Conns, FirstReject(c) PROVE StopShape'
  BY <1>8 DEF FirstReject
<1>9. ASSUME NEW c \in Conns, ReadData(c) PROVE StopShape'
  BY <1>9 DEF ReadData
<1>10. ASSUME NEW c \in Conns, ReadUnknown(c) PROVE StopShape'
  BY <1>10 DEF ReadUnknown, LoopHead
<1>11. ASSUME NEW c \in Conns, ReadPing(c) PROVE StopShape'
  BY <1>11 DEF ReadPing
<1>12. ASSUME NEW c \in Conns, ReadIgnored(c) PROVE StopShape'
  BY <1>12 DEF ReadIgnored, LoopHead
<1>13. ASSUME NEW c \in Conns, ReadTimeout(c) PROVE StopShape'
  BY <1>13 DEF ReadTimeout, LoopHead
<1>14. ASSUME NEW c \in Conns, ReadError(c) PROVE StopShape'
  BY <1>14 DEF ReadError
<1>15. ASSUME NEW c \in Conns, WriteFrame(c) PROVE StopShape'
  BY <1>15 DEF WriteFrame, LoopHead, WriteReturns
<1>16. ASSUME NEW c \in Conns, WriteError(c) PROVE StopShape'
  BY <1>16 DEF WriteError, LoopHead, WriteReturns
<1>17. ASSUME NEW c \in Conns, Unregister(c) PROVE StopShape'
  BY <1>17 DEF Unregister
<1>18. ASSUME NEW c \in Conns, CloseConn(c) PROVE StopShape'
  BY <1>18 DEF CloseConn
<1>19. ASSUME NEW n \in Nodes, NEW c \in Conns, Dial(n, c) PROVE StopShape'
  BY <1>19 DEF Dial
<1> QED
  BY <1>1, <1>2, <1>3, <1>4, <1>5, <1>6, <1>7, <1>8, <1>9, <1>10, <1>11, <1>12, <1>13,
     <1>14, <1>15, <1>16, <1>17, <1>18, <1>19
     DEF Next, Handler, vars, Cancel, ConnLost, Recv, ConnectRegister, Send,
         SendFrame, SendPing, SendDisconnect, Close

\* The registry layer is inductive.
LEMMA RInvStep == RInv /\ [Next]_vars => RInv'
  BY TypeStep, ConnectorStep, WriterStep, NamedStep, ShapeStep, RegistryStep, OwnerStep,
     StopStep DEF RInv

-----------------------------------------------------------------------------
(* The ordering layer.                                                     *)

\* What SendFrame appends, and to which queue.
LEMMA SendEffect ==
    ASSUME IInv, NEW n \in Nodes, NEW t \in Types, NEW src \in Nodes \cup {NoNode},
           NEW to \in Nodes \cup {NoNode}, SendFrame(n, t, src, to)
    PROVE  \E c \in Conns, f \in Frame :
              /\ f.type = t /\ f.via = c /\ f.id = nsent[c] + 1
              /\ nsent' = [nsent EXCEPT ![c] = @ + 1]
              /\ inq' = [inq EXCEPT ![c] = Append(@, f)]
<1> DEFINE f == [type |-> t, src |-> src, dst |-> to, via |-> rc[n], id |-> nsent[rc[n]] + 1]
<1>1. rc[n] \in Conns /\ nsent[rc[n]] + 1 \in Nat
  BY RelayAssumption DEF SendFrame, IInv, RInv, TypeOK
<1>2. f \in Frame /\ f.type = t /\ f.via = rc[n] /\ f.id = nsent[rc[n]] + 1
  BY <1>1, FrameIntro
<1>3. /\ inq' = [inq EXCEPT ![rc[n]] = Append(@, f)]
      /\ nsent' = [nsent EXCEPT ![rc[n]] = @ + 1]
  BY DEF SendFrame
<1> QED
  BY <1>1, <1>2, <1>3

\* What a step of Connect appends, if anything.
LEMMA RegisterEffect ==
    ASSUME IInv, NEW n \in Nodes, NEW e \in Conns, ConnectRegister(n, e)
    PROVE  \/ UNCHANGED inq
           \/ \E c \in Conns, f \in Frame :
                 /\ f.type = "register" /\ f.via = c /\ f.id = 0
                 /\ inq' = [inq EXCEPT ![c] = Append(@, f)]
<1> DEFINE f == [type |-> "register", src |-> n, dst |-> NoNode, via |-> rc[n], id |-> 0]
<1>1. rc[n] \in Conns
  BY DEF ConnectRegister, IInv, RInv, ConnectorReady
<1>2. f \in Frame /\ f.type = "register" /\ f.via = rc[n] /\ f.id = 0
  BY <1>1, FrameIntro DEF Types
<1>3. UNCHANGED inq \/ inq' = [inq EXCEPT ![rc[n]] = Append(@, f)]
  BY DEF ConnectRegister
<1> QED
  BY <1>1, <1>2, <1>3

\* What one step may do to the queue of frames a client has sent: nothing, take
\* one off, discard it, or append one, which is a register or the next in rank.
QueueMove(v) ==
    \/ inq'[v] = inq[v] /\ nsent'[v] = nsent[v]
    \/ inq[v] # <<>> /\ inq'[v] = Tail(inq[v]) /\ nsent'[v] = nsent[v]
    \/ inq'[v] = <<>> /\ nsent'[v] = nsent[v]
    \/ \E f \in Frame :
          /\ f.via = v /\ inq'[v] = Append(inq[v], f)
          /\ \/ f.type = "register" /\ f.id = 0 /\ nsent'[v] = nsent[v]
             \/ f.id = nsent[v] + 1 /\ nsent'[v] = nsent[v] + 1

\* Every step of relay.go moves a queue in one of those ways.
LEMMA QueueStep ==
    ASSUME IInv, [Next]_vars, NEW v \in Conns
    PROVE  QueueMove(v)
<1> USE DEF IInv, RInv, TypeOK, QueueMove, serverVars, handlerVars, clientVars
<1>1. CASE UNCHANGED <<inq, nsent>>
  BY <1>1
<1>2. ASSUME NEW c \in Conns, FirstRegister(c) PROVE QueueMove(v)
  BY <1>2 DEF FirstRegister, LoopHead
<1>3. ASSUME NEW c \in Conns, ReadData(c) PROVE QueueMove(v)
  BY <1>3 DEF ReadData
<1>4. ASSUME NEW c \in Conns, ReadUnknown(c) PROVE QueueMove(v)
  BY <1>4 DEF ReadUnknown, LoopHead
<1>5. ASSUME NEW c \in Conns, ReadPing(c) PROVE QueueMove(v)
  BY <1>5 DEF ReadPing
<1>6. ASSUME NEW c \in Conns, ReadIgnored(c) PROVE QueueMove(v)
  BY <1>6 DEF ReadIgnored, LoopHead
<1>7. ASSUME NEW c \in Conns, CloseConn(c) PROVE QueueMove(v)
  BY <1>7 DEF CloseConn
<1>8. ASSUME NEW c \in Conns, ConnLost(c) PROVE QueueMove(v)
  BY <1>8 DEF ConnLost
<1>9. ASSUME NEW n \in Nodes, NEW e \in Conns, ConnectRegister(n, e) PROVE QueueMove(v)
  <2>1. CASE UNCHANGED inq
    BY <1>9, <2>1 DEF ConnectRegister
  <2>2. ASSUME NEW c \in Conns, NEW f \in Frame, f.type = "register", f.via = c, f.id = 0,
               inq' = [inq EXCEPT ![c] = Append(@, f)]
        PROVE  QueueMove(v)
    BY <1>9, <2>2 DEF ConnectRegister
  <2> QED
    BY <1>9, <2>1, <2>2, RegisterEffect
<1>10. ASSUME NEW n \in Nodes, NEW to \in Nodes, Send(n, to) PROVE QueueMove(v)
  <2>1. SendFrame(n, "data", n, to)
    BY <1>10 DEF Send
  <2>2. PICK c \in Conns, f \in Frame :
           /\ f.type = "data" /\ f.via = c /\ f.id = nsent[c] + 1
           /\ nsent' = [nsent EXCEPT ![c] = @ + 1]
           /\ inq' = [inq EXCEPT ![c] = Append(@, f)]
    BY <2>1, SendEffect DEF Types
  <2> QED
    BY <2>2
<1>11. ASSUME NEW n \in Nodes, SendPing(n) PROVE QueueMove(v)
  <2>1. SendFrame(n, "ping", NoNode, NoNode)
    BY <1>11 DEF SendPing
  <2>2. PICK c \in Conns, f \in Frame :
           /\ f.type = "ping" /\ f.via = c /\ f.id = nsent[c] + 1
           /\ nsent' = [nsent EXCEPT ![c] = @ + 1]
           /\ inq' = [inq EXCEPT ![c] = Append(@, f)]
    BY <2>1, SendEffect DEF Types
  <2> QED
    BY <2>2
<1>12. ASSUME NEW n \in Nodes, SendDisconnect(n) PROVE QueueMove(v)
  <2>1. SendFrame(n, "disconnect", n, NoNode)
    BY <1>12 DEF SendDisconnect
  <2>2. PICK c \in Conns, f \in Frame :
           /\ f.type = "disconnect" /\ f.via = c /\ f.id = nsent[c] + 1
           /\ nsent' = [nsent EXCEPT ![c] = @ + 1]
           /\ inq' = [inq EXCEPT ![c] = Append(@, f)]
    BY <2>1, SendEffect DEF Types
  <2> QED
    BY <2>2
<1> QED
  BY <1>1, <1>2, <1>3, <1>4, <1>5, <1>6, <1>7, <1>8, <1>9, <1>10, <1>11, <1>12
     DEF Next, Handler, vars, Start, StartLoop, Cancel, Stop, StopReturns, AcceptError, Accept,
         FirstReject, ReadTimeout, ReadError, WriteFrame, WriteReturns, WriteError,
         Unregister, Recv, Dial, Close

\* What one step may do to the frame in a handler's hands: it keeps it, or it
\* takes the head of its queue, looked up in the map.
HandMove(v) ==
    \/ pc[v] = "write" /\ wmsg'[v] = wmsg[v] /\ wdst'[v] = wdst[v]
    \/ /\ inq[v] # <<>> /\ inq'[v] = Tail(inq[v]) /\ nsent'[v] = nsent[v]
       /\ Head(inq[v]).type # "register"
       /\ wmsg'[v].via = Head(inq[v]).via /\ wmsg'[v].id = Head(inq[v]).id
       /\ wdst'[v] \in Conns /\ Serving(wdst'[v])
       /\ wmsg'[v].type = "data" => wmsg'[v].dst = name[wdst'[v]]

\* A handler that is writing after a step got its frame in one of those ways.
LEMMA HandStep ==
    ASSUME IInv, [Next]_vars, NEW v \in Conns, pc'[v] = "write"
    PROVE  HandMove(v)
<1> USE DEF IInv, RInv, TypeOK, HandMove, serverVars, handlerVars, clientVars
<1>1. CASE UNCHANGED <<inq, nsent, pc, wmsg, wdst>>
  BY <1>1
<1>2. ASSUME NEW c \in Conns, Accept(c) PROVE HandMove(v)
  BY <1>2 DEF Accept
<1>3. ASSUME NEW c \in Conns, FirstRegister(c) PROVE HandMove(v)
  BY <1>3 DEF FirstRegister, LoopHead
<1>4. ASSUME NEW c \in Conns, FirstReject(c) PROVE HandMove(v)
  BY <1>4 DEF FirstReject
<1>5. ASSUME NEW c \in Conns, ReadData(c) PROVE HandMove(v)
  <2>1. inq[c] \in Seq(Frame) /\ inq[c] # <<>> /\ Head(inq[c]).dst \in Nodes
    BY <1>5, Dequeue DEF ReadData, FramesNamed
  <2>2. CASE v = c
    BY <1>5, <2>1, <2>2 DEF ReadData, RegistryLive
  <2> QED
    BY <1>5, <2>2 DEF ReadData
<1>6. ASSUME NEW c \in Conns, ReadUnknown(c) PROVE HandMove(v)
  BY <1>6 DEF ReadUnknown, LoopHead
<1>7. ASSUME NEW c \in Conns, ReadPing(c) PROVE HandMove(v)
  <2>1. Head(inq[c]) \in Frame
    BY <1>7, Dequeue DEF ReadPing
  <2>2. CASE v = c
    BY <1>7, <2>1, <2>2, FrameFields DEF ReadPing, Serving
  <2> QED
    BY <1>7, <2>2 DEF ReadPing
<1>8. ASSUME NEW c \in Conns, ReadIgnored(c) PROVE HandMove(v)
  BY <1>8 DEF ReadIgnored, LoopHead
<1>9. ASSUME NEW c \in Conns, ReadTimeout(c) PROVE HandMove(v)
  BY <1>9 DEF ReadTimeout, LoopHead
<1>10. ASSUME NEW c \in Conns, ReadError(c) PROVE HandMove(v)
  BY <1>10 DEF ReadError
<1>11. ASSUME NEW c \in Conns, WriteFrame(c) PROVE HandMove(v)
  BY <1>11 DEF WriteFrame, LoopHead, WriteReturns
<1>12. ASSUME NEW c \in Conns, WriteError(c) PROVE HandMove(v)
  BY <1>12 DEF WriteError, LoopHead, WriteReturns
<1>13. ASSUME NEW c \in Conns, Unregister(c) PROVE HandMove(v)
  BY <1>13 DEF Unregister
<1>14. ASSUME NEW c \in Conns, CloseConn(c) PROVE HandMove(v)
  BY <1>14 DEF CloseConn
<1>15. ASSUME NEW n \in Nodes, NEW c \in Conns, Dial(n, c) PROVE HandMove(v)
  BY <1>15 DEF Dial
<1> QED
  BY <1>1, <1>2, <1>3, <1>4, <1>5, <1>6, <1>7, <1>8, <1>9, <1>10, <1>11, <1>12, <1>13, <1>14, <1>15
     DEF Next, Handler, vars, Start, StartLoop, Cancel, Stop, StopReturns, AcceptError,
         ConnLost, Recv, ConnectRegister, Send, SendFrame, SendPing, SendDisconnect,
         Close

\* A connection that has left registration behind.
Named(d) == pc[d] \notin {"none", "backlog", "first"}

\* handleClient sets client.Name once.
LEMMA NameStep ==
    ASSUME IInv, [Next]_vars, NEW d \in Conns, Named(d)
    PROVE  Named(d)' /\ name'[d] = name[d]
<1> USE DEF IInv, RInv, TypeOK, Named, serverVars, handlerVars, clientVars
<1>1. CASE UNCHANGED <<pc, name>>
  BY <1>1
<1>2. ASSUME NEW c \in Conns, Accept(c) PROVE Named(d)' /\ name'[d] = name[d]
  BY <1>2 DEF Accept
<1>3. ASSUME NEW c \in Conns, FirstRegister(c) PROVE Named(d)' /\ name'[d] = name[d]
  BY <1>3 DEF FirstRegister, LoopHead
<1>4. ASSUME NEW c \in Conns, FirstReject(c) PROVE Named(d)' /\ name'[d] = name[d]
  BY <1>4 DEF FirstReject
<1>5. ASSUME NEW c \in Conns, ReadData(c) PROVE Named(d)' /\ name'[d] = name[d]
  BY <1>5 DEF ReadData
<1>6. ASSUME NEW c \in Conns, ReadUnknown(c) PROVE Named(d)' /\ name'[d] = name[d]
  BY <1>6 DEF ReadUnknown, LoopHead
<1>7. ASSUME NEW c \in Conns, ReadPing(c) PROVE Named(d)' /\ name'[d] = name[d]
  BY <1>7 DEF ReadPing
<1>8. ASSUME NEW c \in Conns, ReadIgnored(c) PROVE Named(d)' /\ name'[d] = name[d]
  BY <1>8 DEF ReadIgnored, LoopHead
<1>9. ASSUME NEW c \in Conns, ReadTimeout(c) PROVE Named(d)' /\ name'[d] = name[d]
  BY <1>9 DEF ReadTimeout, LoopHead
<1>10. ASSUME NEW c \in Conns, ReadError(c) PROVE Named(d)' /\ name'[d] = name[d]
  BY <1>10 DEF ReadError
<1>11. ASSUME NEW c \in Conns, WriteFrame(c) PROVE Named(d)' /\ name'[d] = name[d]
  BY <1>11 DEF WriteFrame, LoopHead, WriteReturns
<1>12. ASSUME NEW c \in Conns, WriteError(c) PROVE Named(d)' /\ name'[d] = name[d]
  BY <1>12 DEF WriteError, LoopHead, WriteReturns
<1>13. ASSUME NEW c \in Conns, Unregister(c) PROVE Named(d)' /\ name'[d] = name[d]
  BY <1>13 DEF Unregister
<1>14. ASSUME NEW c \in Conns, CloseConn(c) PROVE Named(d)' /\ name'[d] = name[d]
  BY <1>14 DEF CloseConn
<1>15. ASSUME NEW n \in Nodes, NEW c \in Conns, Dial(n, c) PROVE Named(d)' /\ name'[d] = name[d]
  BY <1>15 DEF Dial
<1> QED
  BY <1>1, <1>2, <1>3, <1>4, <1>5, <1>6, <1>7, <1>8, <1>9, <1>10, <1>11, <1>12, <1>13, <1>14, <1>15
     DEF Next, Handler, vars, Start, StartLoop, Cancel, Stop, StopReturns, AcceptError,
         ConnLost, Recv, ConnectRegister, Send, SendFrame, SendPing, SendDisconnect,
         Close

\* What one step may do to the frames on their way to a client: nothing, lose
\* them, deliver the first, or add the frame some handler was writing.
OutMove(d) ==
    \/ outq'[d] = outq[d] /\ seen'[d] = seen[d]
    \/ outq'[d] = <<>> /\ seen'[d] = seen[d]
    \/ /\ outq[d] # <<>> /\ outq'[d] = Tail(outq[d])
       /\ seen'[d] = [seen[d] EXCEPT ![Head(outq[d]).via] = Head(outq[d]).id]
    \/ \E v \in Conns :
          /\ pc[v] = "write" /\ wdst[v] = d /\ wmsg[v] \in Frame
          /\ outq'[d] = Append(outq[d], wmsg[v]) /\ seen'[d] = seen[d]
          /\ pc'[v] # "write" /\ inq'[v] = inq[v] /\ nsent'[v] = nsent[v]

\* Every step of relay.go moves such frames in one of those ways.
LEMMA OutStep ==
    ASSUME IInv, [Next]_vars, NEW d \in Conns
    PROVE  OutMove(d)
<1> USE DEF IInv, RInv, TypeOK, OutMove, serverVars, handlerVars, clientVars
<1>1. CASE UNCHANGED <<outq, seen>>
  BY <1>1
<1>2. ASSUME NEW c \in Conns, WriteFrame(c) PROVE OutMove(d)
  <2>1. wdst[c] \in Conns /\ wmsg[c] \in Frame
    BY <1>2 DEF WriteFrame, WriterReady
  <2> QED
    BY <1>2, <2>1 DEF WriteFrame, WriteReturns, LoopHead
<1>3. ASSUME NEW n \in Nodes, NEW e \in Conns, ConnectRegister(n, e) PROVE OutMove(d)
  BY <1>3 DEF ConnectRegister, ConnectorReady
<1>4. ASSUME NEW n \in Nodes, Close(n) PROVE OutMove(d)
  BY <1>4 DEF Close
<1>5. ASSUME NEW c \in Conns, ConnLost(c) PROVE OutMove(d)
  BY <1>5 DEF ConnLost
<1>6. ASSUME NEW c \in Conns, Recv(c) PROVE OutMove(d)
  BY <1>6 DEF Recv
<1> QED
  BY <1>1, <1>2, <1>3, <1>4, <1>5, <1>6
     DEF Next, Handler, vars, Start, StartLoop, Cancel, Stop, StopReturns, AcceptError, Accept,
         FirstRegister, FirstReject, ReadData, ReadUnknown, ReadPing, ReadIgnored,
         ReadTimeout, ReadError, WriteError, WriteReturns, Unregister, CloseConn,
         Dial, Send, SendFrame, SendPing, SendDisconnect

\* Every frame of a queue after a step was there before, or is a register, or is
\* the one just sent; and the number of frames sent never falls.
LEMMA UpstreamStep ==
    ASSUME IInv, [Next]_vars, NEW v \in Conns
    PROVE  /\ nsent[v] \in Nat /\ nsent'[v] \in Nat /\ nsent[v] <= nsent'[v]
           /\ \A i \in DOMAIN inq'[v] :
                 \/ \E k \in DOMAIN inq[v] : inq'[v][i] = inq[v][k]
                 \/ inq'[v][i].type = "register"
                 \/ inq'[v][i].id = nsent[v] + 1
<1>1. inq[v] \in Seq(Frame) /\ nsent[v] \in Nat
  BY RelayAssumption DEF IInv, RInv, TypeOK
<1>2. QueueMove(v)
  BY QueueStep
<1>3. CASE inq'[v] = inq[v] /\ nsent'[v] = nsent[v]
  BY <1>1, <1>3
<1>4. CASE inq[v] # <<>> /\ inq'[v] = Tail(inq[v]) /\ nsent'[v] = nsent[v]
  BY <1>1, <1>4, Dequeue
<1>5. CASE inq'[v] = <<>> /\ nsent'[v] = nsent[v]
  BY <1>1, <1>5
<1>6. ASSUME NEW f \in Frame, inq'[v] = Append(inq[v], f),
             \/ f.type = "register" /\ f.id = 0 /\ nsent'[v] = nsent[v]
             \/ f.id = nsent[v] + 1 /\ nsent'[v] = nsent[v] + 1
      PROVE  /\ nsent'[v] \in Nat /\ nsent[v] <= nsent'[v]
             /\ \A i \in DOMAIN inq'[v] :
                   \/ \E k \in DOMAIN inq[v] : inq'[v][i] = inq[v][k]
                   \/ inq'[v][i].type = "register"
                   \/ inq'[v][i].id = nsent[v] + 1
  <2>1. nsent'[v] \in Nat /\ nsent[v] <= nsent'[v]
    BY <1>1, <1>6
  <2>2. \A i \in DOMAIN Append(inq[v], f) :
           \/ i \in DOMAIN inq[v] /\ Append(inq[v], f)[i] = inq[v][i]
           \/ Append(inq[v], f)[i] = f
    BY <1>1, Enqueue
  <2> QED
    BY <1>6, <2>1, <2>2
<1> QED
  BY <1>1, <1>2, <1>3, <1>4, <1>5, <1>6 DEF QueueMove

\* The queue towards the server stays in sending order.
LEMMA QueuedStep == IInv /\ [Next]_vars => QueuedInOrder'
<1> SUFFICES ASSUME IInv, [Next]_vars, NEW v \in Conns
             PROVE  \A i \in DOMAIN inq'[v] :
                       /\ inq'[v][i].via = v /\ inq'[v][i].id <= nsent'[v]
                       /\ \A j \in DOMAIN inq'[v] :
                             i < j /\ inq'[v][i].type # "register"
                                   /\ inq'[v][j].type # "register"
                                 => inq'[v][i].id < inq'[v][j].id
  BY DEF QueuedInOrder
<1>1. inq[v] \in Seq(Frame) /\ nsent[v] \in Nat
  BY RelayAssumption DEF IInv, RInv, TypeOK
<1>2. \A i \in DOMAIN inq[v] :
         /\ i \in Nat /\ i < Len(inq[v]) + 1 /\ inq[v][i].id \in Nat
         /\ inq[v][i].via = v /\ inq[v][i].id <= nsent[v]
         /\ \A j \in DOMAIN inq[v] :
               i < j /\ inq[v][i].type # "register" /\ inq[v][j].type # "register"
                   => inq[v][i].id < inq[v][j].id
  <2>1. \A i \in DOMAIN inq[v] :
           i \in Nat /\ i < Len(inq[v]) + 1 /\ inq[v][i] \in Frame
    BY <1>1
  <2> QED
    BY <2>1, FrameFields DEF IInv, OInv, QueuedInOrder
<1>3. CASE inq'[v] = inq[v] /\ nsent'[v] = nsent[v]
  BY <1>2, <1>3
<1>4. CASE inq[v] # <<>> /\ inq'[v] = Tail(inq[v]) /\ nsent'[v] = nsent[v]
  <2>1. \A i \in DOMAIN Tail(inq[v]) :
           i \in Nat /\ i + 1 \in DOMAIN inq[v] /\ Tail(inq[v])[i] = inq[v][i + 1]
    BY <1>1, <1>4, Dequeue
  <2>2. \A i, j \in DOMAIN Tail(inq[v]) : i < j => i + 1 < j + 1
    BY <2>1
  <2> QED
    BY <1>2, <1>4, <2>1, <2>2
<1>5. CASE inq'[v] = <<>>
  BY <1>5
<1>6. ASSUME NEW f \in Frame, f.via = v, inq'[v] = Append(inq[v], f),
             \/ f.type = "register" /\ f.id = 0 /\ nsent'[v] = nsent[v]
             \/ f.id = nsent[v] + 1 /\ nsent'[v] = nsent[v] + 1
      PROVE  \A i \in DOMAIN inq'[v] :
                /\ inq'[v][i].via = v /\ inq'[v][i].id <= nsent'[v]
                /\ \A j \in DOMAIN inq'[v] :
                      i < j /\ inq'[v][i].type # "register"
                            /\ inq'[v][j].type # "register"
                          => inq'[v][i].id < inq'[v][j].id
  <2>1. \A i \in DOMAIN inq'[v] :
           \/ i \in DOMAIN inq[v] /\ i < Len(inq[v]) + 1 /\ inq'[v][i] = inq[v][i]
           \/ i = Len(inq[v]) + 1 /\ inq'[v][i] = f
    BY <1>1, <1>6, Enqueue
  <2>2. \A i \in DOMAIN inq[v] :
           inq[v][i].id <= nsent'[v] /\ (f.type # "register" => inq[v][i].id < f.id)
    BY <1>1, <1>2, <1>6
  <2>3. f.id <= nsent'[v] /\ Len(inq[v]) \in Nat
    BY <1>1, <1>6
  <2>4. \A i \in DOMAIN inq'[v] : inq'[v][i].via = v /\ inq'[v][i].id <= nsent'[v]
    BY <1>2, <1>6, <2>1, <2>2, <2>3
  <2>5. ASSUME NEW i \in DOMAIN inq'[v], NEW j \in DOMAIN inq'[v], i < j,
               inq'[v][i].type # "register", inq'[v][j].type # "register"
        PROVE  inq'[v][i].id < inq'[v][j].id
    <3>1. i \in DOMAIN inq[v] /\ inq'[v][i] = inq[v][i]
      BY <1>2, <2>1, <2>3, <2>5
    <3>2. CASE j \in DOMAIN inq[v] /\ inq'[v][j] = inq[v][j]
      BY <1>2, <2>5, <3>1, <3>2
    <3>3. CASE inq'[v][j] = f
      BY <2>2, <2>5, <3>1, <3>3
    <3> QED
      BY <2>1, <3>2, <3>3
  <2> QED
    BY <2>4, <2>5
<1> QED
  BY <1>3, <1>4, <1>5, <1>6, QueueStep DEF QueueMove

\* A handler's new frame is the head of its queue, the old ones come behind.
LEMMA WrittenStep == IInv /\ [Next]_vars => WrittenInOrder'
<1> SUFFICES ASSUME IInv, [Next]_vars, NEW v \in Conns, pc'[v] = "write"
             PROVE  /\ wmsg'[v].via = v /\ wmsg'[v].id <= nsent'[v]
                    /\ \A i \in DOMAIN inq'[v] :
                          inq'[v][i].type # "register" => wmsg'[v].id < inq'[v][i].id
                    /\ wmsg'[v].type = "data" => wmsg'[v].dst = name'[wdst'[v]]
                    /\ pc'[wdst'[v]] \notin {"none", "backlog", "first"}
  BY DEF WrittenInOrder
<1>1. inq[v] \in Seq(Frame) /\ nsent[v] \in Nat
  BY RelayAssumption DEF IInv, RInv, TypeOK
<1>2. CASE pc[v] = "write" /\ wmsg'[v] = wmsg[v] /\ wdst'[v] = wdst[v]
  <2>1. /\ wmsg[v].via = v /\ wmsg[v].id <= nsent[v] /\ wmsg[v].id \in Nat
        /\ \A i \in DOMAIN inq[v] :
              inq[v][i].type # "register" => wmsg[v].id < inq[v][i].id
        /\ wmsg[v].type = "data" => wmsg[v].dst = name[wdst[v]]
        /\ wdst[v] \in Conns /\ Named(wdst[v])
    BY <1>2, FrameFields DEF IInv, OInv, RInv, WrittenInOrder, WriterReady, Named
  <2>2. /\ pc'[wdst'[v]] \notin {"none", "backlog", "first"}
        /\ name'[wdst'[v]] = name[wdst[v]]
    <3>1. \A d \in Conns : Named(d) => Named(d)' /\ name'[d] = name[d]
      BY NameStep
    <3> QED
      BY <1>2, <2>1, <3>1 DEF Named
  <2>3. wmsg[v].id <= nsent'[v] /\ wmsg[v].id < nsent[v] + 1
    BY <1>1, <2>1, UpstreamStep
  <2>4. ASSUME NEW i \in DOMAIN inq'[v], inq'[v][i].type # "register"
        PROVE  wmsg[v].id < inq'[v][i].id
    BY <2>1, <2>3, <2>4, UpstreamStep
  <2> QED
    BY <1>2, <2>1, <2>2, <2>3, <2>4
<1>3. CASE /\ inq[v] # <<>> /\ inq'[v] = Tail(inq[v]) /\ nsent'[v] = nsent[v]
           /\ Head(inq[v]).type # "register"
           /\ wmsg'[v].via = Head(inq[v]).via /\ wmsg'[v].id = Head(inq[v]).id
           /\ wdst'[v] \in Conns /\ Serving(wdst'[v])
           /\ wmsg'[v].type = "data" => wmsg'[v].dst = name[wdst'[v]]
  <2>1. /\ 1 \in DOMAIN inq[v] /\ Head(inq[v]) = inq[v][1]
        /\ \A i \in DOMAIN inq'[v] :
              i + 1 \in DOMAIN inq[v] /\ 1 < i + 1 /\ inq'[v][i] = inq[v][i + 1]
    BY <1>1, <1>3, Dequeue
  <2>2. /\ inq[v][1].via = v /\ inq[v][1].id <= nsent[v]
        /\ \A j \in DOMAIN inq[v] :
              1 < j /\ inq[v][j].type # "register" => inq[v][1].id < inq[v][j].id
    BY <1>3, <2>1 DEF IInv, OInv, QueuedInOrder
  <2>3. Named(wdst'[v])
    BY <1>3 DEF Serving, Named
  <2>4. pc'[wdst'[v]] \notin {"none", "backlog", "first"} /\ name'[wdst'[v]] = name[wdst'[v]]
    <3>1. \A d \in Conns : Named(d) => Named(d)' /\ name'[d] = name[d]
      BY NameStep
    <3> QED
      BY <1>3, <2>3, <3>1 DEF Named
  <2> QED
    BY <1>3, <2>1, <2>2, <2>4
<1> QED
  BY <1>2, <1>3, HandStep DEF HandMove

\* Ahead(v, k) in the next state, for a rank k of this one.
AheadNext(v, k) ==
    /\ k <= nsent'[v]
    /\ pc'[v] = "write" => k < wmsg'[v].id
    /\ \A i \in DOMAIN inq'[v] : inq'[v][i].type # "register" => k < inq'[v][i].id

\* A rank that is ahead of all that is upstream stays so.
LEMMA AheadStep ==
    ASSUME IInv, [Next]_vars, NEW v \in Conns, NEW k \in Nat, Ahead(v, k)
    PROVE  AheadNext(v, k)
<1>1. inq[v] \in Seq(Frame) /\ nsent[v] \in Nat
  BY RelayAssumption DEF IInv, RInv, TypeOK
<1>2. k <= nsent'[v] /\ k < nsent[v] + 1
  BY <1>1, UpstreamStep DEF Ahead
<1>3. ASSUME NEW i \in DOMAIN inq'[v], inq'[v][i].type # "register"
      PROVE  k < inq'[v][i].id
  BY <1>2, <1>3, UpstreamStep DEF Ahead
<1>4. ASSUME pc'[v] = "write" PROVE k < wmsg'[v].id
  <2>1. CASE pc[v] = "write" /\ wmsg'[v] = wmsg[v]
    BY <2>1 DEF Ahead
  <2>2. CASE /\ inq[v] # <<>> /\ Head(inq[v]).type # "register"
             /\ wmsg'[v].id = Head(inq[v]).id
    BY <1>1, <2>2, Dequeue DEF Ahead
  <2> QED
    BY <1>4, <2>1, <2>2, HandStep DEF HandMove
<1> QED
  BY <1>2, <1>3, <1>4 DEF AheadNext

\* A frame that leaves its handler's hands is ahead of what is behind it.
LEMMA ReleaseAhead ==
    ASSUME IInv, NEW v \in Conns, pc[v] = "write", pc'[v] # "write",
           inq'[v] = inq[v], nsent'[v] = nsent[v]
    PROVE  wmsg[v].via = v /\ AheadNext(v, wmsg[v].id)
  BY DEF IInv, OInv, WrittenInOrder, AheadNext

\* What clients have, or have in their sockets, stays ahead of all the rest.
LEMMA DeliveredStep == IInv /\ [Next]_vars => DeliveredInOrder'
<1> SUFFICES ASSUME IInv, [Next]_vars, NEW d \in Conns
             PROVE  /\ \A v \in Conns : AheadNext(v, seen'[d][v])
                    /\ \A i \in DOMAIN outq'[d] :
                          AheadNext(outq'[d][i].via, outq'[d][i].id) /\ Named(d)'
  BY DEF DeliveredInOrder, Named, Ahead, AheadNext
<1>1. outq[d] \in Seq(Frame) /\ seen[d] \in [Conns -> Nat]
  BY DEF IInv, RInv, TypeOK
<1>2. \A v \in Conns, k \in Nat : Ahead(v, k) => AheadNext(v, k)
  BY AheadStep
<1>3. \A v \in Conns : AheadNext(v, seen[d][v])
  BY <1>1, <1>2 DEF IInv, OInv, DeliveredInOrder
<1>4. \A i \in DOMAIN outq[d] :
         /\ outq[d][i].via \in Conns /\ outq[d][i].id \in Nat
         /\ AheadNext(outq[d][i].via, outq[d][i].id) /\ Named(d)
  <2>1. \A i \in DOMAIN outq[d] : outq[d][i] \in Frame
    BY <1>1
  <2>2. \A i \in DOMAIN outq[d] : outq[d][i].via \in Conns /\ outq[d][i].id \in Nat
    BY <2>1, FrameFields
  <2> QED
    BY <1>2, <2>2 DEF IInv, OInv, DeliveredInOrder, Named
<1>5. Named(d) => Named(d)'
  BY NameStep
<1>6. CASE outq'[d] = outq[d] /\ seen'[d] = seen[d]
  BY <1>3, <1>4, <1>5, <1>6
<1>7. CASE outq'[d] = <<>> /\ seen'[d] = seen[d]
  BY <1>3, <1>7
<1>8. CASE /\ outq[d] # <<>> /\ outq'[d] = Tail(outq[d])
           /\ seen'[d] = [seen[d] EXCEPT ![Head(outq[d]).via] = Head(outq[d]).id]
  <2>1. /\ 1 \in DOMAIN outq[d] /\ Head(outq[d]) = outq[d][1]
        /\ \A i \in DOMAIN outq'[d] :
              i + 1 \in DOMAIN outq[d] /\ outq'[d][i] = outq[d][i + 1]
    BY <1>1, <1>8, Dequeue
  <2> QED
    BY <1>1, <1>3, <1>4, <1>5, <1>8, <2>1
<1>9. ASSUME NEW v \in Conns, pc[v] = "write", wdst[v] = d, wmsg[v] \in Frame,
             outq'[d] = Append(outq[d], wmsg[v]), seen'[d] = seen[d],
             pc'[v] # "write", inq'[v] = inq[v], nsent'[v] = nsent[v]
      PROVE  \A i \in DOMAIN outq'[d] :
                AheadNext(outq'[d][i].via, outq'[d][i].id) /\ Named(d)'
  <2>1. \A i \in DOMAIN outq'[d] :
           \/ i \in DOMAIN outq[d] /\ outq'[d][i] = outq[d][i]
           \/ outq'[d][i] = wmsg[v]
    BY <1>1, <1>9, Enqueue
  <2>2. AheadNext(wmsg[v].via, wmsg[v].id)
    BY <1>9, ReleaseAhead
  <2>3. Named(d)
    BY <1>9 DEF IInv, OInv, WrittenInOrder, Named
  <2> QED
    BY <1>4, <1>5, <2>1, <2>2, <2>3
<1> QED
  BY <1>3, <1>6, <1>7, <1>8, <1>9, OutStep DEF OutMove

\* Frames reach a client in the order of sending, under the name it registered.
LEMMA ForwardedStep == IInv /\ [Next]_vars => ForwardedInOrder'
<1> SUFFICES ASSUME IInv, [Next]_vars, NEW d \in Conns
             PROVE  /\ \A i \in DOMAIN outq'[d] :
                          /\ outq'[d][i].type = "data" => outq'[d][i].dst = name'[d]
                          /\ outq'[d][i].id > seen'[d][outq'[d][i].via]
                    /\ \A i, j \in DOMAIN outq'[d] :
                          i < j /\ outq'[d][i].via = outq'[d][j].via
                              => outq'[d][i].id < outq'[d][j].id
  BY DEF ForwardedInOrder
<1>1. outq[d] \in Seq(Frame) /\ seen[d] \in [Conns -> Nat]
  BY DEF IInv, RInv, TypeOK
<1>2. \A i \in DOMAIN outq[d] :
         /\ i \in Nat /\ i < Len(outq[d]) + 1
         /\ outq[d][i].via \in Conns /\ outq[d][i].id \in Nat
  <2>1. \A i \in DOMAIN outq[d] :
           i \in Nat /\ i < Len(outq[d]) + 1 /\ outq[d][i] \in Frame
    BY <1>1
  <2> QED
    BY <2>1, FrameFields
<1>3. /\ \A i \in DOMAIN outq[d] :
            /\ outq[d][i].type = "data" => outq[d][i].dst = name[d]
            /\ outq[d][i].id > seen[d][outq[d][i].via]
            /\ Named(d)
      /\ \A i, j \in DOMAIN outq[d] :
            i < j /\ outq[d][i].via = outq[d][j].via => outq[d][i].id < outq[d][j].id
  BY DEF IInv, OInv, ForwardedInOrder, DeliveredInOrder, Named
<1>4. Named(d) => name'[d] = name[d]
  BY NameStep
<1>5. CASE outq'[d] = outq[d] /\ seen'[d] = seen[d]
  BY <1>3, <1>4, <1>5
<1>6. CASE outq'[d] = <<>>
  BY <1>6
<1>7. CASE /\ outq[d] # <<>> /\ outq'[d] = Tail(outq[d])
           /\ seen'[d] = [seen[d] EXCEPT ![Head(outq[d]).via] = Head(outq[d]).id]
  <2>1. /\ 1 \in DOMAIN outq[d] /\ Head(outq[d]) = outq[d][1]
        /\ \A i \in DOMAIN outq'[d] :
              /\ i \in Nat /\ i + 1 \in DOMAIN outq[d] /\ 1 < i + 1
              /\ outq'[d][i] = outq[d][i + 1]
    BY <1>1, <1>7, Dequeue
  <2>2. \A i, j \in DOMAIN outq'[d] : i < j => i + 1 < j + 1
    BY <2>1
  <2>3. \A i \in DOMAIN outq'[d] :
           /\ outq'[d][i].type = "data" => outq'[d][i].dst = name'[d]
           /\ outq'[d][i].id > seen'[d][outq'[d][i].via]
    BY <1>1, <1>2, <1>3, <1>4, <1>7, <2>1
  <2> QED
    BY <1>3, <2>1, <2>2, <2>3
<1>8. ASSUME NEW v \in Conns, pc[v] = "write", wdst[v] = d, wmsg[v] \in Frame,
             outq'[d] = Append(outq[d], wmsg[v]), seen'[d] = seen[d]
      PROVE  /\ \A i \in DOMAIN outq'[d] :
                   /\ outq'[d][i].type = "data" => outq'[d][i].dst = name'[d]
                   /\ outq'[d][i].id > seen'[d][outq'[d][i].via]
             /\ \A i, j \in DOMAIN outq'[d] :
                   i < j /\ outq'[d][i].via = outq'[d][j].via
                       => outq'[d][i].id < outq'[d][j].id
  <2>1. \A i \in DOMAIN outq'[d] :
           \/ i \in DOMAIN outq[d] /\ outq'[d][i] = outq[d][i]
           \/ i = Len(outq[d]) + 1 /\ outq'[d][i] = wmsg[v]
    BY <1>1, <1>8, Enqueue
  <2>2. /\ Named(d) /\ wmsg[v].via = v
        /\ wmsg[v].type = "data" => wmsg[v].dst = name[d]
    BY <1>8 DEF IInv, OInv, WrittenInOrder, Named
  <2>3. /\ seen[d][v] < wmsg[v].id
        /\ \A i \in DOMAIN outq[d] : outq[d][i].via = v => outq[d][i].id < wmsg[v].id
    BY <1>8 DEF IInv, OInv, DeliveredInOrder, Ahead
  <2>4. wmsg[v].id \in Nat /\ Len(outq[d]) \in Nat
    <3>1. wmsg[v].id \in Nat
      BY <1>8, FrameFields
    <3> QED
      BY <1>1, <3>1
  <2>5. \A i \in DOMAIN outq'[d] :
           /\ outq'[d][i].type = "data" => outq'[d][i].dst = name'[d]
           /\ outq'[d][i].id > seen'[d][outq'[d][i].via]
    <3>1. \A i \in DOMAIN outq[d] :
             /\ outq[d][i].type = "data" => outq[d][i].dst = name'[d]
             /\ outq[d][i].id > seen'[d][outq[d][i].via]
      BY <1>3, <1>4, <1>8
    <3>2. /\ wmsg[v].type = "data" => wmsg[v].dst = name'[d]
          /\ wmsg[v].id > seen'[d][wmsg[v].via]
      BY <1>1, <1>4, <1>8, <2>2, <2>3, <2>4
    <3> QED
      BY <2>1, <3>1, <3>2
  <2>6. ASSUME NEW i \in DOMAIN outq'[d], NEW j \in DOMAIN outq'[d], i < j,
               outq'[d][i].via = outq'[d][j].via
        PROVE  outq'[d][i].id < outq'[d][j].id
    <3>1. i \in DOMAIN outq[d] /\ outq'[d][i] = outq[d][i]
      BY <1>2, <2>1, <2>4, <2>6
    <3>2. CASE j \in DOMAIN outq[d] /\ outq'[d][j] = outq[d][j]
      BY <1>3, <2>6, <3>1, <3>2
    <3>3. CASE outq'[d][j] = wmsg[v]
      BY <2>2, <2>3, <2>6, <3>1, <3>3
    <3> QED
      BY <2>1, <3>2, <3>3
  <2> QED
    BY <2>5, <2>6
<1> QED
  BY <1>5, <1>6, <1>7, <1>8, OutStep DEF OutMove

-----------------------------------------------------------------------------
(* The registration layer.                                                 *)

\* A connection that nobody has dialled yet.
FreshConns ==
    \A c \in Conns : pc[c] = "none" =>
        /\ inq[c] = <<>> /\ ~peerOpen[c]
        /\ connecting[c] = NoNode /\ c \notin joined
        /\ \A n \in Nodes : rc[n] # c

\* The server has registered the connection, or will with the next frame it reads.
OwnRegister(c) == name[c] # NoNode \/ RegisterWaiting(c)

\* The server has read nothing on the connection, and nothing was written.
Untouched(c) == pc[c] \in {"backlog", "first"} /\ inq[c] = <<>>

\* A Connect that nothing overtakes still finds its own connection in rc.conn, with
\* nothing in front of the register frame, and leaves it registered.
Undisturbed ==
    \A c \in Conns : peerOpen[c] /\ ~TLSAvailable /\ c \notin crossed =>
        /\ connecting[c] # NoNode =>
              rc[connecting[c]] = c /\ (OwnRegister(c) \/ Untouched(c))
        /\ c \in joined => OwnRegister(c)

CInv == IInv /\ FreshConns /\ Undisturbed

\* Only Connect makes use of a connection for the first time.
LEMMA FreshStep == CInv /\ [Next]_vars => FreshConns'
<1> SUFFICES ASSUME CInv, [Next]_vars PROVE FreshConns'
  OBVIOUS
<1> USE DEF CInv, IInv, RInv, TypeOK, FreshConns, serverVars, handlerVars, clientVars
<1>1. CASE UNCHANGED <<pc, inq, peerOpen, connecting, joined, rc>>
  BY <1>1
<1>2. ASSUME NEW c \in Conns, Accept(c) \/ FirstReject(c) \/ ReadTimeout(c) \/ ReadError(c)
                              \/ Unregister(c) \/ WriteFrame(c) \/ WriteError(c)
      PROVE  FreshConns'
  BY <1>2 DEF Accept, FirstReject, ReadTimeout, ReadError, Unregister, WriteFrame, WriteError,
              WriteReturns, LoopHead
<1>3. ASSUME NEW c \in Conns, FirstRegister(c) \/ ReadData(c) \/ ReadUnknown(c) \/ ReadPing(c)
                              \/ ReadIgnored(c) \/ CloseConn(c)
      PROVE  FreshConns'
  BY <1>3 DEF FirstRegister, ReadData, ReadUnknown, ReadPing, ReadIgnored, CloseConn, LoopHead
<1>4. ASSUME NEW c \in Conns, ConnLost(c) PROVE FreshConns'
  BY <1>4 DEF ConnLost
<1>5. ASSUME NEW n \in Nodes, NEW c \in Conns, Dial(n, c) PROVE FreshConns'
  BY <1>5 DEF Dial
<1>6. ASSUME NEW n \in Nodes, NEW e \in Conns, ConnectRegister(n, e) PROVE FreshConns'
  <2>1. rc[n] \in Conns /\ pc[rc[n]] # "none" /\ pc[e] # "none" /\ UNCHANGED <<pc, rc>>
    BY <1>6, RelayAssumption DEF ConnectRegister, ConnectorReady
  <2>2. \A c \in Conns \ {rc[n], e} :
           inq'[c] = inq[c] /\ peerOpen'[c] = peerOpen[c] /\ connecting'[c] = connecting[c]
           /\ (c \in joined' <=> c \in joined)
    BY <1>6, <2>1 DEF ConnectRegister
  <2> QED
    BY <2>1, <2>2
<1>7. ASSUME NEW n \in Nodes, NEW t, NEW src, NEW to, SendFrame(n, t, src, to) PROVE FreshConns'
  <2>1. rc[n] \in Conns /\ pc[rc[n]] # "none"
    BY <1>7 DEF SendFrame
  <2> QED
    BY <1>7, <2>1 DEF SendFrame
<1>8. ASSUME NEW n \in Nodes, Close(n) PROVE FreshConns'
  BY <1>8 DEF Close
<1> QED
  BY <1>1, <1>2, <1>3, <1>4, <1>5, <1>6, <1>7, <1>8
     DEF Next, Handler, vars, Start, StartLoop, Cancel, Stop, StopReturns, AcceptError, Recv,
         Send, SendPing, SendDisconnect

\* A client's end opens with Connect's dial, and overtaken stays overtaken.
LEMMA OpenStep ==
    ASSUME CInv, [Next]_vars, NEW c \in Conns, peerOpen'[c], c \notin crossed',
           \A n \in Nodes : ~Dial(n, c)
    PROVE  peerOpen[c] /\ c \notin crossed /\ pc[c] # "none"
<1> USE DEF CInv, IInv, RInv, TypeOK, serverVars, handlerVars, clientVars
<1> SUFFICES peerOpen[c] /\ c \notin crossed
  BY DEF FreshConns
<1>1. CASE UNCHANGED <<peerOpen, crossed>>
  BY <1>1
<1>2. ASSUME NEW d \in Conns, ConnLost(d) PROVE peerOpen[c] /\ c \notin crossed
  BY <1>2 DEF ConnLost
<1>3. ASSUME NEW n \in Nodes, NEW d \in Conns, Dial(n, d) PROVE peerOpen[c] /\ c \notin crossed
  <2>1. d # c
    BY <1>3
  <2> QED
    BY <1>3, <2>1 DEF Dial
<1>4. ASSUME NEW n \in Nodes, NEW e \in Conns, ConnectRegister(n, e)
      PROVE  peerOpen[c] /\ c \notin crossed
  BY <1>4 DEF ConnectRegister
<1>5. ASSUME NEW n \in Nodes, NEW t, NEW src, NEW to, SendFrame(n, t, src, to)
      PROVE  peerOpen[c] /\ c \notin crossed
  BY <1>5 DEF SendFrame
<1>6. ASSUME NEW n \in Nodes, Close(n) PROVE peerOpen[c] /\ c \notin crossed
  BY <1>6 DEF Close
<1> QED
  BY <1>1, <1>2, <1>3, <1>4, <1>5, <1>6
     DEF Next, Handler, vars, Start, StartLoop, Cancel, Stop, StopReturns, AcceptError, Accept,
         FirstRegister, FirstReject, ReadData, ReadUnknown, ReadPing, ReadIgnored,
         ReadTimeout, ReadError, WriteFrame, WriteReturns, WriteError, Unregister,
         CloseConn, Recv, Send, SendPing, SendDisconnect

\* What one step may do to a connection whose register frame is next, or that
\* nothing was written on: it only comes nearer to registration, unless a Send
\* uses it first.
Advance(c) ==
    /\ RegisterWaiting(c) => OwnRegister(c)'
    /\ Untouched(c) => \/ Untouched(c)' \/ OwnRegister(c)'
                        \/ connecting[c] = NoNode \/ c \in crossed'

\* Every step of relay.go that leaves the client's end open is such a step.
LEMMA AdvanceStep ==
    ASSUME CInv, [Next]_vars, NEW c \in Conns, peerOpen'[c], peerOpen[c], ~TLSAvailable
    PROVE  Advance(c)
<1> USE DEF CInv, IInv, RInv, TypeOK, Advance, OwnRegister, RegisterWaiting, Untouched,
            serverVars, handlerVars, clientVars
<1>1. CASE UNCHANGED <<pc, inq, name>>
  BY <1>1
<1>2. ASSUME NEW d \in Conns, Accept(d) PROVE Advance(c)
  BY <1>2 DEF Accept
<1>3. ASSUME NEW d \in Conns, FirstRegister(d) PROVE Advance(c)
  <2>1. Head(inq[d]).src \in Nodes /\ Head(inq[d]).src # NoNode
    BY <1>3, Dequeue, RelayAssumption DEF FirstRegister, FramesNamed
  <2> QED
    BY <1>3, <2>1 DEF FirstRegister, LoopHead
<1>4. ASSUME NEW d \in Conns, FirstReject(d) PROVE Advance(c)
  BY <1>4 DEF FirstReject
<1>5. ASSUME NEW d \in Conns, ReadData(d) \/ ReadUnknown(d) \/ ReadPing(d) \/ ReadIgnored(d)
      PROVE  Advance(c)
  BY <1>5 DEF ReadData, ReadUnknown, ReadPing, ReadIgnored, LoopHead
<1>6. ASSUME NEW d \in Conns, ReadTimeout(d) \/ ReadError(d) \/ WriteFrame(d) \/ WriteError(d)
      PROVE  Advance(c)
  BY <1>6 DEF ReadTimeout, ReadError, WriteFrame, WriteError, WriteReturns, LoopHead
<1>7. ASSUME NEW d \in Conns, Unregister(d) \/ CloseConn(d) PROVE Advance(c)
  BY <1>7 DEF Unregister, CloseConn
<1>8. ASSUME NEW d \in Conns, ConnLost(d) PROVE Advance(c)
  BY <1>8 DEF ConnLost
<1>9. ASSUME NEW n \in Nodes, NEW d \in Conns, Dial(n, d) PROVE Advance(c)
  BY <1>9 DEF Dial
<1>10. ASSUME NEW n \in Nodes, NEW e \in Conns, ConnectRegister(n, e) PROVE Advance(c)
  <2> DEFINE f == [type |-> "register", src |-> n, dst |-> NoNode, via |-> rc[n], id |-> 0]
  <2>1. rc[n] \in Conns /\ UNCHANGED <<pc, name>>
    BY <1>10 DEF ConnectRegister, ConnectorReady
  <2>2. f \in Frame /\ f.type = "register"
    BY <2>1, FrameIntro DEF Types
  <2>3. UNCHANGED inq \/ inq' = [inq EXCEPT ![rc[n]] = Append(@, f)]
    BY <1>10 DEF ConnectRegister
  <2> HIDE DEF f
  <2>4. CASE inq' = [inq EXCEPT ![rc[n]] = Append(@, f)] /\ rc[n] = c
    <3>1. inq[c] \in Seq(Frame) /\ inq'[c] = Append(inq[c], f)
      BY <2>1, <2>4
    <3> HIDE DEF CInv, Advance
    <3>4. inq'[c] # <<>>
      <4>1. Len(inq[c]) \in Nat /\ Len(Append(inq[c], f)) = Len(inq[c]) + 1
        BY <2>2, <3>1, Enqueue
      <4> QED
        BY <3>1, <4>1
    <3>2. inq[c] = <<>> => Head(inq'[c]) = f
      BY <2>2, <3>1
    <3>3. inq[c] # <<>> => Head(inq'[c]) = Head(inq[c])
      BY <2>2, <3>1
    <3> QED
      BY <2>1, <2>2, <3>1, <3>2, <3>3, <3>4 DEF Advance
  <2> QED
    BY <2>1, <2>3, <2>4
<1>11. ASSUME NEW n \in Nodes, NEW t \in Types, NEW src \in Nodes \cup {NoNode},
              NEW to \in Nodes \cup {NoNode}, SendFrame(n, t, src, to)
       PROVE  Advance(c)
  <2> DEFINE f == [type |-> t, src |-> src, dst |-> to, via |-> rc[n],
                   id |-> nsent[rc[n]] + 1]
  <2>1. rc[n] \in Conns /\ nsent[rc[n]] + 1 \in Nat /\ UNCHANGED <<pc, name>>
    BY <1>11, RelayAssumption DEF SendFrame
  <2>2. f \in Frame
    BY <2>1, FrameIntro
  <2>3. inq' = [inq EXCEPT ![rc[n]] = Append(@, f)]
    BY <1>11 DEF SendFrame
  <2> HIDE DEF f
  <2>4. CASE rc[n] = c
    <3>1. inq[c] \in Seq(Frame) /\ inq'[c] = Append(inq[c], f)
      BY <2>1, <2>3, <2>4
    <3> HIDE DEF CInv, Advance
    <3>4. inq'[c] # <<>>
      <4>1. Len(inq[c]) \in Nat /\ Len(Append(inq[c], f)) = Len(inq[c]) + 1
        BY <2>2, <3>1, Enqueue
      <4> QED
        BY <3>1, <4>1
    <3>2. inq[c] # <<>> => Head(inq'[c]) = Head(inq[c])
      BY <2>2, <3>1
    <3>3. connecting[c] = NoNode \/ c \in crossed'
      BY <1>11, <2>4 DEF SendFrame
    <3> QED
      BY <2>1, <3>1, <3>2, <3>3, <3>4 DEF Advance
  <2> QED
    BY <2>1, <2>3, <2>4
<1>12. ASSUME NEW n \in Nodes, (\E to \in Nodes : Send(n, to)) \/ SendPing(n) \/ SendDisconnect(n)
       PROVE  Advance(c)
  BY <1>11, <1>12 DEF Send, SendPing, SendDisconnect, Types
<1> QED
  BY <1>1, <1>2, <1>3, <1>4, <1>5, <1>6, <1>7, <1>8, <1>9, <1>10, <1>12
     DEF Next, Handler, vars, Start, StartLoop, Cancel, Stop, StopReturns, AcceptError, Recv,
         Close

\* A Connect keeps its place in rc.conn until it has registered, unless another
\* Connect of the same node takes it.
LEMMA PlaceStep ==
    ASSUME CInv, [Next]_vars, NEW c \in Conns, c \notin crossed',
           \A n \in Nodes : ~Dial(n, c)
    PROVE  /\ connecting'[c] # NoNode =>
                  /\ connecting'[c] = connecting[c]
                  /\ rc[connecting[c]] = c => rc'[connecting[c]] = c
           /\ c \in joined' => c \in joined \/ \E n \in Nodes : ConnectRegister(n, c)
<1> DEFINE Kept == /\ connecting'[c] # NoNode =>
                         /\ connecting'[c] = connecting[c]
                         /\ rc[connecting[c]] = c => rc'[connecting[c]] = c
                   /\ c \in joined' => c \in joined \/ \E n \in Nodes : ConnectRegister(n, c)
<1> USE DEF CInv, IInv, RInv, TypeOK, serverVars, handlerVars, clientVars
<1>1. CASE UNCHANGED <<rc, connecting, joined>>
  BY <1>1
<1>2. ASSUME NEW n \in Nodes, NEW d \in Conns, Dial(n, d) PROVE Kept
  <2>1. d # c
    BY <1>2
  <2>2. connecting'[c] = connecting[c] /\ UNCHANGED joined /\ rc' = [rc EXCEPT ![n] = d]
    BY <1>2, <2>1 DEF Dial
  <2>3. connecting[c] # n
    BY <1>2 DEF Dial
  <2> QED
    BY <2>2, <2>3
<1>3. ASSUME NEW n \in Nodes, NEW e \in Conns, ConnectRegister(n, e) PROVE Kept
  <2>1. UNCHANGED rc /\ connecting' = [connecting EXCEPT ![e] = NoNode]
    BY <1>3 DEF ConnectRegister
  <2>2. c \in joined' => c \in joined \/ c = e
    BY <1>3 DEF ConnectRegister
  <2> QED
    BY <1>3, <2>1, <2>2
<1> QED
  BY <1>1, <1>2, <1>3
     DEF Next, Handler, vars, Start, StartLoop, Cancel, Stop, StopReturns, AcceptError, Accept,
         FirstRegister, FirstReject, ReadData, ReadUnknown, ReadPing, ReadIgnored,
         ReadTimeout, ReadError, WriteFrame, WriteReturns, WriteError, Unregister,
         CloseConn, ConnLost, Recv, Send, SendFrame, SendPing, SendDisconnect, Close

\* A Connect that nothing overtakes leaves its connection registered.
LEMMA UndisturbedStep == CInv /\ [Next]_vars => Undisturbed'
<1> SUFFICES ASSUME CInv, [Next]_vars, NEW c \in Conns, peerOpen'[c], ~TLSAvailable,
                    c \notin crossed'
             PROVE  /\ connecting'[c] # NoNode =>
                          rc'[connecting'[c]] = c /\ (OwnRegister(c) \/ Untouched(c))'
                    /\ c \in joined' => OwnRegister(c)'
  BY DEF Undisturbed
<1>1. ASSUME NEW n \in Nodes, Dial(n, c)
      PROVE  /\ connecting'[c] # NoNode =>
                   rc'[connecting'[c]] = c /\ (OwnRegister(c) \/ Untouched(c))'
             /\ c \in joined' => OwnRegister(c)'
  BY <1>1 DEF Dial, CInv, IInv, RInv, TypeOK, FreshConns, Untouched
<1>2. CASE \A n \in Nodes : ~Dial(n, c)
  <2>1. peerOpen[c] /\ c \notin crossed /\ pc[c] # "none"
    BY <1>2, OpenStep
  <2>2. /\ connecting[c] # NoNode =>
              rc[connecting[c]] = c /\ (OwnRegister(c) \/ Untouched(c))
        /\ c \in joined => OwnRegister(c)
    BY <2>1 DEF CInv, Undisturbed
  <2>3. OwnRegister(c) => OwnRegister(c)'
    <3>1. CASE name[c] # NoNode
      <4>1. Named(c)
        BY <3>1 DEF CInv, IInv, RInv, HandlerShape, Named
      <4>2. name'[c] = name[c]
        BY <4>1, NameStep DEF CInv
      <4> QED
        BY <3>1, <4>2 DEF OwnRegister
    <3>2. CASE RegisterWaiting(c)
      BY <2>1, <3>2, AdvanceStep DEF Advance
    <3> QED
      BY <3>1, <3>2 DEF OwnRegister
  <2>4. connecting[c] # NoNode => (OwnRegister(c) \/ Untouched(c))'
    BY <2>1, <2>2, <2>3, AdvanceStep DEF Advance
  <2>5. /\ connecting'[c] # NoNode =>
              /\ connecting'[c] = connecting[c]
              /\ rc[connecting[c]] = c => rc'[connecting[c]] = c
        /\ c \in joined' => c \in joined \/ \E n \in Nodes : ConnectRegister(n, c)
    BY <1>2, PlaceStep
  <2>6. ASSUME NEW n \in Nodes, ConnectRegister(n, c), c \in joined' PROVE OwnRegister(c)'
    <3>1. connecting[c] = n /\ connecting[c] # NoNode /\ rc[n] = c
      BY <2>2, <2>6, RelayAssumption DEF ConnectRegister
    <3>2. CASE OwnRegister(c)
      BY <2>3, <3>2
    <3>3. CASE Untouched(c) /\ c \notin joined
      <4> DEFINE f == [type |-> "register", src |-> n, dst |-> NoNode, via |-> c, id |-> 0]
      <4>1. inq' = [inq EXCEPT ![c] = Append(@, f)] /\ UNCHANGED pc
        BY <2>6, <3>1, <3>3 DEF ConnectRegister, Untouched, handlerVars
      <4>2. f \in Frame /\ f.type = "register"
        BY FrameIntro DEF Types
      <4> HIDE DEF f
      <4>3. inq'[c] = Append(<<>>, f)
        BY <3>3, <4>1 DEF Untouched, CInv, IInv, RInv, TypeOK
      <4>4. inq'[c] # <<>> /\ Head(inq'[c]) = f
        BY <4>2, <4>3
      <4> QED
        BY <3>3, <4>1, <4>2, <4>4 DEF OwnRegister, RegisterWaiting, Untouched
    <3> QED
      BY <2>2, <3>1, <3>2, <3>3
  <2> QED
    BY <2>2, <2>3, <2>4, <2>5, <2>6
<1> QED
  BY <1>1, <1>2

-----------------------------------------------------------------------------
(* The theorems.                                                           *)

\* The inductive invariant holds in every reachable state of relay.go's model.
THEOREM Invariance == Spec => []IInv
<1>1. IInv /\ [Next]_vars => IInv'
  BY RInvStep, QueuedStep, WrittenStep, DeliveredStep, ForwardedStep DEF IInv, OInv
<1> QED
  BY InitIInv, <1>1, PTL DEF Spec

\* Every variable of the relay keeps its type, socket buffers their bound.
THEOREM TypeCorrect == Spec => []TypeOK
<1>1. IInv => TypeOK
  BY DEF IInv, RInv
<1> QED
  BY Invariance, <1>1, PTL

\* forwardToPeer never finds a closed connection, or one of another node.
THEOREM RegistryCorrect == Spec => []RegistryLive
<1>1. IInv => RegistryLive
  BY DEF IInv, RInv
<1> QED
  BY Invariance, <1>1, PTL

\* A served client is mapped unless another connection took its name.
THEOREM OwnerCorrect == Spec => []SoleOwnerReachable
<1>1. IInv => SoleOwnerReachable
  BY DEF IInv, RInv, SoleOwnerMapped, SoleOwnerReachable, Serving
<1> QED
  BY Invariance, <1>1, PTL

\* When Stop returns, no goroutine, connection or map entry is left.
THEOREM StopCorrect == Spec => []StopQuiesced
<1>1. IInv => StopQuiesced
  BY RelayAssumption DEF IInv, RInv, TypeOK, StopShape, StopQuiesced, HandlerShape,
     RegistryLive, Serving, Running
<1> QED
  BY Invariance, <1>1, PTL

\* Frames are forwarded in order, at most once, to the name they are addressed to.
THEOREM OrderCorrect == Spec => []ForwardedInOrder
<1>1. IInv => ForwardedInOrder
  BY DEF IInv, OInv
<1> QED
  BY Invariance, <1>1, PTL

\* A connection whose Connect returned nil is registered by relay.go's server, or
\* its register frame is the next one read, as long as the connection is up; the
\* exceptions are TLS and a Connect overtaken by a Send or by another Connect.
THEOREM ConnectCorrect == Spec => []ConnectRegisters
<1>1. Init => CInv
  <2>1. Init => FreshConns /\ Undisturbed
    BY RelayAssumption DEF Init, FreshConns, Undisturbed
  <2> QED
    BY <2>1, InitIInv DEF CInv
<1>2. IInv' /\ CInv /\ [Next]_vars => CInv'
  BY FreshStep, UndisturbedStep DEF CInv
<1>3. CInv => ConnectRegisters
  BY DEF CInv, IInv, RInv, TypeOK, Undisturbed, OwnRegister, ConnectRegisters
<1> QED
  BY Invariance, <1>1, <1>2, <1>3, PTL DEF Spec

-----------------------------------------------------------------------------
(* Streams and the letters in them.                                        *)

LetterType == [via : Conns, id : Nat, to : Nodes \cup {NoNode}]

LEMMA LetterTyped ==
  ASSUME NEW f \in Frame
  PROVE  Letter(f) \in LetterType /\ Letter(f).id = f.id
BY FrameFields DEF Letter, LetterType

\* The letters of a stream, one frame after the other.
LEMMA LettersTyped ==
  ASSUME NEW q \in Seq(Frame)
  PROVE  /\ Letters(q) \in Seq(LetterType) /\ Len(Letters(q)) = Len(q)
         /\ \A i \in 1..Len(q) : Letters(q)[i] = Letter(q[i])
<1>1. /\ Len(q) \in Nat /\ DOMAIN q = 1..Len(q)
      /\ \A i \in 1..Len(q) : q[i] \in Frame
  OBVIOUS
<1>2. \A i \in 1..Len(q) : Letter(q[i]) \in LetterType
  BY <1>1, LetterTyped
<1>3. Letters(q) \in [1..Len(q) -> LetterType]
  BY <1>1, <1>2 DEF Letters
<1>4. Letters(q) \in Seq(LetterType)
  BY <1>1, <1>3, SeqDef
<1>5. DOMAIN Letters(q) = 1..Len(q)
  BY <1>3
<1>6. Len(Letters(q)) = Len(q)
  BY <1>1, <1>4, <1>5, LenProperties
<1>7. \A i \in 1..Len(q) : Letters(q)[i] = Letter(q[i])
  BY <1>1 DEF Letters
<1>. QED  BY <1>4, <1>6, <1>7

LEMMA LettersEmpty ==
  ASSUME NEW q \in Seq(Frame)
  PROVE  Letters(q) = <<>> <=> q = <<>>
<1>1. Letters(q) \in Seq(LetterType) /\ Len(Letters(q)) = Len(q)
  BY LettersTyped
<1>2. q = <<>> <=> Len(q) = 0
  BY EmptySeq
<1>3. Letters(q) = <<>> <=> Len(Letters(q)) = 0
  BY <1>1, EmptySeq
<1>. QED  BY <1>1, <1>2, <1>3

LEMMA LettersAppend ==
  ASSUME NEW q \in Seq(Frame), NEW f \in Frame
  PROVE  Letters(Append(q, f)) = Append(Letters(q), Letter(f))
<1>. DEFINE s == Letters(Append(q, f))
            t == Append(Letters(q), Letter(f))
<1>1. /\ Append(q, f) \in Seq(Frame) /\ Len(Append(q, f)) = Len(q) + 1 /\ Len(q) \in Nat
      /\ \A i \in 1..Len(q) : Append(q, f)[i] = q[i]
      /\ Append(q, f)[Len(q) + 1] = f
  BY AppendProperties
<1>2. /\ s \in Seq(LetterType) /\ Len(s) = Len(q) + 1
      /\ \A i \in 1..(Len(q) + 1) : s[i] = Letter(Append(q, f)[i])
  BY <1>1, LettersTyped
<1>3. /\ Letters(q) \in Seq(LetterType) /\ Len(Letters(q)) = Len(q)
      /\ \A i \in 1..Len(q) : Letters(q)[i] = Letter(q[i])
  BY LettersTyped
<1>4. Letter(f) \in LetterType
  BY LetterTyped
<1>5. /\ t \in Seq(LetterType) /\ Len(t) = Len(q) + 1
      /\ \A i \in 1..Len(q) : t[i] = Letters(q)[i]
      /\ t[Len(q) + 1] = Letter(f)
  BY <1>3, <1>4, AppendProperties
<1>. HIDE DEF s, t
<1>6. \A i \in 1..Len(s) : s[i] = t[i]
  BY <1>1, <1>2, <1>3, <1>5
<1>7. s = t
  BY <1>2, <1>5, <1>6, SeqEqual
<1>. QED  BY <1>7 DEF s, t

LEMMA LettersTail ==
  ASSUME NEW q \in Seq(Frame), q # <<>>
  PROVE  Letters(Tail(q)) = Tail(Letters(q))
<1>. DEFINE s == Letters(Tail(q))
            t == Tail(Letters(q))
<1>1. /\ Tail(q) \in Seq(Frame) /\ Len(Tail(q)) = Len(q) - 1 /\ Len(q) \in Nat \ {0}
      /\ \A i \in 1..(Len(q) - 1) : Tail(q)[i] = q[i + 1]
  BY HeadTailProperties, EmptySeq
<1>2. /\ s \in Seq(LetterType) /\ Len(s) = Len(q) - 1
      /\ \A i \in 1..(Len(q) - 1) : s[i] = Letter(Tail(q)[i])
  BY <1>1, LettersTyped
<1>3. /\ Letters(q) \in Seq(LetterType) /\ Len(Letters(q)) = Len(q) /\ Letters(q) # <<>>
      /\ \A i \in 1..Len(q) : Letters(q)[i] = Letter(q[i])
  BY LettersTyped, LettersEmpty
<1>4. /\ t \in Seq(LetterType) /\ Len(t) = Len(q) - 1
      /\ \A i \in 1..(Len(q) - 1) : t[i] = Letters(q)[i + 1]
  BY <1>3, HeadTailProperties
<1>. HIDE DEF s, t
<1>5. \A i \in 1..Len(s) : s[i] = t[i]
  BY <1>1, <1>2, <1>3, <1>4
<1>6. s = t
  BY <1>2, <1>4, <1>5, SeqEqual
<1>. QED  BY <1>6 DEF s, t

LEMMA QueuedEmpty == Queued(<<>>) = {}
BY DEF Queued

LEMMA QueuedAppend ==
  ASSUME NEW q \in Seq(Frame), NEW f \in Frame
  PROVE  Queued(Append(q, f)) = Queued(q) \cup (IF IsLetter(f) THEN {Letter(f)} ELSE {})
<1>1. /\ DOMAIN Append(q, f) = (DOMAIN q) \cup {Len(q) + 1}
      /\ \A i \in DOMAIN q : Append(q, f)[i] = q[i]
      /\ Append(q, f)[Len(q) + 1] = f
  OBVIOUS
<1>. QED  BY <1>1, Zenon DEF Queued

LEMMA QueuedTail ==
  ASSUME NEW q \in Seq(Frame), q # <<>>
  PROVE  Queued(q) = Queued(Tail(q)) \cup (IF IsLetter(Head(q)) THEN {Letter(Head(q))} ELSE {})
<1>1. /\ 1 \in DOMAIN q /\ Head(q) = q[1]
      /\ \A i \in DOMAIN Tail(q) : i + 1 \in DOMAIN q /\ Tail(q)[i] = q[i + 1]
  BY Dequeue
<1>2. \A j \in DOMAIN q : j = 1 \/ \E i \in DOMAIN Tail(q) : Tail(q)[i] = q[j]
  <2>1. /\ Len(q) \in Nat \ {0} /\ DOMAIN q = 1..Len(q) /\ DOMAIN Tail(q) = 1..(Len(q) - 1)
    BY HeadTailProperties, EmptySeq
  <2>2. ASSUME NEW j \in DOMAIN q, j # 1 PROVE j - 1 \in DOMAIN Tail(q) /\ (j - 1) + 1 = j
    BY <2>1, <2>2
  <2>. QED  BY <1>1, <2>2
<1>. QED  BY <1>1, <1>2, Zenon DEF Queued

-----------------------------------------------------------------------------
(* The invariant of the refinement, and the mapped state.                  *)

\* The frame a handler is writing is data for a node, or an answer on the
\* handler's own connection.
HandAddressed ==
    \A c \in Conns : pc[c] = "write" =>
        IF wmsg[c].type = "data" THEN wmsg[c].dst \in Nodes ELSE wdst[c] = c

MInv == IInv /\ HandAddressed

Pend == [c \in Conns |-> InHand(c) \cup Queued(inq[c])]

Boxes == [c \in Conns |-> Letters(outq[c])]

LEMMA AddressedStep == MInv /\ [Next]_vars => HandAddressed'
<1> SUFFICES ASSUME MInv, [Next]_vars PROVE HandAddressed'
  OBVIOUS
<1> USE DEF MInv, IInv, RInv, TypeOK, HandAddressed, serverVars, handlerVars, clientVars
<1>1. CASE UNCHANGED <<pc, wmsg, wdst>>
  BY <1>1
<1>2. ASSUME NEW c \in Conns, ReadData(c) PROVE HandAddressed'
  <2>1. Head(inq[c]).type = "data" /\ Head(inq[c]).dst \in Nodes
    BY <1>2, Dequeue DEF ReadData, FramesNamed
  <2>2. pc' = [pc EXCEPT ![c] = "write"] /\ wmsg' = [wmsg EXCEPT ![c] = Head(inq[c])]
    BY <1>2 DEF ReadData
  <2>3. \A d \in Conns \ {c} : wdst'[d] = wdst[d]
    BY <1>2 DEF ReadData
  <2> QED
    BY <2>1, <2>2, <2>3
<1>3. ASSUME NEW c \in Conns, ReadPing(c) PROVE HandAddressed'
  <2>1. [Head(inq[c]) EXCEPT !.type = "pong"].type = "pong"
    BY <1>3, Dequeue, FrameFields DEF ReadPing
  <2> QED
    BY <1>3, <2>1 DEF ReadPing
<1>4. ASSUME NEW c \in Conns,
             \/ Accept(c) \/ FirstRegister(c) \/ FirstReject(c) \/ ReadUnknown(c)
             \/ ReadIgnored(c) \/ ReadTimeout(c) \/ ReadError(c) \/ WriteFrame(c)
             \/ WriteError(c) \/ Unregister(c) \/ CloseConn(c)
      PROVE  HandAddressed'
  <2>1. \E there \in PCs \ {"write"} : pc' = [pc EXCEPT ![c] = there]
    BY <1>4 DEF Accept, FirstRegister, FirstReject, ReadUnknown, ReadIgnored, ReadTimeout,
                ReadError, WriteFrame, WriteError, WriteReturns, Unregister, CloseConn,
                LoopHead, PCs
  <2>2. \A d \in Conns \ {c} : wmsg'[d] = wmsg[d] /\ wdst'[d] = wdst[d]
    BY <1>4 DEF Accept, FirstRegister, FirstReject, ReadUnknown, ReadIgnored, ReadTimeout,
                ReadError, WriteFrame, WriteError, WriteReturns, Unregister, CloseConn
  <2> QED
    BY <2>1, <2>2
<1>5. ASSUME NEW n \in Nodes, NEW c \in Conns, Dial(n, c) PROVE HandAddressed'
  BY <1>5 DEF Dial
<1> QED
  BY <1>1, <1>2, <1>3, <1>4, <1>5
     DEF Next, Handler, vars, Start, StartLoop, Cancel, Stop, StopReturns, AcceptError,
         ConnLost, Recv, ConnectRegister, Send, SendFrame, SendPing, SendDisconnect,
         Close

LEMMA InvarianceM == Spec => []MInv
<1>1. Init => HandAddressed
  BY DEF Init, HandAddressed
<1>2. IInv /\ [Next]_vars => IInv'
  BY RInvStep, QueuedStep, WrittenStep, DeliveredStep, ForwardedStep DEF IInv, OInv
<1>3. MInv /\ [Next]_vars => MInv'
  BY <1>2, AddressedStep DEF MInv
<1>4. Init => MInv
  BY <1>1, InitIInv DEF MInv
<1>. QED  BY <1>3, <1>4, PTL DEF Spec

\* A step of one connection changes what is pending there and nowhere else.
LEMMA PendAt ==
  ASSUME NEW c \in Conns,
         \A d \in Conns \ {c} : /\ pc'[d] = "write" <=> pc[d] = "write"
                                /\ wmsg'[d] = wmsg[d] /\ inq'[d] = inq[d]
  PROVE  Pend' = [Pend EXCEPT ![c] = InHand(c)' \cup Queued(inq'[c])]
<1>1. \A d \in Conns \ {c} : InHand(d)' = InHand(d)
  BY DEF InHand
<1>. QED  BY <1>1 DEF Pend

\* The letters in a stream are those sent on it so far.
LEMMA QueuedRank ==
  ASSUME IInv, NEW c \in Conns, NEW m \in Queued(inq[c])
  PROVE  m.id \in Nat /\ m.id <= nsent[c]
<1>1. PICK i \in DOMAIN inq[c] : IsLetter(inq[c][i]) /\ m = Letter(inq[c][i])
  BY DEF Queued
<1>2. inq[c][i] \in Frame
  BY DEF IInv, RInv, TypeOK
<1>3. inq[c][i].id \in Nat /\ Letter(inq[c][i]).id = inq[c][i].id
  BY <1>2, FrameFields, LetterTyped
<1>4. inq[c][i].id <= nsent[c]
  BY <1>1 DEF IInv, OInv, QueuedInOrder
<1>. QED  BY <1>1, <1>3, <1>4

\* The frame a handler has in its hands is the oldest letter.
LEMMA HandOldest ==
  ASSUME IInv, NEW c \in Conns, pc[c] = "write"
  PROVE  /\ wmsg[c] \in Frame
         /\ \A m \in Queued(inq[c]) : Letter(wmsg[c]).id < m.id
<1>1. wmsg[c] \in Frame
  BY DEF IInv, RInv, WriterReady
<1>2. ASSUME NEW m \in Queued(inq[c]) PROVE wmsg[c].id < m.id
  <2>1. PICK i \in DOMAIN inq[c] : IsLetter(inq[c][i]) /\ m = Letter(inq[c][i])
    BY DEF Queued
  <2>2. inq[c][i] \in Frame /\ inq[c][i].type # "register"
    BY <2>1 DEF IInv, RInv, TypeOK, IsLetter
  <2>3. m.id = inq[c][i].id
    BY <2>1, <2>2, LetterTyped
  <2>. QED  BY <2>2, <2>3 DEF IInv, OInv, WrittenInOrder
<1>. QED  BY <1>1, <1>2, LetterTyped

\* Otherwise the first frame of the stream is, if it is a letter.
LEMMA HeadOldest ==
  ASSUME IInv, NEW c \in Conns, inq[c] # <<>>, IsLetter(Head(inq[c]))
  PROVE  /\ Head(inq[c]) \in Frame
         /\ \A m \in Queued(Tail(inq[c])) : Letter(Head(inq[c])).id < m.id
<1>1. inq[c] \in Seq(Frame)
  BY DEF IInv, RInv, TypeOK
<1>2. /\ Head(inq[c]) \in Frame /\ 1 \in DOMAIN inq[c] /\ Head(inq[c]) = inq[c][1]
      /\ \A i \in DOMAIN Tail(inq[c]) :
            /\ i \in Nat /\ i + 1 \in DOMAIN inq[c]
            /\ 1 < i + 1 /\ Tail(inq[c])[i] = inq[c][i + 1]
  BY <1>1, Dequeue
<1>3. ASSUME NEW m \in Queued(Tail(inq[c])) PROVE Head(inq[c]).id < m.id
  <2>1. PICK i \in DOMAIN Tail(inq[c]) : IsLetter(Tail(inq[c])[i]) /\ m = Letter(Tail(inq[c])[i])
    BY DEF Queued
  <2>2. /\ i + 1 \in DOMAIN inq[c] /\ 1 < i + 1 /\ m = Letter(inq[c][i + 1])
        /\ IsLetter(inq[c][i + 1])
    BY <1>2, <2>1
  <2>3. inq[c][i + 1] \in Frame
    BY <1>1, <2>2
  <2>4. m.id = inq[c][i + 1].id
    BY <2>2, <2>3, LetterTyped
  <2>5. inq[c][1].id < inq[c][i + 1].id
    BY <1>2, <2>2 DEF IInv, OInv, QueuedInOrder, IsLetter
  <2>. QED  BY <1>2, <2>4, <2>5
<1>. QED  BY <1>2, <1>3, LetterTyped

-----------------------------------------------------------------------------
(* Every step of the relay is a step of the mailbox, or changes nothing    *)
(* there.                                                                  *)

LEMMA Stutters ==
  ASSUME UNCHANGED <<name, nsent, Pend, Boxes>>
  PROVE  UNCHANGED Promise!vars
BY DEF Promise!vars, Pend, Boxes

\* A step that leaves the streams and the handlers' hands alone.
LEMMA IdleStep ==
  ASSUME UNCHANGED <<name, nsent, inq, outq, wmsg>>,
         \A c \in Conns : pc'[c] = "write" <=> pc[c] = "write"
  PROVE  UNCHANGED Promise!vars
<1>1. \A c \in Conns : InHand(c)' = InHand(c)
  BY DEF InHand
<1>2. Pend' = Pend
  BY <1>1 DEF Pend
<1>3. Boxes' = Boxes
  BY DEF Boxes
<1>. QED  BY <1>2, <1>3, Stutters

\* The mapped streams are typed.
LEMMA Typed ==
  ASSUME MInv, NEW c \in Conns
  PROVE  /\ inq[c] \in Seq(Frame) /\ outq[c] \in Seq(Frame)
         /\ nsent[c] \in Nat /\ nsent \in [Conns -> Nat]
         /\ Pend[c] = InHand(c) \cup Queued(inq[c]) /\ Boxes[c] = Letters(outq[c])
         /\ Pend = [Pend EXCEPT ![c] = Pend[c]] /\ Boxes = [Boxes EXCEPT ![c] = Boxes[c]]
<1>1. inq[c] \in Seq(Frame) /\ outq[c] \in Seq(Frame)
  BY DEF MInv, IInv, RInv, TypeOK
<1>2. nsent[c] \in Nat /\ nsent \in [Conns -> Nat]
  BY RelayAssumption DEF MInv, IInv, RInv, TypeOK
<1>3. Pend[c] = InHand(c) \cup Queued(inq[c]) /\ Boxes[c] = Letters(outq[c])
  BY DEF Pend, Boxes
<1>4. Pend = [Pend EXCEPT ![c] = Pend[c]] /\ Boxes = [Boxes EXCEPT ![c] = Boxes[c]]
  BY DEF Pend, Boxes
<1>. QED  BY <1>1, <1>2, <1>3, <1>4

\* The registration joins; the register frame is no letter.
LEMMA JoinStep ==
  ASSUME MInv, NEW c \in Conns, FirstRegister(c)
  PROVE  Promise!Next
<1>1. /\ inq[c] # <<>> /\ Head(inq[c]).type = "register" /\ pc[c] = "first"
      /\ inq' = [inq EXCEPT ![c] = Tail(inq[c])] /\ UNCHANGED <<wmsg, nsent, outq>>
      /\ name' = [name EXCEPT ![c] = Head(inq[c]).src]
      /\ pc' = [pc EXCEPT ![c] = LoopHead]
  BY DEF FirstRegister, clientVars
<1>2. Head(inq[c]).src \in Nodes /\ name[c] = NoNode
  BY <1>1, Typed, Dequeue DEF MInv, IInv, RInv, FramesNamed, HandlerShape
<1>3. InHand(c) = {} /\ InHand(c)' = {}
  BY <1>1 DEF InHand, LoopHead, MInv, IInv, RInv, TypeOK
<1>4. Queued(Tail(inq[c])) = Queued(inq[c])
  <2>1. ~IsLetter(Head(inq[c]))
    BY <1>1 DEF IsLetter
  <2>2. Queued(inq[c]) = Queued(Tail(inq[c]))
                            \cup (IF IsLetter(Head(inq[c])) THEN {Letter(Head(inq[c]))} ELSE {})
    BY <1>1, Typed, QueuedTail
  <2>. QED  BY <2>1, <2>2
<1>5. Pend' = [Pend EXCEPT ![c] = InHand(c)' \cup Queued(inq'[c])]
  BY <1>1, PendAt DEF MInv, IInv, RInv, TypeOK
<1>6. inq'[c] = Tail(inq[c])
  BY <1>1 DEF MInv, IInv, RInv, TypeOK
<1>7. Pend' = Pend
  BY <1>3, <1>4, <1>5, <1>6, Typed
<1>8. Boxes' = Boxes
  BY <1>1 DEF Boxes
<1>9. Promise!Join(c, Head(inq[c]).src)
  BY <1>1, <1>2, <1>7, <1>8 DEF Promise!Join, Pend, Boxes
<1>. QED  BY <1>2, <1>9 DEF Promise!Next

\* forwardToPeer's lookup and the answer to a ping take the first letter of the
\* stream in hand; a frame that is no letter is dropped unnoticed.
LEMMA TakeInHandStep ==
  ASSUME MInv, NEW c \in Conns, ReadData(c) \/ ReadPing(c) \/ ReadIgnored(c)
  PROVE  UNCHANGED Promise!vars
<1>1. /\ inq[c] # <<>> /\ inq' = [inq EXCEPT ![c] = Tail(inq[c])] /\ pc[c] = "read"
      /\ UNCHANGED <<name, nsent, outq>>
      /\ \A d \in Conns \ {c} : wmsg'[d] = wmsg[d]
      /\ \A d \in Conns \ {c} : pc'[d] = pc[d]
  BY DEF ReadData, ReadPing, ReadIgnored, clientVars, MInv, IInv, RInv, TypeOK
<1>2. Head(inq[c]) \in Frame
  BY <1>1, Typed, Dequeue
<1>3. InHand(c) = {}
  BY <1>1 DEF InHand
<1>4. InHand(c)' = IF IsLetter(Head(inq[c])) THEN {Letter(Head(inq[c]))} ELSE {}
  <2>1. CASE ReadData(c)
    <3>1. pc'[c] = "write" /\ wmsg'[c] = Head(inq[c]) /\ IsLetter(Head(inq[c]))
      BY <2>1 DEF ReadData, IsLetter, MInv, IInv, RInv, TypeOK
    <3>. QED  BY <3>1 DEF InHand
  <2>2. CASE ReadPing(c)
    <3>1. /\ pc'[c] = "write" /\ wmsg'[c] = [Head(inq[c]) EXCEPT !.type = "pong"]
          /\ Head(inq[c]).type = "ping"
      BY <2>2 DEF ReadPing, MInv, IInv, RInv, TypeOK
    <3>2. Letter([Head(inq[c]) EXCEPT !.type = "pong"]) = Letter(Head(inq[c]))
      BY <1>2, <3>1, FrameFields DEF Letter
    <3>. QED  BY <3>1, <3>2 DEF InHand, IsLetter
  <2>3. CASE ReadIgnored(c)
    <3>1. pc'[c] = LoopHead /\ Head(inq[c]).type \notin {"data", "ping"}
      BY <2>3 DEF ReadIgnored, MInv, IInv, RInv, TypeOK
    <3>. QED  BY <3>1 DEF InHand, IsLetter, LoopHead
  <2>. QED  BY <2>1, <2>2, <2>3
<1>5. Queued(inq[c]) = Queued(Tail(inq[c])) \cup InHand(c)'
  BY <1>1, <1>4, Typed, QueuedTail
<1>6. inq'[c] = Tail(inq[c]) /\ \A d \in Conns \ {c} : inq'[d] = inq[d]
  BY <1>1 DEF MInv, IInv, RInv, TypeOK
<1>7. Pend' = [Pend EXCEPT ![c] = InHand(c)' \cup Queued(inq'[c])]
  BY <1>1, <1>6, PendAt
<1>8. Pend' = Pend
  BY <1>3, <1>5, <1>6, <1>7, Typed
<1>. QED  BY <1>1, <1>8, Stutters DEF Boxes

\* Data for a name that is not in the map, the first letter, is lost.
LEMMA UnknownStep ==
  ASSUME MInv, NEW c \in Conns, ReadUnknown(c)
  PROVE  Promise!Next
<1>. DEFINE l == Letter(Head(inq[c]))
<1>1. /\ inq[c] # <<>> /\ inq' = [inq EXCEPT ![c] = Tail(inq[c])] /\ pc[c] = "read"
      /\ UNCHANGED <<name, nsent, outq, wmsg>> /\ pc' = [pc EXCEPT ![c] = LoopHead]
      /\ IsLetter(Head(inq[c]))
  BY DEF ReadUnknown, clientVars, IsLetter
<1>2. InHand(c) = {} /\ InHand(c)' = {}
  BY <1>1 DEF InHand, LoopHead, MInv, IInv, RInv, TypeOK
<1>3. Queued(inq[c]) = Queued(Tail(inq[c])) \cup {l}
  BY <1>1, Typed, QueuedTail
<1>4. \A m \in Queued(Tail(inq[c])) : l.id < m.id
  BY <1>1, HeadOldest DEF MInv
<1>5. l.id \in Nat
  BY <1>1, HeadOldest, LetterTyped, FrameFields DEF MInv
<1>. HIDE DEF l
<1>6. l \in Pend[c] /\ \A m \in Pend[c] : l.id <= m.id
  <2>1. \A m \in Queued(inq[c]) : m.id \in Nat
    BY QueuedRank DEF MInv
  <2>. QED  BY <1>2, <1>3, <1>4, <1>5, <2>1, Typed
<1>7. Queued(Tail(inq[c])) = Pend[c] \ {l}
  <2>1. l \notin Queued(Tail(inq[c]))
    BY <1>4, <1>5
  <2>. QED  BY <1>2, <1>3, <2>1, Typed
<1>8. Pend' = [Pend EXCEPT ![c] = InHand(c)' \cup Queued(inq'[c])]
  BY <1>1, PendAt DEF MInv, IInv, RInv, TypeOK
<1>9. inq'[c] = Tail(inq[c])
  BY <1>1 DEF MInv, IInv, RInv, TypeOK
<1>10. Pend' = [Pend EXCEPT ![c] = Pend[c] \ {l}] /\ Boxes' = Boxes
  BY <1>1, <1>2, <1>7, <1>8, <1>9 DEF Boxes
<1>11. Promise!Oldest(c, l)
  BY <1>6 DEF Promise!Oldest, Pend
<1>12. Promise!Lose(c)
  BY <1>1, <1>6, <1>10, <1>11 DEF Promise!Lose, Pend, Boxes
<1>. QED  BY <1>12 DEF Promise!Next

\* What sendMessage does to the mapped state, whether it writes or fails: the
\* letter in hand, the oldest, is gone.
LEMMA HandGone ==
  ASSUME MInv, NEW c \in Conns, pc[c] = "write", WriteReturns(c), inq' = inq
  PROVE  /\ Letter(wmsg[c]) \in Pend[c] /\ Promise!Oldest(c, Letter(wmsg[c]))
         /\ Pend' = [Pend EXCEPT ![c] = Pend[c] \ {Letter(wmsg[c])}]
<1>. DEFINE l == Letter(wmsg[c])
<1>1. l.id \in Nat /\ \A m \in Queued(inq[c]) : l.id < m.id
  BY HandOldest, LetterTyped, FrameFields DEF MInv
<1>2. InHand(c) = {l} /\ InHand(c)' = {}
  BY DEF InHand, WriteReturns, LoopHead, MInv, IInv, RInv, TypeOK
<1>. HIDE DEF l
<1>3. l \in Pend[c] /\ \A m \in Pend[c] : l.id <= m.id
  <2>1. \A m \in Queued(inq[c]) : m.id \in Nat
    BY QueuedRank DEF MInv
  <2>. QED  BY <1>1, <1>2, <2>1, Typed
<1>4. Queued(inq[c]) = Pend[c] \ {l}
  <2>1. l \notin Queued(inq[c])
    BY <1>1
  <2>. QED  BY <1>2, <2>1, Typed
<1>5. Pend' = [Pend EXCEPT ![c] = InHand(c)' \cup Queued(inq'[c])]
  <2>1. \A d \in Conns \ {c} : pc'[d] = pc[d] /\ wmsg'[d] = wmsg[d] /\ inq'[d] = inq[d]
    BY DEF WriteReturns, MInv, IInv, RInv, TypeOK
  <2>. QED  BY <2>1, PendAt
<1>6. Pend' = [Pend EXCEPT ![c] = Pend[c] \ {l}]
  BY <1>2, <1>4, <1>5
<1>7. Promise!Oldest(c, l)
  BY <1>3 DEF Promise!Oldest, Pend
<1>. QED  BY <1>3, <1>6, <1>7 DEF l

\* A write delivers it, to the name it is addressed to or back to its sender.
LEMMA DeliverStep ==
  ASSUME MInv, NEW c \in Conns, WriteFrame(c)
  PROVE  Promise!Next
<1>. DEFINE l == Letter(wmsg[c])
            d == wdst[c]
<1>1. /\ pc[c] = "write" /\ WriteReturns(c) /\ UNCHANGED <<inq, name, nsent>>
      /\ outq' = [outq EXCEPT ![d] = Append(outq[d], wmsg[c])]
  BY DEF WriteFrame, clientVars
<1>2. d \in Conns /\ wmsg[c] \in Frame
  BY <1>1 DEF MInv, IInv, RInv, WriterReady
<1>3. IF l.to = NoNode THEN d = c ELSE name[d] = l.to
  <2>1. wmsg[c].type = "data" => wmsg[c].dst \in Nodes /\ name[d] = wmsg[c].dst
    BY <1>1 DEF MInv, HandAddressed, IInv, OInv, WrittenInOrder
  <2>2. wmsg[c].type # "data" => d = c
    BY <1>1 DEF MInv, HandAddressed
  <2>. QED  BY <2>1, <2>2, RelayAssumption DEF Letter
<1>4. /\ l \in Pend[c] /\ Promise!Oldest(c, l)
      /\ Pend' = [Pend EXCEPT ![c] = Pend[c] \ {l}]
  BY <1>1, HandGone
<1>5. Boxes' = [Boxes EXCEPT ![d] = Append(Boxes[d], l)]
  <2>1. Letters(Append(outq[d], wmsg[c])) = Append(Letters(outq[d]), l)
    BY <1>2, Typed, LettersAppend
  <2>2. Boxes[d] = Letters(outq[d])
    BY <1>2, Typed
  <2>3. outq \in [Conns -> Seq(Frame)]
    BY DEF MInv, IInv, RInv, TypeOK
  <2>. QED  BY <1>1, <1>2, <2>1, <2>2, <2>3 DEF Boxes
<1>. HIDE DEF l, d
<1>6. Promise!Deliver(c, l, d)
  BY <1>1, <1>3, <1>4, <1>5 DEF Promise!Deliver, Pend, Boxes
<1>. QED  BY <1>2, <1>4, <1>6 DEF Promise!Next, Pend

\* A write to a closed connection loses it.
LEMMA WriteErrorStep ==
  ASSUME MInv, NEW c \in Conns, WriteError(c)
  PROVE  Promise!Next
<1>1. pc[c] = "write" /\ WriteReturns(c) /\ UNCHANGED <<inq, name, nsent, outq>>
  BY DEF WriteError, clientVars
<1>2. /\ Letter(wmsg[c]) \in Pend[c] /\ Promise!Oldest(c, Letter(wmsg[c]))
      /\ Pend' = [Pend EXCEPT ![c] = Pend[c] \ {Letter(wmsg[c])}]
  BY <1>1, HandGone
<1>3. Promise!Lose(c)
  BY <1>1, <1>2 DEF Promise!Lose, Pend, Boxes
<1>. QED  BY <1>3 DEF Promise!Next

\* conn.Close on the server's side loses what was not read.
LEMMA CloseConnStep ==
  ASSUME MInv, NEW c \in Conns, CloseConn(c)
  PROVE  Promise!Next
<1>1. /\ pc[c] = "close" /\ pc' = [pc EXCEPT ![c] = "done"]
      /\ inq' = [inq EXCEPT ![c] = <<>>] /\ UNCHANGED <<name, nsent, outq, wmsg>>
  BY DEF CloseConn, clientVars
<1>2. InHand(c)' = {} /\ inq'[c] = <<>>
  BY <1>1 DEF InHand, MInv, IInv, RInv, TypeOK
<1>3. Pend' = [Pend EXCEPT ![c] = InHand(c)' \cup Queued(inq'[c])]
  BY <1>1, PendAt DEF MInv, IInv, RInv, TypeOK
<1>4. Pend' = [Pend EXCEPT ![c] = {}]
  BY <1>2, <1>3, QueuedEmpty
<1>5. \A m \in Pend[c] : m.id \in Nat
  <2>1. \A m \in InHand(c) : FALSE
    BY <1>1 DEF InHand
  <2>. QED  BY <2>1, QueuedRank, Typed DEF MInv
<1>6. Promise!Before(c, 0) = {}
  BY <1>5 DEF Promise!Before, Pend
<1>7. 0 \in 0..(nsent[c] + 1)
  BY Typed
<1>8. Promise!Lose(c)
  BY <1>1, <1>4, <1>6, <1>7 DEF Promise!Lose, Pend, Boxes
<1>. QED  BY <1>8 DEF Promise!Next

\* A client's end that closes, or a connection that breaks, empties the box and
\* keeps of the pending letters all, or what the handler has in hand.
LEMMA BreakStep ==
  ASSUME MInv, NEW c \in Conns, UNCHANGED <<name, nsent, pc, wmsg>>,
         outq' = [outq EXCEPT ![c] = <<>>],
         inq' = inq \/ inq' = [inq EXCEPT ![c] = <<>>]
  PROVE  Promise!Next
<1>1. Boxes' = [Boxes EXCEPT ![c] = <<>>]
  <2>1. <<>> \in Seq(Frame)
    BY EmptySeq
  <2>2. Letters(<<>>) = <<>>
    BY <2>1, LettersEmpty
  <2>3. outq \in [Conns -> Seq(Frame)]
    BY DEF MInv, IInv, RInv, TypeOK
  <2>. QED  BY <2>2, <2>3 DEF Boxes
<1>2. InHand(c)' = InHand(c)
  BY DEF InHand
<1>3. \A m \in Pend[c] : m.id \in Nat /\ m.id <= nsent[c]
  <2>1. \A m \in InHand(c) : m.id \in Nat /\ m.id <= nsent[c]
    <3>1. CASE pc[c] = "write"
      <4>1. wmsg[c] \in Frame
        BY <3>1 DEF MInv, IInv, RInv, WriterReady
      <4>2. wmsg[c].id \in Nat /\ Letter(wmsg[c]).id = wmsg[c].id
        BY <4>1, FrameFields, LetterTyped
      <4>3. wmsg[c].id <= nsent[c]
        BY <3>1 DEF MInv, IInv, OInv, WrittenInOrder
      <4>4. InHand(c) = {Letter(wmsg[c])}
        BY <3>1 DEF InHand
      <4>. QED  BY <4>2, <4>3, <4>4
    <3>2. CASE pc[c] # "write"
      BY <3>2 DEF InHand
    <3>. QED  BY <3>1, <3>2
  <2>. QED  BY <2>1, QueuedRank, Typed DEF MInv
<1>4. \E k \in 0..(nsent[c] + 1) : Pend' = [Pend EXCEPT ![c] = Promise!Before(c, k)]
  <2>1. CASE inq' = inq
    <3>1. Promise!Before(c, nsent[c] + 1) = Pend[c]
      <4>1. {m \in Pend[c] : m.id < nsent[c] + 1} = Pend[c]
        BY <1>3, Typed
      <4>. QED  BY <4>1 DEF Promise!Before, Pend
    <3>2. \A d \in Conns : InHand(d)' = InHand(d)
      BY DEF InHand
    <3>3. Pend' = Pend
      BY <2>1, <3>2 DEF Pend
    <3>4. nsent[c] + 1 \in 0..(nsent[c] + 1)
      BY Typed
    <3>. QED  BY <3>1, <3>3, <3>4, Typed
  <2>2. CASE inq' = [inq EXCEPT ![c] = <<>>]
    <3>1. inq'[c] = <<>> /\ \A d \in Conns \ {c} : inq'[d] = inq[d]
      BY <2>2 DEF MInv, IInv, RInv, TypeOK
    <3>2. Pend' = [Pend EXCEPT ![c] = InHand(c)' \cup Queued(inq'[c])]
      BY <3>1, PendAt
    <3>3. Pend' = [Pend EXCEPT ![c] = InHand(c)]
      BY <1>2, <3>1, <3>2, QueuedEmpty
    <3>4. CASE pc[c] = "write"
      <4>. DEFINE l == Letter(wmsg[c])
      <4>1. InHand(c) = {l} /\ \A m \in Queued(inq[c]) : l.id < m.id
        BY <3>4, HandOldest DEF InHand, MInv
      <4>. HIDE DEF l
      <4>2. l.id \in Nat /\ l.id <= nsent[c] /\ l.id + 1 \in 0..(nsent[c] + 1)
        BY <1>3, <4>1, Typed
      <4>3. {m \in Pend[c] : m.id < l.id + 1} = InHand(c)
        <5>1. \A m \in Queued(inq[c]) : ~(m.id < l.id + 1)
          BY <4>1, <4>2, QueuedRank DEF MInv
        <5>2. l.id < l.id + 1
          BY <4>2
        <5>. QED  BY <4>1, <5>1, <5>2, Typed
      <4>4. Promise!Before(c, l.id + 1) = InHand(c)
        BY <4>3 DEF Promise!Before, Pend
      <4>. QED  BY <3>3, <4>2, <4>4
    <3>5. CASE pc[c] # "write"
      <4>1. InHand(c) = {}
        BY <3>5 DEF InHand
      <4>2. {m \in Pend[c] : m.id < 0} = {}
        BY <1>3
      <4>3. Promise!Before(c, 0) = {}
        BY <4>2 DEF Promise!Before, Pend
      <4>4. 0 \in 0..(nsent[c] + 1)
        BY Typed
      <4>. QED  BY <3>3, <4>1, <4>3, <4>4
    <3>. QED  BY <3>4, <3>5
  <2>. QED  BY <2>1, <2>2
<1>5. Promise!Break(c)
  BY <1>1, <1>4 DEF Promise!Break, Pend, Boxes
<1>. QED  BY <1>5 DEF Promise!Next

\* A frame written by the client is posted, or takes a rank and is no letter.
LEMMA PostStep ==
  ASSUME MInv, NEW n \in Nodes, NEW t \in {"data", "ping", "disconnect"},
         NEW src \in Nodes \cup {NoNode}, NEW to \in Nodes \cup {NoNode},
         t # "data" => to = NoNode, SendFrame(n, t, src, to)
  PROVE  Promise!Next
<1>. DEFINE F(c, i) == [type |-> t, src |-> src, dst |-> to, via |-> c, id |-> i]
<1>1. rc[n] \in Conns /\ nsent[rc[n]] + 1 \in Nat
  BY Typed, RelayAssumption DEF SendFrame, MInv, IInv, RInv, TypeOK
<1>2. PICK c \in Conns, f \in Frame : c = rc[n] /\ f = F(c, nsent[c] + 1)
  BY <1>1, FrameIntro DEF Types
<1>3. Letter(f) = [via |-> c, id |-> nsent[c] + 1, to |-> to] /\ f.type = t
  BY <1>2 DEF Letter
<1>4. /\ nsent' = [nsent EXCEPT ![c] = nsent[c] + 1]
      /\ inq' = [inq EXCEPT ![c] = Append(inq[c], f)]
      /\ UNCHANGED <<name, pc, wmsg, outq>>
  BY <1>2 DEF SendFrame, handlerVars
<1>5. inq'[c] = Append(inq[c], f) /\ \A d \in Conns \ {c} : inq'[d] = inq[d]
  BY <1>1, <1>4 DEF MInv, IInv, RInv, TypeOK
<1>6. InHand(c)' = InHand(c)
  BY <1>4 DEF InHand
<1>7. Pend' = [Pend EXCEPT ![c] = InHand(c)' \cup Queued(inq'[c])]
  BY <1>1, <1>4, <1>5, PendAt
<1>8. Queued(inq'[c]) = Queued(inq[c]) \cup (IF IsLetter(f) THEN {Letter(f)} ELSE {})
  BY <1>1, <1>2, <1>5, Typed, QueuedAppend
<1>9. Boxes' = Boxes
  BY <1>4 DEF Boxes
<1>10. CASE t = "disconnect"
  <2>1. ~IsLetter(f)
    BY <1>3, <1>10 DEF IsLetter
  <2>2. Pend' = Pend
    BY <1>1, <1>6, <1>7, <1>8, <2>1, Typed
  <2>3. Promise!Skip(c)
    BY <1>4, <1>9, <2>2 DEF Promise!Skip, Pend, Boxes
  <2>. QED  BY <1>1, <2>3 DEF Promise!Next
<1>11. CASE t # "disconnect"
  <2>1. IsLetter(f)
    BY <1>3, <1>11 DEF IsLetter
  <2>2. Pend' = [Pend EXCEPT ![c] = Pend[c] \cup {[via |-> c, id |-> nsent[c] + 1, to |-> to]}]
    <3>1. InHand(c)' \cup Queued(inq'[c]) = Pend[c] \cup {Letter(f)}
      BY <1>6, <1>8, <2>1, Typed
    <3>. QED  BY <1>3, <1>7, <3>1
  <2>3. Promise!Post(c, to)
    BY <1>4, <1>9, <2>2 DEF Promise!Post, Pend, Boxes
  <2>. QED  BY <1>1, <2>3 DEF Promise!Next
<1>. QED  BY <1>10, <1>11

\* Connect's register frame is no letter; when it fails the connection breaks.
LEMMA ConnectStep ==
  ASSUME MInv, NEW n \in Nodes, NEW e \in Conns, ConnectRegister(n, e)
  PROVE  Promise!Next \/ UNCHANGED Promise!vars
<1>. DEFINE F(c) == [type |-> "register", src |-> n, dst |-> NoNode, via |-> c, id |-> 0]
<1>1. PICK c \in Conns, f \in Frame : c = rc[n] /\ f = F(c)
  <2>1. rc[n] \in Conns
    BY DEF ConnectRegister, MInv, IInv, RInv, ConnectorReady
  <2>. QED  BY <2>1, FrameIntro DEF Types
<1>2. ~IsLetter(f)
  BY <1>1 DEF IsLetter
<1>3. /\ UNCHANGED <<name, nsent, pc, wmsg>>
      /\ \/ outq' = outq /\ inq' = inq
         \/ outq' = outq /\ inq' = [inq EXCEPT ![c] = Append(inq[c], f)]
         \/ outq' = [outq EXCEPT ![e] = <<>>] /\ inq' = inq
  BY <1>1 DEF ConnectRegister, handlerVars
<1>4. CASE outq' = outq /\ inq' = inq
  BY <1>3, <1>4, IdleStep
<1>5. CASE outq' = outq /\ inq' = [inq EXCEPT ![c] = Append(inq[c], f)]
  <2>1. inq'[c] = Append(inq[c], f) /\ \A d \in Conns \ {c} : inq'[d] = inq[d]
    BY <1>1, <1>5 DEF MInv, IInv, RInv, TypeOK
  <2>2. Queued(inq'[c]) = Queued(inq[c]) \cup (IF IsLetter(f) THEN {Letter(f)} ELSE {})
    BY <1>1, <1>2, <2>1, Typed, QueuedAppend
  <2>3. InHand(c)' = InHand(c)
    BY <1>3 DEF InHand
  <2>4. Pend' = [Pend EXCEPT ![c] = InHand(c)' \cup Queued(inq'[c])]
    BY <1>1, <1>3, <2>1, PendAt
  <2>5. Pend' = Pend
    BY <1>1, <1>2, <2>2, <2>3, <2>4, Typed
  <2>. QED  BY <1>3, <1>5, <2>5, Stutters DEF Boxes
<1>6. CASE outq' = [outq EXCEPT ![e] = <<>>] /\ inq' = inq
  BY <1>3, <1>6, BreakStep
<1>. QED  BY <1>3, <1>4, <1>5, <1>6

LEMMA TakeStep ==
  ASSUME MInv, NEW c \in Conns, Recv(c)
  PROVE  Promise!Next
<1>1. /\ outq[c] # <<>> /\ outq' = [outq EXCEPT ![c] = Tail(outq[c])]
      /\ UNCHANGED <<name, nsent, inq, pc, wmsg>>
  BY DEF Recv, handlerVars
<1>2. Boxes[c] # <<>>
  BY <1>1, Typed, LettersEmpty
<1>3. Boxes' = [Boxes EXCEPT ![c] = Tail(Boxes[c])]
  <2>1. Letters(Tail(outq[c])) = Tail(Letters(outq[c]))
    BY <1>1, Typed, LettersTail
  <2>2. outq \in [Conns -> Seq(Frame)] /\ Boxes[c] = Letters(outq[c])
    BY Typed DEF MInv, IInv, RInv, TypeOK
  <2>. QED  BY <1>1, <2>1, <2>2 DEF Boxes
<1>4. Pend' = Pend
  <2>1. \A d \in Conns : InHand(d)' = InHand(d)
    BY <1>1 DEF InHand
  <2>. QED  BY <1>1, <2>1 DEF Pend
<1>5. Promise!Take(c)
  BY <1>1, <1>2, <1>3, <1>4 DEF Promise!Take, Pend, Boxes
<1>. QED  BY <1>5 DEF Promise!Next

LEMMA InitMaps == Init => Promise!Init
<1>. SUFFICES ASSUME Init PROVE Promise!Init
  OBVIOUS
<1>1. Letters(<<>>) = <<>>
  <2>1. <<>> \in Seq(Frame)
    BY EmptySeq
  <2>. QED  BY <2>1, LettersEmpty
<1>2. \A c \in Conns : InHand(c) = {} /\ Queued(inq[c]) = {} /\ Letters(outq[c]) = <<>>
  BY <1>1, QueuedEmpty DEF Init, InHand
<1>. QED  BY <1>2 DEF Promise!Init, Init

LEMMA NextMaps == MInv /\ [Next]_vars => [Promise!Next]_(Promise!vars)
<1>. SUFFICES ASSUME MInv, [Next]_vars PROVE Promise!Next \/ UNCHANGED Promise!vars
  OBVIOUS
<1>. USE DEF serverVars, handlerVars, clientVars
<1>1. CASE UNCHANGED vars \/ Start \/ StartLoop \/ Cancel \/ Stop \/ StopReturns \/ AcceptError
  <2>1. UNCHANGED <<name, nsent, inq, outq, wmsg, pc>>
    BY <1>1 DEF vars, Start, StartLoop, Cancel, Stop, StopReturns, AcceptError
  <2>. QED  BY <2>1, IdleStep
<1>2. ASSUME NEW c \in Conns,
             Accept(c) \/ FirstReject(c) \/ ReadTimeout(c) \/ ReadError(c) \/ Unregister(c)
      PROVE  UNCHANGED Promise!vars
  <2>1. UNCHANGED <<name, nsent, inq, outq, wmsg>>
    BY <1>2 DEF Accept, FirstReject, ReadTimeout, ReadError, Unregister
  <2>2. \A d \in Conns : pc'[d] = "write" <=> pc[d] = "write"
    BY <1>2 DEF Accept, FirstReject, ReadTimeout, ReadError, Unregister, LoopHead, MInv, IInv,
                RInv, TypeOK
  <2>. QED  BY <2>1, <2>2, IdleStep
<1>3. ASSUME NEW c \in Conns, NEW n \in Nodes, Dial(n, c) PROVE UNCHANGED Promise!vars
  <2>1. UNCHANGED <<name, nsent, inq, outq, wmsg>>
    BY <1>3 DEF Dial
  <2>2. \A d \in Conns : pc'[d] = "write" <=> pc[d] = "write"
    BY <1>3 DEF Dial, MInv, IInv, RInv, TypeOK
  <2>. QED  BY <2>1, <2>2, IdleStep
<1>4. ASSUME NEW c \in Conns,
             \/ FirstRegister(c) \/ ReadData(c) \/ ReadPing(c) \/ ReadIgnored(c)
             \/ ReadUnknown(c) \/ WriteFrame(c) \/ WriteError(c) \/ CloseConn(c) \/ Recv(c)
      PROVE  Promise!Next \/ UNCHANGED Promise!vars
  BY <1>4, JoinStep, TakeInHandStep, UnknownStep, DeliverStep, WriteErrorStep, CloseConnStep,
     TakeStep
<1>5. ASSUME NEW c \in Conns, ConnLost(c) PROVE Promise!Next
  <2>1. /\ UNCHANGED <<name, nsent, pc, wmsg>>
        /\ outq' = [outq EXCEPT ![c] = <<>>] /\ inq' = [inq EXCEPT ![c] = <<>>]
    BY <1>5 DEF ConnLost
  <2>. QED  BY <2>1, BreakStep
<1>6. ASSUME NEW n \in Nodes, Close(n) PROVE Promise!Next
  <2>1. /\ UNCHANGED <<name, nsent, pc, wmsg, inq>> /\ rc[n] \in Conns
        /\ outq' = [outq EXCEPT ![rc[n]] = <<>>]
    BY <1>6 DEF Close, MInv, IInv, RInv, TypeOK
  <2>. QED  BY <2>1, BreakStep
<1>7. ASSUME NEW n \in Nodes, NEW e \in Conns, ConnectRegister(n, e)
      PROVE  Promise!Next \/ UNCHANGED Promise!vars
  BY <1>7, ConnectStep
<1>8. ASSUME NEW n \in Nodes, NEW to \in Nodes, Send(n, to) PROVE Promise!Next
  BY <1>8, PostStep DEF Send
<1>9. ASSUME NEW n \in Nodes, SendPing(n) \/ SendDisconnect(n) PROVE Promise!Next
  BY <1>9, PostStep DEF SendPing, SendDisconnect
<1>. QED  BY <1>1, <1>2, <1>3, <1>4, <1>5, <1>6, <1>7, <1>8, <1>9 DEF Next, Handler

-----------------------------------------------------------------------------
(* The theorem.                                                            *)

\* relay.go keeps Mailbox's promise: forwardToPeer, sendMessage and the handlers'
\* loops deliver each frame of a client at most once, in the order it was sent,
\* and only to a connection that registered under the name it is addressed to,
\* or, for a ping, back to the client; for any nodes, connections and buffers.
THEOREM RelayIsMailbox == Spec => ImplementsMailbox
<1>1. Init => Promise!Init
  BY InitMaps
<1>2. MInv /\ [Next]_vars => [Promise!Next]_(Promise!vars)
  BY NextMaps
<1>. QED  BY <1>1, <1>2, InvarianceM, PTL DEF Spec, ImplementsMailbox, Promise!Spec
=============================================================================
