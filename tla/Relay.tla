------------------------------- MODULE Relay -------------------------------
(***************************************************************************)
(* The TCP relay of relay.go: RelayServer (Start, acceptLoop, one          *)
(* handleClient goroutine per connection, forwardToPeer, Stop) and the     *)
(* RelayClientConn each node uses to reach it (Connect, Send, Close).      *)
(*                                                                         *)
(* A connection is a pair of byte streams; here a stream is a FIFO of      *)
(* whole frames (RelayStream looks inside frames).  `inq` holds what the   *)
(* client has written and the server has not read, `outq` the converse.    *)
(* A goroutine is a program counter in `pc`.  A locked section, or a       *)
(* blocking socket call, is one step.                                      *)
(***************************************************************************)
EXTENDS Naturals, Sequences, FiniteSets
LOCAL INSTANCE Functions

CONSTANTS
    Nodes,         \* node names
    Conns,         \* TCP connections a run may open
    NoConn,        \* "not in the map" / nil net.Conn
    NoNode,        \* "" : a name that was never set
    Cap,           \* frames a socket buffer holds before Write blocks
    MaxSend,       \* bound on the frames sent to the server, besides register
    TLSAvailable   \* buildTLSConfig returns a usable configuration

ASSUME RelayAssumption ==
    /\ NoConn \notin Conns
    /\ NoNode \notin Nodes
    /\ Cap \in Nat \ {0}
    /\ MaxSend \in Nat
    /\ TLSAvailable \in BOOLEAN

VARIABLES
    cancelled,   \* ctx.Done() is closed
    listener,    \* r.listener: "none" (nil), "open", "closed"
    acceptor,    \* the acceptLoop goroutine: "idle", "starting" (inside Start),
                 \* "running", "late" (spawned after Stop returned), "returned"
    stopper,     \* the caller of Stop: "idle", "waiting" (wg.Wait), "done"
    clients,     \* r.clients : node name -> connection of its RelayClient
    pc,          \* the handleClient goroutine of each connection
    name,        \* client.Name of each connection's RelayClient
    wmsg,        \* the frame a handler is writing (sendMessage)
    wdst,        \* the connection it is writing it to
    inq, outq,   \* frames in flight, client to server and server to client
    peerOpen,    \* the client's end of the connection is open
    srvOpen,     \* the server's end of the connection is open
    rc,          \* rc.conn of each node's RelayClientConn
    connecting,  \* the node whose Connect dialled a connection and has not yet
                 \* written its register frame
    joined,      \* connections whose Connect call returned nil
    crossed,     \* history: connections whose Connect was overtaken by another
                 \* call on the same RelayClientConn
    nsent,       \* frames sent on each connection so far
    seen         \* history: seen[d][c] is the rank of the last frame that
                 \* entered on c and that the client of d has read

serverVars == <<cancelled, listener, acceptor, stopper>>
handlerVars == <<clients, pc, name, wmsg, wdst, srvOpen>>
clientVars == <<rc, connecting, joined, crossed, nsent, seen>>
vars == <<serverVars, handlerVars, clientVars, inq, outq, peerOpen>>

Types == {"data", "register", "ping", "pong", "disconnect"}

\* RelayMessage.  `via` and `id` stand for the payload: they tell which
\* connection a frame entered on, and its rank there.
Frame == [type : Types, src : Nodes \cup {NoNode}, dst : Nodes \cup {NoNode},
          via : Conns, id : Nat]

NoFrame == [type |-> "pong", src |-> NoNode, dst |-> NoNode,
            via |-> NoConn, id |-> 0]

PCs == {"none", "backlog", "first", "read", "write", "unregister",
        "close", "done"}

\* The goroutines r.wg counts besides the accept loop.
Running(c) == pc[c] \in {"first", "read", "write", "unregister", "close"}

\* Between the insertion into r.clients and the deferred deletion.
Serving(c) == pc[c] \in {"read", "write", "unregister"}

Init ==
    /\ cancelled = FALSE
    /\ listener = "none"
    /\ acceptor = "idle"
    /\ stopper = "idle"
    /\ clients = [n \in Nodes |-> NoConn]
    /\ pc = [c \in Conns |-> "none"]
    /\ name = [c \in Conns |-> NoNode]
    /\ wmsg = [c \in Conns |-> NoFrame]
    /\ wdst = [c \in Conns |-> NoConn]
    /\ inq = [c \in Conns |-> <<>>]
    /\ outq = [c \in Conns |-> <<>>]
    /\ peerOpen = [c \in Conns |-> FALSE]
    /\ srvOpen = [c \in Conns |-> FALSE]
    /\ rc = [n \in Nodes |-> NoConn]
    /\ connecting = [c \in Conns |-> NoNode]
    /\ joined = {}
    /\ crossed = {}
    /\ nsent = [c \in Conns |-> 0]
    /\ seen = [d \in Conns |-> [c \in Conns |-> 0]]

-----------------------------------------------------------------------------
(* The server's life cycle.                                                *)

\* Start, first half: the listener is bound (TLS or plain).  A failed bind
\* returns the error and leaves the server as it was.
Start ==
    /\ listener = "none" /\ stopper = "idle"
    /\ listener' = "open"
    /\ acceptor' = "starting"
    /\ UNCHANGED <<cancelled, stopper, handlerVars, clientVars, inq, outq, peerOpen>>

\* Start, second half: acceptLoop is added to r.wg and spawned, even when a Stop
\* has closed the listener and gone in the meantime.
StartLoop ==
    /\ acceptor = "starting"
    /\ acceptor' = IF stopper = "done" THEN "late" ELSE "running"
    /\ UNCHANGED <<cancelled, listener, stopper, handlerVars, clientVars, inq, outq,
                   peerOpen>>

\* The signal handler of the up command cancels the context.
Cancel ==
    /\ ~cancelled
    /\ cancelled' = TRUE
    /\ UNCHANGED <<listener, acceptor, stopper, handlerVars, clientVars, inq, outq,
                   peerOpen>>

\* Stop closes the listener, if there is one, and waits for the goroutines.
Stop ==
    /\ stopper = "idle"
    /\ stopper' = "waiting"
    /\ listener' = IF listener = "open" THEN "closed" ELSE listener
    /\ UNCHANGED <<cancelled, acceptor, handlerVars, clientVars, inq, outq, peerOpen>>

\* Mutant: the accept loop is spawned without wg.Add.
WaitGroupWithoutAcceptor == \A c \in Conns : ~Running(c)

\* r.wg counts the accept loop and every handler it spawned.
WaitGroupZero == acceptor # "running" /\ \A c \in Conns : ~Running(c)

StopReturns ==
    /\ stopper = "waiting"
    /\ WaitGroupZero
    /\ stopper' = "done"
    /\ UNCHANGED <<cancelled, listener, acceptor, handlerVars, clientVars, inq, outq,
                   peerOpen>>

\* Accept returns a connection: a handler is added to r.wg and spawned.
Accept(c) ==
    /\ acceptor = "running" /\ listener = "open"
    /\ pc[c] = "backlog"
    /\ pc' = [pc EXCEPT ![c] = "first"]
    /\ srvOpen' = [srvOpen EXCEPT ![c] = TRUE]
    /\ UNCHANGED <<serverVars, clients, name, wmsg, wdst, clientVars, inq, outq,
                   peerOpen>>

\* Accept fails.  Under a cancelled context the loop returns; otherwise the
\* error is logged and the loop goes round again, which changes nothing.
AcceptError ==
    /\ acceptor \in {"running", "late"} /\ cancelled
    /\ acceptor' = "returned"
    /\ UNCHANGED <<cancelled, listener, stopper, handlerVars, clientVars, inq, outq,
                   peerOpen>>

-----------------------------------------------------------------------------
(* handleClient.                                                           *)

\* Mutant: the loop does not look at the context.
LoopHeadBlind == "read"

\* The select at the head of the message loop.
LoopHead == IF cancelled THEN "unregister" ELSE "read"

\* The first frame registers the client.  Under TLS the frames of a client
\* that dialled plain TCP are no TLS record and the read fails.
FirstRegister(c) ==
    /\ pc[c] = "first" /\ inq[c] # <<>>
    /\ ~TLSAvailable /\ Head(inq[c]).type = "register"
    /\ inq' = [inq EXCEPT ![c] = Tail(@)]
    /\ name' = [name EXCEPT ![c] = Head(inq[c]).src]
    /\ clients' = [clients EXCEPT ![Head(inq[c]).src] = c]
    /\ pc' = [pc EXCEPT ![c] = LoopHead]
    /\ UNCHANGED <<serverVars, wmsg, wdst, srvOpen, clientVars, outq, peerOpen>>

\* Mutant: the first read gives up on a client that has sent nothing yet.
FirstRejectEarly(c) ==
    /\ pc[c] = "first"
    /\ \/ inq[c] # <<>> /\ (TLSAvailable \/ Head(inq[c]).type # "register")
       \/ inq[c] = <<>>
    /\ pc' = [pc EXCEPT ![c] = "close"]
    /\ UNCHANGED <<serverVars, clients, name, wmsg, wdst, srvOpen, clientVars, inq,
                   outq, peerOpen>>

\* A first frame of another type, or a read error: return before the client
\* is entered in the map.  This read has no deadline.
FirstReject(c) ==
    /\ pc[c] = "first"
    /\ \/ inq[c] # <<>> /\ (TLSAvailable \/ Head(inq[c]).type # "register")
       \/ inq[c] = <<>> /\ ~peerOpen[c]
    /\ pc' = [pc EXCEPT ![c] = "close"]
    /\ UNCHANGED <<serverVars, clients, name, wmsg, wdst, srvOpen, clientVars, inq,
                   outq, peerOpen>>

\* A data frame: forwardToPeer looks the destination up under the read lock,
\* and writes after releasing it.
ReadData(c) ==
    /\ pc[c] = "read" /\ inq[c] # <<>> /\ Head(inq[c]).type = "data"
    /\ clients[Head(inq[c]).dst] # NoConn
    /\ inq' = [inq EXCEPT ![c] = Tail(@)]
    /\ pc' = [pc EXCEPT ![c] = "write"]
    /\ wmsg' = [wmsg EXCEPT ![c] = Head(inq[c])]
    /\ wdst' = [wdst EXCEPT ![c] = clients[Head(inq[c]).dst]]
    /\ UNCHANGED <<serverVars, clients, name, srvOpen, clientVars, outq, peerOpen>>

\* A data frame for a destination that is not connected is dropped.
ReadUnknown(c) ==
    /\ pc[c] = "read" /\ inq[c] # <<>> /\ Head(inq[c]).type = "data"
    /\ clients[Head(inq[c]).dst] = NoConn
    /\ inq' = [inq EXCEPT ![c] = Tail(@)]
    /\ pc' = [pc EXCEPT ![c] = LoopHead]
    /\ UNCHANGED <<serverVars, clients, name, wmsg, wdst, srvOpen, clientVars, outq,
                   peerOpen>>

\* Mutant: the pong goes to whoever the map holds under the client's name.
ReadPingByName(c) ==
    /\ pc[c] = "read" /\ inq[c] # <<>> /\ Head(inq[c]).type = "ping"
    /\ inq' = [inq EXCEPT ![c] = Tail(@)]
    /\ pc' = [pc EXCEPT ![c] = "write"]
    /\ wmsg' = [wmsg EXCEPT ![c] = [Head(inq[c]) EXCEPT !.type = "pong"]]
    /\ wdst' = [wdst EXCEPT ![c] = IF clients[name[c]] = NoConn THEN c
                                   ELSE clients[name[c]]]
    /\ UNCHANGED <<serverVars, clients, name, srvOpen, clientVars, outq, peerOpen>>

\* A ping is answered on the same connection.
ReadPing(c) ==
    /\ pc[c] = "read" /\ inq[c] # <<>> /\ Head(inq[c]).type = "ping"
    /\ inq' = [inq EXCEPT ![c] = Tail(@)]
    /\ pc' = [pc EXCEPT ![c] = "write"]
    /\ wmsg' = [wmsg EXCEPT ![c] = [Head(inq[c]) EXCEPT !.type = "pong"]]
    /\ wdst' = [wdst EXCEPT ![c] = c]
    /\ UNCHANGED <<serverVars, clients, name, srvOpen, clientVars, outq, peerOpen>>

\* The switch has no case for the other types: the frame is ignored.
ReadIgnored(c) ==
    /\ pc[c] = "read" /\ inq[c] # <<>>
    /\ Head(inq[c]).type \notin {"data", "ping"}
    /\ inq' = [inq EXCEPT ![c] = Tail(@)]
    /\ pc' = [pc EXCEPT ![c] = LoopHead]
    /\ UNCHANGED <<serverVars, clients, name, wmsg, wdst, srvOpen, clientVars, outq,
                   peerOpen>>

\* Mutant: a client that stays silent for 60 s is taken out of the map.
ReadTimeoutEvicts(c) ==
    /\ pc[c] = "read" /\ inq[c] = <<>>
    /\ clients' = [clients EXCEPT ![name[c]] = NoConn]
    /\ pc' = [pc EXCEPT ![c] = LoopHead]
    /\ UNCHANGED <<serverVars, name, wmsg, wdst, srvOpen, clientVars, inq, outq,
                   peerOpen>>

\* The 60 s read deadline: `continue` re-evaluates the select.  It leaves the
\* loop only under a cancelled context, and otherwise changes nothing.
ReadTimeout(c) ==
    /\ pc[c] = "read" /\ inq[c] = <<>>
    /\ pc' = [pc EXCEPT ![c] = LoopHead]
    /\ UNCHANGED <<serverVars, clients, name, wmsg, wdst, srvOpen, clientVars, inq,
                   outq, peerOpen>>

\* Mutant: `continue` on every read error, not only on a timeout.
ReadErrorContinues(c) ==
    /\ pc[c] = "read" /\ inq[c] = <<>> /\ ~peerOpen[c]
    /\ pc' = [pc EXCEPT ![c] = LoopHead]
    /\ UNCHANGED <<serverVars, clients, name, wmsg, wdst, srvOpen, clientVars, inq,
                   outq, peerOpen>>

\* Any other read error ends the loop.
ReadError(c) ==
    /\ pc[c] = "read" /\ inq[c] = <<>> /\ ~peerOpen[c]
    /\ pc' = [pc EXCEPT ![c] = "unregister"]
    /\ UNCHANGED <<serverVars, clients, name, wmsg, wdst, srvOpen, clientVars, inq,
                   outq, peerOpen>>

\* sendMessage: conn.Write blocks while the destination's buffer is full, and
\* has no deadline; on a closed connection it fails and the frame is dropped.
Writable(d) == srvOpen[d] /\ peerOpen[d]

\* sendMessage returns; handleClient ignores its error and loops.
WriteReturns(c) ==
    /\ pc' = [pc EXCEPT ![c] = LoopHead]
    /\ wmsg' = [wmsg EXCEPT ![c] = NoFrame]
    /\ wdst' = [wdst EXCEPT ![c] = NoConn]

\* Mutant: the write does not wait for room.
WriteWithoutRoom(c) ==
    /\ pc[c] = "write" /\ Writable(wdst[c])
    /\ outq' = [outq EXCEPT ![wdst[c]] = Append(@, wmsg[c])]
    /\ WriteReturns(c)
    /\ UNCHANGED <<serverVars, clients, name, srvOpen, clientVars, inq, peerOpen>>

\* Mutant: the frame is written again, as a retry after an error would.
WriteTwice(c) ==
    /\ pc[c] = "write" /\ Writable(wdst[c])
    /\ Len(outq[wdst[c]]) < Cap
    /\ outq' = [outq EXCEPT ![wdst[c]] = Append(@, wmsg[c])]
    /\ \/ WriteReturns(c)
       \/ UNCHANGED <<pc, wmsg, wdst>>
    /\ UNCHANGED <<serverVars, clients, name, srvOpen, clientVars, inq, peerOpen>>

WriteFrame(c) ==
    /\ pc[c] = "write" /\ Writable(wdst[c])
    /\ Len(outq[wdst[c]]) < Cap
    /\ outq' = [outq EXCEPT ![wdst[c]] = Append(@, wmsg[c])]
    /\ WriteReturns(c)
    /\ UNCHANGED <<serverVars, clients, name, srvOpen, clientVars, inq, peerOpen>>

WriteError(c) ==
    /\ pc[c] = "write" /\ ~Writable(wdst[c])
    /\ WriteReturns(c)
    /\ UNCHANGED <<serverVars, clients, name, srvOpen, clientVars, inq, outq, peerOpen>>

\* Mutant: the connection is closed and the map entry is left behind.
UnregisterForgets(c) ==
    /\ pc[c] = "unregister"
    /\ pc' = [pc EXCEPT ![c] = "close"]
    /\ UNCHANGED <<serverVars, clients, name, wmsg, wdst, srvOpen, clientVars, inq,
                   outq, peerOpen>>

\* The deferred function: delete(r.clients, client.Name), whichever
\* connection the name maps to by now.
Unregister(c) ==
    /\ pc[c] = "unregister"
    /\ clients' = [clients EXCEPT ![name[c]] = NoConn]
    /\ pc' = [pc EXCEPT ![c] = "close"]
    /\ UNCHANGED <<serverVars, name, wmsg, wdst, srvOpen, clientVars, inq, outq,
                   peerOpen>>

\* The deferred conn.Close, which runs last, and wg.Done.  What the client
\* wrote and nobody read is discarded.
CloseConn(c) ==
    /\ pc[c] = "close"
    /\ srvOpen' = [srvOpen EXCEPT ![c] = FALSE]
    /\ inq' = [inq EXCEPT ![c] = <<>>]
    /\ pc' = [pc EXCEPT ![c] = "done"]
    /\ UNCHANGED <<serverVars, clients, name, wmsg, wdst, clientVars, outq, peerOpen>>

Handler(c) ==
    \/ FirstRegister(c) \/ FirstReject(c)
    \/ ReadData(c) \/ ReadUnknown(c) \/ ReadPing(c) \/ ReadIgnored(c)
    \/ ReadTimeout(c) \/ ReadError(c)
    \/ WriteFrame(c) \/ WriteError(c)
    \/ Unregister(c) \/ CloseConn(c)

-----------------------------------------------------------------------------
(* RelayClientConn, one per node.                                          *)

\* Connect, first half: dial, and store rc.conn without taking rc.mu.  The
\* connection it replaces is not closed, also when the Connect that dialled it
\* has not registered yet.
Dial(n, c) ==
    /\ pc[c] = "none" /\ listener = "open"
    /\ pc' = [pc EXCEPT ![c] = "backlog"]
    /\ peerOpen' = [peerOpen EXCEPT ![c] = TRUE]
    /\ rc' = [rc EXCEPT ![n] = c]
    /\ connecting' = [connecting EXCEPT ![c] = n]
    /\ crossed' = crossed \cup {d \in Conns : connecting[d] = n}
    /\ UNCHANGED <<serverVars, clients, name, wmsg, wdst, srvOpen, joined, nsent, seen,
                   inq, outq>>

\* Connect, second half: the register frame goes to what rc.conn is by now, d.
\* A failed write closes the connection dialled, c, and Connect returns the error.
\* A write to a connection the server has closed may still be accepted by the
\* local socket, and is lost.
ConnectRegister(n, c) ==
    /\ connecting[c] = n
    /\ connecting' = [connecting EXCEPT ![c] = NoNode]
    /\ LET d == rc[n]
       IN  \/ /\ peerOpen[d] /\ Len(inq[d]) < Cap
              /\ inq' = IF pc[d] = "done" THEN inq
                        ELSE [inq EXCEPT ![d] =
                                 Append(@, [type |-> "register", src |-> n,
                                            dst |-> NoNode, via |-> d, id |-> 0])]
              /\ joined' = joined \cup {c}
              /\ UNCHANGED <<outq, peerOpen>>
           \/ /\ ~peerOpen[d] \/ pc[d] = "done"
              /\ peerOpen' = [peerOpen EXCEPT ![c] = FALSE]
              /\ outq' = [outq EXCEPT ![c] = <<>>]
              /\ UNCHANGED <<inq, joined>>
    /\ UNCHANGED <<serverVars, handlerVars, rc, crossed, nsent, seen>>

\* The frames sent so far, on all connections.
Sent == SumFunction(nsent)

\* A frame written on rc.conn.  On a connection that either side has closed
\* the frame is lost, and nothing changes.
SendFrame(n, t, src, to) ==
    LET c == rc[n]
    IN  /\ c # NoConn /\ peerOpen[c] /\ pc[c] # "done"
        /\ Len(inq[c]) < Cap /\ Sent < MaxSend
        /\ nsent' = [nsent EXCEPT ![c] = @ + 1]
        /\ inq' = [inq EXCEPT ![c] = Append(@, [type |-> t, src |-> src, dst |-> to,
                                                via |-> c, id |-> nsent[c] + 1])]
        /\ crossed' = IF connecting[c] # NoNode THEN crossed \cup {c} ELSE crossed
        /\ UNCHANGED <<serverVars, handlerVars, rc, connecting, joined, seen, outq,
                       peerOpen>>

Send(n, to) == SendFrame(n, "data", n, to)

\* The other frames of the protocol.  A ping has no names on the wire.
SendPing(n) == SendFrame(n, "ping", NoNode, NoNode)

SendDisconnect(n) == SendFrame(n, "disconnect", n, NoNode)

\* Close.  What was written before may still be delivered.
Close(n) ==
    /\ rc[n] # NoConn /\ peerOpen[rc[n]]
    /\ peerOpen' = [peerOpen EXCEPT ![rc[n]] = FALSE]
    /\ outq' = [outq EXCEPT ![rc[n]] = <<>>]
    /\ UNCHANGED <<serverVars, handlerVars, clientVars, inq>>

\* The network, or the reclaiming of a connection rc no longer refers to,
\* breaks a connection; frames in flight are lost.
ConnLost(c) ==
    /\ peerOpen[c] \/ inq[c] # <<>>
    /\ peerOpen' = [peerOpen EXCEPT ![c] = FALSE]
    /\ inq' = [inq EXCEPT ![c] = <<>>]
    /\ outq' = [outq EXCEPT ![c] = <<>>]
    /\ UNCHANGED <<serverVars, handlerVars, clientVars>>

\* The client's application reads the next frame.
Recv(c) ==
    /\ peerOpen[c] /\ outq[c] # <<>>
    /\ seen' = [seen EXCEPT ![c][Head(outq[c]).via] = Head(outq[c]).id]
    /\ outq' = [outq EXCEPT ![c] = Tail(@)]
    /\ UNCHANGED <<serverVars, handlerVars, rc, connecting, joined, crossed, nsent, inq,
                   peerOpen>>

Next ==
    \/ Start \/ StartLoop \/ Cancel \/ Stop \/ StopReturns \/ AcceptError
    \/ \E c \in Conns : Accept(c) \/ Handler(c) \/ ConnLost(c) \/ Recv(c)
    \/ \E n \in Nodes :
          \/ \E c \in Conns : Dial(n, c) \/ ConnectRegister(n, c)
          \/ \E to \in Nodes : Send(n, to)
          \/ SendPing(n) \/ SendDisconnect(n)
          \/ Close(n)

Spec == Init /\ [][Next]_vars

-----------------------------------------------------------------------------
(* Fairness.  The Go scheduler runs every runnable goroutine, and a closed *)
(* listener makes Accept fail: FairSpec asks that and nothing of clients,  *)
(* which may stay silent or leave their socket unread for ever.            *)

FairSpec ==
    /\ Spec
    /\ WF_vars(StopReturns)
    /\ WF_vars(listener = "closed" /\ AcceptError)
    /\ \A c \in Conns : WF_vars(Handler(c))

-----------------------------------------------------------------------------
(* Properties.                                                             *)

\* Every variable keeps its type; socket buffers hold at most Cap frames.
TypeOK ==
    /\ cancelled \in BOOLEAN
    /\ listener \in {"none", "open", "closed"}
    /\ acceptor \in {"idle", "starting", "running", "late", "returned"}
    /\ stopper \in {"idle", "waiting", "done"}
    /\ clients \in [Nodes -> Conns \cup {NoConn}]
    /\ pc \in [Conns -> PCs]
    /\ name \in [Conns -> Nodes \cup {NoNode}]
    /\ wmsg \in [Conns -> Frame \cup {NoFrame}]
    /\ wdst \in [Conns -> Conns \cup {NoConn}]
    /\ inq \in [Conns -> Seq(Frame)]
    /\ outq \in [Conns -> Seq(Frame)]
    /\ \A c \in Conns : Len(inq[c]) <= Cap /\ Len(outq[c]) <= Cap
    /\ peerOpen \in [Conns -> BOOLEAN]
    /\ srvOpen \in [Conns -> BOOLEAN]
    /\ rc \in [Nodes -> Conns \cup {NoConn}]
    /\ connecting \in [Conns -> Nodes \cup {NoNode}]
    /\ joined \subseteq Conns /\ crossed \subseteq Conns
    /\ nsent \in [Conns -> Nat]
    /\ seen \in [Conns -> [Conns -> Nat]]

\* forwardToPeer uses a map entry without asking whether its connection still
\* lives: an entry must always name a connection of that very node, whose
\* server end is open and whose handler has not yet run its deferred delete.
RegistryLive ==
    \A n \in Nodes : clients[n] # NoConn =>
        /\ name[clients[n]] = n
        /\ Serving(clients[n])
        /\ srvOpen[clients[n]]

\* A client whose handler is in its loop is the one forwardToPeer finds under
\* its name, unless another connection has registered under that name too.
SoleOwnerReachable ==
    \A c \in Conns :
        /\ pc[c] \in {"read", "write"}
        /\ \A d \in Conns \ {c} : name[d] # name[c]
        => clients[name[c]] = c

\* Stop returns only when nothing of the server is left: no listener, no
\* goroutine, no open accepted connection, no map entry.  An accept loop that a
\* Start still under way spawns afterwards finds the listener closed, and accepts
\* nothing.
StopQuiesced ==
    stopper = "done" =>
        /\ listener # "open" /\ acceptor # "running"
        /\ \A c \in Conns : ~Running(c) /\ ~srvOpen[c]
        /\ \A n \in Nodes : clients[n] = NoConn

\* What a client receives: data only if addressed to the name it registered,
\* and of the frames of any one sending connection, each at most once and in
\* the order they were sent, also across lookups that have become stale.
ForwardedInOrder ==
    \A d \in Conns :
        /\ \A i \in DOMAIN outq[d] :
              /\ outq[d][i].type = "data" => outq[d][i].dst = name[d]
              /\ outq[d][i].id > seen[d][outq[d][i].via]
        /\ \A i, j \in DOMAIN outq[d] :
              i < j /\ outq[d][i].via = outq[d][j].via => outq[d][i].id < outq[d][j].id

\* A registered client whose handler still serves it is found under its name:
\* "a connected relay client (one per peer)".
ServedIsReachable ==
    \A c \in Conns : pc[c] \in {"read", "write"} => clients[name[c]] # NoConn

\* The register frame is the next thing the server reads on c.
RegisterWaiting(c) ==
    /\ pc[c] \in {"backlog", "first"}
    /\ inq[c] # <<>> /\ Head(inq[c]).type = "register"

\* A connection whose Connect returned nil is registered, or will be by the next
\* frame the server reads on it, for as long as it is up.  The exceptions: the two
\* ends speak different protocols, or Connect was overtaken between its halves, by
\* a Send that used rc.conn or by another Connect that replaced it.
ConnectRegisters ==
    \A c \in joined :
        peerOpen[c] => \/ name[c] # NoNode \/ RegisterWaiting(c)
                       \/ TLSAvailable \/ c \in crossed

\* The handler of c waits for a client and has no deadline: for the first frame of
\* its own, or for room in the buffer of the one it forwards to.
HeldByClient(c) ==
    \/ pc[c] = "first" /\ inq[c] = <<>> /\ peerOpen[c]
    \/ pc[c] = "write" /\ Writable(wdst[c]) /\ Len(outq[wdst[c]]) = Cap

\* Stop, under a cancelled context, returns unless a client that is silent from
\* the start, or one that does not read, holds a handler up for good; clients
\* that are silent later on do not, thanks to the read deadline.
StopHeldByClients ==
    <>[](stopper = "waiting" /\ cancelled) => <>[](\E c \in Conns : HeldByClient(c))

\* An entry whose client end is gone stays in the map only while its handler is
\* held up in a write to another client that does not read.
DeadClientEvicted ==
    \A c \in Conns :
        <>[]((\E n \in Nodes : clients[n] = c) /\ ~peerOpen[c])
            => <>[](pc[c] = "write" /\ HeldByClient(c))
=============================================================================
