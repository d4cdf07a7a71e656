----------------------------- MODULE Dashboard -----------------------------
(***************************************************************************)
(* The web dashboard of dashboard.go: the mesh state behind d.mu, the set  *)
(* of WebSocket clients behind d.clientsMu, a handleWebSocket goroutine    *)
(* per browser, callers of UpdateMeshState, which broadcast under          *)
(* clientsMu, and the shutdown of the HTTP server.                         *)
(*                                                                         *)
(* A mesh state is the number of the UpdateMeshState call it came with; 0  *)
(* is nil.  A WriteJSON has a beginning and an end.  The WebSocket library *)
(* supports one writer at a time.  When the handler's first write and a    *)
(* broadcast's overlap, both may go through, either may panic, and either  *)
(* may be cut: the other's NextWriter closes the writer it finds open,     *)
(* whose WriteJSON then sends nothing and returns an error.                *)
(***************************************************************************)
EXTENDS Naturals, Sequences, FiniteSets

CONSTANTS
    Browsers,    \* WebSocket connections a run may open
    Updaters,    \* goroutines that call UpdateMeshState
    Nobody,      \* no goroutine, no connection
    Cap,         \* states a socket buffer holds before WriteJSON blocks
    MaxUpdates   \* bound on the calls of UpdateMeshState

ASSUME DashboardAssumption ==
    /\ Nobody \notin Browsers \cup Updaters /\ Browsers \cap Updaters = {}
    /\ Cap \in Nat \ {0} /\ MaxUpdates \in Nat

VARIABLES
    server,    \* d.server: "none", "serving", "closed"
    alive,     \* the process has not been ended by a panic
    mesh,      \* d.mesh
    clients,   \* d.clients
    lock,      \* the updater that holds clientsMu, or Nobody
    pc,        \* the handleWebSocket goroutine of each connection
    loaded,    \* the state it read to send first
    upc,       \* each updater: "idle", "lock", "range", "write"
    state,     \* the argument of its UpdateMeshState call
    todo,      \* the clients its broadcast has still to visit
    target,    \* the client it is writing to
    calls,     \* UpdateMeshState calls so far
    open,      \* the server's end of the connection is open
    peer,      \* the browser's end is open
    cut,       \* the writers, handlers by their connection, whose write was cut
    inflight,  \* states written and not yet read by the browser
    got,       \* history: the states written to each browser, while it is there
    last,      \* history: the one written last
    raced      \* history: two UpdateMeshState calls have overlapped

handlerVars == <<pc, loaded>>
updateVars == <<upc, state, todo, target, calls, raced, lock>>
wireVars == <<inflight, got, last>>
connVars == <<open, peer>>
vars == <<server, alive, mesh, clients, cut, handlerVars, updateVars, wireVars, connVars>>

Init ==
    /\ server = "none" /\ alive = TRUE
    /\ mesh = 0
    /\ clients = {} /\ lock = Nobody /\ cut = {}
    /\ pc = [c \in Browsers |-> "none"]
    /\ loaded = [c \in Browsers |-> 0]
    /\ upc = [u \in Updaters |-> "idle"]
    /\ state = [u \in Updaters |-> 0]
    /\ todo = [u \in Updaters |-> {}]
    /\ target = [u \in Updaters |-> Nobody]
    /\ calls = 0 /\ raced = FALSE
    /\ open = [c \in Browsers |-> FALSE]
    /\ peer = [c \in Browsers |-> FALSE]
    /\ inflight = [c \in Browsers |-> <<>>]
    /\ got = [c \in Browsers |-> {}]
    /\ last = [c \in Browsers |-> 0]

-----------------------------------------------------------------------------
(* The HTTP server.                                                        *)

Start ==
    /\ server = "none" /\ server' = "serving"
    /\ UNCHANGED <<alive, cut, mesh, clients, handlerVars, updateVars, wireVars, connVars>>

\* Shutdown, by Stop or under a cancelled context: no new request is taken.
\* Upgraded connections are no longer the server's and go on.
Shutdown ==
    /\ server = "serving" /\ server' = "closed"
    /\ UNCHANGED <<alive, cut, mesh, clients, handlerVars, updateVars, wireVars, connVars>>

-----------------------------------------------------------------------------
(* Writing to a connection.                                                *)

\* The goroutines inside a WriteJSON on c.
BroadcastWriters(c) == {u \in Updaters : upc[u] = "write" /\ target[u] = c}

FirstWriter(c) == pc[c] = "write"

\* A broadcast and the handler are both inside one, and neither was cut.
Overlap(u, c) == u \in BroadcastWriters(c) /\ FirstWriter(c) /\ {u, c} \cap cut = {}

Cut(u, c) ==
    /\ Overlap(u, c)
    /\ \E w \in {u, c} : cut' = cut \cup {w}
    /\ UNCHANGED <<server, alive, mesh, clients, handlerVars, updateVars, wireVars,
                   connVars>>

Full(c) == open[c] /\ peer[c] /\ Len(inflight[c]) = Cap

\* A state goes out.  What is written after the browser has gone is lost.
Write(c, s) ==
    /\ open[c] /\ ~Full(c)
    /\ IF peer[c]
       THEN /\ inflight' = [inflight EXCEPT ![c] = Append(@, s)]
            /\ got' = [got EXCEPT ![c] = @ \cup {s}]
            /\ last' = [last EXCEPT ![c] = s]
       ELSE UNCHANGED wireVars

WriteFails(c) == ~open[c] \/ ~peer[c]

-----------------------------------------------------------------------------
(* handleWebSocket.                                                        *)

At(c, here, there) == pc[c] = here /\ pc' = [pc EXCEPT ![c] = there]

Upgrade(c) ==
    /\ server = "serving" /\ At(c, "none", "register")
    /\ open' = [open EXCEPT ![c] = TRUE]
    /\ peer' = [peer EXCEPT ![c] = TRUE]
    /\ UNCHANGED <<server, cut, alive, mesh, clients, loaded, updateVars, wireVars>>

Register(c) ==
    /\ At(c, "register", "load") /\ lock = Nobody
    /\ clients' = clients \cup {c}
    /\ UNCHANGED <<server, cut, alive, mesh, loaded, updateVars, wireVars, connVars>>

\* Mutant: no first message, the browser waits for the next broadcast.
LoadNothing(c) ==
    /\ At(c, "load", "read")
    /\ UNCHANGED <<server, cut, alive, mesh, clients, loaded, updateVars, wireVars, connVars>>

\* The current state is read under d.mu.  A nil one is not sent.
Load(c) ==
    /\ At(c, "load", IF mesh = 0 THEN "read" ELSE "first")
    /\ loaded' = [loaded EXCEPT ![c] = mesh]
    /\ UNCHANGED <<server, cut, alive, mesh, clients, updateVars, wireVars, connVars>>

\* conn.WriteJSON(state) begins, without a lock.
BeginFirst(c) ==
    /\ At(c, "first", "write")
    /\ UNCHANGED <<server, cut, alive, mesh, clients, loaded, updateVars, wireVars, connVars>>

\* Its error is ignored.
EndFirst(c) ==
    /\ At(c, "write", "read")
    /\ \/ c \notin cut /\ Write(c, loaded[c])
       \/ (c \in cut \/ WriteFails(c)) /\ UNCHANGED wireVars
    /\ UNCHANGED <<server, cut, alive, mesh, clients, loaded, updateVars, connVars>>

\* The write finds another one under way and panics.  The HTTP server recovers
\* the panic of a handler, after the deferred functions.
FirstPanics(c) ==
    /\ At(c, "write", "unregister") /\ \E u \in Updaters : Overlap(u, c)
    /\ UNCHANGED <<server, cut, alive, mesh, clients, loaded, updateVars, wireVars, connVars>>

\* ReadMessage, in a loop until it fails; what the browser sends is dropped.
ReadFails(c) ==
    /\ At(c, "read", "unregister") /\ WriteFails(c)
    /\ UNCHANGED <<server, cut, alive, mesh, clients, loaded, updateVars, wireVars, connVars>>

Unregister(c) ==
    /\ At(c, "unregister", "close") /\ lock = Nobody
    /\ clients' = clients \ {c}
    /\ UNCHANGED <<server, cut, alive, mesh, loaded, updateVars, wireVars, connVars>>

CloseConn(c) ==
    /\ At(c, "close", "done")
    /\ open' = [open EXCEPT ![c] = FALSE]
    /\ inflight' = [inflight EXCEPT ![c] = <<>>]
    /\ loaded' = [loaded EXCEPT ![c] = 0]
    /\ UNCHANGED <<server, cut, alive, mesh, clients, updateVars, got, last, peer>>

Handler(c) ==
    \/ Register(c) \/ Load(c) \/ BeginFirst(c) \/ EndFirst(c) \/ FirstPanics(c)
    \/ ReadFails(c) \/ Unregister(c) \/ CloseConn(c)

-----------------------------------------------------------------------------
(* UpdateMeshState and broadcast.                                          *)

Step(u, here, there) == upc[u] = here /\ upc' = [upc EXCEPT ![u] = there]

\* d.mesh = state, under d.mu.
Update(u) ==
    /\ Step(u, "idle", "lock") /\ calls < MaxUpdates
    /\ calls' = calls + 1
    /\ state' = [state EXCEPT ![u] = calls + 1]
    /\ mesh' = calls + 1
    /\ raced' = (raced \/ \E v \in Updaters : upc[v] # "idle")
    /\ UNCHANGED <<server, cut, alive, clients, handlerVars, todo, target, lock, wireVars,
                   connVars>>

\* Mutant: the broadcast does not take clientsMu.
LockUnlocked(u) ==
    /\ Step(u, "lock", "range")
    /\ todo' = [todo EXCEPT ![u] = clients]
    /\ UNCHANGED <<server, cut, alive, mesh, clients, handlerVars, state, target, calls,
                   raced, lock, wireVars, connVars>>

\* clientsMu.Lock, and the range over d.clients begins.
Lock(u) ==
    /\ Step(u, "lock", "range") /\ lock = Nobody
    /\ lock' = u
    /\ todo' = [todo EXCEPT ![u] = clients]
    /\ UNCHANGED <<server, cut, alive, mesh, clients, handlerVars, state, target, calls,
                   raced, wireVars, connVars>>

BeginWrite(u, c) ==
    /\ Step(u, "range", "write") /\ c \in todo[u]
    /\ todo' = [todo EXCEPT ![u] = @ \ {c}]
    /\ target' = [target EXCEPT ![u] = c]
    /\ UNCHANGED <<server, cut, alive, mesh, clients, handlerVars, state, calls, raced,
                   lock, wireVars, connVars>>

\* The write finds the handler's first one under way and panics, which nothing
\* on this goroutine recovers.
BroadcastPanics(u, c) ==
    /\ Overlap(u, c)
    /\ alive' = FALSE
    /\ UNCHANGED <<server, cut, mesh, clients, handlerVars, updateVars, wireVars, connVars>>

\* Mutant: the state that the call replaces is sent.
EndWriteStale(u) ==
    /\ Step(u, "write", "range") /\ u \notin cut
    /\ Write(target[u], state[u] - 1)
    /\ target' = [target EXCEPT ![u] = Nobody]
    /\ UNCHANGED <<server, cut, alive, mesh, clients, handlerVars, state, todo, calls,
                   raced, lock, connVars>>

EndWrite(u) ==
    /\ Step(u, "write", "range") /\ u \notin cut
    /\ Write(target[u], state[u])
    /\ target' = [target EXCEPT ![u] = Nobody]
    /\ UNCHANGED <<server, cut, alive, mesh, clients, handlerVars, state, todo, calls,
                   raced, lock, connVars>>

\* The write fails, or was cut on a connection in good order: client.Close and
\* delete(d.clients, client).
WriteError(u) ==
    /\ Step(u, "write", "range") /\ (u \in cut \/ WriteFails(target[u]))
    /\ cut' = cut \ {u}
    /\ open' = [open EXCEPT ![target[u]] = FALSE]
    /\ inflight' = [inflight EXCEPT ![target[u]] = <<>>]
    /\ clients' = clients \ {target[u]}
    /\ target' = [target EXCEPT ![u] = Nobody]
    /\ UNCHANGED <<server, alive, mesh, handlerVars, state, todo, calls, raced, lock,
                   got, last, peer>>

\* Mutant: broadcast returns without the Unlock.
UnlockMissing(u) ==
    /\ Step(u, "range", "idle") /\ todo[u] = {}
    /\ lock' = lock
    /\ state' = [state EXCEPT ![u] = 0]
    /\ UNCHANGED <<server, cut, alive, mesh, clients, handlerVars, todo, target, calls,
                   raced, wireVars, connVars>>

Unlock(u) ==
    /\ Step(u, "range", "idle") /\ todo[u] = {}
    /\ lock' = Nobody
    /\ state' = [state EXCEPT ![u] = 0]
    /\ UNCHANGED <<server, cut, alive, mesh, clients, handlerVars, todo, target, calls,
                   raced, wireVars, connVars>>

Updater(u) ==
    \/ Lock(u) \/ EndWrite(u) \/ WriteError(u) \/ Unlock(u)
    \/ \E c \in Browsers : BeginWrite(u, c) \/ BroadcastPanics(u, c)

-----------------------------------------------------------------------------
(* The browsers.                                                           *)

Recv(c) ==
    /\ peer[c] /\ inflight[c] # <<>>
    /\ inflight' = [inflight EXCEPT ![c] = Tail(@)]
    /\ UNCHANGED <<server, cut, alive, mesh, clients, handlerVars, updateVars, got, last,
                   connVars>>

Leave(c) ==
    /\ peer[c] /\ peer' = [peer EXCEPT ![c] = FALSE]
    /\ inflight' = [inflight EXCEPT ![c] = <<>>]
    /\ got' = [got EXCEPT ![c] = {}]
    /\ last' = [last EXCEPT ![c] = 0]
    /\ UNCHANGED <<server, cut, alive, mesh, clients, handlerVars, updateVars, open>>

Next ==
    /\ alive
    /\ \/ Start \/ Shutdown
       \/ \E c \in Browsers : Upgrade(c) \/ Handler(c) \/ Recv(c) \/ Leave(c)
       \/ \E u \in Updaters : Update(u) \/ Updater(u) \/ \E c \in Browsers : Cut(u, c)

Spec == Init /\ [][Next]_vars

\* The scheduler runs every goroutine that can go on, and sync.Mutex hands the
\* lock to a waiter that has starved.  Nothing is asked of browsers.
FairSpec ==
    /\ Spec
    /\ \A u \in Updaters : WF_vars(alive /\ Updater(u))
    /\ \A c \in Browsers : WF_vars(alive /\ Handler(c))

-----------------------------------------------------------------------------
(* Properties.                                                             *)

\* Types; a socket buffer never holds more than fits.
TypeOK ==
    /\ server \in {"none", "serving", "closed"} /\ alive \in BOOLEAN
    /\ mesh \in 0..MaxUpdates
    /\ clients \subseteq Browsers /\ lock \in Updaters \cup {Nobody}
    /\ pc \in [Browsers -> {"none", "register", "load", "first", "write", "read",
                            "unregister", "close", "done"}]
    /\ loaded \in [Browsers -> 0..MaxUpdates] /\ last \in [Browsers -> 0..MaxUpdates]
    /\ upc \in [Updaters -> {"idle", "lock", "range", "write"}]
    /\ state \in [Updaters -> 0..MaxUpdates] /\ calls \in 0..MaxUpdates
    /\ todo \in [Updaters -> SUBSET Browsers]
    /\ target \in [Updaters -> Browsers \cup {Nobody}]
    /\ raced \in BOOLEAN /\ cut \subseteq Browsers \cup Updaters
    /\ open \in [Browsers -> BOOLEAN] /\ peer \in [Browsers -> BOOLEAN]
    /\ \A c \in Browsers : Len(inflight[c]) <= Cap /\ got[c] \subseteq 0..MaxUpdates

\* What handleAPIStatus, handleAPIPeers and handleAPITopology read, each in one
\* section under d.mu.
ApiState == mesh

Quiet == alive /\ \A u \in Updaters : upc[u] = "idle"

Settled(c) == pc[c] = "read" /\ open[c] /\ peer[c]

\* No update is missed by a browser that connects while it goes on: once the
\* updates and the handler's first write are over, the state the API would
\* return has been written to every connected browser.  The exception takes two
\* calls of UpdateMeshState that overlapped: the late broadcast of the older
\* state cut the handler's write of the newer one, and the handler did not look
\* at the error.
LatestSent ==
    Quiet /\ ApiState # 0 => \A c \in Browsers :
        Settled(c) => ApiState \in got[c] \/ (raced /\ c \in cut /\ loaded[c] = ApiState)

\* The last state a browser was sent is the latest, or the one its own handler
\* had read for the first message and wrote after a broadcast had passed it,
\* unless two calls of UpdateMeshState overlapped.
LastIsLatest ==
    Quiet /\ ~raced => \A c \in Browsers : Settled(c) => last[c] \in {ApiState, loaded[c]}

\* Only the first message can collide with a broadcast: apart from the handler
\* that sends it, no two goroutines write to one connection.
OneBroadcastWriter ==
    \A c \in Browsers :
        /\ Cardinality(BroadcastWriters(c)) <= 1
        /\ pc[c] \in {"close", "done"} => BroadcastWriters(c) = {}

\* A broadcast lets go of clientsMu unless one open connection that is not read
\* holds it up for good: WriteJSON has no deadline.
LockFreed ==
    []<>(lock = Nobody \/ ~alive) \/ <>[](\E c \in Browsers : Full(c))
=============================================================================
