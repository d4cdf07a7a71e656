----------------------------- MODULE WireGuard -----------------------------
(***************************************************************************)
(* The peer table of WireGuardManager (wireguard.go) and the device it     *)
(* configures.  AddPeer and UpdatePeerEndpoint talk to the device without  *)
(* holding m.mu, and take it only around the map; several goroutines (the  *)
(* Start call, the discovery callback, the relay) may be inside them.      *)
(*                                                                         *)
(* PeerState objects live on a heap: UpdatePeerEndpoint keeps a pointer    *)
(* across the unlock, and AddPeer replaces the object in the map.  The     *)
(* device (wireguard-go) is external: IpcSet merges what it is given into  *)
(* the peer with that key, or fails, before or after it has done so (the   *)
(* configuration is several lines, and is applied line by line).           *)
(***************************************************************************)
EXTENDS Naturals, FiniteSets

CONSTANTS
    Names,       \* names of the other peers
    Keys,        \* public keys
    Endpoints,   \* endpoint strings
    NoEndpoint,  \* ""
    Absent,      \* "no such peer in the device"
    Nil,         \* no object
    Callers,     \* goroutines calling the manager
    Main,        \* the one that calls Start
    CfgKey, CfgEndpoint, CfgFallback, \* cfg.Peers: key, endpoint, fallback of a name
    AddEndpoints \* endpoints and fallbacks an orchestrator may give AddPeer

Eps == Endpoints \cup {NoEndpoint}

\* Enough heap for the map and for a pointer in every call.
Objs == 1..(Cardinality(Names) + Cardinality(Callers) + 1)

PeerState == [key : Keys, ep : Eps]

ASSUME WireGuardAssumption ==
    /\ NoEndpoint \notin Endpoints /\ Absent \notin Eps
    /\ Main \in Callers
    /\ CfgKey \in [Names -> Keys]
    /\ CfgEndpoint \in [Names -> Eps] /\ CfgFallback \in [Names -> Eps]
    /\ AddEndpoints \subseteq Eps
    /\ IsFiniteSet(Names) /\ IsFiniteSet(Callers)
    /\ Nil \notin Objs /\ Nil \notin PeerState

VARIABLES
    mgr,     \* "new", "starting", "up", "closed"
    todo,    \* configured peers Start has still to add
    dev,     \* the device: key -> endpoint, or Absent
    given,   \* history: the endpoints the device was given for a key
    heap,    \* PeerState objects: public key and endpoint
    peers,   \* m.peers: name -> object
    pc, arg, \* the call each goroutine is in, with its arguments and locals
    mixed    \* history: names whose calls overlapped, shared a key or failed half
             \* way, or that were added with no endpoint of their own

vars == <<mgr, todo, dev, given, heap, peers, pc, arg, mixed>>

NoArg == [name |-> Nil, key |-> Nil, ep |-> NoEndpoint, line |-> NoEndpoint, ptr |-> Nil]

Arg == [name : Names \cup {Nil}, key : Keys \cup {Nil}, ep : Eps, line : Eps,
        ptr : Objs \cup {Nil}]

Busy(t) == pc[t] # "idle"

Init ==
    /\ mgr = "new" /\ todo = {}
    /\ dev = [k \in Keys |-> Absent]
    /\ given = [k \in Keys |-> {}]
    /\ heap = [o \in Objs |-> Nil]
    /\ peers = [n \in Names |-> Nil]
    /\ pc = [t \in Callers |-> "idle"]
    /\ arg = [t \in Callers |-> NoArg]
    /\ mixed = {}

-----------------------------------------------------------------------------
(* The device.                                                             *)

\* IpcSet with an endpoint line, or without one.
Merge(old, ep) == IF ep # NoEndpoint THEN ep ELSE IF old = Absent THEN NoEndpoint ELSE old

IpcSet(k, ep) ==
    /\ mgr # "closed"
    /\ dev' = [dev EXCEPT ![k] = Merge(@, ep)]
    /\ given' = [given EXCEPT ![k] = @ \cup {ep}]

\* A call ends: its locals are gone, and so is an object nothing points to.
Return(t) ==
    /\ pc' = [pc EXCEPT ![t] = "idle"]
    /\ arg' = [arg EXCEPT ![t] = NoArg]

Referenced(o, t, map) ==
    \/ \E n \in Names : map[n] = o
    \/ \E u \in Callers \ {t} : arg[u].ptr = o

Collect(h, t, map) == [o \in Objs |-> IF Referenced(o, t, map) THEN h[o] ELSE Nil]

\* A call for n with key k, made by t, is not on its own; whom it meets.
Mixes(t, n, k) ==
    \/ \E u \in Callers \ {t} : Busy(u) /\ (arg[u].name = n \/ arg[u].key = k)
    \/ \E m \in Names \ {n} : peers[m] # Nil /\ heap[peers[m]].key = k

MixedWith(t, n, k) ==
    {n} \cup {m \in Names : peers[m] # Nil /\ heap[peers[m]].key = k}
        \cup {arg[u].name : u \in {v \in Callers \ {t} :
                                      Busy(v) /\ (arg[v].name = n \/ arg[v].key = k)}}

\* The endpoint line of a call: the fallback stands in for a missing endpoint.
EndpointLine(ep, fb) == IF ep # NoEndpoint THEN ep ELSE fb

\* Mutant: the map is written although the device refused the peer.
IpcFailsUnnoticed(t) ==
    /\ pc[t] \in {"add_ipc", "update_ipc"}
    /\ pc' = [pc EXCEPT ![t] = IF @ = "add_ipc" THEN "add_map" ELSE "update_write"]
    /\ UNCHANGED <<mgr, todo, dev, given, heap, peers, arg, mixed>>

\* IpcSet returns an error, and the call returns it.
IpcFails(t) ==
    /\ pc[t] \in {"add_ipc", "update_ipc"}
    /\ \/ UNCHANGED <<dev, given, mixed>>
       \/ /\ IpcSet(arg[t].key, arg[t].line)
          /\ mixed' = mixed \cup MixedWith(t, arg[t].name, arg[t].key)
    /\ Return(t)
    /\ heap' = Collect(heap, t, peers)
    /\ UNCHANGED <<mgr, todo, peers>>

-----------------------------------------------------------------------------
(* AddPeer.                                                                *)

BeginAdd(t, n, k, ep, fb) ==
    /\ ~Busy(t)
    /\ pc' = [pc EXCEPT ![t] = "add_ipc"]
    /\ arg' = [arg EXCEPT ![t] = [name |-> n, key |-> k, ep |-> ep,
                                     line |-> EndpointLine(ep, fb), ptr |-> Nil]]
    /\ mixed' = IF Mixes(t, n, k) \/ ep = NoEndpoint
                THEN mixed \cup MixedWith(t, n, k) ELSE mixed

\* The call by an orchestrator: key, endpoint and fallback of its choice.
AddPeer(t, n, k, ep, fb) ==
    /\ mgr \in {"starting", "up"} /\ t # Main
    /\ BeginAdd(t, n, k, ep, fb)
    /\ UNCHANGED <<mgr, todo, dev, given, heap, peers>>

AddIpc(t) ==
    /\ pc[t] = "add_ipc"
    /\ IpcSet(arg[t].key, arg[t].line)
    /\ pc' = [pc EXCEPT ![t] = "add_map"]
    /\ UNCHANGED <<mgr, todo, heap, peers, arg, mixed>>

\* Under m.mu: a new PeerState, with the endpoint argument as it is.
AddMap(t) ==
    /\ pc[t] = "add_map"
    /\ LET o == CHOOSE x \in Objs : heap[x] = Nil
           map == [peers EXCEPT ![arg[t].name] = o]
       IN  /\ peers' = map
           /\ heap' = Collect([heap EXCEPT ![o] = [key |-> arg[t].key, ep |-> arg[t].ep]],
                              t, map)
    /\ Return(t)
    /\ UNCHANGED <<mgr, todo, dev, given, mixed>>

-----------------------------------------------------------------------------
(* UpdatePeerEndpoint.                                                     *)

\* Under the read lock: an unknown peer is an error.  The public key of an
\* object never changes.
UpdatePeerEndpoint(t, n, ep) ==
    /\ mgr # "new" /\ ~Busy(t) /\ t # Main /\ peers[n] # Nil
    /\ LET k == heap[peers[n]].key
       IN  /\ arg' = [arg EXCEPT ![t] = [name |-> n, key |-> k, ep |-> ep,
                                         line |-> ep, ptr |-> peers[n]]]
           /\ mixed' = IF Mixes(t, n, k) THEN mixed \cup MixedWith(t, n, k) ELSE mixed
    /\ pc' = [pc EXCEPT ![t] = "update_ipc"]
    /\ UNCHANGED <<mgr, todo, dev, given, heap, peers>>

UpdateIpc(t) ==
    /\ pc[t] = "update_ipc"
    /\ IpcSet(arg[t].key, arg[t].line)
    /\ pc' = [pc EXCEPT ![t] = "update_write"]
    /\ UNCHANGED <<mgr, todo, heap, peers, arg, mixed>>

\* Mutant: the endpoint is not recorded.
UpdateWriteForgets(t) ==
    /\ pc[t] = "update_write"
    /\ heap' = Collect(heap, t, peers)
    /\ Return(t)
    /\ UNCHANGED <<mgr, todo, dev, given, peers, mixed>>

\* Under m.mu, through the pointer of the lookup: it may be in the map no more.
UpdateWrite(t) ==
    /\ pc[t] = "update_write"
    /\ heap' = Collect([heap EXCEPT ![arg[t].ptr].ep = arg[t].ep], t, peers)
    /\ Return(t)
    /\ UNCHANGED <<mgr, todo, dev, given, peers, mixed>>

-----------------------------------------------------------------------------
(* Start and Stop.                                                         *)

\* The device is made and given key and port.  Start is modelled once, on a new
\* manager: one that fails here adds no peer, and a second one, which would keep
\* m.peers over a new device, is left out.
Start ==
    /\ mgr = "new"
    /\ mgr' = "starting"
    /\ todo' = Names
    /\ UNCHANGED <<dev, given, heap, peers, pc, arg, mixed>>

\* The loop over the configured peers; an error of AddPeer is logged.
StartPeer(n) ==
    /\ mgr = "starting" /\ n \in todo
    /\ todo' = todo \ {n}
    /\ BeginAdd(Main, n, CfgKey[n], CfgEndpoint[n], CfgFallback[n])
    /\ UNCHANGED <<mgr, dev, given, heap, peers>>

StartReturns ==
    /\ mgr = "starting" /\ todo = {} /\ ~Busy(Main)
    /\ mgr' = "up"
    /\ UNCHANGED <<todo, dev, given, heap, peers, pc, arg, mixed>>

\* The device is closed; the map is left as it is.
Stop ==
    /\ mgr = "up"
    /\ mgr' = "closed"
    /\ dev' = [k \in Keys |-> Absent]
    /\ UNCHANGED <<todo, given, heap, peers, pc, arg, mixed>>

Next ==
    \/ Start \/ StartReturns \/ Stop
    \/ \E n \in Names : StartPeer(n)
    \/ \E t \in Callers :
          \/ AddIpc(t) \/ AddMap(t) \/ UpdateIpc(t) \/ UpdateWrite(t) \/ IpcFails(t)
          \/ \E n \in Names :
                \/ \E k \in Keys, ep, fb \in AddEndpoints : AddPeer(t, n, k, ep, fb)
                \/ \E ep \in Endpoints : UpdatePeerEndpoint(t, n, ep)

Spec == Init /\ [][Next]_vars

-----------------------------------------------------------------------------
\* The types; an object in the map or in a caller's hands is allocated.
TypeOK ==
    /\ mgr \in {"new", "starting", "up", "closed"} /\ todo \subseteq Names
    /\ dev \in [Keys -> Eps \cup {Absent}]
    /\ given \in [Keys -> SUBSET Eps]
    /\ heap \in [Objs -> PeerState \cup {Nil}]
    /\ peers \in [Names -> Objs \cup {Nil}]
    /\ pc \in [Callers -> {"idle", "add_ipc", "add_map", "update_ipc", "update_write"}]
    /\ arg \in [Callers -> Arg]
    /\ mixed \subseteq Names
    /\ \A n \in Names : peers[n] # Nil => heap[peers[n]] # Nil
    /\ \A t \in Callers : arg[t].ptr # Nil => heap[arg[t].ptr] # Nil

\* A peer is in the map only once the device has it: AddPeer and
\* UpdatePeerEndpoint leave nothing in the map when IpcSet fails.
MappedIsConfigured ==
    \A n \in Names : peers[n] # Nil =>
        /\ mgr # "closed" => dev[heap[peers[n]].key] # Absent
        /\ given[heap[peers[n]].key] # {}

\* GetPeerStates never shows an endpoint that the device was not given for that
\* peer's key, whatever calls overlap and fail.
EndpointWasGiven ==
    \A n \in Names : peers[n] # Nil /\ heap[peers[n]].ep # NoEndpoint
        => heap[peers[n]].ep \in given[heap[peers[n]].key]

\* One call at a time, each with an endpoint and none failing half way, keep map
\* and device in step.
SequentialTracks ==
    mgr # "closed" =>
        \A n \in Names \ mixed :
            peers[n] # Nil /\ (\A t \in Callers : arg[t].name # n)
                => dev[heap[peers[n]].key] = heap[peers[n]].ep
=============================================================================
