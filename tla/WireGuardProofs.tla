--------------------------- MODULE WireGuardProofs ---------------------------
(***************************************************************************)
(* Proofs about the peer table of the WireGuard manager: for all names,    *)
(* keys, endpoints and goroutines, WireGuard keeps TypeOK,                 *)
(* MappedIsConfigured, EndpointWasGiven and SequentialTracks.              *)
(***************************************************************************)
EXTENDS WireGuard, FiniteSetTheorems, TLAPS

-----------------------------------------------------------------------------
(* The inductive invariant, in two layers.                                 *)

Adding(t) == pc[t] \in {"add_ipc", "add_map"}

Updating(t) == pc[t] \in {"update_ipc", "update_write"}

\* IpcSet has returned, and the map is still to be written.
Applied(t) == pc[t] \in {"add_map", "update_write"}

\* Every object is in the map or in a caller's hands; each name has its own.
HeapShape ==
    /\ \A o \in Objs : heap[o] # Nil =>
          \/ \E n \in Names : peers[n] = o
          \/ \E t \in Callers : arg[t].ptr = o
    /\ \A m, n \in Names : peers[m] # Nil /\ peers[m] = peers[n] => m = n

\* The locals of a call; the pointer of an update is to an object with the key of
\* the call, and if that is still in the map, then under the name of the call.
CallShape ==
    \A t \in Callers :
        /\ ~Busy(t) => arg[t] = NoArg
        /\ Busy(t) => arg[t].name \in Names /\ arg[t].key \in Keys
        /\ Adding(t) => arg[t].ptr = Nil /\ (arg[t].ep # NoEndpoint => arg[t].line = arg[t].ep)
        /\ Updating(t) =>
              /\ arg[t].ep # NoEndpoint /\ arg[t].line = arg[t].ep
              /\ arg[t].ptr \in Objs /\ heap[arg[t].ptr].key = arg[t].key
              /\ \A n \in Names : peers[n] = arg[t].ptr => n = arg[t].name

\* The device has been configured with a key.
Configured(k) == given[k] # {} /\ (mgr # "closed" => dev[k] # Absent)

\* An object is known to the device, in the map or not; so is what a call that
\* IpcSet has accepted is about to write.
DeviceFirst ==
    /\ \A o \in Objs : heap[o] # Nil =>
          /\ Configured(heap[o].key)
          /\ heap[o].ep # NoEndpoint => heap[o].ep \in given[heap[o].key]
    /\ \A t \in Callers : Applied(t) =>
          Configured(arg[t].key) /\ arg[t].line \in given[arg[t].key]

GInv == TypeOK /\ HeapShape /\ CallShape /\ DeviceFirst

\* Whoever meets a call for the same name or the same key is mixed.
MeetingsMixed ==
    \A t \in Callers : Busy(t) =>
        /\ arg[t].ep = NoEndpoint => arg[t].name \in mixed
        /\ \A u \in Callers \ {t} :
              Busy(u) /\ (arg[u].name = arg[t].name \/ arg[u].key = arg[t].key)
                  => arg[t].name \in mixed
        /\ \A m \in Names \ {arg[t].name} :
              peers[m] # Nil /\ heap[peers[m]].key = arg[t].key
                  => m \in mixed /\ arg[t].name \in mixed

\* A call that met nobody: its update is of the object in the map, and what
\* IpcSet accepted is what the device has.
AloneTracks ==
    \A t \in Callers : Busy(t) /\ arg[t].name \notin mixed =>
        /\ Updating(t) => peers[arg[t].name] = arg[t].ptr
        /\ Applied(t) /\ mgr # "closed" => dev[arg[t].key] = arg[t].ep

\* SequentialTracks, up to the IpcSet of a call in progress.
TracksUntilIpc ==
    mgr # "closed" =>
        \A n \in Names \ mixed :
            peers[n] # Nil /\ (\A t \in Callers : Applied(t) => arg[t].name # n)
                => dev[heap[peers[n]].key] = heap[peers[n]].ep

IInv == GInv /\ MeetingsMixed /\ AloneTracks /\ TracksUntilIpc

-----------------------------------------------------------------------------
(* Facts about the heap and the device.                                    *)

\* Collecting leaves the objects that something points to, and only these.
LEMMA CollectFacts ==
    ASSUME NEW h \in [Objs -> PeerState \cup {Nil}], NEW t, NEW map
    PROVE  /\ Collect(h, t, map) \in [Objs -> PeerState \cup {Nil}]
           /\ \A o \in Objs :
                 /\ Referenced(o, t, map) => Collect(h, t, map)[o] = h[o]
                 /\ ~Referenced(o, t, map) => Collect(h, t, map)[o] = Nil
  BY DEF Collect

\* There is always room for the object that AddPeer makes: the map and the
\* callers hold fewer than there are.
LEMMA FreeObject == TypeOK /\ HeapShape => \E o \in Objs : heap[o] = Nil
<1> SUFFICES ASSUME TypeOK, HeapShape, \A o \in Objs : heap[o] # Nil PROVE FALSE
  OBVIOUS
<1> DEFINE Held == {peers[n] : n \in Names}
           ptr == [t \in Callers |-> arg[t].ptr]
           Kept == {ptr[t] : t \in Callers}
<1>1. IsFiniteSet(Names) /\ IsFiniteSet(Callers)
  BY WireGuardAssumption
<1>2. Cardinality(Names) \in Nat /\ Cardinality(Callers) \in Nat
  BY <1>1, FS_CardinalityType
<1>3. peers \in Surjection(Names, Held) /\ ptr \in Surjection(Callers, Kept)
  BY DEF Surjection, TypeOK
<1>4. IsFiniteSet(Held) /\ Cardinality(Held) <= Cardinality(Names)
  BY <1>1, <1>3, FS_Surjection
<1>5. IsFiniteSet(Kept) /\ Cardinality(Kept) <= Cardinality(Callers)
  BY <1>1, <1>3, FS_Surjection
<1>6. /\ IsFiniteSet(Held \cup Kept)
      /\ Cardinality(Held \cup Kept)
            = Cardinality(Held) + Cardinality(Kept) - Cardinality(Held \cap Kept)
  BY <1>4, <1>5, FS_Union
<1>7. IsFiniteSet(Held \cap Kept)
  BY <1>4, FS_Intersection
<1>8. /\ Cardinality(Held) \in Nat /\ Cardinality(Kept) \in Nat
      /\ Cardinality(Held \cap Kept) \in Nat
  BY <1>4, <1>5, <1>7, FS_CardinalityType
<1>9. Objs \subseteq Held \cup Kept
  BY DEF HeapShape
<1>10. Cardinality(Objs) <= Cardinality(Held \cup Kept)
  BY <1>6, <1>9, FS_Subset
<1>11. Cardinality(Objs) = Cardinality(Names) + Cardinality(Callers) + 1
  BY <1>2, FS_Interval DEF Objs
<1>12. QED
  <2> HIDE DEF Held, Kept
  <2> QED
    BY <1>2, <1>4, <1>5, <1>6, <1>8, <1>10, <1>11

\* The names that a call marks as mixed: its own, and whomever it meets.
LEMMA MixedWithFacts ==
    ASSUME TypeOK, CallShape, NEW t \in Callers, NEW n \in Names, NEW k \in Keys
    PROVE  /\ MixedWith(t, n, k) \subseteq Names
           /\ n \in MixedWith(t, n, k)
           /\ \A m \in Names : peers[m] # Nil /\ heap[peers[m]].key = k
                 => m \in MixedWith(t, n, k)
           /\ \A u \in Callers \ {t} : Busy(u) /\ (arg[u].name = n \/ arg[u].key = k)
                 => arg[u].name \in MixedWith(t, n, k)
  BY DEF MixedWith, CallShape

\* What the device has of a peer once IpcSet has been given an endpoint line.
LEMMA IpcSetFacts ==
    ASSUME TypeOK, NEW k \in Keys, NEW ep \in Eps, IpcSet(k, ep)
    PROVE  /\ dev' \in [Keys -> Eps \cup {Absent}] /\ given' \in [Keys -> SUBSET Eps]
           /\ dev'[k] # Absent /\ ep \in given'[k] /\ mgr # "closed"
           /\ ep # NoEndpoint => dev'[k] = ep
           /\ \A j \in Keys :
                 /\ given[j] \subseteq given'[j]
                 /\ dev[j] # Absent => dev'[j] # Absent
                 /\ j # k => dev'[j] = dev[j]
  BY WireGuardAssumption DEF IpcSet, Merge, TypeOK, Eps

-----------------------------------------------------------------------------
(* The first layer: types, heap, locals, and the device before the map.    *)

\* NewWireGuardManager: nothing in the map, no call under way.
LEMMA InitIInv == Init => IInv
<1> SUFFICES ASSUME Init PROVE IInv
  OBVIOUS
<1>1. NoArg \in Arg
  BY DEF NoArg, Arg, Eps
<1>2. TypeOK
  BY <1>1 DEF Init, TypeOK, NoArg
<1>3. HeapShape /\ CallShape /\ DeviceFirst
  BY DEF Init, HeapShape, CallShape, DeviceFirst, Busy, Adding, Updating, Applied
<1>4. MeetingsMixed /\ AloneTracks /\ TracksUntilIpc
  BY DEF Init, MeetingsMixed, AloneTracks, TracksUntilIpc, Busy, Applied
<1>5. QED
  BY <1>2, <1>3, <1>4 DEF IInv, GInv

\* A call of AddPeer begins, from an orchestrator or from Start.
LEMMA BeginAddGInv ==
    ASSUME GInv, NEW t \in Callers, NEW n \in Names, NEW k \in Keys, NEW ep \in Eps,
           NEW fb \in Eps, BeginAdd(t, n, k, ep, fb),
           UNCHANGED <<mgr, dev, given, heap, peers>>, todo' \subseteq Names
    PROVE  GInv'
<1> USE DEF GInv
<1> DEFINE a == [name |-> n, key |-> k, ep |-> ep, line |-> EndpointLine(ep, fb), ptr |-> Nil]
<1>1. a \in Arg /\ (ep # NoEndpoint => a.line = ep)
  BY DEF Arg, EndpointLine
<1>2. /\ pc[t] = "idle" /\ arg[t] = NoArg
      /\ pc' = [pc EXCEPT ![t] = "add_ipc"] /\ arg' = [arg EXCEPT ![t] = a]
  BY DEF BeginAdd, Busy, CallShape
<1>3. arg' \in [Callers -> Arg] /\ pc'[t] = "add_ipc" /\ arg'[t] = a /\ arg[t].ptr = Nil
      /\ \A u \in Callers \ {t} : pc'[u] = pc[u] /\ arg'[u] = arg[u]
  BY <1>1, <1>2 DEF TypeOK, NoArg
<1>4. mixed' \subseteq Names
  BY MixedWithFacts DEF BeginAdd, TypeOK
<1>5. TypeOK'
  BY <1>2, <1>3, <1>4 DEF TypeOK
<1>6. HeapShape'
  BY <1>3, WireGuardAssumption DEF HeapShape
<1>7. CallShape'
  BY <1>1, <1>3 DEF CallShape, Busy, Adding, Updating
<1>8. DeviceFirst'
  BY <1>3 DEF DeviceFirst, Applied, Configured
<1>9. QED
  BY <1>5, <1>6, <1>7, <1>8

\* A call of UpdatePeerEndpoint begins with the object it finds in the map.
LEMMA UpdateGInv ==
    ASSUME GInv, NEW t \in Callers, NEW n \in Names, NEW ep \in Endpoints,
           UpdatePeerEndpoint(t, n, ep)
    PROVE  GInv'
<1> USE DEF GInv
<1> DEFINE k == heap[peers[n]].key
           a == [name |-> n, key |-> k, ep |-> ep, line |-> ep, ptr |-> peers[n]]
<1>1. peers[n] \in Objs /\ heap[peers[n]] \in PeerState /\ k \in Keys
  BY DEF UpdatePeerEndpoint, TypeOK, PeerState
<1>2. a \in Arg /\ ep # NoEndpoint
  BY <1>1, WireGuardAssumption DEF Arg, Eps
<1>3. /\ pc[t] = "idle" /\ arg[t] = NoArg
      /\ pc' = [pc EXCEPT ![t] = "update_ipc"] /\ arg' = [arg EXCEPT ![t] = a]
      /\ UNCHANGED <<mgr, todo, dev, given, heap, peers>>
  BY DEF UpdatePeerEndpoint, Busy, CallShape
<1> HIDE DEF k
<1>4. arg' \in [Callers -> Arg] /\ pc'[t] = "update_ipc" /\ arg'[t] = a /\ arg[t].ptr = Nil
      /\ \A u \in Callers \ {t} : pc'[u] = pc[u] /\ arg'[u] = arg[u]
  BY <1>2, <1>3 DEF TypeOK, NoArg
<1>5. mixed' \subseteq Names
  BY <1>1, MixedWithFacts DEF UpdatePeerEndpoint, TypeOK, k
<1>6. TypeOK'
  BY <1>1, <1>3, <1>4, <1>5, WireGuardAssumption DEF TypeOK
<1>7. HeapShape'
  BY <1>3, <1>4, WireGuardAssumption DEF HeapShape
<1>8. CallShape'
  <2>1. \A m \in Names : peers[m] = peers[n] => m = n
    BY <1>1, WireGuardAssumption DEF HeapShape
  <2>2. QED
    BY <1>1, <1>2, <1>3, <1>4, <2>1 DEF CallShape, Busy, Adding, Updating, k
<1>9. DeviceFirst'
  BY <1>3, <1>4 DEF DeviceFirst, Applied, Configured
<1>10. QED
  BY <1>6, <1>7, <1>8, <1>9

\* IpcSet succeeds, in either call.
LEMMA IpcGInv ==
    ASSUME GInv, NEW t \in Callers, AddIpc(t) \/ UpdateIpc(t)
    PROVE  GInv'
<1> USE DEF GInv
<1>1. /\ IpcSet(arg[t].key, arg[t].line) /\ UNCHANGED <<mgr, todo, heap, peers, arg, mixed>>
      /\ \/ pc[t] = "add_ipc" /\ pc' = [pc EXCEPT ![t] = "add_map"]
         \/ pc[t] = "update_ipc" /\ pc' = [pc EXCEPT ![t] = "update_write"]
  BY DEF AddIpc, UpdateIpc
<1>2. arg[t].key \in Keys /\ arg[t].line \in Eps
  BY <1>1 DEF CallShape, Busy, TypeOK, Arg
<1>3. /\ dev' \in [Keys -> Eps \cup {Absent}] /\ given' \in [Keys -> SUBSET Eps]
      /\ dev'[arg[t].key] # Absent /\ arg[t].line \in given'[arg[t].key]
      /\ \A j \in Keys : given[j] \subseteq given'[j] /\ (dev[j] # Absent => dev'[j] # Absent)
  BY <1>1, <1>2, IpcSetFacts
<1>4. TypeOK'
  BY <1>1, <1>3 DEF TypeOK
<1>5. HeapShape'
  BY <1>1 DEF HeapShape
<1>6. CallShape'
  BY <1>1 DEF CallShape, Busy, Adding, Updating, TypeOK
<1>7. DeviceFirst'
  <2>1. ASSUME NEW o \in Objs, heap'[o] # Nil
        PROVE  /\ Configured(heap[o].key)'
               /\ heap'[o].ep # NoEndpoint => heap'[o].ep \in given'[heap'[o].key]
    <3>1. heap[o].key \in Keys /\ heap' = heap /\ mgr' = mgr
      BY <1>1, <2>1 DEF TypeOK, PeerState
    <3>2. QED
      BY <2>1, <3>1, <1>3 DEF DeviceFirst, Configured
  <2>2. ASSUME NEW u \in Callers, Applied(u)'
        PROVE  Configured(arg[u].key)' /\ arg'[u].line \in given'[arg'[u].key]
    <3>1. arg' = arg /\ mgr' = mgr /\ arg[u].key \in Keys
      BY <1>1, <2>2 DEF CallShape, Busy, Applied, TypeOK
    <3>2. CASE u = t
      BY <1>3, <3>1, <3>2 DEF Configured
    <3>3. CASE u # t
      BY <1>1, <1>3, <2>2, <3>1, <3>3 DEF DeviceFirst, Applied, Configured, TypeOK
    <3>4. QED
      BY <3>2, <3>3
  <2>3. QED
    BY <2>1, <2>2 DEF DeviceFirst
<1>8. QED
  BY <1>4, <1>5, <1>6, <1>7

\* A call that ends takes its locals with it and no others.
LEMMA ReturnFacts ==
    ASSUME TypeOK, NEW t \in Callers, Return(t)
    PROVE  /\ pc' \in [Callers -> {"idle", "add_ipc", "add_map", "update_ipc", "update_write"}]
           /\ arg' \in [Callers -> Arg]
           /\ pc'[t] = "idle" /\ arg'[t] = NoArg
           /\ \A u \in Callers \ {t} : pc'[u] = pc[u] /\ arg'[u] = arg[u]
<1>1. NoArg \in Arg
  BY DEF NoArg, Arg, Eps
<1>2. QED
  BY <1>1 DEF Return, TypeOK

\* The end of a call: the heap it leaves, whose objects keep their keys and have
\* endpoints the device was given, is collected.
LEMMA EndGInv ==
    ASSUME GInv, NEW t \in Callers, Return(t), UNCHANGED <<mgr, todo>>,
           dev' \in [Keys -> Eps \cup {Absent}], given' \in [Keys -> SUBSET Eps],
           \A j \in Keys : given[j] \subseteq given'[j] /\ (dev[j] # Absent => dev'[j] # Absent),
           peers' \in [Names -> Objs \cup {Nil}], mixed' \subseteq Names,
           NEW h \in [Objs -> PeerState \cup {Nil}], heap' = Collect(h, t, peers'),
           \A n \in Names : peers'[n] # Nil => h[peers'[n]] # Nil,
           \A m, n \in Names : peers'[m] # Nil /\ peers'[m] = peers'[n] => m = n,
           \A o \in Objs : heap[o] # Nil =>
               /\ h[o] # Nil /\ h[o].key = heap[o].key
               /\ \A n \in Names : peers'[n] = o => peers[n] = o,
           \A o \in Objs : h[o] # Nil =>
               /\ Configured(h[o].key)
               /\ h[o].ep # NoEndpoint => h[o].ep \in given[h[o].key]
    PROVE  GInv'
<1> USE DEF GInv
<1>1. /\ pc' \in [Callers -> {"idle", "add_ipc", "add_map", "update_ipc", "update_write"}]
      /\ arg' \in [Callers -> Arg]
      /\ pc'[t] = "idle" /\ arg'[t] = NoArg
      /\ \A u \in Callers \ {t} : pc'[u] = pc[u] /\ arg'[u] = arg[u]
  BY ReturnFacts
<1>2. /\ heap' \in [Objs -> PeerState \cup {Nil}]
      /\ \A o \in Objs :
            /\ Referenced(o, t, peers') => heap'[o] = h[o]
            /\ ~Referenced(o, t, peers') => heap'[o] = Nil
  BY CollectFacts
<1>3. \A n \in Names : peers'[n] # Nil => heap'[peers'[n]] = h[peers'[n]]
  BY <1>2 DEF Referenced
<1>4. ASSUME NEW u \in Callers \ {t}, arg[u].ptr # Nil
      PROVE  /\ arg[u].ptr \in Objs /\ heap'[arg[u].ptr] # Nil
             /\ heap'[arg[u].ptr].key = heap[arg[u].ptr].key
             /\ \A n \in Names : peers'[n] = arg[u].ptr => peers[n] = arg[u].ptr
  <2>1. arg[u].ptr \in Objs /\ heap[arg[u].ptr] # Nil
    BY <1>4 DEF TypeOK, Arg
  <2>2. heap'[arg[u].ptr] = h[arg[u].ptr]
    BY <1>2, <2>1 DEF Referenced
  <2>3. QED
    BY <2>1, <2>2
<1>5. TypeOK'
  <2>1. \A n \in Names : peers'[n] # Nil => heap'[peers'[n]] # Nil
    BY <1>3
  <2>2. \A u \in Callers : arg'[u].ptr # Nil => heap'[arg'[u].ptr] # Nil
    BY <1>1, <1>4 DEF NoArg
  <2>3. QED
    BY <1>1, <1>2, <2>1, <2>2 DEF TypeOK
<1>6. HeapShape'
  BY <1>1, <1>2 DEF HeapShape, Referenced
<1>7. CallShape'
  <2>1. ASSUME NEW u \in Callers \ {t}, Updating(u)
        PROVE  /\ arg[u].ptr \in Objs /\ heap'[arg[u].ptr].key = arg[u].key
               /\ \A n \in Names : peers'[n] = arg[u].ptr => n = arg[u].name
    BY <2>1, <1>4, WireGuardAssumption DEF CallShape
  <2>2. ASSUME NEW u \in Callers \ {t}
        PROVE  /\ Busy(u)' <=> Busy(u)
               /\ Adding(u)' <=> Adding(u)
               /\ Updating(u)' <=> Updating(u)
               /\ arg'[u] = arg[u]
    BY <1>1 DEF Busy, Adding, Updating
  <2>3. ~Busy(t)' /\ ~Adding(t)' /\ ~Updating(t)' /\ arg'[t] = NoArg
    BY <1>1 DEF Busy, Adding, Updating
  <2>4. QED
    BY <2>1, <2>2, <2>3 DEF CallShape
<1>8. DeviceFirst'
  <2>1. \A k \in Keys : Configured(k)
           => given'[k] # {} /\ (mgr' # "closed" => dev'[k] # Absent)
    BY DEF Configured
  <2>2. ASSUME NEW o \in Objs, heap'[o] # Nil
        PROVE  /\ Configured(heap[o].key)'
               /\ heap'[o].ep # NoEndpoint => heap'[o].ep \in given'[heap'[o].key]
    <3>1. heap'[o] = h[o] /\ h[o] # Nil /\ h[o].key \in Keys
      BY <1>2, <2>2 DEF PeerState
    <3>2. Configured(h[o].key) /\ (h[o].ep # NoEndpoint => h[o].ep \in given[h[o].key])
      BY <3>1
    <3>3. QED
      BY <2>1, <3>1, <3>2 DEF Configured
  <2>3. ASSUME NEW u \in Callers, Applied(u)'
        PROVE  Configured(arg[u].key)' /\ arg'[u].line \in given'[arg'[u].key]
    <3>1. u # t /\ Applied(u) /\ arg'[u] = arg[u] /\ arg[u].key \in Keys
      BY <1>1, <2>3 DEF Applied, CallShape, Busy
    <3>2. Configured(arg[u].key) /\ arg[u].line \in given[arg[u].key]
      BY <3>1 DEF DeviceFirst
    <3>3. QED
      BY <2>1, <3>1, <3>2 DEF Configured
  <2>4. QED
    BY <2>2, <2>3 DEF DeviceFirst
<1>9. QED
  BY <1>5, <1>6, <1>7, <1>8

\* IpcSet fails, whether or not it has changed the device.
LEMMA IpcFailsGInv ==
    ASSUME GInv, NEW t \in Callers, IpcFails(t)
    PROVE  GInv'
<1> USE DEF GInv
<1>1. arg[t].key \in Keys /\ arg[t].line \in Eps /\ arg[t].name \in Names
  BY DEF IpcFails, CallShape, Busy, TypeOK, Arg
<1>2. /\ dev' \in [Keys -> Eps \cup {Absent}] /\ given' \in [Keys -> SUBSET Eps]
      /\ \A j \in Keys : given[j] \subseteq given'[j] /\ (dev[j] # Absent => dev'[j] # Absent)
      /\ mixed' \subseteq Names
  <2>1. CASE UNCHANGED <<dev, given, mixed>>
    BY <2>1 DEF TypeOK
  <2>2. CASE /\ IpcSet(arg[t].key, arg[t].line)
             /\ mixed' = mixed \cup MixedWith(t, arg[t].name, arg[t].key)
    BY <1>1, <2>2, IpcSetFacts, MixedWithFacts DEF TypeOK
  <2>3. QED
    BY <2>1, <2>2 DEF IpcFails
<1>3. /\ heap \in [Objs -> PeerState \cup {Nil}] /\ heap' = Collect(heap, t, peers')
      /\ Return(t) /\ UNCHANGED <<mgr, todo, peers>>
      /\ peers' \in [Names -> Objs \cup {Nil}]
  BY DEF IpcFails, TypeOK
<1>4. /\ \A n \in Names : peers'[n] # Nil => heap[peers'[n]] # Nil
      /\ \A m, n \in Names : peers'[m] # Nil /\ peers'[m] = peers'[n] => m = n
      /\ \A o \in Objs : heap[o] # Nil =>
            /\ Configured(heap[o].key)
            /\ heap[o].ep # NoEndpoint => heap[o].ep \in given[heap[o].key]
  BY <1>3 DEF TypeOK, HeapShape, DeviceFirst
<1>5. QED
  BY <1>2, <1>3, <1>4, EndGInv

\* The object AddPeer puts into the map.
NewObject == CHOOSE x \in Objs : heap[x] = Nil

\* AddPeer writes the map, with a new object.
LEMMA AddMapGInv ==
    ASSUME GInv, NEW t \in Callers, AddMap(t)
    PROVE  GInv'
<1> USE DEF GInv
<1> DEFINE o == NewObject
           s == [key |-> arg[t].key, ep |-> arg[t].ep]
           h == [heap EXCEPT ![o] = s]
<1>1. o \in Objs /\ heap[o] = Nil
  BY FreeObject DEF NewObject
<1>2. /\ arg[t].key \in Keys /\ arg[t].name \in Names /\ arg[t].ep \in Eps
      /\ pc[t] = "add_map" /\ Adding(t) /\ Applied(t)
  BY DEF AddMap, CallShape, Busy, TypeOK, Arg, Adding, Applied
<1>3. s \in PeerState /\ s # Nil /\ s.key = arg[t].key /\ s.ep = arg[t].ep
  BY <1>2, WireGuardAssumption DEF PeerState
<1>4. /\ peers' = [peers EXCEPT ![arg[t].name] = o]
      /\ heap' = Collect(h, t, peers')
      /\ Return(t) /\ UNCHANGED <<mgr, todo, dev, given, mixed>>
  BY DEF AddMap, NewObject
<1> HIDE DEF o, s
<1>5. /\ h \in [Objs -> PeerState \cup {Nil}] /\ h[o] = s
      /\ \A x \in Objs \ {o} : h[x] = heap[x]
  BY <1>1, <1>3 DEF TypeOK
<1>6. /\ peers' \in [Names -> Objs \cup {Nil}] /\ peers'[arg[t].name] = o
      /\ \A n \in Names \ {arg[t].name} : peers'[n] = peers[n] /\ peers[n] # o
  BY <1>1, <1>2, <1>4, WireGuardAssumption DEF TypeOK
<1> HIDE DEF h
<1>7. /\ \A n \in Names : peers'[n] # Nil => h[peers'[n]] # Nil
      /\ \A m, n \in Names : peers'[m] # Nil /\ peers'[m] = peers'[n] => m = n
  <2>1. \A n \in Names : peers'[n] # Nil => h[peers'[n]] # Nil
    BY <1>2, <1>3, <1>5, <1>6 DEF TypeOK
  <2>2. \A m, n \in Names : peers'[m] # Nil /\ peers'[m] = peers'[n] => m = n
    BY <1>2, <1>6 DEF HeapShape
  <2>3. QED
    BY <2>1, <2>2
<1>8. \A x \in Objs : heap[x] # Nil =>
         /\ h[x] # Nil /\ h[x].key = heap[x].key
         /\ \A n \in Names : peers'[n] = x => peers[n] = x
  BY <1>1, <1>5, <1>6
<1>9. \A x \in Objs : h[x] # Nil =>
         /\ Configured(h[x].key)
         /\ h[x].ep # NoEndpoint => h[x].ep \in given[h[x].key]
  <2>1. Configured(s.key) /\ (s.ep # NoEndpoint => s.ep \in given[s.key])
    BY <1>2, <1>3 DEF DeviceFirst, CallShape
  <2>2. QED
    BY <1>5, <2>1 DEF DeviceFirst
<1>10. /\ dev' \in [Keys -> Eps \cup {Absent}] /\ given' \in [Keys -> SUBSET Eps]
       /\ \A j \in Keys : given[j] \subseteq given'[j] /\ (dev[j] # Absent => dev'[j] # Absent)
       /\ mixed' \subseteq Names
  BY <1>4 DEF TypeOK
<1>11. QED
  BY <1>4, <1>5, <1>6, <1>7, <1>8, <1>9, <1>10, EndGInv

\* UpdatePeerEndpoint writes through its pointer.
LEMMA UpdateWriteGInv ==
    ASSUME GInv, NEW t \in Callers, UpdateWrite(t)
    PROVE  GInv'
<1> USE DEF GInv
<1> DEFINE o == arg[t].ptr
           h == [heap EXCEPT ![o].ep = arg[t].ep]
<1>1. /\ o \in Objs /\ heap[o] \in PeerState /\ heap[o] # Nil /\ heap[o].key = arg[t].key
      /\ arg[t].ep \in Eps /\ arg[t].line = arg[t].ep
      /\ arg[t].line \in given[arg[t].key] /\ Configured(arg[t].key)
  <2>1. Updating(t) /\ Applied(t)
    BY DEF UpdateWrite, Updating, Applied
  <2>2. o \in Objs /\ heap[o].key = arg[t].key /\ arg[t].line = arg[t].ep
        /\ arg[t].line \in given[arg[t].key] /\ Configured(arg[t].key)
    BY <2>1 DEF CallShape, DeviceFirst
  <2>3. QED
    BY <2>2, WireGuardAssumption DEF TypeOK, Arg
<1>2. /\ heap' = Collect(h, t, peers')
      /\ Return(t) /\ UNCHANGED <<mgr, todo, dev, given, peers, mixed>>
  BY DEF UpdateWrite
<1>3. /\ h \in [Objs -> PeerState \cup {Nil}]
      /\ h[o].key = heap[o].key /\ h[o].ep = arg[t].ep /\ h[o] # Nil
      /\ \A x \in Objs \ {o} : h[x] = heap[x]
  <2>1. [heap[o] EXCEPT !.ep = arg[t].ep] \in PeerState
    BY <1>1 DEF PeerState
  <2>2. h = [heap EXCEPT ![o] = [heap[o] EXCEPT !.ep = arg[t].ep]]
    BY <1>1 DEF TypeOK
  <2>3. QED
    BY <1>1, <2>1, <2>2, WireGuardAssumption DEF TypeOK, PeerState
<1> HIDE DEF h, o
<1>4. /\ \A n \in Names : peers'[n] # Nil => h[peers'[n]] # Nil
      /\ \A m, n \in Names : peers'[m] # Nil /\ peers'[m] = peers'[n] => m = n
      /\ peers' \in [Names -> Objs \cup {Nil}]
  BY <1>2, <1>3 DEF TypeOK, HeapShape
<1>5. \A x \in Objs : h[x] # Nil =>
         /\ Configured(h[x].key)
         /\ h[x].ep # NoEndpoint => h[x].ep \in given[h[x].key]
  BY <1>1, <1>3 DEF DeviceFirst
<1>6. \A x \in Objs : heap[x] # Nil =>
         /\ h[x] # Nil /\ h[x].key = heap[x].key
         /\ \A n \in Names : peers'[n] = x => peers[n] = x
  BY <1>2, <1>3
<1>7. /\ dev' \in [Keys -> Eps \cup {Absent}] /\ given' \in [Keys -> SUBSET Eps]
      /\ \A j \in Keys : given[j] \subseteq given'[j] /\ (dev[j] # Absent => dev'[j] # Absent)
      /\ mixed' \subseteq Names
  BY <1>2 DEF TypeOK
<1>8. QED
  BY <1>2, <1>3, <1>4, <1>5, <1>6, <1>7, EndGInv

\* Start, its return and Stop leave heap and calls alone.
LEMMA LifeGInv ==
    ASSUME GInv, Start \/ StartReturns \/ Stop \/ UNCHANGED vars
    PROVE  GInv'
<1> USE DEF GInv
<1>1. /\ UNCHANGED <<given, heap, peers, pc, arg, mixed>>
      /\ dev' = dev \/ (dev' = [k \in Keys |-> Absent] /\ mgr' = "closed")
      /\ mgr = "closed" => mgr' = "closed"
      /\ todo' \subseteq Names /\ mgr' \in {"new", "starting", "up", "closed"}
  BY DEF Start, StartReturns, Stop, vars, TypeOK
<1>2. dev' \in [Keys -> Eps \cup {Absent}]
  BY <1>1 DEF TypeOK
<1>3. TypeOK' /\ HeapShape' /\ CallShape'
  BY <1>1, <1>2 DEF TypeOK, HeapShape, CallShape, Busy, Adding, Updating
<1>4. \A k \in Keys : Configured(k) => Configured(k)'
  BY <1>1 DEF Configured
<1>5. \A o \in Objs : heap[o] # Nil => heap[o].key \in Keys
  BY DEF TypeOK, PeerState
<1>6. \A t \in Callers : Applied(t) => arg[t].key \in Keys
  BY DEF CallShape, Busy, Applied
<1>7. DeviceFirst'
  BY <1>1, <1>4, <1>5, <1>6 DEF DeviceFirst, Applied
<1>8. QED
  BY <1>3, <1>7

\* Every step keeps the first layer.
LEMMA StepGInv == GInv /\ [Next]_vars => GInv'
<1> SUFFICES ASSUME GInv, [Next]_vars PROVE GInv'
  OBVIOUS
<1>1. ASSUME NEW n \in Names, StartPeer(n) PROVE GInv'
  BY <1>1, BeginAddGInv, WireGuardAssumption DEF StartPeer, GInv, TypeOK
<1>2. ASSUME NEW t \in Callers, NEW n \in Names, NEW k \in Keys, NEW ep \in AddEndpoints,
             NEW fb \in AddEndpoints, AddPeer(t, n, k, ep, fb)
      PROVE  GInv'
  BY <1>2, BeginAddGInv, WireGuardAssumption DEF AddPeer, GInv, TypeOK
<1>3. QED
  BY <1>1, <1>2, UpdateGInv, IpcGInv, IpcFailsGInv, AddMapGInv, UpdateWriteGInv, LifeGInv
  DEF Next

-----------------------------------------------------------------------------
(* The second layer: calls that meet nobody.                               *)

TInv == MeetingsMixed /\ AloneTracks /\ TracksUntilIpc

\* A call begins: whomever it meets is mixed from now on.
LEMMA BeginTInv ==
    ASSUME IInv, NEW t \in Callers, NEW n \in Names, NEW k \in Keys, NEW a,
           NEW l \in {"add_ipc", "update_ipc"},
           ~Busy(t), pc' = [pc EXCEPT ![t] = l], arg' = [arg EXCEPT ![t] = a],
           a.name = n, a.key = k, l = "update_ipc" => a.ptr = peers[n],
           mixed \subseteq mixed',
           Mixes(t, n, k) \/ a.ep = NoEndpoint => MixedWith(t, n, k) \subseteq mixed',
           UNCHANGED <<mgr, dev, heap, peers>>
    PROVE  TInv'
<1> USE DEF IInv, GInv
<1>1. /\ pc'[t] = l /\ arg'[t] = a
      /\ \A u \in Callers \ {t} : pc'[u] = pc[u] /\ arg'[u] = arg[u]
  BY DEF TypeOK
<1>2. /\ Busy(t)' /\ ~Applied(t)' /\ ~Applied(t) /\ (Updating(t)' => a.ptr = peers[n])
      /\ \A u \in Callers \ {t} :
            /\ Busy(u)' <=> Busy(u)
            /\ Applied(u)' <=> Applied(u)
            /\ Updating(u)' <=> Updating(u)
  BY <1>1 DEF Busy, Applied, Updating
<1>3. /\ n \in MixedWith(t, n, k)
      /\ \A m \in Names : peers[m] # Nil /\ heap[peers[m]].key = k => m \in MixedWith(t, n, k)
      /\ \A u \in Callers \ {t} : Busy(u) /\ (arg[u].name = n \/ arg[u].key = k)
            => arg[u].name \in MixedWith(t, n, k)
  BY MixedWithFacts
<1>4. MeetingsMixed'
  <2>1. /\ arg'[t].ep = NoEndpoint => arg'[t].name \in mixed'
        /\ \A u \in Callers \ {t} :
              Busy(u)' /\ (arg'[u].name = arg'[t].name \/ arg'[u].key = arg'[t].key)
                  => arg'[t].name \in mixed'
        /\ \A m \in Names \ {arg'[t].name} :
              peers'[m] # Nil /\ heap'[peers'[m]].key = arg'[t].key
                  => m \in mixed' /\ arg'[t].name \in mixed'
    BY <1>1, <1>2, <1>3 DEF Mixes
  <2>2. ASSUME NEW v \in Callers \ {t}, Busy(v)'
        PROVE  /\ arg'[v].ep = NoEndpoint => arg'[v].name \in mixed'
               /\ \A u \in Callers \ {v} :
                     Busy(u)' /\ (arg'[u].name = arg'[v].name \/ arg'[u].key = arg'[v].key)
                         => arg'[v].name \in mixed'
               /\ \A m \in Names \ {arg'[v].name} :
                     peers'[m] # Nil /\ heap'[peers'[m]].key = arg'[v].key
                         => m \in mixed' /\ arg'[v].name \in mixed'
    <3>1. arg[v].name = n \/ arg[v].key = k => arg[v].name \in mixed'
      BY <1>2, <1>3, <2>2 DEF Mixes
    <3>2. QED
      BY <1>1, <1>2, <2>2, <3>1 DEF MeetingsMixed
  <2>3. QED
    BY <2>1, <2>2 DEF MeetingsMixed
<1>5. AloneTracks'
  BY <1>1, <1>2 DEF AloneTracks
<1>6. TracksUntilIpc'
  BY <1>1, <1>2 DEF TracksUntilIpc
<1>7. QED
  BY <1>4, <1>5, <1>6 DEF TInv

\* IpcSet succeeds: who has its key is the call itself, or mixed.
LEMMA IpcTInv ==
    ASSUME IInv, NEW t \in Callers, AddIpc(t) \/ UpdateIpc(t)
    PROVE  TInv'
<1> USE DEF IInv, GInv
<1>1. /\ IpcSet(arg[t].key, arg[t].line) /\ UNCHANGED <<mgr, heap, peers, arg, mixed>>
      /\ \/ pc[t] = "add_ipc" /\ pc' = [pc EXCEPT ![t] = "add_map"]
         \/ pc[t] = "update_ipc" /\ pc' = [pc EXCEPT ![t] = "update_write"]
  BY DEF AddIpc, UpdateIpc
<1>2. Busy(t) /\ arg[t].key \in Keys /\ arg[t].line \in Eps /\ arg[t].name \in Names
  BY <1>1 DEF CallShape, Busy, TypeOK, Arg
<1>3. /\ arg[t].line # NoEndpoint => dev'[arg[t].key] = arg[t].line
      /\ \A j \in Keys : j # arg[t].key => dev'[j] = dev[j]
  BY <1>1, <1>2, IpcSetFacts
<1>4. /\ Busy(t)' /\ Applied(t)'
      /\ Updating(t)' <=> Updating(t)
      /\ \A u \in Callers \ {t} :
            /\ Busy(u)' <=> Busy(u)
            /\ Applied(u)' <=> Applied(u)
            /\ Updating(u)' <=> Updating(u)
  BY <1>1 DEF TypeOK, Busy, Applied, Updating
<1>5. MeetingsMixed'
  BY <1>1, <1>2, <1>4 DEF MeetingsMixed
<1>6. AloneTracks'
  <2>1. arg[t].name \notin mixed => dev'[arg[t].key] = arg[t].ep
    <3>1. arg[t].name \notin mixed => arg[t].ep # NoEndpoint
      BY <1>2 DEF MeetingsMixed
    <3>2. arg[t].ep # NoEndpoint => arg[t].line = arg[t].ep
      BY <1>1 DEF CallShape, Adding, Updating
    <3>3. QED
      BY <1>3, <3>1, <3>2
  <2>2. ASSUME NEW u \in Callers \ {t}, Busy(u), arg[u].name \notin mixed
        PROVE  dev'[arg[u].key] = dev[arg[u].key]
    <3>1. arg[u].key # arg[t].key /\ arg[u].key \in Keys
      BY <1>2, <2>2 DEF MeetingsMixed, CallShape
    <3>2. QED
      BY <1>3, <3>1
  <2>3. QED
    BY <1>1, <1>2, <1>4, <2>1, <2>2 DEF AloneTracks
<1>7. TracksUntilIpc'
  <2> SUFFICES ASSUME mgr # "closed", NEW m \in Names \ mixed, peers[m] # Nil,
                      \A u \in Callers : Applied(u)' => arg[u].name # m
               PROVE  dev'[heap[peers[m]].key] = heap[peers[m]].ep
    BY <1>1 DEF TracksUntilIpc
  <2>1. arg[t].name # m /\ \A u \in Callers : Applied(u) => arg[u].name # m
    BY <1>4
  <2>2. heap[peers[m]].key # arg[t].key
    BY <1>2, <2>1 DEF MeetingsMixed
  <2>3. heap[peers[m]].key \in Keys
    BY DEF TypeOK, PeerState
  <2>4. dev[heap[peers[m]].key] = heap[peers[m]].ep
    BY <2>1 DEF TracksUntilIpc
  <2>5. QED
    BY <1>3, <2>2, <2>3, <2>4
<1>8. QED
  BY <1>5, <1>6, <1>7 DEF TInv

\* The states of the other calls after one has ended.
LEMMA OthersGoOn ==
    ASSUME TypeOK, NEW t \in Callers, Return(t)
    PROVE  /\ ~Busy(t)' /\ ~Applied(t)' /\ ~Updating(t)'
           /\ \A u \in Callers \ {t} :
                 /\ arg'[u] = arg[u]
                 /\ Busy(u)' <=> Busy(u)
                 /\ Applied(u)' <=> Applied(u)
                 /\ Updating(u)' <=> Updating(u)
  BY ReturnFacts DEF Busy, Applied, Updating

\* IpcSet fails: what it may have changed in the device is mixed.
LEMMA IpcFailsTInv ==
    ASSUME IInv, NEW t \in Callers, IpcFails(t)
    PROVE  TInv'
<1> USE DEF IInv, GInv
<1> DEFINE k == arg[t].key
<1>1. Busy(t) /\ ~Applied(t) /\ k \in Keys /\ arg[t].line \in Eps /\ arg[t].name \in Names
  BY DEF IpcFails, CallShape, Busy, Applied, TypeOK, Arg
<1>2. Return(t) /\ heap' = Collect(heap, t, peers) /\ UNCHANGED <<mgr, todo, peers>>
  BY DEF IpcFails
<1>3. \A m \in Names : peers[m] # Nil =>
         heap'[peers[m]] = heap[peers[m]] /\ heap[peers[m]].key \in Keys
  BY <1>2, CollectFacts DEF Referenced, TypeOK, PeerState
<1>4. /\ ~Busy(t)' /\ ~Applied(t)' /\ ~Updating(t)'
      /\ \A u \in Callers \ {t} :
            /\ arg'[u] = arg[u]
            /\ Busy(u)' <=> Busy(u)
            /\ Applied(u)' <=> Applied(u)
            /\ Updating(u)' <=> Updating(u)
  BY <1>2, OthersGoOn
<1>5. /\ mixed \subseteq mixed'
      /\ \A j \in Keys : dev'[j] = dev[j] \/ (j = k /\ MixedWith(t, arg[t].name, k) \subseteq mixed')
  <2>1. CASE UNCHANGED <<dev, given, mixed>>
    BY <2>1
  <2>2. CASE IpcSet(k, arg[t].line) /\ mixed' = mixed \cup MixedWith(t, arg[t].name, k)
    BY <1>1, <2>2, IpcSetFacts
  <2>3. QED
    BY <2>1, <2>2 DEF IpcFails
<1>6. /\ \A m \in Names : peers[m] # Nil /\ heap[peers[m]].key = k
            => m \in MixedWith(t, arg[t].name, k)
      /\ \A u \in Callers \ {t} : Busy(u) /\ arg[u].key = k
            => arg[u].name \in MixedWith(t, arg[t].name, k)
  BY <1>1, MixedWithFacts
<1> HIDE DEF k
<1>7. MeetingsMixed'
  BY <1>2, <1>3, <1>4, <1>5 DEF MeetingsMixed
<1>8. AloneTracks'
  <2>1. ASSUME NEW u \in Callers \ {t}, Busy(u), arg[u].name \notin mixed'
        PROVE  dev'[arg[u].key] = dev[arg[u].key]
    BY <1>5, <1>6, <2>1 DEF CallShape
  <2>2. QED
    BY <1>2, <1>4, <1>5, <2>1 DEF AloneTracks
<1>9. TracksUntilIpc'
  <2> SUFFICES ASSUME mgr # "closed", NEW m \in Names \ mixed', peers[m] # Nil,
                      \A u \in Callers : Applied(u)' => arg'[u].name # m
               PROVE  dev'[heap'[peers[m]].key] = heap'[peers[m]].ep
    BY <1>2 DEF TracksUntilIpc
  <2>1. \A u \in Callers : Applied(u) => arg[u].name # m
    BY <1>1, <1>4
  <2>2. dev[heap[peers[m]].key] = heap[peers[m]].ep
    BY <1>5, <2>1 DEF TracksUntilIpc
  <2>3. dev'[heap[peers[m]].key] = dev[heap[peers[m]].key]
    BY <1>3, <1>5, <1>6
  <2>4. QED
    BY <1>3, <2>2, <2>3
<1>10. QED
  BY <1>7, <1>8, <1>9 DEF TInv

\* AddPeer writes the map: what it writes is what the device has.
LEMMA AddMapTInv ==
    ASSUME IInv, NEW t \in Callers, AddMap(t)
    PROVE  TInv'
<1> USE DEF IInv, GInv
<1> DEFINE o == NewObject
           n == arg[t].name
           s == [key |-> arg[t].key, ep |-> arg[t].ep]
           h == [heap EXCEPT ![o] = s]
<1>1. o \in Objs /\ heap[o] = Nil
  BY FreeObject DEF NewObject
<1>2. Busy(t) /\ Applied(t) /\ n \in Names /\ s \in PeerState
  BY DEF AddMap, CallShape, Busy, Applied, TypeOK, Arg, PeerState
<1>3. /\ peers' = [peers EXCEPT ![n] = o] /\ heap' = Collect(h, t, peers')
      /\ Return(t) /\ UNCHANGED <<mgr, todo, dev, given, mixed>>
  BY DEF AddMap, NewObject
<1>4. /\ h \in [Objs -> PeerState \cup {Nil}] /\ h[o] = s
      /\ \A x \in Objs \ {o} : h[x] = heap[x]
  BY <1>1, <1>2 DEF TypeOK
<1>5. /\ peers'[n] = o /\ heap'[o] = s
      /\ \A m \in Names \ {n} :
            /\ peers'[m] = peers[m]
            /\ peers[m] # Nil => heap'[peers[m]] = heap[peers[m]]
  <2> HIDE DEF h, o, s
  <2>1. peers'[n] = o /\ \A m \in Names \ {n} : peers'[m] = peers[m]
    BY <1>2, <1>3 DEF TypeOK
  <2>2. \A m \in Names : peers'[m] \in Objs => heap'[peers'[m]] = h[peers'[m]]
    <3>1. \A x \in Objs : Referenced(x, t, peers') => heap'[x] = h[x]
      BY <1>3, <1>4, CollectFacts
    <3>2. QED
      BY <3>1 DEF Referenced
  <2>3. \A m \in Names : peers[m] # Nil => peers[m] \in Objs \ {o}
    BY <1>1 DEF TypeOK
  <2>4. QED
    BY <1>1, <1>2, <1>4, <2>1, <2>2, <2>3
<1>6. /\ ~Busy(t)' /\ ~Applied(t)' /\ ~Updating(t)'
      /\ \A u \in Callers \ {t} :
            /\ arg'[u] = arg[u]
            /\ Busy(u)' <=> Busy(u)
            /\ Applied(u)' <=> Applied(u)
            /\ Updating(u)' <=> Updating(u)
  BY <1>3, OthersGoOn
<1>7. s.key = arg[t].key /\ s.ep = arg[t].ep
  OBVIOUS
<1>8. ASSUME NEW u \in Callers \ {t}, Busy(u)
      PROVE  /\ arg[u].name = n \/ arg[u].key = arg[t].key => arg[u].name \in mixed
             /\ arg[u].key = arg[t].key => n \in mixed
  BY <1>2, <1>8 DEF MeetingsMixed
<1> HIDE DEF o, n, s, h
<1>9. MeetingsMixed'
  <2> SUFFICES ASSUME NEW v \in Callers \ {t}, Busy(v)
               PROVE  /\ arg[v].ep = NoEndpoint => arg[v].name \in mixed
                      /\ \A u \in Callers \ {v, t} :
                            Busy(u) /\ (arg[u].name = arg[v].name \/ arg[u].key = arg[v].key)
                                => arg[v].name \in mixed
                      /\ \A m \in Names \ {arg[v].name} :
                            peers'[m] # Nil /\ heap'[peers'[m]].key = arg[v].key
                                => m \in mixed /\ arg[v].name \in mixed
    BY <1>3, <1>6 DEF MeetingsMixed
  <2>1. ASSUME NEW m \in Names \ {arg[v].name}, peers'[m] # Nil,
               heap'[peers'[m]].key = arg[v].key
        PROVE  m \in mixed /\ arg[v].name \in mixed
    <3>1. CASE m = n
      BY <1>5, <1>7, <1>8, <2>1, <3>1
    <3>2. CASE m # n
      BY <1>5, <2>1, <3>2 DEF MeetingsMixed
    <3>3. QED
      BY <3>1, <3>2
  <2>2. QED
    BY <2>1 DEF MeetingsMixed
<1>10. AloneTracks'
  <2>1. ASSUME NEW u \in Callers \ {t}, Busy(u), arg[u].name \notin mixed
        PROVE  peers'[arg[u].name] = peers[arg[u].name]
    BY <1>5, <1>8, <2>1 DEF CallShape
  <2>2. QED
    BY <1>3, <1>6, <2>1 DEF AloneTracks
<1>11. TracksUntilIpc'
  <2> SUFFICES ASSUME mgr # "closed", NEW m \in Names \ mixed, peers'[m] # Nil,
                      \A u \in Callers : Applied(u)' => arg'[u].name # m
               PROVE  dev[heap'[peers'[m]].key] = heap'[peers'[m]].ep
    BY <1>3 DEF TracksUntilIpc
  <2>1. CASE m = n
    BY <1>2, <1>5, <1>7, <2>1 DEF AloneTracks, n
  <2>2. CASE m # n
    <3>1. \A u \in Callers : Applied(u) => arg[u].name # m
      BY <1>6, <2>2 DEF n
    <3>2. QED
      BY <1>5, <2>2, <3>1 DEF TracksUntilIpc
  <2>3. QED
    BY <2>1, <2>2
<1>12. QED
  BY <1>9, <1>10, <1>11 DEF TInv

\* UpdatePeerEndpoint writes through its pointer: to the object in the map, or to
\* one that belongs to a mixed name.
LEMMA UpdateWriteTInv ==
    ASSUME IInv, NEW t \in Callers, UpdateWrite(t)
    PROVE  TInv'
<1> USE DEF IInv, GInv
<1> DEFINE o == arg[t].ptr
           n == arg[t].name
           h == [heap EXCEPT ![o].ep = arg[t].ep]
<1>1. /\ Busy(t) /\ Applied(t) /\ Updating(t)
      /\ n \in Names /\ o \in Objs /\ heap[o].key = arg[t].key
      /\ \A m \in Names : peers[m] = o => m = n
  <2>1. Busy(t) /\ Applied(t) /\ Updating(t)
    BY DEF UpdateWrite, Busy, Applied, Updating
  <2>2. QED
    BY <2>1 DEF CallShape
<1>2. heap[o] \in PeerState /\ arg[t].ep \in Eps
  BY <1>1, WireGuardAssumption DEF TypeOK, Arg
<1>3. heap' = Collect(h, t, peers) /\ Return(t) /\ UNCHANGED <<mgr, dev, peers, mixed>>
  BY DEF UpdateWrite
<1>4. /\ h \in [Objs -> PeerState \cup {Nil}]
      /\ h[o].key = heap[o].key /\ h[o].ep = arg[t].ep
      /\ \A x \in Objs \ {o} : h[x] = heap[x]
  <2>1. [heap[o] EXCEPT !.ep = arg[t].ep] \in PeerState
    BY <1>2 DEF PeerState
  <2>2. h = [heap EXCEPT ![o] = [heap[o] EXCEPT !.ep = arg[t].ep]]
    BY <1>1 DEF TypeOK
  <2>3. QED
    BY <1>1, <1>2, <2>1, <2>2 DEF TypeOK, PeerState
<1>5. \A m \in Names : peers[m] # Nil =>
         /\ heap'[peers[m]].key = heap[peers[m]].key
         /\ heap'[peers[m]].ep = IF peers[m] = o THEN arg[t].ep ELSE heap[peers[m]].ep
  <2> HIDE DEF h, o
  <2>1. \A m \in Names : peers[m] # Nil => peers[m] \in Objs /\ heap'[peers[m]] = h[peers[m]]
    BY <1>3, <1>4, CollectFacts DEF Referenced, TypeOK
  <2>2. QED
    BY <1>4, <2>1
<1>6. /\ ~Busy(t)' /\ ~Applied(t)' /\ ~Updating(t)'
      /\ \A u \in Callers \ {t} :
            /\ arg'[u] = arg[u]
            /\ Busy(u)' <=> Busy(u)
            /\ Applied(u)' <=> Applied(u)
            /\ Updating(u)' <=> Updating(u)
  BY <1>3, OthersGoOn
<1> HIDE DEF h
<1>7. MeetingsMixed'
  BY <1>3, <1>5, <1>6 DEF MeetingsMixed
<1>8. AloneTracks'
  BY <1>3, <1>6 DEF AloneTracks
<1>9. TracksUntilIpc'
  <2> SUFFICES ASSUME mgr # "closed", NEW m \in Names \ mixed, peers[m] # Nil,
                      \A u \in Callers : Applied(u)' => arg'[u].name # m
               PROVE  dev[heap'[peers[m]].key] = heap'[peers[m]].ep
    BY <1>3 DEF TracksUntilIpc
  <2>1. CASE m = n
    BY <1>1, <1>5, <2>1 DEF AloneTracks
  <2>2. CASE m # n
    <3>1. \A u \in Callers : Applied(u) => arg[u].name # m
      BY <1>6, <2>2
    <3>2. QED
      BY <1>1, <1>5, <2>2, <3>1 DEF TracksUntilIpc
  <2>3. QED
    BY <2>1, <2>2
<1>10. QED
  BY <1>7, <1>8, <1>9 DEF TInv

\* Every step keeps the second layer.
LEMMA StepTInv == IInv /\ [Next]_vars => TInv'
<1> SUFFICES ASSUME IInv, [Next]_vars PROVE TInv'
  OBVIOUS
<1> USE DEF IInv, GInv
<1>1. ASSUME NEW t \in Callers, NEW n \in Names, NEW k \in Keys, NEW ep \in Eps,
             NEW fb \in Eps, BeginAdd(t, n, k, ep, fb), UNCHANGED <<mgr, dev, heap, peers>>
      PROVE  TInv'
  <2> DEFINE a == [name |-> n, key |-> k, ep |-> ep, line |-> EndpointLine(ep, fb), ptr |-> Nil]
  <2>1. /\ ~Busy(t) /\ pc' = [pc EXCEPT ![t] = "add_ipc"] /\ arg' = [arg EXCEPT ![t] = a]
        /\ mixed \subseteq mixed'
        /\ Mixes(t, n, k) \/ ep = NoEndpoint => MixedWith(t, n, k) \subseteq mixed'
    BY <1>1 DEF BeginAdd
  <2>2. a.name = n /\ a.key = k /\ a.ep = ep
    OBVIOUS
  <2> HIDE DEF a
  <2>3. QED
    BY <1>1, <2>1, <2>2, BeginTInv
<1>2. ASSUME NEW n \in Names, StartPeer(n) PROVE TInv'
  BY <1>1, <1>2, WireGuardAssumption DEF StartPeer
<1>3. ASSUME NEW t \in Callers, NEW n \in Names, NEW k \in Keys, NEW ep \in AddEndpoints,
             NEW fb \in AddEndpoints, AddPeer(t, n, k, ep, fb)
      PROVE  TInv'
  BY <1>1, <1>3, WireGuardAssumption DEF AddPeer
<1>4. ASSUME NEW t \in Callers, NEW n \in Names, NEW ep \in Endpoints,
             UpdatePeerEndpoint(t, n, ep)
      PROVE  TInv'
  <2> DEFINE k == heap[peers[n]].key
             a == [name |-> n, key |-> k, ep |-> ep, line |-> ep, ptr |-> peers[n]]
  <2>1. k \in Keys /\ ep # NoEndpoint
    BY <1>4, WireGuardAssumption DEF UpdatePeerEndpoint, TypeOK, PeerState
  <2>2. /\ ~Busy(t) /\ pc' = [pc EXCEPT ![t] = "update_ipc"] /\ arg' = [arg EXCEPT ![t] = a]
        /\ mixed \subseteq mixed' /\ UNCHANGED <<mgr, dev, heap, peers>>
        /\ Mixes(t, n, k) => MixedWith(t, n, k) \subseteq mixed'
    BY <1>4 DEF UpdatePeerEndpoint
  <2>3. a.name = n /\ a.key = k /\ a.ep = ep /\ a.ptr = peers[n]
    OBVIOUS
  <2> HIDE DEF a, k
  <2>4. QED
    BY <2>1, <2>2, <2>3, BeginTInv
<1>5. CASE Start \/ StartReturns \/ Stop \/ UNCHANGED vars
  <2>1. /\ UNCHANGED <<heap, peers, pc, arg, mixed>>
        /\ mgr' = "closed" \/ (dev' = dev /\ mgr # "closed")
    BY <1>5 DEF Start, StartReturns, Stop, vars, TypeOK
  <2>2. QED
    BY <2>1 DEF TInv, MeetingsMixed, AloneTracks, TracksUntilIpc, Busy, Applied, Updating
<1>6. QED
  BY <1>2, <1>3, <1>4, <1>5, IpcTInv, IpcFailsTInv, AddMapTInv, UpdateWriteTInv DEF Next

-----------------------------------------------------------------------------

\* The two layers hold in every state.
LEMMA Invariance == Spec => []IInv
<1>1. IInv /\ [Next]_vars => IInv'
  BY StepGInv, StepTInv DEF IInv, TInv
<1>2. QED
  BY InitIInv, <1>1, PTL DEF Spec

\* The manager's map, its objects and the locals of AddPeer and
\* UpdatePeerEndpoint keep their types; no pointer dangles.
THEOREM TypeCorrect == Spec => []TypeOK
<1>1. IInv => TypeOK
  BY DEF IInv, GInv
<1>2. QED
  BY Invariance, <1>1, PTL

\* A peer gets into m.peers only after IpcSet has accepted it.
THEOREM MapFollowsDevice == Spec => []MappedIsConfigured
<1>1. IInv => MappedIsConfigured
  BY DEF IInv, GInv, TypeOK, DeviceFirst, Configured, MappedIsConfigured
<1>2. QED
  BY Invariance, <1>1, PTL

\* GetPeerStates shows only endpoints the device was given for the peer's key,
\* although UpdatePeerEndpoint writes through a pointer it took before.
THEOREM EndpointsGiven == Spec => []EndpointWasGiven
<1>1. IInv => EndpointWasGiven
  BY DEF IInv, GInv, TypeOK, DeviceFirst, EndpointWasGiven
<1>2. QED
  BY Invariance, <1>1, PTL

\* Overlap, a shared key, a call that failed half way or one with no endpoint are
\* the only ways in which map and device can come apart.
THEOREM OnlyMixedDiverge == Spec => []SequentialTracks
<1>1. IInv => SequentialTracks
  BY DEF IInv, TracksUntilIpc, SequentialTracks
<1>2. QED
  BY Invariance, <1>1, PTL
=============================================================================
