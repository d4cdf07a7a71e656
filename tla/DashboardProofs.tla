-------------------------- MODULE DashboardProofs --------------------------
(***************************************************************************)
(* Proofs about Dashboard, for any number of browsers, of goroutines that  *)
(* call UpdateMeshState and of calls, and any size of the socket buffers.  *)
(***************************************************************************)
EXTENDS Dashboard, FiniteSetTheorems, SequenceTheorems, TLAPS

(***************************************************************************)
(* The inductive invariant.                                                *)
(***************************************************************************)

\* What is on the wire of a connection.
WireShape ==
    /\ inflight \in [Browsers -> Seq(0..MaxUpdates)]
    /\ got \in [Browsers -> SUBSET (0..MaxUpdates)]

\* Whoever walks over d.clients holds clientsMu.
WalkLocked == \A u \in Updaters : upc[u] \in {"range", "write"} => lock = u

\* The walk visits only clients that are in the table, and none of them twice.
WalkInTable ==
    \A u \in Updaters :
        /\ upc[u] \in {"range", "write"} => todo[u] \subseteq clients
        /\ upc[u] = "write" => target[u] \in clients \ todo[u]

\* The table holds connections whose handler has not unregistered them ...
TableServed ==
    \A c \in clients : pc[c] \in {"load", "first", "write", "read", "unregister"}

\* ... and all of those that are open.
OpenInTable ==
    \A c \in Browsers : open[c] /\ pc[c] \in {"load", "first", "write", "read"} => c \in clients

\* A handler's first write is cut while it goes on.
CutLate ==
    \A c \in Browsers \cap cut : pc[c] \in {"write", "read", "unregister", "close", "done"}

\* Nothing is newer than d.mesh.
Numbered ==
    /\ mesh = calls
    /\ \A u \in Updaters : state[u] <= mesh
    /\ \A c \in Browsers : loaded[c] <= mesh /\ last[c] <= mesh

\* While no two calls have overlapped, the one under way has set d.mesh.
OneAtATime ==
    ~raced => \A u \in Updaters : upc[u] # "idle" =>
        /\ state[u] = mesh
        /\ \A v \in Updaters : upc[v] # "idle" => v = u

\* The broadcast of the latest state has still to write to c.
Pending(u, c) ==
    /\ state[u] = mesh
    /\ \/ upc[u] = "lock"
       \/ upc[u] \in {"range", "write"} /\ c \in todo[u]
       \/ upc[u] = "write" /\ target[u] = c

Connected(c) == open[c] /\ peer[c]

\* The latest state was written to a browser, or its handler holds it for the
\* first message, or a broadcast will bring it, or one of overlapping broadcasts
\* has cut the handler's write of it.
SentOrPending ==
    mesh # 0 => \A c \in Browsers :
        Connected(c) /\ pc[c] \in {"first", "write", "read"} =>
            \/ mesh \in got[c]
            \/ loaded[c] = mesh /\ (IF c \in cut THEN raced ELSE pc[c] # "read")
            \/ \E u \in Updaters : Pending(u, c)

\* The handler of c will not write to it any more.
Told(c) == Connected(c) /\ (pc[c] = "read" \/ (pc[c] = "write" /\ c \in cut))

\* The same for what was written last.
LastOrPending ==
    ~raced => \A c \in Browsers : Told(c) =>
        last[c] \in {mesh, loaded[c]} \/ \E u \in Updaters : Pending(u, c)

DInv ==
    /\ TypeOK /\ WireShape /\ WalkLocked /\ WalkInTable /\ TableServed /\ OpenInTable
    /\ CutLate /\ Numbered /\ OneAtATime /\ SentOrPending /\ LastOrPending

-----------------------------------------------------------------------------
(* What a write, and a closed socket, does to the wire.                    *)

\* A write stays within the buffer, which was not full.
LEMMA WriteWire ==
  ASSUME TypeOK, WireShape, NEW c \in Browsers, NEW s \in 0..MaxUpdates, Write(c, s)
  PROVE  /\ WireShape' /\ last' \in [Browsers -> 0..MaxUpdates]
         /\ \A d \in Browsers : Len(inflight'[d]) <= Cap /\ got'[d] \subseteq 0..MaxUpdates
<1>. USE DashboardAssumption
<1>1. CASE ~peer[c]
  BY <1>1 DEF Write, TypeOK, WireShape, wireVars
<1>2. CASE peer[c]
  <2>1. inflight[c] \in Seq(0..MaxUpdates) /\ Len(inflight[c]) <= Cap /\ Len(inflight[c]) # Cap
    BY <1>2 DEF Write, Full, TypeOK, WireShape
  <2>2. /\ Append(inflight[c], s) \in Seq(0..MaxUpdates)
        /\ Len(Append(inflight[c], s)) = Len(inflight[c]) + 1 /\ Len(inflight[c]) \in Nat
    BY <2>1
  <2>3. /\ inflight' = [inflight EXCEPT ![c] = Append(inflight[c], s)]
        /\ got' = [got EXCEPT ![c] = got[c] \cup {s}] /\ last' = [last EXCEPT ![c] = s]
    BY <1>2 DEF Write
  <2>4. inflight' \in [Browsers -> Seq(0..MaxUpdates)]
    BY <2>2, <2>3 DEF WireShape
  <2>5. got' \in [Browsers -> SUBSET (0..MaxUpdates)] /\ last' \in [Browsers -> 0..MaxUpdates]
    BY <2>3 DEF WireShape, TypeOK
  <2>6. \A d \in Browsers : Len(inflight'[d]) <= Cap
    BY <2>1, <2>2, <2>3 DEF WireShape, TypeOK
  <2>. QED  BY <2>4, <2>5, <2>6 DEF WireShape
<1>. QED  BY <1>1, <1>2

LEMMA ClearWire ==
  ASSUME TypeOK, WireShape, NEW c \in Browsers, inflight' = [inflight EXCEPT ![c] = <<>>]
  PROVE  /\ inflight' \in [Browsers -> Seq(0..MaxUpdates)]
         /\ \A d \in Browsers : Len(inflight'[d]) <= Cap
<1>1. <<>> \in Seq(0..MaxUpdates) /\ Len(<<>>) = 0 /\ 0 <= Cap
  BY DashboardAssumption
<1>. QED  BY <1>1 DEF TypeOK, WireShape

-----------------------------------------------------------------------------
(* The initial state, and the steps.                                       *)

LEMMA InitDInv == Init => DInv
<1>. SUFFICES ASSUME Init PROVE DInv
  OBVIOUS
<1>. USE DashboardAssumption DEF Init
<1>1. WireShape
  BY DEF WireShape
<1>2. TypeOK
  <2>1. /\ mesh \in 0..MaxUpdates /\ calls \in 0..MaxUpdates
        /\ loaded \in [Browsers -> 0..MaxUpdates] /\ last \in [Browsers -> 0..MaxUpdates]
        /\ state \in [Updaters -> 0..MaxUpdates]
        /\ \A c \in Browsers : Len(inflight[c]) <= Cap /\ got[c] \subseteq 0..MaxUpdates
    OBVIOUS
  <2>2. /\ server \in {"none", "serving", "closed"} /\ clients \subseteq Browsers
        /\ cut \subseteq Browsers \cup Updaters /\ lock \in Updaters \cup {Nobody}
        /\ pc = [c \in Browsers |-> "none"]
        /\ upc = [u \in Updaters |-> "idle"]
        /\ todo \in [Updaters -> SUBSET Browsers]
        /\ target \in [Updaters -> Browsers \cup {Nobody}]
    OBVIOUS
  <2>3. /\ alive \in BOOLEAN /\ raced \in BOOLEAN
        /\ open \in [Browsers -> BOOLEAN] /\ peer \in [Browsers -> BOOLEAN]
    OBVIOUS
  <2>. QED  BY <2>1, <2>2, <2>3 DEF TypeOK
<1>3. WalkLocked /\ WalkInTable /\ TableServed /\ OpenInTable /\ CutLate
  BY DEF WalkLocked, WalkInTable, TableServed, OpenInTable, CutLate
<1>4. Numbered
  BY DEF Numbered
<1>5. OneAtATime /\ SentOrPending /\ LastOrPending
  BY DEF OneAtATime, SentOrPending, LastOrPending, Told, Connected
<1>. QED  BY <1>1, <1>2, <1>3, <1>4, <1>5 DEF DInv

\* Only the HTTP server changes.
LEMMA ServerStep ==
  ASSUME DInv, Start \/ Shutdown
  PROVE  DInv'
<1>. USE DashboardAssumption DEF DInv
<1>1. TypeOK'
  BY DEF Start, Shutdown, TypeOK, WireShape, handlerVars, updateVars, wireVars, connVars
<1>2. (WireShape /\ WalkLocked /\ WalkInTable /\ TableServed /\ OpenInTable /\ CutLate /\ Numbered
       /\ OneAtATime /\ SentOrPending /\ LastOrPending)'
  <2>. UNCHANGED <<mesh, cut, clients, handlerVars, updateVars, wireVars, connVars>>
    BY DEF Start, Shutdown
  <2>. QED
    BY DEF WireShape, WalkLocked, WalkInTable, TableServed, OpenInTable, Numbered, OneAtATime,
           SentOrPending, Connected, Pending, LastOrPending, Told, CutLate, handlerVars, updateVars,
           wireVars, connVars
<1>. QED  BY <1>1, <1>2 DEF DInv

\* A new connection is not in the table yet.
LEMMA UpgradeStep ==
  ASSUME DInv, NEW c \in Browsers, Upgrade(c)
  PROVE  DInv'
<1>. USE DashboardAssumption DEF DInv
<1>1. TypeOK'
  BY DEF Upgrade, At, TypeOK, WireShape, handlerVars, updateVars, wireVars, connVars
<1>2. (TableServed /\ CutLate)'
  BY DEF CutLate, Upgrade, At, TypeOK, TableServed, handlerVars, updateVars, wireVars, connVars
<1>3. OpenInTable'
  BY DEF Upgrade, At, TypeOK, OpenInTable, handlerVars, updateVars, wireVars, connVars
<1>4. SentOrPending'
  BY DEF Upgrade, At, TypeOK, WireShape, SentOrPending, Connected, Pending, handlerVars,
         updateVars, wireVars, connVars
<1>5. LastOrPending'
  BY DEF Upgrade, At, TypeOK, LastOrPending, Told, Connected, Pending, handlerVars, updateVars,
         wireVars, connVars
<1>6. (WireShape /\ WalkLocked /\ WalkInTable /\ Numbered /\ OneAtATime)'
  BY DEF Upgrade, At, WireShape, WalkLocked, WalkInTable, Numbered, OneAtATime, handlerVars,
         updateVars, wireVars, connVars
<1>. QED  BY <1>1, <1>2, <1>3, <1>4, <1>5, <1>6 DEF DInv

\* The table changes while nobody walks over it.
LEMMA RegisterStep ==
  ASSUME DInv, NEW c \in Browsers, Register(c)
  PROVE  DInv'
<1>. USE DashboardAssumption DEF DInv
<1>1. TypeOK'
  BY DEF Register, At, TypeOK, WireShape, handlerVars, updateVars, wireVars, connVars
<1>2. WalkInTable'
  BY DEF Register, At, TypeOK, WalkInTable, handlerVars, updateVars, wireVars, connVars
<1>3. (TableServed /\ CutLate)'
  BY DEF CutLate, Register, At, TypeOK, TableServed, handlerVars, updateVars, wireVars, connVars
<1>4. OpenInTable'
  BY DEF Register, At, TypeOK, OpenInTable, handlerVars, updateVars, wireVars, connVars
<1>5. SentOrPending'
  BY DEF Register, At, TypeOK, WireShape, SentOrPending, Connected, Pending, handlerVars,
         updateVars, wireVars, connVars
<1>6. LastOrPending'
  BY DEF Register, At, TypeOK, LastOrPending, Told, Connected, Pending, handlerVars, updateVars,
         wireVars, connVars
<1>7. (WireShape /\ WalkLocked /\ Numbered /\ OneAtATime)'
  BY DEF Register, At, WireShape, WalkLocked, Numbered, OneAtATime, handlerVars, updateVars,
         wireVars, connVars
<1>. QED  BY <1>1, <1>2, <1>3, <1>4, <1>5, <1>6, <1>7 DEF DInv

\* The handler reads the latest state.
LEMMA LoadStep ==
  ASSUME DInv, NEW c \in Browsers, Load(c)
  PROVE  DInv'
<1>. USE DashboardAssumption DEF DInv
<1>1. TypeOK'
  BY DEF Load, At, TypeOK, WireShape, handlerVars, updateVars, wireVars, connVars
<1>2. (TableServed /\ CutLate)'
  BY DEF CutLate, Load, At, TypeOK, TableServed, handlerVars, updateVars, wireVars, connVars
<1>3. OpenInTable'
  BY DEF Load, At, TypeOK, OpenInTable, handlerVars, updateVars, wireVars, connVars
<1>4. Numbered'
  BY DEF Load, At, TypeOK, Numbered, handlerVars, updateVars, wireVars, connVars
<1>5. SentOrPending'
  <2>1. \A v \in Updaters, d \in Browsers : Pending(v, d)' <=> Pending(v, d)
    BY DEF Load, Pending, updateVars
  <2>2. c \notin cut
    BY DEF Load, At, CutLate
  <2>3. /\ UNCHANGED <<mesh, cut, raced, got, open, peer>>
        /\ loaded' = [loaded EXCEPT ![c] = mesh]
        /\ pc' = [pc EXCEPT ![c] = IF mesh = 0 THEN "read" ELSE "first"]
    BY DEF Load, At, updateVars, wireVars, connVars
  <2>. QED  BY <2>1, <2>2, <2>3 DEF TypeOK, SentOrPending, Connected
<1>6. LastOrPending'
  <2>1. \A v \in Updaters, d \in Browsers : Pending(v, d)' <=> Pending(v, d)
    BY DEF Load, Pending, updateVars
  <2>2. CASE mesh = 0
    <3>1. last[c] = 0
      BY <2>2 DEF Numbered, TypeOK
    <3>. QED  BY <2>1, <2>2, <3>1 DEF Load, At, TypeOK, LastOrPending, Told, Connected, updateVars,
                     wireVars, connVars
  <2>3. CASE mesh # 0
    BY <2>1, <2>3 DEF Load, At, TypeOK, LastOrPending, Told, Connected, updateVars, wireVars, connVars
  <2>. QED  BY <2>2, <2>3
<1>7. (WireShape /\ WalkLocked /\ WalkInTable /\ OneAtATime)'
  BY DEF Load, At, WireShape, WalkLocked, WalkInTable, OneAtATime, handlerVars, updateVars,
         wireVars, connVars
<1>. QED  BY <1>1, <1>2, <1>3, <1>4, <1>5, <1>6, <1>7 DEF DInv

\* The handler moves on and nothing else changes.
LEMMA MoveStep ==
  ASSUME DInv, NEW c \in Browsers, BeginFirst(c) \/ FirstPanics(c) \/ ReadFails(c)
  PROVE  DInv'
<1>. USE DashboardAssumption DEF DInv
<1>1. TypeOK'
  BY ZenonT(40) DEF BeginFirst, FirstPanics, ReadFails, At, TypeOK, WireShape, handlerVars,
                  updateVars, wireVars, connVars
<1>2. (TableServed /\ CutLate)'
  BY DEF CutLate, BeginFirst, FirstPanics, ReadFails, At, TypeOK, TableServed, handlerVars,
         updateVars, wireVars, connVars
<1>3. OpenInTable'
  BY DEF BeginFirst, FirstPanics, ReadFails, At, TypeOK, OpenInTable, handlerVars,
         updateVars, wireVars, connVars
<1>4. SentOrPending'
  <2>1. \A v \in Updaters, d \in Browsers : Pending(v, d)' <=> Pending(v, d)
    BY DEF BeginFirst, FirstPanics, ReadFails, Pending, updateVars
  <2>2. /\ \/ pc[c] = "first" /\ pc' = [pc EXCEPT ![c] = "write"]
           \/ pc' = [pc EXCEPT ![c] = "unregister"]
        /\ UNCHANGED <<mesh, cut, loaded, raced, got, last, open, peer>>
    BY DEF BeginFirst, FirstPanics, ReadFails, At, updateVars, wireVars, connVars
  <2>. QED  BY <2>1, <2>2 DEF TypeOK, SentOrPending, Connected
<1>5. LastOrPending'
  <2>1. \A v \in Updaters, d \in Browsers : Pending(v, d)' <=> Pending(v, d)
    BY DEF BeginFirst, FirstPanics, ReadFails, Pending, updateVars
  <2>2. /\ \/ pc[c] = "first" /\ pc' = [pc EXCEPT ![c] = "write"]
           \/ pc' = [pc EXCEPT ![c] = "unregister"]
        /\ UNCHANGED <<mesh, cut, loaded, raced, got, last, open, peer>>
    BY DEF BeginFirst, FirstPanics, ReadFails, At, updateVars, wireVars, connVars
  <2>3. c \in cut => pc[c] # "first"
    BY DEF CutLate
  <2>. QED  BY <2>1, <2>2, <2>3 DEF TypeOK, LastOrPending, Told, Connected
<1>6. (WireShape /\ WalkLocked /\ WalkInTable /\ Numbered /\ OneAtATime)'
  BY DEF BeginFirst, FirstPanics, ReadFails, At, WireShape, WalkLocked, WalkInTable,
         Numbered, OneAtATime, handlerVars, updateVars, wireVars, connVars
<1>. QED  BY <1>1, <1>2, <1>3, <1>4, <1>5, <1>6 DEF DInv

\* The first message goes out, or is lost with the connection.
LEMMA EndFirstStep ==
  ASSUME DInv, NEW c \in Browsers, EndFirst(c)
  PROVE  DInv'
<1>. USE DashboardAssumption DEF DInv
<1>. /\ WireShape' /\ last' \in [Browsers -> 0..MaxUpdates]
     /\ \A d \in Browsers : Len(inflight'[d]) <= Cap /\ got'[d] \subseteq 0..MaxUpdates
  <2>1. CASE Write(c, loaded[c])
    <3>. loaded[c] \in 0..MaxUpdates
      BY DEF TypeOK
    <3>. QED  BY <2>1, WriteWire
  <2>2. CASE UNCHANGED wireVars
    BY <2>2 DEF TypeOK, WireShape, wireVars
  <2>. QED  BY <2>1, <2>2 DEF EndFirst
<1>1. TypeOK'
  <2>1. /\ last' \in [Browsers -> 0..MaxUpdates]
        /\ \A d \in Browsers : Len(inflight'[d]) <= Cap /\ got'[d] \subseteq 0..MaxUpdates
    OBVIOUS
  <2>2. /\ server' \in {"none", "serving", "closed"} /\ mesh' \in 0..MaxUpdates
        /\ cut' \subseteq Browsers \cup Updaters
        /\ clients' \subseteq Browsers /\ lock' \in Updaters \cup {Nobody}
        /\ pc' \in [Browsers -> {"none", "register", "load", "first", "write", "read",
                                 "unregister", "close", "done"}]
        /\ loaded' \in [Browsers -> 0..MaxUpdates]
        /\ upc' \in [Updaters -> {"idle", "lock", "range", "write"}]
        /\ state' \in [Updaters -> 0..MaxUpdates] /\ calls' \in 0..MaxUpdates
        /\ todo' \in [Updaters -> SUBSET Browsers]
        /\ target' \in [Updaters -> Browsers \cup {Nobody}]
    BY DEF EndFirst, At, TypeOK, handlerVars, updateVars
  <2>3. /\ alive' \in BOOLEAN /\ raced' \in BOOLEAN
        /\ open' \in [Browsers -> BOOLEAN] /\ peer' \in [Browsers -> BOOLEAN]
    BY DEF EndFirst, At, TypeOK, updateVars, connVars
  <2>. QED  BY <2>1, <2>2, <2>3 DEF TypeOK
<1>2. WireShape'
  OBVIOUS
<1>3. (TableServed /\ CutLate)'
  BY DEF CutLate, EndFirst, At, Write, WriteFails, Full, TypeOK, TableServed, handlerVars,
         updateVars, wireVars, connVars
<1>4. OpenInTable'
  BY DEF EndFirst, At, Write, WriteFails, Full, TypeOK, OpenInTable, handlerVars,
         updateVars, wireVars, connVars
<1>5. Numbered'
  BY DEF EndFirst, At, Write, WriteFails, Full, TypeOK, Numbered, handlerVars, updateVars,
         wireVars, connVars
<1>6. SentOrPending'
  <2>1. \A v \in Updaters, d \in Browsers : Pending(v, d)' <=> Pending(v, d)
    BY DEF EndFirst, Pending, updateVars
  <2>2. /\ pc[c] = "write" /\ pc' = [pc EXCEPT ![c] = "read"]
        /\ UNCHANGED <<mesh, cut, loaded, open, peer, raced>>
        /\ \/ c \notin cut /\ Write(c, loaded[c])
           \/ (c \in cut \/ WriteFails(c)) /\ UNCHANGED wireVars
    BY DEF EndFirst, At, updateVars, connVars
  <2>3. \A d \in Browsers : Connected(d) =>
           got'[d] = got[d] \cup (IF d = c /\ c \notin cut THEN {loaded[c]} ELSE {})
    <3>1. \/ c \notin cut /\ got' = [got EXCEPT ![c] = @ \cup {loaded[c]}]
          \/ UNCHANGED got /\ (c \in cut \/ ~Connected(c))
      BY <2>2 DEF Write, WriteFails, Connected, wireVars
    <3>. QED  BY <3>1 DEF WireShape
  <2>. QED  BY <2>1, <2>2, <2>3, SMTT(30) DEF TypeOK, Connected, SentOrPending
<1>7. LastOrPending'
  <2>1. \A v \in Updaters, d \in Browsers : Pending(v, d)' <=> Pending(v, d)
    BY DEF EndFirst, Pending, updateVars
  <2>2. /\ pc[c] = "write" /\ pc' = [pc EXCEPT ![c] = "read"]
        /\ UNCHANGED <<mesh, cut, loaded, open, peer, raced>>
        /\ \/ c \notin cut /\ Write(c, loaded[c])
           \/ (c \in cut \/ WriteFails(c)) /\ UNCHANGED wireVars
    BY DEF EndFirst, At, updateVars, connVars
  <2>3. \A d \in Browsers : Connected(d) =>
           last'[d] = IF d = c /\ c \notin cut THEN loaded[c] ELSE last[d]
    BY <2>2 DEF Write, WriteFails, Connected, WireShape, TypeOK, wireVars
  <2>. QED  BY <2>1, <2>2, <2>3 DEF TypeOK, Connected, LastOrPending, Told
<1>8. (WalkLocked /\ WalkInTable /\ OneAtATime)'
  BY DEF EndFirst, At, Write, WriteFails, Full, WalkLocked, WalkInTable, OneAtATime,
         handlerVars, updateVars, wireVars, connVars
<1>. QED  BY <1>1, <1>2, <1>3, <1>4, <1>5, <1>6, <1>7, <1>8 DEF DInv

\* The table changes while nobody walks over it.
LEMMA UnregisterStep ==
  ASSUME DInv, NEW c \in Browsers, Unregister(c)
  PROVE  DInv'
<1>. USE DashboardAssumption DEF DInv
<1>1. TypeOK'
  BY DEF Unregister, At, TypeOK, WireShape, handlerVars, updateVars, wireVars, connVars
<1>2. WalkInTable'
  <2>. \A v \in Updaters : upc[v] \notin {"range", "write"}
    BY DEF Unregister, WalkLocked
  <2>. QED  BY DEF Unregister, WalkInTable, updateVars
<1>3. (TableServed /\ CutLate)'
  BY DEF CutLate, Unregister, At, TypeOK, TableServed, handlerVars, updateVars, wireVars, connVars
<1>4. OpenInTable'
  BY DEF Unregister, At, TypeOK, OpenInTable, handlerVars, updateVars, wireVars, connVars
<1>5. SentOrPending'
  BY DEF Unregister, At, TypeOK, WireShape, SentOrPending, Connected, Pending, handlerVars,
         updateVars, wireVars, connVars
<1>6. LastOrPending'
  BY DEF Unregister, At, TypeOK, LastOrPending, Told, Connected, Pending, handlerVars, updateVars,
         wireVars, connVars
<1>7. (WireShape /\ WalkLocked /\ Numbered /\ OneAtATime)'
  BY DEF Unregister, At, WireShape, WalkLocked, Numbered, OneAtATime, handlerVars,
         updateVars, wireVars, connVars
<1>. QED  BY <1>1, <1>2, <1>3, <1>4, <1>5, <1>6, <1>7 DEF DInv

\* A closed connection was taken from the table before.
LEMMA CloseStep ==
  ASSUME DInv, NEW c \in Browsers, CloseConn(c)
  PROVE  DInv'
<1>. USE DashboardAssumption DEF DInv
<1>1. TypeOK'
  BY DEF CloseConn, At, TypeOK, WireShape, handlerVars, updateVars, wireVars, connVars
<1>2. WireShape'
  BY DEF CloseConn, At, TypeOK, WireShape, handlerVars, updateVars, wireVars, connVars
<1>3. (TableServed /\ CutLate)'
  BY DEF CutLate, CloseConn, At, TypeOK, TableServed, handlerVars, updateVars, wireVars, connVars
<1>4. OpenInTable'
  BY DEF CloseConn, At, TypeOK, OpenInTable, handlerVars, updateVars, wireVars, connVars
<1>5. Numbered'
  BY DEF CloseConn, At, TypeOK, Numbered, handlerVars, updateVars, wireVars, connVars
<1>6. SentOrPending'
  BY DEF CloseConn, At, TypeOK, WireShape, SentOrPending, Connected, Pending, handlerVars,
         updateVars, wireVars, connVars
<1>7. LastOrPending'
  BY DEF CloseConn, At, TypeOK, LastOrPending, Told, Connected, Pending, handlerVars, updateVars,
         wireVars, connVars
<1>8. (WalkLocked /\ WalkInTable /\ OneAtATime)'
  BY DEF CloseConn, At, WalkLocked, WalkInTable, OneAtATime, handlerVars, updateVars,
         wireVars, connVars
<1>. QED  BY <1>1, <1>2, <1>3, <1>4, <1>5, <1>6, <1>7, <1>8 DEF DInv

\* A new state is pending for every browser.
LEMMA UpdateStep ==
  ASSUME DInv, NEW u \in Updaters, Update(u)
  PROVE  DInv'
<1>. USE DashboardAssumption DEF DInv
<1>1. TypeOK'
  BY DEF Update, Step, TypeOK, WireShape, handlerVars, updateVars, wireVars, connVars
<1>2. WalkLocked'
  BY DEF Update, Step, TypeOK, WalkLocked, handlerVars, updateVars, wireVars, connVars
<1>3. WalkInTable'
  BY DEF Update, Step, TypeOK, WalkInTable, handlerVars, updateVars, wireVars, connVars
<1>4. Numbered'
  BY DEF Update, Step, TypeOK, Numbered, handlerVars, updateVars, wireVars, connVars
<1>5. OneAtATime'
  <2>. SUFFICES ASSUME ~raced' PROVE \A v \in Updaters : upc'[v] # "idle" => v = u
    <3>1. state'[u] = mesh'
      BY DEF Update, TypeOK
    <3>. QED  BY <3>1 DEF OneAtATime
  <2>1. \A v \in Updaters : upc[v] = "idle"
    BY DEF Update
  <2>. QED  BY <2>1 DEF Update, Step, TypeOK
<1>6. SentOrPending'
  BY DEF Update, Step, TypeOK, WireShape, SentOrPending, Connected, Pending, handlerVars,
         updateVars, wireVars, connVars
<1>7. LastOrPending'
  BY DEF Update, Step, TypeOK, LastOrPending, Told, Connected, Pending, handlerVars, updateVars,
         wireVars, connVars
<1>8. (WireShape /\ TableServed /\ OpenInTable /\ CutLate)'
  BY DEF CutLate, Update, Step, WireShape, TableServed, OpenInTable, handlerVars, updateVars,
         wireVars, connVars
<1>. QED  BY <1>1, <1>2, <1>3, <1>4, <1>5, <1>6, <1>7, <1>8 DEF DInv

\* The walk begins with every open client.
LEMMA LockStep ==
  ASSUME DInv, NEW u \in Updaters, Lock(u)
  PROVE  DInv'
<1>. USE DashboardAssumption DEF DInv
<1>1. TypeOK'
  BY DEF Lock, Step, TypeOK, WireShape, handlerVars, updateVars, wireVars, connVars
<1>2. WalkLocked'
  BY DEF Lock, Step, TypeOK, WalkLocked, handlerVars, updateVars, wireVars, connVars
<1>3. WalkInTable'
  BY DEF Lock, Step, TypeOK, WalkInTable, handlerVars, updateVars, wireVars, connVars
<1>4. OneAtATime'
  BY DEF Lock, Step, TypeOK, OneAtATime, handlerVars, updateVars, wireVars, connVars
<1>5. SentOrPending'
  <2>1. \A v \in Updaters, d \in Browsers : Pending(v, d) /\ Connected(d) /\
            pc[d] \in {"first", "write", "read"} => Pending(v, d)'
    BY DEF Lock, Step, TypeOK, OpenInTable, Connected, Pending, handlerVars, connVars
  <2>2. UNCHANGED <<mesh, cut, handlerVars, got, open, peer, raced>>
    BY DEF Lock, wireVars, connVars
  <2>. QED  BY <2>1, <2>2 DEF SentOrPending, Connected, handlerVars
<1>6. LastOrPending'
  <2>1. \A v \in Updaters, d \in Browsers : Pending(v, d) /\ Told(d) => Pending(v, d)'
    BY DEF Lock, Step, TypeOK, OpenInTable, Told, Connected, Pending, handlerVars, connVars
  <2>2. UNCHANGED <<mesh, cut, handlerVars, last, open, peer, raced>>
    BY DEF Lock, wireVars, connVars
  <2>. QED  BY <2>1, <2>2 DEF LastOrPending, Told, Connected, handlerVars
<1>7. (WireShape /\ TableServed /\ OpenInTable /\ CutLate /\ Numbered)'
  BY DEF CutLate, Lock, Step, WireShape, TableServed, OpenInTable, Numbered, handlerVars, updateVars,
         wireVars, connVars
<1>. QED  BY <1>1, <1>2, <1>3, <1>4, <1>5, <1>6, <1>7 DEF DInv

\* The walk goes on to one client.
LEMMA BeginWriteStep ==
  ASSUME DInv, NEW u \in Updaters, NEW c \in Browsers, BeginWrite(u, c)
  PROVE  DInv'
<1>. USE DashboardAssumption DEF DInv
<1>1. TypeOK'
  BY DEF BeginWrite, Step, TypeOK, WireShape, handlerVars, updateVars, wireVars, connVars
<1>2. WalkLocked'
  BY DEF BeginWrite, Step, TypeOK, WalkLocked, handlerVars, updateVars, wireVars, connVars
<1>3. WalkInTable'
  BY DEF BeginWrite, Step, TypeOK, WalkInTable, handlerVars, updateVars, wireVars, connVars
<1>4. OneAtATime'
  BY DEF BeginWrite, Step, TypeOK, OneAtATime, handlerVars, updateVars, wireVars, connVars
<1>5. SentOrPending'
  BY DEF BeginWrite, Step, TypeOK, WireShape, SentOrPending, Connected, Pending,
         handlerVars, updateVars, wireVars, connVars
<1>6. LastOrPending'
  BY DEF BeginWrite, Step, TypeOK, LastOrPending, Told, Connected, Pending, handlerVars, updateVars,
         wireVars, connVars
<1>7. (WireShape /\ TableServed /\ OpenInTable /\ CutLate /\ Numbered)'
  BY DEF CutLate, BeginWrite, Step, WireShape, TableServed, OpenInTable, Numbered, handlerVars,
         updateVars, wireVars, connVars
<1>. QED  BY <1>1, <1>2, <1>3, <1>4, <1>5, <1>6, <1>7 DEF DInv

\* A panic ends the process.
LEMMA PanicStep ==
  ASSUME DInv, NEW u \in Updaters, NEW c \in Browsers, BroadcastPanics(u, c)
  PROVE  DInv'
<1>. USE DashboardAssumption DEF DInv
<1>1. TypeOK'
  BY DEF BroadcastPanics, TypeOK, WireShape, handlerVars, updateVars, wireVars, connVars
<1>2. (WireShape /\ WalkLocked /\ WalkInTable /\ TableServed /\ OpenInTable /\ CutLate /\ Numbered
       /\ OneAtATime /\ SentOrPending /\ LastOrPending)'
  BY DEF BroadcastPanics, WireShape, WalkLocked, WalkInTable, TableServed, OpenInTable,
         Numbered, OneAtATime, SentOrPending, Connected, Pending, LastOrPending, Told, CutLate,
         handlerVars, updateVars, wireVars, connVars
<1>. QED  BY <1>1, <1>2 DEF DInv

\* Unless calls have overlapped, the broadcast that cuts a handler's first write
\* has still to bring the latest state.
LEMMA CutStep ==
  ASSUME DInv, NEW u \in Updaters, NEW c \in Browsers, Cut(u, c)
  PROVE  DInv'
<1>. USE DashboardAssumption DEF DInv
<1>. /\ UNCHANGED <<server, alive, mesh, clients, handlerVars, updateVars, wireVars, connVars>>
     /\ upc[u] = "write" /\ target[u] = c /\ pc[c] = "write"
     /\ cut' = cut \cup {c} \/ cut' = cut \cup {u}
  BY DEF Cut, Overlap, BroadcastWriters, FirstWriter
<1>1. TypeOK'
  <2>. cut' \subseteq Browsers \cup Updaters
    BY DEF TypeOK
  <2>. QED  BY DEF TypeOK, handlerVars, updateVars, wireVars, connVars
<1>2. CutLate'
  BY DEF CutLate, handlerVars
<1>3. \A v \in Updaters, d \in Browsers : Pending(v, d)' <=> Pending(v, d)
  BY DEF Pending, updateVars
<1>4. ~raced => Pending(u, c)
  BY DEF OneAtATime, Pending
<1>5. /\ UNCHANGED <<mesh, pc, loaded, raced, got, last, open, peer>>
      /\ \A d \in Browsers : d \in cut' <=> d \in cut \/ (d = c /\ c \in cut')
  BY DEF handlerVars, updateVars, wireVars, connVars
<1>6. SentOrPending'
  BY <1>3, <1>4, <1>5 DEF SentOrPending, Connected
<1>7. LastOrPending'
  BY <1>3, <1>4, <1>5 DEF LastOrPending, Told, Connected
<1>8. (WireShape /\ WalkLocked /\ WalkInTable /\ TableServed /\ OpenInTable /\ Numbered
       /\ OneAtATime)'
  BY DEF WireShape, WalkLocked, WalkInTable, TableServed, OpenInTable, Numbered, OneAtATime,
         handlerVars, updateVars, wireVars, connVars
<1>. QED  BY <1>1, <1>2, <1>6, <1>7, <1>8 DEF DInv

\* The client of the walk gets the state of the call.
LEMMA EndWriteStep ==
  ASSUME DInv, NEW u \in Updaters, EndWrite(u)
  PROVE  DInv'
<1>. USE DashboardAssumption DEF DInv
<1>. /\ WireShape' /\ last' \in [Browsers -> 0..MaxUpdates]
     /\ \A d \in Browsers : Len(inflight'[d]) <= Cap /\ got'[d] \subseteq 0..MaxUpdates
  <2>1. target[u] \in Browsers /\ state[u] \in 0..MaxUpdates
    BY DEF EndWrite, Step, WalkInTable, TypeOK
  <2>. QED  BY <2>1, WriteWire DEF EndWrite
<1>1. TypeOK'
  <2>1. /\ last' \in [Browsers -> 0..MaxUpdates]
        /\ \A d \in Browsers : Len(inflight'[d]) <= Cap /\ got'[d] \subseteq 0..MaxUpdates
    OBVIOUS
  <2>2. /\ server' \in {"none", "serving", "closed"} /\ mesh' \in 0..MaxUpdates
        /\ cut' \subseteq Browsers \cup Updaters
        /\ clients' \subseteq Browsers /\ lock' \in Updaters \cup {Nobody}
        /\ pc' \in [Browsers -> {"none", "register", "load", "first", "write", "read",
                                 "unregister", "close", "done"}]
        /\ loaded' \in [Browsers -> 0..MaxUpdates]
        /\ upc' \in [Updaters -> {"idle", "lock", "range", "write"}]
        /\ state' \in [Updaters -> 0..MaxUpdates] /\ calls' \in 0..MaxUpdates
        /\ todo' \in [Updaters -> SUBSET Browsers]
        /\ target' \in [Updaters -> Browsers \cup {Nobody}]
    BY DEF EndWrite, Step, TypeOK, handlerVars, updateVars
  <2>3. /\ alive' \in BOOLEAN /\ raced' \in BOOLEAN
        /\ open' \in [Browsers -> BOOLEAN] /\ peer' \in [Browsers -> BOOLEAN]
    BY DEF EndWrite, Step, TypeOK, updateVars, connVars
  <2>. QED  BY <2>1, <2>2, <2>3 DEF TypeOK
<1>2. WireShape'
  OBVIOUS
<1>3. WalkLocked'
  BY DEF EndWrite, Step, Write, Full, TypeOK, WalkLocked, handlerVars, updateVars, wireVars,
         connVars
<1>4. WalkInTable'
  BY DEF EndWrite, Step, Write, Full, TypeOK, WalkInTable, handlerVars, updateVars,
         wireVars, connVars
<1>5. Numbered'
  BY DEF EndWrite, Step, Write, Full, TypeOK, Numbered, handlerVars, updateVars, wireVars, connVars
<1>6. OneAtATime'
  BY DEF EndWrite, Step, Write, Full, TypeOK, OneAtATime, handlerVars, updateVars, wireVars,
         connVars
<1>7. SentOrPending'
  <2>1. \A v \in Updaters, d \in Browsers : Pending(v, d) =>
            Pending(v, d)' \/ (v = u /\ d = target[u] /\ state[u] = mesh)
    BY DEF EndWrite, Step, TypeOK, Pending
  <2>2. /\ UNCHANGED <<mesh, cut, handlerVars, open, peer, raced>>
        /\ Write(target[u], state[u]) /\ target[u] \in Browsers
    BY DEF EndWrite, Step, WalkInTable, TypeOK, connVars
  <2>3. \A d \in Browsers : /\ got[d] \subseteq got'[d]
                            /\ d = target[u] /\ peer[d] => state[u] \in got'[d]
    <3>1. \/ got' = [got EXCEPT ![target[u]] = @ \cup {state[u]}]
          \/ UNCHANGED got /\ ~peer[target[u]]
      BY <2>2 DEF Write, wireVars
    <3>. QED  BY <2>2, <3>1 DEF WireShape
  <2>. QED  BY <2>1, <2>2, <2>3, ZenonT(40) DEF SentOrPending, Connected, handlerVars
<1>8. LastOrPending'
  <2>1. \A v \in Updaters, d \in Browsers : Pending(v, d) =>
            Pending(v, d)' \/ (v = u /\ d = target[u] /\ state[u] = mesh)
    BY DEF EndWrite, Step, TypeOK, Pending
  <2>2. /\ UNCHANGED <<mesh, cut, handlerVars, open, peer, raced>>
        /\ Write(target[u], state[u]) /\ target[u] \in Browsers
        /\ ~raced => state[u] = mesh
    BY DEF EndWrite, Step, WalkInTable, OneAtATime, TypeOK, connVars
  <2>3. \A d \in Browsers : last'[d] = IF d = target[u] /\ peer[d] THEN state[u] ELSE last[d]
    BY <2>2 DEF Write, TypeOK, wireVars
  <2>. QED  BY <2>1, <2>2, <2>3 DEF LastOrPending, Told, Connected, handlerVars
<1>9. (TableServed /\ OpenInTable /\ CutLate)'
  BY DEF CutLate, EndWrite, Step, Write, Full, TableServed, OpenInTable, handlerVars, updateVars,
         wireVars, connVars
<1>. QED  BY <1>1, <1>2, <1>3, <1>4, <1>5, <1>6, <1>7, <1>8, <1>9 DEF DInv

\* The client of the walk is closed and leaves the table.
LEMMA WriteErrorStep ==
  ASSUME DInv, NEW u \in Updaters, WriteError(u)
  PROVE  DInv'
<1>. USE DashboardAssumption DEF DInv
<1>. /\ WireShape' /\ last' \in [Browsers -> 0..MaxUpdates]
     /\ \A d \in Browsers : Len(inflight'[d]) <= Cap /\ got'[d] \subseteq 0..MaxUpdates
  <2>1. target[u] \in Browsers
    BY DEF WriteError, Step, WalkInTable, TypeOK
  <2>2. inflight' = [inflight EXCEPT ![target[u]] = <<>>] /\ UNCHANGED <<got, last>>
    BY DEF WriteError
  <2>. QED  BY <2>1, <2>2, ClearWire DEF TypeOK, WireShape
<1>1. TypeOK'
  <2>1. /\ last' \in [Browsers -> 0..MaxUpdates]
        /\ \A d \in Browsers : Len(inflight'[d]) <= Cap /\ got'[d] \subseteq 0..MaxUpdates
    OBVIOUS
  <2>2. /\ server' \in {"none", "serving", "closed"} /\ mesh' \in 0..MaxUpdates
        /\ cut' \subseteq Browsers \cup Updaters
        /\ clients' \subseteq Browsers /\ lock' \in Updaters \cup {Nobody}
        /\ pc' \in [Browsers -> {"none", "register", "load", "first", "write", "read",
                                 "unregister", "close", "done"}]
        /\ loaded' \in [Browsers -> 0..MaxUpdates]
        /\ upc' \in [Updaters -> {"idle", "lock", "range", "write"}]
        /\ state' \in [Updaters -> 0..MaxUpdates] /\ calls' \in 0..MaxUpdates
        /\ todo' \in [Updaters -> SUBSET Browsers]
        /\ target' \in [Updaters -> Browsers \cup {Nobody}]
    BY DEF WriteError, Step, TypeOK, handlerVars, updateVars
  <2>3. /\ alive' \in BOOLEAN /\ raced' \in BOOLEAN
        /\ open' \in [Browsers -> BOOLEAN] /\ peer' \in [Browsers -> BOOLEAN]
    BY DEF WriteError, Step, TypeOK, updateVars, connVars
  <2>. QED  BY <2>1, <2>2, <2>3 DEF TypeOK
<1>2. WireShape'
  OBVIOUS
<1>3. WalkLocked'
  BY DEF WriteError, Step, WriteFails, TypeOK, WalkLocked, handlerVars, updateVars,
         wireVars, connVars
<1>4. WalkInTable'
  <2>1. \A v \in Updaters \ {u} : upc[v] \notin {"range", "write"}
    BY DEF WriteError, Step, WalkLocked
  <2>2. upc' = [upc EXCEPT ![u] = "range"] /\ todo' = todo /\ clients' = clients \ {target[u]}
    BY DEF WriteError, Step
  <2>3. todo[u] \subseteq clients /\ target[u] \notin todo[u]
    BY DEF WriteError, Step, WalkInTable
  <2>. QED  BY <2>1, <2>2, <2>3 DEF WalkInTable, TypeOK
<1>5. (TableServed /\ CutLate)'
  BY DEF CutLate, WriteError, Step, WriteFails, TypeOK, TableServed, handlerVars, updateVars,
         wireVars, connVars
<1>6. OpenInTable'
  BY DEF WriteError, Step, WriteFails, TypeOK, OpenInTable, handlerVars, updateVars,
         wireVars, connVars
<1>7. OneAtATime'
  BY DEF WriteError, Step, WriteFails, TypeOK, OneAtATime, handlerVars, updateVars,
         wireVars, connVars
<1>8. SentOrPending'
  <2>1. \A v \in Updaters, d \in Browsers : Pending(v, d) => Pending(v, d)' \/ d = target[u]
    BY DEF WriteError, Step, TypeOK, Pending
  <2>2. /\ UNCHANGED <<mesh, handlerVars, got, last, peer, raced>>
        /\ \A d \in Browsers : d \in cut' <=> d \in cut
        /\ open' = [open EXCEPT ![target[u]] = FALSE]
    BY DEF WriteError
  <2>. QED  BY <2>1, <2>2 DEF TypeOK, SentOrPending, Connected, handlerVars
<1>9. LastOrPending'
  <2>1. \A v \in Updaters, d \in Browsers : Pending(v, d) => Pending(v, d)' \/ d = target[u]
    BY DEF WriteError, Step, TypeOK, Pending
  <2>2. /\ UNCHANGED <<mesh, handlerVars, got, last, peer, raced>>
        /\ \A d \in Browsers : d \in cut' <=> d \in cut
        /\ open' = [open EXCEPT ![target[u]] = FALSE]
    BY DEF WriteError
  <2>. QED  BY <2>1, <2>2 DEF TypeOK, LastOrPending, Told, Connected, handlerVars
<1>10. (Numbered)'
  BY DEF WriteError, Step, WriteFails, Numbered, handlerVars, updateVars, wireVars, connVars
<1>. QED  BY <1>1, <1>2, <1>3, <1>4, <1>5, <1>6, <1>7, <1>8, <1>9, <1>10 DEF DInv

\* The walk ends when it has visited everybody.
LEMMA UnlockStep ==
  ASSUME DInv, NEW u \in Updaters, Unlock(u)
  PROVE  DInv'
<1>. USE DashboardAssumption DEF DInv
<1>1. TypeOK'
  BY DEF Unlock, Step, TypeOK, WireShape, handlerVars, updateVars, wireVars, connVars
<1>2. WalkLocked'
  BY DEF Unlock, Step, TypeOK, WalkLocked, handlerVars, updateVars, wireVars, connVars
<1>3. WalkInTable'
  BY DEF Unlock, Step, TypeOK, WalkInTable, handlerVars, updateVars, wireVars, connVars
<1>4. Numbered'
  BY DEF Unlock, Step, TypeOK, Numbered, handlerVars, updateVars, wireVars, connVars
<1>5. OneAtATime'
  BY DEF Unlock, Step, TypeOK, OneAtATime, handlerVars, updateVars, wireVars, connVars
<1>6. SentOrPending'
  BY DEF Unlock, Step, TypeOK, WireShape, SentOrPending, Connected, Pending, handlerVars,
         updateVars, wireVars, connVars
<1>7. LastOrPending'
  BY DEF Unlock, Step, TypeOK, LastOrPending, Told, Connected, Pending, handlerVars, updateVars,
         wireVars, connVars
<1>8. (WireShape /\ TableServed /\ OpenInTable /\ CutLate)'
  BY DEF CutLate, Unlock, Step, WireShape, TableServed, OpenInTable, handlerVars, updateVars,
         wireVars, connVars
<1>. QED  BY <1>1, <1>2, <1>3, <1>4, <1>5, <1>6, <1>7, <1>8 DEF DInv

\* A browser reads, or leaves.
LEMMA BrowserStep ==
  ASSUME DInv, NEW c \in Browsers, Recv(c) \/ Leave(c)
  PROVE  DInv'
<1>. USE DashboardAssumption DEF DInv
<1>. /\ WireShape' /\ last' \in [Browsers -> 0..MaxUpdates]
     /\ \A d \in Browsers : Len(inflight'[d]) <= Cap /\ got'[d] \subseteq 0..MaxUpdates
  <2>1. CASE Recv(c)
    <3>1. inflight[c] \in Seq(0..MaxUpdates) /\ inflight[c] # <<>> /\ Len(inflight[c]) <= Cap
      BY <2>1 DEF Recv, TypeOK, WireShape
    <3>2. Tail(inflight[c]) \in Seq(0..MaxUpdates) /\ Len(Tail(inflight[c])) <= Cap
      <4>1. Len(inflight[c]) \in Nat /\ Len(inflight[c]) # 0
        BY <3>1
      <4>2. Tail(inflight[c]) \in Seq(0..MaxUpdates) /\ Len(Tail(inflight[c])) = Len(inflight[c]) - 1
        BY <3>1, HeadTailProperties, Zenon
      <4>. QED  BY <3>1, <4>1, <4>2
    <3>. QED  BY <2>1, <3>2 DEF Recv, TypeOK, WireShape
  <2>2. CASE Leave(c)
    <3>1. /\ inflight' = [inflight EXCEPT ![c] = <<>>]
          /\ got' = [got EXCEPT ![c] = {}] /\ last' = [last EXCEPT ![c] = 0]
      BY <2>2 DEF Leave
    <3>2. /\ got' \in [Browsers -> SUBSET (0..MaxUpdates)] /\ last' \in [Browsers -> 0..MaxUpdates]
          /\ inflight' \in [Browsers -> Seq(0..MaxUpdates)]
      BY <3>1 DEF TypeOK, WireShape
    <3>3. \A d \in Browsers : Len(inflight'[d]) <= Cap
      BY <3>1 DEF TypeOK, WireShape
    <3>. QED  BY <3>2, <3>3 DEF WireShape
  <2>. QED  BY <2>1, <2>2
<1>1. TypeOK'
  <2>1. /\ last' \in [Browsers -> 0..MaxUpdates]
        /\ \A d \in Browsers : Len(inflight'[d]) <= Cap /\ got'[d] \subseteq 0..MaxUpdates
    OBVIOUS
  <2>2. /\ server' \in {"none", "serving", "closed"} /\ mesh' \in 0..MaxUpdates
        /\ cut' \subseteq Browsers \cup Updaters
        /\ clients' \subseteq Browsers /\ lock' \in Updaters \cup {Nobody}
        /\ pc' \in [Browsers -> {"none", "register", "load", "first", "write", "read",
                                 "unregister", "close", "done"}]
        /\ loaded' \in [Browsers -> 0..MaxUpdates]
        /\ upc' \in [Updaters -> {"idle", "lock", "range", "write"}]
        /\ state' \in [Updaters -> 0..MaxUpdates] /\ calls' \in 0..MaxUpdates
        /\ todo' \in [Updaters -> SUBSET Browsers]
        /\ target' \in [Updaters -> Browsers \cup {Nobody}]
    BY DEF Recv, Leave, TypeOK, handlerVars, updateVars
  <2>3. /\ alive' \in BOOLEAN /\ raced' \in BOOLEAN
        /\ open' \in [Browsers -> BOOLEAN] /\ peer' \in [Browsers -> BOOLEAN]
    BY DEF Recv, Leave, TypeOK, updateVars, connVars
  <2>. QED  BY <2>1, <2>2, <2>3 DEF TypeOK
<1>2. WireShape'
  OBVIOUS
<1>3. Numbered'
  <2>1. UNCHANGED <<mesh, cut, calls, state, loaded>>
    BY DEF Recv, Leave, handlerVars, updateVars
  <2>2. \A d \in Browsers : last'[d] = last[d] \/ last'[d] = 0
    BY DEF Recv, Leave, TypeOK
  <2>3. mesh \in Nat
    BY DEF TypeOK
  <2>4. \A d \in Browsers : last'[d] <= mesh
    BY <2>2, <2>3 DEF Numbered
  <2>. QED  BY <2>1, <2>4 DEF Numbered
<1>4. SentOrPending'
  <2>1. \A v \in Updaters, d \in Browsers : Pending(v, d)' <=> Pending(v, d)
    BY DEF Recv, Leave, Pending, updateVars
  <2>2. UNCHANGED <<mesh, cut, handlerVars, open, raced>>
    BY DEF Recv, Leave, updateVars, connVars
  <2>3. \A d \in Browsers : peer'[d] => peer[d] /\ got'[d] = got[d]
    BY DEF Recv, Leave, TypeOK, WireShape, connVars
  <2>. QED  BY <2>1, <2>2, <2>3, ZenonT(40) DEF SentOrPending, Connected, handlerVars
<1>5. LastOrPending'
  <2>1. \A v \in Updaters, d \in Browsers : Pending(v, d)' <=> Pending(v, d)
    BY DEF Recv, Leave, Pending, updateVars
  <2>2. UNCHANGED <<mesh, cut, handlerVars, open, raced>>
    BY DEF Recv, Leave, updateVars, connVars
  <2>3. \A d \in Browsers : peer'[d] => peer[d] /\ last'[d] = last[d]
    BY DEF Recv, Leave, TypeOK, WireShape, connVars
  <2>. QED  BY <2>1, <2>2, <2>3, ZenonT(40) DEF LastOrPending, Told, Connected, handlerVars
<1>6. (WalkLocked /\ WalkInTable /\ TableServed /\ OpenInTable /\ CutLate /\ OneAtATime)'
  BY DEF CutLate, Recv, Leave, WalkLocked, WalkInTable, TableServed, OpenInTable, OneAtATime,
         handlerVars, updateVars, wireVars, connVars
<1>. QED  BY <1>1, <1>2, <1>3, <1>4, <1>5, <1>6 DEF DInv

LEMMA NextDInv == DInv /\ [Next]_vars => DInv'
<1>. SUFFICES ASSUME DInv, [Next]_vars PROVE DInv'
  OBVIOUS
<1>1. CASE UNCHANGED vars
  BY <1>1 DEF DInv, TypeOK, WireShape, WalkLocked, WalkInTable, TableServed, OpenInTable,
              Numbered, OneAtATime, SentOrPending, LastOrPending, Connected, Told, CutLate, Pending,
              vars, handlerVars, updateVars, wireVars, connVars
<1>2. CASE Start \/ Shutdown
  BY <1>2, ServerStep
<1>3. ASSUME NEW c \in Browsers, Upgrade(c) \/ Handler(c) PROVE DInv'
  BY <1>3, UpgradeStep, RegisterStep, LoadStep, MoveStep, EndFirstStep, UnregisterStep,
     CloseStep DEF Handler
<1>4. ASSUME NEW c \in Browsers, Recv(c) \/ Leave(c) PROVE DInv'
  BY <1>4, BrowserStep
<1>5. ASSUME NEW u \in Updaters, Update(u) \/ Updater(u) \/ \E c \in Browsers : Cut(u, c)
      PROVE  DInv'
  BY <1>5, UpdateStep, LockStep, BeginWriteStep, CutStep, PanicStep, EndWriteStep, WriteErrorStep,
     UnlockStep DEF Updater
<1>. QED  BY <1>1, <1>2, <1>3, <1>4, <1>5 DEF Next

-----------------------------------------------------------------------------
(* The theorems.                                                           *)

LEMMA Invariance == Spec => []DInv
BY InitDInv, NextDInv, PTL DEF Spec

\* Every reachable state is well typed, and no socket buffer holds more than
\* fits.
THEOREM TypeCorrect == Spec => []TypeOK
<1>1. DInv => TypeOK
  BY DEF DInv
<1>. QED  BY <1>1, Invariance, PTL

\* However many goroutines call UpdateMeshState, clientsMu lets one of them at a
\* time write to a connection, and none to a connection whose handler has
\* unregistered it.
THEOREM BroadcastsSerialised == Spec => []OneBroadcastWriter
<1>1. DInv => OneBroadcastWriter
  <2>. SUFFICES ASSUME DInv, NEW c \in Browsers
                PROVE  /\ Cardinality(BroadcastWriters(c)) <= 1
                       /\ pc[c] \in {"close", "done"} => BroadcastWriters(c) = {}
    BY DEF OneBroadcastWriter
  <2>1. BroadcastWriters(c) \subseteq {lock}
    BY DEF DInv, WalkLocked, BroadcastWriters
  <2>2. BroadcastWriters(c) = {} \/ BroadcastWriters(c) = {lock}
    BY <2>1
  <2>3. Cardinality(BroadcastWriters(c)) <= 1
    <3>1. Cardinality({}) = 0
      BY FS_EmptySet
    <3>2. Cardinality({lock}) = 1
      BY FS_Singleton
    <3>. QED  BY <2>2, <3>1, <3>2
  <2>4. pc[c] \in {"close", "done"} => BroadcastWriters(c) = {}
    BY DEF DInv, WalkInTable, TableServed, BroadcastWriters
  <2>. QED  BY <2>3, <2>4
<1>. QED  BY <1>1, Invariance, PTL

\* handleWebSocket registers before it reads the state and UpdateMeshState sets
\* the state before it broadcasts: no browser that connects meanwhile misses the
\* latest one, unless the broadcast of one of two overlapping calls cuts the
\* handler's write of the other's state.
THEOREM NoUpdateMissed == Spec => []LatestSent
<1>1. DInv => LatestSent
  BY DEF DInv, SentOrPending, LatestSent, ApiState, Quiet, Settled, Connected, Pending
<1>. QED  BY <1>1, Invariance, PTL

\* A browser can be left with an older state than the API's only when its own
\* handler's first write comes after a broadcast, or when two calls of
\* UpdateMeshState overlapped.
THEOREM LeftWithLatest == Spec => []LastIsLatest
<1>1. DInv => LastIsLatest
  BY DEF DInv, LastOrPending, LastIsLatest, ApiState, Quiet, Settled, Told, Connected, Pending
<1>. QED  BY <1>1, Invariance, PTL
=============================================================================
