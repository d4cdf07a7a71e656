----------------------------- MODULE DnsProofs -----------------------------
(***************************************************************************)
(* Proofs about Dns, for any datagrams, names, records and upstream        *)
(* servers, and however many handlers run beside serveLoop.                *)
(***************************************************************************)
EXTENDS Dns, TLAPS

(***************************************************************************)
(* The inductive invariant.                                                *)
(***************************************************************************)

Message == [id : Nat, name : Names, ans : SUBSET (IPs \cup {NoIP, "upstream"})]

\* What the handlers keep and send.
HandlerShape ==
    /\ work \in [Queries -> Message] /\ reply \in [Queries -> Message]
    /\ up \in [Queries -> 1..(Upstream + 1)]
    /\ window \in [Queries -> SUBSET Tables]

\* Start enters the records before it spawns serveLoop, and there is no
\* handler before that.
EnteredFirst ==
    /\ loop # "none" => starter = "returned"
    /\ starter = "returned" => todo = {}
    /\ \A q \in Queries : pc[q] # "none" => starter = "returned"

\* A configured name has a record once it was entered, unless it was removed.
TableKept == \A n \in DOMAIN Configured \ (removed \cup todo) : peers[n] # NoIP

\* The window of a handler ends with the table as it is.
WindowCurrent == \A q \in Queries : Live(q) => peers \in window[q]

\* Where a handler has got to says what it has gathered.
WorkShape ==
    \A q \in Queries :
        /\ pc[q] \in {"none", "header", "question", "lookup", "wildcard"} => work[q].ans = {}
        /\ pc[q] = "lookup" => work[q].name \in NexusNames
        /\ pc[q] = "wildcard" => work[q].name = Wild
        /\ pc[q] \in {"await", "awaitCut"} => work[q].ans = External /\ up[q] <= Upstream
        /\ pc[q] \in {"none", "header", "question"} => up[q] = 1
        /\ pc[q] # "done" => ~Replied(q)

\* A handler gathers all addresses only after it has found the wildcard without a
\* record.
Missed(q) == pc[q] = "wildcard" => \E before \in window[q] : before[Wild] = NoIP

\* An answer about to be sent from the table is true, and denies no record.
AnswerReady ==
    \A q \in Queries :
        /\ Missed(q)
        /\ pc[q] = "respond" =>
              /\ work[q].name \in NexusNames
              /\ FromTable(window[q], work[q].name, work[q].ans)
              /\ work[q].name \in DOMAIN Configured \ removed => work[q].ans # {}

\* A handler that has read only its own datagram has the id and then the name
\* from it, has not cut it, and has passed no reliable upstream server.
OwnWork ==
    \A q \in Queries : ~foreign[q] =>
        /\ pc[q] \in {"question", "lookup", "wildcard", "respond", "forward", "await"}
              => work[q].id = Datagrams[q].id
        /\ pc[q] \in {"lookup", "wildcard", "respond", "forward", "await"}
              => work[q].name = Datagrams[q].name
        /\ pc[q] # "awaitCut"
        /\ pc[q] \in {"forward", "await"} => \A r \in Reliable : up[q] <= r

DInv ==
    /\ TypeOK /\ HandlerShape /\ EnteredFirst /\ TableKept /\ WindowCurrent /\ WorkShape
    /\ AnswerReady /\ OwnWork
    /\ OwnAnswer /\ AnswerWasTrue /\ ConfiguredResolves /\ Answered

-----------------------------------------------------------------------------
(* What a handler reads and what a table says.                             *)

LEMMA DatagramType == \A q \in Queries : Datagrams[q] \in Query
BY DnsAssumption DEF Queries

\* Whatever a read of the buffer finds is an id, or a name.
LEMMA ReadType ==
  ASSUME TypeOK, NEW q \in Queries
  PROVE  Ids(q) \subseteq Nat /\ Texts(q) \subseteq Names
<1>1. buf.id \in Nat /\ buf.name \in Names
  BY DEF TypeOK, Query
<1>2. \A p \in Queries : Datagrams[p].id \in Nat
  BY DatagramType DEF Query
<1>. QED  BY <1>1, <1>2 DEF Ids, Texts, Received

\* A read of the handler's own datagram, undisturbed, finds what it holds.
LEMMA OwnRead ==
  ASSUME TypeOK, NEW q \in Queries, ~racing[q], buf = Datagrams[q]
  PROVE  /\ Ids(q) = {Datagrams[q].id} /\ Texts(q) = {Datagrams[q].name}
         /\ Forms(q) = {Datagrams[q].form} /\ ~Cut(q)
<1>1. Datagrams[q].len \in Nat
  BY DatagramType DEF Query
<1>. QED  BY <1>1 DEF Ids, Texts, Forms, Cut

\* A table never answers with NoIP.
LEMMA ResolveType ==
  ASSUME NEW table \in Tables, NEW n \in NexusNames
  PROVE  Resolve(table, n) \subseteq IPs /\ NoIP \notin Resolve(table, n)
BY DnsAssumption DEF Tables, Resolve, AllIPs

\* All addresses of a table are addresses.
LEMMA AllIPsType ==
  ASSUME NEW table \in Tables
  PROVE  AllIPs(table) \subseteq IPs /\ NoIP \notin AllIPs(table)
BY DnsAssumption DEF Tables, AllIPs

\* More tables can be answered from.
LEMMA FromMore ==
  ASSUME NEW tables, NEW more, tables \subseteq more, NEW n, NEW ans, FromTable(tables, n, ans)
  PROVE  FromTable(more, n, ans)
BY Zenon DEF FromTable

\* What stands for "no reply" is none.
LEMMA NoReplyAns == NoReply \in Message /\ NoReply.ans = {NoIP} /\ {NoIP} # External
BY DnsAssumption DEF NoReply, Blank, Message, External

-----------------------------------------------------------------------------
(* The initial state, and the steps.                                       *)

LEMMA InitDInv == Init => DInv
<1>. SUFFICES ASSUME Init PROVE DInv
  OBVIOUS
<1>. USE DnsAssumption DEF Init
<1>0. Blank \in Message /\ Blank.ans = {} /\ NoReply \in Message
  BY NoReplyAns DEF Blank, Message
<1>1. HandlerShape
  BY <1>0 DEF HandlerShape
<1>2. TypeOK
  <2>1. /\ conn \in {"none", "open", "closed"} /\ starter \in {"idle", "populate", "returned"}
        /\ todo \subseteq DOMAIN Configured
        /\ loop \in {"none", "head", "reading", "returned"}
        /\ stopper \in {"idle", "waiting", "done"}
        /\ peers \in Tables /\ edits \in 0..MaxEdits /\ removed \subseteq NexusNames
        /\ pc = [q \in Queries |-> "none"]
    BY DEF Tables
  <2>2. buf \in Query
    BY DEF ZeroBuf, Query
  <2>3. /\ cancelled \in BOOLEAN
        /\ racing \in [Queries -> BOOLEAN] /\ foreign \in [Queries -> BOOLEAN]
    OBVIOUS
  <2>4. /\ \A q \in Queries : up[q] \in 1..(Upstream + 1) /\ window[q] \subseteq Tables
        /\ \A q \in Queries : {work[q].name, reply[q].name} \subseteq Names
    BY <1>1 DEF HandlerShape, Message
  <2>. QED  BY <2>1, <2>2, <2>3, <2>4 DEF TypeOK
<1>3. EnteredFirst /\ TableKept /\ WindowCurrent
  BY DEF EnteredFirst, TableKept, WindowCurrent, Live
<1>4. WorkShape
  BY <1>0 DEF WorkShape, Replied
<1>5. AnswerReady /\ OwnWork /\ OwnAnswer /\ AnswerWasTrue /\ ConfiguredResolves /\ Answered
  BY DEF AnswerReady, Missed, OwnWork, OwnAnswer, AnswerWasTrue, ConfiguredResolves, Answered, Replied
<1>. QED  BY <1>1, <1>2, <1>3, <1>4, <1>5 DEF DInv

\* There is no handler yet when the socket opens.
LEMMA StartStep ==
  ASSUME DInv, Start
  PROVE  DInv'
<1>. USE DnsAssumption DEF DInv
<1>1. TypeOK'
  BY DEF Start, TypeOK, HandlerShape, serverVars, tableVars, handlerVars
<1>2. EnteredFirst'
  BY DEF Start, TypeOK, EnteredFirst, serverVars, tableVars, handlerVars
<1>3. Answered'
  <2>. \A q \in Queries : pc'[q] = "none"
    BY DEF Start, EnteredFirst, handlerVars
  <2>. QED  BY DEF Answered
<1>4. (HandlerShape /\ TableKept /\ WindowCurrent /\ WorkShape /\ AnswerReady /\ OwnWork
       /\ OwnAnswer /\ AnswerWasTrue /\ ConfiguredResolves)'
  <2>. UNCHANGED <<work, reply, up, window, peers, removed, todo, pc, foreign>>
    BY DEF Start, serverVars, tableVars, handlerVars
  <2>. QED  BY DEF HandlerShape, TableKept, WindowCurrent, Live, WorkShape, Replied,
                   AnswerReady, Missed, OwnWork, OwnAnswer, AnswerWasTrue, ConfiguredResolves
<1>. QED  BY <1>1, <1>2, <1>3, <1>4 DEF DInv

\* serveLoop begins when every record is entered.
LEMMA SpawnStep ==
  ASSUME DInv, Spawn
  PROVE  DInv'
<1>. USE DnsAssumption DEF DInv
<1>1. TypeOK'
  BY DEF Spawn, TypeOK, HandlerShape, serverVars, tableVars, handlerVars
<1>2. EnteredFirst'
  BY DEF Spawn, TypeOK, EnteredFirst, serverVars, tableVars, handlerVars
<1>3. (HandlerShape /\ TableKept /\ WindowCurrent /\ WorkShape /\ AnswerReady /\ OwnWork
       /\ OwnAnswer /\ AnswerWasTrue /\ ConfiguredResolves /\ Answered)'
  <2>. UNCHANGED <<work, reply, up, window, peers, removed, todo, pc, foreign, conn>>
    BY DEF Spawn, serverVars, tableVars, handlerVars
  <2>. QED  BY DEF HandlerShape, TableKept, WindowCurrent, Live, WorkShape, Replied,
                   AnswerReady, Missed, OwnWork, OwnAnswer, AnswerWasTrue, ConfiguredResolves,
                   Answered
<1>. QED  BY <1>1, <1>2, <1>3 DEF DInv

\* A closed socket is not opened again.
LEMMA StopStep ==
  ASSUME DInv, Stop
  PROVE  DInv'
<1>. USE DnsAssumption DEF DInv
<1>1. TypeOK'
  BY DEF Stop, TypeOK, HandlerShape, serverVars, tableVars, handlerVars
<1>2. Answered'
  BY DEF Stop, TypeOK, HandlerShape, Answered, Replied, serverVars, tableVars, handlerVars
<1>3. (HandlerShape /\ EnteredFirst /\ TableKept /\ WindowCurrent /\ WorkShape
       /\ AnswerReady /\ OwnWork /\ OwnAnswer /\ AnswerWasTrue /\ ConfiguredResolves)'
  <2>. UNCHANGED <<work, reply, up, window, loop, starter, todo, pc, peers, removed, foreign>>
    BY DEF Stop, serverVars, tableVars, handlerVars
  <2>. QED  BY DEF HandlerShape, EnteredFirst, TableKept, WindowCurrent, Live, WorkShape,
                   Replied, AnswerReady, Missed, OwnWork, OwnAnswer, AnswerWasTrue,
                   ConfiguredResolves
<1>. QED  BY <1>1, <1>2, <1>3 DEF DInv

\* The context, Stop's return and serveLoop's rounds.
LEMMA LifeStep ==
  ASSUME DInv, Cancel \/ StopReturns \/ LoopHead \/ ReadError
  PROVE  DInv'
<1>. USE DnsAssumption DEF DInv
<1>1. TypeOK'
  BY ZenonT(40) DEF Cancel, StopReturns, LoopHead, ReadError, TypeOK, HandlerShape,
                  serverVars, tableVars, handlerVars
<1>2. EnteredFirst'
  BY DEF Cancel, StopReturns, LoopHead, ReadError, TypeOK, EnteredFirst, serverVars,
         tableVars, handlerVars
<1>3. (HandlerShape /\ TableKept /\ WindowCurrent /\ WorkShape /\ AnswerReady /\ OwnWork
       /\ OwnAnswer /\ AnswerWasTrue /\ ConfiguredResolves /\ Answered)'
  <2>. UNCHANGED <<work, reply, up, window, peers, removed, todo, pc, foreign, conn>>
    BY DEF Cancel, StopReturns, LoopHead, ReadError, serverVars, tableVars, handlerVars
  <2>. QED  BY DEF HandlerShape, TableKept, WindowCurrent, Live, WorkShape, Replied,
                   AnswerReady, Missed, OwnWork, OwnAnswer, AnswerWasTrue, ConfiguredResolves,
                   Answered
<1>. QED  BY <1>1, <1>2, <1>3 DEF DInv

\* Start enters a record.
LEMMA PopulateStep ==
  ASSUME DInv, NEW n \in DOMAIN Configured, Populate(n)
  PROVE  DInv'
<1>. USE DnsAssumption DEF DInv
<1>0. /\ peers' = [peers EXCEPT ![n] = Configured[n]] /\ peers' \in Tables
      /\ window' = [q \in Queries |-> IF Live(q) THEN window[q] \cup {peers'} ELSE window[q]]
      /\ window' \in [Queries -> SUBSET Tables]
      /\ UNCHANGED <<handlerVars, buf, racing>>
  <2>1. /\ peers' = [peers EXCEPT ![n] = Configured[n]]
        /\ window' = [q \in Queries |-> IF Live(q) THEN window[q] \cup {peers'} ELSE window[q]]
        /\ UNCHANGED <<handlerVars, buf, racing>>
    BY DEF Populate, SetRecord
  <2>2. peers' \in Tables
    BY <2>1 DEF TypeOK, Tables
  <2>3. \A q \in Queries : window[q] \subseteq Tables
    BY DEF TypeOK
  <2>4. window' \in [Queries -> SUBSET Tables]
    BY <2>1, <2>2, <2>3
  <2>. QED  BY <2>1, <2>2, <2>4
<1>1. HandlerShape'
  BY <1>0 DEF HandlerShape, handlerVars
<1>2. TypeOK'
  <2>1. /\ UNCHANGED <<cancelled, conn, starter, loop, stopper>> /\ todo' \subseteq todo
        /\ removed' \subseteq NexusNames
    BY DEF Populate, TypeOK, serverVars
  <2>2. edits' \in 0..MaxEdits
    BY DEF Populate, TypeOK
  <2>3. \A q \in Queries : up'[q] \in 1..(Upstream + 1) /\ window'[q] \subseteq Tables
    BY <1>1 DEF HandlerShape
  <2>. QED  BY <1>0, <2>1, <2>2, <2>3 DEF TypeOK, handlerVars
<1>3. EnteredFirst'
  BY DEF Populate, SetRecord, TypeOK, EnteredFirst, serverVars, tableVars, handlerVars, Live
<1>4. TableKept'
  <2>1. peers \in Tables
    BY DEF TypeOK
  <2>2. UNCHANGED removed
    BY DEF Populate, serverVars
  <2>3. todo' = todo \ {n} /\ Configured[n] # NoIP
    BY DEF Populate
  <2>. QED  BY <1>0, <2>1, <2>2, <2>3 DEF TableKept, Tables
<1>5. WindowCurrent'
  BY <1>0 DEF WindowCurrent, Live, handlerVars
<1>6. AnswerReady'
  <2>1. \A q \in Queries : window[q] \subseteq window'[q]
    BY <1>0 DEF HandlerShape
  <2>2. removed \subseteq removed'
    BY DEF Populate
  <2>. QED  BY <1>0, <2>1, <2>2, FromMore DEF AnswerReady, Missed, handlerVars
<1>7. AnswerWasTrue'
  <2>1. \A q \in Queries : window[q] \subseteq window'[q]
    BY <1>0 DEF HandlerShape
  <2>. QED  BY <1>0, <2>1, FromMore DEF AnswerWasTrue, Replied, handlerVars
<1>8. (WorkShape /\ OwnWork /\ OwnAnswer /\ ConfiguredResolves /\ Answered)'
  <2>. UNCHANGED <<pc, work, up, reply, foreign, removed, conn>>
    BY DEF Populate, SetRecord, serverVars, tableVars, handlerVars
  <2>. QED  BY DEF HandlerShape, WorkShape, Replied, OwnWork, OwnAnswer, ConfiguredResolves,
                   Answered
<1>. QED  BY <1>1, <1>2, <1>3, <1>4, <1>5, <1>6, <1>7, <1>8 DEF DInv

\* AddPeer enters an address.
LEMMA AddStep ==
  ASSUME DInv, NEW n \in NexusNames, NEW ip \in IPs, AddPeer(n, ip)
  PROVE  DInv'
<1>. USE DnsAssumption DEF DInv
<1>0. /\ peers' = [peers EXCEPT ![n] = ip] /\ peers' \in Tables
      /\ window' = [q \in Queries |-> IF Live(q) THEN window[q] \cup {peers'} ELSE window[q]]
      /\ window' \in [Queries -> SUBSET Tables]
      /\ UNCHANGED <<handlerVars, buf, racing>>
  <2>1. /\ peers' = [peers EXCEPT ![n] = ip]
        /\ window' = [q \in Queries |-> IF Live(q) THEN window[q] \cup {peers'} ELSE window[q]]
        /\ UNCHANGED <<handlerVars, buf, racing>>
    BY DEF AddPeer, SetRecord
  <2>2. peers' \in Tables
    BY <2>1 DEF TypeOK, Tables
  <2>3. \A q \in Queries : window[q] \subseteq Tables
    BY DEF TypeOK
  <2>4. window' \in [Queries -> SUBSET Tables]
    BY <2>1, <2>2, <2>3
  <2>. QED  BY <2>1, <2>2, <2>4
<1>1. HandlerShape'
  BY <1>0 DEF HandlerShape, handlerVars
<1>2. TypeOK'
  <2>1. /\ UNCHANGED <<cancelled, conn, starter, loop, stopper>> /\ todo' \subseteq todo
        /\ removed' \subseteq NexusNames
    BY DEF AddPeer, TypeOK, serverVars
  <2>2. edits' \in 0..MaxEdits
    BY DEF AddPeer, TypeOK
  <2>3. \A q \in Queries : up'[q] \in 1..(Upstream + 1) /\ window'[q] \subseteq Tables
    BY <1>1 DEF HandlerShape
  <2>. QED  BY <1>0, <2>1, <2>2, <2>3 DEF TypeOK, handlerVars
<1>3. TableKept'
  <2>1. peers \in Tables
    BY DEF TypeOK
  <2>2. UNCHANGED <<removed, todo>>
    BY DEF AddPeer, serverVars
  <2>3. ip # NoIP
    BY DEF AddPeer
  <2>. QED  BY <1>0, <2>1, <2>2, <2>3 DEF TableKept, Tables
<1>4. WindowCurrent'
  BY <1>0 DEF WindowCurrent, Live, handlerVars
<1>5. AnswerReady'
  <2>1. \A q \in Queries : window[q] \subseteq window'[q]
    BY <1>0 DEF HandlerShape
  <2>2. removed \subseteq removed'
    BY DEF AddPeer
  <2>. QED  BY <1>0, <2>1, <2>2, FromMore DEF AnswerReady, Missed, handlerVars
<1>6. AnswerWasTrue'
  <2>1. \A q \in Queries : window[q] \subseteq window'[q]
    BY <1>0 DEF HandlerShape
  <2>. QED  BY <1>0, <2>1, FromMore DEF AnswerWasTrue, Replied, handlerVars
<1>7. (EnteredFirst /\ WorkShape /\ OwnWork /\ OwnAnswer /\ ConfiguredResolves /\ Answered)'
  <2>. UNCHANGED <<loop, starter, todo, pc, work, up, reply, foreign, removed, conn>>
    BY DEF AddPeer, SetRecord, serverVars, tableVars, handlerVars
  <2>. QED  BY DEF EnteredFirst, HandlerShape, WorkShape, Replied, OwnWork, OwnAnswer,
                   ConfiguredResolves, Answered
<1>. QED  BY <1>1, <1>2, <1>3, <1>4, <1>5, <1>6, <1>7 DEF DInv

\* RemovePeer excuses the name.
LEMMA RemoveStep ==
  ASSUME DInv, NEW n \in NexusNames, RemovePeer(n)
  PROVE  DInv'
<1>. USE DnsAssumption DEF DInv
<1>0. /\ peers' = [peers EXCEPT ![n] = NoIP] /\ peers' \in Tables
      /\ window' = [q \in Queries |-> IF Live(q) THEN window[q] \cup {peers'} ELSE window[q]]
      /\ window' \in [Queries -> SUBSET Tables]
      /\ UNCHANGED <<handlerVars, buf, racing>>
  <2>1. /\ peers' = [peers EXCEPT ![n] = NoIP]
        /\ window' = [q \in Queries |-> IF Live(q) THEN window[q] \cup {peers'} ELSE window[q]]
        /\ UNCHANGED <<handlerVars, buf, racing>>
    BY DEF RemovePeer, SetRecord
  <2>2. peers' \in Tables
    BY <2>1 DEF TypeOK, Tables
  <2>3. \A q \in Queries : window[q] \subseteq Tables
    BY DEF TypeOK
  <2>4. window' \in [Queries -> SUBSET Tables]
    BY <2>1, <2>2, <2>3
  <2>. QED  BY <2>1, <2>2, <2>4
<1>1. HandlerShape'
  BY <1>0 DEF HandlerShape, handlerVars
<1>2. TypeOK'
  <2>1. /\ UNCHANGED <<cancelled, conn, starter, loop, stopper>> /\ todo' \subseteq todo
        /\ removed' \subseteq NexusNames
    BY DEF RemovePeer, TypeOK, serverVars
  <2>2. edits' \in 0..MaxEdits
    BY DEF RemovePeer, TypeOK
  <2>3. \A q \in Queries : up'[q] \in 1..(Upstream + 1) /\ window'[q] \subseteq Tables
    BY <1>1 DEF HandlerShape
  <2>. QED  BY <1>0, <2>1, <2>2, <2>3 DEF TypeOK, handlerVars
<1>3. TableKept'
  <2>1. peers \in Tables
    BY DEF TypeOK
  <2>2. UNCHANGED todo
    BY DEF RemovePeer, serverVars
  <2>3. removed' = removed \cup {n}
    BY DEF RemovePeer
  <2>. QED  BY <1>0, <2>1, <2>2, <2>3 DEF TableKept, Tables
<1>4. WindowCurrent'
  BY <1>0 DEF WindowCurrent, Live, handlerVars
<1>5. AnswerReady'
  <2>1. \A q \in Queries : window[q] \subseteq window'[q]
    BY <1>0 DEF HandlerShape
  <2>2. removed \subseteq removed'
    BY DEF RemovePeer
  <2>. QED  BY <1>0, <2>1, <2>2, FromMore DEF AnswerReady, Missed, handlerVars
<1>6. AnswerWasTrue'
  <2>1. \A q \in Queries : window[q] \subseteq window'[q]
    BY <1>0 DEF HandlerShape
  <2>. QED  BY <1>0, <2>1, FromMore DEF AnswerWasTrue, Replied, handlerVars
<1>7. ConfiguredResolves'
  BY DEF RemovePeer, SetRecord, TypeOK, HandlerShape, ConfiguredResolves, Replied,
         serverVars, tableVars, handlerVars, Live
<1>8. (EnteredFirst /\ WorkShape /\ OwnWork /\ OwnAnswer /\ Answered)'
  <2>. UNCHANGED <<loop, starter, todo, pc, work, up, reply, foreign, conn>>
    BY DEF RemovePeer, SetRecord, serverVars, tableVars, handlerVars
  <2>. QED  BY DEF EnteredFirst, HandlerShape, WorkShape, Replied, OwnWork, OwnAnswer, Answered
<1>. QED  BY <1>1, <1>2, <1>3, <1>4, <1>5, <1>6, <1>7, <1>8 DEF DInv

\* A handler begins with a window of one table.
LEMMA ReceiveStep ==
  ASSUME DInv, NEW q \in Queries, Receive(q)
  PROVE  DInv'
<1>. USE DnsAssumption DEF DInv
<1>1. HandlerShape'
  BY DEF Receive, TypeOK, HandlerShape, serverVars, tableVars, handlerVars, Live
<1>2. TypeOK'
  <2>1. /\ UNCHANGED <<cancelled, conn, starter, todo, stopper, peers, edits, removed>>
        /\ loop' = "head"
    BY DEF Receive
  <2>2. buf' \in Query
    <3>1. buf \in Query /\ Datagrams[q] \in Query
      BY DatagramType DEF TypeOK
    <3>. QED  BY <3>1 DEF Receive, Query
  <2>3. pc' \in [Queries -> {"none", "header", "question", "overflow", "lookup", "wildcard",
                                "respond", "forward", "await", "awaitCut", "done"}]
    BY DEF Receive, TypeOK
  <2>4. racing' \in [Queries -> BOOLEAN] /\ foreign' \in [Queries -> BOOLEAN]
    <3>1. racing' = [p \in Queries |-> racing[p] \/ Live(p)] /\ foreign' = foreign
      BY DEF Receive
    <3>. QED  BY <3>1, Zenon DEF TypeOK
  <2>. QED  BY <1>1, <2>1, <2>2, <2>3, <2>4 DEF TypeOK, HandlerShape, Message
<1>3. EnteredFirst'
  BY DEF Receive, TypeOK, EnteredFirst, serverVars, tableVars, handlerVars, Live
<1>4. WindowCurrent'
  BY DEF Receive, TypeOK, HandlerShape, WindowCurrent, Live, serverVars, tableVars, handlerVars
<1>5. WorkShape'
  BY DEF Receive, TypeOK, HandlerShape, WorkShape, Replied, serverVars, tableVars, handlerVars, Live
<1>6. AnswerReady'
  BY DEF Receive, TypeOK, HandlerShape, AnswerReady, Missed, serverVars, tableVars, handlerVars, Live
<1>7. OwnWork'
  BY DEF Receive, TypeOK, HandlerShape, OwnWork, serverVars, tableVars, handlerVars, Live
<1>8. AnswerWasTrue'
  <2>1. ~Replied(q)
    BY DEF Receive, WorkShape
  <2>2. reply' = reply /\ \A r \in Queries \ {q} : window'[r] = window[r]
    BY DEF Receive, HandlerShape
  <2>. QED  BY <2>1, <2>2 DEF AnswerWasTrue, Replied
<1>9. Answered'
  BY DEF Receive, TypeOK, HandlerShape, Answered, Replied, serverVars, tableVars, handlerVars, Live
<1>10. (TableKept /\ OwnAnswer /\ ConfiguredResolves)'
  <2>. UNCHANGED <<peers, removed, todo, reply, foreign>>
    BY DEF Receive, serverVars, tableVars, handlerVars
  <2>. QED  BY DEF TableKept, HandlerShape, OwnAnswer, Replied, ConfiguredResolves
<1>. QED  BY <1>1, <1>2, <1>3, <1>4, <1>5, <1>6, <1>7, <1>8, <1>9, <1>10 DEF DInv

\* A datagram without a header, or a question, ends its handler.
LEMMA DropStep ==
  ASSUME DInv, NEW q \in Queries, TooShort(q) \/ BadQuestion(q)
  PROVE  DInv'
<1>. USE DnsAssumption DEF DInv
<1>0. /\ pc' = [pc EXCEPT ![q] = "done"] /\ racing' = [racing EXCEPT ![q] = FALSE]
      /\ foreign' \in [Queries -> BOOLEAN] /\ \A r \in Queries : foreign[r] => foreign'[r]
      /\ UNCHANGED <<serverVars, tableVars, buf, work, up, reply>>
  BY DEF TooShort, BadQuestion, Saw, Goto, TypeOK
<1>1. TypeOK'
  <2>1. pc' \in [Queries -> {"none", "header", "question", "overflow", "lookup", "wildcard",
                                "respond", "forward", "await", "awaitCut", "done"}]
    BY <1>0 DEF TypeOK
  <2>2. racing' \in [Queries -> BOOLEAN]
    BY <1>0, Zenon DEF TypeOK
  <2>. QED  BY <1>0, <2>1, <2>2 DEF TypeOK, serverVars, tableVars
<1>2. EnteredFirst'
  BY DEF TooShort, BadQuestion, Saw, Goto, TypeOK, EnteredFirst, serverVars, tableVars, handlerVars
<1>3. WindowCurrent'
  BY ZenonT(40) DEF TooShort, BadQuestion, Saw, Goto, TypeOK, HandlerShape, WindowCurrent,
                  Live, serverVars, tableVars, handlerVars
<1>4. WorkShape'
  BY DEF TooShort, BadQuestion, Saw, Goto, TypeOK, HandlerShape, WorkShape, Replied,
         serverVars, tableVars, handlerVars
<1>5. AnswerReady'
  BY DEF TooShort, BadQuestion, Saw, Goto, TypeOK, HandlerShape, AnswerReady, Missed, serverVars,
         tableVars, handlerVars
<1>6. OwnWork'
  BY ZenonT(40) DEF TooShort, BadQuestion, Saw, Goto, TypeOK, HandlerShape, OwnWork,
                  serverVars, tableVars, handlerVars
<1>7. OwnAnswer'
  BY DEF TooShort, BadQuestion, Saw, Goto, TypeOK, HandlerShape, OwnAnswer, Replied,
         serverVars, tableVars, handlerVars
<1>8. Answered'
  <2>1. ASSUME Datagrams[q].form = "good", ~foreign'[q] PROVE FALSE
    <3>1. CASE TooShort(q)
      BY <2>1, <3>1 DEF TooShort
    <3>2. CASE BadQuestion(q)
      <4>1. ~racing[q] /\ buf = Datagrams[q]
        BY <2>1, <3>2 DEF BadQuestion, Saw, TypeOK
      <4>2. Forms(q) = {Datagrams[q].form} /\ ~Cut(q)
        BY <4>1, OwnRead
      <4>. QED  BY <2>1, <3>2, <4>2 DEF BadQuestion
    <3>. QED  BY <3>1, <3>2
  <2>2. \A r \in Queries \ {q} : pc'[r] = pc[r]
    BY <1>0 DEF TypeOK
  <2>. QED  BY <1>0, <2>1, <2>2 DEF Answered, Replied, serverVars
<1>9. (HandlerShape /\ TableKept /\ AnswerWasTrue /\ ConfiguredResolves)'
  <2>. UNCHANGED <<work, reply, up, window, peers, removed, todo>>
    BY DEF TooShort, BadQuestion, Saw, Goto, serverVars, tableVars, handlerVars
  <2>. QED  BY DEF HandlerShape, TableKept, AnswerWasTrue, Replied, ConfiguredResolves
<1>. QED  BY <1>1, <1>2, <1>3, <1>4, <1>5, <1>6, <1>7, <1>8, <1>9 DEF DInv

\* A circle of pointers sends nothing.
LEMMA OverflowStep ==
  ASSUME DInv, NEW q \in Queries, Overflow(q)
  PROVE  DInv'
<1>. USE DnsAssumption DEF DInv
<1>0. /\ pc[q] = "question" /\ pc' = [pc EXCEPT ![q] = "overflow"]
      /\ racing' = [racing EXCEPT ![q] = FALSE]
      /\ foreign' \in [Queries -> BOOLEAN] /\ \A r \in Queries : foreign[r] => foreign'[r]
      /\ UNCHANGED <<serverVars, tableVars, buf, work, up, reply>>
  BY DEF Overflow, Saw, Goto, TypeOK
<1>a. pc'[q] = "overflow" /\ \A r \in Queries \ {q} : pc'[r] = pc[r]
  BY <1>0 DEF TypeOK
<1>1. TypeOK'
  <2>1. pc' \in [Queries -> {"none", "header", "question", "overflow", "lookup", "wildcard",
                                "respond", "forward", "await", "awaitCut", "done"}]
    BY <1>0 DEF TypeOK
  <2>2. racing' \in [Queries -> BOOLEAN]
    BY <1>0, Zenon DEF TypeOK
  <2>. QED  BY <1>0, <2>1, <2>2 DEF TypeOK, serverVars, tableVars
<1>2. EnteredFirst'
  BY <1>0, <1>a DEF EnteredFirst, serverVars
<1>3. WindowCurrent'
  BY <1>0, <1>a DEF WindowCurrent, Live, tableVars
<1>4. WorkShape'
  BY <1>0, <1>a DEF WorkShape, Replied
<1>5. AnswerReady'
  BY <1>0, <1>a DEF AnswerReady, Missed, tableVars
<1>6. OwnWork'
  BY <1>0, <1>a DEF OwnWork
<1>7. OwnAnswer' /\ Answered'
  BY <1>0, <1>a DEF OwnAnswer, Answered, Replied, serverVars
<1>8. (HandlerShape /\ TableKept /\ AnswerWasTrue /\ ConfiguredResolves)'
  <2>. UNCHANGED <<work, reply, up, window, peers, removed, todo>>
    BY <1>0 DEF serverVars, tableVars
  <2>. QED  BY DEF HandlerShape, TableKept, AnswerWasTrue, Replied, ConfiguredResolves
<1>. QED  BY <1>1, <1>2, <1>3, <1>4, <1>5, <1>6, <1>7, <1>8 DEF DInv

\* The id is read.
LEMMA HeaderStep ==
  ASSUME DInv, NEW q \in Queries, ReadHeader(q)
  PROVE  DInv'
<1>. USE DnsAssumption DEF DInv
<1>0. PICK i \in Ids(q), f \in Forms(q) :
         /\ work' = [work EXCEPT ![q].id = i]
         /\ pc' = [pc EXCEPT ![q] = IF f = "empty" THEN "done" ELSE "question"]
         /\ racing' = [racing EXCEPT ![q] = FALSE]
  BY DEF ReadHeader, Goto
<1>. /\ i \in Nat /\ pc[q] = "header" /\ \A r \in Queries : foreign[r] => foreign'[r]
     /\ ~foreign'[q] => i = Datagrams[q].id /\ f = Datagrams[q].form
     /\ UNCHANGED <<serverVars, tableVars, buf, up, reply>>
  <2>1. i \in Nat
    BY <1>0, ReadType
  <2>2. ~foreign'[q] => ~racing[q] /\ buf = Datagrams[q]
    BY DEF ReadHeader, Saw, TypeOK
  <2>3. ~foreign'[q] => i = Datagrams[q].id /\ f = Datagrams[q].form
    BY <1>0, <2>2, OwnRead
  <2>4. \A r \in Queries : foreign[r] => foreign'[r]
    BY DEF ReadHeader, Saw, TypeOK
  <2>. QED  BY <2>1, <2>3, <2>4 DEF ReadHeader
<1>1. HandlerShape'
  BY <1>0 DEF HandlerShape, Message, tableVars
<1>2. TypeOK'
  <2>1. UNCHANGED <<serverVars, tableVars, buf>>
    BY DEF ReadHeader, Saw, Goto
  <2>2. pc' \in [Queries -> {"none", "header", "question", "overflow", "lookup", "wildcard",
                                "respond", "forward", "await", "awaitCut", "done"}]
    BY DEF ReadHeader, Saw, Goto, TypeOK
  <2>3. racing' \in [Queries -> BOOLEAN] /\ foreign' \in [Queries -> BOOLEAN]
    <3>1. racing' = [racing EXCEPT ![q] = FALSE] /\ foreign' \in [Queries -> BOOLEAN]
      BY DEF ReadHeader, Saw, Goto, TypeOK
    <3>. QED  BY <3>1, Zenon DEF TypeOK
  <2>. QED  BY <1>1, <2>1, <2>2, <2>3 DEF TypeOK, HandlerShape, Message, serverVars, tableVars
<1>3. EnteredFirst'
  BY DEF ReadHeader, Saw, Goto, TypeOK, EnteredFirst, serverVars, tableVars, handlerVars
<1>4. WindowCurrent'
  BY DEF ReadHeader, Saw, Goto, TypeOK, HandlerShape, WindowCurrent, Live, serverVars,
         tableVars, handlerVars
<1>5. WorkShape'
  BY DEF ReadHeader, Saw, Goto, TypeOK, HandlerShape, WorkShape, Replied, serverVars,
         tableVars, handlerVars
<1>6. AnswerReady'
  <2>1. /\ \A r \in Queries \ {q} : pc'[r] = pc[r] /\ work'[r] = work[r]
        /\ pc'[q] \notin {"wildcard", "respond"} /\ window' = window /\ removed' = removed
    BY <1>0 DEF TypeOK, HandlerShape, tableVars
  <2>. QED  BY <2>1 DEF AnswerReady, Missed
<1>7. OwnWork'
  BY <1>0 DEF TypeOK, HandlerShape, Message, OwnWork
<1>8. OwnAnswer'
  BY DEF ReadHeader, Saw, Goto, TypeOK, HandlerShape, OwnAnswer, Replied, serverVars,
         tableVars, handlerVars
<1>9. Answered'
  BY <1>0 DEF TypeOK, Answered, Replied, serverVars
<1>10. (TableKept /\ AnswerWasTrue /\ ConfiguredResolves)'
  <2>. UNCHANGED <<peers, removed, todo, reply, window>>
    BY DEF ReadHeader, Saw, Goto, serverVars, tableVars, handlerVars
  <2>. QED  BY DEF TableKept, HandlerShape, AnswerWasTrue, Replied, ConfiguredResolves
<1>. QED  BY <1>1, <1>2, <1>3, <1>4, <1>5, <1>6, <1>7, <1>8, <1>9, <1>10 DEF DInv

\* The name is read.
LEMMA QuestionStep ==
  ASSUME DInv, NEW q \in Queries, ReadQuestion(q)
  PROVE  DInv'
<1>. USE DnsAssumption DEF DInv
<1>0. PICK n \in Texts(q), t \in Kinds(q) :
         /\ work' = [work EXCEPT ![q].name = n]
         /\ pc' = [pc EXCEPT ![q] = IF n \in NexusNames /\ t = "A" THEN "lookup" ELSE "forward"]
         /\ racing' = [racing EXCEPT ![q] = FALSE]
  BY DEF ReadQuestion, Goto
<1>. /\ n \in Names /\ pc[q] = "question" /\ \A r \in Queries : foreign[r] => foreign'[r]
     /\ ~foreign'[q] => n = Datagrams[q].name
     /\ UNCHANGED <<serverVars, tableVars, buf, up, reply>>
  <2>1. n \in Names
    BY <1>0, ReadType
  <2>2. ~foreign'[q] => ~racing[q] /\ buf = Datagrams[q]
    BY DEF ReadQuestion, Saw, TypeOK
  <2>3. ~foreign'[q] => n = Datagrams[q].name
    BY <1>0, <2>2, OwnRead
  <2>4. \A r \in Queries : foreign[r] => foreign'[r]
    BY DEF ReadQuestion, Saw, TypeOK
  <2>. QED  BY <2>1, <2>3, <2>4 DEF ReadQuestion
<1>1. HandlerShape'
  BY <1>0 DEF HandlerShape, Message, tableVars
<1>2. TypeOK'
  <2>1. UNCHANGED <<serverVars, tableVars, buf>>
    BY DEF ReadQuestion, Saw, Goto
  <2>2. pc' \in [Queries -> {"none", "header", "question", "overflow", "lookup", "wildcard",
                                "respond", "forward", "await", "awaitCut", "done"}]
    BY DEF ReadQuestion, Saw, Goto, TypeOK
  <2>3. racing' \in [Queries -> BOOLEAN] /\ foreign' \in [Queries -> BOOLEAN]
    <3>1. racing' = [racing EXCEPT ![q] = FALSE] /\ foreign' \in [Queries -> BOOLEAN]
      BY DEF ReadQuestion, Saw, Goto, TypeOK
    <3>. QED  BY <3>1, Zenon DEF TypeOK
  <2>. QED  BY <1>1, <2>1, <2>2, <2>3 DEF TypeOK, HandlerShape, Message, serverVars, tableVars
<1>3. EnteredFirst'
  BY DEF ReadQuestion, Saw, Goto, TypeOK, EnteredFirst, serverVars, tableVars, handlerVars
<1>4. WindowCurrent'
  BY DEF ReadQuestion, Saw, Goto, TypeOK, HandlerShape, WindowCurrent, Live, serverVars,
         tableVars, handlerVars
<1>5. WorkShape'
  BY DEF ReadQuestion, Saw, Goto, TypeOK, HandlerShape, WorkShape, Replied, serverVars,
         tableVars, handlerVars
<1>6. AnswerReady'
  <2>1. /\ \A r \in Queries \ {q} : pc'[r] = pc[r] /\ work'[r] = work[r]
        /\ pc'[q] \notin {"wildcard", "respond"} /\ window' = window /\ removed' = removed
    BY <1>0 DEF TypeOK, HandlerShape, tableVars
  <2>. QED  BY <2>1 DEF AnswerReady, Missed
<1>7. OwnWork'
  <2>1. \A r \in Reliable : up[q] <= r
    BY DEF WorkShape
  <2>. QED  BY <1>0, <2>1 DEF TypeOK, HandlerShape, Message, OwnWork
<1>8. OwnAnswer'
  BY DEF ReadQuestion, Saw, Goto, TypeOK, HandlerShape, OwnAnswer, Replied, serverVars,
         tableVars, handlerVars
<1>9. Answered'
  BY DEF ReadQuestion, Saw, Goto, TypeOK, HandlerShape, Answered, Replied, serverVars,
         tableVars, handlerVars
<1>10. (TableKept /\ AnswerWasTrue /\ ConfiguredResolves)'
  <2>. UNCHANGED <<peers, removed, todo, reply, window>>
    BY DEF ReadQuestion, Saw, Goto, serverVars, tableVars, handlerVars
  <2>. QED  BY DEF TableKept, HandlerShape, AnswerWasTrue, Replied, ConfiguredResolves
<1>. QED  BY <1>1, <1>2, <1>3, <1>4, <1>5, <1>6, <1>7, <1>8, <1>9, <1>10 DEF DInv

\* The first section finds the record, or that there is none.
LEMMA LookupStep ==
  ASSUME DInv, NEW q \in Queries, Lookup(q)
  PROVE  DInv'
<1>. USE DnsAssumption DEF DInv
<1>0. /\ pc[q] = "lookup" /\ work[q].name \in NexusNames /\ work[q].ans = {}
      /\ peers \in window[q] /\ peers \in Tables
      /\ \/ /\ peers[work[q].name] # NoIP
            /\ work' = [work EXCEPT ![q].ans = {peers[work[q].name]}]
            /\ pc' = [pc EXCEPT ![q] = "respond"]
         \/ /\ peers[work[q].name] = NoIP /\ work[q].name = Wild /\ work' = work
            /\ pc' = [pc EXCEPT ![q] = "wildcard"]
         \/ /\ peers[work[q].name] = NoIP /\ work[q].name # Wild /\ work' = work
            /\ pc' = [pc EXCEPT ![q] = "respond"]
      /\ racing' = [racing EXCEPT ![q] = FALSE]
      /\ UNCHANGED <<serverVars, tableVars, buf, up, reply, foreign>>
  BY DEF Lookup, Goto, WorkShape, WindowCurrent, Live, TypeOK
<1>1. HandlerShape'
  <2>1. ASSUME peers[work[q].name] # NoIP PROVE {peers[work[q].name]} \subseteq IPs
    BY <1>0, <2>1 DEF Tables
  <2>2. work' \in [Queries -> Message]
    <3>1. CASE work' = work
      BY <3>1 DEF HandlerShape
    <3>2. CASE peers[work[q].name] # NoIP /\ work' = [work EXCEPT ![q].ans = {peers[work[q].name]}]
      <4>. DEFINE found == {peers[work[q].name]}
      <4>1. found \in SUBSET (IPs \cup {NoIP, "upstream"}) /\ work' = [work EXCEPT ![q].ans = found]
        BY <2>1, <3>2
      <4>. HIDE DEF found
      <4>. QED  BY <4>1 DEF HandlerShape, Message
    <3>. QED  BY <1>0, <3>1, <3>2
  <2>. QED  BY <1>0, <2>2 DEF HandlerShape, tableVars
<1>2. TypeOK'
  <2>1. UNCHANGED <<serverVars, tableVars, buf>>
    BY DEF Lookup, Goto
  <2>2. pc' \in [Queries -> {"none", "header", "question", "overflow", "lookup", "wildcard",
                                "respond", "forward", "await", "awaitCut", "done"}]
    BY DEF Lookup, Goto, TypeOK
  <2>3. racing' \in [Queries -> BOOLEAN] /\ foreign' \in [Queries -> BOOLEAN]
    <3>1. racing' = [racing EXCEPT ![q] = FALSE] /\ foreign' = foreign
      BY DEF Lookup, Goto
    <3>. QED  BY <3>1, Zenon DEF TypeOK
  <2>. QED  BY <1>1, <2>1, <2>2, <2>3 DEF TypeOK, HandlerShape, Message, serverVars, tableVars
<1>3. EnteredFirst'
  BY DEF Lookup, Goto, TypeOK, EnteredFirst, serverVars, tableVars, handlerVars
<1>4. WindowCurrent'
  BY DEF Lookup, Goto, TypeOK, HandlerShape, WindowCurrent, Live, serverVars, tableVars, handlerVars
<1>5. WorkShape'
  BY <1>0 DEF TypeOK, HandlerShape, Message, WorkShape, Replied
<1>6. AnswerReady'
  <2>1. /\ \A r \in Queries \ {q} : pc'[r] = pc[r] /\ work'[r] = work[r]
        /\ work'[q].name = work[q].name /\ window' = window /\ removed' = removed
    BY <1>0 DEF TypeOK, HandlerShape, Message, tableVars
  <2>2. ASSUME pc'[q] = "respond"
        PROVE  FromTable(window'[q], work'[q].name, work'[q].ans)
    <3>1. /\ work'[q].ans = {peers[work[q].name]} \ {NoIP}
          /\ ~(work[q].name = Wild /\ peers[work[q].name] = NoIP)
      BY <1>0, <2>2 DEF TypeOK, HandlerShape, Message
    <3>2. work'[q].ans = Resolve(peers, work[q].name)
      BY <3>1 DEF Resolve
    <3>. QED  BY <1>0, <2>1, <3>2, Zenon DEF FromTable
  <2>4. Missed(q)'
    BY <1>0, <2>1 DEF Missed, TypeOK
  <2>3. ASSUME pc'[q] = "respond", work[q].name \in DOMAIN Configured \ removed
        PROVE  work'[q].ans # {}
    <3>1. todo = {}
      BY <1>0 DEF EnteredFirst
    <3>2. peers[work[q].name] # NoIP
      BY <2>3, <3>1 DEF TableKept
    <3>3. work' = [work EXCEPT ![q].ans = {peers[work[q].name]}]
      BY <1>0, <3>2
    <3>. QED  BY <3>3 DEF HandlerShape, Message
  <2>. QED  BY <1>0, <2>1, <2>2, <2>3, <2>4 DEF AnswerReady, Missed
<1>7. OwnWork'
  <2>1. /\ \A r \in Queries \ {q} : pc'[r] = pc[r] /\ work'[r] = work[r]
        /\ work'[q].name = work[q].name /\ work'[q].id = work[q].id
        /\ pc'[q] \in {"respond", "wildcard"} /\ up' = up /\ foreign' = foreign
    BY <1>0 DEF TypeOK, HandlerShape, Message
  <2>. QED  BY <1>0, <2>1 DEF OwnWork
<1>8. Answered'
  BY DEF Lookup, Goto, TypeOK, HandlerShape, Answered, Replied, serverVars, tableVars, handlerVars
<1>9. (TableKept /\ OwnAnswer /\ AnswerWasTrue /\ ConfiguredResolves)'
  <2>. UNCHANGED <<peers, removed, todo, reply, foreign, window>>
    BY DEF Lookup, Goto, serverVars, tableVars, handlerVars
  <2>. QED  BY DEF TableKept, HandlerShape, OwnAnswer, Replied, AnswerWasTrue, ConfiguredResolves
<1>. QED  BY <1>1, <1>2, <1>3, <1>4, <1>5, <1>6, <1>7, <1>8, <1>9 DEF DInv

\* The second section takes every address of one table.
LEMMA WildcardStep ==
  ASSUME DInv, NEW q \in Queries, Wildcard(q)
  PROVE  DInv'
<1>. USE DnsAssumption DEF DInv
<1>1. HandlerShape'
  <2>1. AllIPs(peers) \subseteq IPs
    BY DEF TypeOK, Tables, AllIPs
  <2>2. work' = [work EXCEPT ![q].ans = AllIPs(peers)] /\ UNCHANGED <<reply, up, window>>
    BY DEF Wildcard, tableVars
  <2>. QED  BY <2>1, <2>2 DEF HandlerShape, Message
<1>2. TypeOK'
  <2>1. UNCHANGED <<serverVars, tableVars, buf>>
    BY DEF Wildcard, Goto
  <2>2. pc' \in [Queries -> {"none", "header", "question", "overflow", "lookup", "wildcard",
                                "respond", "forward", "await", "awaitCut", "done"}]
    BY DEF Wildcard, Goto, TypeOK
  <2>3. racing' \in [Queries -> BOOLEAN] /\ foreign' \in [Queries -> BOOLEAN]
    <3>1. racing' = [racing EXCEPT ![q] = FALSE] /\ foreign' = foreign
      BY DEF Wildcard, Goto
    <3>. QED  BY <3>1, Zenon DEF TypeOK
  <2>. QED  BY <1>1, <2>1, <2>2, <2>3 DEF TypeOK, HandlerShape, Message, serverVars, tableVars
<1>3. EnteredFirst'
  BY DEF Wildcard, Goto, TypeOK, EnteredFirst, serverVars, tableVars, handlerVars
<1>4. WindowCurrent'
  BY DEF Wildcard, Goto, TypeOK, HandlerShape, WindowCurrent, Live, serverVars, tableVars,
         handlerVars
<1>5. WorkShape'
  BY DEF Wildcard, Goto, TypeOK, HandlerShape, WorkShape, Replied, serverVars, tableVars,
         handlerVars
<1>6. AnswerReady'
  <2>1. /\ pc[q] = "wildcard" /\ pc' = [pc EXCEPT ![q] = "respond"]
        /\ work' = [work EXCEPT ![q].ans = AllIPs(peers)]
        /\ window' = window /\ removed' = removed
    BY DEF Wildcard, Goto, tableVars
  <2>2. /\ \A r \in Queries \ {q} : pc'[r] = pc[r] /\ work'[r] = work[r]
        /\ work'[q].ans = AllIPs(peers) /\ work'[q].name = Wild
    BY <2>1 DEF TypeOK, HandlerShape, Message, WorkShape
  <2>3. peers \in window[q] /\ \E before \in window[q] : before[Wild] = NoIP
    BY <2>1 DEF WindowCurrent, Live, AnswerReady, Missed
  <2>4. FromTable(window[q], Wild, AllIPs(peers))
    BY <2>3, Zenon DEF FromTable
  <2>5. ASSUME Wild \in DOMAIN Configured \ removed PROVE AllIPs(peers) # {}
    <3>1. todo = {}
      BY <2>1 DEF EnteredFirst
    <3>2. peers[Wild] # NoIP
      BY <2>5, <3>1 DEF TableKept
    <3>3. peers[Wild] \in AllIPs(peers)
      BY <3>2, Zenon DEF AllIPs
    <3>. QED  BY <3>3
  <2>6. pc'[q] = "respond" /\ Wild \in NexusNames
    BY <2>1 DEF TypeOK
  <2>. QED  BY <2>1, <2>2, <2>4, <2>5, <2>6 DEF AnswerReady, Missed
<1>7. OwnWork'
  BY DEF Wildcard, Goto, TypeOK, HandlerShape, OwnWork, serverVars, tableVars, handlerVars
<1>8. Answered'
  BY DEF Wildcard, Goto, TypeOK, HandlerShape, Answered, Replied, serverVars, tableVars, handlerVars
<1>9. (TableKept /\ OwnAnswer /\ AnswerWasTrue /\ ConfiguredResolves)'
  <2>. UNCHANGED <<peers, removed, todo, reply, foreign, window>>
    BY DEF Wildcard, Goto, serverVars, tableVars, handlerVars
  <2>. QED  BY DEF TableKept, HandlerShape, OwnAnswer, Replied, AnswerWasTrue, ConfiguredResolves
<1>. QED  BY <1>1, <1>2, <1>3, <1>4, <1>5, <1>6, <1>7, <1>8, <1>9 DEF DInv

\* What was gathered is sent.
LEMMA RespondStep ==
  ASSUME DInv, NEW q \in Queries, Respond(q)
  PROVE  DInv'
<1>. USE DnsAssumption DEF DInv
<1>0. /\ pc[q] \in {"respond"} /\ pc' = [pc EXCEPT ![q] = "done"]
      /\ reply' = IF conn = "open" THEN [reply EXCEPT ![q] = work[q]] ELSE reply
      /\ racing' = [racing EXCEPT ![q] = FALSE]
      /\ UNCHANGED <<serverVars, tableVars, buf, work, up, foreign>>
  BY DEF Respond, WriteToUDP, Goto
<1>. /\ \A r \in Queries \ {q} : pc'[r] = pc[r] /\ reply'[r] = reply[r]
     /\ reply'[q] \in {reply[q], work[q]} /\ conn = "open" => reply'[q] = work[q]
     /\ work[q].ans # {NoIP} /\ work[q] # NoReply
  <2>1. work[q].ans # {NoIP}
    <3>1. PICK table \in window[q] :
             work[q].ans = Resolve(table, work[q].name) \/ work[q].ans = AllIPs(table)
      BY <1>0 DEF AnswerReady, FromTable
    <3>2. table \in Tables /\ work[q].name \in NexusNames
      BY <1>0 DEF AnswerReady, HandlerShape
    <3>3. NoIP \notin work[q].ans
      BY <3>1, <3>2, ResolveType, AllIPsType
    <3>. QED  BY <3>3
  <2>. QED  BY <1>0, <2>1, NoReplyAns DEF TypeOK, HandlerShape
<1>1. HandlerShape'
  BY <1>0 DEF HandlerShape, tableVars
<1>2. TypeOK'
  <2>1. UNCHANGED <<serverVars, tableVars, buf>>
    BY DEF Respond, Goto
  <2>2. pc' \in [Queries -> {"none", "header", "question", "overflow", "lookup", "wildcard",
                                "respond", "forward", "await", "awaitCut", "done"}]
    BY DEF Respond, Goto, TypeOK
  <2>3. racing' \in [Queries -> BOOLEAN] /\ foreign' \in [Queries -> BOOLEAN]
    <3>1. racing' = [racing EXCEPT ![q] = FALSE] /\ foreign' = foreign
      BY DEF Respond, Goto
    <3>. QED  BY <3>1, Zenon DEF TypeOK
  <2>. QED  BY <1>1, <2>1, <2>2, <2>3 DEF TypeOK, HandlerShape, Message, serverVars, tableVars
<1>3. EnteredFirst'
  BY DEF Respond, WriteToUDP, Goto, TypeOK, EnteredFirst, serverVars, tableVars, handlerVars
<1>4. WindowCurrent'
  BY DEF Respond, WriteToUDP, Goto, TypeOK, HandlerShape, WindowCurrent, Live, serverVars,
         tableVars, handlerVars
<1>5. WorkShape'
  BY DEF Respond, WriteToUDP, Goto, TypeOK, HandlerShape, WorkShape, Replied, serverVars,
         tableVars, handlerVars
<1>6. AnswerReady'
  BY DEF Respond, WriteToUDP, Goto, TypeOK, HandlerShape, AnswerReady, Missed, serverVars,
         tableVars, handlerVars
<1>7. OwnWork'
  BY DEF Respond, WriteToUDP, Goto, TypeOK, HandlerShape, OwnWork, serverVars, tableVars,
         handlerVars
<1>8. OwnAnswer'
  <2>1. ~foreign[q] => work[q].id = Datagrams[q].id /\ work[q].name = Datagrams[q].name
    BY <1>0 DEF OwnWork
  <2>. QED  BY <1>0, <2>1 DEF OwnAnswer, Replied
<1>9. AnswerWasTrue'
  <2>1. FromTable(window[q], work[q].name, work[q].ans)
    BY <1>0 DEF AnswerReady
  <2>. QED  BY <1>0, <2>1 DEF AnswerWasTrue, Replied, tableVars
<1>10. ConfiguredResolves'
  <2>1. work[q].name \in DOMAIN Configured \ removed => work[q].ans # {}
    BY <1>0 DEF AnswerReady
  <2>. QED  BY <1>0, <2>1 DEF ConfiguredResolves, Replied, tableVars
<1>11. Answered'
  BY <1>0 DEF Answered, Replied, serverVars
<1>12. (TableKept)'
  <2>. UNCHANGED <<peers, removed, todo>>
    BY DEF Respond, WriteToUDP, Goto, serverVars, tableVars, handlerVars
  <2>. QED  BY DEF TableKept
<1>. QED  BY <1>1, <1>2, <1>3, <1>4, <1>5, <1>6, <1>7, <1>8, <1>9, <1>10, <1>11, <1>12 DEF DInv

\* The query goes to the next upstream server.
LEMMA ForwardStep ==
  ASSUME DInv, NEW q \in Queries, Forward(q)
  PROVE  DInv'
<1>. USE DnsAssumption DEF DInv
<1>0. PICK i \in Ids(q), n \in Texts(q), whole \in BOOLEAN :
         /\ ~whole => Cut(q)
         /\ work' = [work EXCEPT ![q] = [id |-> i, name |-> n, ans |-> External]]
         /\ pc' = [pc EXCEPT ![q] = IF whole THEN "await" ELSE "awaitCut"]
         /\ racing' = [racing EXCEPT ![q] = FALSE]
  BY DEF Forward, Goto
<1>. /\ i \in Nat /\ n \in Names /\ pc[q] = "forward" /\ up[q] <= Upstream
     /\ \A r \in Queries : foreign[r] => foreign'[r]
     /\ ~foreign'[q] => i = Datagrams[q].id /\ n = Datagrams[q].name /\ whole
     /\ UNCHANGED <<serverVars, tableVars, buf, up, reply>>
  <2>1. i \in Nat /\ n \in Names
    BY <1>0, ReadType
  <2>2. ~foreign'[q] => ~racing[q] /\ buf = Datagrams[q]
    BY DEF Forward, Saw, TypeOK
  <2>3. ~foreign'[q] => i = Datagrams[q].id /\ n = Datagrams[q].name /\ whole
    BY <1>0, <2>2, OwnRead
  <2>4. \A r \in Queries : foreign[r] => foreign'[r]
    BY DEF Forward, Saw, TypeOK
  <2>. QED  BY <2>1, <2>3, <2>4 DEF Forward
<1>1. HandlerShape'
  <2>1. [id |-> i, name |-> n, ans |-> External] \in Message
    BY DEF Message, External
  <2>. QED  BY <1>0, <2>1 DEF HandlerShape, tableVars
<1>2. TypeOK'
  <2>1. UNCHANGED <<serverVars, tableVars, buf>>
    BY DEF Forward, Saw, Goto
  <2>2. pc' \in [Queries -> {"none", "header", "question", "overflow", "lookup", "wildcard",
                                "respond", "forward", "await", "awaitCut", "done"}]
    BY DEF Forward, Saw, Goto, TypeOK
  <2>3. racing' \in [Queries -> BOOLEAN] /\ foreign' \in [Queries -> BOOLEAN]
    <3>1. racing' = [racing EXCEPT ![q] = FALSE] /\ foreign' \in [Queries -> BOOLEAN]
      BY DEF Forward, Saw, Goto, TypeOK
    <3>. QED  BY <3>1, Zenon DEF TypeOK
  <2>. QED  BY <1>1, <2>1, <2>2, <2>3 DEF TypeOK, HandlerShape, Message, serverVars, tableVars
<1>3. EnteredFirst'
  BY DEF Forward, Saw, Goto, TypeOK, EnteredFirst, serverVars, tableVars, handlerVars
<1>4. WindowCurrent'
  BY DEF Forward, Saw, Goto, TypeOK, HandlerShape, WindowCurrent, Live, serverVars,
         tableVars, handlerVars
<1>5. WorkShape'
  BY DEF Forward, Saw, Goto, TypeOK, HandlerShape, WorkShape, Replied, serverVars,
         tableVars, handlerVars
<1>6. AnswerReady'
  BY DEF Forward, Saw, Goto, TypeOK, HandlerShape, AnswerReady, Missed, serverVars, tableVars, handlerVars
<1>7. OwnWork'
  BY <1>0 DEF TypeOK, HandlerShape, OwnWork
<1>8. OwnAnswer'
  BY DEF Forward, Saw, Goto, TypeOK, HandlerShape, OwnAnswer, Replied, serverVars,
         tableVars, handlerVars
<1>9. Answered'
  BY DEF Forward, Saw, Goto, TypeOK, HandlerShape, Answered, Replied, serverVars, tableVars,
         handlerVars
<1>10. (TableKept /\ AnswerWasTrue /\ ConfiguredResolves)'
  <2>. UNCHANGED <<peers, removed, todo, reply, window>>
    BY DEF Forward, Saw, Goto, serverVars, tableVars, handlerVars
  <2>. QED  BY DEF TableKept, HandlerShape, AnswerWasTrue, Replied, ConfiguredResolves
<1>. QED  BY <1>1, <1>2, <1>3, <1>4, <1>5, <1>6, <1>7, <1>8, <1>9, <1>10 DEF DInv

\* The upstream server's answer is sent.
LEMMA AnswersStep ==
  ASSUME DInv, NEW q \in Queries, UpstreamAnswers(q)
  PROVE  DInv'
<1>. USE DnsAssumption DEF DInv
<1>0. /\ pc[q] \in {"await", "awaitCut"} /\ pc' = [pc EXCEPT ![q] = "done"]
      /\ reply' = IF conn = "open" THEN [reply EXCEPT ![q] = work[q]] ELSE reply
      /\ racing' = [racing EXCEPT ![q] = FALSE]
      /\ UNCHANGED <<serverVars, tableVars, buf, work, up, foreign>>
  BY DEF UpstreamAnswers, WriteToUDP, Goto
<1>. /\ \A r \in Queries \ {q} : pc'[r] = pc[r] /\ reply'[r] = reply[r]
     /\ reply'[q] \in {reply[q], work[q]} /\ conn = "open" => reply'[q] = work[q]
     /\ work[q].ans # {NoIP} /\ work[q] # NoReply
  <2>1. work[q].ans # {NoIP}
    BY <1>0, NoReplyAns DEF WorkShape
  <2>. QED  BY <1>0, <2>1, NoReplyAns DEF TypeOK, HandlerShape
<1>1. HandlerShape'
  BY <1>0 DEF HandlerShape, tableVars
<1>2. TypeOK'
  <2>1. UNCHANGED <<serverVars, tableVars, buf>>
    BY DEF UpstreamAnswers, Goto
  <2>2. pc' \in [Queries -> {"none", "header", "question", "overflow", "lookup", "wildcard",
                                "respond", "forward", "await", "awaitCut", "done"}]
    BY DEF UpstreamAnswers, Goto, TypeOK
  <2>3. racing' \in [Queries -> BOOLEAN] /\ foreign' \in [Queries -> BOOLEAN]
    <3>1. racing' = [racing EXCEPT ![q] = FALSE] /\ foreign' = foreign
      BY DEF UpstreamAnswers, Goto
    <3>. QED  BY <3>1, Zenon DEF TypeOK
  <2>. QED  BY <1>1, <2>1, <2>2, <2>3 DEF TypeOK, HandlerShape, Message, serverVars, tableVars
<1>3. EnteredFirst'
  BY DEF UpstreamAnswers, WriteToUDP, Goto, TypeOK, EnteredFirst, serverVars, tableVars, handlerVars
<1>4. WindowCurrent'
  BY DEF UpstreamAnswers, WriteToUDP, Goto, TypeOK, HandlerShape, WindowCurrent, Live,
         serverVars, tableVars, handlerVars
<1>5. WorkShape'
  BY DEF UpstreamAnswers, WriteToUDP, Goto, TypeOK, HandlerShape, WorkShape, Replied,
         serverVars, tableVars, handlerVars
<1>6. AnswerReady'
  BY DEF UpstreamAnswers, WriteToUDP, Goto, TypeOK, HandlerShape, AnswerReady, Missed, serverVars,
         tableVars, handlerVars
<1>7. OwnWork'
  BY DEF UpstreamAnswers, WriteToUDP, Goto, TypeOK, HandlerShape, OwnWork, serverVars,
         tableVars, handlerVars
<1>8. OwnAnswer'
  <2>1. ~foreign[q] => work[q].id = Datagrams[q].id /\ work[q].name = Datagrams[q].name
    BY <1>0 DEF OwnWork
  <2>. QED  BY <1>0, <2>1 DEF OwnAnswer, Replied
<1>9. AnswerWasTrue'
  <2>1. work[q].ans = External
    BY <1>0 DEF WorkShape
  <2>. QED  BY <1>0, <2>1 DEF AnswerWasTrue, Replied, tableVars
<1>10. ConfiguredResolves'
  <2>1. work[q].ans # {}
    BY <1>0 DEF WorkShape, External
  <2>. QED  BY <1>0, <2>1 DEF ConfiguredResolves, Replied, tableVars
<1>11. Answered'
  BY <1>0 DEF Answered, Replied, serverVars
<1>12. (TableKept)'
  <2>. UNCHANGED <<peers, removed, todo>>
    BY DEF UpstreamAnswers, WriteToUDP, Goto, serverVars, tableVars, handlerVars
  <2>. QED  BY DEF TableKept
<1>. QED  BY <1>1, <1>2, <1>3, <1>4, <1>5, <1>6, <1>7, <1>8, <1>9, <1>10, <1>11, <1>12 DEF DInv

\* Only a server that is not reliable is passed over.
LEMMA FailsStep ==
  ASSUME DInv, NEW q \in Queries, UpstreamFails(q)
  PROVE  DInv'
<1>. USE DnsAssumption DEF DInv
<1>1. HandlerShape'
  <2>1. up[q] \in 1..Upstream
    BY DEF UpstreamFails, WorkShape, HandlerShape
  <2>2. up' = [up EXCEPT ![q] = up[q] + 1] /\ UNCHANGED <<work, reply, window>>
    BY DEF UpstreamFails, tableVars
  <2>. QED  BY <2>1, <2>2 DEF HandlerShape
<1>2. TypeOK'
  <2>1. UNCHANGED <<serverVars, tableVars, buf>>
    BY DEF UpstreamFails, Goto
  <2>2. pc' \in [Queries -> {"none", "header", "question", "overflow", "lookup", "wildcard",
                                "respond", "forward", "await", "awaitCut", "done"}]
    BY DEF UpstreamFails, Goto, TypeOK
  <2>3. racing' \in [Queries -> BOOLEAN] /\ foreign' \in [Queries -> BOOLEAN]
    <3>1. racing' = [racing EXCEPT ![q] = FALSE] /\ foreign' = foreign
      BY DEF UpstreamFails, Goto
    <3>. QED  BY <3>1, Zenon DEF TypeOK
  <2>. QED  BY <1>1, <2>1, <2>2, <2>3 DEF TypeOK, HandlerShape, Message, serverVars, tableVars
<1>3. EnteredFirst'
  BY DEF UpstreamFails, Goto, TypeOK, EnteredFirst, serverVars, tableVars, handlerVars
<1>4. WindowCurrent'
  BY DEF UpstreamFails, Goto, TypeOK, HandlerShape, WindowCurrent, Live, serverVars,
         tableVars, handlerVars
<1>5. WorkShape'
  BY DEF UpstreamFails, Goto, TypeOK, HandlerShape, WorkShape, Replied, serverVars,
         tableVars, handlerVars
<1>6. AnswerReady'
  BY DEF UpstreamFails, Goto, TypeOK, HandlerShape, AnswerReady, Missed, serverVars, tableVars, handlerVars
<1>7. OwnWork'
  BY DEF UpstreamFails, Goto, TypeOK, HandlerShape, OwnWork, serverVars, tableVars, handlerVars
<1>8. Answered'
  BY DEF UpstreamFails, Goto, TypeOK, HandlerShape, Answered, Replied, serverVars,
         tableVars, handlerVars
<1>9. (TableKept /\ OwnAnswer /\ AnswerWasTrue /\ ConfiguredResolves)'
  <2>. UNCHANGED <<peers, removed, todo, reply, foreign, window>>
    BY DEF UpstreamFails, Goto, serverVars, tableVars, handlerVars
  <2>. QED  BY DEF TableKept, HandlerShape, OwnAnswer, Replied, AnswerWasTrue, ConfiguredResolves
<1>. QED  BY <1>1, <1>2, <1>3, <1>4, <1>5, <1>6, <1>7, <1>8, <1>9 DEF DInv

\* No server is left, so none was reliable.
LEMMA AllFailedStep ==
  ASSUME DInv, NEW q \in Queries, AllFailed(q)
  PROVE  DInv'
<1>. USE DnsAssumption DEF DInv
<1>1. TypeOK'
  BY DEF AllFailed, Goto, TypeOK, HandlerShape, serverVars, tableVars, handlerVars
<1>2. EnteredFirst'
  BY DEF AllFailed, Goto, TypeOK, EnteredFirst, serverVars, tableVars, handlerVars
<1>3. WindowCurrent'
  BY DEF AllFailed, Goto, TypeOK, HandlerShape, WindowCurrent, Live, serverVars, tableVars,
         handlerVars
<1>4. WorkShape'
  BY DEF AllFailed, Goto, TypeOK, HandlerShape, WorkShape, Replied, serverVars, tableVars,
         handlerVars
<1>5. AnswerReady'
  BY DEF AllFailed, Goto, TypeOK, HandlerShape, AnswerReady, Missed, serverVars, tableVars, handlerVars
<1>6. OwnWork'
  BY DEF AllFailed, Goto, TypeOK, HandlerShape, OwnWork, serverVars, tableVars, handlerVars
<1>7. Answered'
  <2>1. ~foreign[q] => Reliable = {}
    <3>1. pc[q] = "forward" /\ up[q] > Upstream /\ up[q] \in Nat
      BY DEF AllFailed, HandlerShape
    <3>2. \A r \in Reliable : r \in Nat /\ r <= Upstream
      OBVIOUS
    <3>3. ~foreign[q] => \A r \in Reliable : up[q] <= r
      BY <3>1 DEF OwnWork
    <3>. QED  BY <3>1, <3>2, <3>3
  <2>2. /\ \A r \in Queries \ {q} : pc'[r] = pc[r]
        /\ UNCHANGED <<conn, foreign, reply>>
    BY DEF AllFailed, Goto, TypeOK, serverVars
  <2>. QED  BY <2>1, <2>2 DEF Answered, Replied
<1>8. (HandlerShape /\ TableKept /\ OwnAnswer /\ AnswerWasTrue /\ ConfiguredResolves)'
  <2>. UNCHANGED <<work, reply, up, window, peers, removed, todo, foreign>>
    BY DEF AllFailed, Goto, serverVars, tableVars, handlerVars
  <2>. QED  BY DEF HandlerShape, TableKept, OwnAnswer, Replied, AnswerWasTrue, ConfiguredResolves
<1>. QED  BY <1>1, <1>2, <1>3, <1>4, <1>5, <1>6, <1>7, <1>8 DEF DInv

LEMMA NextDInv == DInv /\ [Next]_vars => DInv'
<1>. SUFFICES ASSUME DInv, [Next]_vars PROVE DInv'
  OBVIOUS
<1>1. CASE UNCHANGED vars
  BY <1>1 DEF DInv, TypeOK, HandlerShape, EnteredFirst, TableKept, WindowCurrent, Live,
              WorkShape, AnswerReady, Missed, OwnWork, OwnAnswer, AnswerWasTrue, ConfiguredResolves,
              Answered, Replied, vars, serverVars, tableVars, handlerVars
<1>2. CASE Start \/ Spawn \/ Cancel \/ Stop \/ StopReturns \/ LoopHead \/ ReadError
  BY <1>2, StartStep, SpawnStep, StopStep, LifeStep
<1>3. ASSUME NEW n \in DOMAIN Configured, Populate(n) PROVE DInv'
  BY <1>3, PopulateStep
<1>4. ASSUME NEW n \in NexusNames, RemovePeer(n) \/ \E ip \in IPs : AddPeer(n, ip)
      PROVE  DInv'
  BY <1>4, RemoveStep, AddStep
<1>5. ASSUME NEW q \in Queries, Receive(q) \/ Handler(q) PROVE DInv'
  BY <1>5, ReceiveStep, DropStep, OverflowStep, HeaderStep, QuestionStep, LookupStep, WildcardStep,
     RespondStep, ForwardStep, AnswersStep, FailsStep, AllFailedStep DEF Handler
<1>. QED  BY <1>1, <1>2, <1>3, <1>4, <1>5 DEF Next

-----------------------------------------------------------------------------
(* The theorems.                                                           *)

LEMMA Invariance == Spec => []DInv
BY InitDInv, NextDInv, PTL DEF Spec

\* Every reachable state is well typed, and forwardToUpstream never goes past
\* the server after the last.
THEOREM TypeCorrect == Spec => []TypeOK
<1>1. DInv => TypeOK
  BY DEF DInv
<1>. QED  BY <1>1, Invariance, PTL

\* A handler that read its own datagram from the buffer it shares with serveLoop
\* answers its own question under its own id.
THEOREM AnswersItsOwn == Spec => []OwnAnswer
<1>1. DInv => OwnAnswer
  BY DEF DInv
<1>. QED  BY <1>1, Invariance, PTL

\* The two locked sections of handleNexusQuery give an answer that the table gave
\* as a whole at one moment of the query, or, for a wildcard that had no record at
\* one moment of it, all the addresses the table held at one.
THEOREM AnswersFromOneTable == Spec => []AnswerWasTrue
<1>1. DInv => AnswerWasTrue
  BY DEF DInv
<1>. QED  BY <1>1, Invariance, PTL

\* Start enters the configured peers before serveLoop runs: none of them is ever
\* denied unless RemovePeer was called with it.
THEOREM NeverDenied == Spec => []ConfiguredResolves
<1>1. DInv => ConfiguredResolves
  BY DEF DInv
<1>. QED  BY <1>1, Invariance, PTL

\* A handler that read its own well-formed query ends only with an answer sent,
\* while the socket is open and some upstream server answers.
THEOREM NoneLeftUnanswered == Spec => []Answered
<1>1. DInv => Answered
  BY DEF DInv
<1>. QED  BY <1>1, Invariance, PTL
=============================================================================
