----------------------------- MODULE StunProofs -----------------------------
(***************************************************************************)
(* Proofs about STUN discovery: for every number of servers, every set of  *)
(* goroutines and ports and every kind of NAT, Stun keeps TypeOK,          *)
(* NoFalseCone and ResultOfItsServer.                                      *)
(***************************************************************************)
EXTENDS Stun, TLAPS

\* What a call of Discover has gathered is what the servers it asked have said:
\* before Store the answer of the server it is at, from then on the result of
\* the first server, and at the comparison also that of the second.
CallShape ==
    \A t \in Callers :
        /\ pc[t] # "idle" => server[t] \in Servers
        /\ pc[t] = "store" => \E p \in Ports : answer[t] = Mapping(p, server[t])
        /\ pc[t] \in {"detect_dial", "detect_wait", "classify"} =>
              NServers > 1 /\ server[t] = 2 /\ \E p \in Ports : first[t] = Mapping(p, 1)
        /\ pc[t] = "classify" => \E p \in Ports : answer[t] = Mapping(p, 2)

SInv == TypeOK /\ CallShape /\ NoFalseCone /\ ResultOfItsServer

\* The public side of a socket on a local port talking to a server is a mapping.
LEMMA MappingType ==
    ASSUME NEW p \in Ports, NEW s \in Servers
    PROVE  Mapping(p, s) \in Mappings
  BY StunAssumption DEF Mapping, Mappings, Servers

\* Behind a symmetric NAT the first two servers see different mappings,
\* whatever the local ports.
LEMMA SymmetricDiffers ==
    ASSUME NEW p \in Ports, NEW q \in Ports, NAT = "symmetric"
    PROVE  Mapping(p, 1) # Mapping(q, 2)
  BY DEF Mapping

\* NewSTUNClient starts with no result and no call.
LEMMA InitSInv == Init => SInv
  BY StunAssumption DEF Init, SInv, TypeOK, CallShape, NoFalseCone, ResultOfItsServer,
                        Servers, Waiting, Mappings

\* No step of any call of Discover leaves a wrong type or two sockets on one port.
LEMMA TypeStep == SInv /\ [Next]_vars => TypeOK'
<1> SUFFICES ASSUME SInv, [Next]_vars PROVE TypeOK'
  OBVIOUS
<1> USE StunAssumption DEF SInv, TypeOK, Servers
<1>1. ASSUME NEW t \in Callers, Discover(t) PROVE TypeOK'
  BY <1>1 DEF Discover, Waiting, clientVars
<1>2. ASSUME NEW t \in Callers, Dial(t) PROVE TypeOK'
  BY <1>2 DEF Dial, Waiting, clientVars, CallShape
<1>3. ASSUME NEW t \in Callers, Receive(t) PROVE TypeOK'
  <2>1. PICK r \in net :
           /\ net' = net \ {r}
           /\ answer' = [answer EXCEPT ![t] = Mapping(r.port, r.server)]
    BY <1>3 DEF Receive
  <2>2. r.port \in Ports /\ r.server \in Servers
    BY <2>1
  <2>3. Mapping(r.port, r.server) \in Mappings
    BY <2>2, MappingType
  <2>4. /\ answer' \in [Callers -> Mappings \cup {None}]
        /\ net' \subseteq [server : Servers, port : Ports]
    BY <2>1, <2>3
  <2>5. QED
    BY <1>3, <2>4 DEF Receive, Waiting, clientVars
<1>4. ASSUME NEW t \in Callers, RequestFails(t) PROVE TypeOK'
  <2>1. server[t] \in Servers
    BY <1>4 DEF RequestFails, CallShape
  <2>2. CASE Return(t)
    BY <1>4, <2>2 DEF RequestFails, Return, Waiting, clientVars
  <2>3. CASE /\ server[t] < NServers
             /\ server' = [server EXCEPT ![t] = @ + 1]
             /\ port' = [port EXCEPT ![t] = None]
             /\ pc' = [pc EXCEPT ![t] = "dial"]
             /\ UNCHANGED <<first, answer>>
    <3>1. server' \in [Callers -> 0..NServers] /\ port' \in [Callers -> Ports \cup {None}]
      BY <2>1, <2>3
    <3>2. QED
      BY <1>4, <2>3, <3>1 DEF RequestFails, Waiting, clientVars
  <2>4. QED
    BY <1>4, <2>2, <2>3 DEF RequestFails
<1>5. ASSUME NEW t \in Callers, Store(t) PROVE TypeOK'
  <2>1. /\ results' \in [Servers -> Mappings \cup {None}]
        /\ public' \in Mappings \cup {None}
    BY <1>5 DEF Store
  <2>2. CASE Return(t)
    BY <1>5, <2>1, <2>2 DEF Store, Return, Waiting
  <2>3. CASE /\ NServers > 1
             /\ first' = [first EXCEPT ![t] = answer[t]]
             /\ server' = [server EXCEPT ![t] = 2]
             /\ pc' = [pc EXCEPT ![t] = "detect_dial"]
             /\ UNCHANGED <<port, answer>>
    BY <1>5, <2>1, <2>3 DEF Store, Waiting
  <2>4. QED
    BY <1>5, <2>2, <2>3 DEF Store
<1>6. ASSUME NEW t \in Callers, DetectFails(t) PROVE TypeOK'
  BY <1>6 DEF DetectFails, Return, Waiting
<1>7. ASSUME NEW t \in Callers, Classify(t) PROVE TypeOK'
  BY <1>7 DEF Classify, Return, Waiting
<1>8. CASE UNCHANGED vars
  BY <1>8 DEF vars, callVars, clientVars, Waiting
<1>9. QED
  BY <1>1, <1>2, <1>3, <1>4, <1>5, <1>6, <1>7, <1>8 DEF Next, Step

\* What a call has gathered stays the word of the servers it asked.
LEMMA ShapeStep == SInv /\ [Next]_vars => CallShape'
<1> SUFFICES ASSUME SInv, [Next]_vars PROVE CallShape'
  OBVIOUS
<1> USE StunAssumption DEF SInv, TypeOK, Servers, CallShape
<1>1. ASSUME NEW t \in Callers, Discover(t) PROVE CallShape'
  BY <1>1 DEF Discover
<1>2. ASSUME NEW t \in Callers, Dial(t) PROVE CallShape'
  BY <1>2 DEF Dial
<1>3. ASSUME NEW t \in Callers, Receive(t) PROVE CallShape'
  BY <1>3 DEF Receive, Waiting
<1>4. ASSUME NEW t \in Callers, RequestFails(t) PROVE CallShape'
  BY <1>4 DEF RequestFails, Return
<1>5. ASSUME NEW t \in Callers, Store(t) PROVE CallShape'
  BY <1>5 DEF Store, Return
<1>6. ASSUME NEW t \in Callers, DetectFails(t) PROVE CallShape'
  BY <1>6 DEF DetectFails, Return
<1>7. ASSUME NEW t \in Callers, Classify(t) PROVE CallShape'
  BY <1>7 DEF Classify, Return
<1>8. CASE UNCHANGED vars
  BY <1>8 DEF vars, callVars
<1>9. QED
  BY <1>1, <1>2, <1>3, <1>4, <1>5, <1>6, <1>7, <1>8 DEF Next, Step

\* The NAT is classified by comparing what two servers said, and nowhere else
\* taken for a cone.
LEMMA ConeStep == SInv /\ [Next]_vars => NoFalseCone'
<1> SUFFICES ASSUME SInv, [Next]_vars PROVE NoFalseCone'
  OBVIOUS
<1> USE DEF SInv, NoFalseCone
<1>1. ASSUME NEW t \in Callers, Classify(t) PROVE NoFalseCone'
  <2>1. PICK p \in Ports, q \in Ports : first[t] = Mapping(p, 1) /\ answer[t] = Mapping(q, 2)
    BY <1>1 DEF Classify, CallShape
  <2>2. QED
    BY <1>1, <2>1, SymmetricDiffers DEF Classify, SameMapping
<1>2. ASSUME NEW t \in Callers, DetectFails(t) PROVE NoFalseCone'
  BY <1>2 DEF DetectFails
<1>3. ASSUME NEW t \in Callers,
             Discover(t) \/ Dial(t) \/ Receive(t) \/ RequestFails(t) \/ Store(t)
      PROVE  NoFalseCone'
  BY <1>3 DEF Discover, Dial, Receive, RequestFails, Store, clientVars
<1>4. CASE UNCHANGED vars
  BY <1>4 DEF vars, clientVars
<1>5. QED
  BY <1>1, <1>2, <1>3, <1>4 DEF Next, Step

\* Only the locked section after an answer writes a result.
LEMMA ResultStep == SInv /\ [Next]_vars => ResultOfItsServer'
<1> SUFFICES ASSUME SInv, [Next]_vars PROVE ResultOfItsServer'
  OBVIOUS
<1> USE DEF SInv, ResultOfItsServer
<1>1. ASSUME NEW t \in Callers, Store(t) PROVE ResultOfItsServer'
  BY <1>1 DEF Store, CallShape, TypeOK
<1>2. ASSUME NEW t \in Callers,
             \/ Discover(t) \/ Dial(t) \/ Receive(t) \/ RequestFails(t)
             \/ DetectFails(t) \/ Classify(t)
      PROVE  ResultOfItsServer'
  BY <1>2 DEF Discover, Dial, Receive, RequestFails, DetectFails, Classify, clientVars
<1>3. CASE UNCHANGED vars
  BY <1>3 DEF vars, clientVars
<1>4. QED
  BY <1>1, <1>2, <1>3 DEF Next, Step

\* The parts of the invariant hold together in every state.
LEMMA Invariance == Spec => []SInv
<1>1. SInv /\ [Next]_vars => SInv'
  BY TypeStep, ShapeStep, ConeStep, ResultStep DEF SInv
<1>2. QED
  BY InitSInv, <1>1, PTL DEF Spec

\* The client's fields and the locals of Discover keep their types, and no two
\* open sockets of bindingRequest have the same local port.
THEOREM TypeCorrect == Spec => []TypeOK
  BY Invariance, PTL DEF SInv

\* detectNATType never takes a symmetric NAT for a cone, whatever the overlap of
\* discoveries and whatever late answers a reused port picks up.
THEOREM NeverFalseCone == Spec => []NoFalseCone
  BY Invariance, PTL DEF SInv

\* s.results holds for a server only what that server said, and the public
\* endpoint is one of these.
THEOREM ResultsOwnServer == Spec => []ResultOfItsServer
  BY Invariance, PTL DEF SInv
=============================================================================
