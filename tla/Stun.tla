-------------------------------- MODULE Stun --------------------------------
(***************************************************************************)
(* STUN discovery (stun.go): Discover, bindingRequest and detectNATType,   *)
(* called by several goroutines (a direct call and RunPeriodicDiscovery).  *)
(*                                                                         *)
(* Each bindingRequest dials a new UDP socket, on a local port the system  *)
(* chooses, and closes it; the transaction ID is always the same.  Servers *)
(* and NAT are external: an answer may be lost, or arrive after the 5 s    *)
(* deadline, and a socket takes any answer of its server to its port.      *)
(* What the answer says is how the NAT maps port and server.               *)
(***************************************************************************)
EXTENDS Naturals

CONSTANTS
    Callers,   \* goroutines calling Discover
    NServers,  \* len(cfg.STUN.Servers)
    Ports,     \* local ports
    NAT,       \* the NAT this node is behind: "none", "cone", "symmetric"
    None,      \* no value
    MaxCalls   \* bound on the calls of Discover by each goroutine

Servers == 1..NServers

ASSUME StunAssumption ==
    /\ NServers \in Nat \ {0} /\ MaxCalls \in Nat
    /\ NAT \in {"none", "cone", "symmetric"}

VARIABLES
    pc,       \* where each goroutine is
    server,   \* index of the server it asks
    port,     \* local port of its socket
    first,    \* result of the request of Discover
    answer,   \* result of the latest request
    net,      \* answers on their way, maybe to sockets that are closed by now
    calls,    \* calls of Discover so far
    results, public, natType \* s.results, s.publicIP:publicPort, s.natType

callVars == <<pc, server, port, first, answer>>
clientVars == <<results, public, natType>>
vars == <<callVars, net, calls, clientVars>>

\* The public side of a socket on port p talking to server s.
Mapping(p, s) == [port |-> p, to |-> IF NAT = "symmetric" THEN s ELSE 0]

Mappings == [port : Ports, to : 0..NServers]

Waiting(t) == pc[t] \in {"wait", "detect_wait"}

Init ==
    /\ pc = [t \in Callers |-> "idle"]
    /\ server = [t \in Callers |-> 0]
    /\ port = [t \in Callers |-> None]
    /\ first = [t \in Callers |-> None] /\ answer = [t \in Callers |-> None]
    /\ net = {}
    /\ calls = [t \in Callers |-> 0]
    /\ results = [s \in Servers |-> None]
    /\ public = None
    /\ natType = "NATNone"

\* Discover returns, and so are its locals gone.
Return(t) ==
    /\ pc' = [pc EXCEPT ![t] = "idle"]
    /\ server' = [server EXCEPT ![t] = 0]
    /\ port' = [port EXCEPT ![t] = None]
    /\ first' = [first EXCEPT ![t] = None]
    /\ answer' = [answer EXCEPT ![t] = None]

Discover(t) ==
    /\ pc[t] = "idle" /\ calls[t] < MaxCalls
    /\ calls' = [calls EXCEPT ![t] = @ + 1]
    /\ pc' = [pc EXCEPT ![t] = "dial"]
    /\ server' = [server EXCEPT ![t] = 1]
    /\ UNCHANGED <<port, first, answer, net, clientVars>>

\* bindingRequest: a new socket; the server's answer goes to its port.
Dial(t) ==
    /\ pc[t] \in {"dial", "detect_dial"}
    /\ \E p \in Ports :
          /\ \A u \in Callers : Waiting(u) => port[u] # p
          /\ port' = [port EXCEPT ![t] = p]
          /\ \/ net' = net \cup {[server |-> server[t], port |-> p]}
             \/ net' = net
    /\ pc' = [pc EXCEPT ![t] = IF @ = "dial" THEN "wait" ELSE "detect_wait"]
    /\ UNCHANGED <<server, first, answer, calls, clientVars>>

\* Mutant: the socket is not connected, and takes answers of any server.
ReceiveFromAny(t) ==
    /\ Waiting(t)
    /\ \E r \in net :
          /\ r.port = port[t]
          /\ net' = net \ {r}
          /\ answer' = [answer EXCEPT ![t] = Mapping(r.port, r.server)]
    /\ port' = [port EXCEPT ![t] = None]
    /\ pc' = [pc EXCEPT ![t] = IF @ = "wait" THEN "store" ELSE "classify"]
    /\ UNCHANGED <<server, first, calls, clientVars>>

\* The socket reads an answer: nothing in it tells it from an earlier one.
Receive(t) ==
    /\ Waiting(t)
    /\ \E r \in net :
          /\ r.server = server[t] /\ r.port = port[t]
          /\ net' = net \ {r}
          /\ answer' = [answer EXCEPT ![t] = Mapping(r.port, r.server)]
    /\ port' = [port EXCEPT ![t] = None]
    /\ pc' = [pc EXCEPT ![t] = IF @ = "wait" THEN "store" ELSE "classify"]
    /\ UNCHANGED <<server, first, calls, clientVars>>

\* A socket error, the deadline, or an answer that does not parse: Discover
\* turns to the next server, and gives up after the last.
RequestFails(t) ==
    /\ pc[t] = "wait"
    /\ \/ /\ server[t] < NServers
          /\ server' = [server EXCEPT ![t] = @ + 1]
          /\ port' = [port EXCEPT ![t] = None]
          /\ pc' = [pc EXCEPT ![t] = "dial"]
          /\ UNCHANGED <<first, answer>>
       \/ server[t] = NServers /\ Return(t)
    /\ UNCHANGED <<net, calls, clientVars>>

\* Mutant: whatever server answered is compared with the second one.
StoreClassifiesAny(t) ==
    /\ pc[t] = "store"
    /\ results' = [results EXCEPT ![server[t]] = answer[t]]
    /\ public' = answer[t]
    /\ NServers > 1
    /\ first' = [first EXCEPT ![t] = answer[t]]
    /\ server' = [server EXCEPT ![t] = 2]
    /\ pc' = [pc EXCEPT ![t] = "detect_dial"]
    /\ UNCHANGED <<port, answer, net, calls, natType>>

\* Under s.mu; then the NAT is classified if the first server answered and
\* there is a second.
Store(t) ==
    /\ pc[t] = "store"
    /\ results' = [results EXCEPT ![server[t]] = answer[t]]
    /\ public' = answer[t]
    /\ \/ /\ NServers > 1 /\ server[t] = 1
          /\ first' = [first EXCEPT ![t] = answer[t]]
          /\ server' = [server EXCEPT ![t] = 2]
          /\ pc' = [pc EXCEPT ![t] = "detect_dial"]
          /\ UNCHANGED <<port, answer>>
       \/ (NServers = 1 \/ server[t] # 1) /\ Return(t)
    /\ UNCHANGED <<net, calls, natType>>

\* Mutant: a failed second request is tried again, for ever.
DetectRetries(t) ==
    /\ pc[t] = "detect_wait"
    /\ pc' = [pc EXCEPT ![t] = "detect_dial"]
    /\ port' = [port EXCEPT ![t] = None]
    /\ UNCHANGED <<server, first, answer, net, calls, clientVars>>

\* detectNATType: the second request fails.
DetectFails(t) ==
    /\ pc[t] = "detect_wait"
    /\ natType' = "NATUnknown"
    /\ Return(t)
    /\ UNCHANGED <<net, calls, results, public>>

\* MappedIP and MappedPort agree.
SameMapping(a, b) == a = b

\* detectNATType: compare the two results, under s.mu.
Classify(t) ==
    /\ pc[t] = "classify"
    /\ natType' = IF SameMapping(first[t], answer[t]) THEN "NATFullCone" ELSE "NATSymmetric"
    /\ Return(t)
    /\ UNCHANGED <<net, calls, results, public>>

Step(t) ==
    \/ Dial(t) \/ Receive(t) \/ RequestFails(t) \/ Store(t) \/ DetectFails(t) \/ Classify(t)

Next == \E t \in Callers : Discover(t) \/ Step(t)

Spec == Init /\ [][Next]_vars

\* Every request ends, by its deadline if not before, and goroutines run.
FairSpec == Spec /\ \A t \in Callers : WF_vars(Step(t))

-----------------------------------------------------------------------------
\* Types; two open sockets never have the same port.
TypeOK ==
    /\ pc \in [Callers -> {"idle", "dial", "wait", "store", "detect_dial", "detect_wait",
                           "classify"}]
    /\ server \in [Callers -> 0..NServers]
    /\ port \in [Callers -> Ports \cup {None}]
    /\ net \subseteq [server : Servers, port : Ports]
    /\ first \in [Callers -> Mappings \cup {None}]
    /\ answer \in [Callers -> Mappings \cup {None}]
    /\ results \in [Servers -> Mappings \cup {None}]
    /\ public \in Mappings \cup {None}
    /\ natType \in {"NATNone", "NATFullCone", "NATSymmetric", "NATUnknown"}
    /\ \A t, u \in Callers : t # u /\ Waiting(t) /\ Waiting(u) => port[t] # port[u]

\* A node behind a symmetric NAT, which no direct path goes through, is never
\* taken for one behind a cone NAT, whatever discoveries overlap, whatever is
\* late and whatever ports are used again.
NoFalseCone == natType = "NATFullCone" => NAT # "symmetric"

\* What is stored for a server is what that server said, and the endpoint is
\* what some server said, although late answers are taken for current ones.
ResultOfItsServer ==
    /\ \A s \in Servers : results[s] # None => \E p \in Ports : results[s] = Mapping(p, s)
    /\ public # None => \E s \in Servers : results[s] = public

\* Discover returns although servers may stay silent.
DiscoverReturns == \A t \in Callers : pc[t] # "idle" ~> pc[t] = "idle"
=============================================================================
