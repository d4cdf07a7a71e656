------------------------------ MODULE Mailbox ------------------------------
(***************************************************************************)
(* What the relay promises to the nodes that use it, without sockets,      *)
(* goroutines or a map of clients.  A letter posted on a connection is     *)
(* delivered at most once, after the letters posted on it before, to a     *)
(* connection that has joined under the name it is addressed to; a letter  *)
(* with no address comes back to its sender.  Letters may be lost.         *)
(*                                                                         *)
(* A letter carries its rank, so the letters pending on a connection are a *)
(* set; a box keeps the order of arrival.                                  *)
(***************************************************************************)
EXTENDS Naturals, Sequences

CONSTANTS Conns, Nodes, NoNode

VARIABLES
    owner,   \* the name a connection has joined under, or NoNode
    posted,  \* the rank of the last letter posted on a connection
    pending, \* letters posted on a connection and neither delivered nor lost
    box      \* letters delivered to a connection and not yet taken

vars == <<owner, posted, pending, box>>

Init ==
    /\ owner = [c \in Conns |-> NoNode]
    /\ posted = [c \in Conns |-> 0]
    /\ pending = [c \in Conns |-> {}]
    /\ box = [c \in Conns |-> <<>>]

\* A connection joins under a name, once.
Join(c, n) ==
    /\ owner[c] = NoNode
    /\ owner' = [owner EXCEPT ![c] = n]
    /\ UNCHANGED <<posted, pending, box>>

\* Ranks only grow; a rank may be skipped.
Post(c, to) ==
    /\ posted' = [posted EXCEPT ![c] = @ + 1]
    /\ pending' = [pending EXCEPT ![c] =
                      @ \cup {[via |-> c, id |-> posted[c] + 1, to |-> to]}]
    /\ UNCHANGED <<owner, box>>

Skip(c) ==
    /\ posted' = [posted EXCEPT ![c] = @ + 1]
    /\ UNCHANGED <<owner, pending, box>>

Oldest(c, l) == l \in pending[c] /\ \A m \in pending[c] : l.id <= m.id

\* The pending letters that were posted before the one of rank k.
Before(c, k) == {l \in pending[c] : l.id < k}

\* The oldest pending letter arrives.
Deliver(c, l, d) ==
    /\ Oldest(c, l)
    /\ IF l.to = NoNode THEN d = c ELSE owner[d] = l.to
    /\ pending' = [pending EXCEPT ![c] = @ \ {l}]
    /\ box' = [box EXCEPT ![d] = Append(@, l)]
    /\ UNCHANGED <<owner, posted>>

\* The oldest pending letter is lost, or the younger ones are.
Lose(c) ==
    /\ \/ \E l \in pending[c] :
             Oldest(c, l) /\ pending' = [pending EXCEPT ![c] = @ \ {l}]
       \/ \E k \in 0..(posted[c] + 1) : pending' = [pending EXCEPT ![c] = Before(c, k)]
    /\ UNCHANGED <<owner, posted, box>>

Take(d) ==
    /\ box[d] # <<>>
    /\ box' = [box EXCEPT ![d] = Tail(@)]
    /\ UNCHANGED <<owner, posted, pending>>

\* The connection breaks: its letters not taken are lost, and of those it has
\* posted the younger ones.
Break(c) ==
    /\ box' = [box EXCEPT ![c] = <<>>]
    /\ \E k \in 0..(posted[c] + 1) : pending' = [pending EXCEPT ![c] = Before(c, k)]
    /\ UNCHANGED <<owner, posted>>

Next ==
    \E c \in Conns :
        \/ \E n \in Nodes : Join(c, n)
        \/ Skip(c)
        \/ \E n \in Nodes \cup {NoNode} : Post(c, n)
        \/ \E l \in pending[c], d \in Conns : Deliver(c, l, d)
        \/ Take(c) \/ Lose(c) \/ Break(c)

Spec == Init /\ [][Next]_vars
=============================================================================
