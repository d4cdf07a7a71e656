-------------------------- MODULE RelayRefinement --------------------------
(***************************************************************************)
(* The relay implements Mailbox.  A data frame or a ping is a letter from  *)
(* the moment its client writes it: it is pending while it is in the       *)
(* client's stream or in the hands of the handler that read it, and in the *)
(* box while it is in the stream to the client it was forwarded to, where  *)
(* there is nothing else.  The other frames are no letters.                *)
(***************************************************************************)
EXTENDS Relay

IsLetter(f) == f.type \in {"data", "ping"}

\* A ping and its pong are one letter, with no address.
Letter(f) == [via |-> f.via, id |-> f.id,
              to |-> IF f.type = "data" THEN f.dst ELSE NoNode]

\* The letters among the frames of a stream.
Queued(q) == {Letter(q[i]) : i \in {j \in DOMAIN q : IsLetter(q[j])}}

InHand(c) == IF pc[c] = "write" THEN {Letter(wmsg[c])} ELSE {}

Letters(q) == [i \in DOMAIN q |-> Letter(q[i])]

Promise == INSTANCE Mailbox WITH
    owner   <- name,
    posted  <- nsent,
    pending <- [c \in Conns |-> InHand(c) \cup Queued(inq[c])],
    box     <- [c \in Conns |-> Letters(outq[c])]

\* What a node may rely on, whatever the interleaving of its own connection, the
\* other handlers and the takeover of names: forwardToPeer, sendMessage and the
\* handlers' loops deliver each frame at most once, in order, and only to a
\* connection that registered under the name the frame is addressed to.
ImplementsMailbox == Promise!Spec
=============================================================================
