------------------------------- MODULE Noise -------------------------------
(***************************************************************************)
(* The handshake of crypto.go between an initiator and a responder.        *)
(*                                                                         *)
(* Cryptography is symbolic: a key pair is one value, so a public key is   *)
(* its pair; DH is the set of the two pairs, the same from both sides; the *)
(* hash is the sequence of what was mixed into it; a sealed text opens     *)
(* under the hash it was sealed with and under no other.                   *)
(***************************************************************************)
EXTENDS Naturals, Sequences

CONSTANTS
    Nobody,      \* a key that is all zero: not read yet
    MaxAttempts  \* bound on the handshakes the initiator begins

Parties == {"initiator", "responder"}

VARIABLES
    attempts,      \* handshakes begun
    phase,         \* where each NoiseHandshake is
    hash,          \* handshakeHash
    eph,           \* ephemeralKey
    remEph,        \* remoteEphemeral
    remStatic,     \* remoteStatic
    msgA, msgB     \* the messages under way, as sets

vars == <<attempts, phase, hash, eph, remEph, remStatic, msgA, msgB>>

Static(p) == <<"static", p>>

\* rand.Read and the clamping: a new pair for each attempt.
Ephemeral(p, n) == <<"ephemeral", p, n>>

DH(x, y) == {x, y}

\* mixHash and mixKey are the same: SHA-256 of the hash and the data.
Mix(h, data) == Append(h, data)

Seal(h, text) == [under |-> h, text |-> text]

\* NewNoiseHandshake: the hash of the protocol name.
Fresh == <<>>

Init ==
    /\ attempts = 0
    /\ phase = [p \in Parties |-> "new"]
    /\ hash = [p \in Parties |-> Fresh]
    /\ eph = [p \in Parties |-> Nobody]
    /\ remEph = [p \in Parties |-> Nobody]
    /\ remStatic = [p \in Parties |-> Nobody]
    /\ msgA = {} /\ msgB = {}

\* -> e
WriteMessageA ==
    /\ phase["initiator"] = "new" /\ attempts < MaxAttempts
    /\ attempts' = attempts + 1
    /\ LET e == Ephemeral("initiator", attempts + 1)
       IN  /\ eph' = [eph EXCEPT !["initiator"] = e]
           /\ hash' = [hash EXCEPT !["initiator"] = Mix(@, e)]
           /\ msgA' = msgA \cup {e}
    /\ phase' = [phase EXCEPT !["initiator"] = "sent"]
    /\ UNCHANGED <<remEph, remStatic, msgB>>

\* -> e, ee, s, es.  The responder mixes the initiator's ephemeral key, ee, the
\* sealed static key and es; its own ephemeral key it sends and does not mix.
ReadMessageA(e) ==
    /\ phase["responder"] = "new" /\ e \in msgA
    /\ LET own    == Ephemeral("responder", attempts)
           h1     == Mix(hash["responder"], e)
           h2     == Mix(h1, DH(own, e))
           sealed == Seal(h2, Static("responder"))
           h3     == Mix(h2, sealed)
       IN  /\ eph' = [eph EXCEPT !["responder"] = own]
           /\ hash' = [hash EXCEPT !["responder"] = Mix(h3, DH(Static("responder"), e))]
           /\ msgB' = msgB \cup {[e |-> own, s |-> sealed]}
    /\ remEph' = [remEph EXCEPT !["responder"] = e]
    /\ phase' = [phase EXCEPT !["responder"] = "done"]
    /\ msgA' = msgA \ {e}
    /\ UNCHANGED <<attempts, remStatic>>

\* The initiator mixes the responder's ephemeral key and ee, opens the static
\* key, and mixes it and es.  When it does not open, the hash stays as mixed so
\* far and the error is returned.
ReadMessageB(m) ==
    /\ phase["initiator"] = "sent" /\ m \in msgB
    /\ msgB' = msgB \ {m}
    /\ remEph' = [remEph EXCEPT !["initiator"] = m.e]
    /\ LET h1 == Mix(hash["initiator"], m.e)
           h2 == Mix(h1, DH(eph["initiator"], m.e))
       IN  IF m.s.under = h2
           THEN /\ remStatic' = [remStatic EXCEPT !["initiator"] = m.s.text]
                /\ hash' = [hash EXCEPT !["initiator"] =
                               Mix(Mix(h2, m.s), DH(eph["initiator"], m.s.text))]
                /\ phase' = [phase EXCEPT !["initiator"] = "done"]
           ELSE /\ hash' = [hash EXCEPT !["initiator"] = h2]
                /\ phase' = [phase EXCEPT !["initiator"] = "failed"]
                /\ UNCHANGED remStatic
    /\ UNCHANGED <<attempts, eph, msgA>>

\* A message is lost, or the caller gives up: it begins anew with a new
\* NoiseHandshake, and so does the responder.
Restart ==
    /\ phase["initiator"] # "new"
    /\ phase' = [p \in Parties |-> "new"]
    /\ hash' = [p \in Parties |-> Fresh]
    /\ eph' = [p \in Parties |-> Nobody]
    /\ remEph' = [p \in Parties |-> Nobody]
    /\ remStatic' = [p \in Parties |-> Nobody]
    /\ msgA' = {} /\ msgB' = {}
    /\ UNCHANGED attempts

Next ==
    \/ WriteMessageA \/ Restart
    \/ \E e \in msgA : ReadMessageA(e)
    \/ \E m \in msgB : ReadMessageB(m)

Spec == Init /\ [][Next]_vars

-----------------------------------------------------------------------------

\* "Mutual authentication (both parties prove identity)": when both ends follow
\* the code and no message is changed on the way, reading the second message
\* gives the initiator the responder's static key and both the same session key.
HandshakeAgrees ==
    /\ phase["initiator"] # "failed"
    /\ phase["initiator"] = "done" =>
          /\ remStatic["initiator"] = Static("responder")
          /\ hash["initiator"] = hash["responder"]
=============================================================================
