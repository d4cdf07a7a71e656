------------------------------- MODULE Codecs -------------------------------
(***************************************************************************)
(* The three formats the program reads and writes byte by byte: frames of  *)
(* a relay connection, DNS names and STUN responses.  The last two are     *)
(* functions of their arguments alone, so what they must return is said    *)
(* of the initial state.                                                   *)
(***************************************************************************)
EXTENDS RelayStream, DnsName, StunMessage

\* A name that strings.Split takes apart as strings.Join has put it together.
Splittable(labels) ==
    labels # <<>> /\ \A i \in DOMAIN labels : \A j \in DOMAIN labels[i] : labels[i][j] # Dot

\* parseDNSName reads every name written without pointers, wherever in the query it
\* stands, and the response repeats it byte for byte, encodeDNSName undoing
\* parseDNSName, unless it is the root name or has a dot inside a label: exactly
\* those names come back as other names.
QuestionEchoed == Init =>
    \A labels \in Questions :
        LET question == EncodeLabels(labels) \o <<0>>
            r == parseDNSName(Header \o question \o Trailer, Len(Header))
        IN  /\ r.result = "ok" /\ r.next = Len(Header) + Len(question)
            /\ encodeDNSName(r.name) = question <=> Splittable(labels)

\* On any bytes and at any offset, a name that parses ends inside the slice and
\* after its beginning, which the bounds check on the type and class after it
\* (newOffset+4 > len(data)) relies on.
ParseInBounds == Init =>
    \A data \in Packets : \A offset \in 0..Len(data) :
        LET r == parseDNSName(data, offset)
        IN  r.result = "ok" => r.next \in (offset + 1)..Len(data)

\* The address a server reports is the one the client takes, in either form,
\* whatever attributes with whatever padding come before it: two servers that see
\* the same mapping are never told apart by how they write it.
AddressFound == Init =>
    \A kind \in {"xor", "plain"}, a \in Addresses, before \in Preambles :
        parseBindingResponse(Response(before, kind, a)) = Mapped(<<a[2], a[3]>>, a[1])

\* However the lengths of a response lie, parseBindingResponse leaves its loop
\* with an address, a nil one or an error, and never slices past the data.
NoPanic == Init =>
    \A body \in Bodies, msgLen \in Byte :
        parseBindingResponse([header |-> TRUE, msgLen |-> msgLen, body |-> body]).result
            \in {"ok", "nil", "error"}
=============================================================================
