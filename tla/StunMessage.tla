---------------------------- MODULE StunMessage ----------------------------
(***************************************************************************)
(* parseBindingResponse of stun.go and the two address parsers it calls.   *)
(*                                                                         *)
(* A byte has Width bits.  An attribute has a type byte and a length byte  *)
(* (2 bytes each in the code), its value, and padding to a multiple of     *)
(* Align (4).  An address is a family byte, a port byte (2) and an IP of   *)
(* two bytes (4).  Of the 20-byte header the model keeps whether length,   *)
(* cookie and type are as they should be, and the message length.          *)
(***************************************************************************)
EXTENDS Bytes

CONSTANTS
    Width, Align,
    Cookie,      \* the magic cookie, a number of two bytes
    XORMapped,   \* stunAttrXORMapped
    MappedAddr,  \* stunAttrMappedAddr
    Bodies,      \* attribute sections of responses, sound or not
    Addresses,   \* port and IP that servers report
    Preambles    \* attributes of other types, type and value, before an address

ASSUME StunMessageAssumption ==
    /\ Width \in Nat \ {0} /\ Align \in Nat \ {0} /\ Cookie \in Nat
    /\ \A b \in Byte : FitsIn(b, 2, Width)
    /\ Base > 4
    /\ XORMapped # MappedAddr /\ {XORMapped, MappedAddr} \subseteq Byte
    /\ Bodies \subseteq Seq(Byte)
    /\ Addresses \subseteq Byte \X Byte \X Byte
    /\ Preambles \subseteq Seq([type : Byte \ {XORMapped, MappedAddr}, value : Seq(Byte)])
    /\ \A before \in Preambles : \A i \in DOMAIN before : Len(before[i].value) \in Byte

\* The operator ^ of Go, bit by bit.
Xor(a, b) ==
    Number([k \in 1..Width |-> (Digits(a, 2, Width)[k] + Digits(b, 2, Width)[k]) % 2], 2)

\* The bytes of the cookie, the upper one first.
CookieByte(i) == Digits(Cookie, Base, 2)[i]

HeaderSize == 2
AddrSize == 4

\* What the function does: return an address, return one with a nil IP, return
\* an error, or panic on a slice that goes past the data.
Mapped(ip, p) == [result |-> "ok", MappedIP |-> ip, MappedPort |-> p]

MappedNil == [result |-> "nil"]

NoAddress == [result |-> "error"]

Panic == [result |-> "panic"]

parseXORMappedAddr(value) ==
    IF Len(value) < AddrSize THEN MappedNil
    ELSE Mapped([i \in 1..2 |-> Xor(value[2 + i], CookieByte(i))], Xor(value[2], CookieByte(1)))

parseMappedAddr(value) ==
    IF Len(value) < AddrSize THEN MappedNil
    ELSE Mapped(<<value[3], value[4]>>, value[2])

\* Mutant: a whole word of padding after a value that needs none.
PaddedAlways(length) == length + (Align - (length % Align))

\* The value and its padding.
Padded(length) ==
    IF length % Align = 0 THEN length ELSE length + (Align - (length % Align))

\* Mutant: the value is checked against the end of its own header.
ValueFitsHeader(body, at, length) == at <= Len(body)

\* The bounds check before an attribute's value is sliced.
ValueFits(body, at, length) == at + length <= Len(body)

\* The loop finds an attribute, header and value, at a 0-based offset.
AttributeAt(body, msgLen, offset) ==
    /\ offset < msgLen /\ offset + HeaderSize <= Len(body)
    /\ ValueFits(body, offset + HeaderSize, body[offset + 2])

\* What the function returns from the loop at an offset where it does not go on:
\* the first address ends it.
ReturnAt(body, msgLen, offset) ==
    LET type   == body[offset + 1]
        at     == offset + HeaderSize
        length == body[offset + 2]
        value  == SubSeq(body, at + 1, at + length)
    IN  IF ~AttributeAt(body, msgLen, offset) THEN NoAddress
        ELSE IF at + length > Len(body) THEN Panic
        ELSE CASE type = XORMapped  -> parseXORMappedAddr(value)
               [] type = MappedAddr -> parseMappedAddr(value)

\* The loop goes on after an attribute of another type.
GoesOn(body, msgLen, offset) ==
    /\ AttributeAt(body, msgLen, offset)
    /\ body[offset + 1] \notin {XORMapped, MappedAddr}

\* One round of the loop.
NextOffset(body, msgLen, offset) ==
    IF GoesOn(body, msgLen, offset)
    THEN offset + HeaderSize + Padded(body[offset + 2])
    ELSE offset

\* The offset where the loop stops.  Every round takes at least a header, so there
\* are no more of them than bytes.
LastOffset(body, msgLen) ==
    LET offset[k \in 0..Len(body)] ==
            IF k = 0 THEN 0 ELSE NextOffset(body, msgLen, offset[k - 1])
    IN  offset[Len(body)]

parseBindingResponse(r) ==
    IF ~r.header \/ Len(r.body) < r.msgLen THEN NoAddress
    ELSE ReturnAt(r.body, r.msgLen, LastOffset(r.body, r.msgLen))

-----------------------------------------------------------------------------
(* What servers send.                                                      *)

Padding(value) == [i \in 1..((Align - (Len(value) % Align)) % Align) |-> 0]

Attribute(type, value) == <<type, Len(value)>> \o value \o Padding(value)

\* An address in either form.
AddressAttribute(kind, a) ==
    CASE kind = "xor"   -> Attribute(XORMapped, <<1, Xor(a[1], CookieByte(1)),
                                                  Xor(a[2], CookieByte(1)), Xor(a[3], CookieByte(2))>>)
      [] kind = "plain" -> Attribute(MappedAddr, <<1, a[1], a[2], a[3]>>)

\* An address after other attributes.
Response(before, kind, a) ==
    LET body == FlattenSeq([i \in DOMAIN before |->
                               Attribute(before[i].type, before[i].value)])
                    \o AddressAttribute(kind, a)
    IN  [header |-> TRUE, msgLen |-> Len(body), body |-> body]
=============================================================================
