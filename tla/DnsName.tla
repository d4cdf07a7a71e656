------------------------------ MODULE DnsName ------------------------------
(***************************************************************************)
(* parseDNSName and encodeDNSName of dns.go.  The bytes from Pointer on    *)
(* mark a compression pointer (0xC0 of 256).  A name is a Go string:       *)
(* bytes, with Dot between the labels.                                     *)
(***************************************************************************)
EXTENDS Bytes

CONSTANTS
    Pointer, Dot,
    Packets,          \* byte strings given to parseDNSName
    Questions,        \* names as the sequences of labels a resolver asks for
    Header, Trailer   \* what a query has before and after its name

\* A label of a question holds any bytes, dots too; its length is neither the end of
\* a name nor a pointer.  The root name has no labels.
ASSUME DnsNameAssumption ==
    /\ Pointer \in 1..(Base - 1) /\ Dot \in Byte
    /\ Packets \subseteq Seq(Byte)
    /\ Header \in Seq(Byte) /\ Trailer \in Seq(Byte)
    /\ Questions \subseteq Seq(Seq(Byte))
    /\ \A labels \in Questions : \A i \in DOMAIN labels : Len(labels[i]) \in 1..(Pointer - 1)

\* strings.Join(parts, ".")
Join(parts) ==
    FlattenSeq([i \in DOMAIN parts |->
                   IF i = 1 THEN parts[i] ELSE <<Dot>> \o parts[i]])

\* A dot begins a new part, any other byte extends the last one.
SplitByte(parts, b) ==
    IF b = Dot THEN Append(parts, <<>>)
    ELSE [parts EXCEPT ![Len(parts)] = Append(@, b)]

\* strings.Split(name, "."), which returns one empty part for an empty name.
Split(name) ==
    LET split[k \in 0..Len(name)] ==
            IF k = 0 THEN << <<>> >> ELSE SplitByte(split[k - 1], name[k])
    IN  split[Len(name)]

EncodeLabel(part) == <<Len(part) % Base>> \o part

EncodeLabels(parts) == FlattenSeq([i \in DOMAIN parts |-> EncodeLabel(parts[i])])

\* Mutant: the zero byte that ends a name is forgotten.
EncodeOpen(name) == EncodeLabels(Split(name))

encodeDNSName(name) == EncodeLabels(Split(name)) \o <<0>>

-----------------------------------------------------------------------------
\* What a call does: return the parts of a name and the offset after it, return
\* an error, or never return.
Parsed(parts, next) == [result |-> "ok", parts |-> parts, next |-> next]

Failed == [result |-> "error"]

Endless == [result |-> "endless"]

\* Mutant: a pointer is taken for three bytes.
AfterPointerLate(offset) == offset + 3

\* A pointer ends the name it occurs in.
AfterPointer(offset) == offset + 2

\* What is at a 0-based offset, given what is at those inside the data.
At(data, rest, offset) == IF offset < Len(data) THEN rest[offset] ELSE Failed

\* One round of the loop of parseDNSName at an offset inside the data: the end of
\* the name, a pointer, whose target is parsed and split by the recursive call,
\* or a label.  `rest` says what is found at the other offsets.
ParseStep(data, rest, offset) ==
    LET length == data[offset + 1]
        target == At(data, rest, (length - Pointer) * Base + data[offset + 2])
        after  == offset + 1 + length
        later  == At(data, rest, after)
    IN  CASE length = 0 -> Parsed(<<>>, offset + 1)
          [] length >= Pointer ->
               IF offset + 1 >= Len(data) THEN Failed
               ELSE IF target.result # "ok" THEN target
               ELSE Parsed(Split(Join(target.parts)), AfterPointer(offset))
          [] OTHER ->
               IF after > Len(data) THEN Failed
               ELSE IF later.result # "ok" THEN later
               ELSE Parsed(<<SubSeq(data, offset + 2, after)>> \o later.parts, later.next)

\* All offsets of the data at once, after n rounds.  A name that takes more rounds
\* than there are bytes comes back to an offset: its pointers lead in a circle,
\* and the recursion has no end.
Parses(data) ==
    LET offsets == 0..(Len(data) - 1)
        parses[n \in 0..Len(data)] ==
            IF n = 0 THEN [o \in offsets |-> Endless]
            ELSE [o \in offsets |-> ParseStep(data, parses[n - 1], o)]
    IN  parses[Len(data)]

parseDNSName(data, offset) ==
    LET r == At(data, Parses(data), offset)
    IN  IF r.result # "ok" THEN r
        ELSE [result |-> "ok", name |-> Join(r.parts), next |-> r.next]
=============================================================================
