---------------------------- MODULE RelayStream ----------------------------
(***************************************************************************)
(* One relay connection at byte level: sendMessage encodes frames, TCP     *)
(* delivers their bytes in any segmentation, and handleClient reads them   *)
(* back with readMessage under a read deadline of 60 s.                    *)
(*                                                                         *)
(* The payload length has LenWidth bytes (4 in the code).  readMessage     *)
(* consumes what has arrived as it goes: a deadline in the middle of a     *)
(* frame loses those bytes, and the `continue` of handleClient starts      *)
(* again at whatever byte comes next.                                      *)
(***************************************************************************)
EXTENDS Bytes

CONSTANTS
    LenWidth,    \* bytes of the payload length
    MaxPayload,  \* the limit readMessage puts on it (65535)
    Frames,      \* the frames a client may send
    MaxFrames    \* bound on the frames it does send

Data == 1
Register == 2
Ping == 3
Pong == 4
Disconnect == 5

HasNames(t) == t \notin {Ping, Pong}

\* RelayMessage.  A name is a Go string, a sequence of bytes.
Message == [type : Byte, src : Seq(Byte), dst : Seq(Byte), payload : Seq(Byte)]

\* A frame is what sendMessage puts on the wire: the names a ping or pong is
\* given, and the payload of a message without data, are no part of it.
ASSUME StreamAssumption ==
    /\ Base > Disconnect
    /\ LenWidth \in Nat \ {0} /\ MaxPayload \in Nat /\ MaxFrames \in Nat
    /\ Frames \subseteq Message
    /\ \A f \in Frames :
          /\ ~HasNames(f.type) => f.src = <<>> /\ f.dst = <<>>
          /\ f.type # Data => f.payload = <<>>

VARIABLES
    sent,      \* frames passed to sendMessage
    wire,      \* bytes written and not yet arrived
    avail,     \* bytes arrived, or already consumed by the readMessage call
               \* that is waiting for the rest of its frame
    handled,   \* messages readMessage has returned
    phase,     \* handleClient: "first" read, message "loop", "closed"
    torn       \* a deadline has discarded part of a frame

vars == <<sent, wire, avail, handled, phase, torn>>

-----------------------------------------------------------------------------
(* Encoding.                                                               *)

\* Mutant: the length byte counts itself.
WriteStringOffByOne(s) == <<(Len(s) + 1) % Base>> \o s

\* writeString: a length byte, which wraps around, and all of the string.
WriteString(s) == <<Len(s) % Base>> \o s

\* binary.BigEndian.PutUint32.
PutUint(n) == Digits(n, Base, LenWidth)

\* sendMessage.
Encode(f) ==
    <<f.type>>
        \o (IF HasNames(f.type) THEN WriteString(f.src) \o WriteString(f.dst) ELSE <<>>)
        \o (IF f.type = Data THEN PutUint(Len(f.payload)) \o f.payload ELSE <<>>)

-----------------------------------------------------------------------------
(* Decoding.  b is the stream from the first byte of a message.            *)

\* readString at position i has all it needs, and the position after it.
StringHere(b, i) == i <= Len(b) /\ i + b[i] <= Len(b)
StringAt(b, i) == SubSeq(b, i + 1, i + b[i])
AfterString(b, i) == i + 1 + b[i]

\* binary.BigEndian.Uint32 at position i.
UintAt(b, i) == Number(SubSeq(b, i, i + LenWidth - 1), Base)

\* Where the payload length is, in a message that has one.
LenPos(b) == AfterString(b, AfterString(b, 2))

NamesHere(b) == StringHere(b, 2) /\ StringHere(b, AfterString(b, 2))

LenHere(b) == NamesHere(b) /\ LenPos(b) + LenWidth - 1 <= Len(b)

\* readMessage fails: "payload too large".
TooLarge(b) == b # <<>> /\ b[1] = Data /\ LenHere(b) /\ UintAt(b, LenPos(b)) > MaxPayload

\* Mutant: the length prefix of the payload is left in the stream.
SizeShort(b) ==
    IF ~HasNames(b[1]) THEN 1
    ELSE IF b[1] # Data THEN LenPos(b) - 1
    ELSE LenPos(b) - 1 + UintAt(b, LenPos(b))

\* The bytes readMessage consumes for one message, once they are all there.
Size(b) ==
    IF ~HasNames(b[1]) THEN 1
    ELSE IF b[1] # Data THEN LenPos(b) - 1
    ELSE LenPos(b) + LenWidth - 1 + UintAt(b, LenPos(b))

\* Mutant: readMessage asks for one byte more than the payload has.
CompleteStrict(b) ==
    /\ b # <<>>
    /\ HasNames(b[1]) => NamesHere(b)
    /\ b[1] = Data => LenHere(b) /\ ~TooLarge(b) /\ Size(b) < Len(b)

\* readMessage can return a message.
Complete(b) ==
    /\ b # <<>>
    /\ HasNames(b[1]) => NamesHere(b)
    /\ b[1] = Data => LenHere(b) /\ ~TooLarge(b) /\ Size(b) <= Len(b)

\* The message it returns.
Decode(b) ==
    [type |-> b[1],
     src |-> IF HasNames(b[1]) THEN StringAt(b, 2) ELSE <<>>,
     dst |-> IF HasNames(b[1]) THEN StringAt(b, AfterString(b, 2)) ELSE <<>>,
     payload |-> IF b[1] = Data THEN SubSeq(b, LenPos(b) + LenWidth, Size(b)) ELSE <<>>]

-----------------------------------------------------------------------------
Init ==
    /\ sent = <<>> /\ wire = <<>> /\ avail = <<>> /\ handled = <<>>
    /\ phase = "first"
    /\ torn = FALSE

\* The client writes a frame.
SendMessage(f) ==
    /\ phase # "closed" /\ Len(sent) < MaxFrames
    /\ sent' = Append(sent, f)
    /\ wire' = wire \o Encode(f)
    /\ UNCHANGED <<avail, handled, phase, torn>>

\* TCP delivers the next byte.
Arrive ==
    /\ phase # "closed" /\ wire # <<>>
    /\ avail' = Append(avail, Head(wire))
    /\ wire' = Tail(wire)
    /\ UNCHANGED <<sent, handled, phase, torn>>

\* readMessage returns a message, and handleClient goes on: the first one must
\* be a register.
ReadMessage ==
    /\ phase # "closed" /\ Complete(avail)
    /\ handled' = Append(handled, Decode(avail))
    /\ avail' = SubSeq(avail, Size(avail) + 1, Len(avail))
    /\ phase' = IF phase = "first" /\ avail[1] # Register THEN "closed" ELSE "loop"
    /\ UNCHANGED <<sent, wire, torn>>

\* readMessage fails on the payload length, and handleClient returns.
ReadTooLarge ==
    /\ phase # "closed" /\ TooLarge(avail)
    /\ phase' = "closed"
    /\ UNCHANGED <<sent, wire, avail, handled, torn>>

\* The deadline expires while readMessage waits for bytes: what it has consumed
\* is gone, and the loop calls it again.  The first read has no deadline.
ReadDeadline ==
    /\ phase = "loop" /\ avail # <<>>
    /\ ~Complete(avail) /\ ~TooLarge(avail)
    /\ avail' = <<>>
    /\ torn' = TRUE
    /\ UNCHANGED <<sent, wire, handled, phase>>

Next ==
    \/ \E f \in Frames : SendMessage(f)
    \/ Arrive \/ ReadMessage \/ ReadTooLarge \/ ReadDeadline

Spec == Init /\ [][Next]_vars

\* Bytes arrive, and the handler's goroutine runs.
FairSpec == Spec /\ WF_vars(Arrive) /\ WF_vars(ReadMessage) /\ WF_vars(ReadTooLarge)

-----------------------------------------------------------------------------
\* The frames, bytes and messages of one connection's reader.
TypeOK ==
    /\ sent \in Seq(Frames) /\ Len(sent) <= MaxFrames
    /\ wire \in Seq(Byte) /\ avail \in Seq(Byte)
    /\ handled \in Seq(Message)
    /\ phase \in {"first", "loop", "closed"}
    /\ torn \in BOOLEAN

\* Every length of a frame fits in the bytes it has on the wire.
Fits(f) ==
    /\ HasNames(f.type) => Len(f.src) < Base /\ Len(f.dst) < Base
    /\ f.type = Data => FitsIn(Len(f.payload), Base, LenWidth)

\* The first i frames were sent, and none of them has a length that does not fit.
Sound(i) == i <= Len(sent) /\ \A j \in 1..i : Fits(sent[j])

\* However TCP cuts the stream, readMessage returns exactly the messages given
\* to sendMessage, in order, as long as no deadline fell inside one.  A name
\* too long for its length byte spoils its own frame and the later ones, never
\* one that was sent before it.
CleanPrefix ==
    ~torn =>
        /\ \A i \in DOMAIN handled : Sound(i) => handled[i] = sent[i]
        /\ Sound(Len(sent)) => Len(handled) <= Len(sent)

\* The encodings of the frames after the first n.
Pending(n) == [i \in 1..(Len(sent) - n) |-> Encode(sent[n + i])]

\* The reader never loses the frame boundary up to the first length that does
\* not fit: between two calls the bytes ahead of it are exactly the encodings of
\* the messages not yet returned.
InSync ==
    ~torn /\ phase # "closed" /\ Sound(Len(handled)) =>
        avail \o wire = FlattenSeq(Pending(Len(handled)))

\* Every message sent before the first length that does not fit is handled in
\* the end, unless the connection is closed or a deadline fell inside a frame.
AllHandled == []<>(torn \/ phase = "closed" \/ ~Sound(Len(handled) + 1))
=============================================================================
