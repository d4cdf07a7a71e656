----------------------------- MODULE MCCodecs -----------------------------
(* Frames for the run of RelayStream: names of one and two bytes and one    *)
(* that is longer than a length byte can say; payloads that are empty, look *)
(* like a ping, and exceed the limit.                                       *)
EXTENDS Codecs

F(t, s, d, p) == [type |-> t, src |-> s, dst |-> d, payload |-> p]

MCFrames ==
    {F(Register, <<6>>, <<>>, <<>>), F(Ping, <<>>, <<>>, <<>>),
     F(Disconnect, <<6>>, <<6, 7>>, <<>>),
     F(Data, <<6>>, <<7>>, <<>>), F(Data, <<6, 7>>, <<>>, <<Ping, Ping>>),
     F(Data, <<6>>, <<7>>, [i \in 1..9 |-> 7]),
     F(Disconnect, <<6>>, [i \in 1..9 |-> Ping], <<>>)}
-----------------------------------------------------------------------------
(* Bytes for parseDNSName: the end of a name, labels of one and two bytes,  *)
(* a dot and a pointer into the first Base bytes.  Questions of no, one and *)
(* two labels, of every length below a pointer's, with and without dots.    *)
MCPackets == SeqOf({0, 1, Dot, Pointer}, 5)

MCQuestions ==
    LET labels == SeqOf(Byte, Pointer - 1) \ {<<>>}
    IN  SeqOf(labels, 2)

MCHeader == <<1, Pointer, 0>>

MCTrailer == <<0, 1>>

-----------------------------------------------------------------------------
(* Attributes of every length before an address.                            *)
MCBodies == SeqOf(Byte, 4)

MCAddresses == Byte \X {0, Base - 1} \X Byte

MCPreambles ==
    SeqOf({[type |-> 0, value |-> [i \in 1..n |-> MappedAddr]] : n \in 0..(Base - 2)}, 2)
=============================================================================
