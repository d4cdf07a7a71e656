SPECIFICATION FairSpec
CONSTANTS
    Base = 8
    LenWidth = 2
    MaxPayload = 2
    Frames <- MCFrames
    MaxFrames = 4
    Pointer = 3
    Dot = 2
    Packets <- MCPackets
    Questions <- MCQuestions
    Header <- MCHeader
    Trailer <- MCTrailer
    Width = 3
    Align = 4
    Cookie = 42
    XORMapped = 2
    MappedAddr = 1
    Bodies <- MCBodies
    Addresses <- MCAddresses
    Preambles <- MCPreambles
INVARIANTS CleanPrefix InSync QuestionEchoed ParseInBounds AddressFound NoPanic
PROPERTY AllHandled
CHECK_DEADLOCK FALSE
