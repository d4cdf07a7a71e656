SPECIFICATION FairSpec
CONSTANTS
    Nodes = {a, b}
    Self = a
    Endpoints = {e1}
    NoEndpoint = NoEndpoint
    NoPeer = NoPeer
    NoCallback = NoCallback
    MaxQueue = 1
    MaxStarts = 2
INVARIANTS SuspectIsSilent 
PROPERTIES DownNoticed DownStays LiveSeen
CHECK_DEADLOCK FALSE
