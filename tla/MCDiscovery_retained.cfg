SPECIFICATION Spec
CONSTANTS
    Nodes = {a, b}
    Self = a
    Endpoints = {e1}
    NoEndpoint = NoEndpoint
    NoPeer = NoPeer
    NoCallback = NoCallback
    MaxQueue = 2
    MaxStarts = 2
INVARIANT LiveNotOffline
CHECK_DEADLOCK FALSE
