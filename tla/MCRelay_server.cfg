SPECIFICATION FairSpec
CONSTANTS
    Nodes = {n1, n2}
    Conns = {c1, c2}
    NoConn = NoConn
    NoNode = NoNode
    Cap = 1
    MaxSend = 2
    TLSAvailable = FALSE
INVARIANTS TypeOK RegistryLive SoleOwnerReachable StopQuiesced ForwardedInOrder ConnectRegisters
PROPERTIES ImplementsMailbox StopHeldByClients DeadClientEvicted
CHECK_DEADLOCK FALSE
