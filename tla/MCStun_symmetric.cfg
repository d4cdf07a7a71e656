SPECIFICATION FairSpec
CONSTANTS
    Callers = {t1, t2}
    NServers = 2
    Ports = {p1, p2}
    NAT = "symmetric"
    None = None
    MaxCalls = 2
INVARIANTS NoFalseCone ResultOfItsServer
PROPERTY DiscoverReturns
CHECK_DEADLOCK FALSE
