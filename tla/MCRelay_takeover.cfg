SPECIFICATION Spec
CONSTANTS
    Nodes = {n1, n2}
    Conns = {c1, c2}
    NoConn = NoConn
    NoNode = NoNode
    Cap = 1
    MaxSend = 0
    TLSAvailable = FALSE
SYMMETRY Symmetry
INVARIANT ServedIsReachable
CHECK_DEADLOCK FALSE
