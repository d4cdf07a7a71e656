SPECIFICATION Spec
CONSTANTS
    n1 = n1
    k1 = k1
    e1 = e1
    Names = {n1}
    Keys = {k1, k2}
    Endpoints = {e1, e2}
    NoEndpoint = NoEndpoint
    Absent = Absent
    Nil = Nil
    Callers = {main, t1, t2}
    Main = main
    AddEndpoints = {e1, NoEndpoint}
    CfgKey <- OneKey
    CfgEndpoint <- OneEndpoint
    CfgFallback <- OneFallback
SYMMETRY Symmetry
INVARIANTS MappedIsConfigured EndpointWasGiven SequentialTracks
CHECK_DEADLOCK FALSE
