SPECIFICATION FairSpec
CONSTANTS
    host = host
    other = other
    wild = wild
    ip1 = ip1
    ip2 = ip2
    NoIP = NoIP
    Datagrams <- MCDatagrams
    Names <- MCNames
    NexusNames <- MCNexusNames
    Wild = wild
    Configured <- MCConfigured
    IPs = {ip1, ip2}
    Upstream = 2
    Reliable = {2}
    MaxEdits = 1
    MaxQueries = 2
INVARIANTS OwnAnswer AnswerWasTrue ConfiguredResolves Answered
PROPERTIES HandlersFinish StopTerminates
CHECK_DEADLOCK FALSE
