SPECIFICATION FairSpec
CONSTANTS
    VM = {v1}
    Handler = {p1, p2, p3}
    None = None
    NoMeta = NoMeta
    PortStart = 3
    PortEnd = 4
    MaxPort = 4
    HostBits = 3
    Payloads <- NoPorts
    Ops = {"create", "autoStart", "start", "stop", "delete"}
    Faults = {}
INVARIANTS
    StoppedStaysStopped
    GoneIsNotRunning
PROPERTY
    EveryRequestEnds
