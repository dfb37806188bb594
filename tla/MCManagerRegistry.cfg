SPECIFICATION Spec
CONSTANTS
    VM = {v1, v2}
    Handler = {p1, p2}
    None = None
    NoMeta = NoMeta
    PortStart = 3
    PortEnd = 4
    MaxPort = 4
    HostBits = 3
    Payloads <- MCPayloads
    Ops = {"create", "delete"}
    Faults = {"crash", "io"}
SYMMETRY Symmetry
INVARIANTS
    SharedOnlyIfOverlapping
    RegisteredHasConfig
    AckedIsComplete
PROPERTY
    ImplementsRegistry
