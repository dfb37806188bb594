SPECIFICATION LoopSpec
CONSTANTS
    PortStart = 2
    PortEnd = 3
    MaxPort = 4
    HostBits = 3
    Requests <- MCRequests
    Existing <- MCExisting
INVARIANTS
    AgreesWithClosedForm
    AllocationIsSound
    ExhaustedOnlyWhenFull
CHECK_DEADLOCK FALSE
