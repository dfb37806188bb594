SPECIFICATION FairSpec
CONSTANTS
    Child = {c1, c2}
    Status <- MCStatus
    ChannelCap = 2
INVARIANTS
    ExitTellsTheService
    PIDIsOurs
PROPERTIES
    ZombiesAreReaped
    ServiceEndEndsGuest
    QueuedTermIsForwarded
CHECK_DEADLOCK FALSE
