SPECIFICATION FairSpec
CONSTANTS
    VM = {1, 2}
    Handler = {p1, p2}
    None = None
    NoMeta = NoMeta
    CreatedAt <- MCCreatedAt
    Ops = {"create", "stop", "delete", "get", "list"}
INVARIANTS
    QueriesAreFaithful
    HooksAreTriggered
PROPERTY
    ShutdownEnds
