SPECIFICATION Spec
CONSTANTS
    Image <- MCImage
    Layer <- MCLayer
    Config <- MCConfig
    Exposed <- MCExposed
    Remote <- MCRemote
    Tag <- MCTag
    None = None
    Junk = Junk
    MaxRuns = 4
INVARIANTS
    ConvertedIsWhole
    OutputsAgree
    CacheIsSound
CHECK_DEADLOCK FALSE
