SPECIFICATION HookSpec
CONSTANTS
    GlobalFiles <- MCGlobalFiles
    VMHooks <- MCVMHooks
INVARIANT
    EveryHookHadItsTurn
PROPERTY
    HookRunEnds
CHECK_DEADLOCK FALSE
