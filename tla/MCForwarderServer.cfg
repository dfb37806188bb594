CONSTANTS
  Conn = {c1, c2}
  Busy = {c1}
  Chunks <- MCChunks
SPECIFICATION FairSpec
INVARIANTS ReturnedIsDrained ForcedCloseReachesAll
PROPERTIES NothingIsCutOff ClosedClientIsReleased ShutdownWaitsOnlyForBackends
CHECK_DEADLOCK FALSE
