CONSTANTS
  VM = {1, 2}
  Label = {1, 2, 10}
  ShortID <- MCShortID
  Request = {r1, r2}
  TTL = 2
  MaxTime = 2
  None = None
SPECIFICATION Spec
SYMMETRY Symmetry
INVARIANTS RemovedIsForgotten SavedIsFound EmptyIsNotRemembered IdIsNotTakenOver RefreshOwnsLock
