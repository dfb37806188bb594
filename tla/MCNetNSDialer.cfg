CONSTANTS
  Dial = {g1, g2, g3}
  Thread = {t0, t1, t2}
  First = t0
  NetNS = {vm1, vm2}
  Host = Host
  None = None
SPECIFICATION Spec
SYMMETRY Symmetry
INVARIANTS DialsInTarget FirstThreadReturns
