SPECIFICATION Spec
CONSTANTS
  r1 = r1
  r2 = r2
  Runs = {r1, r2}
  Commands = {}
  MaxFaults = 2
  MaxStarts = 2
SYMMETRY Symmetry
INVARIANT TypeOK
INVARIANT OverlapNeedsFault
CHECK_DEADLOCK FALSE
