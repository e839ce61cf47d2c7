SPECIFICATION Spec
CONSTANTS
  r1 = r1
  Runs = {r1}
  Commands = {}
  MaxFaults = 0
  MaxStarts = 1
INVARIANT ValidIsEarned
CHECK_DEADLOCK FALSE
