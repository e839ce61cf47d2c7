SPECIFICATION FairSpec
CONSTANTS
  r1 = r1
  c1 = c1
  c2 = c2
  Runs = {r1}
  Commands = {c1, c2}
  MaxFaults = 1
  MaxStarts = 2
INVARIANT BlindIsNotValid
PROPERTY QuietInvalidationHolds
PROPERTY BlindnessIsBooked
CHECK_DEADLOCK FALSE
