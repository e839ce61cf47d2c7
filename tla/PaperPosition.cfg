SPECIFICATION FairSpec
CONSTANTS
  Arms = {a1, a2}
  NoArm = NoArm
  Procs = {p1}
  Lot = 2
  MaxReadAttempts = 2
  MaxFaults = 2
  MaxStarts = 3
INVARIANTS
  Mirror
  DriftPerFault
PROPERTIES
  ClosedIsFinal
  QueuedIsResolved
  OpenIsLeft
\* The bounds on starts and faults stop the system.
CHECK_DEADLOCK FALSE
