SPECIFICATION Spec
SYMMETRY Symmetry
CONSTANTS
  Arms = {a1}
  NoArm = NoArm
  Procs = {p1, p2}
  Lot = 2
  MaxReadAttempts = 2
  MaxFaults = 3
  MaxStarts = 4
INVARIANTS
  TypeOK
  ClaimedOnce
  PositionHasFill
  MemoryBacked
PROPERTIES
  ImplementsLifetimeEntry
\* The bounds on starts and faults stop the system.
CHECK_DEADLOCK FALSE
