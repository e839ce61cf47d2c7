SPECIFICATION Spec
CONSTANTS
  Events = {1, 2, 3}
  Tokens = {"a", "b"}
  TokenOf <- MCTokenOf
  Marks = {"m1", "m2"}
  Shapes <- MCShapes
  Shots <- MCShots
  Times = {1, 2}
  MaxCalls <- MCMaxCalls
  MaxFaults = 1
CHECK_DEADLOCK FALSE
INVARIANTS
  TypeOK
  
  CacheIsNewest
PROPERTY
  ImplementsMemory
