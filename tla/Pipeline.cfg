SPECIFICATION FairSpec
CONSTANTS
  Events <- MCEvents
  Tokens = {"A", "B"}
  TokenOf <- MCTokenOf
  TimeOf <- MCTimeOf
  MilestoneAge = 1
  ColdAge = 2
  ReorderCap = 1
  Raws = {"launch", "buyB", "buyA", "noise"}
  Decode <- MCDecode
  Discoveries <- MCDiscoveries
  Started = 0
  MaxTime = 2
  MaxFaults = 1
INVARIANTS
  TypeOK
  AppliedOnce
  NothingToClear
  
  StoredIsDecoded
  MilestoneAccounted
  RestartRepeatsNothing
PROPERTIES
  DueIsResearched
\* The bounds on time and faults stop the system, and logs need not arrive.
CHECK_DEADLOCK FALSE
