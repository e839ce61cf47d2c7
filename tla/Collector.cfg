SPECIFICATION FairSpec
CONSTANTS
  Kinds = {"evm", "grpc", "rpc"}
  LogAt <- MCLogAt
  FirstTip = 1
  Overlap = 2
  Cap = 2
  Span = 1
  Slack = 1
  Capacity = 2
  MaxStarts = 2
  MaxFaults = 1
INVARIANTS
  TypeOK
  
  

  
CHECK_DEADLOCK FALSE
