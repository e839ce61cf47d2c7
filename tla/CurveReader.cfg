SPECIFICATION FairSpec
CONSTANTS
  Endpoints = 2
  BaseDelay <- MCBase
  CapDelay <- MCCap
  FailureCap = 2
  Callers = {c1, c2}
  NoCaller = NoCaller
  Curves <- MCCurves
  CurveAt <- MCCurveAt
  MaxHead = 2
  Retained = 0
  MaxInflight = 2
  MaxRetries = 2
  ProbeOffset <- MCOffset
  Moods = {"throttle"}
  MaxOutages = 1
INVARIANTS
  TypeOK
  SingleFlight
  ExactIsOfBlock
  LatestHasCause
PROPERTIES
  ReadsReturn
  CircuitsClose
