SPECIFICATION Spec
CONSTANTS
  Scale = 100
  CurveFee = 100
  PoolFee = 25
  SnipeTax = 9900
  SnipeWindow = 10
  N = 6
  Times <- MCTimes
  Histories <- MCHistories
  Configs <- MCConfigs
  Notional = 20
  MaxSlippage = 10000
  Delay = 3
  MinDelay = 1
  RetryDelay = 1
  Retries <- MCRetries
  TimeCap = 5
  Horizon = 20
CHECK_DEADLOCK FALSE
PROPERTY NoLookahead
