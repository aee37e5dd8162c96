SPECIFICATION CCSpec
CONSTANTS
  UINT = 4096
  Mtu = 2
  InitialWindow = 12
  Lens = {1, 2}
  LossInfos <- FirstLossInfos
  MaxAckDelay = 0
  MaxPkts = 5
  MaxTime = 5
PROPERTY
  NoGrowthInRecovery
CHECK_DEADLOCK FALSE
