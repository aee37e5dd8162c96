SPECIFICATION Spec
CONSTANTS
  SThreads = {1, 2}
  STasks = {"shared", "mine"}
  STasklets = {"io"}
  SMask <- MCMask
  STid <- MCTid
  PickMax = 1
  SDestroyed = {"mine"}
  MaxClock = 2
  MaxCalls = 2
  RThreads = {1, 2, 3}
  RObserved = {1}
  QUIC_CONN_TX_BUFS_NB = 4
  MaxBuilt = 5
  RxCHLen = 2
  RxFinLen = 2
  RxDgrams <- MCDgrams
  MaxRx = 4
  RxEarlyKeys = {TRUE, FALSE}
  MaxRxFail = 1
INVARIANTS
  TasksPlaced
  NoLostWakeup
  TimersKept
  Isolation
  RingContiguous
  
PROPERTIES
  WokenRuns
  RdvServed
  RingDelivers
  RxTreated
CHECK_DEADLOCK FALSE
