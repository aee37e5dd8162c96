SPECIFICATION Spec
CONSTANTS
  FThreads = {1, 2}
  Fds = {0, 1, 2}
  MaxUpdates = 3
  PThreads = {1, 2}
  CasDw = FALSE
  MaxOwners = 1
  QStreams = {1, 2}
  QServers = {v, w}
  QThreads = {1, 2}
  Maxconn <- One
  Minconn <- One
  Fullconn = 2
  Maxqueue = 1
  ConnRetries = 1
  RedispAfter <- MinusOne
  Redisp = TRUE
  NoSrv = NoSrv
  MaxQStreams = 2
  LThreads = {1, 2}
  Listeners = {"l1", "l2"}
  Proxies = {"p1", "p2"}
  LProxy <- MCProxy
  BindThread <- MCBind
  LMaxconn <- MCMax
  PMaxconn = 1
  GMaxconn = 1
  RateLimits = {"proxy"}
  MaxAccept = 1
  RingSize = 1
  MaxEvents = 2
  VServers = {"a", "b"}
  Track <- MCTrack
  VOps <- MCOps
  Slow = {"a"}
  Checked = {"a"}
  Agented = {"a"}
  Rise = 1
  Fall = 1
  ARise = 1
  AFall = 1
  MaxAdmin = 2
  OnError = "fail-check"
INVARIANTS
  UpdatesListed
  
  
  
  
  StatusApplied
  StatesExplained
CHECK_DEADLOCK FALSE
