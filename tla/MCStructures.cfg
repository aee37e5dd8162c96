SPECIFICATION Spec
CONSTANTS
  Producers = {"a", "b"}
  AqSize = 3
  MaxFds = 5
  MayLap = FALSE
  PlThreads = {1, 2}
  Objs = {"o1", "o2"}
  NULL = "nil"
  CacheMax = 1
  MinAvail = 0
  Margin = 1
  MayFail = FALSE
  MayFlush = TRUE
  MaxAllocs = 3
  Readers = {"f", "g"}
  RSize = 9
  Sizes = {2, 4}
  Follow = {"f"}
  FromEnd = {"g"}
  MaxWrites = 4
  Lockers = {1, 2, 3, 4}
  TmThreads = {1, 2}
  MaxWaits = {0, 1}
  MaxDelay = 1
  MaxDate = 3
  CtrThreads = {1, 2}
  Period = 2
  CtrWrap = 16
  FirstDate = 13
  MaxTicks = 3
  MaxAdds = 2
  NBlocks = 3
  BlockSize = 2
  MaxObjSize = 5
  CStreams = {"s1", "s2"}
  Uris = {"b", "c"}
  UriKey <- MCUriKey
  EntrySize = 1
  Chunks = {1, 2}
  MaxStores = 2
  SslThreads = {"t1"}
  SessIds = {1, 2}
  HdrSize = 1
  SessLens = {1, 2, 4}
  MaxSess = 3
  DhtSize = 18
  FieldLens = {0, 2, 5}
  FieldIds = {"x", "y"}
  MayFailDefrag = TRUE
  HtxSize = 14
  BlkSz = 2
  HdrLens = {1, 6}
  DataLens = {3}
  Reserve = 4
  MaxFrames = 2
  MaxEdits = 1
  QUIC_VARINT_1_BYTE_MAX = 4
  QUIC_VARINT_2_BYTE_MAX = 100
  Pns = {0, 1, 2, 3, 4, 5, 6}
  Limits = {0, 1, 2, 3, 4, 5, 6, 7, 8, 9, 10, 11, 12, 13, 14}
  MaxEncSz = 16
  LbServers <- MCServers
  Backups = {"c", "d"}
  NoServer = "none"
  Weights <- MCWeights
  EwghtMax = 3
  UwghtRange = 4
  UWrap = 65536
  Saturates = {"b"}
  Avoidable = {"a"}
  MaxChanges = 1
  MaxLate = 2
INVARIANTS
  PoolExact
  
  LockSound
  CacheSound
  
  FrameExact
  TurnsFair
PROPERTIES
  AqServed
  DatesKept
  CountersTrue
  HpackSound
  
  AcksExact
CHECK_DEADLOCK FALSE
