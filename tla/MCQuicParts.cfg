SPECIFICATION Spec
CONSTANTS
  UINT = 4096
  RTTs = {1, 2, 20}
  AckDelays = {0, 2}
  Mtu = 2
  InitialWindow = 12
  Lens = {1, 2}
  LossInfos <- FirstLossInfos
  MaxAckDelay = 0
  MaxPkts = 4
  MaxTime = 5
  Byte = 2
  QUIC_MAX_PACKET_NUM = 63
  MaxPn = 8
  MaxBatch = 2
  MaxAcks = 2
  CryptoLevels = {"I", "H"}
  CryptoLastLevel = "H"
  CryptoData <- MCData
  CryptoBufSz = 2
  CryptoInFlightMax = 2
  CryptoHdrLen = 1
  CryptoRooms = {4}
  NbPtoDgrams = 2
  SizeT = 64
  MaxCryptoPkts = 3
  MaxProbes = 1
  MaxKept = 1
INVARIANTS
  RttBounded
  WindowSound
  WindowDecoded
PROPERTIES
  CryptoDelivered
CHECK_DEADLOCK FALSE
