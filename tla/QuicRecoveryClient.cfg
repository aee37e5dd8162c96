SPECIFICATION Spec
CONSTANTS
  UINT = 4096
  Mtu = 2
  InitialWindow = 12
  QUIC_CONN_TX_BUFS_NB = 4
  IsListener = FALSE
  MaxAckDelay = 0
  InitialFrames = {"i1"}
  HandshakeFrames = {"h1"}
  AppFrames = {}
  InitialMaxPn = 1
  HandshakeMaxPn = 2
  AppMaxPn = 1
  AckSpaces = {"handshake"}
  OtherThread = TRUE
  Failures = {}
  MaxTime = 3
  PostFrames = {"done"}
  Lens = {1}
  Junk = {"none"}
INVARIANTS
  Conserved
  HandshakeDriven
CHECK_DEADLOCK FALSE
