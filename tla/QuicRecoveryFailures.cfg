SPECIFICATION Spec
CONSTANTS
  UINT = 4096
  Mtu = 2
  InitialWindow = 12
  QUIC_CONN_TX_BUFS_NB = 4
  IsListener = TRUE
  MaxAckDelay = 0
  InitialFrames = {"i1"}
  HandshakeFrames = {"h1"}
  AppFrames = {}
  InitialMaxPn = 0
  HandshakeMaxPn = 1
  AppMaxPn = 0
  AckSpaces = {}
  OtherThread = FALSE
  Failures = {"nopkt", "nofrm", "encrypt", "send"}
  MaxTime = 3
  PostFrames = {"done"}
  Lens = {1}
  Junk = {"none", "ae", "padding"}
INVARIANTS
  FramesConserved
CHECK_DEADLOCK FALSE
