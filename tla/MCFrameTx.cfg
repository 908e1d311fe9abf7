\* An idle transmitter with a quiet host has nothing to do.
CHECK_DEADLOCK FALSE
SPECIFICATION AllSpec
CONSTANTS
  FifoLen = 12
  FrameSizes = {1, 2, 3, 7}
  LduBytes = 3
  TduBytes = 2
  ByteMax = 7
  SerialHeader = 3
  PreambleBytes = 1
  TxHang = 2
  MaxOps = 5
  FrameBytes = 2
  SmallQueue = 3
  LargeQueue = 7
  QueueLen = 2
  StartupCount = 3
  WaitCount = 4
  Messages = {0, 2, 3, 4}
  Lead = 2
  Trail = 1
  MaxBits = 5
  BufferBits = 6
  DotLength = 2
  MaxFixedOps = 5
  MaxCalOps = 6
  MaxCwOps = 3
INVARIANTS
  TypesOK
  RingAccounts
  CreditIsKept
  SumsAreWhole
PROPERTIES
  FramesArrive
  AllFallSilent
