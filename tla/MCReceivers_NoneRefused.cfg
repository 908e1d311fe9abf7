CHECK_DEADLOCK FALSE
SPECIFICATION Spec
CONSTANTS
  FrameLen = 12
  FswLen = 3
  CorrCountdown = 4
  LduLen = 16
  HduLen = 8
  PduLen = 20
  SyncLen = 3
  MaxFrames = 3
  MaxSyncLost = 13
  LastOfSuperframe = 5
  SlotRing = 13
  BurstTail = 5
  Strengths = {1, 2}
  Delay = 2
  MaxLag = 2
  QueueLen = 3
  PopBurst = 2
  RingLen = 3
  Block = 2
  WorkBursts = {1, 2}
  MaxSent = 4
  MaxCame = 7
  Modem = {m1, m2}
  Rate = 3
  RingSize = 14
  MaxBudget = 17
  MaxElapsed = 6
  MaxBlocks = 9
  MaxLate = 4
  Channel = {1, 2}
  Device = {1, 2}
  Transmitters = {1}
  Asked = {0, 10, 12}
  Licensed = {12}
  FineStep = 3
  AfcStep = 1
  AfcUnit = 2
  AfcLeast = 1
  CenterOffset = 1
  MaxAsked = 3
  MaxAfc = 1
  Second = 3
  Levels = {0, 2, 5}
  Greatest = 7
  Base = 5
  BufferLen = 7
  ShortSizes = {3, 4}
  LongSizes = {4, 6, 7}
  Payloads = {0, 3}
  MaxHostFrames = 2
INVARIANT
  NoneRefused
