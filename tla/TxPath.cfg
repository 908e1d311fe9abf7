SPECIFICATION Spec
CONSTANTS
  RingSize = 5
  BlockLen = 2
  FrameLen = 3
  RadioCap = 4
  HangTicks = 2
  MaxOps = 5
  CosLockoutEnable = TRUE
  PttInvert = FALSE
INVARIANTS
  TypeOK
  NothingWaitsWhileOff
  NeverOverflows
  SamplesInOrder
  MarksAligned
  KeyingAgrees
PROPERTIES
  OffOnlyAfterHang
  EventuallyOff
