SPECIFICATION Spec
CONSTANTS
  RingSize = 5
  BlockLen = 2
  FrameLen = 3
  RadioCap = 4
  HangTicks = 2
  MaxOps = 4
  CosLockoutEnable = TRUE
  PttInvert = FALSE
PROPERTIES
  FlushEmptiesStaging
