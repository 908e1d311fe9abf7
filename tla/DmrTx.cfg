\* An idle transmitter with a quiet host has nothing to do.
CHECK_DEADLOCK FALSE
SPECIFICATION Spec
CONSTANTS
  FrameBytes = 2
  CachBytes = 1
  BufferLens = {5, 8}
  DefaultLen = 5
  StartupCount = 3
  AbortCount = 2
  MaxOps = 4
INVARIANTS
  TypeOK
  ShortLCWhole
  FramesInOrder
  CreditProtects
PROPERTIES
  RotationKept
  RunningDrains
