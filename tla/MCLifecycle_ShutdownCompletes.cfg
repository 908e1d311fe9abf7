\* The process ends, shutdown() may hang, and a host may be silent.
CHECK_DEADLOCK FALSE
SPECIFICATION AllSpec
CONSTANTS
  Device = {d1}
  MaxRuns = 2
  MaxSignals = 2
  WatchdogLimit = 2
  RingLen = 1
  PortLen = 1
  TtyLen = 2
  FrameSizes = {1, 3}
  MaxBytes = 4
  ColorCodes = {1, 2}
  MaxColorCode = 1
  Values = {0, 1}
PROPERTIES
  ShutdownCompletes
