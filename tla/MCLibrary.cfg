\* A pool may be left alone, and the calls of the threads are bounded.
CHECK_DEADLOCK FALSE
SPECIFICATION LibrarySpec
CONSTANTS
  Length = 4
  Element = {e1, e2}
  NoElement = NoElement
  Block = 2
  Numbers = 9
  Thread = {t1, t2}
  NoThread = NoThread
  MaxCalls = 1
  m_maxWorkerCnt = 2
  m_maxQueuedTasks = 2
  Caller = {c1}
  MaxTasks = 3
  MaxStarts = 2
  TicksPerSec = {1, 3}
  Secs = {0, 2}
  Msecs = {0, 700}
  Ticks = {1, 3}
  MaxElapsed = 9
  Lengths = {1, 3}
  Items = {1, 2}
  MaxBlock = 3
  Bytes = {0, 165}
INVARIANTS
  AllTypesOK
  UnlockedSpaceSafe
  QueuesKeepOrder
  ReadAsSent
PROPERTIES
  FifoRefinement
  WholeWhileApart
  CallsReturn
