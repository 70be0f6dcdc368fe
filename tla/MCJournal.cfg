SPECIFICATION FairSpec
CONSTANTS
  Capacity = 2
  Reserve = 1
  MaxEvents = 3
  MaxFlushes = 2
INVARIANT FlushIsABarrier
INVARIANT StopKeepsAll
INVARIANT CriticalHaveRoom
PROPERTY ImplementsTraceLog
PROPERTY CallsReturn
CHECK_DEADLOCK FALSE
