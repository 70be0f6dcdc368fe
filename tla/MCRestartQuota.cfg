CONSTANTS
  MaxRef = 3
  Signals = {1, 2}
  RecordCapacity = 3
  MaxSignals = 2
  MaxOrders = 2
  MaxCancels = 1
  MaxActiveOpen = 1
  MaxDay = 1
  MaxRuns = 3
  MaxCrashes = 0
  Lossy = FALSE
SPECIFICATION Spec
INVARIANT CancelsWithinDailyLimit
CHECK_DEADLOCK FALSE
