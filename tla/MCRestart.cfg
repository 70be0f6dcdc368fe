CONSTANTS
  MaxRef = 3
  Signals = {1, 2}
  RecordCapacity = 3
  MaxSignals = 2
  MaxOrders = 2
  MaxCancels = 1
  MaxActiveOpen = 1
  MaxDay = 2
  MaxRuns = 3
  MaxCrashes = 1
  Lossy = TRUE
SPECIFICATION Spec
INVARIANT OrdersWithinDailyLimits
INVARIANT OpenOrdersWithinLimit
INVARIANT KnowsItsOrders
INVARIANT CleanStopForgetsNoOrder
PROPERTY FreshOrderRefs
CHECK_DEADLOCK FALSE
