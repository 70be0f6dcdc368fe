CONSTANTS
  cu = cu
  Orders = {1, 2}
  Instruments = {cu}
  OrderCapacity = 2
  TradeCapacity = 2
  Instrument = cu
  Plans <- MCPlans
  RecordCapacity = 2
  MaxSignals = 1
  MaxOrders = 2
  MaxCancels = 1
  MaxActiveOpen = 1
  MaxNetPosition = 1
  EntryTimeout = 0
  CloseInterval = 1
  MaxReprices = 1
  Refusals = {}
  Backlog = 1
  MaxConnects = 2
SPECIFICATION AcceptanceSpec
INVARIANT ReadyPositionsConverged
CHECK_DEADLOCK FALSE
