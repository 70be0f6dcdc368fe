CONSTANTS
  cu = cu
  Orders = {1, 2, 3}
  Instruments = {cu}
  OrderCapacity = 3
  TradeCapacity = 4
  Instrument = cu
  Plans <- TwoLots
  RecordCapacity = 3
  MaxSignals = 2
  MaxOrders = 4
  MaxCancels = 2
  MaxActiveOpen = 1
  MaxNetPosition = 2
  EntryTimeout = 1
  CloseInterval = 1
  MaxReprices = 1
  Refusals = {"Response"}
  Backlog = 2
SPECIFICATION Spec
CHECK_DEADLOCK FALSE
PROPERTY CancelRequestedMeansSent
