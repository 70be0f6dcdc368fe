CONSTANTS
  cu = cu
  Orders = {1, 2, 3}
  Instruments = {cu}
  OrderCapacity = 3
  TradeCapacity = 4
  Instrument = cu
  Plans <- LotsOrSignals
  RecordCapacity = 3
  MaxSignals = 2
  MaxOrders = 4
  MaxCancels = 2
  MaxActiveOpen = 2
  MaxNetPosition = 2
  EntryTimeout = 1
  CloseInterval = 1
  MaxReprices = 1
  Refusals = {"Response"}
  Backlog = 2
SPECIFICATION Spec
INVARIANT OpenSlotsMatchOrders
INVARIANT CancelQuotaIsWhatWasSent
PROPERTY OneRequestAtATime
INVARIANT OneExitOrder
INVARIANT LotsHaveAnExit
PROPERTY ExitWithinPosition
PROPERTY LotsOfOneSignal
PROPERTY FlatOrFrozen
CHECK_DEADLOCK FALSE
