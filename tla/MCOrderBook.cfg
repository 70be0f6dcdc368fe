CONSTANTS
  o1 = o1
  o2 = o2
  o3 = o3
  cu = cu
  al = al
  Orders = {o1, o2, o3}
  Instruments = {cu, al}
  OrderCapacity = 2
  TradeCapacity = 3
  Seeds <- MCSeeds
  Strays <- MCStrays
SPECIFICATION Spec
INVARIANT EachLotAccountedOnce
INVARIANT PositionIsOpenMinusClosed
INVARIANT FullyAccountedIsFilled
INVARIANT ConvergesToCounter
INVARIANT NoFalseAlarm
PROPERTY TerminalLeftOnlyForFills
CHECK_DEADLOCK FALSE
