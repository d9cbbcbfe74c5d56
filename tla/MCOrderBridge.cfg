CONSTANTS
  d1 = d1
  d2 = d2
  Daemon = {d1, d2}
  Requests <- AllRequests
  NoOrder = NoOrder
  LotStep = 2
  MinQty = 2
  MaxLeverage = 3
  MaxMessages = 2
SPECIFICATION FairSpec
INVARIANT ExecutedOnce
INVARIANT OpensAtItsLeverage
INVARIANT ReportsAgreeWithExchange
INVARIANT QuantityTradable
PROPERTY CloseNeverFlips
PROPERTY EveryRequestAnswered
CHECK_DEADLOCK FALSE
