CONSTANTS
  Symbol <- mcSymbol
  Trade <- mcTrade
  SymbolOf <- mcSymbolOf
  MinuteOf <- mcMinuteOf
  None = None
  MaxRuns = 2
SPECIFICATION Spec
INVARIANT EveryTradeInOneBar
INVARIANT MinutesBuiltOnce
CHECK_DEADLOCK FALSE
