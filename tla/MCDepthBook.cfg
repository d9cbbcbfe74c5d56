CONSTANTS
  Price <- mcPrice
  Qty = {1, 2}
  Market <- mcMarket
  Feed = {"file", "stream"}
  WarmDepth = 2
  MaxVersion = 6
  Priority = {1, 2}
SPECIFICATION TreapSpec
INVARIANT NoGhostLevels
INVARIANT SnapshotKept
PROPERTY SnapshotSpreadReal
PROPERTY Refines
CHECK_DEADLOCK FALSE
