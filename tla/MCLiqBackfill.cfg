CONSTANTS
  K = 2
  MaxHour = 1
  Liquidated <- mcLiquidated
  MaxVolume = 2
  MarkerBatch = 1
  Live = Live
  Null = Null
  NoRow = NoRow
  MaxRuns = 2
  MaxWrites = 2
SPECIFICATION Spec
INVARIANT MarkedHoursWritten
INVARIANT VolumesWhole
CHECK_DEADLOCK FALSE
