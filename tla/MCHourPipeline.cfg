CONSTANTS
  Live = Live
  Hist = Hist
  Leak = Leak
  Null = Null
  NoRow = NoRow
  Source <- mcSource
  K = 2
  HoursPerDay = 2
  MaxHour = 2
  Modes = {"overwrite", "gapfill", "resume"}
  MaxRuns = 2
  MaxLive = 1
SPECIFICATION Spec
INVARIANT WrittenHoursComplete
INVARIANT OverwrittenInsideUnmixed
