CONSTANTS
  HourLen = 4
  DayLen = 8
  Interval <- mcInterval
  Offset <- mcOffset
  Limit <- mcLimit
  SkipWindow = 1
  Horizon = 9
SPECIFICATION JobsSpec
INVARIANT NoSlotLost
INVARIANT DelayedHourCaptured
CHECK_DEADLOCK FALSE
