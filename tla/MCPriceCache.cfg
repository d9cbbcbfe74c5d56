CONSTANTS
  DayLen = 2
  MonthLen = 4
  Bucket = 2
  Page = 2
  Slack = 1
  NoBar = NoBar
  LastMinute = 6
  FirstNow = 5
  Asked <- AskedRanges
  MaxCalls = 2
  MaxLive = 1
SPECIFICATION CacheSpec
INVARIANT AnswersStored
INVARIANT EmptySpanFetched
PROPERTY RowsKept
CHECK_DEADLOCK FALSE
