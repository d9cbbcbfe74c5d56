CONSTANTS
  s1 = s1
  s2 = s2
  a1 = a1
  a2 = a2
  Symbol = {s1, s2}
  Async = {a1, a2}
  MaxBatchSize = 2
  DbErrors = TRUE
  MaxMinute = 2
  MaxEvents = 2
SPECIFICATION FairSpec
INVARIANT EveryBarInOnePlace
INVARIANT OneAsyncFlush
INVARIANT OnTimeEventsTogether
INVARIANT QuietShutdownKeepsAll
PROPERTY KeepsLedger
PROPERTY EventsReachDatabase
