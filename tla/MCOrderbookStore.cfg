CONSTANTS
  live = live
  batch = batch
  Null = Null
  NoRow = NoRow
  Source <- mcSource
  Minute <- mcMinute
  Bar <- mcBar
  MaxBatch = 2
SPECIFICATION Spec
INVARIANT TypeOK
INVARIANT CoveredIffVolumes
INVARIANT LargestBarWins
INVARIANT OnePopulation
PROPERTY UpsertOnlyAdds
