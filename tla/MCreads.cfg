SPECIFICATION ReadSpec
CONSTANTS
  r1 = r1
  r2 = r2
  Requests = {r1, r2}
  Seed = Seed
  louvre = louvre
  orsay = orsay
  Names = {louvre, orsay}
  itemA = itemA
  Items = {itemA}
  paris = paris
  rome = rome
  Qids = {paris, rome}
  Years = {1, 2, 3, 4}
  Null = Null
  Absent = Absent
  Datasets <- ReadDatasets
  SeedDatasets <- FullDatabase
  MaxTime = 0
  Rank <- RomeFirst
  Visitors <- SomeVisitors
  Population <- SomePopulation
  Skips = {0, 1, 2}
  Limits = {1, 2}
  Batch = 1
  MinRows = 2
INVARIANTS
  ReadInv
  OneRefreshPerAnswer
  QuietReadExact
