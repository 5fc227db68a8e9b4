SPECIFICATION FairSpec
CONSTANTS
  r1 = r1
  r2 = r2
  Requests = {r1, r2}
  Seed = Seed
  louvre = louvre
  orsay = orsay
  Names = {louvre, orsay}
  itemA = itemA
  itemB = itemB
  Items = {itemA, itemB}
  paris = paris
  rome = rome
  Qids = {paris, rome}
  y1 = y1
  y2 = y2
  Years = {y1, y2}
  Null = Null
  Absent = Absent
  Untouched = Untouched
  StateKey = StateKey
  Datasets <- ConcurrentDatasets
  SeedDatasets <- EmptiedOrFull
  Cooldown = 1
  Second = 2
  MaxTime = 1
  KeyRequired = FALSE
  Serial = FALSE
INVARIANTS
  ContentsInv
  RowLocksExclusive
  OneRowPerKey
  OneRowPerItem
  NoDanglingCity
  PopulationsNeverDropped
  LatestRefreshComplete
  StateDescribesLatest
  NoTraceOfFailure
PROPERTIES
  ImplementsOverlappingRefreshes
  EveryRequestEnds
