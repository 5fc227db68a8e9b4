SPECIFICATION FairSpec
CONSTANTS
  prado = prado
  pradoMuseum = pradoMuseum
  tate = tate
  madrid = madrid
  london = london
  atlantis = atlantis
  Pages = {prado, pradoMuseum, tate, madrid, london, atlantis}
  itemPrado = itemPrado
  itemTate = itemTate
  itemMadrid = itemMadrid
  itemLondon = itemLondon
  Items = {itemPrado, itemTate, itemMadrid, itemLondon}
  labelA = labelA
  labelB = labelB
  labelC = labelC
  Names = {labelA, labelB, labelC}
  Years = {1, 2}
  Null = Null
  Worlds <- AllWorlds
  Folded <- Identity
  Threshold = 2
  MinEntries = 1
  ChunkSize = 1
  MaxAttempts = 2
CHECK_DEADLOCK FALSE
INVARIANTS
  FetchInv
  EnrichedAsListed
  EveryMuseumHasVisitors
  PopulationsOfCities
  RequestsBounded
PROPERTIES
  FetchEnds
