SPECIFICATION FairSpec
CONSTANTS
  p1 = p1
  p2 = p2
  Replicas = {p1, p2}
  refresh1 = refresh1
  refresh2 = refresh2
  read1 = read1
  read2 = read2
  Requests = {refresh1, refresh2, read1, read2}
  Home <- MostAtFirst
  PoolSize = 1
  MaxOverflow = 1
  Refreshing = {refresh1, refresh2}
  Tables = 2
INVARIANTS
  TypeOK
  NoConnectionLeaked
  NoHoldAndWait
  SchemaWhole
PROPERTIES
  RequestsEnd
  ReplicasSettle
  OutageHeals
