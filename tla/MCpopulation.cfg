SPECIFICATION Spec
CONSTANTS
  paris = paris
  rome = rome
  Qids = {paris, rome}
  Years = {1, 2, 3}
  Populations = {0, 1, 2, 5}
  MaxPopulation = 5
  Null = Null
  Garbage = Garbage
  MaxRows = 4
  Bindings <- AllBindings
CHECK_DEADLOCK FALSE
INVARIANTS
  SmallestReport
  ScopesFiltered
  ParsedFromReports
