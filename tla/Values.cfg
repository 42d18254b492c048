SPECIFICATION Spec
CONSTANTS
  Seed <- Seeds
  MaxTyped = 5
  Origin <- Origins
  Elem <- Elems
  PrefixElem <- PrefixElems
  MaxElems = 2
  MaxSets = 2
  Finalizer = {f1, f2, f3}
  MaxFinalizers = 3
  f1 = f1
  f2 = f2
  f3 = f3
INVARIANTS AcceptsWellFormed PrintsBack RoundTrip CompletesToJoin OnePerType EqualIsSameSet RemovalIsExact CacheUntouched SchemaAccepts
PROPERTIES TransitionsKept DistinctStaysDistinct
CHECK_DEADLOCK FALSE
