SPECIFICATION Spec
CONSTANTS
  Keys <- MCKeys
  Values = {v1, v2}
  Hash <- MCHash
  MinCap = 4
  Empty = Empty
  Deleted = Deleted
  NotFound = NotFound
INVARIANTS CountersExact CapacityBounded HeldExact IterationExact
PROPERTIES ImplementsDictionary
