SPECIFICATION Spec
CONSTANTS
  h29 = h29  h30 = h30  h200 = h200  h201 = h201  e30 = e30  e70 = e70
  plasma = plasma  laser = laser  bare = bare
  Nil = Nil
  Unknown = Unknown
  Absent = Absent
  Catalog <- Seeded
  Requests <- MixedRequests
  MaxStock = 1
  MaxOthers = 2
INVARIANTS TypeOK CreatedIsBuildable CodeTellsWhy
CHECK_DEADLOCK FALSE
