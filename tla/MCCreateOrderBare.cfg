SPECIFICATION Spec
CONSTANTS
  h29 = h29  h30 = h30  h200 = h200  h201 = h201  e30 = e30  e70 = e70
  plasma = plasma  laser = laser  bare = bare
  Nil = Nil
  Unknown = Unknown
  Absent = Absent
  Catalog <- Bare
  Requests <- AllRequests
  MaxStock = 1
  MaxOthers = 0
INVARIANT NoPanic
CHECK_DEADLOCK FALSE
