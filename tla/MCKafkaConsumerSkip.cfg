SPECIFICATION Spec
CONSTANTS
  Members = {m1}
  Partitions = {p1}
  Nobody = Nobody
  MaxLog = 2
  MaxFaults = 0
INVARIANT FailedIsRedelivered
