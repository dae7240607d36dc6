SPECIFICATION FairSpec
CONSTANTS
  Members = {m1, m2}
  Partitions = {p1}
  Nobody = Nobody
  MaxLog = 3
  MaxFaults = 2
INVARIANTS TypeOK AtLeastOnce
PROPERTIES CommittedNeverBack EveryMessageSettled
