SPECIFICATION FairSpec
CONSTANTS
  Services = {"order", "inventory", "iam", "payment", "assembly"}
  Slots = {k1, k2}
  None = None
INVARIANTS TypeOK NoUseAfterClose EverythingClosed
PROPERTY ShutdownCompletes
CHECK_DEADLOCK FALSE
