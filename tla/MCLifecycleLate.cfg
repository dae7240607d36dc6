SPECIFICATION Spec
CONSTANTS
  Services = {"order"}
  Slots = {k1, k2}
  None = None
INVARIANT EveryCloseFinished
CHECK_DEADLOCK FALSE
