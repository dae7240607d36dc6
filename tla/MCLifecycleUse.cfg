SPECIFICATION Spec
CONSTANTS
  Services = {"order", "inventory", "iam", "payment", "assembly"}
  Slots = {k1, k2}
  None = None
INVARIANT DependencyOrder
CHECK_DEADLOCK FALSE
