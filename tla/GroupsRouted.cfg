SPECIFICATION Spec
CONSTANTS
  Account = {1, 2}
  Group = {"g", "h"}
  None = None
  Scenarios <- Lone
  MaxTrouble = 2
  MaxDue = 1
  MaxQueued = 1
INVARIANT Routed
CHECK_DEADLOCK FALSE
