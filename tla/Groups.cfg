SPECIFICATION Spec
CONSTANTS
  Account = {1, 2}
  Group = {"g", "h"}
  None = None
  Scenarios <- MCScenarios
  MaxTrouble = 2
  MaxDue = 1
  MaxQueued = 1
INVARIANTS  ChainBacked
PROPERTIES NeverRevived 
CHECK_DEADLOCK FALSE
