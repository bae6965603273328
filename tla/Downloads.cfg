SPECIFICATION Spec
CONSTANTS
  Client = {1, 2, 3}
  Resource = {"v", "f"}
  None = None
  Scenarios <- MCScenarios
  MaxTrouble = 2
INVARIANTS PulledOnce OpenedWhole 
PROPERTIES Ends
CHECK_DEADLOCK FALSE
