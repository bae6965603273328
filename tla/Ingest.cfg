SPECIFICATION Spec
CONSTANTS
  Ops = {"o1", "o2", "o3"}
  Scenarios <- MCScenarios
  MaxTrouble = 3
INVARIANTS Delivered SentOnce  SourceKept
CHECK_DEADLOCK FALSE
