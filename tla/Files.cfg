SPECIFICATION Spec
CONSTANTS
  Ops = {"o1", "o2"}
  Big = {"b"}
  Scenarios <- MCScenarios
  MaxCopies = 5
  MaxTrouble = 2
INVARIANTS Settled NothingLost Reachable SentOnce
CHECK_DEADLOCK FALSE
