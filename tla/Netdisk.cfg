SPECIFICATION Spec
CONSTANTS
  Job = {1, 2}
  File = {"a", "b", "c"}
  Scenarios <- MCScenarios
  MaxReplays = 2
  MaxTokens = 5
  MaxPage = 4
  MaxTrouble = 2
INVARIANTS ExecutedOnce AuthHeals IndexedAll
PROPERTIES Ends
CHECK_DEADLOCK FALSE
