SPECIFICATION Spec
CONSTANTS
  Tasks = {t1, t2}
  High = {t1, t2}
  Bulk = {t1, t2}
  Workers = {w1, w2}
  HiWorkers = {w1, w2}
  MaxRetries = 1
  BulkSlots = 1
  Lossy = {}
  MaxPauses = 1
  MaxShutdowns = 1
INVARIANTS StoppableUntilTheEnd PermitsConserved NoDoubleExecution TerminalOnce
SYMMETRY Symmetry
CHECK_DEADLOCK FALSE
