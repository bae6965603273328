SPECIFICATION FairSpec
CONSTANTS
  Tasks = {t1}
  High = {t1}
  Bulk = {t1}
  Workers = {w1, w2}
  HiWorkers = {w1, w2}
  MaxRetries = 1
  BulkSlots = 1
  Lossy = {t1}
  MaxPauses = 2
  MaxShutdowns = 0
INVARIANTS PauseHolds LedgerConverges
PROPERTIES EventuallyEnds StopConverges ImplementsLife
CHECK_DEADLOCK FALSE
