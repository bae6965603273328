SPECIFICATION FairSpec
CONSTANTS
  Calls = {a, b}
  Hung = {a}
  Restores = {restore}
  Rebuilds = {rebuild}
  Closers = {teardown}
  Cancellable = {rebuild}
  First = first
  PoolSize = 1
  Threads = 2
INVARIANTS SwapIsQuiet WaitsForBusyPool StoreUsable
PROPERTIES ComesToRest
CHECK_DEADLOCK FALSE
