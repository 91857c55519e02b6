\* Delivery takes at most one millisecond.
CONSTANTS
  a1 = a1
  a2 = a2
  Messages = {a1, a2}
  Trades = {a1, a2}
  Symbols = {1}
  SymbolOf <- SymbolTable
  TimeOf <- TimeTable
  HashOf <- HashTable
  WindowMs = 2
  Second = 2
  QueueCapacity = 2
  AggregatorThreads = 1
  SteadyClock = TRUE
  SinkMayFail = FALSE
  MaxClock = 4
  MaxStops = 1
  MaxDelay = 1
SPECIFICATION TimelySpec
INVARIANT WindowsNotSplit
CHECK_DEADLOCK FALSE
