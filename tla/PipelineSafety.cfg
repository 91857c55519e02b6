\* Two shards with room for one trade each, four trades and a message that
\* is no trade, a clock that may jump, and stop() called twice.
CONSTANTS
  a1 = a1
  a2 = a2
  b1 = b1
  b2 = b2
  junk = junk
  Messages = {a1, a2, b1, b2, junk}
  Trades = {a1, a2, b1, b2}
  Symbols = {1, 2}
  SymbolOf <- SymbolTable
  TimeOf <- TimeTable
  HashOf <- HashTable
  WindowMs = 2
  Second = 2
  QueueCapacity = 2
  AggregatorThreads = 2
  SteadyClock = FALSE
  SinkMayFail = TRUE
  MaxClock = 2
  MaxStops = 2
SPECIFICATION Spec
INVARIANTS TypeOK NoTradeLost LosslessStop WrittenOnce SingleWriter
  BlocksWellFormed OnlyLateTradesOutOfOrder ShardCountInvisible
CHECK_DEADLOCK FALSE
