\* A raw queue of one message and two messages: one waits in the queue while
\* the network thread blocks with the other.
CONSTANTS
  a1 = a1
  a2 = a2
  Messages = {a1, a2}
  Trades = {a1, a2}
  Symbols = {1}
  SymbolOf <- SymbolTable
  TimeOf <- TimeTable
  Feed <- TradeFeed
  HashOf <- HashTable
  WindowMs = 1
  Second = 1
  QueueCapacity = 1
  AggregatorThreads = 1
  SteadyClock = TRUE
  SinkMayFail = TRUE
  MaxClock = 1
  MaxAttempts = 1
  MaxStops = 2
SPECIFICATION ServiceSpec
INVARIANTS ServiceTypeOK NothingReadIsRefused CleanExit OneReportPerRun FreshBackoffAfterMessage
PROPERTIES DestructorsWriteNothing SignalEndsProcess ReadTradesWritten Reconnects
CHECK_DEADLOCK FALSE
