\* A steady clock that passes the ends of both windows, one shard queue slot
\* for each of two shards.
CONSTANTS
  a1 = a1
  a2 = a2
  b1 = b1
  b2 = b2
  junk = junk
  Messages = {a1, b1, junk}
  Trades = {a1, b1}
  Symbols = {1, 2}
  SymbolOf <- SymbolsLive
  TimeOf <- TimesLive
  HashOf <- HashTable
  WindowMs = 2
  Second = 2
  QueueCapacity = 1
  AggregatorThreads = 2
  SteadyClock = TRUE
  SinkMayFail = TRUE
  MaxClock = 4
  MaxStops = 2
SPECIFICATION FairSpec
INVARIANT OnlyFinishedWindows
PROPERTIES StopCompletes FlushedEventually ImplementsLedger
CHECK_DEADLOCK FALSE
