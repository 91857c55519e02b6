\* Three trades of two symbols in two windows; a product of two and a half
\* units is truncated, and one of three trades at the top price overflows.
SPECIFICATION Spec
CONSTANTS
  btc = btc
  eth = eth
  Symbols = {btc, eth}
  TradeTimes = {0, 1, 2}
  Prices = {1, 5}
  Quantities = {1, 3}
  WindowMs = 2
  ScaleFactor = 2
  Int64Max = 15
  MaxTrades = 3
SYMMETRY Symmetry
INVARIANTS
  TypeOK
  WindowsSumUpTrades
  VolumeTruncatedPerTrade
  ExtractionExact
