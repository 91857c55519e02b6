----------------------- MODULE MCMarketDataAggregator -----------------------
(* MarketDataAggregator for TLC: two symbols, windows of two ticks. *)
EXTENDS MarketDataAggregator, TLC

CONSTANTS btc, eth

Symmetry == Permutations({btc, eth})
=============================================================================
