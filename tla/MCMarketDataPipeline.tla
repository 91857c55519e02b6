------------------------ MODULE MCMarketDataPipeline ------------------------
(***************************************************************************)
(* Instances of MarketDataPipeline for TLC, with windows of 2 ms: two      *)
(* trades of symbol 1 in window 0, and one trade of symbol 2 in each of    *)
(* windows 0 and 2, so that a line can have two trades, a block two lines  *)
(* and a flush two blocks.                                                 *)
(***************************************************************************)
EXTENDS MarketDataPipeline, TLC

CONSTANTS a1, a2, b1, b2, junk   \* messages; junk does not parse

SymbolTable == a1 :> 1 @@ a2 :> 1 @@ b1 :> 2 @@ b2 :> 2
TimeTable == a1 :> 0 @@ a2 :> 1 @@ b1 :> 1 @@ b2 :> 2

(* For liveness: one trade per symbol, in windows 0 and 2. *)
SymbolsLive == a1 :> 1 @@ b1 :> 2
TimesLive == a1 :> 1 @@ b1 :> 2

HashTable == 1 :> 7 @@ 2 :> 4
=============================================================================
