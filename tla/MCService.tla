------------------------------ MODULE MCService ------------------------------
(* Service for TLC: one shard, two trades of one symbol in window 0. *)
EXTENDS Service, TLC

CONSTANTS a1, a2

SymbolTable == a1 :> 1 @@ a2 :> 1
TimeTable == a1 :> 0 @@ a2 :> 0
TradeFeed == <<a1, a2>>
HashTable == 1 :> 0
=============================================================================
