-------------------------- MODULE MCTimelyDelivery --------------------------
(* Two trades of one symbol in the window 0..1, the second one late in it. *)
EXTENDS TimelyDelivery, TLC

CONSTANTS a1, a2

SymbolTable == a1 :> 1 @@ a2 :> 1
TimeTable == a1 :> 0 @@ a2 :> 1
HashTable == 1 :> 0
=============================================================================
