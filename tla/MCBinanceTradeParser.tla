------------------------ MODULE MCBinanceTradeParser ------------------------
(***************************************************************************)
(* BinanceTradeParser for TLC, with binary digits: every kind of object,   *)
(* bare and in an envelope, and every text up to MaxLen for the price, up  *)
(* to three characters for the quantity.                                   *)
(***************************************************************************)
EXTENDS BinanceTradeParser

CONSTANT MaxLen  \* bound: the length of a price

BinaryDigits == <<"0", "1">>

One == <<"1">>
Empty == [f \in {"e", "s", "t", "p", "q", "T", "m"} |-> "absent"]
Complete == [f \in DOMAIN Empty |-> IF f = "e" THEN "trade" ELSE Required[f]]

Message(json, data, root, inner, price, quantity) ==
  [json |-> json, data |-> data, price |-> price, quantity |-> quantity,
   fields |-> [root |-> root, data |-> inner]]

Texts(n) == UNION {[1..k -> Characters] : k \in 0..n}

TestInputs ==
  { {Message("malformed", "absent", Empty, Empty, One, One),
     Message("other", "absent", Empty, Empty, One, One)},
    {Message("object", "absent", o, Empty, One, One) : o \in Objects},
    {Message("object", "object", r, o, One, One) :
        r \in {Empty, Complete}, o \in Objects},
    {Message("object", "other", r, Empty, One, One) : r \in {Empty, Complete}},
    {Message("object", "absent", Complete, Empty, p, One) : p \in Texts(MaxLen)},
    {Message("object", "object", Empty, Complete, <<"1", "0">>, q) : q \in Texts(3)} }
=============================================================================
