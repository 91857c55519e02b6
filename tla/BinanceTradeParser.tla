------------------------- MODULE BinanceTradeParser -------------------------
(***************************************************************************)
(* BinanceTradeParser::parse: the checks on the JSON message, the reads of *)
(* its fields, and Decimal::parse (DecimalText) on the price and then on   *)
(* the quantity.                                                           *)
(*                                                                         *)
(* An object is the JSON type of each field, so a field's value is where   *)
(* it was read: <<object, field>>.  Only price and quantity have a text.   *)
(***************************************************************************)
EXTENDS DecimalText

CONSTANT Inputs  \* the messages, as a set of classes

VARIABLES message, stage, event

parserVars == <<message, stage, event>>

(* The type each required field must have; json::exception is no           *)
(* invalid_argument, so get<> of another type ends the parser thread.      *)
Required == [s |-> "string", t |-> "unsigned", p |-> "string",
             q |-> "string", T |-> "unsigned", m |-> "boolean"]

(* What the code tells apart in an object. *)
MaybeA(type) == {"absent", "other", type}
Objects == [e : MaybeA("string") \cup {"trade"}, s : MaybeA("string"),
            t : MaybeA("unsigned"), p : MaybeA("string"), q : MaybeA("string"),
            T : MaybeA("unsigned"), m : MaybeA("boolean")]

(* A message: malformed JSON, a value that is no object, or an object,     *)
(* with a "data" field that is absent, no object, or an object.            *)
IsMessage(m) ==
  /\ m.json \in {"malformed", "other", "object"}
  /\ m.data \in {"absent", "other", "object"}
  /\ m.fields \in [{"root", "data"} -> Objects]
  /\ m.price \in Seq(Characters) /\ m.quantity \in Seq(Characters)

ASSUME InputsAssumption == \A kind \in Inputs : \A m \in kind : IsMessage(m)

unwrap_payload(m) == IF m.data # "absent" THEN "data" ELSE "root"

PayloadIsObject(m) == unwrap_payload(m) = "data" => m.data = "object"

is_unsupported_event_type(o) == o.e = "string"

(* Mutant: the type of the trade time is not checked. *)
has_required_untyped(o) ==
  \A f \in DOMAIN Required : o[f] = Required[f] \/ (f = "T" /\ o[f] # "absent")

has_required_fields(o) == \A f \in DOMAIN Required : o[f] = Required[f]

NoEvent == [symbol |-> <<>>, trade_id |-> <<>>, trade_time_ms |-> <<>>,
            buyer_is_maker |-> <<>>, price |-> 0, quantity |-> 0]

ParserInit ==
  /\ \E kind \in Inputs : message \in kind
  /\ Init(message.price)
  /\ stage = "checks"
  /\ event = NoEvent

Accepted(m) ==
  /\ m.json = "object"
  /\ PayloadIsObject(m)
  /\ ~is_unsupported_event_type(m.fields[unwrap_payload(m)])
  /\ has_required_fields(m.fields[unwrap_payload(m)])

Refuse ==
  /\ stage = "checks"
  /\ ~Accepted(message)
  /\ stage' = "nullopt"
  /\ UNCHANGED <<message, event, vars>>

(* The fields with get<>, before the numbers. *)
ReadFields ==
  /\ stage = "checks"
  /\ Accepted(message)
  /\ LET from == unwrap_payload(message)
     IN  IF \A f \in DOMAIN Required : message.fields[from][f] = Required[f]
         THEN /\ stage' = "price"
              /\ event' = [event EXCEPT !.symbol = <<from, "s">>,
                                        !.trade_id = <<from, "t">>,
                                        !.trade_time_ms = <<from, "T">>,
                                        !.buyer_is_maker = <<from, "m">>]
         ELSE stage' = "crashed" /\ UNCHANGED event
  /\ UNCHANGED <<message, vars>>

(* Decimal::parse at work. *)
Scan ==
  /\ stage \in {"price", "quantity"}
  /\ Next
  /\ UNCHANGED parserVars

PriceParsed ==
  /\ stage = "price" /\ pc = "returned"
  /\ stage' = "quantity"
  /\ event' = [event EXCEPT !.price = raw]
  /\ text' = message.quantity
  /\ idx' = 1 /\ negative' = FALSE /\ pc' = "sign" /\ raw' = 0
  /\ integer_part' = 0 /\ fractional_part' = 0 /\ fractional_digits' = 0
  /\ UNCHANGED message

QuantityParsed ==
  /\ stage = "quantity" /\ pc = "returned"
  /\ stage' = "event"
  /\ event' = [event EXCEPT !.quantity = raw]
  /\ UNCHANGED <<message, vars>>

NumberRejected ==
  /\ stage \in {"price", "quantity"} /\ pc = "rejected"
  /\ stage' = "nullopt"
  /\ UNCHANGED <<message, event, vars>>

ParserNext ==
  Refuse \/ ReadFields \/ Scan \/ PriceParsed \/ QuantityParsed \/ NumberRejected

ParserSpec == ParserInit /\ [][ParserNext]_<<parserVars, vars>>

-----------------------------------------------------------------------------
(* The reference: a trade is an object, in an envelope or not, of event    *)
(* type "trade" if it has one, with every field of its type and with two   *)
(* decimal numbers.  An envelope counts for its "data" alone.              *)
Payload(m) == IF m.data = "absent" THEN "root" ELSE "data"

IsTrade(m) ==
  /\ m.json = "object" /\ m.data # "other"
  /\ LET o == m.fields[Payload(m)]
     IN  o.e # "string" /\ \A f \in DOMAIN Required : o[f] = Required[f]
  /\ IsNumber(m.price) /\ IsNumber(m.quantity)

(* No message ends the parser thread with an exception: the checks cover   *)
(* every field that is read, whatever the object lacks or holds instead.   *)
(* parse() gives an event for exactly the trades, whatever their numbers   *)
(* look like, with the trade's own fields and nothing of an envelope.      *)
TradesRecognised ==
  /\ stage # "crashed"
  /\ stage = "nullopt" => ~IsTrade(message)
  /\ stage = "event" =>
       /\ IsTrade(message)
       /\ event.symbol = <<Payload(message), "s">>
       /\ event.trade_id = <<Payload(message), "t">>
       /\ event.trade_time_ms = <<Payload(message), "T">>
       /\ event.buyer_is_maker = <<Payload(message), "m">>

(* parse() always comes to an end, and the price and the quantity of its   *)
(* event are the numbers their texts denote, if they fit the word.         *)
NumbersExact ==
  /\ stage \in {"event", "nullopt", "crashed"} \/ ENABLED ParserNext
  /\ stage = "event" =>
       /\ Representable(message.price) => event.price = ValueOf(message.price)
       /\ Representable(message.quantity) => event.quantity = ValueOf(message.quantity)
=============================================================================
