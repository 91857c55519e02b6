---------------------------- MODULE DecimalText ----------------------------
(***************************************************************************)
(* Decimal::parse, as the scan over its text that it is, and to_string     *)
(* (util/Decimal.cpp).  A text is a sequence of characters; the code has   *)
(* ten digits and eight fractional ones, the model Base and kScale.        *)
(***************************************************************************)
EXTENDS Decimal, Sequences, FiniteSetsExt

CONSTANTS Digits,   \* the digit characters, in order of value
          Others,   \* characters that are no part of a number
          kScale    \* the number of fractional digits

Base == Len(Digits)

ASSUME TextAssumption ==
  /\ kScale \in Nat /\ ScaleFactor = Base^kScale
  /\ Range(Digits) \cap {"+", "-", "."} = {}

Characters == Range(Digits) \cup Others \cup {"+", "-", "."}

VARIABLES text, idx, negative, integer_part, fractional_part,
          fractional_digits, pc, raw

vars == <<text, idx, negative, integer_part, fractional_part,
          fractional_digits, pc, raw>>

numbers == <<integer_part, fractional_part, fractional_digits, raw>>

IsDigit(c) == c \in Range(Digits)
DigitOf(c) == CHOOSE d \in 0..(Base - 1) : Digits[d + 1] = c

(* parse(t) is called. *)
Init(t) ==
  /\ text = t
  /\ idx = 1
  /\ negative = FALSE
  /\ integer_part = 0
  /\ fractional_part = 0
  /\ fractional_digits = 0
  /\ pc = "sign"
  /\ raw = 0

AtDigit == idx <= Len(text) /\ IsDigit(text[idx])
AtDot == idx <= Len(text) /\ text[idx] = "."

Goto(from, to) == pc = from /\ pc' = to

(* throw std::invalid_argument *)
Reject ==
  /\ \/ Goto("sign", "rejected") /\ text = <<>>
     \/ Goto("first", "rejected") /\ ~AtDigit
     \/ Goto("point", "rejected") /\ ~AtDigit
     \/ Goto("fraction", "rejected") /\ AtDigit /\ fractional_digits >= kScale
     \/ Goto("end", "rejected") /\ idx # Len(text) + 1
  /\ UNCHANGED <<text, idx, negative, numbers>>

Sign ==
  /\ Goto("sign", "first")
  /\ text # <<>>
  /\ negative' = (text[1] = "-")
  /\ idx' = IF text[1] \in {"+", "-"} THEN 2 ELSE 1
  /\ UNCHANGED <<text, numbers>>

FirstDigit ==
  /\ Goto("first", "integer")
  /\ AtDigit
  /\ UNCHANGED <<text, idx, negative, numbers>>

IntegerDigit ==
  /\ pc = "integer" /\ AtDigit
  /\ integer_part' \in Outcomes(integer_part * Base + DigitOf(text[idx]))
  /\ idx' = idx + 1
  /\ UNCHANGED <<text, negative, fractional_part, fractional_digits, pc, raw>>

Point ==
  /\ Goto("integer", "point")
  /\ AtDot
  /\ idx' = idx + 1
  /\ UNCHANGED <<text, negative, numbers>>

FirstFractional ==
  /\ Goto("point", "fraction")
  /\ AtDigit
  /\ UNCHANGED <<text, idx, negative, numbers>>

(* Mutant: one digit too many is read. *)
FractionalDigitMore ==
  /\ pc = "fraction" /\ AtDigit /\ fractional_digits <= kScale
  /\ fractional_part' \in Outcomes(fractional_part * Base + DigitOf(text[idx]))
  /\ fractional_digits' = fractional_digits + 1
  /\ idx' = idx + 1
  /\ UNCHANGED <<text, negative, integer_part, pc, raw>>

FractionalDigit ==
  /\ pc = "fraction" /\ AtDigit /\ fractional_digits < kScale
  /\ fractional_part' \in Outcomes(fractional_part * Base + DigitOf(text[idx]))
  /\ fractional_digits' = fractional_digits + 1
  /\ idx' = idx + 1
  /\ UNCHANGED <<text, negative, integer_part, pc, raw>>

DigitsEnd ==
  /\ \/ Goto("integer", "end") /\ ~AtDigit /\ ~AtDot
     \/ Goto("fraction", "end") /\ ~AtDigit
  /\ UNCHANGED <<text, idx, negative, numbers>>

(* Mutant: the fraction is not padded. *)
ReturnUnpadded ==
  /\ Goto("end", "returned")
  /\ idx = Len(text) + 1
  /\ \E n \in Outcomes(integer_part * ScaleFactor + fractional_part) :
       raw' \in (IF negative THEN Outcomes(-n) ELSE {n})
  /\ UNCHANGED <<text, idx, negative, integer_part, fractional_part, fractional_digits>>

(* The fraction padded with zeros, the sum and the sign. *)
Return ==
  /\ Goto("end", "returned")
  /\ idx = Len(text) + 1
  /\ fractional_part' = fractional_part * Base^(kScale - fractional_digits)
  /\ \E n \in Outcomes(integer_part * ScaleFactor + fractional_part') :
       raw' \in (IF negative THEN Outcomes(-n) ELSE {n})
  /\ UNCHANGED <<text, idx, negative, integer_part, fractional_digits>>

Next ==
  \/ Reject \/ Sign \/ FirstDigit \/ IntegerDigit \/ Point
  \/ FirstFractional \/ FractionalDigit \/ DigitsEnd \/ Return

-----------------------------------------------------------------------------
(* to_string *)

Numeral(n, width) ==
  [i \in 1..width |-> Digits[((n \div Base^(width - i)) % Base) + 1]]

Width(n) == Min({k \in 1..(n + 1) : n < Base^k})

Trimmed(s) == SubSeq(s, 1, Max({0} \cup {i \in DOMAIN s : s[i] # Digits[1]}))

(* Mutant: the fraction is not filled with leading zeros. *)
FractionUnfilled(n) == Trimmed(Numeral(n, Width(n)))

FractionText(n) == Trimmed(Numeral(n, kScale))

ToText(n) ==
  LET magnitude == IF n < 0 THEN -n ELSE n
      fraction  == FractionText(magnitude % ScaleFactor)
      integer   == magnitude \div ScaleFactor
  IN  (IF n < 0 THEN <<"-">> ELSE <<>>)
        \o Numeral(integer, Width(integer))
        \o (IF fraction = <<>> THEN <<>> ELSE <<".">> \o fraction)

-----------------------------------------------------------------------------
(* The reference: which texts are numbers, and which number each one is.   *)

Unsigned(t) == IF t # <<>> /\ t[1] \in {"+", "-"} THEN Tail(t) ELSE t

Dots(s) == {i \in DOMAIN s : s[i] = "."}

IntegerLength(s) == IF Dots(s) = {} THEN Len(s) ELSE Min(Dots(s)) - 1

IsNumber(t) ==
  LET s == Unsigned(t)
  IN  /\ s # <<>>
      /\ Cardinality(Dots(s)) <= 1
      /\ \A i \in DOMAIN s : i \in Dots(s) \/ IsDigit(s[i])
      /\ Dots(s) \cap {1, Len(s)} = {}
      /\ Len(s) - IntegerLength(s) <= kScale + 1

(* Its value times ScaleFactor: every digit has the weight of its place.   *)
ValueOf(t) ==
  LET s == Unsigned(t)
      places == {i \in DOMAIN s : IsDigit(s[i])}
      weight(i) == IF i <= IntegerLength(s)
                   THEN Base^(kScale + IntegerLength(s) - i)
                   ELSE Base^(kScale + IntegerLength(s) + 1 - i)
      magnitude == MapThenSumSet(LAMBDA i : DigitOf(s[i]) * weight(i), places)
  IN  IF t[1] = "-" THEN -magnitude ELSE magnitude

Representable(t) == ValueOf(t) \in -Int64Max..Int64Max

-----------------------------------------------------------------------------
(* Types; the scan never reads beyond the end of its text.                 *)
TypeOK ==
  /\ idx \in 1..(Len(text) + 1)
  /\ negative \in BOOLEAN
  /\ integer_part \in Int64 /\ fractional_part \in Int64 /\ raw \in Int64
  /\ fractional_digits \in 0..kScale
  /\ pc \in {"sign", "first", "integer", "point", "fraction", "end",
             "returned", "rejected"}

(* What to_string() prints of a parsed number is again a number, the same  *)
(* one, and the shortest text of it.                                       *)
RoundTrip ==
  pc = "returned" /\ Representable(text) =>
    LET printed == ToText(raw)
    IN  /\ IsNumber(printed)
        /\ ValueOf(printed) = raw
        /\ Len(printed) <= Len(text)
=============================================================================
