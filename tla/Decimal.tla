------------------------------- MODULE Decimal -------------------------------
(***************************************************************************)
(* Arithmetic of util/Decimal: a value is its raw_ integer, scaled by      *)
(* ScaleFactor and kept in a signed word whose largest value is Int64Max.  *)
(***************************************************************************)
EXTENDS Integers

CONSTANTS ScaleFactor,  \* kScaleFactor
          Int64Max      \* the largest std::int64_t

ASSUME DecimalAssumption == ScaleFactor \in Nat \ {0} /\ Int64Max \in Nat \ {0}

Int64 == (-Int64Max - 1)..Int64Max

(* static_cast<std::int64_t> keeps the low bits. *)
ToInt64(n) == ((n + Int64Max + 1) % (2 * (Int64Max + 1))) - (Int64Max + 1)

(* Integer division of C++ truncates towards zero. *)
Quotient(a, b) == IF a >= 0 THEN a \div b ELSE -((-a) \div b)

(* Mutant: the product is not scaled back. *)
TimesUnscaled(a, b) == ToInt64(a * b)

(* operator*: the product of 128 bits, scaled back and cast. *)
Times(a, b) == ToInt64(Quotient(a * b, ScaleFactor))

(* Overflow of signed arithmetic is undefined: any word may result. *)
Outcomes(n) == IF n \in Int64 THEN {n} ELSE Int64

(* operator+ *)
PlusOutcomes(a, b) == Outcomes(a + b)
=============================================================================
