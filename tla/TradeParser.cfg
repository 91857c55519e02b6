\* All texts of up to six characters; two fractional digits; a word in which
\* 11.11 is the largest number, so that three integer digits may overflow.
CONSTANTS
  Digits <- BinaryDigits
  Others = {"x"}
  kScale = 2
  ScaleFactor = 4
  Int64Max = 15
  MaxLen = 6
  Inputs <- TestInputs
SPECIFICATION ParserSpec
INVARIANTS TypeOK RoundTrip TradesRecognised NumbersExact
CHECK_DEADLOCK FALSE
