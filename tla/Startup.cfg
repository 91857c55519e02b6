\* Words of 5 bits: delays of up to 31 that a signed one of 15 does not hold,
\* and an unsigned of 0..9, so that nine doublings overflow the word and the
\* counter itself wraps around.
CONSTANTS
  Int64Max = 15
  UnsignedMax = 9
  Capital <- CapitalTable
  DigitChars = {"1"}
  InlinePath <- InlineTable
  DefaultPath = "config/config.json"
  DefaultReconnect <- Defaults
  Worlds <- TestWorlds
SPECIFICATION StartSpec
INVARIANTS DelayFollowsFormula LastPathWins BrokenConfigRefused FileDecides
CHECK_DEADLOCK FALSE
