--------------------------- MODULE ReconnectPolicy ---------------------------
(***************************************************************************)
(* ReconnectPolicy (net/ReconnectPolicy.cpp) by itself: the delays it      *)
(* computes in machine words, and the interruptible wait.  The reconnect   *)
(* loop calls wait_for_next_attempt() and reset(), another thread stop().  *)
(* NetworkStage models the same object in its environment, without delays. *)
(***************************************************************************)
EXTENDS ConfigLoader

CONSTANT UnsignedMax  \* the largest unsigned, the type of attempt_

ASSUME PolicyAssumption == UnsignedMax \in Nat \ {0}

VARIABLES config,     \* config_
          attempt,    \* attempt_
          stop,       \* stop_requested_
          waiting,    \* is wait_for_next_attempt() blocked
          delay       \* the delay it computed

vars == <<config, attempt, stop, waiting, delay>>

(* What parse_reconnect_config lets through. *)
Configs ==
  {c \in [initial : 1..UInt64Max, max : 1..UInt64Max, tenths : 0..10] :
     c.initial <= c.max}

Init(c) ==
  /\ config = c
  /\ attempt = 0
  /\ stop = FALSE
  /\ waiting = FALSE
  /\ delay = 0

Lesser(a, b) == IF a < b THEN a ELSE b

(* An unsigned word taken for a signed one. *)
ToSigned(n) == IF n > Int64Max THEN n - (UInt64Max + 1) ELSE n

Doubled(ms) == (2 * ms) % (UInt64Max + 1)

(* Mutant: the loop doubles as often as there were attempts. *)
BaseDelayUnguarded(n) ==
  LET delay_ms[i \in 0..n] ==
        IF i = 0 THEN config.initial ELSE Doubled(delay_ms[i-1])
  IN  ToSigned(Lesser(delay_ms[n], config.max))

(* base_delay_for_attempt: a std::uint64_t doubled in a loop that ends     *)
(* when it has reached the maximum, then converted to milliseconds.        *)
BaseDelay(n) ==
  LET delay_ms[i \in 0..n] ==
        IF i = 0 THEN config.initial
        ELSE IF delay_ms[i-1] < config.max THEN Doubled(delay_ms[i-1])
        ELSE delay_ms[i-1]
  IN  ToSigned(Lesser(delay_ms[n], config.max))

(* A number of tenths, not below zero, cast to a word; what comes of one   *)
(* that does not fit is undefined.                                         *)
CastMs(tenths) ==
  IF tenths < 0 THEN {0}
  ELSE IF tenths \div 10 > Int64Max THEN {-Int64Max - 1, Int64Max}
  ELSE {tenths \div 10}

(* apply_jitter: a real number of the interval, truncated; the outcomes    *)
(* taken are the two ends and the middle.                                  *)
Jittered(base) ==
  IF config.tenths = 0 THEN {base}
  ELSE UNION {CastMs(base * (10 + d)) : d \in {-config.tenths, 0, config.tenths}}

(* wait_for returns at once when the predicate already holds. *)
WaitBegins ==
  /\ ~waiting
  /\ delay' \in Jittered(BaseDelay(attempt))
  /\ waiting' = ~stop
  /\ UNCHANGED <<config, attempt, stop>>

WaitInterrupted ==
  /\ waiting /\ stop
  /\ waiting' = FALSE
  /\ UNCHANGED <<config, attempt, stop, delay>>

WaitTimesOut ==
  /\ waiting /\ ~stop
  /\ waiting' = FALSE
  /\ attempt' = (attempt + 1) % (UnsignedMax + 1)
  /\ UNCHANGED <<config, stop, delay>>

Stop ==
  /\ stop' = TRUE
  /\ UNCHANGED <<config, attempt, waiting, delay>>

(* Called by the thread that waits, so never during a wait. *)
Reset ==
  /\ ~waiting
  /\ attempt' = 0
  /\ stop' = FALSE
  /\ UNCHANGED <<config, waiting, delay>>

Next == WaitBegins \/ WaitInterrupted \/ WaitTimesOut \/ Stop \/ Reset

-----------------------------------------------------------------------------
(* The delay of a wait is min(initial_backoff_ms * 2^attempt,              *)
(* max_backoff_ms), give or take the jitter, for every number of attempts, *)
(* also far beyond the one at which the doubled word would overflow, as    *)
(* long as that delay itself fits the signed word of a duration, whether   *)
(* the maximum does or not; so it is not negative, and wait_for does not   *)
(* return without having waited.                                           *)
DelayFollowsFormula ==
  LET base == Lesser(config.initial * 2^attempt, config.max)
  IN  waiting /\ base * (10 + config.tenths) <= 10 * Int64Max =>
        /\ base * (10 - config.tenths) - 10 < 10 * delay
        /\ 10 * delay <= base * (10 + config.tenths)
=============================================================================
