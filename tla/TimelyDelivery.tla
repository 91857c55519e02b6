--------------------------- MODULE TimelyDelivery ---------------------------
(***************************************************************************)
(* MarketDataPipeline under the delivery the documentation calls normal:   *)
(* the host clock agrees with exchange time and never jumps, and a trade   *)
(* reaches submit_raw_message at most MaxDelay after it happened.          *)
(***************************************************************************)
EXTENDS MarketDataPipeline

CONSTANT MaxDelay

OnTime(m) == m \in Trades => clock \in TimeOf[m]..(TimeOf[m] + MaxDelay)

TimelyNext == Next /\ \A m \in submitted' \ submitted : OnTime(m)

TimelySpec == Init /\ [][TimelyNext]_vars

(* With normal delivery no window of a symbol is written twice: the window *)
(* in progress is withheld from periodic flushes, so a timestamp= block is *)
(* not duplicated.                                                         *)
WindowsNotSplit ==
  \A i, j \in DOMAIN output :
    i # j => output[i].start # output[j].start
=============================================================================
