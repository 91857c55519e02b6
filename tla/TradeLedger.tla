----------------------------- MODULE TradeLedger -----------------------------
(***************************************************************************)
(* What MarketDataPipeline promises about trades: messages are accepted,   *)
(* every accepted trade is written exactly once, in batches (blocks), and  *)
(* the ledger closes only when all of them are written, for good.          *)
(***************************************************************************)
CONSTANTS Messages, Trades

VARIABLES accepted,  \* messages accepted
          written,   \* trades written
          closed     \* stop() has returned

Init == accepted = {} /\ written = {} /\ closed = FALSE

Accept(m) ==
  /\ ~closed
  /\ m \in Messages \ accepted
  /\ accepted' = accepted \cup {m}
  /\ UNCHANGED <<written, closed>>

WriteBatch(batch) ==
  /\ ~closed
  /\ batch # {}
  /\ batch \subseteq (accepted \cap Trades) \ written
  /\ written' = written \cup batch
  /\ UNCHANGED <<accepted, closed>>

Close ==
  /\ ~closed
  /\ accepted \cap Trades \subseteq written
  /\ closed' = TRUE
  /\ UNCHANGED <<accepted, written>>

Next ==
  \/ \E m \in Messages : Accept(m)
  \/ \E batch \in SUBSET Trades : WriteBatch(batch)
  \/ Close

Spec == Init /\ [][Next]_<<accepted, written, closed>>
=============================================================================
