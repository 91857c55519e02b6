--------------------------- MODULE ConnectionError ---------------------------
(***************************************************************************)
(* classify_error (net/ConnectionError.cpp): the category of a failure     *)
(* that the error handler is given.  Of an error_code only what the code   *)
(* asks of it is kept.                                                     *)
(***************************************************************************)

(* "none": an error_code of value 0. *)
ErrorCodes == {"none", "timed_out", "eof", "closed", "other"}

ConnectionErrorKind ==
  {"DnsFailure", "TcpConnectFailure", "TlsHandshakeFailure",
   "WebSocketHandshakeFailure", "ReadFailure", "Timeout", "ServerDisconnect",
   "Unknown"}

(* The switch over the stages. *)
KindOfStage ==
  [Resolve            |-> "DnsFailure",
   TcpConnect         |-> "TcpConnectFailure",
   TlsHandshake       |-> "TlsHandshakeFailure",
   WebSocketHandshake |-> "WebSocketHandshakeFailure",
   Read               |-> "ReadFailure"]

(* Mutant: the end of a stream is a disconnect in every stage. *)
ClassifyAnyStage(stage, ec) ==
  CASE ec = "none" -> "Unknown"
    [] ec = "timed_out" -> "Timeout"
    [] ec \in {"eof", "closed"} -> "ServerDisconnect"
    [] OTHER -> KindOfStage[stage]

Classify(stage, ec) ==
  CASE ec = "none" -> "Unknown"
    [] ec = "timed_out" -> "Timeout"
    [] stage = "Read" /\ ec \in {"eof", "closed"} -> "ServerDisconnect"
    [] OTHER -> KindOfStage[stage]
=============================================================================
