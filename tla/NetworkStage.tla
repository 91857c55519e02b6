---------------------------- MODULE NetworkStage ----------------------------
(***************************************************************************)
(* The network thread (NetworkStage::run), the BinanceWebSocketClient it   *)
(* creates for every connection, the ReconnectPolicy it waits with, and    *)
(* the thread that calls start() and stop() ("main").                      *)
(*                                                                         *)
(* An I/O call is one step: it ends in success or in an error.  On a       *)
(* stream that stop() has closed only two kinds succeed: the call that was *)
(* blocked at that moment, and reads of frames received before.            *)
(* Messages are not told apart: the raw queue is the number of its items,  *)
(* and is not shut down while a NetworkStage is alive (main.cpp).          *)
(***************************************************************************)
EXTENDS Naturals, Sequences, ConnectionError

CONSTANTS QueueCapacity,  \* capacity of raw_message_queue_
          MaxAttempts,    \* bound: attempt_ is not counted beyond it (the
                          \* delay stops growing at max_backoff_ms as well)
          MaxStops        \* bound: calls of stop(), the destructor's included

ASSUME NetworkAssumption ==
  QueueCapacity \in Nat \ {0} /\ MaxAttempts \in Nat /\ MaxStops \in Nat

VARIABLES
  net,            \* position of the network thread
  main,           \* position of the thread that calls start() and stop()
  stopRequested,  \* NetworkStage::stop_requested_
  policy,         \* ReconnectPolicy: attempt_, stop_requested_
  client,         \* client_: does it exist, its stop_requested_, its stream
  hadRead,        \* had_successful_read
  backlog,        \* items in raw_message_queue_
  received,       \* history: messages read on this connection (none, some)
  reports,        \* history: the kinds the error handler got in this run()
  stops           \* history: calls of stop()

connVars == <<client, hadRead, received, reports>>
stopVars == <<main, stopRequested, stops>>
vars == <<net, stopVars, policy, connVars, backlog>>

(* The stream is absent before ws_.emplace, idle until connect opens the   *)
(* socket, and open until stop() closes that.  The calls are synchronous,  *)
(* and cancel() and close() do not wake one that is blocked: the stream is *)
(* closing until it returns, with or without an error, if ever.  Then, or  *)
(* at once, it is closed and every call fails, unless it is buffered: some *)
(* frames were received before and can be read without the socket.         *)
NoClient == [exists |-> FALSE, stop |-> FALSE, stream |-> "absent"]
NewClient == [exists |-> TRUE, stop |-> FALSE, stream |-> "absent"]

NetPc == {"none", "loop", "create", "run", "resolve", "check", "emplace",
          "connect", "tls", "handshake", "read", "push", "returned",
          "again", "reset", "wait", "done"}
MainPc == {"new", "running", "stopPolicy", "stopClient", "closeStream",
           "join", "stopped"}

Init ==
  /\ net = "none"
  /\ main = "new"
  /\ stopRequested = FALSE
  /\ policy = [attempt |-> 0, stop |-> FALSE]
  /\ client = NoClient
  /\ hadRead = FALSE
  /\ backlog = 0
  /\ received = FALSE
  /\ reports = <<>>
  /\ stops = 0

(* client_mutex_ is held by stop() while it stops the client. *)
ClientMutexFree == main # "closeStream"

(* A step of the network thread from one position to another. *)
At(from, to) == net = from /\ net' = to /\ UNCHANGED stopVars

----------------------------------------------------------------------------
(* NetworkStage::run *)

LoopTest ==
  /\ At("loop", IF stopRequested THEN "done" ELSE "create")
  /\ UNCHANGED <<policy, connVars, backlog>>

(* The constructor throws only if OpenSSL has no memory for a context,     *)
(* which is left out.                                                      *)
CreateClient ==
  /\ At("create", "run")
  /\ ClientMutexFree
  /\ client' = NewClient
  /\ hadRead' = FALSE
  /\ received' = FALSE
  /\ UNCHANGED <<policy, reports, backlog>>

(* client_.reset() after run() has returned. *)
ResetClient ==
  /\ At("returned", "again")
  /\ ClientMutexFree
  /\ client' = NoClient
  /\ reports' = <<>>
  /\ UNCHANGED <<policy, hadRead, received, backlog>>

(* Mutant: a successful connection does not reset the policy. *)
StopTestNoReset ==
  /\ At("again", IF stopRequested THEN "done" ELSE "wait")
  /\ UNCHANGED <<policy, connVars, backlog>>

StopTest ==
  /\ At("again", IF stopRequested THEN "done"
                 ELSE IF hadRead THEN "reset" ELSE "wait")
  /\ UNCHANGED <<policy, connVars, backlog>>

(* reconnect_policy_.reset(): clears a stop() of the policy as well. *)
ResetPolicy ==
  /\ At("reset", "wait")
  /\ policy' = [attempt |-> 0, stop |-> FALSE]
  /\ UNCHANGED <<connVars, backlog>>

(* wait_for_next_attempt: interrupted by stop(), or the delay has passed. *)
WaitInterrupted ==
  /\ At("wait", "done")
  /\ policy.stop
  /\ UNCHANGED <<policy, connVars, backlog>>

(* Mutant: the loop ends after a wait that was not interrupted. *)
WaitTimeoutGivesUp ==
  /\ At("wait", "done")
  /\ ~policy.stop
  /\ UNCHANGED <<policy, connVars, backlog>>

WaitTimeout ==
  /\ At("wait", "loop")
  /\ ~policy.stop
  /\ policy' = [policy EXCEPT !.attempt = IF @ < MaxAttempts THEN @ + 1 ELSE @]
  /\ UNCHANGED <<connVars, backlog>>

----------------------------------------------------------------------------
(* BinanceWebSocketClient::run *)

RunBegins ==
  /\ At("run", "resolve")
  /\ client' = [client EXCEPT !.stop = FALSE]
  /\ UNCHANGED <<policy, hadRead, received, reports, backlog>>

(* Mutant: run() goes on after the handler was called. *)
FailWithoutReturn(from, stage, codes) ==
  /\ At(from, from)
  /\ \E ec \in codes : reports' = Append(reports, Classify(stage, ec))
  /\ hadRead' = (hadRead \/ stage = "Read")
  /\ UNCHANGED <<policy, client, received, backlog>>

(* The handler is called with the stage of the failed call and run()       *)
(* returns; the handler of NetworkStage takes a failed read for a sign     *)
(* that an earlier one succeeded.                                          *)
Fail(from, stage, codes) ==
  /\ At(from, "returned")
  /\ \E ec \in codes : reports' = Append(reports, Classify(stage, ec))
  /\ hadRead' = (hadRead \/ stage = "Read")
  /\ UNCHANGED <<policy, client, received, backlog>>

(* What a failed call sets ec to. *)
Errors == ErrorCodes \ {"none"}

ResolveFails == Fail("resolve", "Resolve", Errors)

Resolved ==
  /\ At("resolve", "check")
  /\ UNCHANGED <<policy, connVars, backlog>>

(* Mutant: the flag is not tested. *)
ClientStopIgnored ==
  /\ At("check", "emplace")
  /\ UNCHANGED <<policy, connVars, backlog>>

ClientStopTest ==
  /\ At("check", IF client.stop THEN "returned" ELSE "emplace")
  /\ UNCHANGED <<policy, connVars, backlog>>

(* Under stream_mutex_, which closing the stream takes as well. *)
EmplaceStream ==
  /\ At("emplace", "connect")
  /\ client' = [client EXCEPT !.stream = "idle"]
  /\ UNCHANGED <<policy, hadRead, received, reports, backlog>>

(* SSL_set_tlsext_host_name fails: ERR_get_error() may have nothing to say. *)
SniFails == Fail("connect", "TlsHandshake", {"none", "other"})

(* connect opens the socket, so a close() before it has no effect. *)
Connected ==
  /\ At("connect", "tls")
  /\ client' = [client EXCEPT !.stream = "open"]
  /\ UNCHANGED <<policy, hadRead, received, reports, backlog>>

ConnectFails == Fail("connect", "TcpConnect", Errors)

(* A call on the stream succeeds, and leaves an open one open. *)
StreamWorks(otherwise) ==
  \/ client.stream = "open" /\ UNCHANGED client
  \/ /\ client.stream \in {"closing", "buffered"}
     /\ \E s \in otherwise : client' = [client EXCEPT !.stream = s]

TlsDone ==
  /\ At("tls", "handshake")
  /\ StreamWorks({"closed"})
  /\ UNCHANGED <<policy, hadRead, received, reports, backlog>>

TlsFails == Fail("tls", "TlsHandshake", Errors)

HandshakeDone ==
  /\ At("handshake", "read")
  /\ StreamWorks({"buffered", "closed"})
  /\ UNCHANGED <<policy, hadRead, received, reports, backlog>>

HandshakeFails == Fail("handshake", "WebSocketHandshake", Errors)

ReadMessage ==
  /\ At("read", "push")
  /\ StreamWorks({"buffered", "closed"})
  /\ received' = TRUE
  /\ UNCHANGED <<policy, hadRead, reports, backlog>>

ReadFails == Fail("read", "Read", Errors)

(* push() blocks while the queue is full. *)
PushMessage ==
  /\ At("push", "read")
  /\ backlog < QueueCapacity
  /\ backlog' = backlog + 1
  /\ UNCHANGED <<policy, connVars>>

----------------------------------------------------------------------------
(* start(), stop() and the parser thread *)

Start ==
  /\ main = "new"
  /\ main' = "running"
  /\ net' = "loop"
  /\ UNCHANGED <<stopRequested, policy, connVars, backlog, stops>>

StopRequest ==
  /\ main \in {"new", "running", "stopped"}
  /\ stops < MaxStops
  /\ stops' = stops + 1
  /\ stopRequested' = TRUE
  /\ main' = "stopPolicy"
  /\ UNCHANGED <<net, policy, connVars, backlog>>

StopPolicy ==
  /\ main = "stopPolicy"
  /\ policy' = [policy EXCEPT !.stop = TRUE]
  /\ main' = "stopClient"
  /\ UNCHANGED <<net, stopRequested, connVars, backlog, stops>>

(* client_->stop() under client_mutex_: the flag, then the stream. *)
StopClient ==
  /\ main = "stopClient"
  /\ client' = IF client.exists THEN [client EXCEPT !.stop = TRUE] ELSE client
  /\ main' = IF client.exists THEN "closeStream" ELSE "join"
  /\ UNCHANGED <<net, stopRequested, policy, hadRead, received, reports,
                 backlog, stops>>

CloseStream ==
  /\ main = "closeStream"
  /\ IF client.stream = "open"
     THEN \E s \in {"closing", "buffered", "closed"} :
            /\ s = "closing" => net \in {"tls", "handshake", "read"}
            /\ s = "buffered" => net \in {"read", "push"}
            /\ client' = [client EXCEPT !.stream = s]
     ELSE UNCHANGED client
  /\ main' = "join"
  /\ UNCHANGED <<net, stopRequested, policy, hadRead, received, reports,
                 backlog, stops>>

Join ==
  /\ main = "join"
  /\ net \in {"none", "done"}
  /\ main' = "stopped"
  /\ UNCHANGED <<net, stopRequested, policy, connVars, backlog, stops>>

(* The parser thread pops a message. *)
Consume ==
  /\ backlog > 0
  /\ backlog' = backlog - 1
  /\ UNCHANGED <<net, main, stopRequested, policy, connVars, stops>>

(* The steps of the network thread that do not touch a message. *)
NetControl ==
  \/ LoopTest \/ CreateClient \/ ResetClient \/ StopTest \/ ResetPolicy
  \/ WaitInterrupted \/ WaitTimeout
  \/ RunBegins \/ ResolveFails \/ Resolved \/ ClientStopTest \/ EmplaceStream
  \/ SniFails \/ Connected \/ ConnectFails \/ TlsDone \/ TlsFails
  \/ HandshakeDone \/ HandshakeFails \/ ReadFails

NetStep == NetControl \/ ReadMessage \/ PushMessage

StopStep == StopPolicy \/ StopClient \/ CloseStream \/ Join

Next == NetStep \/ Start \/ StopRequest \/ StopStep \/ Consume

Spec == Init /\ [][Next]_vars

(* The network thread runs, and every call it blocks in returns, the peer  *)
(* not being silent: resolve and connect time out, a handshake or a read   *)
(* ends with an answer, a frame of the server (which sends trades and      *)
(* pings) or an error.  Buffered frames run out.  stop() runs to its end,  *)
(* and the parser keeps popping.  Nothing forces an error on an open       *)
(* connection.  Service has a weaker fairness, for silent peers.           *)
Fairness ==
  /\ WF_vars(NetStep) /\ SF_vars(client.stream = "buffered" /\ ReadFails)
  /\ WF_vars(StopStep) /\ WF_vars(Consume)

FairSpec == Spec /\ Fairness

----------------------------------------------------------------------------
(* Properties *)

(* Types; an error is reported at most once per run(), and the network     *)
(* thread leaves no more messages in the queue than it has room for.       *)
TypeOK ==
  /\ net \in NetPc
  /\ main \in MainPc
  /\ stopRequested \in BOOLEAN
  /\ policy \in [attempt : 0..MaxAttempts, stop : BOOLEAN]
  /\ client \in [exists : BOOLEAN, stop : BOOLEAN,
                 stream : {"absent", "idle", "open", "closing", "buffered", "closed"}]
  /\ hadRead \in BOOLEAN
  /\ backlog \in 0..QueueCapacity
  /\ received \in BOOLEAN
  /\ reports \in Seq(ConnectionErrorKind) /\ Len(reports) <= 1
  /\ stops \in 0..MaxStops

(* A run() that was not asked to stop reports exactly one error before it  *)
(* returns, one that was asked at most one, and the kind an operator reads *)
(* in the log tells how far the connection got: a name that did not        *)
(* resolve has no stream, a refused connection no open socket, and only an *)
(* established one is lost or dropped by the server.  Unknown is left to   *)
(* an SNI setup that OpenSSL gives no reason for.                          *)
OneReportPerRun ==
  net = "returned" =>
    /\ Len(reports) = 1 \/ (reports = <<>> /\ client.stop)
    /\ \A kind \in {reports[i] : i \in DOMAIN reports} \ {"Timeout"} :
         /\ kind = "DnsFailure" <=> client.stream = "absent"
         /\ kind \in {"TcpConnectFailure", "Unknown"} => client.stream = "idle"
         /\ kind \in {"ReadFailure", "ServerDisconnect"} <=> hadRead

(* A connection that read a message and then dropped is followed by the    *)
(* shortest delay: it inherits no backoff from earlier attempts.           *)
FreshBackoffAfterMessage ==
  net = "wait" /\ received => policy.attempt = 0

(* stop() reached the network thread: it is between connections, or its    *)
(* run() will see the flag or a closed stream.                             *)
StopIsSeen ==
  /\ main = "join"
  /\ \/ ~client.exists /\ net # "create"
     \/ client.stop /\ net \in {"resolve", "check", "returned"}
     \/ client.stream \in {"closing", "buffered", "closed"}

----------------------------------------------------------------------------
(* What the comments of the code say and the code does not do *)

(* stop() stops the current connection attempt and joins the thread.       *)
StopReturns == main = "stopPolicy" ~> main = "stopped"

(* Once ReconnectPolicy::stop() was called, no later wait is waited out.   *)
NoBackoffAfterStop ==
  [][net = "wait" /\ net' = "loop" =>
       main \notin {"stopClient", "closeStream", "join"}]_vars

(* The error handler is not called for a read that failed because stop()   *)
(* had closed the stream.                                                  *)
StopIsNotReported ==
  [][net = "read" /\ Len(reports') > Len(reports) =>
       client.stream \notin {"closing", "buffered", "closed"}]_vars

(* The backoff is reset only after a connection that read a message.       *)
ResetOnlyAfterMessage == net = "reset" => received
=============================================================================
