------------------------- MODULE NetworkStageProofs -------------------------
(***************************************************************************)
(* Proofs about NetworkStage, for any queue capacity and any number of     *)
(* attempts and of stop() calls.                                           *)
(***************************************************************************)
EXTENDS NetworkStage, TLAPS

(* The positions of the network thread at which client_ exists. *)
Unread == {"run", "resolve", "check", "emplace", "connect", "tls", "handshake"}
Running == Unread \cup {"read", "push"}
Connection == Running \cup {"returned"}

(* What the position of the network thread says about its connection: when *)
(* the client exists, how far its stream is, and that nothing is reported  *)
(* and no read has failed before run() returns.                            *)
ConnectionInv ==
  /\ main = "new" => net = "none"
  /\ client.exists <=> net \in Connection
  /\ net \notin Connection => client.stream = "absent"
  /\ net # "returned" => reports = <<>>
  /\ net \in {"run", "resolve", "check", "emplace"} => client.stream = "absent"
  /\ net = "connect" => client.stream = "idle"
  /\ net \in {"tls", "handshake", "read", "push"} =>
       client.stream \in {"open", "closing", "buffered", "closed"}
  /\ net \in Running => ~hadRead
  /\ net \in Unread => ~received

(* A message read is known to the policy once the connection is over.      *)
BackoffInv ==
  /\ net \in {"returned", "again"} /\ received => hadRead
  /\ FreshBackoffAfterMessage

NetworkInv == TypeOK /\ ConnectionInv /\ OneReportPerRun /\ BackoffInv

(* client_ of TypeOK. *)
ClientType == [exists : BOOLEAN, stop : BOOLEAN,
               stream : {"absent", "idle", "open", "closing", "buffered", "closed"}]

(* Every failure has one of the kinds of ConnectionErrorKind, and its kind *)
(* tells the stage it happened in, unless it is Timeout or, without an     *)
(* error code, Unknown.                                                    *)
LEMMA ClassifyFacts ==
  /\ \A stage \in DOMAIN KindOfStage, ec \in ErrorCodes :
       Classify(stage, ec) \in ConnectionErrorKind
  /\ \A ec \in Errors :
       /\ Classify("Resolve", ec) \in {"DnsFailure", "Timeout"}
       /\ Classify("TcpConnect", ec) \in {"TcpConnectFailure", "Timeout"}
       /\ Classify("TlsHandshake", ec) \in {"TlsHandshakeFailure", "Timeout"}
       /\ Classify("WebSocketHandshake", ec) \in {"WebSocketHandshakeFailure", "Timeout"}
       /\ Classify("Read", ec) \in {"ReadFailure", "ServerDisconnect", "Timeout"}
  /\ \A ec \in {"none", "other"} :
       Classify("TlsHandshake", ec) \in {"TlsHandshakeFailure", "Unknown"}
BY DEF Classify, KindOfStage, ErrorCodes, Errors, ConnectionErrorKind

(* Before start() there is no network thread, no client and no report.     *)
LEMMA NetworkInit == Init => NetworkInv
<1>. SUFFICES ASSUME Init PROVE NetworkInv
  OBVIOUS
<1>. USE DEF Init, NoClient
<1>1. reports \in Seq(ConnectionErrorKind) /\ Len(reports) <= 1
  OBVIOUS
<1>a. /\ policy \in [attempt : 0..MaxAttempts, stop : BOOLEAN]
      /\ backlog \in 0..QueueCapacity /\ stops \in 0..MaxStops
  BY NetworkAssumption
<1>b. client \in ClientType
  BY DEF ClientType
<1>2. TypeOK
  BY <1>1, <1>a, <1>b DEF TypeOK, NetPc, MainPc, ClientType
<1>3. ConnectionInv
  BY DEF ConnectionInv, Connection, Running, Unread
<1>. QED
  BY <1>2, <1>3 DEF NetworkInv, OneReportPerRun, BackoffInv, FreshBackoffAfterMessage

(* A failed call: one report, of a kind that fits the stream the stage has *)
(* got to, and the end of run().                                           *)
LEMMA FailKept ==
  ASSUME NetworkInv, NEW from \in Running, NEW stage \in DOMAIN KindOfStage,
         NEW codes \in SUBSET ErrorCodes, Fail(from, stage, codes),
         from = "read" <=> stage = "Read",
         from # "push",
         \A ec \in codes :
           LET kind == Classify(stage, ec)
           IN  kind # "Timeout" =>
                 /\ kind = "DnsFailure" <=> client.stream = "absent"
                 /\ kind \in {"TcpConnectFailure", "Unknown"} => client.stream = "idle"
                 /\ kind \in {"ReadFailure", "ServerDisconnect"} <=> stage = "Read"
  PROVE  NetworkInv'
<1>1. /\ net = from /\ net' = "returned" /\ UNCHANGED <<main, stopRequested, stops>>
      /\ hadRead' = (hadRead \/ stage = "Read")
      /\ UNCHANGED <<policy, client, received, backlog>>
  BY DEF Fail, At, stopVars
<1>2. reports = <<>> /\ ~hadRead /\ hadRead \in BOOLEAN /\ TypeOK /\ ConnectionInv
  BY <1>1 DEF NetworkInv, ConnectionInv, TypeOK, Running, Unread
<1>3. PICK ec \in codes : reports' = Append(reports, Classify(stage, ec))
  BY DEF Fail
<1>. DEFINE kind == Classify(stage, ec)
<1>4. kind \in ConnectionErrorKind
  BY ClassifyFacts
<1>5. reports' = <<kind>> /\ Len(reports') = 1 /\ DOMAIN reports' = {1} /\ reports'[1] = kind
  BY <1>2, <1>3
<1>6. reports' \in Seq(ConnectionErrorKind)
  BY <1>4, <1>5
<1>7. hadRead' <=> stage = "Read"
  BY <1>1, <1>2
<1>8. TypeOK'
  BY <1>1, <1>2, <1>5, <1>6 DEF TypeOK, NetPc
<1>9. ConnectionInv'
  BY <1>1, <1>2, <1>5 DEF ConnectionInv, Connection, Running, Unread, MainPc
<1>10. kind # "Timeout" =>
         /\ kind = "DnsFailure" <=> client.stream = "absent"
         /\ kind \in {"TcpConnectFailure", "Unknown"} => client.stream = "idle"
         /\ kind \in {"ReadFailure", "ServerDisconnect"} <=> stage = "Read"
  BY <1>3
<1>11. OneReportPerRun'
  BY <1>1, <1>5, <1>7, <1>10 DEF OneReportPerRun
<1>12. BackoffInv'
  <2>1. received => from = "read"
    BY <1>1, <1>2 DEF ConnectionInv, Running, Unread
  <2>. QED  BY <1>1, <1>7, <2>1 DEF BackoffInv, FreshBackoffAfterMessage
<1>. QED  BY <1>8, <1>9, <1>11, <1>12 DEF NetworkInv

(* The calls that can fail. *)
LEMMA FailuresKept ==
  NetworkInv /\ (ResolveFails \/ SniFails \/ ConnectFails \/ TlsFails
                 \/ HandshakeFails \/ ReadFails) => NetworkInv'
<1>. SUFFICES ASSUME NetworkInv PROVE
       ResolveFails \/ SniFails \/ ConnectFails \/ TlsFails
       \/ HandshakeFails \/ ReadFails => NetworkInv'
  OBVIOUS
<1>a. /\ DOMAIN KindOfStage = {"Resolve", "TcpConnect", "TlsHandshake",
                               "WebSocketHandshake", "Read"}
      /\ Errors \subseteq ErrorCodes /\ {"none", "other"} \subseteq ErrorCodes
  BY DEF KindOfStage, Errors, ErrorCodes
<1>b. /\ net = "resolve" => client.stream = "absent"
      /\ net = "connect" => client.stream = "idle"
      /\ net \in {"tls", "handshake", "read"} =>
           client.stream \in {"open", "closing", "buffered", "closed"}
  BY DEF NetworkInv, ConnectionInv
<1>1. CASE ResolveFails
  <2>1. net = "resolve" /\ "resolve" \in Running
    BY <1>1 DEF ResolveFails, Fail, At, Running, Unread
  <2>. QED  BY <1>1, <1>a, <1>b, <2>1, FailKept, ClassifyFacts DEF ResolveFails
<1>2. CASE SniFails
  <2>1. net = "connect" /\ "connect" \in Running
    BY <1>2 DEF SniFails, Fail, At, Running, Unread
  <2>. QED  BY <1>2, <1>a, <1>b, <2>1, FailKept, ClassifyFacts DEF SniFails
<1>3. CASE ConnectFails
  <2>1. net = "connect" /\ "connect" \in Running
    BY <1>3 DEF ConnectFails, Fail, At, Running, Unread
  <2>. QED  BY <1>3, <1>a, <1>b, <2>1, FailKept, ClassifyFacts DEF ConnectFails
<1>4. CASE TlsFails
  <2>1. net = "tls" /\ "tls" \in Running
    BY <1>4 DEF TlsFails, Fail, At, Running, Unread
  <2>. QED  BY <1>4, <1>a, <1>b, <2>1, FailKept, ClassifyFacts DEF TlsFails
<1>5. CASE HandshakeFails
  <2>1. net = "handshake" /\ "handshake" \in Running
    BY <1>5 DEF HandshakeFails, Fail, At, Running, Unread
  <2>. QED  BY <1>5, <1>a, <1>b, <2>1, FailKept, ClassifyFacts DEF HandshakeFails
<1>6. CASE ReadFails
  <2>1. net = "read" /\ "read" \in Running
    BY <1>6 DEF ReadFails, Fail, At, Running, Unread
  <2>. QED  BY <1>6, <1>a, <1>b, <2>1, FailKept, ClassifyFacts DEF ReadFails
<1>. QED  BY <1>1, <1>2, <1>3, <1>4, <1>5, <1>6

(* A step of the network thread that reports nothing. *)
LEMMA NetQuiet ==
  ASSUME NetworkInv, TypeOK', ConnectionInv', reports' = reports \/ reports' = <<>>,
         net' = "returned" => net # "returned" /\ client'.stop
  PROVE  OneReportPerRun'
<1>1. ASSUME net' = "returned" PROVE reports' = <<>> /\ client'.stop
  BY <1>1 DEF NetworkInv, ConnectionInv
<1>2. reports' = <<>> => DOMAIN reports' = {}
  OBVIOUS
<1>. QED  BY <1>1, <1>2 DEF OneReportPerRun

(* The other steps of the network thread. *)
LEMMA NetKept ==
  ASSUME NetworkInv, NetStep PROVE NetworkInv'
<1>. USE DEF At, stopVars, connVars
<1>a. TypeOK /\ ConnectionInv /\ BackoffInv
  BY DEF NetworkInv
<1>b. <<>> \in Seq(ConnectionErrorKind) /\ Len(<<>>) = 0
  OBVIOUS
<1>1. CASE LoopTest \/ StopTest \/ WaitInterrupted \/ Resolved
  <2>0. /\ UNCHANGED <<main, stopRequested, stops, policy, client, hadRead,
                       received, reports, backlog>>
        /\ net' \in NetPc /\ net' # "returned"
        /\ net \in {"loop", "again", "wait", "resolve"}
    BY <1>1 DEF LoopTest, StopTest, WaitInterrupted, Resolved, NetPc
  <2>1. TypeOK'
    BY <1>a, <2>0 DEF TypeOK
  <2>2. ConnectionInv'
    BY <1>a, <1>1 DEF LoopTest, StopTest, WaitInterrupted, Resolved,
                      ConnectionInv, Connection, Running, Unread
  <2>3. OneReportPerRun'
    BY <2>0, <2>1, <2>2, NetQuiet
  <2>4. BackoffInv'
    BY <1>a, <1>1 DEF LoopTest, StopTest, WaitInterrupted, Resolved,
                      BackoffInv, FreshBackoffAfterMessage
  <2>. QED  BY <2>1, <2>2, <2>3, <2>4 DEF NetworkInv
<1>2. CASE CreateClient \/ ResetClient \/ RunBegins \/ EmplaceStream \/ Connected
  <2>0. /\ UNCHANGED <<main, stopRequested, stops, policy, backlog>>
        /\ net' \in NetPc /\ net' # "returned"
        /\ reports' = reports \/ reports' = <<>>
        /\ net \in {"create", "returned", "run", "emplace", "connect"}
    BY <1>2 DEF CreateClient, ResetClient, RunBegins, EmplaceStream, Connected, NetPc
  <2>5. hadRead' \in BOOLEAN /\ received' \in BOOLEAN
    BY <1>a, <1>2 DEF CreateClient, ResetClient, RunBegins, EmplaceStream,
                      Connected, TypeOK
  <2>6. client' \in ClientType
    <3>1. NoClient \in ClientType /\ NewClient \in ClientType
      BY DEF NoClient, NewClient, ClientType
    <3>2. client \in ClientType
      BY <1>a DEF TypeOK, ClientType
    <3>3. CASE RunBegins \/ EmplaceStream \/ Connected
      BY <3>2, <3>3 DEF RunBegins, EmplaceStream, Connected, ClientType
    <3>. QED  BY <1>2, <3>1, <3>3 DEF CreateClient, ResetClient
  <2>7. reports' \in Seq(ConnectionErrorKind) /\ Len(reports') <= 1
    <3>1. CASE reports' = reports
      BY <1>a, <3>1 DEF TypeOK
    <3>2. CASE reports' = <<>>
      BY <1>b, <3>2
    <3>. QED  BY <2>0, <3>1, <3>2
  <2>1. TypeOK'
    BY <1>a, <2>0, <2>5, <2>6, <2>7 DEF TypeOK, ClientType
  <2>2. ConnectionInv'
    <3>1. CASE CreateClient
      BY <1>a, <3>1 DEF CreateClient, ConnectionInv, Connection, Running, Unread, NewClient
    <3>2. CASE ResetClient
      BY <1>a, <3>2 DEF ResetClient, ConnectionInv, Connection, Running, Unread, NoClient
    <3>3. CASE RunBegins \/ EmplaceStream \/ Connected
      BY <1>a, <3>3 DEF RunBegins, EmplaceStream, Connected, ConnectionInv,
                        Connection, Running, Unread, TypeOK
    <3>. QED  BY <1>2, <3>1, <3>2, <3>3
  <2>3. OneReportPerRun'
    BY <2>0, <2>1, <2>2, NetQuiet
  <2>4. BackoffInv'
    BY <1>a, <1>2 DEF CreateClient, ResetClient, RunBegins, EmplaceStream, Connected,
                      BackoffInv, FreshBackoffAfterMessage
  <2>. QED  BY <2>1, <2>2, <2>3, <2>4 DEF NetworkInv
<1>3. CASE ResetPolicy \/ WaitTimeout
  <2>0. /\ UNCHANGED <<main, stopRequested, stops, client, hadRead, received,
                       reports, backlog>>
        /\ net' \in NetPc /\ net' # "returned"
    BY <1>3 DEF ResetPolicy, WaitTimeout, NetPc
  <2>5. policy' \in [attempt : 0..MaxAttempts, stop : BOOLEAN]
    <3>1. CASE ResetPolicy
      <4>1. 0 \in 0..MaxAttempts
        BY NetworkAssumption
      <4>. QED  BY <3>1, <4>1 DEF ResetPolicy
    <3>2. CASE WaitTimeout
      <4>. DEFINE n == IF policy.attempt < MaxAttempts THEN policy.attempt + 1
                                                       ELSE policy.attempt
      <4>1. policy \in [attempt : 0..MaxAttempts, stop : BOOLEAN]
        BY <1>a DEF TypeOK
      <4>2. n \in 0..MaxAttempts
        BY <4>1, NetworkAssumption
      <4>3. policy' = [policy EXCEPT !.attempt = n]
        BY <3>2 DEF WaitTimeout
      <4>. HIDE DEF n
      <4>. QED  BY <4>1, <4>2, <4>3
    <3>. QED  BY <1>3, <3>1, <3>2
  <2>1. TypeOK'
    BY <1>a, <2>0, <2>5 DEF TypeOK
  <2>2. ConnectionInv'
    BY <1>a, <1>3 DEF ResetPolicy, WaitTimeout, ConnectionInv, Connection, Running, Unread
  <2>3. OneReportPerRun'
    BY <2>0, <2>1, <2>2, NetQuiet
  <2>4. BackoffInv'
    BY <1>a, <1>3 DEF ResetPolicy, WaitTimeout, BackoffInv, FreshBackoffAfterMessage
  <2>. QED  BY <2>1, <2>2, <2>3, <2>4 DEF NetworkInv
<1>4. CASE ClientStopTest
  <2>0. /\ UNCHANGED <<main, stopRequested, stops, policy, client, hadRead,
                       received, reports, backlog>>
        /\ net = "check" /\ net' \in {"returned", "emplace"}
        /\ net' = "returned" => client.stop
    BY <1>4 DEF ClientStopTest
  <2>1. TypeOK'
    BY <1>a, <2>0 DEF TypeOK, NetPc
  <2>2. ConnectionInv'
    BY <1>a, <2>0 DEF ConnectionInv, Connection, Running, Unread
  <2>3. OneReportPerRun'
    BY <2>0, <2>1, <2>2, NetQuiet
  <2>4. BackoffInv'
    BY <1>a, <2>0 DEF ConnectionInv, Unread, BackoffInv, FreshBackoffAfterMessage
  <2>. QED  BY <2>1, <2>2, <2>3, <2>4 DEF NetworkInv
<1>5. CASE TlsDone \/ HandshakeDone \/ ReadMessage
  <2>0. /\ UNCHANGED <<main, stopRequested, stops, policy, hadRead, reports, backlog>>
        /\ net \in {"tls", "handshake", "read"}
        /\ net' \in {"handshake", "read", "push"}
        /\ net' = "handshake" => received' = received /\ net = "tls"
        /\ received' \in {received, TRUE}
        /\ \E after \in SUBSET {"buffered", "closed"} : StreamWorks(after)
    BY <1>5 DEF TlsDone, HandshakeDone, ReadMessage
  <2>5. /\ client' \in [exists : BOOLEAN, stop : BOOLEAN,
                        stream : {"absent", "idle", "open", "closing", "buffered", "closed"}]
        /\ client'.exists = client.exists
        /\ client'.stream \in {"open", "buffered", "closed"}
    BY <1>a, <2>0 DEF StreamWorks, TypeOK
  <2>1. TypeOK'
    BY <1>a, <2>0, <2>5 DEF TypeOK, NetPc
  <2>2. ConnectionInv'
    BY <1>a, <2>0, <2>5 DEF ConnectionInv, Connection, Running, Unread
  <2>3. OneReportPerRun'
    BY <2>0, <2>1, <2>2, NetQuiet
  <2>4. BackoffInv'
    BY <2>0 DEF BackoffInv, FreshBackoffAfterMessage
  <2>. QED  BY <2>1, <2>2, <2>3, <2>4 DEF NetworkInv
<1>6. CASE PushMessage
  <2>0. /\ UNCHANGED <<main, stopRequested, stops, policy, client, hadRead,
                       received, reports>>
        /\ net = "push" /\ net' = "read"
    BY <1>6 DEF PushMessage
  <2>5. backlog' \in 0..QueueCapacity
    BY <1>a, <1>6, NetworkAssumption DEF PushMessage, TypeOK
  <2>1. TypeOK'
    BY <1>a, <2>0, <2>5 DEF TypeOK, NetPc
  <2>2. ConnectionInv'
    BY <1>a, <2>0 DEF ConnectionInv, Connection, Running, Unread
  <2>3. OneReportPerRun'
    BY <2>0, <2>1, <2>2, NetQuiet
  <2>4. BackoffInv'
    BY <2>0 DEF BackoffInv, FreshBackoffAfterMessage
  <2>. QED  BY <2>1, <2>2, <2>3, <2>4 DEF NetworkInv
<1>. QED  BY <1>1, <1>2, <1>3, <1>4, <1>5, <1>6, FailuresKept DEF NetStep, NetControl

(* The steps of stop() and of the parser change the client of a connection *)
(* that has ended only by asking it to stop and closing its stream.        *)
LEMMA MainKept ==
  ASSUME NetworkInv, Start \/ StopRequest \/ StopStep \/ Consume PROVE NetworkInv'
<1>. USE DEF connVars
<1>a. TypeOK /\ ConnectionInv /\ BackoffInv /\ OneReportPerRun
  BY DEF NetworkInv
<1>1. CASE Start
  <2>1. TypeOK'
    BY <1>a, <1>1 DEF Start, TypeOK, NetPc, MainPc
  <2>2. ConnectionInv'
    BY <1>a, <1>1 DEF Start, ConnectionInv, Connection, Running, Unread
  <2>. QED
    BY <1>1, <2>1, <2>2 DEF Start, NetworkInv, OneReportPerRun, BackoffInv,
                            FreshBackoffAfterMessage
<1>2. CASE StopRequest \/ StopPolicy \/ Join \/ Consume
  <2>1. /\ UNCHANGED <<net, client, hadRead, received, reports>>
        /\ main' \in MainPc /\ (main' = "new" => main = "new")
        /\ policy' \in [attempt : 0..MaxAttempts, stop : BOOLEAN]
        /\ policy'.attempt = policy.attempt
        /\ backlog' \in 0..QueueCapacity /\ stops' \in 0..MaxStops
        /\ stopRequested' \in BOOLEAN
    <3>1. /\ backlog \in 0..QueueCapacity /\ stops \in 0..MaxStops
          /\ stopRequested \in BOOLEAN /\ main \in MainPc
          /\ policy \in [attempt : 0..MaxAttempts, stop : BOOLEAN]
      BY <1>a DEF TypeOK
    <3>2. CASE StopRequest
      BY <3>1, <3>2, NetworkAssumption DEF StopRequest, MainPc
    <3>3. CASE StopPolicy \/ Join
      BY <3>1, <3>3 DEF StopPolicy, Join, MainPc
    <3>4. CASE Consume
      BY <3>1, <3>4, NetworkAssumption DEF Consume
    <3>. QED  BY <1>2, <3>2, <3>3, <3>4
  <2>2. TypeOK'
    BY <1>a, <2>1 DEF TypeOK
  <2>3. ConnectionInv'
    BY <1>a, <2>1 DEF ConnectionInv
  <2>4. OneReportPerRun'
    BY <1>a, <2>1 DEF OneReportPerRun
  <2>5. BackoffInv'
    BY <1>a, <2>1 DEF BackoffInv, FreshBackoffAfterMessage
  <2>. QED  BY <2>2, <2>3, <2>4, <2>5 DEF NetworkInv
<1>3. CASE StopClient \/ CloseStream
  <2>1. /\ UNCHANGED <<net, stopRequested, policy, hadRead, received, reports,
                       backlog, stops>>
        /\ main' \in MainPc /\ main' # "new"
    BY <1>3 DEF StopClient, CloseStream, MainPc
  <2>2. /\ client' \in [exists : BOOLEAN, stop : BOOLEAN,
                        stream : {"absent", "idle", "open", "closing", "buffered", "closed"}]
        /\ client'.exists = client.exists
        /\ (client.stop => client'.stop)
        /\ \/ client'.stream = client.stream
           \/ client.stream = "open" /\ client'.stream \in {"closing", "buffered", "closed"}
    <3>1. CASE StopClient
      BY <1>a, <3>1 DEF StopClient, TypeOK
    <3>2. CASE CloseStream
      BY <1>a, <3>2 DEF CloseStream, TypeOK
    <3>. QED  BY <1>3, <3>1, <3>2
  <2>3. TypeOK'
    BY <1>a, <2>1, <2>2 DEF TypeOK
  <2>4. ConnectionInv'
    BY <1>a, <2>1, <2>2 DEF ConnectionInv
  <2>5. OneReportPerRun'
    BY <1>a, <2>1, <2>2 DEF OneReportPerRun
  <2>6. BackoffInv'
    BY <1>a, <2>1 DEF BackoffInv, FreshBackoffAfterMessage
  <2>. QED  BY <2>3, <2>4, <2>5, <2>6 DEF NetworkInv
<1>. QED  BY <1>1, <1>2, <1>3 DEF StopStep

(* Every step of the network thread, of stop() and of the consumer of the  *)
(* queue keeps the invariant.                                              *)
LEMMA NetworkStep == NetworkInv /\ [Next]_vars => NetworkInv'
<1>1. CASE UNCHANGED vars
  BY <1>1
  DEF vars, connVars, stopVars, NetworkInv, TypeOK, ConnectionInv,
      OneReportPerRun, BackoffInv, FreshBackoffAfterMessage
<1>. QED  BY <1>1, NetKept, MainKept DEF Next

(* What the network thread knows about its connection holds always.        *)
THEOREM NetworkInvariance == Spec => []NetworkInv
BY NetworkInit, NetworkStep, PTL DEF Spec

(* Types hold; no more messages are queued than fit. *)
THEOREM NetworkTypeCorrect == Spec => []TypeOK
<1>1. NetworkInv => TypeOK
  BY DEF NetworkInv
<1>. QED  BY <1>1, NetworkInvariance, PTL

(* A run() that was not asked to stop reports one error, of a kind that    *)
(* tells how far its connection got.                                       *)
THEOREM ReportsTellStage == Spec => []OneReportPerRun
<1>1. NetworkInv => OneReportPerRun
  BY DEF NetworkInv
<1>. QED  BY <1>1, NetworkInvariance, PTL

(* A connection that read a message leaves no backoff behind.              *)
THEOREM BackoffStartsFresh == Spec => []FreshBackoffAfterMessage
<1>1. NetworkInv => FreshBackoffAfterMessage
  BY DEF NetworkInv, BackoffInv
<1>. QED  BY <1>1, NetworkInvariance, PTL

----------------------------------------------------------------------------
(* stop() *)

(* stop() sets stop_requested_ first. *)
StopFlagInv == main \in {"new", "running"} \/ stopRequested

(* Nothing clears the flag again. *)
LEMMA StopFlagKept == StopFlagInv /\ [Next]_vars => StopFlagInv'
BY DEF StopFlagInv, vars, stopVars, Next, NetStep, NetControl, LoopTest,
       CreateClient, ResetClient, StopTest, ResetPolicy, WaitInterrupted,
       WaitTimeout, RunBegins, ResolveFails, Resolved, ClientStopTest,
       EmplaceStream, SniFails, Connected, ConnectFails, TlsDone, TlsFails,
       HandshakeDone, HandshakeFails, ReadFails, ReadMessage, PushMessage,
       Fail, At, Start, StopRequest, StopStep, StopPolicy, StopClient,
       CloseStream, Join, Consume

(* The network thread cannot get away from a stop() that has reached it:   *)
(* it makes no new client and opens no stream, whatever else happens,      *)
(* until stop() returns.  (A stop() that has not reached it may wait for   *)
(* ever, see StopReturns.)                                                 *)
THEOREM StopStaysSeen ==
  Spec => [][StopIsSeen => StopIsSeen' \/ main' = "stopped"]_vars
<1>1. ASSUME NetworkInv, StopFlagInv, [Next]_vars, StopIsSeen
      PROVE  StopIsSeen' \/ main' = "stopped"
  <2>. USE DEF connVars, stopVars
  <2>a. TypeOK /\ ConnectionInv /\ main = "join" /\ stopRequested
    BY <1>1 DEF NetworkInv, StopFlagInv, StopIsSeen
  <2>b. client.exists <=> net \in Connection
    BY <2>a DEF ConnectionInv
  <2>c. \/ ~client.exists /\ net # "create" /\ net \notin Connection
        \/ client.stop /\ net \in {"resolve", "check", "returned"}
        \/ client.stream \in {"closing", "buffered", "closed"}
    BY <1>1, <2>b DEF StopIsSeen
  <2>1. CASE Join
    BY <2>1 DEF Join
  <2>2. CASE Start \/ StopRequest \/ StopPolicy \/ StopClient \/ CloseStream
    BY <2>2, <2>a DEF Start, StopRequest, StopPolicy, StopClient, CloseStream
  <2>3. CASE Consume \/ UNCHANGED vars
    BY <1>1, <2>3 DEF Consume, StopIsSeen, vars
  <2>4. CASE NetStep
    <3>1. main' = "join"
      BY <2>a, <2>4
      DEF NetStep, NetControl, LoopTest, CreateClient, ResetClient, StopTest,
          ResetPolicy, WaitInterrupted, WaitTimeout, RunBegins, ResolveFails,
          Resolved, ClientStopTest, EmplaceStream, SniFails, Connected,
          ConnectFails, TlsDone, TlsFails, HandshakeDone, HandshakeFails,
          ReadFails, ReadMessage, PushMessage, Fail, At
    <3>2. CASE LoopTest \/ StopTest \/ ResetPolicy \/ WaitInterrupted \/ WaitTimeout
      <4>1. /\ net \in {"loop", "again", "reset", "wait"} /\ client' = client
            /\ net' \in {"done", "reset", "wait", "loop"}
        BY <2>a, <3>2 DEF LoopTest, StopTest, ResetPolicy, WaitInterrupted, WaitTimeout, At
      <4>2. ~client.exists
        BY <2>b, <4>1 DEF Connection, Running, Unread
      <4>. QED  BY <3>1, <4>1, <4>2 DEF StopIsSeen
    <3>3. CASE ResetClient
      BY <3>1, <3>3 DEF ResetClient, At, NoClient, StopIsSeen
    <3>4. CASE CreateClient \/ RunBegins \/ EmplaceStream \/ Connected
      <4>1. net \in {"create", "run", "emplace", "connect"}
        BY <3>4 DEF CreateClient, RunBegins, EmplaceStream, Connected, At
      <4>2. client.stream \in {"closing", "buffered", "closed"}
        BY <2>c, <4>1 DEF Connection, Running, Unread
      <4>3. net = "create"
        BY <2>a, <4>1, <4>2 DEF ConnectionInv
      <4>4. ~client.exists
        BY <2>b, <4>3 DEF Connection, Running, Unread
      <4>5. client.stream = "absent"
        BY <2>a, <2>b, <4>4 DEF ConnectionInv
      <4>. QED  BY <4>2, <4>5
    <3>5. CASE Resolved \/ ClientStopTest
      <4>1. /\ net \in {"resolve", "check"} /\ client' = client
            /\ net' = IF net = "resolve" THEN "check"
                      ELSE IF client.stop THEN "returned" ELSE "emplace"
        BY <3>5 DEF Resolved, ClientStopTest, At
      <4>2. client.stop
        BY <2>a, <2>c, <4>1 DEF ConnectionInv, Connection, Running, Unread
      <4>. QED  BY <3>1, <4>1, <4>2 DEF StopIsSeen
    <3>6. CASE ResolveFails \/ SniFails \/ ConnectFails \/ TlsFails
               \/ HandshakeFails \/ ReadFails
      <4>1. client' = client /\ net' = "returned" /\ net \in Running
        BY <3>6 DEF ResolveFails, SniFails, ConnectFails, TlsFails,
                    HandshakeFails, ReadFails, Fail, At, Running, Unread
      <4>2. client.stop \/ client.stream \in {"closing", "buffered", "closed"}
        BY <2>c, <4>1 DEF Connection
      <4>. QED  BY <3>1, <4>1, <4>2 DEF StopIsSeen
    <3>7. CASE TlsDone \/ HandshakeDone \/ ReadMessage \/ PushMessage
      <4>1. net \in {"tls", "handshake", "read", "push"}
        BY <3>7 DEF TlsDone, HandshakeDone, ReadMessage, PushMessage, At
      <4>2. client.stream \in {"closing", "buffered", "closed"}
        BY <2>c, <4>1 DEF Connection, Running, Unread
      <4>3. client' = client \/ client'.stream \in {"buffered", "closed"}
        BY <2>a, <3>7, <4>2
        DEF TlsDone, HandshakeDone, ReadMessage, PushMessage, StreamWorks, TypeOK
      <4>. QED  BY <3>1, <4>2, <4>3 DEF StopIsSeen
    <3>. QED  BY <2>4, <3>2, <3>3, <3>4, <3>5, <3>6, <3>7 DEF NetStep, NetControl
  <2>. QED  BY <1>1, <2>1, <2>2, <2>3, <2>4 DEF Next, StopStep
<1>2. Init => StopFlagInv
  BY DEF Init, StopFlagInv
<1>. QED  BY <1>1, <1>2, StopFlagKept, NetworkInvariance, PTL DEF Spec
=============================================================================
