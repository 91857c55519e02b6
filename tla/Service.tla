------------------------------- MODULE Service -------------------------------
(***************************************************************************)
(* main.cpp, from the installed signal handlers to the return of main():   *)
(* NetworkStage and MarketDataPipeline on one raw queue, started, stopped  *)
(* and destroyed in the order main() gives them.  Module Startup has what  *)
(* comes before.                                                           *)
(*                                                                         *)
(* Every step of a component is a step of its module.  Two are steps of    *)
(* both: the network thread's push() is a submit_raw_message, and the      *)
(* parser's pop() is the Consume of NetworkStage.                          *)
(***************************************************************************)
EXTENDS NetworkStage, FiniteSets

CONSTANTS Messages, Trades, Symbols, SymbolOf, TimeOf, HashOf, WindowMs,
          Second, AggregatorThreads, SteadyClock, SinkMayFail, MaxClock,
          Feed  \* the messages in the order the sockets deliver them

ASSUME PipelineConstants ==
  /\ Trades \subseteq Messages /\ IsFiniteSet(Messages)
  /\ Symbols \subseteq Nat
  /\ SymbolOf \in [Trades -> Symbols]
  /\ TimeOf \in [Trades -> Nat]
  /\ HashOf \in [Symbols -> Nat]
  /\ WindowMs \in Nat \ {0} /\ Second \in Nat \ {0}
  /\ AggregatorThreads \in Nat
  /\ SteadyClock \in BOOLEAN
  /\ SinkMayFail \in BOOLEAN
  /\ MaxClock \in Nat

ASSUME FeedAssumption ==
  /\ Feed \in Seq(Messages)
  /\ \A i, j \in DOMAIN Feed : Feed[i] = Feed[j] => i = j

VARIABLES
  raw, shardQ, parser, agg, held, writer, pmain, pstopRequested, clock,
  output, crashed, accepted, submitted, pstops, passed, late,
  gStop,   \* g_stop_requested
  hand,    \* the message the network thread has read and not yet pushed
  sent     \* history: the messages read from a socket

Pipe == INSTANCE MarketDataPipeline
  WITH main <- pmain, stopRequested <- pstopRequested, stops <- pstops

pipeVars == <<raw, shardQ, parser, agg, held, writer, pmain, pstopRequested,
              clock, output, crashed, accepted, submitted, pstops, passed, late>>
mainVars == <<gStop, hand, sent>>
serviceVars == <<vars, pipeVars, mainVars>>

ServiceInit ==
  /\ Init
  /\ Pipe!Init
  /\ gStop = FALSE
  /\ hand = {}
  /\ sent = {}

(* handle_shutdown_signal, at any time, before start() as well. *)
Signal ==
  /\ ~gStop
  /\ gStop' = TRUE
  /\ UNCHANGED <<vars, pipeVars, hand, sent>>

----------------------------------------------------------------------------
(* The steps of the two components *)

NetworkOnly(A) == A /\ UNCHANGED <<pipeVars, mainVars>>
PipelineOnly(A) == A /\ UNCHANGED <<vars, mainVars>>

(* ws.read returns the next message of the feed. *)
Read ==
  /\ ReadMessage
  /\ Cardinality(sent) < Len(Feed)
  /\ LET m == Feed[Cardinality(sent) + 1]
     IN  hand' = {m} /\ sent' = sent \cup {m}
  /\ UNCHANGED <<gStop, pipeVars>>

Push ==
  /\ \E m \in hand : Pipe!Submit(m)
  /\ PushMessage
  /\ hand' = {}
  /\ UNCHANGED <<gStop, sent>>

ParserPop ==
  /\ Pipe!ParserPop
  /\ IF raw.items = <<>> THEN UNCHANGED vars ELSE Consume
  /\ UNCHANGED mainVars

NetworkThread == NetworkOnly(NetControl) \/ Read \/ Push
ParserThread == ParserPop \/ PipelineOnly(Pipe!ParserPush)
WriterThread == PipelineOnly(Pipe!WriterStep \/ Pipe!WriterFails)
AggregationThread(s) == PipelineOnly(Pipe!AggStep(s))

----------------------------------------------------------------------------
(* main() *)

StartPipeline == PipelineOnly(Pipe!StartParser \/ Pipe!StartStep)

StartNetwork == pmain.pc = "running" /\ NetworkOnly(Start)

(* The polling loop has seen g_stop_requested: network_stage.stop(). *)
StopNetwork == main = "running" /\ gStop /\ NetworkOnly(StopRequest)

(* Mutant: pipeline.stop() does not wait for the network thread. *)
StopPipelineUnjoined ==
  /\ main \in {"join", "stopped"}
  /\ pmain.pc = "running"
  /\ PipelineOnly(Pipe!StopRequest)

(* Then pipeline.stop(). *)
StopPipeline ==
  /\ main = "stopped"
  /\ pmain.pc = "running"
  /\ PipelineOnly(Pipe!StopRequest)

(* main() returns: the destructors call stop() again, in reverse order of  *)
(* construction.                                                           *)
DestroyNetwork == pmain.pc = "stopped" /\ stops = 1 /\ NetworkOnly(StopRequest)

DestroyPipeline ==
  /\ main = "stopped" /\ stops = 2 /\ pstops = 1
  /\ PipelineOnly(Pipe!StopRequest)

(* A call main() is inside. *)
StopCall ==
  \/ NetworkOnly(StopStep)
  \/ PipelineOnly(Pipe!StopStep \/ Pipe!MainFails)

MainThread ==
  \/ StartPipeline \/ StartNetwork \/ StopNetwork \/ StopPipeline
  \/ DestroyNetwork \/ DestroyPipeline \/ StopCall

ServiceNext ==
  /\ ~crashed
  /\ \/ NetworkThread \/ ParserThread \/ WriterThread \/ MainThread \/ Signal
     \/ \E s \in Pipe!Shards : AggregationThread(s)
     \/ PipelineOnly(Pipe!AdjustClock)

(* Threads run, timers fire and time passes.  The calls the code gives no  *)
(* timeout may block for ever, a handshake or a read while the peer sends  *)
(* nothing, and close() does not wake the one in progress.                 *)
Silent ==
  net \in {"tls", "handshake", "read"} /\ client.stream \in {"open", "closing"}

ServiceFairness ==
  /\ WF_serviceVars(~crashed /\ ~Silent /\ NetworkThread)
  /\ WF_serviceVars(~crashed /\ ParserThread)
  /\ WF_serviceVars(~crashed /\ WriterThread)
  /\ WF_serviceVars(~crashed /\ MainThread)
  /\ \A s \in Pipe!Shards : WF_serviceVars(~crashed /\ AggregationThread(s))
  /\ WF_serviceVars(~crashed /\ PipelineOnly(Pipe!AdjustClock))

ServiceSpec == ServiceInit /\ [][ServiceNext]_serviceVars /\ ServiceFairness

----------------------------------------------------------------------------
(* Properties *)

Exited == pstops = 2 /\ pmain.pc = "stopped"

(* Types of both components and of main().                                 *)
ServiceTypeOK ==
  /\ TypeOK
  /\ Pipe!TypeOK
  /\ gStop \in BOOLEAN
  /\ hand \subseteq sent /\ sent \subseteq Messages

(* No message is pushed into a queue that is shut down, though the network *)
(* thread ignores the result of push(): what was read from a socket is in  *)
(* its hand or was accepted, until the very end.  The queue holds as many  *)
(* messages as NetworkStage counts, so its push() blocks when it should.   *)
NothingReadIsRefused == sent = hand \cup accepted /\ backlog = Len(raw.items)

(* When main() has returned, every trade ever read from a socket is in the *)
(* file and every thread has ended, so that no destructor finds a thread   *)
(* it would have to join.                                                  *)
CleanExit ==
  Exited =>
    /\ sent \cap Trades \subseteq Pipe!Written
    /\ hand = {}
    /\ net = "done" /\ parser.pc = "done" /\ writer.pc = "done"
    /\ \A s \in Pipe!Shards : agg[s].pc = "done"

(* The stop() calls of the destructors find nothing left to do: no block   *)
(* is written after pipeline.stop() has returned to main().                *)
DestructorsWriteNothing == [][stops = 2 => output' = output]_serviceVars

(* A signal whose network_stage.stop() was not lost ends the process, with *)
(* the network thread in the backoff wait, on its way to a connection,     *)
(* blocked on a full queue, or between two reads.  In a handshake or a     *)
(* read it ends it once that call has returned, which a silent peer can    *)
(* put off for ever.                                                       *)
SignalEndsProcess == StopIsSeen /\ ~Silent ~> (Exited \/ crashed)

(* Signal or not, the file always catches up with the sockets: again and   *)
(* again every trade read whose window has ended is in it, through all     *)
(* four stages and their full queues.                                      *)
ReadTradesWritten ==
  []<>(\/ crashed
       \/ {t \in sent \cap Trades : Pipe!WindowOf(t) < Pipe!WindowStart(clock)}
            \subseteq Pipe!Written)

(* Whatever happens to a connection, another one is attempted until a stop *)
(* is requested.                                                           *)
Reconnects == net = "returned" ~> (net = "resolve" \/ stopRequested \/ crashed)
=============================================================================
