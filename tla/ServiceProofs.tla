---------------------------- MODULE ServiceProofs ----------------------------
(***************************************************************************)
(* Proofs about Service: main() runs a NetworkStage and a                  *)
(* MarketDataPipeline, each as its own module has it, so what is proved of *)
(* them holds in the process; and the order of the calls in main() keeps   *)
(* every message that was read.                                            *)
(***************************************************************************)
EXTENDS Service, NetworkStageProofs

USE ZenonT(60)

----------------------------------------------------------------------------
(* The invariants *)

(* start() of the pipeline, as far as it has come. *)
Starting == {"new", "startAggs", "startWriter", "running"}

(* The calls of main(), in order: the pipeline is started, the network is  *)
(* started; the network is stopped, the pipeline is stopped; and the same  *)
(* again by the destructors.                                               *)
CallOrder ==
  \/ main = "new" /\ stops = 0 /\ pstops = 0 /\ pmain.pc \in Starting
  \/ main = "running" /\ stops = 0 /\ pstops = 0 /\ pmain.pc = "running"
  \/ /\ main \notin {"new", "running"}
     /\ \/ stops = 1 /\ pstops = 0 /\ pmain.pc = "running"
        \/ main = "stopped" /\ stops = 1 /\ pstops = 1 /\ pmain.pc \notin Starting
        \/ stops = 2 /\ pstops = 1 /\ pmain.pc = "stopped"
        \/ main = "stopped" /\ stops = 2 /\ pstops = 2 /\ pmain.pc \notin Starting

(* The network thread lives from start() to the join of the first stop().  *)
NetworkLife ==
  /\ net = "none" <=> main = "new"
  /\ main = "stopped" \/ stops = 2 => net = "done"

OrderInv ==
  /\ CallOrder /\ NetworkLife
  /\ pmain.pc # "new" => parser.pc # "none"

(* The messages read are those of the feed.                                *)
FeedInv == hand \subseteq Messages /\ sent \subseteq Messages

(* The network thread has a message in its hand exactly while it pushes.   *)
HandInv ==
  /\ net = "push" <=> hand # {}
  /\ hand = {} \/ \E m \in Messages : hand = {m}
  /\ NothingReadIsRefused

----------------------------------------------------------------------------
(* What the steps of the components leave alone *)

(* The network thread moves neither main() nor the queue, except in        *)
(* push(), and does nothing before start() or after its end.               *)
LEMMA NetControlFrame ==
  ASSUME NetControl
  PROVE  /\ UNCHANGED <<main, stops, backlog>>
         /\ net \notin {"none", "done", "push"} /\ net' \notin {"none", "push"}
BY DEF NetControl, stopVars, connVars, At, Fail, LoopTest, CreateClient,
       ResetClient, StopTest, ResetPolicy, WaitInterrupted, WaitTimeout,
       RunBegins, ResolveFails, Resolved, ClientStopTest, EmplaceStream,
       SniFails, Connected, ConnectFails, TlsDone, TlsFails, HandshakeDone,
       HandshakeFails, ReadFails

(* stop() of the network stage returns only with its thread joined. *)
LEMMA NetStopFrame ==
  ASSUME StopStep
  PROVE  /\ UNCHANGED <<net, stops, backlog>>
         /\ main \in {"stopPolicy", "stopClient", "closeStream", "join"}
         /\ main' \in {"stopClient", "closeStream", "join", "stopped"}
         /\ main' = "stopped" => net \in {"none", "done"}
BY DEF StopStep, StopPolicy, StopClient, CloseStream, Join

(* The stages behind the parser's pop() and the clock move neither the raw *)
(* queue nor main().                                                       *)
LEMMA StageFrame ==
  ASSUME \/ Pipe!ParserPush \/ Pipe!WriterStep \/ Pipe!WriterFails
         \/ Pipe!AdjustClock \/ \E s \in Pipe!Shards : Pipe!AggStep(s)
  PROVE  /\ UNCHANGED <<raw, accepted, pmain, pstops>>
         /\ UNCHANGED parser \/ parser'.pc = "pop"
<1>. USE DEF Pipe!inVars, Pipe!stageVars, Pipe!flushVars, Pipe!lifeVars, Pipe!outVars
<1>1. CASE Pipe!ParserPush
  BY <1>1 DEF Pipe!ParserPush
<1>2. CASE Pipe!WriterStep
  BY <1>2 DEF Pipe!WriterStep, Pipe!WriterTimeout, Pipe!WriterExtract,
              Pipe!WriterWrite, Pipe!WriterReturn, Pipe!WriterEnd
<1>3. CASE Pipe!WriterFails \/ Pipe!AdjustClock
  BY <1>3 DEF Pipe!WriterFails, Pipe!SinkFails, Pipe!AdjustClock
<1>4. CASE \E s \in Pipe!Shards : Pipe!AggStep(s)
  BY <1>4 DEF Pipe!AggStep, Pipe!AggPop, Pipe!AggAdd
<1>. QED  BY <1>1, <1>2, <1>3, <1>4

(* start() of the pipeline. *)
LEMMA StartFrame ==
  ASSUME Pipe!TypeOK, Pipe!StartParser \/ Pipe!StartStep
  PROVE  /\ UNCHANGED <<raw, accepted, pstops>>
         /\ pmain.pc \in {"new", "startAggs", "startWriter"}
         /\ pmain'.pc \in {"startAggs", "startWriter", "running"}
         /\ (UNCHANGED parser /\ pmain.pc # "new") \/ parser'.pc = "pop"
<1>. USE DEF Pipe!inVars, Pipe!stageVars, Pipe!flushVars, Pipe!lifeVars, Pipe!outVars
<1>1. CASE Pipe!StartParser
  BY <1>1 DEF Pipe!StartParser, Pipe!Goto, Pipe!TypeOK
<1>2. CASE Pipe!StartAgg
  BY <1>2 DEF Pipe!StartAgg, Pipe!Advance, Pipe!TypeOK
<1>3. CASE Pipe!StartWriter
  BY <1>3 DEF Pipe!StartWriter, Pipe!Goto, Pipe!TypeOK
<1>. QED  BY <1>1, <1>2, <1>3 DEF Pipe!StartStep

(* stop() of the pipeline shuts the raw queue down and takes nothing out.  *)
LEMMA StopFrame ==
  ASSUME Pipe!TypeOK, Pipe!StopStep \/ Pipe!MainFails
  PROVE  /\ UNCHANGED <<accepted, parser, pstops>> /\ raw'.items = raw.items
         /\ pmain.pc \in {"shutRaw", "shutShards", "extract", "write"}
         /\ pmain'.pc \in {"shutShards", "extract", "write", "stopped"}
<1>. USE DEF Pipe!inVars, Pipe!stageVars, Pipe!flushVars, Pipe!lifeVars, Pipe!outVars
<1>a. /\ pmain \in [pc : {"new", "startAggs", "startWriter", "running", "shutRaw",
                          "shutShards", "extract", "write", "stopped"},
                    next : Pipe!Shards, taken : SUBSET Pipe!Window]
      /\ raw \in Pipe!QueueOf(Messages, {QueueCapacity})
  BY DEF Pipe!TypeOK
<1>1. CASE Pipe!ShutRaw
  BY <1>1, <1>a DEF Pipe!ShutRaw, Pipe!Goto, Pipe!Shutdown, Pipe!QueueOf
<1>2. CASE Pipe!ShutShard
  BY <1>2, <1>a DEF Pipe!ShutShard, Pipe!Advance
<1>3. CASE Pipe!MainExtract
  BY <1>3, <1>a DEF Pipe!MainExtract, Pipe!Advance
<1>4. CASE Pipe!MainWrite
  BY <1>4, <1>a DEF Pipe!MainWrite
<1>5. CASE Pipe!MainReturn
  BY <1>5, <1>a DEF Pipe!MainReturn, Pipe!Goto
<1>6. CASE Pipe!MainFails
  BY <1>6 DEF Pipe!MainFails, Pipe!SinkFails
<1>. QED  BY <1>1, <1>2, <1>3, <1>4, <1>5, <1>6 DEF Pipe!StopStep

(* A call of the pipeline's stop(). *)
LEMMA CallFrame ==
  ASSUME Pipe!TypeOK, Pipe!StopRequest
  PROVE  /\ UNCHANGED <<raw, accepted, parser>> /\ pstops' = pstops + 1
         /\ pmain'.pc = "shutRaw"
BY DEF Pipe!StopRequest, Pipe!Goto, Pipe!TypeOK, Pipe!inVars, Pipe!stageVars

----------------------------------------------------------------------------
(* The order of the calls *)

(* main() and the two threads it starts, when nothing moves them. *)
LEMMA OrderUnmoved ==
  ASSUME OrderInv, UNCHANGED <<main, stops, net, pmain, pstops>>,
         UNCHANGED parser \/ parser'.pc # "none"
  PROVE  OrderInv'
BY DEF OrderInv, CallOrder, NetworkLife

(* No step of any thread breaks the order of main().                       *)
LEMMA OrderKept ==
  ASSUME TypeOK, Pipe!TypeOK, OrderInv, [ServiceNext]_serviceVars
  PROVE  OrderInv'
<1>. USE DEF vars, stopVars, pipeVars, mainVars
<1>1. CASE NetworkOnly(NetControl) \/ Read \/ Push
  <2>1. UNCHANGED <<main, stops, pmain, pstops, parser>>
    BY <1>1, NetControlFrame
    DEF NetworkOnly, Read, ReadMessage, Push, PushMessage, At, Pipe!Submit,
        Pipe!stageVars, Pipe!lifeVars
  <2>2. net \notin {"none", "done"} /\ net' # "none"
    BY <1>1, NetControlFrame DEF NetworkOnly, Read, ReadMessage, Push, PushMessage, At
  <2>. QED  BY <2>1, <2>2 DEF OrderInv, CallOrder, NetworkLife
<1>2. CASE ParserPop
  <2>1. UNCHANGED <<main, stops, net, pmain, pstops>>
    BY <1>2 DEF ParserPop, Consume, Pipe!ParserPop, Pipe!lifeVars
  <2>2. UNCHANGED parser \/ parser'.pc # "none"
    BY <1>2 DEF ParserPop, Pipe!ParserPop
  <2>. QED  BY <2>1, <2>2, OrderUnmoved
<1>3. CASE \/ PipelineOnly(Pipe!ParserPush) \/ WriterThread
           \/ PipelineOnly(Pipe!AdjustClock)
           \/ \E s \in Pipe!Shards : AggregationThread(s)
  BY <1>3, StageFrame, OrderUnmoved DEF PipelineOnly, WriterThread, AggregationThread
<1>4. CASE StartPipeline
  <2>1. /\ UNCHANGED <<main, stops, net, pstops>>
        /\ pmain.pc \in {"new", "startAggs", "startWriter"}
        /\ pmain'.pc \in {"startAggs", "startWriter", "running"}
        /\ (UNCHANGED parser /\ pmain.pc # "new") \/ parser'.pc = "pop"
    BY <1>4, StartFrame DEF StartPipeline, PipelineOnly
  <2>. QED  BY <2>1 DEF OrderInv, CallOrder, NetworkLife, Starting
<1>5. CASE StartNetwork
  BY <1>5 DEF StartNetwork, NetworkOnly, Start, OrderInv, CallOrder, NetworkLife
<1>6. CASE StopNetwork
  BY SMTT(60), <1>6 DEF StopNetwork, NetworkOnly, StopRequest, OrderInv, CallOrder, NetworkLife
<1>7. CASE StopPipeline
  <2>1. /\ UNCHANGED <<main, stops, net, parser>> /\ pstops' = pstops + 1
        /\ pmain'.pc = "shutRaw" /\ main = "stopped" /\ pmain.pc = "running"
    BY <1>7, CallFrame DEF StopPipeline, PipelineOnly
  <2>. QED  BY SMTT(60), <2>1 DEF OrderInv, CallOrder, NetworkLife, Starting
<1>8. CASE DestroyNetwork
  <2>1. /\ main' = "stopPolicy" /\ stops' = 2
        /\ pmain.pc = "stopped" /\ stops = 1 /\ UNCHANGED <<net, pmain, pstops, parser>>
    BY SMTT(60), <1>8 DEF DestroyNetwork, NetworkOnly, StopRequest
  <2>. QED  BY <2>1 DEF OrderInv, CallOrder, NetworkLife, Starting
<1>9. CASE DestroyPipeline
  <2>1. /\ UNCHANGED <<main, stops, net, parser>> /\ pstops' = pstops + 1
        /\ pmain'.pc = "shutRaw" /\ main = "stopped" /\ stops = 2 /\ pstops = 1
    BY <1>9, CallFrame DEF DestroyPipeline, PipelineOnly
  <2>. QED  BY SMTT(60), <2>1 DEF OrderInv, CallOrder, NetworkLife, Starting
<1>10. CASE NetworkOnly(StopStep)
  <2>1. /\ UNCHANGED <<net, stops, pmain, pstops, parser>>
        /\ main \in {"stopPolicy", "stopClient", "closeStream", "join"}
        /\ main' \in {"stopClient", "closeStream", "join", "stopped"}
        /\ main' = "stopped" => net \in {"none", "done"}
    BY <1>10, NetStopFrame DEF NetworkOnly
  <2>. QED  BY <2>1 DEF OrderInv, CallOrder, NetworkLife
<1>11. CASE PipelineOnly(Pipe!StopStep \/ Pipe!MainFails)
  <2>1. /\ UNCHANGED <<main, stops, net, parser, pstops>>
        /\ pmain.pc \in {"shutRaw", "shutShards", "extract", "write"}
        /\ pmain'.pc \in {"shutShards", "extract", "write", "stopped"}
    BY <1>11, StopFrame DEF PipelineOnly
  <2>. QED  BY <2>1 DEF OrderInv, CallOrder, NetworkLife, Starting
<1>12. CASE Signal \/ UNCHANGED serviceVars
  BY <1>12, OrderUnmoved DEF Signal, serviceVars
<1>. QED
  BY <1>1, <1>2, <1>3, <1>4, <1>5, <1>6, <1>7, <1>8, <1>9, <1>10, <1>11, <1>12
  DEF ServiceNext, NetworkThread, ParserThread, MainThread, StopCall

----------------------------------------------------------------------------
(* The messages on their way *)

(* The messages come from the feed. *)
LEMMA FeedKept ==
  ASSUME \A S \in SUBSET Messages : Cardinality(S) \in Nat,
         FeedInv, [ServiceNext]_serviceVars
  PROVE  FeedInv'
<1>1. CASE Read
  <2>1. Cardinality(sent) \in Nat /\ Cardinality(sent) < Len(Feed)
    BY <1>1 DEF FeedInv, Read
  <2>2. Cardinality(sent) + 1 \in 1..Len(Feed)
    BY SMTT(60), <2>1, FeedAssumption
  <2>3. Feed[Cardinality(sent) + 1] \in Messages
    BY SMTT(60), <2>2, FeedAssumption
  <2>. QED  BY <1>1, <2>3 DEF FeedInv, Read
<1>2. CASE Push
  BY <1>2 DEF FeedInv, Push
<1>3. CASE UNCHANGED <<hand, sent>>
  BY <1>3 DEF FeedInv
<1>. QED
  BY <1>1, <1>2, <1>3
  DEF ServiceNext, NetworkThread, ParserThread, WriterThread, MainThread, Signal,
      AggregationThread, NetworkOnly, PipelineOnly, ParserPop, StartPipeline,
      StartNetwork, StopNetwork, StopPipeline, DestroyNetwork, DestroyPipeline,
      StopCall, mainVars, serviceVars

(* What a message is a part of, when nothing moves it. *)
LEMMA HandUnmoved ==
  ASSUME HandInv, UNCHANGED <<hand, sent, accepted, backlog>>, raw'.items = raw.items,
         net = "push" <=> net' = "push"
  PROVE  HandInv'
BY DEF HandInv, NothingReadIsRefused

(* What was read is in the hand of the network thread or was accepted:     *)
(* while that thread lives, nobody has shut the raw queue down.            *)
LEMMA HandKept ==
  ASSUME TypeOK, Pipe!TypeOK, OrderInv, FeedInv', HandInv,
         raw.shutdown => pstops > 0, [ServiceNext]_serviceVars
  PROVE  HandInv'
<1>. USE DEF vars, stopVars, pipeVars, mainVars
<1>a. /\ raw.items \in Seq(Messages) /\ raw.shutdown \in BOOLEAN
      /\ raw \in [items : Seq(Messages), shutdown : BOOLEAN, capacity : {QueueCapacity}]
  BY DEF Pipe!TypeOK, Pipe!QueueOf
<1>1. CASE NetworkOnly(NetControl)
  BY <1>1, NetControlFrame, HandUnmoved DEF NetworkOnly
<1>2. CASE Read
  <2>1. PICK m : hand' = {m} /\ sent' = sent \cup {m}
    BY <1>2 DEF Read
  <2>2. /\ net = "read" /\ net' = "push" /\ UNCHANGED <<raw, accepted, backlog>>
        /\ m \in Messages
    BY <1>2, <2>1 DEF Read, ReadMessage, At, FeedInv
  <2>. QED  BY <2>1, <2>2 DEF HandInv, NothingReadIsRefused
<1>3. CASE Push
  <2>1. /\ net = "push" /\ net' = "read" /\ hand' = {} /\ sent' = sent
        /\ backlog' = backlog + 1
    BY <1>3 DEF Push, PushMessage, At
  <2>2. PICK m \in hand : Pipe!Submit(m)
    BY <1>3 DEF Push
  <2>3. hand = {m} /\ m \in Messages
    BY <2>2 DEF HandInv
  <2>4. ~raw.shutdown
    BY SMTT(60), <2>1 DEF OrderInv, CallOrder, NetworkLife
  <2>5. raw'.items = Append(raw.items, m) /\ accepted' = accepted \cup {m}
    BY <1>a, <2>2, <2>4 DEF Pipe!Submit, Pipe!Push
  <2>6. Len(raw'.items) = Len(raw.items) + 1
    BY SMTT(60), <1>a, <2>3, <2>5
  <2>. QED  BY <2>1, <2>3, <2>5, <2>6 DEF HandInv, NothingReadIsRefused
<1>4. CASE ParserPop
  <2>1. UNCHANGED <<hand, sent, accepted, net>>
    BY <1>4 DEF ParserPop, Consume, Pipe!ParserPop
  <2>2. CASE raw.items = <<>>
    <3>1. raw'.items = raw.items /\ backlog' = backlog
      BY <1>4, <2>2 DEF ParserPop, Pipe!ParserPop, Pipe!Pop
    <3>. QED  BY <2>1, <3>1, HandUnmoved
  <2>3. CASE raw.items # <<>>
    <3>1. raw'.items = Tail(raw.items) /\ backlog' = backlog - 1
      BY <1>4, <1>a, <2>3 DEF ParserPop, Consume, Pipe!ParserPop, Pipe!Pop
    <3>2. Len(raw'.items) = Len(raw.items) - 1
      BY SMTT(60), <1>a, <2>3, <3>1
    <3>. QED  BY <2>1, <3>1, <3>2 DEF HandInv, NothingReadIsRefused
  <2>. QED  BY <2>2, <2>3
<1>5. CASE \/ PipelineOnly(Pipe!ParserPush) \/ WriterThread
           \/ PipelineOnly(Pipe!AdjustClock)
           \/ \E s \in Pipe!Shards : AggregationThread(s)
  BY <1>5, StageFrame, HandUnmoved DEF PipelineOnly, WriterThread, AggregationThread
<1>6. CASE StartPipeline
  BY <1>6, StartFrame, HandUnmoved DEF StartPipeline, PipelineOnly
<1>7. CASE StartNetwork
  <2>1. net = "none" /\ net' = "loop" /\ UNCHANGED <<hand, sent, accepted, backlog, raw>>
    BY <1>7 DEF StartNetwork, NetworkOnly, Start, OrderInv, NetworkLife
  <2>. QED  BY <2>1, HandUnmoved
<1>8. CASE StopNetwork \/ DestroyNetwork
  BY <1>8, HandUnmoved DEF StopNetwork, DestroyNetwork, NetworkOnly, StopRequest
<1>9. CASE StopPipeline \/ DestroyPipeline
  BY <1>9, CallFrame, HandUnmoved DEF StopPipeline, DestroyPipeline, PipelineOnly
<1>10. CASE NetworkOnly(StopStep)
  BY <1>10, NetStopFrame, HandUnmoved DEF NetworkOnly
<1>11. CASE PipelineOnly(Pipe!StopStep \/ Pipe!MainFails)
  BY <1>11, StopFrame, HandUnmoved DEF PipelineOnly
<1>12. CASE Signal \/ UNCHANGED serviceVars
  BY <1>12, HandUnmoved DEF Signal, serviceVars
<1>. QED
  BY <1>1, <1>2, <1>3, <1>4, <1>5, <1>6, <1>7, <1>8, <1>9, <1>10, <1>11, <1>12
  DEF ServiceNext, NetworkThread, ParserThread, MainThread, StopCall

----------------------------------------------------------------------------
(* The components in the process *)

(* A step of the process is a step of its network stage or leaves it       *)
(* alone: the parser's pop() is the Consume of NetworkStage.               *)
LEMMA NetworkSteps == [ServiceNext]_serviceVars => [Next]_vars
BY DEF ServiceNext, NetworkThread, ParserThread, WriterThread, MainThread,
       Signal, AggregationThread, NetworkOnly, PipelineOnly, Read, Push,
       ParserPop, StartPipeline, StartNetwork, StopNetwork, StopPipeline,
       DestroyNetwork, DestroyPipeline, StopCall, serviceVars, Next, NetStep

(* In the process the network stage behaves as its own module has it.      *)
THEOREM ServiceIsNetwork == ServiceSpec => Spec
<1>1. ServiceInit => Init
  BY DEF ServiceInit
<1>. QED  BY <1>1, NetworkSteps, PTL DEF ServiceSpec, Spec

(* A step of the process is a step of its pipeline or leaves it alone: the *)
(* network thread's push() is a submit_raw_message of a message.           *)
LEMMA PipelineSteps ==
  ASSUME FeedInv, [ServiceNext]_serviceVars
  PROVE  Pipe!Next \/ UNCHANGED pipeVars
<1>1. CASE ServiceNext /\ Push
  <2>1. \E m \in Messages : Pipe!Submit(m)
    BY <1>1 DEF Push, FeedInv
  <2>. QED  BY <1>1, <2>1 DEF ServiceNext, Pipe!Next
<1>2. CASE ServiceNext /\ ~Push
  BY <1>2
  DEF ServiceNext, NetworkThread, ParserThread, WriterThread, MainThread, Signal,
      AggregationThread, NetworkOnly, PipelineOnly, Read, ParserPop,
      StartPipeline, StartNetwork, StopNetwork, StopPipeline, DestroyNetwork,
      DestroyPipeline, StopCall, Pipe!Next, Pipe!ParserStep
<1>3. CASE UNCHANGED serviceVars
  BY <1>3 DEF serviceVars, pipeVars
<1>. QED  BY <1>1, <1>2, <1>3

----------------------------------------------------------------------------
(* What the invariants say of the process *)

(* What the proofs below use of the pipeline's invariant: its types, that  *)
(* only stop() shuts the raw queue down, and how stop() leaves things.     *)
PipeFacts ==
  /\ Pipe!TypeOK
  /\ raw.shutdown => pstops > 0
  /\ pmain.pc = "stopped" /\ parser.pc # "none" =>
       /\ accepted \cap Trades \subseteq Pipe!Written
       /\ parser.pc = "done" /\ writer.pc = "done"
       /\ \A s \in Pipe!Shards : agg[s].pc = "done"

(* The order of the calls and the way of the messages, along every         *)
(* behaviour.                                                              *)
ServiceInv == OrderInv /\ HandInv

(* main() has not called anything yet. *)
LEMMA ServiceStarts == ServiceInit => ServiceInv /\ FeedInv
<1>. SUFFICES ASSUME ServiceInit PROVE ServiceInv /\ FeedInv
  OBVIOUS
<1>1. OrderInv
  BY SMTT(60) DEF ServiceInit, Init, Pipe!Init, OrderInv, CallOrder, NetworkLife, Starting
<1>2. raw.items = <<>> /\ backlog = 0 /\ accepted = {}
  BY DEF ServiceInit, Init, Pipe!Init, Pipe!NewQueue
<1>3. Len(raw.items) = 0
  BY SMTT(60), <1>2
<1>4. HandInv
  BY <1>2, <1>3 DEF ServiceInit, Init, HandInv, NothingReadIsRefused
<1>. QED  BY <1>1, <1>4 DEF ServiceInit, ServiceInv, FeedInv

(* Every step of every thread keeps the order and the messages. *)
LEMMA ServiceKept ==
  TypeOK /\ PipeFacts /\ FeedInv' /\ ServiceInv /\ [ServiceNext]_serviceVars
    => ServiceInv'
BY OrderKept, HandKept DEF ServiceInv, PipeFacts

(* The flag that the signal handler sets, g_stop_requested. *)
SignalInv == gStop \in BOOLEAN

(* It is clear before the handlers are installed. *)
LEMMA SignalStarts == ServiceInit => SignalInv
BY DEF ServiceInit, SignalInv

(* The handler sets it and nothing else touches it. *)
LEMMA SignalKept == SignalInv /\ [ServiceNext]_serviceVars => SignalInv'
BY DEF ServiceNext, NetworkThread, ParserThread, WriterThread, MainThread, Signal,
       AggregationThread, NetworkOnly, PipelineOnly, Read, Push, ParserPop,
       StartPipeline, StartNetwork, StopNetwork, StopPipeline, DestroyNetwork,
       DestroyPipeline, StopCall, mainVars, serviceVars, SignalInv

(* The types of the process are those of its parts. *)
LEMMA TypesFromInv ==
  TypeOK /\ PipeFacts /\ FeedInv /\ ServiceInv /\ SignalInv => ServiceTypeOK
BY DEF PipeFacts, FeedInv, ServiceInv, HandInv, NothingReadIsRefused, SignalInv,
       ServiceTypeOK

(* The network thread has ended before the pipeline's stop(), so what it   *)
(* read has been accepted; the pipeline's stop() leaves it in the file.    *)
LEMMA ExitFromInv == PipeFacts /\ ServiceInv => CleanExit
<1>. SUFFICES ASSUME PipeFacts, ServiceInv, Exited
              PROVE  /\ sent \cap Trades \subseteq Pipe!Written
                     /\ hand = {}
                     /\ net = "done" /\ parser.pc = "done" /\ writer.pc = "done"
                     /\ \A s \in Pipe!Shards : agg[s].pc = "done"
  BY DEF CleanExit
<1>1. net = "done" /\ parser.pc # "none"
  BY DEF Exited, ServiceInv, OrderInv, CallOrder, NetworkLife
<1>2. hand = {} /\ sent = accepted
  BY <1>1 DEF ServiceInv, HandInv, NothingReadIsRefused
<1>. QED  BY <1>1, <1>2 DEF PipeFacts, Exited

(* The destructors run when stop() of the pipeline has returned. *)
LEMMA DestructorsLast ==
  ServiceInv => (stops = 2 => parser.pc # "none" /\ (pmain.pc = "stopped" \/ pstops > 1))
BY SMTT(60) DEF ServiceInv, OrderInv, CallOrder, Starting

(* The variables of the pipeline, in the order Service lists them. *)
LEMMA PipeVars == UNCHANGED pipeVars => UNCHANGED Pipe!vars
BY DEF pipeVars, Pipe!vars, Pipe!inVars, Pipe!stageVars, Pipe!flushVars,
       Pipe!lifeVars, Pipe!outVars

----------------------------------------------------------------------------
(* Pipeline is the Pipe of Service with the theorems about it: the two     *)
(* differ in name only.                                                    *)

Pipeline == INSTANCE MarketDataPipelineProofs
  WITH main <- pmain, stopRequested <- pstopRequested, stops <- pstops

(* The constants are as the pipeline assumes. *)
LEMMA ConstantsFit ==
  /\ Trades \subseteq Messages /\ Pipeline!IsFiniteSet(Messages)
  /\ Symbols \subseteq Nat
  /\ SymbolOf \in [Trades -> Symbols]
  /\ TimeOf \in [Trades -> Nat]
  /\ HashOf \in [Symbols -> Nat]
  /\ WindowMs \in Nat \ {0} /\ Second \in Nat \ {0}
  /\ QueueCapacity \in Nat \ {0}
  /\ AggregatorThreads \in Nat
  /\ SteadyClock \in BOOLEAN
  /\ SinkMayFail \in BOOLEAN
  /\ MaxClock \in Nat
  /\ MaxStops \in Nat
<1>1. Pipeline!IsFiniteSet(Messages)
  BY PipelineConstants DEF IsFiniteSet, Pipeline!IsFiniteSet
<1>. QED  BY <1>1, PipelineConstants, NetworkAssumption

(* The constructor. *)
LEMMA SameInit == Pipe!Init => Pipeline!Init
BY DEF Pipe!Init, Pipeline!Init, Pipe!NewQueue, Pipeline!NewQueue, Pipe!Shards,
       Pipeline!Shards, Pipe!ShardCapacity, Pipeline!ShardCapacity,
       Pipe!ShardCount, Pipeline!ShardCount, Pipe!Max, Pipeline!Max

(* The shards. *)
LEMMA SameShards == Pipe!Shards = Pipeline!Shards
BY DEF Pipe!Shards, Pipeline!Shards, Pipe!ShardCount, Pipeline!ShardCount,
       Pipe!Max, Pipeline!Max

(* The variables. *)
LEMMA SameVars == UNCHANGED Pipe!vars => UNCHANGED Pipeline!vars
BY DEF Pipe!vars, Pipeline!vars, Pipe!inVars, Pipeline!inVars,
       Pipe!stageVars, Pipeline!stageVars, Pipe!flushVars, Pipeline!flushVars,
       Pipe!lifeVars, Pipeline!lifeVars, Pipe!outVars, Pipeline!outVars

(* The steps. *)
LEMMA SameNext == Pipe!Next => Pipeline!Next
<1>. USE DEF Pipe!inVars, Pipeline!inVars, Pipe!stageVars, Pipeline!stageVars,
             Pipe!flushVars, Pipeline!flushVars, Pipe!lifeVars,
             Pipeline!lifeVars, Pipe!outVars, Pipeline!outVars
<1>1. ASSUME NEW m PROVE Pipe!Submit(m) => Pipeline!Submit(m)
  BY DEF Pipe!Submit, Pipeline!Submit, Pipe!PushReturns,
         Pipeline!PushReturns, Pipe!Push, Pipeline!Push
<1>2. Pipe!ParserPop => Pipeline!ParserPop
  BY DEF Pipe!ParserPop, Pipeline!ParserPop, Pipe!PopReturns,
         Pipeline!PopReturns, Pipe!Pop, Pipeline!Pop, Pipe!Drained,
         Pipeline!Drained, Pipe!Oldest, Pipeline!Oldest
<1>3. Pipe!ParserPush => Pipeline!ParserPush
  BY DEF Pipe!ParserPush, Pipeline!ParserPush, Pipe!ShardOf,
         Pipeline!ShardOf, Pipe!PushReturns, Pipeline!PushReturns,
         Pipe!Push, Pipeline!Push, Pipe!ShardCount, Pipeline!ShardCount,
         Pipe!Max, Pipeline!Max
<1>4. ASSUME NEW s PROVE Pipe!AggPop(s) => Pipeline!AggPop(s)
  BY DEF Pipe!AggPop, Pipeline!AggPop, Pipe!PopReturns, Pipeline!PopReturns,
         Pipe!Pop, Pipeline!Pop, Pipe!Drained, Pipeline!Drained,
         Pipe!Oldest, Pipeline!Oldest
<1>5. ASSUME NEW s PROVE Pipe!AggAdd(s) => Pipeline!AggAdd(s)
  BY DEF Pipe!AggAdd, Pipeline!AggAdd, Pipe!WindowOf, Pipeline!WindowOf,
         Pipe!WindowStart, Pipeline!WindowStart
<1>6. Pipe!WriterTimeout => Pipeline!WriterTimeout
  BY DEF Pipe!WriterTimeout, Pipeline!WriterTimeout, Pipe!WindowStart,
         Pipeline!WindowStart, Pipe!Max, Pipeline!Max
<1>7. Pipe!WriterExtract => Pipeline!WriterExtract
  BY DEF Pipe!WriterExtract, Pipeline!WriterExtract, Pipe!CompletedTrades,
         Pipeline!CompletedTrades, Pipe!WindowsOf, Pipeline!WindowsOf,
         Pipe!ShardCount, Pipeline!ShardCount, Pipe!WindowOf,
         Pipeline!WindowOf, Pipe!Max, Pipeline!Max, Pipe!WindowStart,
         Pipeline!WindowStart
<1>8. Pipe!WriterWrite => Pipeline!WriterWrite
  BY DEF Pipe!WriterWrite, Pipeline!WriterWrite, Pipe!WriteSnapshot,
         Pipeline!WriteSnapshot, Pipe!Snapshot, Pipeline!Snapshot,
         Pipe!SortedBySymbol, Pipeline!SortedBySymbol, Pipe!Serialize,
         Pipeline!Serialize, Pipe!FirstStart, Pipeline!FirstStart,
         Pipe!Bijection, Pipeline!Bijection, Pipe!Cardinality,
         Pipeline!Cardinality, Pipe!Min, Pipeline!Min, Pipe!Injection,
         Pipeline!Injection, Pipe!Surjection, Pipeline!Surjection,
         Pipe!IsInjective, Pipeline!IsInjective
<1>9. Pipe!WriterReturn => Pipeline!WriterReturn
  BY DEF Pipe!WriterReturn, Pipeline!WriterReturn
<1>10. Pipe!WriterEnd => Pipeline!WriterEnd
  BY DEF Pipe!WriterEnd, Pipeline!WriterEnd
<1>11. Pipe!StartParser => Pipeline!StartParser
  BY DEF Pipe!StartParser, Pipeline!StartParser, Pipe!Goto, Pipeline!Goto
<1>12. Pipe!StartAgg => Pipeline!StartAgg
  BY DEF Pipe!StartAgg, Pipeline!StartAgg, Pipe!Advance, Pipeline!Advance,
         Pipe!ShardCount, Pipeline!ShardCount, Pipe!Max, Pipeline!Max
<1>13. Pipe!StartWriter => Pipeline!StartWriter
  BY DEF Pipe!StartWriter, Pipeline!StartWriter, Pipe!Goto, Pipeline!Goto
<1>14. Pipe!StopRequest => Pipeline!StopRequest
  BY DEF Pipe!StopRequest, Pipeline!StopRequest, Pipe!Goto, Pipeline!Goto
<1>15. Pipe!ShutRaw => Pipeline!ShutRaw
  BY DEF Pipe!ShutRaw, Pipeline!ShutRaw, Pipe!Joined, Pipeline!Joined,
         Pipe!Shutdown, Pipeline!Shutdown, Pipe!Goto, Pipeline!Goto
<1>16. Pipe!ShutShard => Pipeline!ShutShard
  BY DEF Pipe!ShutShard, Pipeline!ShutShard, Pipe!Joined, Pipeline!Joined,
         Pipe!Shutdown, Pipeline!Shutdown, Pipe!Advance, Pipeline!Advance,
         Pipe!ShardCount, Pipeline!ShardCount, Pipe!Max, Pipeline!Max
<1>17. Pipe!MainExtract => Pipeline!MainExtract
  BY DEF Pipe!MainExtract, Pipeline!MainExtract, Pipe!Shards,
         Pipeline!Shards, Pipe!Joined, Pipeline!Joined, Pipe!Advance,
         Pipeline!Advance, Pipe!WindowsOf, Pipeline!WindowsOf,
         Pipe!ShardCount, Pipeline!ShardCount, Pipe!WindowOf,
         Pipeline!WindowOf, Pipe!Max, Pipeline!Max, Pipe!WindowStart,
         Pipeline!WindowStart
<1>18. Pipe!MainWrite => Pipeline!MainWrite
  BY DEF Pipe!MainWrite, Pipeline!MainWrite, Pipe!WriteSnapshot,
         Pipeline!WriteSnapshot, Pipe!Snapshot, Pipeline!Snapshot,
         Pipe!SortedBySymbol, Pipeline!SortedBySymbol, Pipe!Serialize,
         Pipeline!Serialize, Pipe!FirstStart, Pipeline!FirstStart,
         Pipe!Bijection, Pipeline!Bijection, Pipe!Cardinality,
         Pipeline!Cardinality, Pipe!Min, Pipeline!Min, Pipe!Injection,
         Pipeline!Injection, Pipe!Surjection, Pipeline!Surjection,
         Pipe!IsInjective, Pipeline!IsInjective
<1>19. Pipe!MainReturn => Pipeline!MainReturn
  BY DEF Pipe!MainReturn, Pipeline!MainReturn, Pipe!Goto, Pipeline!Goto
<1>20. Pipe!AdjustClock => Pipeline!AdjustClock
  BY DEF Pipe!AdjustClock, Pipeline!AdjustClock
<1>21. Pipe!WriterFails => Pipeline!WriterFails
  BY DEF Pipe!WriterFails, Pipeline!WriterFails, Pipe!SinkFails,
         Pipeline!SinkFails, Pipe!WriteSnapshot, Pipeline!WriteSnapshot,
         Pipe!SortedBySymbol, Pipeline!SortedBySymbol, Pipe!Snapshot,
         Pipeline!Snapshot, Pipe!Serialize, Pipeline!Serialize,
         Pipe!FirstStart, Pipeline!FirstStart, Pipe!Bijection,
         Pipeline!Bijection, Pipe!Cardinality, Pipeline!Cardinality,
         Pipe!Min, Pipeline!Min, Pipe!Injection, Pipeline!Injection,
         Pipe!Surjection, Pipeline!Surjection, Pipe!IsInjective,
         Pipeline!IsInjective
<1>22. Pipe!MainFails => Pipeline!MainFails
  BY DEF Pipe!MainFails, Pipeline!MainFails, Pipe!SinkFails,
         Pipeline!SinkFails, Pipe!WriteSnapshot, Pipeline!WriteSnapshot,
         Pipe!SortedBySymbol, Pipeline!SortedBySymbol, Pipe!Snapshot,
         Pipeline!Snapshot, Pipe!Serialize, Pipeline!Serialize,
         Pipe!FirstStart, Pipeline!FirstStart, Pipe!Bijection,
         Pipeline!Bijection, Pipe!Cardinality, Pipeline!Cardinality,
         Pipe!Min, Pipeline!Min, Pipe!Injection, Pipeline!Injection,
         Pipe!Surjection, Pipeline!Surjection, Pipe!IsInjective,
         Pipeline!IsInjective
<1>. QED
  BY <1>1, <1>2, <1>3, <1>4, <1>5, <1>6, <1>7, <1>8, <1>9, <1>10, <1>11, <1>12,
     <1>13, <1>14, <1>15, <1>16, <1>17, <1>18, <1>19, <1>20, <1>21, <1>22, SameShards
  DEF Pipe!Next, Pipeline!Next, Pipe!ParserStep, Pipeline!ParserStep,
      Pipe!AggStep, Pipeline!AggStep, Pipe!WriterStep, Pipeline!WriterStep,
      Pipe!StartStep, Pipeline!StartStep, Pipe!StopStep, Pipeline!StopStep

(* The types. *)
LEMMA SameTypes == Pipeline!TypeOK => Pipe!TypeOK
<1>1. Pipe!ShardCapacity = Pipeline!ShardCapacity
  BY DEF Pipe!ShardCapacity, Pipeline!ShardCapacity, Pipe!ShardCount,
         Pipeline!ShardCount, Pipe!Max, Pipeline!Max
<1>2. \A E, C : Pipe!QueueOf(E, C) = Pipeline!QueueOf(E, C)
  BY DEF Pipe!QueueOf, Pipeline!QueueOf
<1>3. Pipe!Window = Pipeline!Window
  BY DEF Pipe!Window, Pipeline!Window
<1>. QED  BY SameShards, <1>1, <1>2, <1>3 DEF Pipe!TypeOK, Pipeline!TypeOK

(* The file. *)
LEMMA SameWritten == Pipe!Written = Pipeline!Written
BY DEF Pipe!Written, Pipeline!Written, Pipe!TradesOf, Pipeline!TradesOf,
       Pipe!LinesIn, Pipeline!LinesIn

(* The number of messages read is a number. *)
LEMMA SentCounted == \A S \in SUBSET Messages : Cardinality(S) \in Nat
<1>1. Pipeline!SetFacts /\ Pipeline!IsFiniteSet(Messages)
  BY Pipeline!SetFactsHold, ConstantsFit
<1>2. \A S \in SUBSET Messages : Pipeline!Cardinality(S) \in Nat
  BY <1>1 DEF Pipeline!SetFacts
<1>3. \A S : Pipeline!Cardinality(S) = Cardinality(S)
  BY DEF Pipeline!Cardinality, Cardinality, Pipeline!IsFiniteSet, IsFiniteSet
<1>. QED  BY <1>2, <1>3

----------------------------------------------------------------------------
(* The theorems *)

(* Every message read is one of the feed. *)
LEMMA FeedInvariance == ServiceSpec => []FeedInv
<1>1. ServiceInit => FeedInv
  BY ServiceStarts
<1>2. FeedInv /\ [ServiceNext]_serviceVars => FeedInv'
  BY SentCounted, FeedKept
<1>. QED  BY <1>1, <1>2, PTL DEF ServiceSpec

(* In the process the pipeline behaves as its own module has it, whoever   *)
(* submits and whenever main() calls stop(): the theorems about it hold in *)
(* the process.                                                            *)
THEOREM ServiceIsPipeline == ServiceSpec => Pipe!Spec
<1>1. ServiceInit => Pipe!Init
  BY DEF ServiceInit
<1>2. FeedInv /\ [ServiceNext]_serviceVars => [Pipe!Next]_Pipe!vars
  BY PipelineSteps, PipeVars
<1>. QED  BY <1>1, <1>2, FeedInvariance, PTL DEF ServiceSpec, Pipe!Spec

(* The two names of the pipeline. *)
LEMMA PipeIsPipeline == Pipe!Spec => Pipeline!Spec
<1>1. UNCHANGED Pipe!vars => UNCHANGED Pipeline!vars
  BY SameVars
<1>2. [Pipe!Next]_Pipe!vars => [Pipeline!Next]_Pipeline!vars
  BY <1>1, SameNext
<1>. QED  BY <1>2, SameInit, PTL DEF Pipe!Spec, Pipeline!Spec

(* The pipeline's invariant implies them. *)
LEMMA PipeFactsFromInv == Pipeline!PipelineInv => PipeFacts
<1>. SUFFICES ASSUME Pipeline!PipelineInv PROVE PipeFacts
  OBVIOUS
<1>1. Pipeline!TypeOK /\ Pipeline!ThreadInv /\ Pipeline!StopInv
  BY DEF Pipeline!PipelineInv
<1>2. raw.shutdown => pstops > 0
  BY <1>1 DEF Pipeline!StopInv
<1>3. ASSUME pmain.pc = "stopped", parser.pc # "none"
      PROVE  /\ accepted \cap Trades \subseteq Pipe!Written
             /\ parser.pc = "done" /\ writer.pc = "done"
             /\ \A s \in Pipe!Shards : agg[s].pc = "done"
  <2>1. accepted \cap Trades \subseteq Pipe!Written
    BY <1>3, Pipeline!LosslessFromInv, ConstantsFit, SameWritten
    DEF Pipeline!LosslessStop, Pipeline!Stopped, Pipeline!Started
  <2>2. writer.pc = "done"
    BY <1>1, <1>3 DEF Pipeline!StopInv, Pipeline!ThreadInv, Pipeline!Joined
  <2>3. ASSUME NEW s \in Pipeline!Shards PROVE agg[s].pc = "done" /\ parser.pc = "done"
    <3>1. Pipeline!ShutBefore(s) /\ Pipeline!SweptBefore(s)
      BY <1>3 DEF Pipeline!ShutBefore, Pipeline!SweptBefore
    <3>2. Pipeline!Joined(agg[s].pc) /\ Pipeline!Joined(parser.pc)
      BY <1>1, <3>1 DEF Pipeline!StopInv
    <3>. QED  BY <1>1, <1>3, <3>2 DEF Pipeline!ThreadInv, Pipeline!Joined
  <2>4. 1 \in Pipeline!Shards
    BY Pipeline!ShardFacts, ConstantsFit
  <2>. QED  BY <2>1, <2>2, <2>3, <2>4, SameShards
<1>. QED  BY <1>1, <1>2, <1>3, SameTypes DEF PipeFacts

(* They hold in the process. *)
LEMMA PipeFactsInvariance == ServiceSpec => []PipeFacts
<1>1. Pipeline!Spec => []Pipeline!PipelineInv
  BY Pipeline!Invariance, ConstantsFit, PTL
<1>. QED  BY <1>1, PipeFactsFromInv, ServiceIsPipeline, PipeIsPipeline, PTL

(* The inductive invariant of the process, beside those of its components. *)
THEOREM ServiceInvariance == ServiceSpec => []ServiceInv
<1>1. ServiceInit => ServiceInv
  BY ServiceStarts
<1>. QED
  BY <1>1, ServiceKept, FeedInvariance, PipeFactsInvariance, ServiceIsNetwork,
     NetworkTypeCorrect, PTL
  DEF ServiceSpec

(* Every variable of the process keeps its type. *)
THEOREM ServiceTypeCorrect == ServiceSpec => []ServiceTypeOK
BY SignalStarts, SignalKept, TypesFromInv, FeedInvariance, PipeFactsInvariance,
   ServiceInvariance, ServiceIsNetwork, NetworkTypeCorrect, PTL
DEF ServiceSpec

(* No message read from a socket is lost on its way into the pipeline,     *)
(* though the network thread ignores the result of push().                 *)
THEOREM NothingRefused == ServiceSpec => []NothingReadIsRefused
<1>1. ServiceInv => NothingReadIsRefused
  BY DEF ServiceInv, HandInv
<1>. QED  BY <1>1, ServiceInvariance, PTL

(* When main() has returned, every trade ever read is in the file and      *)
(* every thread has ended.                                                 *)
THEOREM ExitIsClean == ServiceSpec => []CleanExit
BY ExitFromInv, ServiceInvariance, PipeFactsInvariance, PTL

(* The destructors' stop() calls write nothing: pipeline.stop() has        *)
(* returned before the first of them.                                      *)
THEOREM DestructorsSilent == ServiceSpec => DestructorsWriteNothing
<1>1. ServiceInv => (stops = 2 => Pipeline!Closed)
  BY DestructorsLast DEF Pipeline!Closed, Pipeline!Started, Pipeline!Stopped
<1>2. Pipeline!Spec => [][Pipeline!Closed => output' = output]_Pipeline!vars
  BY Pipeline!ClosedForGood, ConstantsFit, PTL
<1>3. UNCHANGED Pipeline!vars => output' = output
  BY DEF Pipeline!vars, Pipeline!outVars
<1>4. ServiceInv /\ [Pipeline!Closed => output' = output]_Pipeline!vars
        => (stops = 2 => output' = output)
  BY <1>1, <1>3
<1>. QED
  BY <1>2, <1>4, ServiceInvariance, ServiceIsPipeline, PipeIsPipeline, PTL
  DEF DestructorsWriteNothing

(* The reports and the backoff of the network stage, in the process.       *)
THEOREM ServiceReports == ServiceSpec => [](OneReportPerRun /\ FreshBackoffAfterMessage)
BY ServiceIsNetwork, ReportsTellStage, BackoffStartsFresh, PTL

=============================================================================
