------------------------ MODULE PipelineOutputProofs ------------------------
(***************************************************************************)
(* What MarketDataPipeline writes: blocks, windows and the ledger.         *)
(***************************************************************************)
EXTENDS PipelineStageProofs

USE ZenonT(30)

----------------------------------------------------------------------------
(* Window arithmetic *)

(* Division with remainder. *)
LEMMA Division ==
  ASSUME NEW a \in Nat, NEW d \in Nat \ {0}
  PROVE  /\ a \div d \in Nat /\ a % d \in 0..(d - 1)
         /\ a = d * (a \div d) + (a % d)
BY SMTT(60)

(* Cutting a time down to its window gives a multiple of the window. *)
LEMMA WindowStartMultiple ==
  ASSUME NEW time \in Nat
  PROVE  \E k \in Nat : WindowStart(time) = WindowMs * k
<1>1. WindowMs \in Nat \ {0}
  BY PipelineAssumption
<1>2. /\ time \div WindowMs \in Nat /\ time % WindowMs \in Nat
      /\ time = WindowMs * (time \div WindowMs) + (time % WindowMs)
  BY SMTT(60), <1>1, Division
<1>3. WindowStart(time) = WindowMs * (time \div WindowMs)
  BY SMTT(60), <1>1, <1>2 DEF WindowStart
<1>. QED  BY <1>2, <1>3

(* Of two different window starts the earlier window is over when the      *)
(* later one begins.                                                       *)
LEMMA WindowsDoNotOverlap ==
  ASSUME NEW k \in Nat, NEW l \in Nat, NEW d \in Nat, d * k < d * l
  PROVE  d * k + d <= d * l
<1>1. k + 1 <= l
  <2>1. ASSUME l <= k PROVE FALSE
    <3>1. PICK e \in Nat : k = l + e
      <4>1. k - l \in Nat /\ k = l + (k - l)
        BY SMTT(60), <2>1
      <4>. QED  BY <4>1
    <3>2. d * k = d * l + d * e
      BY SMTT(60), <3>1
    <3>3. d * e \in Nat /\ d * l \in Nat
      BY SMTT(60)
    <3>. QED  BY SMTT(60), <3>2, <3>3
  <2>. QED  BY SMTT(60), <2>1
<1>2. PICK e \in Nat : l = k + 1 + e
  <2>1. l - (k + 1) \in Nat /\ l = k + 1 + (l - (k + 1))
    BY SMTT(60), <1>1
  <2>. QED  BY <2>1
<1>3. d * l = d * k + d + d * e
  BY SMTT(60), <1>2
<1>4. d * e \in Nat /\ d * k \in Nat
  BY SMTT(60)
<1>. QED  BY SMTT(60), <1>3, <1>4

(* A multiple of d, divided by d and multiplied by d, is itself. *)
LEMMA MultipleExact ==
  ASSUME NEW d \in Nat \ {0}, NEW k \in Nat
  PROVE  ((d * k) \div d) * d = d * k
<1>. DEFINE q == (d * k) \div d
            r == (d * k) % d
<1>1. d * k \in Nat
  BY SMTT(60)
<1>2. q \in Nat /\ r \in 0..(d - 1) /\ d * k = d * q + r
  BY <1>1, Division
<1>. HIDE DEF q, r
<1>3. r = 0
  <2>. SUFFICES ASSUME r # 0 PROVE FALSE
    OBVIOUS
  <2>1. d * q < d * k
    BY SMTT(60), <1>2
  <2>2. d * q + d <= d * k
    BY <1>2, <2>1, WindowsDoNotOverlap
  <2>. QED  BY SMTT(60), <1>2, <2>2
<1>4. d * q = q * d
  BY SMTT(60), <1>2
<1>. QED  BY SMTT(60), <1>2, <1>3, <1>4 DEF q

----------------------------------------------------------------------------
(* Blocks *)

(* A well-formed block, as BlocksWellFormed has it; the lines carry the    *)
(* window of the block.                                                    *)
GoodBlock(b) ==
  /\ WindowMs % Second = 0 => b.timestamp * Second = b.start
  /\ b.lines # <<>>
  /\ \A i, j \in DOMAIN b.lines : i < j => b.lines[i].symbol < b.lines[j].symbol
  /\ \A w \in LinesIn(b) :
       /\ w.trades # {} /\ w.start = b.start
       /\ \A t \in w.trades : SymbolOf[t] = w.symbol /\ WindowOf(t) = b.start

(* The windows of a flush start at a multiple of window_ms_, which is a    *)
(* whole number of seconds if window_ms_ is.                               *)
LEMMA StartMultiple ==
  ASSUME NEW W, WindowSet(W), NEW w \in W
  PROVE  /\ \E k \in Nat : w.start = WindowMs * k
         /\ WindowMs % Second = 0 => (w.start \div Second) * Second = w.start
<1>1. PICK t \in w.trades : WindowOf(t) = w.start /\ t \in Trades
  BY SMTT(60) DEF WindowSet, Window
<1>2. TimeOf[t] \in Nat
  BY <1>1, PipelineAssumption
<1>3. PICK k \in Nat : w.start = WindowMs * k
  BY <1>1, <1>2, WindowStartMultiple DEF WindowOf
<1>4. ASSUME WindowMs % Second = 0 PROVE (w.start \div Second) * Second = w.start
  <2>1. WindowMs \in Nat /\ Second \in Nat \ {0}
    BY PipelineAssumption
  <2>2. PICK m \in Nat : WindowMs = Second * m
    <3>1. WindowMs \div Second \in Nat /\ WindowMs = Second * (WindowMs \div Second) + 0
      BY <1>4, <2>1, Division
    <3>2. Second * (WindowMs \div Second) + 0 = Second * (WindowMs \div Second)
      BY SMTT(60), <2>1, <3>1
    <3>. QED  BY <3>1, <3>2
  <2>3. w.start = Second * (m * k) /\ m * k \in Nat
    BY SMTT(60), <1>3, <2>1, <2>2
  <2>. QED  BY <2>1, <2>3, MultipleExact
<1>. QED  BY <1>3, <1>4

(* The sink holds blocks. *)
LEMMA OutputBlocks ==
  ASSUME OutputOK PROVE \A i \in DOMAIN output : output[i] \in Block
<1>1. output \in Seq(Block) /\ DOMAIN output = 1..Len(output)
  BY SeqLen DEF OutputOK
<1>. QED  BY <1>1, SeqLen

(* What one round of write_windows appends. *)
LEMMA WriteFacts ==
  ASSUME SetFacts, NEW W, WindowSet(W), W # {}, OutputOK, WriteSnapshot(W)
  PROVE  \E b \in Block :
           /\ DOMAIN output = 1..Len(output) /\ DOMAIN output' = 1..(Len(output) + 1)
           /\ Len(output) \in Nat
           /\ \A i \in 1..Len(output) : output'[i] = output[i]
           /\ output'[Len(output) + 1] = b
           /\ LinesIn(b) = Snapshot(W) /\ GoodBlock(b)
           /\ \A w \in W : b.start <= w.start
           /\ \A w \in W \ Snapshot(W) : b.start < w.start
<1>1. PICK lines \in SortedBySymbol(Snapshot(W)) :
        output' = Append(output, Serialize(FirstStart(W), lines))
  BY DEF WriteSnapshot
<1>. DEFINE b == Serialize(FirstStart(W), lines)
<1>2. /\ b \in Block /\ LinesIn(b) = Snapshot(W) /\ b.start = FirstStart(W)
      /\ b.timestamp = FirstStart(W) \div Second /\ b.lines = lines /\ lines # <<>>
      /\ \A i, j \in DOMAIN lines : i < j => lines[i].symbol < lines[j].symbol
  BY BlockFacts
<1>. HIDE DEF b
<1>3. output \in Seq(Block) /\ output' = Append(output, b)
  BY <1>1 DEF OutputOK, b
<1>4. /\ DOMAIN output = 1..Len(output) /\ DOMAIN output' = 1..(Len(output) + 1)
      /\ Len(output) \in Nat
      /\ \A i \in 1..Len(output) : output'[i] = output[i]
      /\ output'[Len(output) + 1] = b
  BY SMTT(60), <1>2, <1>3, SeqAppend, SeqLen
<1>5. \A w \in W : w.start \in Nat
  BY DEF WindowSet, Window
<1>6. FirstStart(W) \in Nat /\ \A w \in W : FirstStart(W) <= w.start
  <2>. DEFINE S == {w.start : w \in W}
  <2>1. S \in SUBSET Nat /\ S # {} /\ \A w \in W : w.start \in S
    BY <1>5
  <2>2. FirstStart(W) = Min(S)
    BY DEF FirstStart
  <2>. HIDE DEF S
  <2>3. Min(S) \in Nat /\ \A y \in S : Min(S) <= y
    BY <2>1, MinOfNats
  <2>. QED  BY <2>1, <2>2, <2>3
<1>7. \A w \in W \ Snapshot(W) : FirstStart(W) < w.start
  <2>. SUFFICES ASSUME NEW w \in W \ Snapshot(W) PROVE FirstStart(W) < w.start
    OBVIOUS
  <2>1. w.start # FirstStart(W) /\ w.start \in Nat /\ FirstStart(W) <= w.start
    BY <1>5, <1>6 DEF Snapshot
  <2>. QED  BY SMTT(60), <1>6, <2>1
<1>8. \A w \in Snapshot(W) : w \in W /\ w.start = FirstStart(W)
  BY DEF Snapshot
<1>9. WindowMs % Second = 0 => b.timestamp * Second = b.start
  <2>1. PICK w \in Snapshot(W) : w \in W /\ w.start = FirstStart(W)
    BY SMTT(60), <1>8, SnapshotFacts
  <2>. QED  BY <1>2, <2>1, StartMultiple
<1>10. \A w \in LinesIn(b) :
         /\ w.trades # {} /\ w.start = b.start
         /\ \A t \in w.trades : SymbolOf[t] = w.symbol /\ WindowOf(t) = b.start
  BY SMTT(60), <1>2, <1>8 DEF WindowSet
<1>11. GoodBlock(b)
  BY <1>2, <1>9, <1>10 DEF GoodBlock
<1>. QED  BY <1>2, <1>4, <1>6, <1>7, <1>11

(* The steps that write. *)
LEMMA OutputSteps ==
  ASSUME [Next]_vars
  PROVE  \/ UNCHANGED output
         \/ ~crashed /\ (WriterWrite \/ WriterFails) /\ WriteSnapshot(writer.taken)
                     /\ writer.taken # {} /\ writer.pc = "write"
         \/ ~crashed /\ (MainWrite \/ MainFails) /\ WriteSnapshot(main.taken)
                     /\ main.taken # {} /\ main.pc = "write"
BY DEF vars, outVars, Next, Submit, ParserStep, ParserPop, ParserPush, AggStep,
       AggPop, AggAdd, WriterStep, WriterTimeout, WriterExtract, WriterReturn,
       WriterEnd, StartParser, StartStep, StartAgg, StartWriter, StopRequest,
       StopStep, ShutRaw, ShutShard, MainExtract, MainReturn, AdjustClock,
       WriterWrite, WriterFails, MainWrite, MainFails, SinkFails

BlockInv == \A i \in DOMAIN output : GoodBlock(output[i])

(* Every block is written well-formed. *)
LEMMA BlockKept ==
  ASSUME SetFacts, PipelineInv, BlockInv, [Next]_vars PROVE BlockInv'
<1>1. OutputOK /\ WindowSet(writer.taken) /\ WindowSet(main.taken)
  BY TypeParts DEF PipelineInv, FlushInv
<1>2. UNCHANGED output => BlockInv'
  BY DEF BlockInv
<1>3. ASSUME NEW W, WindowSet(W), W # {}, WriteSnapshot(W) PROVE BlockInv'
  <2>1. PICK b \in Block :
          /\ DOMAIN output = 1..Len(output) /\ DOMAIN output' = 1..(Len(output) + 1)
          /\ Len(output) \in Nat
          /\ \A i \in 1..Len(output) : output'[i] = output[i]
          /\ output'[Len(output) + 1] = b
          /\ GoodBlock(b)
    BY <1>1, <1>3, WriteFacts
  <2>2. \A i \in 1..(Len(output) + 1) : i \in 1..Len(output) \/ i = Len(output) + 1
    BY SMTT(60), <2>1
  <2>. QED  BY <2>1, <2>2 DEF BlockInv
<1>. QED  BY <1>1, <1>2, <1>3, OutputSteps

(* Blocks of that form are well formed. *)
LEMMA BlocksFromInv == BlockInv => BlocksWellFormed
BY SMTT(60) DEF BlockInv, GoodBlock, BlocksWellFormed, Range

----------------------------------------------------------------------------
(* The inductive invariants *)

(* stop() has emptied the aggregators. *)
AllFlushed == main.pc \in {"write", "stopped"} \/ stops > 1

(* A trade of a window that a periodic flush has passed is still in its    *)
(* aggregator only until the flush gets there, unless it is late.          *)
PassedInv ==
  \A s \in Shards : \A t \in held[s] \ late :
    WindowOf(t) < passed =>
      writer.pc = "extract" /\ writer.next <= s /\ WindowOf(t) < writer.cutoff

(* A periodic flush takes windows before its cutoff; only stop() writes    *)
(* others.                                                                 *)
CutoffInv ==
  /\ writer.pc \in {"extract", "write"} =>
       writer.cutoff <= passed /\ \A w \in writer.taken : w.start < writer.cutoff
  /\ \A i \in DOMAIN output : output[i].start < passed \/ AllFlushed

(* What is left to be written of windows up to one in the file is late.    *)
LateInv ==
  \A i \in DOMAIN output : \A t \in Held \cup Taken :
    (crashed => t \notin Written) /\ WindowOf(t) <= output[i].start => t \in late

(* The first half of OnlyLateTradesOutOfOrder. *)
OrderInv ==
  \A i, j \in DOMAIN output :
    i < j /\ output[j].start <= output[i].start =>
      TradesOf(LinesIn(output[j])) \subseteq late

LinesWritten == UNION {LinesIn(output[i]) : i \in DOMAIN output}

(* While no periodic flush has taken anything, the windows written and to  *)
(* be written are those of one flush, in the order of their starts.        *)
OneFlushInv ==
  passed = 0 =>
    /\ WindowSet(LinesWritten \cup main.taken)
    /\ \A i, j \in DOMAIN output : i < j => output[i].start < output[j].start
    /\ ~crashed => \A i \in DOMAIN output : \A w \in main.taken :
                     output[i].start < w.start

(* The cutoff of a flush is the start of a window that the clock reached.  *)
FinishInv ==
  /\ writer.pc \in {"extract", "write"} =>
       \E c \in 0..clock : writer.cutoff = WindowStart(c)
  /\ OnlyFinishedWindows

(* Closed as the ledger has it: everything accepted is written.            *)
Closed == Started /\ (Stopped \/ stops > 1)
ClosedInv == Closed => accepted \cap Trades \subseteq Written

----------------------------------------------------------------------------
(* Late trades *)

(* The parts of PipelineInv, for citing. *)
LEMMA InvParts ==
  ASSUME PipelineInv
  PROVE  /\ TypeOK /\ ThreadInv /\ StopInv /\ RouteInv /\ FlushInv
         /\ Conserved /\ OnePlace /\ LineInv
         /\ RawOK /\ ShardsOK /\ ParserOK /\ AggOK /\ HeldOK
         /\ WriterOK /\ MainOK /\ OutputOK /\ HistoryOK
         /\ passed \in Nat /\ clock \in Nat /\ stops \in Nat
BY TypeParts DEF PipelineInv, HistoryOK

(* Histories only grow, and what stop() has emptied stays empty. *)
LEMMA Monotone ==
  ASSUME PipelineInv, [Next]_vars
  PROVE  /\ passed' \in Nat /\ passed <= passed' /\ late \subseteq late'
         /\ AllFlushed => AllFlushed' /\ \A s \in Shards : Joined(agg[s].pc) /\ held[s] = {}
         /\ (crashed => crashed')
<1>. USE DEF vars, inVars, stageVars, flushVars, lifeVars, outVars
<1>a. /\ passed \in Nat /\ clock \in Nat /\ stops \in Nat /\ MainOK /\ StopInv
  BY InvParts
<1>1. passed' \in Nat /\ passed <= passed'
  <2>1. CASE UNCHANGED passed
    BY SMTT(60), <1>a, <2>1
  <2>2. CASE WriterTimeout
    BY <1>a, <2>2, WindowOfFacts, MaxOfTwo DEF WriterTimeout
  <2>. QED
    BY <2>1, <2>2
    DEF Next, Submit, ParserStep, ParserPop, ParserPush, AggStep, AggPop, AggAdd,
        WriterStep, WriterWrite, WriterExtract, WriterReturn, WriterEnd,
        StartParser, StartStep, StartAgg, StartWriter, StopRequest, StopStep,
        ShutRaw, ShutShard, MainExtract, MainWrite, MainReturn, AdjustClock,
        WriterFails, MainFails, SinkFails
<1>2. late \subseteq late'
  <2>1. CASE \E s \in Shards : AggAdd(s)
    BY <2>1 DEF AggAdd
  <2>. QED
    BY <2>1
    DEF Next, Submit, ParserStep, ParserPop, ParserPush, AggStep, AggPop,
        WriterStep, WriterTimeout, WriterWrite, WriterExtract, WriterReturn,
        WriterEnd, StartParser, StartStep, StartAgg, StartWriter, StopRequest,
        StopStep, ShutRaw, ShutShard, MainExtract, MainWrite, MainReturn,
        AdjustClock, WriterFails, MainFails, SinkFails
<1>3. ASSUME AllFlushed PROVE \A s \in Shards : Joined(agg[s].pc) /\ held[s] = {}
  BY <1>3, <1>a DEF AllFlushed, SweptBefore, StopInv
<1>4. ASSUME AllFlushed PROVE AllFlushed'
  <2>1. CASE UNCHANGED <<main, stops>>
    BY <1>4, <2>1 DEF AllFlushed
  <2>2. CASE StopRequest
    <3>1. main.pc \in {"new", "running", "stopped"} /\ stops' = stops + 1
      BY <2>2 DEF StopRequest
    <3>2. stops > 0
      BY <1>4, <1>a, <3>1 DEF AllFlushed, StopInv
    <3>. QED  BY SMTT(60), <1>a, <3>1, <3>2 DEF AllFlushed
  <2>3. CASE /\ UNCHANGED stops
             /\ \/ StartParser \/ StartAgg \/ StartWriter \/ ShutRaw \/ ShutShard
                \/ MainExtract
    <3>1. main.pc \notin {"write", "stopped"}
      BY <2>3 DEF StartParser, StartAgg, StartWriter, ShutRaw, ShutShard, MainExtract
    <3>. QED  BY <1>4, <2>3, <3>1 DEF AllFlushed
  <2>4. CASE UNCHANGED stops /\ (MainWrite \/ MainReturn)
    <3>1. main'.pc \in {"write", "stopped"}
      BY <1>a, <2>4 DEF MainWrite, MainReturn, Goto, MainOK
    <3>. QED  BY <3>1 DEF AllFlushed
  <2>. QED
    BY <2>1, <2>2, <2>3, <2>4
    DEF Next, Submit, ParserStep, ParserPop, ParserPush, AggStep, AggPop, AggAdd,
        WriterStep, WriterTimeout, WriterWrite, WriterExtract, WriterReturn,
        WriterEnd, StartParser, StartStep, StartAgg, StartWriter, StopStep,
        ShutRaw, ShutShard, MainExtract, MainWrite, MainReturn, AdjustClock,
        WriterFails, MainFails, SinkFails
<1>5. crashed => crashed'
  BY DEF Next
<1>. QED  BY <1>1, <1>2, <1>3, <1>4, <1>5

(* The trades a flush can still take come from the aggregation threads.    *)
LEMMA PendingSteps ==
  ASSUME SetFacts, PipelineInv, [Next]_vars, NEW t \in (Held \cup Taken)'
  PROVE  \/ t \in Held \cup Taken
         \/ UNCHANGED output
            /\ \E s \in Shards : AggAdd(s) /\ agg[s].pc = "add" /\ t \in agg[s].hold
<1>. USE DEF vars, inVars, stageVars, flushVars, lifeVars, outVars
<1>a. HeldOK /\ WriterOK /\ MainOK /\ FlushInv /\ ThreadInv
  BY InvParts
<1>b. \A V, W : TradesOf(V \cup W) = TradesOf(V) \cup TradesOf(W)
  BY DEF TradesOf
<1>c. \A V, W : V \subseteq W => TradesOf(V) \subseteq TradesOf(W)
  BY DEF TradesOf
<1>d. \/ \E s \in Shards : t \in held'[s]
      \/ t \in TradesOf(writer'.taken)
      \/ t \in TradesOf(main'.taken)
  BY DEF Held, Taken
<1>e. ASSUME \A s \in Shards : held'[s] \subseteq held[s],
             writer'.taken \subseteq writer.taken, main'.taken \subseteq main.taken
      PROVE  t \in Held \cup Taken
  <2>1. \/ \E s \in Shards : t \in held[s]
        \/ t \in TradesOf(writer.taken)
        \/ t \in TradesOf(main.taken)
    BY <1>c, <1>d, <1>e
  <2>. QED  BY <2>1 DEF Held, Taken
<1>1. CASE UNCHANGED <<held, writer, main>>
  BY <1>1, <1>e
<1>2. ASSUME NEW x \in Shards, AggAdd(x)
      PROVE  \/ t \in Held \cup Taken
             \/ UNCHANGED output /\ agg[x].pc = "add" /\ t \in agg[x].hold
  <2>1. /\ UNCHANGED <<writer, main, output>> /\ agg[x].pc = "add"
        /\ \A s \in Shards : s # x => held'[s] = held[s]
        /\ held'[x] = held[x] \cup agg[x].hold
    BY <1>2, <1>a DEF AggAdd, HeldOK
  <2>. QED  BY SMTT(60), <1>d, <2>1 DEF Held, Taken
<1>3. CASE WriterExtract
  <2>. DEFINE X == CompletedTrades(held[writer.next], writer.cutoff)
  <2>1. writer.next \in Shards /\ X \in SUBSET held[writer.next] /\ X \in SUBSET Trades
    BY <1>a DEF CompletedTrades, WriterOK, HeldOK
  <2>. HIDE DEF X
  <2>2. /\ UNCHANGED main /\ \A s \in Shards : held'[s] \subseteq held[s]
        /\ writer'.taken = writer.taken \cup WindowsOf(X)
    BY <1>3, <1>a DEF WriterExtract, HeldOK, WriterOK, X
  <2>3. TradesOf(writer'.taken) = TradesOf(writer.taken) \cup X
    BY SMTT(60), <1>b, <2>1, <2>2, WindowsOfFacts
  <2>4. \/ \E s \in Shards : t \in held[s]
        \/ t \in TradesOf(writer.taken)
        \/ t \in TradesOf(main.taken)
    BY <1>d, <2>1, <2>2, <2>3
  <2>. QED  BY <2>4 DEF Held, Taken
<1>4. CASE MainExtract
  <2>1. main.next \in Shards /\ held[main.next] \in SUBSET Trades
    BY <1>a DEF MainOK, HeldOK
  <2>2. /\ UNCHANGED writer /\ \A s \in Shards : held'[s] \subseteq held[s]
        /\ main'.taken = main.taken \cup WindowsOf(held[main.next])
    BY SMTT(60), <1>4, <1>a, AdvanceFacts DEF MainExtract, HeldOK
  <2>3. TradesOf(main'.taken) = TradesOf(main.taken) \cup held[main.next]
    BY SMTT(60), <1>b, <2>1, <2>2, WindowsOfFacts
  <2>4. \/ \E s \in Shards : t \in held[s]
        \/ t \in TradesOf(writer.taken)
        \/ t \in TradesOf(main.taken)
    BY <1>d, <2>1, <2>2, <2>3
  <2>. QED  BY <2>4 DEF Held, Taken
<1>5. CASE WriterTimeout \/ WriterWrite \/ WriterReturn \/ WriterEnd
  <2>1. UNCHANGED <<held, main>> /\ writer'.taken \subseteq writer.taken
    BY SMTT(60), <1>5, <1>a DEF WriterTimeout, WriterWrite, WriterReturn, WriterEnd, WriterOK
  <2>. QED  BY <1>e, <2>1
<1>6. CASE StartParser \/ StartAgg \/ StopRequest \/ ShutRaw \/ ShutShard \/ MainReturn
           \/ MainWrite
  <2>1. UNCHANGED <<held, writer>> /\ main'.taken \subseteq main.taken
    BY SMTT(60), <1>6, <1>a, AdvanceFacts
       DEF StartParser, StartAgg, StopRequest, ShutRaw, ShutShard, MainReturn,
           MainWrite, Goto, MainOK
  <2>. QED  BY SMTT(60), <1>e, <2>1
<1>7. CASE StartWriter
  <2>1. UNCHANGED held /\ writer'.taken = writer.taken /\ main'.taken = main.taken
    BY SMTT(60), <1>7, <1>a DEF StartWriter, Goto, WriterOK, MainOK
  <2>. QED  BY <1>e, <2>1
<1>. QED
  BY <1>1, <1>2, <1>3, <1>4, <1>5, <1>6, <1>7
  DEF Next, Submit, ParserStep, ParserPop, ParserPush, AggStep, AggPop,
      WriterStep, StartStep, StopStep, AdjustClock, WriterFails, MainFails, SinkFails

(* A flush that raises the cutoff takes every trade before it. *)
LEMMA PassedKept ==
  ASSUME PipelineInv, PassedInv, [Next]_vars PROVE PassedInv'
<1>. USE DEF vars, inVars, stageVars, flushVars, lifeVars, outVars
<1>a. /\ AggOK /\ HeldOK /\ WriterOK /\ MainOK /\ passed \in Nat /\ clock \in Nat
      /\ Shards = 1..ShardCount /\ ShardCount \in Nat \ {0} /\ writer.next \in Shards
  BY InvParts, ShardFacts DEF WriterOK
<1>b. \A s \in Shards : \A t \in held[s] : WindowOf(t) \in Nat
  BY <1>a, WindowOfFacts DEF HeldOK
<1>1. CASE /\ UNCHANGED <<writer, passed, late>>
           /\ \A s \in Shards : held'[s] \subseteq held[s]
  BY <1>1 DEF PassedInv
<1>2. ASSUME NEW x \in Shards, AggAdd(x) PROVE PassedInv'
  <2>1. /\ UNCHANGED <<writer, passed>>
        /\ late' = late \cup {t \in agg[x].hold : WindowOf(t) < passed}
        /\ \A s \in Shards : s # x => held'[s] = held[s]
        /\ held'[x] = held[x] \cup agg[x].hold
    BY <1>2, <1>a DEF AggAdd, HeldOK
  <2>. SUFFICES ASSUME NEW s \in Shards, NEW t \in held'[s] \ late', WindowOf(t) < passed
                PROVE  t \in held[s] \ late
    BY <2>1 DEF PassedInv
  <2>. QED  BY <2>1
<1>3. CASE WriterTimeout
  <2>1. /\ UNCHANGED <<held, late>> /\ writer.pc = "wait" /\ writer'.pc = "extract"
        /\ writer'.next = 1 /\ writer'.cutoff = WindowStart(clock)
        /\ passed' = Max({passed, WindowStart(clock)})
    BY <1>3 DEF WriterTimeout
  <2>2. WindowStart(clock) \in Nat
    BY <1>a, WindowOfFacts
  <2>3. passed' \in {passed, WindowStart(clock)}
    BY <1>a, <2>1, <2>2, MaxOfTwo
  <2>. SUFFICES ASSUME NEW s \in Shards, NEW t \in held[s] \ late, WindowOf(t) < passed'
                PROVE  1 <= s /\ WindowOf(t) < WindowStart(clock)
    BY <2>1 DEF PassedInv
  <2>4. ~(WindowOf(t) < passed)
    BY <2>1 DEF PassedInv
  <2>. QED  BY SMTT(60), <1>a, <2>3, <2>4
<1>4. CASE WriterExtract
  <2>1. /\ UNCHANGED <<late, passed>> /\ writer.pc = "extract"
        /\ writer'.cutoff = writer.cutoff
        /\ writer.next # ShardCount => writer'.pc = "extract" /\ writer'.next = writer.next + 1
        /\ \A s \in Shards : s # writer.next => held'[s] = held[s]
        /\ \A t \in held'[writer.next] : t \in held[writer.next] /\ ~(WindowOf(t) < writer.cutoff)
    BY <1>4, <1>a DEF WriterExtract, CompletedTrades, HeldOK, WriterOK
  <2>. SUFFICES ASSUME NEW s \in Shards, NEW t \in held'[s] \ late, WindowOf(t) < passed
                PROVE  /\ writer'.pc = "extract" /\ writer'.next <= s
                       /\ WindowOf(t) < writer.cutoff
    BY <2>1 DEF PassedInv
  <2>2. t \in held[s]
    BY <2>1
  <2>3. writer.next <= s /\ WindowOf(t) < writer.cutoff
    BY <2>1, <2>2 DEF PassedInv
  <2>4. s # writer.next
    BY <2>1, <2>3
  <2>. QED  BY SMTT(60), <1>a, <2>1, <2>3, <2>4
<1>5. CASE WriterWrite \/ WriterReturn \/ WriterEnd \/ StartWriter
  <2>1. UNCHANGED <<held, late, passed>> /\ writer.pc # "extract"
    <3>1. CASE StartWriter
      BY <3>1, InvParts DEF StartWriter, ThreadInv
    <3>2. CASE WriterWrite \/ WriterReturn \/ WriterEnd
      BY <3>2 DEF WriterWrite, WriterReturn, WriterEnd
    <3>. QED  BY <1>5, <3>1, <3>2
  <2>. QED  BY <2>1 DEF PassedInv
<1>6. CASE MainExtract
  <2>1. UNCHANGED <<writer, passed, late>> /\ \A s \in Shards : held'[s] \subseteq held[s]
    BY <1>6, <1>a DEF MainExtract, HeldOK
  <2>. QED  BY <1>1, <2>1
<1>7. CASE UNCHANGED <<writer, passed, late, held>>
  BY <1>1, <1>7
<1>. QED
  BY ZenonT(60), <1>2, <1>3, <1>4, <1>5, <1>6, <1>7
  DEF Next, Submit, ParserStep, ParserPop, ParserPush, AggStep, AggPop,
      WriterStep, StartParser, StartStep, StartAgg, StopRequest, StopStep,
      ShutRaw, ShutShard, MainWrite, MainReturn, AdjustClock, WriterFails,
      MainFails, SinkFails

(* A flush writes only windows before a cutoff, until stop() flushes. *)
LEMMA CutoffKept ==
  ASSUME SetFacts, PipelineInv, CutoffInv, [Next]_vars PROVE CutoffInv'
<1>. USE DEF vars, inVars, stageVars, flushVars, lifeVars, outVars
<1>a. /\ HeldOK /\ WriterOK /\ MainOK /\ OutputOK /\ passed \in Nat /\ clock \in Nat
      /\ WindowSet(writer.taken) /\ WindowSet(main.taken) /\ writer.cutoff \in Nat
      /\ ThreadInv
  BY InvParts DEF FlushInv, WriterOK
<1>b. /\ passed' \in Nat /\ passed <= passed' /\ (AllFlushed => AllFlushed')
  BY SMTT(60), Monotone
<1>1. writer'.pc \in {"extract", "write"} =>
        writer'.cutoff <= passed' /\ \A w \in writer'.taken : w.start < writer'.cutoff
  <2>1. CASE UNCHANGED <<writer, passed>>
    BY <2>1 DEF CutoffInv
  <2>2. CASE WriterTimeout
    BY <1>a, <2>2, MaxOfTwo, WindowOfFacts DEF WriterTimeout
  <2>3. CASE WriterExtract
    <3>. DEFINE X == CompletedTrades(held[writer.next], writer.cutoff)
    <3>1. X \in SUBSET Trades /\ \A t \in X : WindowOf(t) < writer.cutoff
      BY <1>a DEF CompletedTrades, WriterOK, HeldOK
    <3>. HIDE DEF X
    <3>2. /\ UNCHANGED passed /\ writer.pc = "extract" /\ writer'.cutoff = writer.cutoff
          /\ writer'.taken = writer.taken \cup WindowsOf(X)
      BY <2>3, <1>a DEF WriterExtract, WriterOK, X
    <3>3. \A w \in WindowsOf(X) : w.start < writer.cutoff
      BY <3>1, WindowsOfFacts
    <3>. QED  BY <3>2, <3>3 DEF CutoffInv
  <2>4. CASE WriterWrite
    <3>1. /\ UNCHANGED passed /\ writer.pc = "write" /\ writer'.cutoff = writer.cutoff
          /\ writer'.taken \subseteq writer.taken
      BY <2>4, <1>a DEF WriterWrite, WriterOK
    <3>. QED  BY <3>1 DEF CutoffInv
  <2>5. CASE WriterReturn \/ WriterEnd \/ StartWriter
    <3>1. writer'.pc \notin {"extract", "write"}
      BY <2>5, <1>a DEF WriterReturn, WriterEnd, StartWriter, WriterOK
    <3>. QED  BY <3>1
  <2>. QED
    BY ZenonT(60), <2>1, <2>2, <2>3, <2>4, <2>5
    DEF Next, Submit, ParserStep, ParserPop, ParserPush, AggStep, AggPop, AggAdd,
        WriterStep, StartParser, StartStep, StartAgg, StopRequest, StopStep,
        ShutRaw, ShutShard, MainExtract, MainWrite, MainReturn, AdjustClock,
        WriterFails, MainFails, SinkFails
<1>2. ASSUME NEW i \in DOMAIN output', i \in DOMAIN output, output'[i] = output[i]
      PROVE  output'[i].start < passed' \/ AllFlushed'
  <2>1. output[i].start \in Nat
    BY <1>2, <1>a, OutputBlocks DEF Block
  <2>. QED  BY SMTT(60), <1>a, <1>b, <1>2, <2>1 DEF CutoffInv
<1>3. ASSUME NEW W, WindowSet(W), W # {}, WriteSnapshot(W),
             (\A w \in W : w.start < passed') \/ AllFlushed'
      PROVE  \A i \in DOMAIN output' : output'[i].start < passed' \/ AllFlushed'
  <2>1. PICK b \in Block :
          /\ DOMAIN output = 1..Len(output) /\ DOMAIN output' = 1..(Len(output) + 1)
          /\ Len(output) \in Nat
          /\ \A i \in 1..Len(output) : output'[i] = output[i]
          /\ output'[Len(output) + 1] = b
          /\ \A w \in W : b.start <= w.start
    BY <1>a, <1>3, WriteFacts
  <2>2. \A i \in 1..(Len(output) + 1) : i \in 1..Len(output) \/ i = Len(output) + 1
    BY SMTT(60), <2>1
  <2>3. b.start < passed' \/ AllFlushed'
    <3>1. PICK w \in W : w.start \in Nat
      BY <1>3 DEF WindowSet, Window
    <3>2. b.start \in Nat /\ b.start <= w.start
      BY <2>1 DEF Block
    <3>. QED  BY SMTT(60), <1>b, <1>3, <3>1, <3>2
  <2>. QED  BY <1>2, <2>1, <2>2, <2>3
<1>4. \A i \in DOMAIN output' : output'[i].start < passed' \/ AllFlushed'
  <2>1. CASE UNCHANGED output
    BY <1>2, <2>1
  <2>2. CASE WriteSnapshot(writer.taken) /\ writer.taken # {} /\ writer.pc = "write"
    <3>1. \A w \in writer.taken : w.start \in Nat /\ w.start < writer.cutoff
      BY <1>a, <2>2 DEF CutoffInv, WindowSet, Window
    <3>2. writer.cutoff <= passed
      BY <2>2 DEF CutoffInv
    <3>3. \A w \in writer.taken : w.start < passed'
      BY SMTT(60), <1>a, <1>b, <3>1, <3>2
    <3>. QED  BY <1>a, <1>3, <2>2, <3>3
  <2>3. CASE WriteSnapshot(main.taken) /\ main.taken # {} /\ main.pc = "write"
    BY <1>a, <1>b, <1>3, <2>3 DEF AllFlushed
  <2>. QED  BY <2>1, <2>2, <2>3, OutputSteps
<1>. QED  BY <1>1, <1>4 DEF CutoffInv

(* After a block is written, the trades of its window and of earlier ones  *)
(* that are still to come are late.                                        *)
LEMMA LateKept ==
  ASSUME SetFacts, PipelineInv, PassedInv, CutoffInv, LateInv, [Next]_vars
  PROVE  LateInv'
<1>. USE DEF vars, inVars, stageVars, flushVars, lifeVars, outVars
<1>a. /\ WriterOK /\ MainOK /\ OutputOK /\ HeldOK /\ AggOK /\ passed \in Nat
      /\ WindowSet(writer.taken) /\ WindowSet(main.taken) /\ StopInv /\ ThreadInv
  BY InvParts DEF FlushInv
<1>b. /\ late \subseteq late'
      /\ AllFlushed => \A s \in Shards : Joined(agg[s].pc) /\ held[s] = {}
  BY Monotone
<1>. SUFFICES ASSUME NEW i \in DOMAIN output', NEW t \in (Held \cup Taken)',
                     crashed' => t \notin Written', WindowOf(t) <= output'[i].start
              PROVE  t \in late'
  BY DEF LateInv
<1>c. crashed => t \notin Written
  BY DEF Next, Written
<1>d. ASSUME NEW W, WindowSet(W), t \in TradesOf(W)
      PROVE  \E w \in W : t \in w.trades /\ w.start = WindowOf(t) /\ w.start \in Nat
  BY SMTT(60), <1>d DEF TradesOf, WindowSet, Window
<1>1. CASE i \in DOMAIN output /\ output'[i] = output[i]
  <2>1. CASE t \in Held \cup Taken
    BY <1>1, <1>b, <1>c, <2>1 DEF LateInv
  <2>2. ASSUME NEW s \in Shards, AggAdd(s), agg[s].pc = "add", t \in agg[s].hold
        PROVE  t \in late'
    <3>1. ~AllFlushed
      BY <1>b, <2>2 DEF Joined
    <3>2. output[i].start < passed /\ output[i].start \in Nat
      BY <1>1, <1>a, <3>1, OutputBlocks DEF CutoffInv, Block
    <3>3. t \in Trades
      BY <1>a, <2>2 DEF AggOK, AggState
    <3>4. WindowOf(t) \in Nat
      BY <3>3, WindowOfFacts
    <3>5. WindowOf(t) < passed
      BY SMTT(60), <1>1, <1>a, <3>2, <3>4
    <3>. QED  BY <2>2, <3>5 DEF AggAdd
  <2>. QED  BY <2>1, <2>2, PendingSteps
<1>2. ASSUME NEW W, WindowSet(W), W # {}, WriteSnapshot(W),
             ~(i \in DOMAIN output /\ output'[i] = output[i])
      PROVE  /\ output'[i].start \in Nat
             /\ \A w \in W : output'[i].start <= w.start
             /\ t \notin TradesOf(W \ Snapshot(W))
             /\ crashed' => t \notin TradesOf(W)
  <2>1. PICK b \in Block :
          /\ DOMAIN output = 1..Len(output) /\ DOMAIN output' = 1..(Len(output) + 1)
          /\ Len(output) \in Nat
          /\ \A j \in 1..Len(output) : output'[j] = output[j]
          /\ output'[Len(output) + 1] = b
          /\ LinesIn(b) = Snapshot(W)
          /\ \A w \in W : b.start <= w.start
          /\ \A w \in W \ Snapshot(W) : b.start < w.start
    BY <1>a, <1>2, WriteFacts
  <2>2. i \in 1..Len(output) \/ i = Len(output) + 1
    BY SMTT(60), <2>1
  <2>3. output'[i] = b /\ b.start \in Nat
    BY <1>2, <2>1, <2>2 DEF Block
  <2>4. t \notin TradesOf(W \ Snapshot(W))
    <3>1. WindowSet(W \ Snapshot(W))
      BY <1>2, SnapshotFacts
    <3>. QED  BY SMTT(60), <1>d, <2>1, <2>3, <3>1
  <2>5. crashed' => t \notin TradesOf(W)
    <3>1. crashed' => t \notin TradesOf(Snapshot(W))
      BY <2>1, <2>3 DEF Written
    <3>2. TradesOf(W \ Snapshot(W)) = TradesOf(W) \ TradesOf(Snapshot(W))
      BY <1>2, SnapshotFacts
    <3>. QED  BY <2>4, <3>1, <3>2
  <2>. QED  BY <2>1, <2>3, <2>4, <2>5
<1>3. CASE /\ WriterWrite \/ WriterFails
           /\ WriteSnapshot(writer.taken) /\ writer.taken # {} /\ writer.pc = "write"
           /\ ~(i \in DOMAIN output /\ output'[i] = output[i])
  <2>1. /\ UNCHANGED <<held, late, main>>
        /\ \/ writer'.taken = writer.taken \ Snapshot(writer.taken)
           \/ crashed' /\ writer'.taken = writer.taken
    BY <1>3, <1>a DEF WriterWrite, WriterFails, SinkFails, WriterOK
  <2>2. main.taken = {}
    BY <1>a, <1>3 DEF StopInv, ThreadInv, Joined
  <2>3. t \notin TradesOf(writer'.taken)
    BY <1>2, <1>3, <1>a, <2>1
  <2>4. t \notin TradesOf(main'.taken)
    BY <2>1, <2>2 DEF TradesOf
  <2>5. PICK s \in Shards : t \in held[s]
    BY <2>1, <2>3, <2>4 DEF Held, Taken
  <2>6. WindowOf(t) \in Nat
    <3>1. t \in Trades
      BY <1>a, <2>5 DEF HeldOK
    <3>. QED  BY <3>1, WindowOfFacts
  <2>7. WindowOf(t) < passed
    <3>1. PICK w \in writer.taken : w.start \in Nat /\ w.start < writer.cutoff
      BY <1>a, <1>3 DEF CutoffInv, WindowSet, Window
    <3>2. writer.cutoff <= passed /\ writer.cutoff \in Nat
      BY <1>a, <1>3 DEF CutoffInv, WriterOK
    <3>3. output'[i].start \in Nat /\ output'[i].start <= w.start
      BY <1>2, <1>3, <1>a
    <3>. QED  BY SMTT(60), <1>a, <2>6, <3>1, <3>2, <3>3
  <2>. QED  BY <1>3, <2>1, <2>5, <2>7 DEF PassedInv
<1>4. CASE /\ MainWrite \/ MainFails
           /\ WriteSnapshot(main.taken) /\ main.taken # {} /\ main.pc = "write"
           /\ ~(i \in DOMAIN output /\ output'[i] = output[i])
  <2>1. /\ UNCHANGED <<held, writer>>
        /\ \/ main'.taken = main.taken \ Snapshot(main.taken)
           \/ crashed' /\ main'.taken = main.taken
    BY <1>4, <1>a DEF MainWrite, MainFails, SinkFails, MainOK
  <2>2. writer.taken = {} /\ \A s \in Shards : held[s] = {}
    BY <1>a, <1>b, <1>4 DEF StopInv, ThreadInv, Joined, AllFlushed
  <2>3. t \notin TradesOf(main'.taken)
    BY <1>2, <1>4, <1>a, <2>1
  <2>4. t \notin TradesOf(writer'.taken) /\ \A s \in Shards : t \notin held'[s]
    BY <2>1, <2>2 DEF TradesOf
  <2>. QED  BY <2>3, <2>4 DEF Held, Taken
<1>. QED  BY <1>1, <1>3, <1>4, OutputSteps

(* A block of a window up to one in the file has only late trades. *)
LEMMA OrderKept ==
  ASSUME SetFacts, PipelineInv, LateInv, OrderInv, [Next]_vars
  PROVE  OrderInv'
<1>a. /\ OutputOK /\ WindowSet(writer.taken) /\ WindowSet(main.taken)
  BY InvParts DEF FlushInv
<1>b. late \subseteq late'
  BY Monotone
<1>1. CASE UNCHANGED output
  BY SMTT(60), <1>b, <1>1 DEF OrderInv
<1>2. ASSUME ~crashed, NEW W, WindowSet(W), W # {}, WriteSnapshot(W), TradesOf(W) \subseteq Taken
      PROVE  OrderInv'
  <2>1. PICK b \in Block :
          /\ DOMAIN output = 1..Len(output) /\ DOMAIN output' = 1..(Len(output) + 1)
          /\ Len(output) \in Nat
          /\ \A j \in 1..Len(output) : output'[j] = output[j]
          /\ output'[Len(output) + 1] = b
          /\ LinesIn(b) = Snapshot(W) /\ GoodBlock(b)
    BY <1>a, <1>2, WriteFacts
  <2>2. \A i \in 1..(Len(output) + 1) : i \in 1..Len(output) \/ i = Len(output) + 1
    BY SMTT(60), <2>1
  <2>. SUFFICES ASSUME NEW i \in DOMAIN output', NEW j \in DOMAIN output', i < j,
                       output'[j].start <= output'[i].start,
                       NEW t \in TradesOf(LinesIn(output'[j]))
                PROVE  t \in late'
    BY DEF OrderInv
  <2>3. i \in 1..Len(output)
    BY SMTT(60), <2>1, <2>2
  <2>4. CASE j \in 1..Len(output)
    BY <1>b, <2>1, <2>3, <2>4 DEF OrderInv
  <2>5. CASE j = Len(output) + 1
    <3>1. t \in TradesOf(W)
      BY <2>1, <2>5 DEF Snapshot, TradesOf
    <3>2. WindowOf(t) = b.start
      BY <2>1, <2>5 DEF GoodBlock, TradesOf
    <3>. QED  BY <1>2, <1>b, <2>1, <2>3, <2>5, <3>1, <3>2 DEF LateInv
  <2>. QED  BY <2>1, <2>2, <2>4, <2>5
<1>3. TradesOf(writer.taken) \subseteq Taken /\ TradesOf(main.taken) \subseteq Taken
  BY DEF Taken
<1>. QED  BY <1>a, <1>1, <1>2, <1>3, OutputSteps

(* The two invariants give the property. *)
LEMMA OrderFromInv == LateInv /\ OrderInv => OnlyLateTradesOutOfOrder
BY DEF LateInv, OrderInv, OnlyLateTradesOutOfOrder

----------------------------------------------------------------------------
(* One flush *)

(* Windows with one entry per symbol and start are the grouping of their   *)
(* trades.                                                                 *)
LEMMA WindowsRegrouped ==
  ASSUME NEW W, WindowSet(W) PROVE WindowsOf(TradesOf(W)) = W
<1>. DEFINE X == TradesOf(W)
            win(t) == [symbol |-> SymbolOf[t], start |-> WindowOf(t),
                       trades |-> {u \in X : SymbolOf[u] = SymbolOf[t]
                                             /\ WindowOf(u) = WindowOf(t)}]
<1>1. ASSUME NEW w \in W, NEW t \in w.trades PROVE win(t) = w
  <2>1. /\ w = [symbol |-> w.symbol, start |-> w.start, trades |-> w.trades]
        /\ SymbolOf[t] = w.symbol /\ WindowOf(t) = w.start
    BY DEF WindowSet, Window
  <2>2. ASSUME NEW u PROVE u \in w.trades <=>
          (u \in X /\ SymbolOf[u] = SymbolOf[t] /\ WindowOf(u) = WindowOf(t))
    <3>1. ASSUME u \in w.trades
          PROVE  u \in X /\ SymbolOf[u] = SymbolOf[t] /\ WindowOf(u) = WindowOf(t)
      BY <2>1, <3>1 DEF TradesOf, WindowSet
    <3>2. ASSUME u \in X, SymbolOf[u] = SymbolOf[t], WindowOf(u) = WindowOf(t)
          PROVE  u \in w.trades
      <4>1. PICK x \in W : u \in x.trades
        BY <3>2 DEF TradesOf
      <4>2. x.symbol = w.symbol /\ x.start = w.start
        BY <2>1, <3>2, <4>1 DEF WindowSet
      <4>. QED  BY <4>1, <4>2 DEF WindowSet
    <3>. QED  BY <3>1, <3>2
  <2>3. w.trades = {u \in X : SymbolOf[u] = SymbolOf[t] /\ WindowOf(u) = WindowOf(t)}
    BY <2>2
  <2>. QED  BY <2>1, <2>3
<1>2. \A w \in W : w.trades # {}
  BY DEF WindowSet
<1>3. \A t \in X : \E w \in W : t \in w.trades
  BY DEF TradesOf
<1>4. \A w \in W : \A t \in w.trades : t \in X
  BY DEF TradesOf
<1>5. \A w : w \in WindowsOf(X) <=> \E t \in X : w = win(t)
  BY DEF WindowsOf
<1>. HIDE DEF X, win
<1>6. ASSUME NEW w PROVE w \in WindowsOf(X) <=> w \in W
  <2>1. ASSUME w \in WindowsOf(X) PROVE w \in W
    <3>1. PICK t \in X : w = win(t)
      BY <1>5, <2>1
    <3>2. PICK y \in W : t \in y.trades
      BY <1>3
    <3>. QED  BY <1>1, <3>1, <3>2
  <2>2. ASSUME w \in W PROVE w \in WindowsOf(X)
    <3>1. PICK t \in w.trades : TRUE
      BY SMTT(60), <1>2, <2>2
    <3>. QED  BY <1>1, <1>4, <1>5, <2>2, <3>1
  <2>. QED  BY <2>1, <2>2
<1>. QED  BY <1>6 DEF X

(* The windows main has taken change only where it takes and writes them.  *)
LEMMA MainTakenSteps ==
  ASSUME MainOK, [Next]_vars
  PROVE  \/ main'.taken = main.taken
         \/ MainExtract /\ main'.taken = main.taken \cup WindowsOf(held[main.next])
         \/ MainWrite /\ main'.taken = main.taken \ Snapshot(main.taken)
<1>. USE DEF vars, inVars, stageVars, flushVars, lifeVars, outVars
<1>1. CASE UNCHANGED main
  BY <1>1
<1>2. CASE StartParser \/ StartAgg \/ StartWriter \/ StopRequest \/ ShutRaw
           \/ ShutShard \/ MainReturn
  BY SMTT(60), <1>2, AdvanceFacts DEF StartParser, StartAgg, StartWriter, StopRequest,
                            ShutRaw, ShutShard, MainReturn, Goto, MainOK
<1>3. CASE MainExtract
  BY SMTT(60), <1>3, AdvanceFacts DEF MainExtract
<1>4. CASE MainWrite
  BY <1>4 DEF MainWrite, MainOK
<1>. QED
  BY ZenonT(60), <1>1, <1>2, <1>3, <1>4
  DEF Next, Submit, ParserStep, ParserPop, ParserPush, AggStep, AggPop, AggAdd,
      WriterStep, WriterTimeout, WriterWrite, WriterExtract, WriterReturn,
      WriterEnd, StartStep, StopStep, AdjustClock, WriterFails, MainFails, SinkFails

(* As long as no periodic flush takes anything, all lines are of one flush. *)
LEMMA OneFlushKept ==
  ASSUME SetFacts, PipelineInv, FlushInv', BlockInv, CutoffInv, OneFlushInv, [Next]_vars
  PROVE  OneFlushInv'
<1>a. /\ MainOK /\ OutputOK /\ HeldOK /\ WriterOK /\ passed \in Nat
      /\ WindowSet(writer.taken) /\ WindowSet(main.taken) /\ ThreadInv
  BY InvParts DEF FlushInv
<1>b. /\ passed' \in Nat /\ passed <= passed'
      /\ AllFlushed => \A s \in Shards : held[s] = {}
      /\ (crashed => crashed')
  BY Monotone
<1>. SUFFICES ASSUME passed' = 0
              PROVE  /\ WindowSet((LinesWritten \cup main.taken)')
                     /\ \A i, j \in DOMAIN output' : i < j => output'[i].start < output'[j].start
                     /\ ~crashed' => \A i \in DOMAIN output' : \A w \in main'.taken :
                                       output'[i].start < w.start
  BY DEF OneFlushInv
<1>c. /\ passed = 0 /\ WindowSet(LinesWritten \cup main.taken)
      /\ \A i, j \in DOMAIN output : i < j => output[i].start < output[j].start
      /\ ~crashed => \A i \in DOMAIN output : \A w \in main.taken :
                       output[i].start < w.start
  BY SMTT(60), <1>a, <1>b DEF OneFlushInv
<1>d. writer.taken = {}
  <2>1. CASE writer.pc \in {"extract", "write"}
    <3>1. \A w \in writer.taken : w.start \in Nat /\ w.start < writer.cutoff
      BY <1>a, <2>1 DEF CutoffInv, WindowSet, Window
    <3>2. writer.cutoff <= 0 /\ writer.cutoff \in Nat
      BY <1>a, <1>c, <2>1 DEF CutoffInv, WriterOK
    <3>. QED  BY SMTT(60), <3>1, <3>2
  <2>2. CASE writer.pc \notin {"extract", "write"}
    BY <1>a, <2>2 DEF ThreadInv
  <2>. QED  BY <2>1, <2>2
<1>e. \A i \in DOMAIN output : output[i].start \in Nat
  BY <1>a, OutputBlocks DEF Block
<1>f. ~AllFlushed => DOMAIN output = {}
  <2>1. ASSUME ~AllFlushed, NEW i \in DOMAIN output PROVE FALSE
    <3>1. output[i].start < passed
      BY <2>1 DEF CutoffInv
    <3>. QED  BY SMTT(60), <1>c, <1>e, <3>1
  <2>. QED  BY <2>1
<1>1. CASE UNCHANGED output /\ main'.taken = main.taken
  <2>1. (LinesWritten \cup main.taken)' = LinesWritten \cup main.taken
    BY <1>1 DEF LinesWritten
  <2>. QED  BY <1>1, <1>b, <1>c, <2>1
<1>2. CASE UNCHANGED output /\ MainExtract
           /\ main'.taken = main.taken \cup WindowsOf(held[main.next])
  <2>1. CASE AllFlushed
    <3>1. held[main.next] = {}
      BY <1>a, <1>b, <2>1 DEF MainOK
    <3>2. main'.taken = main.taken
      BY <1>2, <3>1 DEF WindowsOf
    <3>. QED  BY <1>1, <1>2, <3>2
  <2>2. CASE ~AllFlushed
    <3>1. DOMAIN output' = {} /\ LinesWritten' = {}
      BY <1>2, <1>f, <2>2 DEF LinesWritten
    <3>2. WindowSet(main'.taken)
      BY DEF FlushInv
    <3>3. LinesWritten' \cup main'.taken = main'.taken
      BY <3>1
    <3>. QED  BY <3>1, <3>2, <3>3
  <2>. QED  BY <2>1, <2>2
<1>3. CASE ~crashed /\ (MainWrite \/ MainFails) /\ WriteSnapshot(main.taken)
           /\ main.taken # {}
  <2>1. PICK b \in Block :
          /\ DOMAIN output = 1..Len(output) /\ DOMAIN output' = 1..(Len(output) + 1)
          /\ Len(output) \in Nat
          /\ \A i \in 1..Len(output) : output'[i] = output[i]
          /\ output'[Len(output) + 1] = b
          /\ LinesIn(b) = Snapshot(main.taken) /\ GoodBlock(b)
          /\ \A w \in main.taken \ Snapshot(main.taken) : b.start < w.start
    BY <1>a, <1>3, WriteFacts
  <2>2. \A i \in 1..(Len(output) + 1) : i \in 1..Len(output) \/ i = Len(output) + 1
    BY SMTT(60), <2>1
  <2>3. /\ main'.taken \subseteq main.taken
        /\ main.taken \subseteq main'.taken \cup Snapshot(main.taken)
        /\ ~crashed' => main'.taken = main.taken \ Snapshot(main.taken)
    BY <1>3, <1>a DEF MainWrite, MainFails, SinkFails, MainOK, lifeVars
  <2>4. Snapshot(main.taken) \subseteq main.taken /\ Snapshot(main.taken) # {}
    BY <1>3, <1>a, SnapshotFacts
  <2>5. LinesWritten' = LinesWritten \cup Snapshot(main.taken)
    <3>1. ASSUME NEW w PROVE w \in LinesWritten' <=> w \in LinesWritten \cup Snapshot(main.taken)
      <4>1. w \in LinesWritten <=> \E i \in 1..Len(output) : w \in LinesIn(output[i])
        BY <2>1 DEF LinesWritten
      <4>2. w \in LinesWritten' <=> \E i \in 1..(Len(output) + 1) : w \in LinesIn(output'[i])
        BY <2>1 DEF LinesWritten
      <4>3. /\ 1..Len(output) \subseteq 1..(Len(output) + 1)
            /\ Len(output) + 1 \in 1..(Len(output) + 1)
        BY SMTT(60), <2>1
      <4>. QED  BY <2>1, <2>2, <4>1, <4>2, <4>3
    <3>. QED  BY <3>1
  <2>6. (LinesWritten \cup main.taken)' = LinesWritten \cup main.taken
    BY <2>3, <2>4, <2>5
  <2>7. \A i \in 1..Len(output) : output[i].start < b.start
    <3>1. PICK w \in Snapshot(main.taken) : w \in main.taken /\ w.start = b.start
      BY SMTT(60), <2>1, <2>4 DEF GoodBlock
    <3>. QED  BY <1>3, <1>c, <2>1, <3>1
  <2>8. ASSUME NEW i \in DOMAIN output', NEW j \in DOMAIN output', i < j
        PROVE  output'[i].start < output'[j].start
    <3>1. i \in 1..Len(output)
      BY SMTT(60), <2>1, <2>2, <2>8
    <3>. QED  BY <1>c, <2>1, <2>2, <2>7, <2>8, <3>1
  <2>9. ASSUME ~crashed', NEW i \in DOMAIN output', NEW w \in main'.taken
        PROVE  output'[i].start < w.start
    BY <1>3, <1>c, <2>1, <2>2, <2>3, <2>9
  <2>. QED  BY <1>c, <2>6, <2>8, <2>9
<1>4. CASE UNCHANGED output /\ MainWrite
  <2>1. WriteSnapshot(main.taken) /\ main.taken # {}
    BY <1>4 DEF MainWrite
  <2>2. /\ Len(output) \in Nat /\ DOMAIN output = 1..Len(output)
        /\ DOMAIN output' = 1..(Len(output) + 1)
    BY <1>a, <2>1, WriteFacts
  <2>3. Len(output) + 1 \in DOMAIN output' /\ Len(output) + 1 \notin DOMAIN output
    BY SMTT(60), <2>2
  <2>. QED  BY <1>4, <2>3
<1>. QED  BY <1>1, <1>2, <1>3, <1>4, <1>a, <1>d, MainTakenSteps, OutputSteps

(* One flush by one aggregator per shard writes the windows that a single  *)
(* aggregator would have, in order.                                        *)
LEMMA ShardsFromInv == ASSUME PipelineInv, OneFlushInv PROVE ShardCountInvisible
<1>. SUFFICES ASSUME Stopped, Started, passed = 0
              PROVE  /\ \A i, j \in DOMAIN output : i < j => output[i].start < output[j].start
                     /\ UNION {LinesIn(b) : b \in Range(output)} = WindowsOf(accepted \cap Trades)
  BY DEF ShardCountInvisible
<1>1. main.taken = {} /\ Conserved
  BY InvParts DEF Stopped, ThreadInv
<1>2. /\ WindowSet(LinesWritten)
      /\ \A i, j \in DOMAIN output : i < j => output[i].start < output[j].start
  <2>1. LinesWritten \cup main.taken = LinesWritten
    BY <1>1
  <2>2. WindowSet(LinesWritten \cup main.taken)
    BY DEF OneFlushInv
  <2>. QED  BY <2>1, <2>2 DEF OneFlushInv
<1>3. TradesOf(LinesWritten) = Written
  BY SMTT(60) DEF TradesOf, LinesWritten, Written
<1>4. Written = accepted \cap Trades
  <2>1. accepted \cap Trades \subseteq Written
    BY LosslessFromInv DEF LosslessStop
  <2>2. Written \subseteq accepted \cap Trades
    BY SMTT(60), <1>1, Places DEF Conserved, Spread
  <2>. QED  BY <2>1, <2>2
<1>5. UNION {LinesIn(b) : b \in Range(output)} = LinesWritten
  BY DEF LinesWritten, Range
<1>6. LinesWritten = WindowsOf(accepted \cap Trades)
  BY <1>2, <1>3, <1>4, WindowsRegrouped
<1>. QED  BY <1>2, <1>5, <1>6

----------------------------------------------------------------------------
(* Finished windows *)

(* The steps by which stop() comes to write, and the clock. *)
LEMMA FinishSteps ==
  ASSUME PipelineInv, [Next]_vars
  PROVE  /\ stops <= stops' /\ stops' \in Nat
         /\ main.pc \in {"extract", "write", "stopped"} =>
              main'.pc \in {"extract", "write", "stopped"} \/ stops' > 1
         /\ SteadyClock => clock <= clock'
         /\ clock' \in Nat
         /\ writer'.pc \in {"extract", "write"} =>
              \/ writer'.cutoff = WindowStart(clock) /\ clock' = clock
              \/ writer.pc \in {"extract", "write"} /\ writer'.cutoff = writer.cutoff
<1>. USE DEF vars, inVars, stageVars, flushVars, lifeVars, outVars
<1>a. clock \in Nat /\ stops \in Nat /\ WriterOK /\ MainOK /\ StopInv
  BY InvParts
<1>b. UNCHANGED clock \/ AdjustClock
  BY DEF Next, Submit, ParserStep, ParserPop, ParserPush, AggStep, AggPop, AggAdd,
         WriterStep, WriterTimeout, WriterWrite, WriterExtract, WriterReturn,
         WriterEnd, StartParser, StartStep, StartAgg, StartWriter, StopRequest,
         StopStep, ShutRaw, ShutShard, MainExtract, MainWrite, MainReturn,
         WriterFails, MainFails, SinkFails
<1>c. UNCHANGED stops \/ StopRequest
  BY DEF Next, Submit, ParserStep, ParserPop, ParserPush, AggStep, AggPop, AggAdd,
         WriterStep, WriterTimeout, WriterWrite, WriterExtract, WriterReturn,
         WriterEnd, StartParser, StartStep, StartAgg, StartWriter, AdjustClock,
         StopStep, ShutRaw, ShutShard, MainExtract, MainWrite, MainReturn,
         WriterFails, MainFails, SinkFails
<1>f. clock' \in Nat /\ (SteadyClock => clock <= clock')
  BY SMTT(60), <1>a, <1>b, PipelineAssumption DEF AdjustClock
<1>g. stops' \in Nat /\ stops <= stops'
  BY SMTT(60), <1>a, <1>c DEF StopRequest
<1>d. main.pc \in {"extract", "write", "stopped"} =>
        main'.pc \in {"extract", "write", "stopped"} \/ stops' > 1
  <2>1. CASE StopRequest
    <3>1. main.pc \in {"extract", "write", "stopped"} => stops > 0
      BY <1>a DEF StopInv
    <3>. QED  BY SMTT(60), <1>a, <2>1, <3>1 DEF StopRequest
  <2>2. CASE MainExtract
    BY SMTT(60), <1>a, <2>2, AdvanceFacts DEF MainExtract
  <2>3. CASE MainWrite \/ MainReturn
    BY <1>a, <2>3 DEF MainWrite, MainReturn, Goto, MainOK
  <2>4. CASE UNCHANGED main
    BY <2>4
  <2>5. CASE StartParser \/ StartAgg \/ StartWriter \/ ShutRaw \/ ShutShard
    BY SMTT(60), <2>5 DEF StartParser, StartAgg, StartWriter, ShutRaw, ShutShard
  <2>. QED
    BY ZenonT(60), <2>1, <2>2, <2>3, <2>4, <2>5
    DEF Next, Submit, ParserStep, ParserPop, ParserPush, AggStep, AggPop, AggAdd,
        WriterStep, WriterTimeout, WriterWrite, WriterExtract, WriterReturn,
        WriterEnd, StartStep, StopStep, AdjustClock, WriterFails, MainFails, SinkFails
<1>e. writer'.pc \in {"extract", "write"} =>
        \/ writer'.cutoff = WindowStart(clock) /\ clock' = clock
        \/ writer.pc \in {"extract", "write"} /\ writer'.cutoff = writer.cutoff
  <2>1. CASE UNCHANGED writer
    BY <2>1
  <2>2. CASE WriterTimeout
    BY <2>2 DEF WriterTimeout
  <2>3. CASE WriterExtract \/ WriterWrite \/ WriterReturn \/ WriterEnd \/ StartWriter
    BY <1>a, <2>3 DEF WriterExtract, WriterWrite, WriterReturn, WriterEnd,
                      StartWriter, WriterOK
  <2>. QED
    BY ZenonT(60), <2>1, <2>2, <2>3
    DEF Next, Submit, ParserStep, ParserPop, ParserPush, AggStep, AggPop, AggAdd,
        WriterStep, StartParser, StartStep, StartAgg, StopRequest, StopStep,
        ShutRaw, ShutShard, MainExtract, MainWrite, MainReturn, AdjustClock,
        WriterFails, MainFails, SinkFails
<1>. QED  BY <1>d, <1>e, <1>f, <1>g

(* A periodic flush writes only windows that ended before its cutoff. *)
LEMMA FinishKept ==
  ASSUME SetFacts, SteadyClock, PipelineInv, CutoffInv, FinishInv, [Next]_vars
  PROVE  FinishInv'
<1>a. /\ clock \in Nat /\ stops \in Nat /\ OutputOK /\ WindowMs \in Nat
      /\ WindowSet(writer.taken)
  BY InvParts, PipelineAssumption DEF FlushInv
<1>b. /\ stops <= stops' /\ stops' \in Nat /\ clock <= clock' /\ clock' \in Nat
      /\ main.pc \in {"extract", "write", "stopped"} =>
           main'.pc \in {"extract", "write", "stopped"} \/ stops' > 1
      /\ writer'.pc \in {"extract", "write"} =>
           \/ writer'.cutoff = WindowStart(clock) /\ clock' = clock
           \/ writer.pc \in {"extract", "write"} /\ writer'.cutoff = writer.cutoff
  BY FinishSteps
<1>1. ASSUME writer'.pc \in {"extract", "write"}
      PROVE  \E c \in 0..clock' : writer'.cutoff = WindowStart(c)
  <2>1. CASE writer'.cutoff = WindowStart(clock)
    <3>1. clock \in 0..clock'
      BY SMTT(60), <1>a, <1>b
    <3>. QED  BY <2>1, <3>1
  <2>2. CASE writer.pc \in {"extract", "write"} /\ writer'.cutoff = writer.cutoff
    <3>1. PICK c \in 0..clock : writer.cutoff = WindowStart(c)
      BY <2>2 DEF FinishInv
    <3>2. c \in 0..clock'
      BY SMTT(60), <1>a, <1>b
    <3>. QED  BY <2>2, <3>1, <3>2
  <2>. QED  BY <1>b, <1>1, <2>1, <2>2
<1>2. ASSUME main'.pc \notin {"extract", "write", "stopped"}, stops' < 2,
             NEW i \in DOMAIN output'
      PROVE  output'[i].start + WindowMs <= clock'
  <2>1. main.pc \notin {"extract", "write", "stopped"} /\ stops < 2
    BY SMTT(60), <1>a, <1>b, <1>2
  <2>2. \A j \in DOMAIN output : /\ output[j].start + WindowMs <= clock
                                 /\ output[j].start \in Nat
    <3>1. \A b \in Range(output) : b.start + WindowMs <= clock
      BY <2>1 DEF FinishInv, OnlyFinishedWindows
    <3>2. \A j \in DOMAIN output : output[j] \in Range(output)
      BY DEF Range
    <3>. QED  BY <1>a, <3>1, <3>2, OutputBlocks DEF Block
  <2>3. CASE UNCHANGED output
    <3>1. i \in DOMAIN output /\ output'[i] = output[i]
      BY <1>2, <2>3
    <3>. QED  BY SMTT(60), <1>a, <1>b, <2>2, <3>1
  <2>4. CASE writer.pc = "write" /\ WriteSnapshot(writer.taken) /\ writer.taken # {}
    <3>1. PICK b \in Block :
            /\ DOMAIN output = 1..Len(output) /\ DOMAIN output' = 1..(Len(output) + 1)
            /\ Len(output) \in Nat
            /\ \A j \in 1..Len(output) : output'[j] = output[j]
            /\ output'[Len(output) + 1] = b
            /\ LinesIn(b) = Snapshot(writer.taken) /\ GoodBlock(b)
      BY <1>a, <2>4, WriteFacts
    <3>2. i \in 1..Len(output) \/ i = Len(output) + 1
      BY SMTT(60), <3>1, <1>2
    <3>3. CASE i \in 1..Len(output)
      BY SMTT(60), <1>a, <1>b, <2>2, <3>1, <3>3
    <3>4. CASE i = Len(output) + 1
      <4>1. Snapshot(writer.taken) # {} /\ Snapshot(writer.taken) \subseteq writer.taken
        BY <1>a, <2>4, SnapshotFacts
      <4>2. PICK w \in writer.taken : w.start = b.start
        BY <3>1, <4>1 DEF GoodBlock
      <4>3. w.start < writer.cutoff
        BY <2>4 DEF CutoffInv
      <4>4. PICK c \in 0..clock : writer.cutoff = WindowStart(c)
        BY <2>4 DEF FinishInv
      <4>5. c \in Nat /\ c <= clock /\ WindowStart(c) <= c /\ WindowStart(c) \in Nat
        BY SMTT(60), <1>a, WindowOfFacts
      <4>6. PICK k \in Nat : w.start = WindowMs * k
        BY <1>a, StartMultiple
      <4>7. PICK l \in Nat : WindowStart(c) = WindowMs * l
        BY <4>5, WindowStartMultiple
      <4>8. WindowMs * k < WindowMs * l
        BY <4>3, <4>4, <4>6, <4>7
      <4>9. WindowMs * k + WindowMs <= WindowMs * l
        BY <1>a, <4>8, WindowsDoNotOverlap
      <4>10. w.start + WindowMs <= WindowStart(c)
        BY <4>6, <4>7, <4>9
      <4>11. w.start \in Nat
        BY <1>a DEF WindowSet, Window
      <4>12. output'[i].start = w.start
        BY <3>1, <3>4, <4>2
      <4>. QED  BY SMTT(60), <1>a, <1>b, <4>5, <4>10, <4>11, <4>12
    <3>. QED  BY <3>2, <3>3, <3>4
  <2>. QED  BY <2>1, <2>3, <2>4, OutputSteps
<1>3. OnlyFinishedWindows'
  BY SMTT(60), <1>2 DEF OnlyFinishedWindows, Range
<1>. QED  BY <1>1, <1>3 DEF FinishInv

----------------------------------------------------------------------------
(* The ledger *)

(* A message is accepted only by a queue that is not shut down. *)
LEMMA AcceptSteps ==
  ASSUME PipelineInv, [Next]_vars
  PROVE  \/ UNCHANGED accepted
         \/ /\ \E m \in Messages \ accepted : accepted' = accepted \cup {m}
            /\ ~raw.shutdown /\ UNCHANGED <<output, main, stops, parser>>
<1>. USE DEF vars, inVars, stageVars, flushVars, lifeVars, outVars
<1>1. ASSUME NEW m \in Messages, Submit(m)
      PROVE  \/ UNCHANGED accepted
             \/ /\ \E n \in Messages \ accepted : accepted' = accepted \cup {n}
                /\ ~raw.shutdown /\ UNCHANGED <<output, main, stops, parser>>
  <2>1. accepted \subseteq submitted
    BY InvParts DEF TypeOK
  <2>. QED  BY <1>1, <2>1 DEF Submit
<1>2. CASE UNCHANGED accepted
  BY SMTT(60), <1>2
<1>. QED
  BY ZenonT(60), <1>1, <1>2
  DEF Next, ParserStep, ParserPop, ParserPush, AggStep, AggPop, AggAdd,
      WriterStep, WriterTimeout, WriterWrite, WriterExtract, WriterReturn,
      WriterEnd, StartParser, StartStep, StartAgg, StartWriter, StopRequest,
      StopStep, ShutRaw, ShutShard, MainExtract, MainWrite, MainReturn,
      AdjustClock, WriterFails, MainFails, SinkFails

(* Only the return of the first stop() after start() closes the ledger.    *)
LEMMA CloseSteps ==
  ASSUME PipelineInv, [Next]_vars
  PROVE  \/ Closed' = Closed
         \/ ~Closed /\ Closed' /\ Stopped' /\ Started' /\ UNCHANGED <<accepted, output>>
<1>. USE DEF vars, inVars, stageVars, flushVars, lifeVars, outVars
<1>a. stops \in Nat /\ MainOK /\ ParserOK /\ StopInv /\ ThreadInv
  BY InvParts
<1>1. CASE UNCHANGED <<main, stops>> /\ (parser.pc = "none" <=> parser'.pc = "none")
  BY <1>1 DEF Closed, Started, Stopped
<1>2. CASE StartParser
  <2>1. stops = 0 /\ main'.pc = "startAggs"
    BY <1>a, <1>2 DEF StartParser, StopInv, Goto, MainOK
  <2>. QED  BY SMTT(60), <1>2, <2>1 DEF StartParser, Closed, Started, Stopped
<1>3. CASE StopRequest
  <2>1. main'.pc = "shutRaw"
    BY <1>a, <1>3 DEF StopRequest, Goto, MainOK
  <2>2. UNCHANGED parser /\ stops' = stops + 1
    BY <1>3 DEF StopRequest
  <2>3. (main.pc = "stopped" /\ stops > 0) \/ (main.pc # "stopped" /\ stops = 0)
    BY <1>a, <1>3 DEF StopRequest, StopInv
  <2>. QED  BY SMTT(60), <1>a, <2>1, <2>2, <2>3 DEF Closed, Started, Stopped
<1>4. CASE MainReturn
  <2>1. /\ main.pc = "write" /\ main'.pc = "stopped"
        /\ UNCHANGED <<parser, stops, accepted, output>>
    BY <1>a, <1>4 DEF MainReturn, Goto, MainOK
  <2>. QED  BY <2>1 DEF Closed, Started, Stopped
<1>5. CASE StartAgg \/ StartWriter \/ ShutRaw \/ ShutShard \/ MainExtract \/ MainWrite
  <2>1. main.pc # "stopped" /\ main'.pc # "stopped"
    BY SMTT(60), <1>a, <1>5, AdvanceFacts
    DEF StartAgg, StartWriter, ShutRaw, ShutShard, MainExtract, MainWrite, Goto, MainOK
  <2>2. UNCHANGED <<parser, stops>>
    BY <1>5 DEF StartAgg, StartWriter, ShutRaw, ShutShard, MainExtract, MainWrite
  <2>. QED  BY <2>1, <2>2 DEF Closed, Started, Stopped
<1>6. CASE ParserStep
  <2>1. UNCHANGED <<main, stops>> /\ parser.pc # "none" /\ parser'.pc # "none"
    BY SMTT(60), <1>a, <1>6 DEF ParserStep, ParserPop, ParserPush, ParserOK
  <2>. QED  BY <1>1, <2>1
<1>. QED
  BY ZenonT(60), <1>1, <1>2, <1>3, <1>4, <1>5, <1>6
  DEF Next, Submit, AggStep, AggPop, AggAdd, WriterStep, WriterTimeout,
      WriterWrite, WriterExtract, WriterReturn, WriterEnd, StartStep, StopStep,
      AdjustClock, WriterFails, MainFails, SinkFails

(* A block adds accepted trades that were in no block before. *)
LEMMA WriteSteps ==
  ASSUME SetFacts, PipelineInv, [Next]_vars
  PROVE  \/ Written' = Written /\ output' = output
         \/ /\ UNCHANGED accepted
            /\ \E X \in SUBSET Trades :
                 /\ X # {} /\ X \subseteq (accepted \cap Trades) \ Written
                 /\ Written' = Written \cup X
<1>. USE DEF vars, inVars, stageVars, flushVars, lifeVars, outVars
<1>a. /\ OutputOK /\ WindowSet(writer.taken) /\ WindowSet(main.taken)
      /\ Conserved /\ OnePlace
  BY InvParts DEF FlushInv
<1>1. ASSUME NEW W, WindowSet(W), W # {}, WriteSnapshot(W), ~crashed,
             TradesOf(W) = WriterHas \/ TradesOf(W) = MainHas
      PROVE  \E X \in SUBSET Trades :
                 /\ X # {} /\ X \subseteq (accepted \cap Trades) \ Written
                 /\ Written' = Written \cup X
  <2>1. PICK b \in Block : LinesIn(b) = Snapshot(W) /\ output' = Append(output, b)
    BY <1>1, BlockFacts DEF WriteSnapshot
  <2>2. Written' = Written \cup TradesOf(Snapshot(W))
    BY <1>a, <2>1, WrittenAppend DEF OutputOK, Block
  <2>3. Snapshot(W) # {} /\ Snapshot(W) \subseteq W
    BY <1>1, SnapshotFacts
  <2>4. TradesOf(Snapshot(W)) # {}
    BY SMTT(60), <1>1, <2>3 DEF TradesOf, WindowSet
  <2>5. TradesOf(Snapshot(W)) \subseteq TradesOf(W)
    BY <2>3 DEF TradesOf
  <2>6. TradesOf(W) \subseteq accepted \cap Trades
    BY SMTT(60), <1>a, <1>1, Places DEF Conserved, Spread
  <2>7. TradesOf(W) \cap Written = {}
    <3>1. Place[6] \cap Place[8] = {} /\ Place[7] \cap Place[8] = {}
      BY SMTT(60), <1>a, <1>1 DEF OnePlace, Apart
    <3>. QED  BY SMTT(60), <1>1, <3>1, Places
  <2>. QED  BY <2>2, <2>4, <2>5, <2>6, <2>7
<1>2. CASE UNCHANGED output
  BY <1>2 DEF Written
<1>3. CASE ~crashed /\ (WriterWrite \/ WriterFails) /\ WriteSnapshot(writer.taken)
           /\ writer.taken # {}
  <2>1. UNCHANGED accepted
    BY <1>3 DEF WriterWrite, WriterFails, SinkFails
  <2>. QED  BY <1>1, <1>3, <1>a, <2>1 DEF WriterHas
<1>4. CASE ~crashed /\ (MainWrite \/ MainFails) /\ WriteSnapshot(main.taken)
           /\ main.taken # {}
  <2>1. UNCHANGED accepted
    BY <1>4 DEF MainWrite, MainFails, SinkFails
  <2>. QED  BY <1>1, <1>4, <1>a, <2>1 DEF MainHas
<1>. QED  BY <1>2, <1>3, <1>4, OutputSteps

(* What is closed is complete: no flush finds a trade to write. *)
LEMMA ClosedWritesNothing ==
  ASSUME SetFacts, PipelineInv, ClosedInv, [Next]_vars, Closed PROVE output' = output
<1>1. CASE \E X \in SUBSET Trades : X # {} /\ X \subseteq (accepted \cap Trades) \ Written
  BY <1>1 DEF ClosedInv
<1>. QED  BY <1>1, WriteSteps

(* What is closed stays complete, and no step does what a ledger may not.  *)
LEMMA LedgerStep ==
  ASSUME SetFacts, PipelineInv, PipelineInv', ClosedInv, [Next]_vars
  PROVE  /\ ClosedInv'
         /\ \/ UNCHANGED <<accepted, Written, Closed>>
            \/ /\ ~Closed /\ UNCHANGED <<Written, Closed>>
               /\ \E m \in Messages \ accepted : accepted' = accepted \cup {m}
            \/ /\ ~Closed /\ UNCHANGED <<accepted, Closed>>
               /\ \E X \in SUBSET Trades :
                    /\ X # {} /\ X \subseteq (accepted \cap Trades) \ Written
                    /\ Written' = Written \cup X
            \/ /\ ~Closed /\ Closed' /\ UNCHANGED <<accepted, Written>>
               /\ accepted \cap Trades \subseteq Written
<1>1. CASE ~Closed /\ Closed' /\ Stopped' /\ Started' /\ UNCHANGED <<accepted, output>>
  <2>1. Written' = Written
    BY <1>1 DEF Written
  <2>2. LosslessStop'
    BY LosslessFromInv, PTL
  <2>3. (accepted \cap Trades)' \subseteq Written'
    BY <1>1, <2>2 DEF LosslessStop
  <2>. QED  BY <1>1, <2>1, <2>3 DEF ClosedInv
<1>2. CASE Closed' = Closed
  <2>1. CASE UNCHANGED <<accepted, Written>>
    BY <1>2, <2>1 DEF ClosedInv
  <2>2. CASE /\ \E m \in Messages \ accepted : accepted' = accepted \cup {m}
             /\ ~raw.shutdown /\ UNCHANGED <<output, main, stops, parser>>
    <3>1. ~Closed
      BY <2>2, InvParts DEF Closed, Stopped, StopInv
    <3>2. Written' = Written
      BY <2>2 DEF Written
    <3>. QED  BY <1>2, <2>2, <3>1, <3>2 DEF ClosedInv
  <2>3. CASE /\ UNCHANGED accepted
             /\ \E X \in SUBSET Trades :
                  /\ X # {} /\ X \subseteq (accepted \cap Trades) \ Written
                  /\ Written' = Written \cup X
    <3>1. ~Closed
      BY <2>3 DEF ClosedInv
    <3>. QED  BY <1>2, <2>3, <3>1 DEF ClosedInv
  <2>. QED  BY <2>1, <2>2, <2>3, AcceptSteps, WriteSteps
<1>. QED  BY <1>1, <1>2, CloseSteps

(* No trade is accepted, written or closed when the constructor returns.   *)
LEMMA LedgerInit == ASSUME Init PROVE Ledger!Init
<1>1. accepted = {} /\ Written = {} /\ ~Started
  BY SMTT(60) DEF Init, Written, Started
<1>. QED  BY <1>1 DEF Ledger!Init

(* Every step of the pipeline is a step of the ledger or leaves it alone.  *)
LEMMA LedgerNext ==
  ASSUME SetFacts, PipelineInv, PipelineInv', ClosedInv, [Next]_vars
  PROVE  [Ledger!Next]_<<accepted, Written, Started /\ (Stopped \/ stops > 1)>>
<1>1. CASE UNCHANGED <<accepted, Written, Closed>>
  BY <1>1, LedgerStep DEF Closed
<1>2. CASE /\ ~Closed /\ UNCHANGED <<Written, Closed>>
           /\ \E m \in Messages \ accepted : accepted' = accepted \cup {m}
  <2>1. \E m \in Messages : Ledger!Accept(m)
    BY <1>2 DEF Ledger!Accept, Closed
  <2>. QED  BY <2>1, LedgerStep DEF Ledger!Next
<1>3. CASE /\ ~Closed /\ UNCHANGED <<accepted, Closed>>
           /\ \E X \in SUBSET Trades :
                /\ X # {} /\ X \subseteq (accepted \cap Trades) \ Written
                /\ Written' = Written \cup X
  <2>1. \E X \in SUBSET Trades : Ledger!WriteBatch(X)
    BY <1>3 DEF Ledger!WriteBatch, Closed
  <2>. QED  BY <2>1, LedgerStep DEF Ledger!Next
<1>4. CASE /\ ~Closed /\ Closed' /\ UNCHANGED <<accepted, Written>>
           /\ accepted \cap Trades \subseteq Written
  <2>1. Ledger!Close
    BY <1>4 DEF Ledger!Close, Closed
  <2>. QED  BY <2>1, LedgerStep DEF Ledger!Next
<1>. QED  BY <1>1, <1>2, <1>3, <1>4, LedgerStep

----------------------------------------------------------------------------
(* All of it *)

(* What holds of the output beside PipelineInv; FinishInv is about hosts   *)
(* whose clock only moves forward.                                         *)
OutputInv ==
  /\ BlockInv /\ PassedInv /\ CutoffInv /\ LateInv /\ OrderInv
  /\ OneFlushInv /\ ClosedInv
  /\ SteadyClock => FinishInv

(* Nothing is in the file when the constructor returns. *)
LEMMA OutputInit == ASSUME Init PROVE OutputInv
<1>1. BlockInv /\ PassedInv /\ CutoffInv /\ LateInv /\ OrderInv
  <2>1. \A s \in Shards : held[s] = {}
    BY DEF Init
  <2>. QED
    BY SMTT(60), <2>1 DEF Init, BlockInv, PassedInv, CutoffInv, LateInv, OrderInv
<1>2. OneFlushInv
  <2>1. LinesWritten \cup main.taken = {}
    BY SMTT(60) DEF Init, LinesWritten
  <2>2. WindowSet({})
    BY FiniteEmpty DEF WindowSet
  <2>3. WindowSet(LinesWritten \cup main.taken)
    BY <2>1, <2>2
  <2>. QED  BY SMTT(60), <2>3 DEF Init, OneFlushInv
<1>3. ClosedInv
  BY DEF Init, ClosedInv, Closed, Started
<1>4. FinishInv
  BY SMTT(60) DEF Init, FinishInv, OnlyFinishedWindows, Range
<1>. QED  BY SMTT(60), <1>1, <1>2, <1>3, <1>4 DEF OutputInv

(* Every step of every thread keeps it. *)
LEMMA OutputKept ==
  ASSUME SetFacts, PipelineInv, PipelineInv', OutputInv, [Next]_vars PROVE OutputInv'
<1>1. BlockInv' /\ PassedInv' /\ CutoffInv' /\ LateInv' /\ OrderInv'
  BY BlockKept, PassedKept, CutoffKept, LateKept, OrderKept DEF OutputInv
<1>2. OneFlushInv'
  <2>1. FlushInv'
    BY DEF PipelineInv
  <2>. QED  BY <2>1, OneFlushKept DEF OutputInv
<1>3. ClosedInv'
  BY LedgerStep DEF OutputInv
<1>4. SteadyClock => FinishInv'
  BY FinishKept DEF OutputInv
<1>. QED  BY <1>1, <1>2, <1>3, <1>4 DEF OutputInv
=============================================================================
