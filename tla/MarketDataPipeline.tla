------------------------- MODULE MarketDataPipeline -------------------------
(***************************************************************************)
(* MarketDataPipeline (runtime/MarketDataPipeline.cpp): the parser thread, *)
(* one aggregation thread per shard, the writer thread, and the thread     *)
(* that calls start() and stop() ("main"), connected by BoundedQueues at   *)
(* the level of AtomicQueue.                                               *)
(*                                                                         *)
(* A message is a token, submitted at most once.  Parsing turns those in   *)
(* Trades into a trade and drops the others.  A WindowStats is represented *)
(* by its symbol, its window and the set of trades it summarises; module   *)
(* MarketDataAggregator shows that the numbers in it are that summary.     *)
(* Symbols are numbers, so that < stands for the order of std::string.     *)
(***************************************************************************)
EXTENDS QueueOps, FiniteSetsExt

CONSTANTS
  Messages,           \* raw messages
  Trades,             \* those BinanceTradeParser::parse accepts
  Symbols,            \* symbols, as numbers in the order of the strings
  SymbolOf,           \* symbol of each trade
  TimeOf,             \* trade_time_ms of each trade
  HashOf,             \* std::hash of each symbol
  WindowMs,           \* window_ms_
  Second,             \* milliseconds in a second, the unit of timestamp=
  QueueCapacity,      \* queue_capacity
  AggregatorThreads,  \* aggregator_threads
  SteadyClock,        \* the system clock is never set back or forward
  SinkMayFail,        \* sink_.write may throw
  MaxClock,           \* bound: wall clock values
  MaxStops            \* bound: calls of stop(), the destructor's included

ASSUME PipelineAssumption ==
  /\ Trades \subseteq Messages /\ IsFiniteSet(Messages)
  /\ Symbols \subseteq Nat
  /\ SymbolOf \in [Trades -> Symbols]
  /\ TimeOf \in [Trades -> Nat]
  /\ HashOf \in [Symbols -> Nat]
  /\ WindowMs \in Nat \ {0} /\ Second \in Nat \ {0}
  /\ QueueCapacity \in Nat \ {0}
  /\ AggregatorThreads \in Nat
  /\ SteadyClock \in BOOLEAN
  /\ SinkMayFail \in BOOLEAN
  /\ MaxClock \in Nat
  /\ MaxStops \in Nat

VARIABLES
  raw,        \* raw_queue_
  shardQ,     \* shards_[s].queue
  parser,     \* parser thread: position, and the trade in hand (as a set)
  agg,        \* aggregation thread of each shard: position, trade in hand
  held,       \* shards_[s].aggregator: trades summarised in its windows_
  writer,     \* writer thread: position, loop index, cutoff, windows taken
  main,       \* main thread: position, loop index, windows taken
  stopRequested, \* stop_requested_
  clock,      \* std::chrono::system_clock
  output,     \* what the sink holds: a sequence of blocks
  crashed,    \* the process died of an exception
  accepted,   \* history: messages submit_raw_message returned true for
  submitted,  \* history: messages submit_raw_message was called with
  stops,      \* history: calls of stop()
  passed,     \* history: the largest cutoff a periodic flush has read
  late        \* history: trades aggregated after a cutoff beyond their window

inVars    == <<raw, accepted, submitted>>
stageVars == <<shardQ, parser, agg, held, late>>
flushVars == <<writer, passed>>
lifeVars  == <<main, stopRequested, stops>>
outVars   == <<output, crashed>>

vars == <<inVars, stageVars, flushVars, lifeVars, clock, outVars>>

ShardCount == Max({AggregatorThreads, 1})
ShardCapacity == Max({QueueCapacity \div ShardCount, 1})
Shards == 1..ShardCount

(* shard_index_for_symbol, counted from 1. *)
ShardOf(symbol) == (HashOf[symbol] % ShardCount) + 1

WindowStart(time) == time - (time % WindowMs)
WindowOf(t) == WindowStart(TimeOf[t])

(* A WindowStats, and the trades it summarises. *)
Window == [symbol : Symbols, start : Nat, trades : SUBSET Trades]

Init ==
  /\ raw = NewQueue(QueueCapacity)
  /\ shardQ = [s \in Shards |-> NewQueue(ShardCapacity)]
  /\ parser = [pc |-> "none", hold |-> {}]
  /\ agg = [s \in Shards |-> [pc |-> "none", hold |-> {}]]
  /\ held = [s \in Shards |-> {}]
  /\ writer = [pc |-> "none", next |-> 1, cutoff |-> 0, taken |-> {}]
  /\ main = [pc |-> "new", next |-> 1, taken |-> {}]
  /\ stopRequested = FALSE
  /\ clock \in 0..MaxClock
  /\ output = <<>>
  /\ crashed = FALSE
  /\ accepted = {}
  /\ submitted = {}
  /\ stops = 0
  /\ passed = 0
  /\ late = {}

----------------------------------------------------------------------------
(* submit_raw_message, called by any thread at any time *)

Submit(m) ==
  /\ m \notin submitted
  /\ PushReturns(raw)
  /\ raw' = Push(raw, m)
  /\ submitted' = submitted \cup {m}
  /\ accepted' = IF raw.shutdown THEN accepted ELSE accepted \cup {m}
  /\ UNCHANGED <<stageVars, flushVars, lifeVars, clock, outVars>>

----------------------------------------------------------------------------
(* run_parser_stage *)

ParserPop ==
  /\ parser.pc = "pop"
  /\ PopReturns(raw)
  /\ raw' = Pop(raw)
  /\ parser' =
       IF Drained(raw) THEN [pc |-> "done", hold |-> {}]
       ELSE IF Oldest(raw) \in Trades
            THEN [pc |-> "push", hold |-> {Oldest(raw)}]
            ELSE parser
  /\ UNCHANGED <<accepted, submitted, shardQ, agg, held, late, flushVars,
                 lifeVars, clock, outVars>>

(* The result of push() is ignored: a trade pushed into a queue that was   *)
(* shut down would be gone.                                                *)
ParserPush ==
  /\ parser.pc = "push"
  /\ \E t \in parser.hold :
       LET s == ShardOf(SymbolOf[t]) IN
       /\ PushReturns(shardQ[s])
       /\ shardQ' = [shardQ EXCEPT ![s] = Push(@, t)]
  /\ parser' = [pc |-> "pop", hold |-> {}]
  /\ UNCHANGED <<inVars, agg, held, late, flushVars, lifeVars, clock, outVars>>

----------------------------------------------------------------------------
(* run_aggregation_stage *)

AggPop(s) ==
  /\ agg[s].pc = "pop"
  /\ PopReturns(shardQ[s])
  /\ shardQ' = [shardQ EXCEPT ![s] = Pop(@)]
  /\ agg' = [agg EXCEPT ![s] =
               IF Drained(shardQ[s]) THEN [pc |-> "done", hold |-> {}]
               ELSE [pc |-> "add", hold |-> {Oldest(shardQ[s])}]]
  /\ UNCHANGED <<inVars, parser, held, late, flushVars, lifeVars, clock, outVars>>

(* add_trade, under the shard's mutex. *)
AggAdd(s) ==
  /\ agg[s].pc = "add"
  /\ held' = [held EXCEPT ![s] = @ \cup agg[s].hold]
  /\ agg' = [agg EXCEPT ![s] = [pc |-> "pop", hold |-> {}]]
  /\ late' = late \cup {t \in agg[s].hold : WindowOf(t) < passed}
  /\ UNCHANGED <<inVars, shardQ, parser, flushVars, lifeVars, clock, outVars>>

----------------------------------------------------------------------------
(* Windows and blocks *)

(* The WindowStats an aggregator has for a set of trades: one per symbol   *)
(* and window start.                                                       *)
WindowsOf(trades) ==
  {[symbol |-> SymbolOf[t], start |-> WindowOf(t),
    trades |-> {u \in trades : SymbolOf[u] = SymbolOf[t]
                               /\ WindowOf(u) = WindowOf(t)}] : t \in trades}

(* Mutants: the current window is taken too; windows are taken one late.   *)
CompletedOrCurrent(trades, cutoff) == {t \in trades : WindowOf(t) <= cutoff}
CompletedBefore(trades, cutoff) ==
  {t \in trades : WindowOf(t) + WindowMs < cutoff}

(* What extract_completed_windows takes. *)
CompletedTrades(trades, cutoff) == {t \in trades : WindowOf(t) < cutoff}

(* Mutant: the sort is missing. *)
AnyOrder(windows) == Bijection(1..Cardinality(windows), windows)

(* std::sort by symbol: an ordering of the windows that is sorted. *)
SortedBySymbol(windows) ==
  {q \in Bijection(1..Cardinality(windows), windows) :
     \A i, j \in 1..Cardinality(windows) :
       i < j => q[i].symbol <= q[j].symbol}

(* Mutant: the map is in descending order. *)
LastStart(windows) == Max({w.start : w \in windows})

(* snapshots_by_window is a std::map: the smallest start comes first. *)
FirstStart(windows) == Min({w.start : w \in windows})
Snapshot(windows) == {w \in windows : w.start = FirstStart(windows)}

(* StatsSerializer: a timestamp in whole seconds, and a line per window.   *)
(* The start of the block's window is kept as a history.                   *)
Serialize(start, lines) ==
  [timestamp |-> start \div Second, start |-> start, lines |-> lines]

(* One round of the loop in write_windows: the first snapshot, serialized  *)
(* and given to the sink as one block.                                     *)
WriteSnapshot(windows) ==
  \E lines \in SortedBySymbol(Snapshot(windows)) :
    output' = Append(output, Serialize(FirstStart(windows), lines))

----------------------------------------------------------------------------
(* run_writer_stage and flush_completed_windows *)

(* wait_for times out: flush_completed_windows reads the clock. *)
WriterTimeout ==
  /\ writer.pc = "wait"
  /\ ~stopRequested
  /\ writer' = [pc |-> "extract", next |-> 1, cutoff |-> WindowStart(clock),
                taken |-> {}]
  /\ passed' = Max({passed, WindowStart(clock)})
  /\ UNCHANGED <<inVars, stageVars, lifeVars, clock, outVars>>

(* extract_completed_windows of one shard, under its mutex. *)
WriterExtract ==
  /\ writer.pc = "extract"
  /\ LET s == writer.next
         gone == CompletedTrades(held[s], writer.cutoff)
     IN  /\ held' = [held EXCEPT ![s] = @ \ gone]
         /\ writer' = [writer EXCEPT
              !.taken = @ \cup WindowsOf(gone),
              !.next = IF s = ShardCount THEN 1 ELSE s + 1,
              !.pc = IF s = ShardCount THEN "write" ELSE "extract"]
  /\ UNCHANGED <<inVars, shardQ, parser, agg, late, passed, lifeVars, clock,
                 outVars>>

(* Mutant: the snapshot written is not consumed. *)
WriterWriteKeeps ==
  /\ writer.pc = "write"
  /\ writer.taken # {}
  /\ WriteSnapshot(writer.taken)
  /\ UNCHANGED <<inVars, stageVars, flushVars, lifeVars, clock, crashed>>

WriterWrite ==
  /\ writer.pc = "write"
  /\ writer.taken # {}
  /\ WriteSnapshot(writer.taken)
  /\ writer' = [writer EXCEPT !.taken = @ \ Snapshot(@)]
  /\ UNCHANGED <<inVars, stageVars, passed, lifeVars, clock, crashed>>

WriterReturn ==
  /\ writer.pc = "write"
  /\ writer.taken = {}
  /\ writer' = [writer EXCEPT !.pc = "wait"]
  /\ UNCHANGED <<inVars, stageVars, passed, lifeVars, clock, outVars>>

(* The predicate of wait_for holds: the loop ends without a flush. *)
WriterEnd ==
  /\ writer.pc = "wait"
  /\ stopRequested
  /\ writer' = [writer EXCEPT !.pc = "done"]
  /\ UNCHANGED <<inVars, stageVars, passed, lifeVars, clock, outVars>>

----------------------------------------------------------------------------
(* start() *)

(* Mutant: the loops leave out the last of several shards. *)
AdvanceSkipsLast(label) ==
  IF main.next + 1 >= ShardCount THEN [main EXCEPT !.pc = label, !.next = 1]
  ELSE [main EXCEPT !.next = @ + 1]

(* The next round of a loop over the shards, or the step after the loop. *)
Advance(label) ==
  IF main.next = ShardCount THEN [main EXCEPT !.pc = label, !.next = 1]
  ELSE [main EXCEPT !.next = @ + 1]

Goto(label) == main' = [main EXCEPT !.pc = label]

StartParser ==
  /\ main.pc = "new"
  /\ parser' = [parser EXCEPT !.pc = "pop"]
  /\ Goto("startAggs")
  /\ UNCHANGED <<inVars, shardQ, agg, held, late, flushVars, stopRequested,
                 stops, clock, outVars>>

StartAgg ==
  /\ main.pc = "startAggs"
  /\ agg' = [agg EXCEPT ![main.next] = [pc |-> "pop", hold |-> {}]]
  /\ main' = Advance("startWriter")
  /\ UNCHANGED <<inVars, shardQ, parser, held, late, flushVars, stopRequested,
                 stops, clock, outVars>>

StartWriter ==
  /\ main.pc = "startWriter"
  /\ writer' = [writer EXCEPT !.pc = "wait"]
  /\ Goto("running")
  /\ UNCHANGED <<inVars, stageVars, passed, stopRequested, stops, clock, outVars>>

----------------------------------------------------------------------------
(* stop(): by a caller, without start(), and again by the destructor *)

StopRequest ==
  /\ main.pc \in {"new", "running", "stopped"}
  /\ stops < MaxStops
  /\ stops' = stops + 1
  /\ stopRequested' = TRUE
  /\ Goto("shutRaw")
  /\ UNCHANGED <<inVars, stageVars, flushVars, clock, outVars>>

(* Mutant: join() without the test for joinable(). *)
JoinedUnchecked(pc) == pc = "done"

(* join() of a thread that was started; one that was not, or that was      *)
(* joined before, is not joinable.  A finished thread stays finished, so   *)
(* the wait is the guard of the step that follows it.                      *)
Joined(pc) == pc \in {"none", "done"}

(* Mutant: the writer is not joined first. *)
ShutRawEarly ==
  /\ main.pc = "shutRaw"
  /\ raw' = Shutdown(raw)
  /\ Goto("shutShards")
  /\ UNCHANGED <<accepted, submitted, stageVars, flushVars, stopRequested,
                 stops, clock, outVars>>

ShutRaw ==
  /\ main.pc = "shutRaw"
  /\ Joined(writer.pc)
  /\ raw' = Shutdown(raw)
  /\ Goto("shutShards")
  /\ UNCHANGED <<accepted, submitted, stageVars, flushVars, stopRequested,
                 stops, clock, outVars>>

(* Mutant: the shard queues are shut down before the parser is joined. *)
ShutShardEarly ==
  /\ main.pc = "shutShards"
  /\ shardQ' = [shardQ EXCEPT ![main.next] = Shutdown(@)]
  /\ main' = Advance("extract")
  /\ UNCHANGED <<inVars, parser, agg, held, late, flushVars, stopRequested,
                 stops, clock, outVars>>

ShutShard ==
  /\ main.pc = "shutShards"
  /\ Joined(parser.pc)
  /\ shardQ' = [shardQ EXCEPT ![main.next] = Shutdown(@)]
  /\ main' = Advance("extract")
  /\ UNCHANGED <<inVars, parser, agg, held, late, flushVars, stopRequested,
                 stops, clock, outVars>>

(* Mutant: extract_all_windows leaves the windows in place. *)
MainExtractCopies ==
  /\ main.pc = "extract"
  /\ \A s \in Shards : Joined(agg[s].pc)
  /\ main' = [Advance("write") EXCEPT
                !.taken = @ \cup WindowsOf(held[main.next])]
  /\ UNCHANGED <<inVars, stageVars, flushVars, stopRequested, stops, clock, outVars>>

(* flush_remaining_windows, with every aggregation thread joined:          *)
(* extract_all_windows of one shard, under its mutex, then write_windows.  *)
MainExtract ==
  /\ main.pc = "extract"
  /\ \A s \in Shards : Joined(agg[s].pc)
  /\ held' = [held EXCEPT ![main.next] = {}]
  /\ main' = [Advance("write") EXCEPT
                !.taken = @ \cup WindowsOf(held[main.next])]
  /\ UNCHANGED <<inVars, shardQ, parser, agg, late, flushVars, stopRequested,
                 stops, clock, outVars>>

MainWrite ==
  /\ main.pc = "write"
  /\ main.taken # {}
  /\ WriteSnapshot(main.taken)
  /\ main' = [main EXCEPT !.taken = @ \ Snapshot(@)]
  /\ UNCHANGED <<inVars, stageVars, flushVars, stopRequested, stops, clock, crashed>>

MainReturn ==
  /\ main.pc = "write"
  /\ main.taken = {}
  /\ Goto("stopped")
  /\ UNCHANGED <<inVars, stageVars, flushVars, stopRequested, stops, clock, outVars>>

----------------------------------------------------------------------------
(* The environment *)

AdjustClock ==
  /\ \E c \in 0..MaxClock :
       /\ SteadyClock => c = clock + 1
       /\ clock' = c
  /\ UNCHANGED <<inVars, stageVars, flushVars, lifeVars, outVars>>

(* sink_.write throws, with the block in the file or not.  Nothing catches *)
(* the exception, on the writer thread or out of stop().                   *)
SinkFails(windows) ==
  /\ SinkMayFail
  /\ windows # {}
  /\ WriteSnapshot(windows) \/ UNCHANGED output
  /\ crashed' = TRUE
  /\ UNCHANGED <<inVars, stageVars, flushVars, lifeVars, clock>>

WriterFails == writer.pc = "write" /\ SinkFails(writer.taken)
MainFails   == main.pc = "write" /\ SinkFails(main.taken)

ParserStep == ParserPop \/ ParserPush
AggStep(s) == AggPop(s) \/ AggAdd(s)
WriterStep == \/ WriterTimeout \/ WriterExtract \/ WriterWrite
              \/ WriterReturn \/ WriterEnd
StartStep  == StartAgg \/ StartWriter
StopStep   == \/ ShutRaw \/ ShutShard \/ MainExtract
              \/ MainWrite \/ MainReturn

Next ==
  /\ ~crashed
  /\ \/ \E m \in Messages : Submit(m)
     \/ ParserStep
     \/ \E s \in Shards : AggStep(s)
     \/ WriterStep
     \/ StartParser \/ StartStep
     \/ StopRequest \/ StopStep
     \/ AdjustClock
     \/ WriterFails \/ MainFails

Spec == Init /\ [][Next]_vars

(* Started threads keep running, queue calls return when the queue lets    *)
(* them (AtomicQueue), and wait_for times out; start() and stop(), once    *)
(* called, run to their end.  Nobody has to submit a message or call       *)
(* stop().                                                                 *)
Fairness ==
  /\ WF_vars(~crashed /\ ParserStep)
  /\ \A s \in Shards : WF_vars(~crashed /\ AggStep(s))
  /\ WF_vars(~crashed /\ WriterStep)
  /\ WF_vars(~crashed /\ StartStep)
  /\ WF_vars(~crashed /\ StopStep)
  /\ WF_vars(~crashed /\ AdjustClock)

FairSpec == Spec /\ Fairness

----------------------------------------------------------------------------
(* Where a trade can be *)

TradesOf(windows) == UNION {w.trades : w \in windows}
LinesIn(block) == {block.lines[i] : i \in DOMAIN block.lines}
Written == UNION {TradesOf(LinesIn(output[i])) : i \in DOMAIN output}

Queued  == Range(raw.items) \cup UNION {Range(shardQ[s].items) : s \in Shards}
InHand  == parser.hold \cup UNION {agg[s].hold : s \in Shards}
Held    == UNION {held[s] : s \in Shards}
Taken   == TradesOf(writer.taken) \cup TradesOf(main.taken)

Started == parser.pc # "none"
Stopped == main.pc = "stopped"

(* Properties *)

(* Types; the queues stay within the capacities the constructor computes,  *)
(* so memory is bounded however fast messages come.                        *)
TypeOK ==
  /\ raw \in QueueOf(Messages, {QueueCapacity})
  /\ shardQ \in [Shards -> QueueOf(Trades, {ShardCapacity})]
  /\ Len(raw.items) <= QueueCapacity
  /\ \A s \in Shards : Len(shardQ[s].items) <= ShardCapacity
  /\ parser \in [pc : {"none", "pop", "push", "done"}, hold : SUBSET Trades]
  /\ agg \in [Shards -> [pc : {"none", "pop", "add", "done"},
                         hold : SUBSET Trades]]
  /\ held \in [Shards -> SUBSET Trades]
  /\ writer \in [pc : {"none", "wait", "extract", "write", "done"},
                 next : Shards, cutoff : Nat, taken : SUBSET Window]
  /\ main \in [pc : {"new", "startAggs", "startWriter", "running", "shutRaw",
                     "shutShards", "extract", "write", "stopped"},
               next : Shards, taken : SUBSET Window]
  /\ output \in Seq([timestamp : Nat, start : Nat, lines : Seq(Window)])
  /\ accepted \subseteq submitted /\ submitted \subseteq Messages
  /\ late \subseteq Trades
  /\ clock \in Nat /\ passed \in Nat /\ stops \in Nat
  /\ stopRequested \in BOOLEAN /\ crashed \in BOOLEAN

(* Every accepted trade is queued, in the hands of a stage, held by an     *)
(* aggregator, taken by a flush or written: no interleaving of the stages  *)
(* with stop() lets one slip away, though both push() results are ignored. *)
NoTradeLost ==
  accepted \cap Trades \subseteq Queued \cup InHand \cup Held \cup Taken \cup Written

(* stop() after start() returns with every accepted trade written.         *)
LosslessStop ==
  Stopped /\ Started => accepted \cap Trades \subseteq Written

(* No trade is counted in two lines of the output, nor in a line and in a  *)
(* stage it could still be written from.                                   *)
WrittenOnce ==
  /\ \A i, j \in DOMAIN output :
       \A v \in LinesIn(output[i]), w \in LinesIn(output[j]) :
         v.trades \cap w.trades # {} => i = j /\ v = w
  /\ Written \cap (Queued \cup InHand \cup Held) = {}
  /\ ~crashed => Written \cap Taken = {}

(* The writer thread and stop() never write at the same time, which        *)
(* format_iso8601_utc relies on for the static buffer of std::gmtime.      *)
SingleWriter ==
  ~(writer.pc \in {"extract", "write"} /\ main.pc \in {"extract", "write"})

(* A block lists each symbol once, in order, with at least one trade, and  *)
(* only trades of that symbol and of the block's window: no symbol is ever *)
(* spread over two shards.  Its timestamp is the start of the window, if   *)
(* windows are whole seconds.                                              *)
BlocksWellFormed ==
  \A b \in Range(output) :
    /\ WindowMs % Second = 0 => b.timestamp * Second = b.start
    /\ b.lines # <<>>
    /\ \A i, j \in DOMAIN b.lines : i < j => b.lines[i].symbol < b.lines[j].symbol
    /\ \A w \in LinesIn(b) :
         /\ w.trades # {}
         /\ \A t \in w.trades : SymbolOf[t] = w.symbol /\ WindowOf(t) = b.start

(* The file goes back in time, or repeats a window, only for late trades:  *)
(* those aggregated after a periodic flush had read a time beyond their    *)
(* window.  The same holds of what is still to come, and is lost when the  *)
(* sink throws: the file then ends early, but nothing that was aggregated  *)
(* in time is missing before its last block.                               *)
OnlyLateTradesOutOfOrder ==
  /\ \A i, j \in DOMAIN output :
       i < j /\ output[j].start <= output[i].start =>
         TradesOf(LinesIn(output[j])) \subseteq late
  /\ \A i \in DOMAIN output, t \in (Held \cup Taken) \ Written :
       WindowOf(t) <= output[i].start => t \in late

(* If only stop() wrote, the output is the one a single aggregator would   *)
(* give for the accepted trades, whatever the number of shards: blocks in  *)
(* the order of their windows, with one line per symbol.                   *)
ShardCountInvisible ==
  Stopped /\ Started /\ passed = 0 =>
    /\ \A i, j \in DOMAIN output : i < j => output[i].start < output[j].start
    /\ UNION {LinesIn(b) : b \in Range(output)} = WindowsOf(accepted \cap Trades)

(* Under a steady clock the output of periodic flushes has only windows    *)
(* that are over by the wall clock; stop() alone writes one that is not.   *)
OnlyFinishedWindows ==
  main.pc \notin {"extract", "write", "stopped"} /\ stops < 2 =>
    \A b \in Range(output) : b.start + WindowMs <= clock

(* stop() returns, whatever the other threads are doing, and however full  *)
(* the queues are: no join() waits for a thread that waits for another.    *)
StopCompletes == stopRequested ~> (Stopped \/ crashed)

(* Without any stop(), a started pipeline writes every accepted trade once *)
(* the wall clock has passed the end of its window.                        *)
FlushedEventually ==
  \A t \in {u \in Trades : WindowOf(u) < WindowStart(MaxClock)} :
    (t \in accepted /\ Started) ~> (t \in Written \/ crashed)

(* The ledger closes when a started pipeline has been stopped.             *)
Ledger == INSTANCE TradeLedger
  WITH written <- Written, closed <- Started /\ (Stopped \/ stops > 1)

(* To its callers the pipeline is a ledger of trades: whatever the threads *)
(* do, a block adds accepted trades nobody has written before, and stop()  *)
(* returns with all of them written and closes it for good.                *)
ImplementsLedger == Ledger!Spec
=============================================================================
