# Verification of the Binance aggregator

TLA+ models of the service under `src/app`, the TLC configurations that check
them on small instances, and TLAPS proofs, for every value of the constants, about
the queue, the pipeline, the network stage, their composition in `main()`, the
start of the process and the message parser. `PROJECT.json` maps every definition to the lines it models.

## 1. The system

| Part | State | Operations | Interacts with |
|---|---|---|---|
| `BoundedQueue<T>` | `items_`, `shutdown_`, sleepers of two condition variables | `push`, `pop`, `shutdown` | every pair of neighbouring threads |
| `MarketDataPipeline` | raw queue, one queue + aggregator + mutex per shard, `stop_requested_`, four kinds of threads | `start`, `stop`, `submit_raw_message`, the three stages, two flushes | queues, aggregators, sink, clock |
| `NetworkStage` | `stop_requested_`, `client_` | `start`, `stop`, `run` | client, policy, raw queue |
| `BinanceWebSocketClient` | `stop_requested_`, `ws_` | `run`, `stop` | the network, raw queue |
| `ReconnectPolicy` | `attempt_`, `stop_requested_` | `wait_for_next_attempt`, `stop`, `reset` | network thread, stopping thread |
| `MarketDataAggregator` | `windows_`, a map of maps | `add_trade`, `window_stats`, two extractions | one shard |
| `Decimal` | a scaled 64-bit integer | `parse`, `to_string`, `+`, `*` | parser, aggregator, serializer |
| `StatsSerializer`, `FileOutputSink` | the output file | `serialize`, `write` | writer thread, `stop` |
| `BinanceTradeParser` | none | `parse` | parser thread, `Decimal` |
| `ConfigLoader`, `CliOptions`, `ConnectionError` | none | `load_from_file`, `parse_cli_options`, `classify_error` | `main`, client |
| `main` | `g_stop_requested` | wiring, signal handler, ordered stop | all |

The network thread reads messages and pushes them into the raw queue. The
parser thread turns them into trades and pushes each into the queue of its
symbol's shard. One aggregation thread per shard adds them to windows. The
writer thread wakes on a timer, takes the finished windows of every shard and
writes one block per window. A signal makes `main` stop the network stage, then
the pipeline, which drains its queues in order and writes what is left.

What is hard here, and where the work went: wakeups of the queue under
`notify_one` and shutdown; the order in which `stop()` joins and drains;
flushing shard by shard while trades arrive; clocks that jump and trades that
are late; `stop()` against a connection at every stage of its life; the order in
which `main` stops and destroys the stages; messages and config files with any
field missing or of another type; machine words in delays, volumes and decimal
texts. The hazards are listed with their
lines in `PROJECT.json`.

## 2. The modules

### BoundedQueue

- `QueueOps`: the queue as a value, with the predicates and effects of the
  critical sections.
- `BoundedQueue`: threads, mutex and condition variables. A critical section is
  a step. Falling asleep is part of the critical section that found the
  predicate false; `notify_one`, `notify_all` are steps of their own after the
  mutex is released; any sleeper may wake spuriously. `accepted` and
  `delivered` are histories.
- `AtomicQueue`: what callers may rely on, calls that take effect in one step.
  The pipeline model uses queues at this level.

The modules ending in `Proofs` hold the theorems (section 4).

### MarketDataPipeline

`MarketDataPipeline` has one action per step of a thread between two
synchronisation points: a queue call, a critical section of a shard mutex, one
block written. `main` stands for the thread that calls `start()` and `stop()`;
its position is `main.pc`, and a `join()` is the guard of the step after it,
because a finished thread stays finished. A `WindowStats` is represented by its
symbol, start and set of trades; `MarketDataAggregator` shows that the numbers
are the summary of that set. Serialization keeps the timestamp in seconds and
the order of the lines. The environment submits messages at any time, moves the
clock (freely, or one tick at a time if `SteadyClock`) and may make the sink
throw, which ends the process.

- `TradeLedger`: what the pipeline promises, without threads: accepted trades are
  written once, and `stop()` closes the ledger when all are.
- `TimelyDelivery`: the pipeline with the delivery the documentation calls
  normal: a steady clock and a bounded delay.

### NetworkStage and ConnectionError

`NetworkStage` models the network thread through `NetworkStage::run` and
`BinanceWebSocketClient::run` together, with every blocking call a step that
succeeds or fails, against `stop()` step by step: own flag, policy, client flag,
stream, join. Closing a socket that is not open has no effect. Closing one while
a handshake or a read is blocked does not wake that call (`"closing"`): it
succeeds or fails when the peer lets it return. Reads may also go on succeeding
from what was buffered before the close (`"buffered"`). The raw queue is a count.
A failure has an error code, of which `ConnectionError` keeps what
`classify_error` asks of it; `reports` holds the kinds given to the handler in
one `run()`.

### Service

`Service` is `main()` once the stages are constructed: `NetworkStage` and
`MarketDataPipeline` side by side, each step of one a step of its own module.
They share the raw queue: the network thread's push is also a
`submit_raw_message`, the parser's pop also takes from the network stage's
count. `hand` is the message between read and push, `sent` the history of what
was read. The position of `main()` is not a variable; it follows from the
positions of the two components (`StartPipeline` ... `DestroyPipeline`), whose
second `stop()` is the destructor's. `Signal` may come at any time.

### CliOptions, ConfigLoader, ReconnectPolicy, Startup

`Startup` is `main()` before that: the loop over the arguments (`CliOptions`),
the config file (`ConfigLoader`), the output file, and the constructors of the
stages. A parsing function of `ConfigLoader` is the set of what it returns,
empty if it throws, so that a `Config` is a record of such sets. Numbers have
the types the JSON library gives them: unsigned, negative, too large (a float)
or fractional; they are kept in tenths for `jitter_ratio`. `ReconnectPolicy`
then waits with the settings loaded: the delay doubled in an unsigned word,
converted to a signed one, jittered, and cast; a cast that does not fit is
undefined and gives either end of the word. `Worlds` are the command lines and
files a process may find; `IsFile` says what the JSON library can hand over.

### BinanceTradeParser

An object is the JSON type of each of its fields (absent, right, or other), at
the root and under `data`. `parse()` checks, reads the fields, then runs the
scan of `DecimalText` on the price and again on the quantity. A field read
without having its type is a crash: nothing catches it. A field's value is where
it was read, which is enough to tell whether the event mixes up two fields or
two objects.

### MarketDataAggregator, Decimal, DecimalText

`MarketDataAggregator` is the nested map with its operations; `held` is the
history of trades that ought to be in it. `Decimal` has the product (truncated,
cast to the word) and the sum (undefined beyond the word: any result).
`DecimalText` is `Decimal::parse` as a scan with one action per character or
decision, and `to_string`, with digits and scale as constants.

## 3. What is checked

| Run | Instance | Shows |
|---|---|---|
| Queue | 2 producers, 2 consumers, 1 closer, 2 slots, pushes begin until 3 items are accepted | `TypeOK`, `Fifo`, `EndMeansDrained`, `NoLostWakeup`, `ShutdownIsFinal`; `EveryItemDelivered`; `ImplementsAtomicQueue`, fairness included |
| PipelineSafety | 2 shards with 1 slot, 4 trades of 2 symbols in 2 windows, 1 other message, jumping clock, failing sink, 2 calls of `stop()` | `NoTradeLost`, `LosslessStop`, `WrittenOnce`, `SingleWriter`, `BlocksWellFormed`, `OnlyLateTradesOutOfOrder`: but for late trades the blocks are in the order of their windows and nothing before the last one is missing, also where a failing sink cuts the file off, the output does not depend on sharding (`ShardCountInvisible`) |
| PipelineLiveness | 2 shards, 2 trades in 2 windows, steady clock | `OnlyFinishedWindows`, `stop()` returns (`StopCompletes`), trades are written without it (`FlushedEventually`), refinement of `TradeLedger` (`ImplementsLedger`) |
| Service | 1 shard, queues of 1, 2 trades, failing connections and sink, a signal at any time, both destructors | `NothingReadIsRefused`: no message is pushed into a queue that is shut down; `CleanExit`, `DestructorsWriteNothing`: when `main()` returns everything read is in the file, all threads have ended and the second stops had nothing to do; `SignalEndsProcess`, unless the stop was lost (StopHangs) or a silent peer keeps a handshake or read from returning (section 5); `ReadTradesWritten`: the file catches up with the sockets; `OneReportPerRun`: one report, whose kind tells how far the connection got; `FreshBackoffAfterMessage`, `Reconnects` of the network thread |
| Startup | all command lines of up to 3 of 4 words, 2 files; a file for each way one field can be wrong and for all combinations in `reconnect`; words of 5 bits, 9 attempts | `LastPathWins`; `BrokenConfigRefused`: the stages get only settings they can work with; `FileDecides`: and they get those of the file; `DelayFollowsFormula`: the documented formula, for any number of attempts, while the delay itself fits the signed word of a duration (section 5) |
| Aggregator | 3 trades, 2 symbols, 2 windows, a word of 5 bits | `WindowsSumUpTrades`, `ExtractionExact`: exactly the right trades are summed up; `VolumeTruncatedPerTrade`: volume within one unit of the last place per trade |
| TradeParser | all 2916 kinds of objects, bare and under `data`; all prices of up to 6 characters, quantities of up to 3; 2 binary fractional digits | `TradesRecognised`: no message ends the parser thread, and exactly the trades become events, with their own fields; `NumbersExact`: parsing ends, with exactly the numbers the texts denote, when those fit the word; `RoundTrip`: `to_string` prints them back |

Runs that end in a violation, each a sentence of the documentation the code does
not keep:

| Run | The sentence | What happens |
|---|---|---|
| StopHangs | `NetworkStage.hpp:40` "Stops the current connection attempt or backoff wait and joins the network thread" | `stop()` before the client exists, before `run()` clears its flag, or before the socket is open is lost; `join()` waits while the connection lives |
| StopWaitsBackoff | `ReconnectPolicy.hpp:15` "so a reconnect loop can stop promptly" | `reset()` clears a concurrent `stop()`, and the delay is waited out |
| StopReported | `BinanceWebSocketClient.hpp:28` "Not called when stop() causes a clean, requested shutdown" | a read that fails because `stop()` has closed the stream is reported |
| BackoffReset | `README.md:197` "Resets once a connection successfully reads at least one message" | a failed first read resets it too |
| SplitWindow | `README.md:186` "a window is never written while it could still receive more trades under normal message delay" | a window is flushed right after its end: a trade submitted in time but after the flush, or still queued at it, makes a second block |

**Bounds.** Two producers and two consumers are the fewest for which
`notify_one` has to choose and can choose wrong; the proofs cover any number.
Two shards with one slot each make the parser block and shards be flushed at
different times; two trades in one window make a window split, two windows make
a flush of two blocks, two calls of `stop()` are the caller's and the
destructor's. In `Service` two messages and a queue of one let the network
thread block in `push()` while the queue is full; both trades are in the first
window, so one tick of the clock ends it; the sharding is left to the pipeline
runs. `MaxAttempts` saturates, as the delay does. The words of `Startup`,
`Aggregator` and `TradeParser` are small enough to overflow. One field at a time
is wrong in a config file because each is parsed by itself, except the reconnect
settings, which are combined freely. `CHECK_DEADLOCK FALSE` is set where the system may stop: after a
shutdown, at the end of a scan, when nobody pushes.

**Fairness.** Weak fairness of each thread inside a call or a loop: threads are
scheduled and a mutex is granted eventually. Nobody has to submit, push or stop,
and sleepers need not wake spuriously. Timers fire. `Service` assumes nothing of
a TLS or WebSocket handshake or a read that is blocked on the peer, whether the
stream is still open or `stop()` has closed it meanwhile: these calls have no
timeout in the code, and closing does not wake them (`Silent`). A call that begins
on a closed stream returns. StopHangs assumes more, so that its counterexample is
not a call that simply hangs: every blocking call of the network thread returns
eventually, with an answer, a frame of the server or an error, and what is
buffered runs out, but nothing forces an error on an open connection. In `PipelineLiveness` and `Service` the clock reaches the end
of the windows.

## 4. What is proved

Safety, for every value of the constants that satisfies the named assumptions.
Each theorem `Spec => []P` rests on an inductive invariant; TLC checked that
invariant on the instance of the run before it was proved.

**`BoundedQueueProofs`**, for any finite sets of producers and consumers, any
closers, any nonempty set of values and any capacity above zero
(`QueueAssumption`; a queue of capacity zero blocks every `push()`, and the
program never makes one):

| Theorem | Statement | Argument |
|---|---|---|
| `TypeCorrect` | `Spec => []TypeOK` | inductive as it stands |
| `FifoDelivery` | `Spec => []Fifo` | `Fifo /\ EndMeansDrained` is inductive with `TypeOK`: push appends to the end of `delivered \o items`, pop moves an item across the seam |
| `EndAfterDrain` | `Spec => []EndMeansDrained` | the same invariant |
| `WakeupsNeverLost` | `Spec => []NoLostWakeup` | `NoLostWakeup` is not inductive: with two items and two sleepers one notification satisfies it, and after that consumer has taken one item nobody answers for the other. `WakeupInv` counts: while someone sleeps, pending notifications and awake threads are at least as many as items (or free slots), and after a shutdown someone sleeps only while a `notify_all` is pending |
| `ShutdownForever` | `Spec => ShutdownIsFinal` | from `TypeOK` |
| `AtomicRefinement` | `Spec => Atomic!SafeSpec` | each critical section is a step of `AtomicQueue`, everything else stutters |

**The pipeline**, for any finite set of messages, symbols, hash function, window
size, capacity, number of shards, clock and number of `stop()` calls
(`PipelineAssumption`). The theorems are at the end of
`MarketDataPipelineProofs`:

| Theorem | Statement |
|---|---|
| `TypeCorrect` | `Spec => []TypeOK` |
| `WritersExclude` | `Spec => []SingleWriter` |
| `TradesConserved` | `Spec => []NoTradeLost` |
| `StopIsLossless` | `Spec => []LosslessStop` |
| `NothingWrittenTwice` | `Spec => []WrittenOnce` |
| `BlocksCorrect` | `Spec => []BlocksWellFormed` |
| `FileOrdered` | `Spec => []OnlyLateTradesOutOfOrder` |
| `ShardsInvisible` | `Spec => []ShardCountInvisible` |
| `FlushesFinished` | `SteadyClock` gives `Spec => []OnlyFinishedWindows`: false when the clock may be set back |
| `PipelineIsLedger` | `Spec => ImplementsLedger`, the refinement of `TradeLedger` |
| `ClosedForGood` | `Spec => [][Closed => output' = output]_vars`: a second `stop()` writes nothing |

None of the properties is inductive. `PipelineInv` (`PipelineStageProofs`) says
where the threads can be for each position of `stop()` (`ThreadInv`), that a
queue is shut down only when its producers have been joined and a thread ends
only when its queue is drained (`StopInv`), that a trade is only in the shard of
its symbol (`RouteInv`), that a flush has each window once (`FlushInv`), and that
the accepted trades are spread over eight places without overlap (`Conserved`,
`OnePlace`). `MarketDataPipelineProofs` shows that every step moves trades from
one place to another. `OutputInv` (`PipelineOutputProofs`) follows the blocks:
what is still to be written of windows up to one in the file is late (`PassedInv`,
`CutoffInv`, `LateInv`), so that a block out of order has late trades only
(`OrderInv`), and while only `stop()` flushes, the file is a prefix of
one sorted flush (`OneFlushInv`). The facts on finite sets that the steps need
are gathered in `SetFacts`, a hypothesis of the lemmas, and discharged once.

**`NetworkStageProofs`**, for any capacity, number of attempts and of `stop()`
calls (`NetworkAssumption`): `NetworkTypeCorrect`; `ReportsTellStage` and
`BackoffStartsFresh` (`OneReportPerRun`, `FreshBackoffAfterMessage`), from
`ConnectionInv`, which ties the state of client and stream to the position of the
network thread; and `StopStaysSeen`, that a `stop()` the network thread can see
is not undone.

**`ServiceProofs`**, with the constants of both components
(`PipelineConstants`, `FeedAssumption`):

| Theorem | Statement |
|---|---|
| `ServiceIsNetwork`, `ServiceIsPipeline` | the steps of the process are steps of `NetworkStage` and of `MarketDataPipeline`, so their theorems hold in the process |
| `ServiceTypeCorrect` | `ServiceSpec => []ServiceTypeOK` |
| `NothingRefused` | `ServiceSpec => []NothingReadIsRefused` |
| `ExitIsClean` | `ServiceSpec => []CleanExit` |
| `DestructorsSilent` | `ServiceSpec => DestructorsWriteNothing` |

`ServiceInv` adds what only the composition knows: the order of the calls of
`main()` (`CallOrder`), that the network thread has ended once the first `stop()`
has joined it (`NetworkLife`), and that it has a message in hand exactly while it
pushes (`HandInv`). With the theorems of the pipeline, instantiated, that gives
the rest.

**`StartupProofs`**, for command lines of any length and any set of files whose
values are as the JSON library makes them (`LoaderAssumption`, `CliAssumption`,
`WorldsAssumption`): `PathChosen` (`LastPathWins`), `ConfigChecked`
(`BrokenConfigRefused`), `FileObeyed` (`FileDecides`). The reference for the
command line chooses the set of arguments that are values of a `--config`;
`LoopInv` says that the loop has found that set for the arguments it has passed,
that no other set is possible, and which option was the last. `SettingsInv` ties
the settings to the file, and lemmas about each parsing function
(`NumberLoaded`, `ReconnectLoaded`, `SymbolsLoaded`, `StreamsLoaded`) say what
they let through.

**`BinanceTradeParserProofs`**, for texts of any length over any digits and any
number of fractional digits (`TextAssumption`, `InputsAssumption`):
`RecognisesTrades` (`TradesRecognised`) and `ScanStaysInside`. `ScanInv` says what
the scan has read at each of its positions: digits, a dot with digits before it,
or a fraction of at most `kScale` digits. `NumberForm` turns the reference, which
counts dots, into the same terms. So `Decimal::parse` accepts exactly the decimal
numbers; which number it computes is only model-checked.

A leaf of a proof is tried with Zenon by default, which copes better with the
many definitions in scope; those that need arithmetic or sequences cite `SMTT`.

**Only model-checked**, and why:

- all liveness (`EveryItemDelivered`, `StopCompletes`, `FlushedEventually`,
  `SignalEndsProcess`, `ReadTradesWritten`, `Reconnects`) and the fairness half of
  `ImplementsAtomicQueue`: fairness is beyond the prover. The safety
  half of it is `AtomicRefinement`;
- `DelayFollowsFormula`, `NumbersExact`, `RoundTrip`, and the types of
  `DecimalText`: what doubling in a loop, a sum of digits or a power amounts to
  needs induction over data, which the prover cannot do; `NumbersExact` also uses
  `ENABLED`;
- `WindowsSumUpTrades`, `ExtractionExact`, `VolumeTruncatedPerTrade` and the types of
  `MarketDataAggregator`: the windows are compared with a filter and a sum of the
  history, again an induction over data;
- the five runs that end in a violation: their properties are false.

## 5. Not modelled, or left out of the properties

Timestamps are whole seconds: `BlocksWellFormed` says a timestamp is the start of
its window for windows of whole seconds, and the blocks of shorter windows
(`window_ms` may be any positive number) can share one.

A stop during a blocked call: `BinanceWebSocketClient.hpp:65` says that `stop()`
causes a blocked `run()` to return, but `cancel()` and `close()` do not wake a
synchronous handshake or read, and with a peer that stays silent `stop()` waits in
`join()`. The model has these behaviours; no run is about them, and
`SignalEndsProcess` leaves them out.

Delays beyond a duration: `ReconnectPolicy.hpp:22` gives the formula of the delay
without condition. With backoffs above 2^63 - 1 milliseconds, which
`ConfigLoader` lets through, the code departs from it. The model has the outcomes
(a negative delay, an undefined cast), and `DelayFollowsFormula` leaves them out.

The wording of the output lines, the punctuation of the stream target, and
logging. Memory corruption by the concurrent use of the socket in
`BinanceWebSocketClient::stop()` is beyond the model, and so is what the standard
library does with a delay too long for its clock.

A killed process and its restart: the output file, opened to append, is all that
survives, nothing is read back from it, and a new process begins like the first.
What a crash loses is what `MarketDataPipeline` leaves unwritten when `crashed`.
A failure to create a thread, to allocate memory or to set up the TLS context
(`set_default_verify_paths()` throws only when OpenSSL runs out of memory) is not
modelled either.
