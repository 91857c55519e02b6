----------------------- MODULE PipelineStageProofs ------------------------
(***************************************************************************)
(* The inductive invariant of MarketDataPipeline, what its operators       *)
(* return, the proof that every step keeps the types, the threads in the   *)
(* order in which stop() ends them, the routing of trades to shards and    *)
(* the windows of a flush, and what the invariant says when stop() has     *)
(* returned.                                                               *)
(***************************************************************************)
EXTENDS MarketDataPipeline, TLAPS

USE ZenonT(30)

----------------------------------------------------------------------------
(* Sets and sequences *)

(* What the proofs need of finite sets and of numbers: a set of numbers    *)
(* has a least one, and finite sets have a size, finite subsets, unions    *)
(* and images.  The proofs take it as a hypothesis, and the module         *)
(* MarketDataPipelineProofs discharges it, from the library's theorems.    *)
SetFacts ==
  /\ \A S \in SUBSET Nat : S # {} => \E x \in S : \A y \in S : x <= y
  /\ \A S : IsFiniteSet(S) => Cardinality(S) \in Nat /\ (Cardinality(S) = 0 <=> S = {})
  /\ \A S : IsFiniteSet(S) => \A T \in SUBSET S : IsFiniteSet(T)
  /\ \A S, T : IsFiniteSet(S) /\ IsFiniteSet(T) => IsFiniteSet(S \cup T)
  /\ \A S, T : IsFiniteSet(S) => \A f \in Surjection(S, T) : IsFiniteSet(T)

(* A sequence is a function on 1..Len. *)
LEMMA SeqLen ==
  ASSUME NEW S, NEW s \in Seq(S)
  PROVE  /\ Len(s) \in Nat /\ s \in [1..Len(s) -> S] /\ DOMAIN s = 1..Len(s)
         /\ s # <<>> => Len(s) # 0
BY SMTT(60)

(* And a function on 1..n is a sequence. *)
LEMMA SeqOf ==
  ASSUME NEW S, NEW n \in Nat, NEW f \in [1..n -> S] PROVE f \in Seq(S) /\ Len(f) = n
BY SMTT(60)

(* The empty sequence. *)
LEMMA SeqEmpty == ASSUME NEW S PROVE <<>> \in Seq(S) /\ Len(<<>>) = 0
BY SMTT(60)

(* What push_back does to the items of a queue. *)
LEMMA SeqAppend ==
  ASSUME NEW S, NEW s \in Seq(S), NEW x \in S
  PROVE  /\ Append(s, x) \in Seq(S) /\ Len(Append(s, x)) = Len(s) + 1
         /\ \A i \in 1..Len(s) : Append(s, x)[i] = s[i]
         /\ Append(s, x)[Len(s) + 1] = x
BY SMTT(60)

(* What pop_front leaves of them. *)
LEMMA SeqTail ==
  ASSUME NEW S, NEW s \in Seq(S), s # <<>>
  PROVE  /\ Head(s) \in S /\ Head(s) = s[1]
         /\ Tail(s) \in Seq(S) /\ Len(Tail(s)) = Len(s) - 1
         /\ \A i \in 1..Len(Tail(s)) : Tail(s)[i] = s[i + 1]
BY SMTT(60)

(* Nothing is finitely many. *)
LEMMA FiniteEmpty == IsFiniteSet({})
BY SeqEmpty DEF IsFiniteSet

----------------------------------------------------------------------------
(* The operators of the model *)

(* The larger of two numbers, as std::max has it. *)
LEMMA MaxOfTwo ==
  ASSUME NEW a \in Nat, NEW b \in Nat
  PROVE  Max({a, b}) \in {a, b} /\ Max({a, b}) >= a /\ Max({a, b}) >= b
<1>1. \E x \in {a, b} : \A y \in {a, b} : x >= y
  <2>1. CASE a >= b
    BY SMTT(60), <2>1
  <2>2. CASE b >= a
    BY SMTT(60), <2>2
  <2>. QED  BY SMTT(60), <2>1, <2>2
<1>. QED  BY <1>1 DEF Max

(* A set of numbers that is not empty has a smallest element, and Min is   *)
(* it: what begin() of a std::map relies on.                               *)
LEMMA MinOfNats ==
  ASSUME SetFacts, NEW S \in SUBSET Nat, S # {}
  PROVE  Min(S) \in S /\ \A y \in S : Min(S) <= y
<1>1. \E x \in S : \A y \in S : x <= y
  BY DEF SetFacts
<1>. QED  BY <1>1 DEF Min

(* The constructor's arithmetic: there is a shard, every shard queue has   *)
(* room, and every symbol has its shard.                                   *)
LEMMA ShardFacts ==
  /\ ShardCount \in Nat \ {0} /\ Shards = 1..ShardCount /\ 1 \in Shards
  /\ ShardCapacity \in Nat \ {0}
  /\ \A symbol \in Symbols : ShardOf(symbol) \in Shards
<1>1. ShardCount \in Nat \ {0}
  BY SMTT(60), MaxOfTwo, PipelineAssumption DEF ShardCount
<1>2. QueueCapacity \div ShardCount \in Nat
  BY SMTT(60), <1>1, PipelineAssumption
<1>3. ShardCapacity \in Nat \ {0}
  BY SMTT(60), <1>2, MaxOfTwo DEF ShardCapacity
<1>4. ASSUME NEW symbol \in Symbols PROVE ShardOf(symbol) \in Shards
  BY SMTT(60), <1>1, PipelineAssumption DEF ShardOf, Shards
<1>5. 1 \in Shards
  BY SMTT(60), <1>1 DEF Shards
<1>. QED  BY <1>1, <1>3, <1>4, <1>5 DEF Shards

(* The items of a sequence after Append, and that they stay distinct.      *)
LEMMA RangeAppend ==
  ASSUME NEW S, NEW s \in Seq(S), NEW x \in S
  PROVE  /\ Range(Append(s, x)) = Range(s) \cup {x}
         /\ IsInjective(s) /\ x \notin Range(s) => IsInjective(Append(s, x))
<1>1. /\ DOMAIN s = 1..Len(s) /\ Len(s) \in Nat
      /\ DOMAIN Append(s, x) = 1..(Len(s) + 1)
      /\ \A i \in 1..Len(s) : Append(s, x)[i] = s[i]
      /\ Append(s, x)[Len(s) + 1] = x
  BY SMTT(60), SeqAppend, SeqLen
<1>2. \A i \in 1..(Len(s) + 1) : i \in 1..Len(s) \/ i = Len(s) + 1
  BY SMTT(60), <1>1
<1>. QED  BY SMTT(60), <1>1, <1>2 DEF Range, IsInjective

(* The items of a sequence are its head and those of its tail. *)
LEMMA RangeTail ==
  ASSUME NEW S, NEW s \in Seq(S), s # <<>>
  PROVE  /\ Range(s) = Range(Tail(s)) \cup {Head(s)}
         /\ IsInjective(s) => IsInjective(Tail(s)) /\ Head(s) \notin Range(Tail(s))
<1>1. /\ DOMAIN s = 1..Len(s) /\ Len(s) \in Nat \ {0}
      /\ DOMAIN Tail(s) = 1..(Len(s) - 1)
      /\ \A i \in 1..(Len(s) - 1) : Tail(s)[i] = s[i + 1]
      /\ Head(s) = s[1]
  BY SeqTail, SeqLen
<1>2. \A i \in 1..Len(s) : i = 1 \/ (i - 1 \in 1..(Len(s) - 1) /\ (i - 1) + 1 = i)
  BY SMTT(60), <1>1
<1>3. \A i \in 1..(Len(s) - 1) : i + 1 \in 1..Len(s) /\ i + 1 # 1
  BY SMTT(60), <1>1
<1>4. Range(s) = Range(Tail(s)) \cup {Head(s)}
  <2>1. Range(s) \subseteq Range(Tail(s)) \cup {Head(s)}
    <3>. SUFFICES ASSUME NEW i \in 1..Len(s), i # 1
                  PROVE  \E j \in DOMAIN Tail(s) : s[i] = Tail(s)[j]
      BY SMTT(60), <1>1 DEF Range
    <3>1. i - 1 \in 1..(Len(s) - 1) /\ (i - 1) + 1 = i
      BY <1>2
    <3>2. s[i] = Tail(s)[i - 1]
      BY <1>1, <3>1
    <3>. QED  BY <1>1, <3>1, <3>2
  <2>2. Range(Tail(s)) \cup {Head(s)} \subseteq Range(s)
    BY SMTT(60), <1>1, <1>3 DEF Range
  <2>. QED  BY <2>1, <2>2
<1>5. ASSUME IsInjective(s) PROVE IsInjective(Tail(s)) /\ Head(s) \notin Range(Tail(s))
  BY SMTT(60), <1>1, <1>3, <1>5 DEF Range, IsInjective
<1>. QED  BY <1>4, <1>5

(* push() that returns: the item is the last one, or the queue is shut     *)
(* down and stays as it is.  The capacity is respected.                    *)
LEMMA PushFacts ==
  ASSUME NEW S, NEW c \in Nat, NEW q \in QueueOf(S, {c}), Len(q.items) <= c,
         NEW x \in S, PushReturns(q)
  PROVE  /\ Push(q, x) \in QueueOf(S, {c})
         /\ Len(Push(q, x).items) <= c
         /\ Push(q, x).shutdown = q.shutdown
         /\ ~q.shutdown => Push(q, x).items = Append(q.items, x)
         /\ q.shutdown => Push(q, x) = q
<1>1. q.items \in Seq(S) /\ q.capacity = c /\ q.shutdown \in BOOLEAN
  BY DEF QueueOf
<1>2. Append(q.items, x) \in Seq(S) /\ Len(Append(q.items, x)) = Len(q.items) + 1
      /\ Len(q.items) \in Nat
  BY SMTT(60), <1>1, SeqAppend, SeqLen
<1>3. CASE q.shutdown
  BY <1>3 DEF Push
<1>4. CASE ~q.shutdown
  <2>1. Push(q, x) = [q EXCEPT !.items = Append(q.items, x)]
    BY <1>4 DEF Push
  <2>2. Push(q, x).items = Append(q.items, x) /\ Push(q, x).capacity = c
        /\ Push(q, x).shutdown = q.shutdown
    BY <1>1, <2>1 DEF QueueOf
  <2>3. Push(q, x) \in QueueOf(S, {c})
    BY <1>1, <1>2, <2>1 DEF QueueOf
  <2>4. Len(q.items) < c
    BY <1>1, <1>4 DEF PushReturns
  <2>. QED  BY SMTT(60), <1>2, <1>4, <2>2, <2>3, <2>4
<1>. QED  BY <1>3, <1>4

(* A push into a queue that is not shut down appends. *)
LEMMA PushAppends ==
  ASSUME NEW S, NEW C, NEW q \in QueueOf(S, C), ~q.shutdown, NEW x
  PROVE  Push(q, x).items = Append(q.items, x)
BY DEF Push, QueueOf

(* pop() that returns: the oldest item is gone, or there was none.         *)
LEMMA PopFacts ==
  ASSUME NEW S, NEW c \in Nat, NEW q \in QueueOf(S, {c}), Len(q.items) <= c
  PROVE  /\ Pop(q) \in QueueOf(S, {c})
         /\ Len(Pop(q).items) <= c
         /\ Pop(q).shutdown = q.shutdown
         /\ q.items # <<>> => /\ Pop(q).items = Tail(q.items)
                              /\ Oldest(q) = Head(q.items)
                              /\ Oldest(q) \in S
         /\ q.items = <<>> => Pop(q) = q
<1>1. q.items \in Seq(S) /\ q.capacity = c /\ q.shutdown \in BOOLEAN
  BY DEF QueueOf
<1>2. CASE q.items = <<>>
  BY <1>2 DEF Pop
<1>3. CASE q.items # <<>>
  <2>1. Pop(q) = [q EXCEPT !.items = Tail(q.items)]
    BY <1>3 DEF Pop
  <2>2. /\ Tail(q.items) \in Seq(S) /\ Head(q.items) \in S
        /\ Len(Tail(q.items)) = Len(q.items) - 1 /\ Len(q.items) \in Nat
    BY <1>1, <1>3, SeqTail, SeqLen
  <2>3. Pop(q) \in QueueOf(S, {c}) /\ Pop(q).items = Tail(q.items) /\ Pop(q).shutdown = q.shutdown
    BY <1>1, <2>1, <2>2 DEF QueueOf
  <2>. QED  BY SMTT(60), <1>3, <2>2, <2>3 DEF Oldest
<1>. QED  BY <1>2, <1>3

(* shutdown() sets the flag and leaves the items alone.                    *)
LEMMA ShutdownFacts ==
  ASSUME NEW S, NEW c, NEW q \in QueueOf(S, {c})
  PROVE  /\ Shutdown(q) \in QueueOf(S, {c})
         /\ Shutdown(q).items = q.items
         /\ Shutdown(q).shutdown
BY DEF QueueOf, Shutdown

(* What the windows of a flush always are: finitely many, one per symbol   *)
(* and start, each with trades and only with trades of its symbol and      *)
(* start.                                                                  *)
WindowSet(W) ==
  /\ W \subseteq Window /\ IsFiniteSet(W)
  /\ \A w \in W : /\ w.trades # {}
                  /\ \A t \in w.trades : SymbolOf[t] = w.symbol /\ WindowOf(t) = w.start
  /\ \A v, w \in W : v.symbol = w.symbol /\ v.start = w.start => v = w

(* The start of a window is a number, not after the trade. *)
LEMMA WindowOfFacts ==
  /\ \A time \in Nat : WindowStart(time) \in Nat /\ WindowStart(time) <= time
  /\ \A t \in Trades : WindowOf(t) \in Nat /\ SymbolOf[t] \in Symbols
<1>1. ASSUME NEW time \in Nat
      PROVE  WindowStart(time) \in Nat /\ WindowStart(time) <= time
  <2>1. time % WindowMs \in Nat /\ time % WindowMs <= time
    BY SMTT(60), PipelineAssumption
  <2>. QED  BY SMTT(60), <2>1 DEF WindowStart
<1>2. \A t \in Trades : TimeOf[t] \in Nat /\ SymbolOf[t] \in Symbols
  BY PipelineAssumption
<1>. QED  BY <1>1, <1>2 DEF WindowOf

(* Grouping trades into windows loses none and invents none.               *)
LEMMA WindowsOfFacts ==
  ASSUME SetFacts, NEW X \in SUBSET Trades
  PROVE  /\ WindowSet(WindowsOf(X))
         /\ TradesOf(WindowsOf(X)) = X
         /\ \A w \in WindowsOf(X) : \E t \in X :
              w.symbol = SymbolOf[t] /\ w.start = WindowOf(t)
<1>. DEFINE win == [t \in X |-> [symbol |-> SymbolOf[t], start |-> WindowOf(t),
                                 trades |-> {u \in X : SymbolOf[u] = SymbolOf[t]
                                                       /\ WindowOf(u) = WindowOf(t)}]]
<1>1. \A t \in X : /\ win[t] \in Window
                   /\ win[t].symbol = SymbolOf[t] /\ win[t].start = WindowOf(t)
                   /\ win[t].trades = {u \in X : SymbolOf[u] = SymbolOf[t]
                                                 /\ WindowOf(u) = WindowOf(t)}
  BY WindowOfFacts DEF Window
<1>2. \A w : w \in WindowsOf(X) <=> \E t \in X : w = win[t]
  BY DEF WindowsOf
<1>. HIDE DEF win
<1>3. IsFiniteSet(WindowsOf(X))
  <2>1. win \in Surjection(X, WindowsOf(X))
    <3>1. win \in [X -> WindowsOf(X)]
      BY <1>2 DEF win
    <3>. QED  BY <1>2, <3>1 DEF Surjection
  <2>2. IsFiniteSet(X)
    BY PipelineAssumption DEF SetFacts
  <2>. QED  BY <2>1, <2>2 DEF SetFacts
<1>4. WindowsOf(X) \subseteq Window
  BY SMTT(60), <1>1, <1>2
<1>5. \A w \in WindowsOf(X) : /\ w.trades # {}
        /\ \A t \in w.trades : SymbolOf[t] = w.symbol /\ WindowOf(t) = w.start
  BY SMTT(60), <1>1, <1>2
<1>6. \A v, w \in WindowsOf(X) : v.symbol = w.symbol /\ v.start = w.start => v = w
  <2>. SUFFICES ASSUME NEW t \in X, NEW u \in X,
                       SymbolOf[t] = SymbolOf[u], WindowOf(t) = WindowOf(u)
                PROVE  win[t] = win[u]
    BY SMTT(60), <1>1, <1>2
  <2>. QED  BY DEF win
<1>7. TradesOf(WindowsOf(X)) = X
  <2>1. ASSUME NEW t \in X PROVE t \in TradesOf(WindowsOf(X))
    <3>1. t \in win[t].trades /\ win[t] \in WindowsOf(X)
      BY <1>1, <1>2
    <3>. QED  BY <3>1 DEF TradesOf
  <2>2. ASSUME NEW t \in TradesOf(WindowsOf(X)) PROVE t \in X
    <3>1. PICK w \in WindowsOf(X) : t \in w.trades
      BY DEF TradesOf
    <3>. QED  BY SMTT(60), <1>1, <1>2, <3>1
  <2>. QED  BY <2>1, <2>2
<1>. QED  BY SMTT(60), <1>1, <1>2, <1>3, <1>4, <1>5, <1>6, <1>7 DEF WindowSet

(* Windows of different symbols, taken from different shards, add up.      *)
LEMMA WindowSetUnion ==
  ASSUME SetFacts, NEW V, NEW W, WindowSet(V), WindowSet(W),
         \A v \in V, w \in W : v.symbol # w.symbol
  PROVE  WindowSet(V \cup W) /\ TradesOf(V \cup W) = TradesOf(V) \cup TradesOf(W)
<1>1. IsFiniteSet(V \cup W)
  BY DEF WindowSet, SetFacts
<1>2. WindowSet(V \cup W)
  BY <1>1 DEF WindowSet
<1>. QED  BY <1>2 DEF TradesOf

(* The first snapshot has a window; taking it takes exactly its trades.    *)
LEMMA SnapshotFacts ==
  ASSUME SetFacts, NEW W, WindowSet(W), W # {}
  PROVE  /\ FirstStart(W) \in Nat
         /\ Snapshot(W) \subseteq W /\ Snapshot(W) # {} /\ WindowSet(Snapshot(W))
         /\ WindowSet(W \ Snapshot(W))
         /\ TradesOf(W \ Snapshot(W)) = TradesOf(W) \ TradesOf(Snapshot(W))
         /\ TradesOf(Snapshot(W)) \subseteq TradesOf(W)
         /\ TradesOf(Snapshot(W)) # {}
         /\ TradesOf(W) \subseteq Trades
<1>1. \A w \in W : w.start \in Nat /\ w.trades \subseteq Trades
  BY DEF WindowSet, Window
<1>2. FirstStart(W) \in {w.start : w \in W}
  <2>1. {w.start : w \in W} \in SUBSET Nat /\ {w.start : w \in W} # {}
    BY <1>1
  <2>. QED  BY <2>1, MinOfNats DEF FirstStart
<1>3. FirstStart(W) \in Nat /\ Snapshot(W) # {} /\ Snapshot(W) \subseteq W
  BY <1>1, <1>2 DEF Snapshot
<1>4. IsFiniteSet(Snapshot(W)) /\ IsFiniteSet(W \ Snapshot(W))
  BY <1>3 DEF WindowSet, SetFacts
<1>5. WindowSet(Snapshot(W)) /\ WindowSet(W \ Snapshot(W))
  BY <1>3, <1>4 DEF WindowSet
<1>6. \A v, w \in W : v.trades \cap w.trades # {} => v = w
  BY SMTT(60) DEF WindowSet
<1>7. TradesOf(W \ Snapshot(W)) = TradesOf(W) \ TradesOf(Snapshot(W))
  BY SMTT(60), <1>3, <1>6 DEF TradesOf
<1>8. TradesOf(Snapshot(W)) # {}
  <2>1. PICK w \in Snapshot(W) : TRUE
    BY <1>3
  <2>2. w.trades # {}
    BY <1>3 DEF WindowSet
  <2>. QED  BY <2>2 DEF TradesOf
<1>9. TradesOf(Snapshot(W)) \subseteq TradesOf(W) /\ TradesOf(W) \subseteq Trades
  BY <1>1, <1>3 DEF TradesOf
<1>. QED  BY <1>3, <1>5, <1>7, <1>8, <1>9

Block == [timestamp : Nat, start : Nat, lines : Seq(Window)]

(* One round of write_windows appends one block, whose lines are the       *)
(* windows of the first snapshot, one per symbol and in their order.       *)
LEMMA BlockFacts ==
  ASSUME SetFacts, NEW W, WindowSet(W), W # {},
         NEW lines \in SortedBySymbol(Snapshot(W))
  PROVE  LET block == Serialize(FirstStart(W), lines)
         IN  /\ block \in Block
             /\ LinesIn(block) = Snapshot(W)
             /\ block.start = FirstStart(W)
             /\ block.timestamp = FirstStart(W) \div Second
             /\ block.lines = lines /\ lines # <<>>
             /\ \A i, j \in DOMAIN lines : i < j => lines[i].symbol < lines[j].symbol
<1>. DEFINE S == Snapshot(W)
            n == Cardinality(S)
            block == Serialize(FirstStart(W), lines)
<1>1. /\ FirstStart(W) \in Nat /\ S # {} /\ WindowSet(S) /\ S \subseteq W
  BY SnapshotFacts
<1>2. n \in Nat /\ n # 0
  BY <1>1 DEF WindowSet, SetFacts
<1>3. /\ lines \in [1..n -> S] /\ DOMAIN lines = 1..n
      /\ \A i, j \in 1..n : lines[i] = lines[j] => i = j
      /\ \A w \in S : \E i \in 1..n : lines[i] = w
      /\ \A i, j \in 1..n : i < j => lines[i].symbol <= lines[j].symbol
  BY DEF SortedBySymbol, Bijection, Injection, Surjection, IsInjective
<1>4. lines \in Seq(Window) /\ lines # <<>>
  <2>1. lines \in [1..n -> Window]
    BY <1>1, <1>3 DEF WindowSet
  <2>2. lines \in Seq(Window)
    BY <1>2, <2>1, SeqOf
  <2>3. Len(lines) = n
    BY <1>2, <2>1, SeqOf
  <2>4. Len(<<>>) = 0
    OBVIOUS
  <2>. QED  BY <1>2, <2>2, <2>3, <2>4
<1>5. FirstStart(W) \div Second \in Nat
  BY SMTT(60), <1>1, PipelineAssumption
<1>6. /\ block \in Block /\ block.lines = lines /\ block.start = FirstStart(W)
      /\ block.timestamp = FirstStart(W) \div Second
  BY <1>1, <1>4, <1>5 DEF Serialize, Block
<1>7. LinesIn(block) = S
  BY SMTT(60), <1>3, <1>6 DEF LinesIn
<1>8. ASSUME NEW i \in 1..n, NEW j \in 1..n, i < j
      PROVE  lines[i].symbol < lines[j].symbol
  <2>1. lines[i] \in S /\ lines[j] \in S /\ lines[i] # lines[j]
    BY SMTT(60), <1>3, <1>8
  <2>2. lines[i].symbol # lines[j].symbol
    BY SMTT(60), <1>1, <2>1 DEF WindowSet, Snapshot
  <2>3. lines[i].symbol \in Nat /\ lines[j].symbol \in Nat
    BY <1>1, <2>1, PipelineAssumption DEF WindowSet, Window
  <2>. QED  BY SMTT(60), <1>3, <1>8, <2>2, <2>3
<1>. QED  BY <1>3, <1>4, <1>6, <1>7, <1>8

(* What a block adds to the trades in the file. *)
LEMMA WrittenAppend ==
  ASSUME output \in Seq(Block), NEW b \in Block, output' = Append(output, b)
  PROVE  /\ output' \in Seq(Block)
         /\ Written' = Written \cup TradesOf(LinesIn(b))
<1>1. /\ DOMAIN output = 1..Len(output) /\ Len(output) \in Nat
      /\ output' \in Seq(Block) /\ DOMAIN output' = 1..(Len(output) + 1)
      /\ \A i \in 1..Len(output) : output'[i] = output[i]
      /\ output'[Len(output) + 1] = b
  BY SMTT(60), SeqAppend, SeqLen
<1>2. \A i \in 1..(Len(output) + 1) : i \in 1..Len(output) \/ i = Len(output) + 1
  BY SMTT(60), <1>1
<1>3. 1..Len(output) \subseteq 1..(Len(output) + 1)
      /\ Len(output) + 1 \in 1..(Len(output) + 1)
  BY SMTT(60), <1>1
<1>4. ASSUME NEW t
      PROVE  t \in Written' <=> t \in Written \cup TradesOf(LinesIn(b))
  <2>1. t \in Written <=> \E i \in 1..Len(output) : t \in TradesOf(LinesIn(output[i]))
    BY <1>1 DEF Written
  <2>2. t \in Written' <=> \E i \in 1..(Len(output) + 1) : t \in TradesOf(LinesIn(output'[i]))
    BY <1>1 DEF Written
  <2>. QED  BY <1>1, <1>2, <1>3, <2>1, <2>2
<1>. QED  BY <1>1, <1>4

----------------------------------------------------------------------------
(* The inductive invariant *)

(* start() creates the threads in order, and a thread holds something only *)
(* where its code does.                                                    *)
ThreadInv ==
  /\ main.pc = "new" => parser.pc = "none"
  /\ main.pc \in {"startAggs", "startWriter", "running"} => parser.pc # "none"
  /\ \A s \in Shards : agg[s].pc = "none" <=>
       (parser.pc = "none" \/ (main.pc = "startAggs" /\ s >= main.next))
  /\ writer.pc = "none" <=>
       (parser.pc = "none" \/ main.pc \in {"startAggs", "startWriter"})
  /\ main.pc \notin {"startAggs", "shutShards", "extract"} => main.next = 1
  /\ IF parser.pc = "push" THEN \E t \in Trades : parser.hold = {t}
                           ELSE parser.hold = {}
  /\ \A s \in Shards : agg[s].pc # "add" => agg[s].hold = {}
  /\ writer.pc \notin {"extract", "write"} => writer.taken = {}
  /\ main.pc \notin {"extract", "write"} => main.taken = {}

(* How far stop() has come with shard s: its queue is shut down; its       *)
(* aggregator is empty.  A second stop() finds both done.                  *)
ShutBefore(s) ==
  \/ stops > 1
  \/ main.pc \in {"extract", "write", "stopped"}
  \/ main.pc = "shutShards" /\ s < main.next
SweptBefore(s) ==
  \/ stops > 1
  \/ main.pc \in {"write", "stopped"}
  \/ main.pc = "extract" /\ s < main.next

(* stop() ends the stages front to back: a queue is shut down only when    *)
(* the threads that push into it have ended, and a thread ends only when   *)
(* its queue is empty.                                                     *)
StopInv ==
  /\ stops = 0 <=> main.pc \in {"new", "startAggs", "startWriter", "running"}
  /\ raw.shutdown => stops > 0 /\ Joined(writer.pc)
  /\ (stops > 1 \/ main.pc \in {"shutShards", "extract", "write", "stopped"})
       => raw.shutdown
  /\ parser.pc = "done" => Drained(raw)
  /\ \A s \in Shards :
       /\ shardQ[s].shutdown => raw.shutdown /\ Joined(parser.pc)
       /\ ShutBefore(s) => shardQ[s].shutdown
       /\ agg[s].pc = "done" => Drained(shardQ[s])
       /\ SweptBefore(s) => Joined(agg[s].pc) /\ held[s] = {}

(* A trade is only ever in the shard of its symbol. *)
RouteInv ==
  \A s \in Shards :
    \A t \in Range(shardQ[s].items) \cup agg[s].hold \cup held[s] :
      ShardOf(SymbolOf[t]) = s

(* A flush has each window once: those it has come from shards it has left *)
(* behind.                                                                 *)
FlushInv ==
  /\ WindowSet(writer.taken) /\ WindowSet(main.taken)
  /\ writer.pc = "extract" => \A w \in writer.taken : ShardOf(w.symbol) < writer.next
  /\ main.pc = "extract" => \A w \in main.taken : ShardOf(w.symbol) < main.next

(* The places a trade goes through, in order. *)
InRaw     == Range(raw.items) \cap Trades
InShards  == UNION {Range(shardQ[s].items) : s \in Shards}
Adding    == UNION {agg[s].hold : s \in Shards}
WriterHas == TradesOf(writer.taken)
MainHas   == TradesOf(main.taken)
Place == <<InRaw, parser.hold, InShards, Adding, Held, WriterHas, MainHas, Written>>

Spread(P) == UNION {P[i] : i \in 1..8}
Apart(P)  == \A i, j \in 1..8 : i # j => P[i] \cap P[j] = {}

(* Every trade that was accepted is in a place, and no other is.           *)
Conserved == accepted \cap Trades = Spread(Place)

(* It is in one place only, except that a block may have got into the file *)
(* although sink_.write threw.  The queues hold no message twice.          *)
OnePlace ==
  /\ ~crashed => Apart(Place)
  /\ \A i \in 1..5 : Place[i] \cap Place[8] = {}
  /\ IsInjective(raw.items) /\ Range(raw.items) \subseteq accepted
  /\ \A s \in Shards : IsInjective(shardQ[s].items)

(* Each line in the file is a window with trades of its own.               *)
LineInv ==
  \A i, j \in DOMAIN output :
    \A v \in LinesIn(output[i]), w \in LinesIn(output[j]) :
      v.trades \cap w.trades # {} => i = j /\ v = w

PipelineInv ==
  /\ TypeOK /\ ThreadInv /\ StopInv /\ RouteInv /\ FlushInv
  /\ Conserved /\ OnePlace /\ LineInv

----------------------------------------------------------------------------
(* Type correctness *)

(* TypeOK by component. *)
RawOK == /\ raw \in QueueOf(Messages, {QueueCapacity})
         /\ Len(raw.items) <= QueueCapacity
ShardsOK == /\ shardQ \in [Shards -> QueueOf(Trades, {ShardCapacity})]
            /\ \A s \in Shards : Len(shardQ[s].items) <= ShardCapacity
ParserOK == parser \in [pc : {"none", "pop", "push", "done"}, hold : SUBSET Trades]
AggState == [pc : {"none", "pop", "add", "done"}, hold : SUBSET Trades]
AggOK == agg \in [Shards -> AggState]
HeldOK == held \in [Shards -> SUBSET Trades]
WriterOK == writer \in [pc : {"none", "wait", "extract", "write", "done"},
                        next : Shards, cutoff : Nat, taken : SUBSET Window]
MainOK == main \in [pc : {"new", "startAggs", "startWriter", "running", "shutRaw",
                          "shutShards", "extract", "write", "stopped"},
                    next : Shards, taken : SUBSET Window]
OutputOK == output \in Seq(Block)
HistoryOK == /\ accepted \subseteq submitted /\ submitted \subseteq Messages
             /\ late \subseteq Trades /\ clock \in Nat /\ passed \in Nat
             /\ stops \in Nat /\ stopRequested \in BOOLEAN /\ crashed \in BOOLEAN

(* TypeOK is the conjunction of its parts, now and after a step. *)
LEMMA TypeParts ==
  /\ TypeOK <=> /\ RawOK /\ ShardsOK /\ ParserOK /\ AggOK /\ HeldOK
                /\ WriterOK /\ MainOK /\ OutputOK /\ HistoryOK
  /\ TypeOK' <=> /\ RawOK' /\ ShardsOK' /\ ParserOK' /\ AggOK' /\ HeldOK'
                 /\ WriterOK' /\ MainOK' /\ OutputOK' /\ HistoryOK'
BY DEF TypeOK, RawOK, ShardsOK, ParserOK, AggOK, AggState, HeldOK, WriterOK,
       MainOK, OutputOK, HistoryOK, Block

(* The constructor's state is well typed. *)
LEMMA TypeInit == Init => TypeOK
<1>. SUFFICES ASSUME Init PROVE TypeOK
  OBVIOUS
<1>1. RawOK
  BY SMTT(60), SeqEmpty, PipelineAssumption DEF Init, NewQueue, QueueOf, RawOK
<1>2. ShardsOK
  <2>1. NewQueue(ShardCapacity) \in QueueOf(Trades, {ShardCapacity})
        /\ Len(NewQueue(ShardCapacity).items) <= ShardCapacity
    BY SMTT(60), SeqEmpty, ShardFacts DEF NewQueue, QueueOf
  <2>. QED  BY <2>1 DEF Init, ShardsOK
<1>3. ParserOK /\ AggOK /\ HeldOK
  BY DEF Init, ParserOK, AggOK, AggState, HeldOK
<1>4. WriterOK /\ MainOK
  <2>1. 1 \in Shards
    BY SMTT(60), ShardFacts
  <2>. QED  BY <2>1 DEF Init, WriterOK, MainOK
<1>5. OutputOK
  BY SeqEmpty DEF Init, OutputOK
<1>6. HistoryOK
  <2>1. clock \in Nat
    BY SMTT(60), PipelineAssumption DEF Init
  <2>. QED  BY <2>1 DEF Init, HistoryOK
<1>. QED  BY <1>1, <1>2, <1>3, <1>4, <1>5, <1>6, TypeParts

(* The sink's contents stay a sequence of blocks whatever is written.      *)
LEMMA WriteSnapshotType ==
  ASSUME SetFacts, NEW W, WindowSet(W), W # {}, OutputOK, WriteSnapshot(W)
  PROVE  OutputOK'
<1>1. PICK lines \in SortedBySymbol(Snapshot(W)) :
        output' = Append(output, Serialize(FirstStart(W), lines))
  BY DEF WriteSnapshot
<1>2. Serialize(FirstStart(W), lines) \in Block
  BY BlockFacts
<1>. QED  BY <1>1, <1>2, SeqAppend DEF OutputOK

(* A loop over the shards: to the next one, or out of the loop. *)
LEMMA AdvanceFacts ==
  ASSUME MainOK, NEW label
  PROVE  /\ Advance(label) = [pc |-> Advance(label).pc, next |-> Advance(label).next,
                              taken |-> main.taken]
         /\ Advance(label).next \in Shards
         /\ main.next = ShardCount =>
              Advance(label).pc = label /\ Advance(label).next = 1
         /\ main.next # ShardCount =>
              Advance(label).pc = main.pc /\ Advance(label).next = main.next + 1
<1>1. main = [pc |-> main.pc, next |-> main.next, taken |-> main.taken]
      /\ main.next \in Shards
  BY DEF MainOK
<1>2. CASE main.next = ShardCount
  <2>1. Advance(label) = [pc |-> label, next |-> 1, taken |-> main.taken]
    BY <1>1, <1>2 DEF Advance
  <2>. QED  BY SMTT(60), <1>2, <2>1, ShardFacts
<1>3. CASE main.next # ShardCount
  <2>1. Advance(label) = [pc |-> main.pc, next |-> main.next + 1, taken |-> main.taken]
    BY <1>1, <1>3 DEF Advance
  <2>2. main.next + 1 \in Shards
    BY SMTT(60), <1>1, <1>3, ShardFacts
  <2>. QED  BY SMTT(60), <1>3, <2>1, <2>2
<1>. QED  BY <1>2, <1>3

(* Every step keeps the types. *)
LEMMA TypeStep == SetFacts /\ TypeOK /\ FlushInv /\ [Next]_vars => TypeOK'
<1>. SUFFICES ASSUME SetFacts, TypeOK, FlushInv, [Next]_vars PROVE TypeOK'
  OBVIOUS
<1>. USE DEF vars, inVars, stageVars, flushVars, lifeVars, outVars
<1>0. /\ Shards = 1..ShardCount /\ ShardCount \in Nat \ {0} /\ ShardCapacity \in Nat
      /\ QueueCapacity \in Nat /\ Trades \subseteq Messages
      /\ \A symbol \in Symbols : ShardOf(symbol) \in Shards
  BY ShardFacts, PipelineAssumption
<1>a. /\ RawOK /\ ShardsOK /\ ParserOK /\ AggOK /\ HeldOK
      /\ WriterOK /\ MainOK /\ OutputOK /\ HistoryOK
  BY TypeParts
<1>b. /\ UNCHANGED raw => RawOK'
      /\ UNCHANGED shardQ => ShardsOK'
      /\ UNCHANGED parser => ParserOK'
      /\ UNCHANGED agg => AggOK'
      /\ UNCHANGED held => HeldOK'
      /\ UNCHANGED writer => WriterOK'
      /\ UNCHANGED main => MainOK'
      /\ UNCHANGED output => OutputOK'
  BY <1>a DEF RawOK, ShardsOK, ParserOK, AggOK, HeldOK, WriterOK, MainOK, OutputOK
<1>c. UNCHANGED <<accepted, submitted, late, clock, passed, stops,
                  stopRequested, crashed>> => HistoryOK'
  BY <1>a DEF HistoryOK
<1>. USE <1>b, <1>c, TypeParts
<1>1. ASSUME NEW m \in Messages, Submit(m) PROVE TypeOK'
  <2>1. RawOK'
    BY <1>0, <1>a, <1>1, PushFacts DEF Submit, RawOK
  <2>2. HistoryOK'
    BY <1>a, <1>1 DEF Submit, HistoryOK
  <2>. QED  BY <1>1, <2>1, <2>2 DEF Submit
<1>2. CASE ParserPop
  <2>1. RawOK'
    BY <1>0, <1>a, <1>2, PopFacts DEF ParserPop, RawOK
  <2>2. ParserOK'
    BY <1>a, <1>2 DEF ParserPop, ParserOK
  <2>. QED  BY <1>2, <2>1, <2>2 DEF ParserPop
<1>3. CASE ParserPush
  <2>1. PICK t \in parser.hold :
          /\ PushReturns(shardQ[ShardOf(SymbolOf[t])])
          /\ shardQ' = [shardQ EXCEPT ![ShardOf(SymbolOf[t])] = Push(@, t)]
    BY <1>3 DEF ParserPush
  <2>. DEFINE s == ShardOf(SymbolOf[t])
  <2>2. t \in Trades /\ s \in Shards
    BY <1>0, <1>a, WindowOfFacts DEF ParserOK
  <2>3. /\ Push(shardQ[s], t) \in QueueOf(Trades, {ShardCapacity})
        /\ Len(Push(shardQ[s], t).items) <= ShardCapacity
    BY <1>0, <1>a, <2>1, <2>2, PushFacts DEF ShardsOK
  <2>. HIDE DEF s
  <2>4. ShardsOK'
    BY <1>a, <2>1, <2>2, <2>3 DEF ShardsOK, s
  <2>5. ParserOK'
    BY <1>3 DEF ParserPush, ParserOK
  <2>. QED  BY <1>3, <2>4, <2>5 DEF ParserPush
<1>4. ASSUME NEW s \in Shards, AggPop(s) PROVE TypeOK'
  <2>1. /\ Pop(shardQ[s]) \in QueueOf(Trades, {ShardCapacity})
        /\ Len(Pop(shardQ[s]).items) <= ShardCapacity
        /\ shardQ[s].items # <<>> => Oldest(shardQ[s]) \in Trades
    BY <1>0, <1>a, PopFacts DEF ShardsOK
  <2>2. Drained(shardQ[s]) \/ Oldest(shardQ[s]) \in Trades
    BY <1>4, <2>1 DEF AggPop, PopReturns, Drained
  <2>3. ShardsOK'
    BY <1>a, <1>4, <2>1 DEF AggPop, ShardsOK
  <2>4. AggOK'
    BY <1>a, <1>4, <2>2 DEF AggPop, AggOK, AggState
  <2>. QED  BY <1>4, <2>3, <2>4 DEF AggPop
<1>5. ASSUME NEW s \in Shards, AggAdd(s) PROVE TypeOK'
  <2>1. agg[s].hold \subseteq Trades
    BY <1>a DEF AggOK, AggState
  <2>2. HeldOK' /\ AggOK'
    BY <1>a, <1>5, <2>1 DEF AggAdd, AggOK, AggState, HeldOK
  <2>3. HistoryOK'
    BY <1>a, <1>5, <2>1 DEF AggAdd, HistoryOK
  <2>. QED  BY <1>5, <2>2, <2>3 DEF AggAdd
<1>6. CASE WriterTimeout
  <2>1. clock \in Nat /\ passed \in Nat
    BY <1>a DEF HistoryOK
  <2>2. WindowStart(clock) \in Nat /\ Max({passed, WindowStart(clock)}) \in Nat
    BY <2>1, WindowOfFacts, MaxOfTwo
  <2>3. WriterOK'
    BY SMTT(60), <1>0, <1>6, <2>2 DEF WriterTimeout, WriterOK
  <2>4. HistoryOK'
    BY <1>a, <1>6, <2>2 DEF WriterTimeout, HistoryOK
  <2>. QED  BY <1>6, <2>3, <2>4 DEF WriterTimeout
<1>7. CASE WriterExtract
  <2>. DEFINE gone == CompletedTrades(held[writer.next], writer.cutoff)
  <2>1. writer.next \in Shards /\ gone \in SUBSET Trades
    BY <1>a DEF CompletedTrades, WriterOK, HeldOK
  <2>2. WindowsOf(gone) \subseteq Window
    BY <2>1, WindowsOfFacts DEF WindowSet
  <2>. HIDE DEF gone
  <2>3. /\ held' = [held EXCEPT ![writer.next] = @ \ gone]
        /\ writer' = [writer EXCEPT
              !.taken = @ \cup WindowsOf(gone),
              !.next = IF writer.next = ShardCount THEN 1 ELSE writer.next + 1,
              !.pc = IF writer.next = ShardCount THEN "write" ELSE "extract"]
    BY <1>7 DEF WriterExtract, gone
  <2>4. (IF writer.next = ShardCount THEN 1 ELSE writer.next + 1) \in Shards
    BY SMTT(60), <1>0, <2>1
  <2>5. HeldOK'
    BY <1>a, <2>1, <2>3 DEF HeldOK
  <2>6. WriterOK'
    BY <1>a, <2>2, <2>3, <2>4 DEF WriterOK
  <2>. QED  BY <1>7, <2>5, <2>6 DEF WriterExtract
<1>8. CASE WriterWrite
  <2>1. OutputOK'
    BY <1>8, <1>a, WriteSnapshotType DEF WriterWrite, FlushInv
  <2>2. WriterOK'
    BY <1>8, <1>a DEF WriterWrite, WriterOK
  <2>. QED  BY <1>8, <2>1, <2>2 DEF WriterWrite
<1>9. CASE WriterReturn \/ WriterEnd
  <2>1. WriterOK'
    BY <1>9, <1>a DEF WriterReturn, WriterEnd, WriterOK
  <2>. QED  BY <1>9, <2>1 DEF WriterReturn, WriterEnd
<1>10. CASE StartParser
  <2>1. ParserOK' /\ MainOK'
    BY <1>a, <1>10 DEF StartParser, Goto, ParserOK, MainOK
  <2>. QED  BY <1>10, <2>1 DEF StartParser
<1>11. ASSUME NEW label \in {"startWriter", "extract", "write"}
       PROVE  Advance(label) \in [pc : {main.pc, label}, next : Shards, taken : {main.taken}]
  BY SMTT(60), <1>a, AdvanceFacts
<1>12. CASE StartAgg
  <2>1. AggOK'
    BY <1>a, <1>12 DEF StartAgg, AggOK, AggState
  <2>2. MainOK'
    BY <1>a, <1>11, <1>12 DEF StartAgg, MainOK
  <2>. QED  BY <1>12, <2>1, <2>2 DEF StartAgg
<1>13. CASE StartWriter
  <2>1. WriterOK' /\ MainOK'
    BY <1>a, <1>13 DEF StartWriter, Goto, WriterOK, MainOK
  <2>. QED  BY <1>13, <2>1 DEF StartWriter
<1>14. CASE StopRequest
  <2>1. MainOK' /\ HistoryOK'
    BY SMTT(60), <1>a, <1>14 DEF StopRequest, Goto, HistoryOK, MainOK
  <2>. QED  BY <1>14, <2>1 DEF StopRequest
<1>15. CASE ShutRaw
  <2>1. RawOK' /\ MainOK'
    BY <1>a, <1>15, ShutdownFacts DEF ShutRaw, RawOK, MainOK, Goto
  <2>. QED  BY <1>15, <2>1 DEF ShutRaw
<1>16. CASE ShutShard
  <2>1. main.next \in Shards
    BY <1>a DEF MainOK
  <2>a. shardQ[main.next] \in QueueOf(Trades, {ShardCapacity})
    BY <1>a, <2>1 DEF ShardsOK
  <2>2. /\ Shutdown(shardQ[main.next]) \in QueueOf(Trades, {ShardCapacity})
        /\ Shutdown(shardQ[main.next]).items = shardQ[main.next].items
    BY <2>a, ShutdownFacts
  <2>3. ShardsOK'
    BY <1>a, <1>16, <2>1, <2>2 DEF ShutShard, ShardsOK
  <2>4. MainOK'
    BY <1>a, <1>11, <1>16 DEF ShutShard, MainOK
  <2>. QED  BY <1>16, <2>3, <2>4 DEF ShutShard
<1>17. CASE MainExtract
  <2>1. held[main.next] \in SUBSET Trades
    BY <1>a DEF MainOK, HeldOK
  <2>2. WindowsOf(held[main.next]) \subseteq Window
    BY <2>1, WindowsOfFacts DEF WindowSet
  <2>3. MainOK'
    BY <1>a, <1>11, <1>17, <2>2 DEF MainExtract, MainOK
  <2>4. HeldOK'
    BY <1>a, <1>17 DEF MainExtract, HeldOK
  <2>. QED  BY <1>17, <2>3, <2>4 DEF MainExtract
<1>18. CASE MainWrite
  <2>1. OutputOK'
    BY <1>18, <1>a, WriteSnapshotType DEF MainWrite, FlushInv
  <2>2. MainOK'
    BY <1>18, <1>a DEF MainWrite, MainOK
  <2>. QED  BY <1>18, <2>1, <2>2 DEF MainWrite
<1>19. CASE MainReturn
  <2>1. MainOK'
    BY <1>a, <1>19 DEF MainReturn, Goto, MainOK
  <2>. QED  BY <1>19, <2>1 DEF MainReturn
<1>20. CASE AdjustClock
  <2>1. HistoryOK'
    BY SMTT(60), <1>a, <1>20, PipelineAssumption DEF AdjustClock, HistoryOK
  <2>. QED  BY <1>20, <2>1 DEF AdjustClock
<1>21. CASE WriterFails \/ MainFails
  <2>1. OutputOK'
    BY <1>a, <1>21, WriteSnapshotType DEF WriterFails, MainFails, SinkFails, FlushInv
  <2>2. HistoryOK'
    BY <1>a, <1>21 DEF WriterFails, MainFails, SinkFails, HistoryOK
  <2>. QED  BY <1>21, <2>1, <2>2 DEF WriterFails, MainFails, SinkFails
<1>22. CASE UNCHANGED vars
  BY <1>22
<1>. QED
  BY ZenonT(60), <1>1, <1>2, <1>3, <1>4, <1>5, <1>6, <1>7, <1>8, <1>9, <1>10, <1>12,
     <1>13, <1>14, <1>15, <1>16, <1>17, <1>18, <1>19, <1>20, <1>21, <1>22
  DEF Next, ParserStep, AggStep, WriterStep, StartStep, StopStep

----------------------------------------------------------------------------
(* The threads and the order in which stop() ends them *)

(* Before start() no thread exists and nothing is held. *)
LEMMA ThreadInit == Init => ThreadInv
<1>. SUFFICES ASSUME Init PROVE ThreadInv
  OBVIOUS
<1>1. \A s \in Shards : agg[s].pc = "none" /\ agg[s].hold = {}
  BY DEF Init
<1>. QED  BY <1>1 DEF Init, ThreadInv

(* Every step keeps the bookkeeping of threads. *)
LEMMA ThreadKept == TypeOK /\ ThreadInv /\ [Next]_vars => ThreadInv'
<1>. SUFFICES ASSUME TypeOK, ThreadInv, [Next]_vars PROVE ThreadInv'
  OBVIOUS
<1>. USE DEF vars, inVars, stageVars, flushVars, lifeVars, outVars
<1>a. ParserOK /\ AggOK /\ WriterOK /\ MainOK
  BY TypeParts
<1>b. UNCHANGED <<main, parser, agg, writer>> => ThreadInv'
  BY DEF ThreadInv
<1>c. /\ Shards = 1..ShardCount /\ ShardCount \in Nat \ {0} /\ main.next \in Nat
  BY SMTT(60), <1>a, ShardFacts DEF MainOK
<1>1. CASE \/ \E m \in Messages : Submit(m)
           \/ AdjustClock \/ WriterFails \/ MainFails \/ UNCHANGED vars
  BY <1>1, <1>b DEF Submit, AdjustClock, WriterFails, MainFails, SinkFails
<1>2. CASE ParserPop
  <2>1. PopReturns(raw) /\ ~Drained(raw) /\ Oldest(raw) \in Trades
          => \E t \in Trades : parser'.pc = "push" /\ parser'.hold = {t}
    BY <1>2 DEF ParserPop
  <2>2. /\ parser.pc = "pop" /\ parser'.pc # "none"
        /\ UNCHANGED <<main, agg, writer>>
        /\ IF parser'.pc = "push" THEN \E t \in Trades : parser'.hold = {t}
                                  ELSE parser'.hold = {}
    BY <1>2, <2>1 DEF ParserPop, ThreadInv
  <2>. QED  BY <2>2 DEF ThreadInv
<1>3. CASE ParserPush
  <2>1. /\ parser.pc = "push" /\ parser'.pc = "pop" /\ parser'.hold = {}
        /\ UNCHANGED <<main, agg, writer>>
    BY <1>3 DEF ParserPush
  <2>. QED  BY <2>1 DEF ThreadInv
<1>4. ASSUME NEW x \in Shards, AggPop(x) \/ AggAdd(x) PROVE ThreadInv'
  <2>1. /\ agg[x].pc # "none" /\ agg'[x].pc # "none"
        /\ agg'[x].pc # "add" => agg'[x].hold = {}
    BY SMTT(60), <1>4, <1>a DEF AggPop, AggAdd, AggOK, AggState
  <2>2. \A s \in Shards : s # x => agg'[s] = agg[s]
    BY <1>4, <1>a DEF AggPop, AggAdd, AggOK
  <2>3. UNCHANGED <<main, parser, writer>>
    BY <1>4 DEF AggPop, AggAdd
  <2>. QED  BY <2>1, <2>2, <2>3 DEF ThreadInv
<1>5. CASE WriterStep
  <2>1. /\ writer.pc # "none" /\ writer'.pc # "none"
        /\ writer'.pc \notin {"extract", "write"} => writer'.taken = {}
        /\ UNCHANGED <<main, parser, agg>>
    <3>1. CASE WriterTimeout
      BY <3>1 DEF WriterTimeout
    <3>2. CASE WriterExtract
      BY <3>2, <1>a DEF WriterExtract, WriterOK
    <3>3. CASE WriterWrite
      BY <3>3, <1>a DEF WriterWrite, WriterOK
    <3>4. CASE WriterReturn
      BY <3>4, <1>a DEF WriterReturn, WriterOK
    <3>5. CASE WriterEnd
      BY <3>5, <1>a DEF WriterEnd, WriterOK, ThreadInv
    <3>. QED  BY <1>5, <3>1, <3>2, <3>3, <3>4, <3>5 DEF WriterStep
  <2>. QED  BY <2>1 DEF ThreadInv
<1>6. CASE StartParser
  <2>1. /\ main.pc = "new" /\ main'.pc = "startAggs" /\ main'.next = main.next
        /\ main'.taken = main.taken
        /\ parser'.pc = "pop" /\ parser'.hold = parser.hold
        /\ UNCHANGED <<agg, writer>>
    BY <1>6, <1>a DEF StartParser, Goto, MainOK, ParserOK
  <2>2. main.next = 1 /\ parser.pc = "none" /\ \A s \in Shards : s >= 1
    BY SMTT(60), <2>1, <1>c DEF ThreadInv
  <2>. QED  BY <2>1, <2>2 DEF ThreadInv
<1>7. CASE StartAgg
  <2>1. /\ main.pc = "startAggs" /\ main' = Advance("startWriter")
        /\ UNCHANGED <<parser, writer>>
        /\ agg'[main.next].pc = "pop" /\ agg'[main.next].hold = {}
        /\ \A s \in Shards : s # main.next => agg'[s] = agg[s]
    BY <1>7, <1>a DEF StartAgg, MainOK, AggOK
  <2>2. /\ main'.taken = main.taken
        /\ main.next = ShardCount => main'.pc = "startWriter" /\ main'.next = 1
        /\ main.next # ShardCount =>
             main'.pc = "startAggs" /\ main'.next = main.next + 1
    BY SMTT(60), <2>1, <1>a, AdvanceFacts
  <2>3. \A s \in Shards : s >= main.next <=>
          s = main.next \/ (main.next # ShardCount /\ s >= main.next + 1)
    BY SMTT(60), <1>c
  <2>4. ASSUME NEW s \in Shards
        PROVE  agg'[s].pc = "none" <=> (main'.pc = "startAggs" /\ s >= main'.next)
    <3>1. agg[s].pc = "none" <=> s >= main.next
      BY <2>1 DEF ThreadInv
    <3>2. CASE s = main.next
      BY SMTT(60), <1>c, <2>1, <2>2, <3>2
    <3>3. CASE s # main.next
      <4>1. agg'[s] = agg[s]
        BY <2>1, <3>3
      <4>2. CASE main.next = ShardCount
        BY SMTT(60), <1>c, <2>2, <3>1, <3>3, <4>1, <4>2
      <4>3. CASE main.next # ShardCount
        BY <2>2, <2>3, <3>1, <3>3, <4>1, <4>3
      <4>. QED  BY <4>2, <4>3
    <3>. QED  BY <3>2, <3>3
  <2>. QED  BY SMTT(60), <2>1, <2>2, <2>4 DEF ThreadInv
<1>8. CASE StartWriter
  <2>1. /\ main.pc = "startWriter" /\ main'.pc = "running" /\ main'.next = main.next
        /\ main'.taken = main.taken
        /\ writer'.pc = "wait" /\ writer'.taken = writer.taken
        /\ writer.pc = "none"
        /\ UNCHANGED <<parser, agg>>
    BY <1>8, <1>a DEF StartWriter, Goto, MainOK, WriterOK, ThreadInv
  <2>. QED  BY <2>1 DEF ThreadInv
<1>9. CASE StopRequest \/ ShutRaw \/ MainReturn
  <2>1. /\ main.pc \notin {"startAggs", "startWriter", "shutShards", "extract"}
        /\ main'.pc \in {"shutRaw", "shutShards", "stopped"}
        /\ main'.next = main.next
        /\ main'.taken = main.taken /\ main'.taken = {}
        /\ UNCHANGED <<parser, agg, writer>>
    BY <1>9, <1>a DEF StopRequest, ShutRaw, MainReturn, Goto, MainOK, ThreadInv
  <2>. QED  BY <2>1 DEF ThreadInv
<1>10. CASE ShutShard \/ MainExtract
  <2>1. /\ main.pc \in {"shutShards", "extract"}
        /\ \E label \in {"extract", "write"} :
             /\ main.pc = "shutShards" => label = "extract"
             /\ main.pc = "extract" => label = "write"
             /\ main'.pc = Advance(label).pc /\ main'.next = Advance(label).next
        /\ main.pc = "shutShards" => main'.taken = main.taken
        /\ UNCHANGED <<parser, agg, writer>>
    BY SMTT(60), <1>10, <1>a, AdvanceFacts DEF ShutShard, MainExtract
  <2>2. /\ main'.pc \in {"shutShards", "extract", "write"}
        /\ main'.pc = "write" => main'.next = 1
        /\ main'.pc = "shutShards" => main'.taken = {}
    BY SMTT(60), <2>1, <1>a, AdvanceFacts DEF ThreadInv
  <2>. QED  BY <2>1, <2>2 DEF ThreadInv
<1>11. CASE MainWrite
  <2>1. /\ main.pc = "write" /\ main'.pc = "write" /\ main'.next = main.next
        /\ UNCHANGED <<parser, agg, writer>>
    BY <1>11, <1>a DEF MainWrite, MainOK
  <2>. QED  BY <2>1 DEF ThreadInv
<1>. QED
  BY <1>1, <1>2, <1>3, <1>4, <1>5, <1>6, <1>7, <1>8, <1>9, <1>10, <1>11
  DEF Next, ParserStep, AggStep, StartStep, StopStep

(* Before start() there is nothing to stop. *)
LEMMA StopInit == Init => StopInv
<1>. SUFFICES ASSUME Init PROVE StopInv
  OBVIOUS
<1>1. \A s \in Shards : /\ ~shardQ[s].shutdown /\ agg[s].pc = "none"
                        /\ ~ShutBefore(s) /\ ~SweptBefore(s)
  BY SMTT(60) DEF Init, NewQueue, ShutBefore, SweptBefore
<1>. QED  BY SMTT(60), <1>1 DEF Init, NewQueue, StopInv

(* Every step keeps the order of the shutdown: the writer first, then the  *)
(* raw queue and the parser, then the shard queues and their aggregation   *)
(* threads, then the aggregators.                                          *)
LEMMA StopKept == TypeOK /\ ThreadInv /\ StopInv /\ [Next]_vars => StopInv'
<1>. SUFFICES ASSUME TypeOK, ThreadInv, StopInv, [Next]_vars PROVE StopInv'
  OBVIOUS
<1>. USE DEF vars, inVars, stageVars, flushVars, lifeVars, outVars
<1>a. RawOK /\ ShardsOK /\ ParserOK /\ AggOK /\ HeldOK /\ WriterOK /\ MainOK
  BY TypeParts
<1>b. /\ Shards = 1..ShardCount /\ ShardCount \in Nat \ {0} /\ main.next \in Nat
      /\ stops \in Nat /\ main.next \in Shards /\ ShardCapacity \in Nat
      /\ QueueCapacity \in Nat
  BY SMTT(60), <1>a, ShardFacts, PipelineAssumption, TypeParts DEF MainOK, HistoryOK
<1>c. UNCHANGED <<main, stops, raw, writer, parser, shardQ, agg, held>> => StopInv'
  BY DEF StopInv, ShutBefore, SweptBefore
<1>d. \A s \in Shards :
        UNCHANGED <<main, stops>> => /\ ShutBefore(s)' <=> ShutBefore(s)
                                     /\ SweptBefore(s)' <=> SweptBefore(s)
  BY DEF ShutBefore, SweptBefore
<1>e. \A s \in Shards : /\ ShutBefore(s) => stops > 0
                        /\ SweptBefore(s) => stops > 0 /\ Joined(agg[s].pc)
  BY <1>b DEF ShutBefore, SweptBefore, StopInv
<1>1. CASE AdjustClock \/ WriterFails \/ MainFails \/ UNCHANGED vars
  BY <1>1, <1>c DEF AdjustClock, WriterFails, MainFails, SinkFails
<1>2. ASSUME NEW m \in Messages, Submit(m) PROVE StopInv'
  <2>1. /\ raw'.shutdown = raw.shutdown /\ (Drained(raw) => Drained(raw)')
        /\ UNCHANGED <<main, stops, writer, parser, shardQ, agg, held>>
    BY SMTT(60), <1>2, <1>a, <1>b, PushFacts DEF Submit, RawOK, Drained
  <2>. QED  BY <1>d, <2>1 DEF StopInv
<1>3. CASE ParserPop
  <2>1. /\ raw'.shutdown = raw.shutdown /\ (Drained(raw) => Drained(raw)')
        /\ UNCHANGED <<main, stops, writer, shardQ, agg, held>>
        /\ parser.pc = "pop" /\ (parser'.pc = "done" => Drained(raw))
    BY SMTT(60), <1>3, <1>a, <1>b, PopFacts DEF ParserPop, RawOK, Drained
  <2>2. \A s \in Shards : ~shardQ[s].shutdown
    BY <2>1 DEF StopInv, Joined
  <2>. QED  BY <1>d, <2>1, <2>2 DEF StopInv
<1>4. CASE ParserPush
  <2>1. PICK t \in parser.hold :
          /\ PushReturns(shardQ[ShardOf(SymbolOf[t])])
          /\ shardQ' = [shardQ EXCEPT ![ShardOf(SymbolOf[t])] = Push(@, t)]
    BY <1>4 DEF ParserPush
  <2>2. /\ parser.pc = "push" /\ parser'.pc = "pop"
        /\ UNCHANGED <<main, stops, raw, writer, agg, held>>
    BY <1>4 DEF ParserPush
  <2>3. \A s \in Shards : ~shardQ[s].shutdown
    BY <2>2 DEF StopInv, Joined
  <2>4. \A s \in Shards : ~shardQ'[s].shutdown
    <3>. SUFFICES ASSUME NEW s \in Shards, s = ShardOf(SymbolOf[t])
                  PROVE  ~Push(shardQ[s], t).shutdown
      BY <1>a, <2>1, <2>3 DEF ShardsOK
    <3>1. t \in Trades
      BY <1>a DEF ParserOK
    <3>2. shardQ[s] \in QueueOf(Trades, {ShardCapacity}) /\ Len(shardQ[s].items) <= ShardCapacity
      BY <1>a DEF ShardsOK
    <3>. QED  BY SMTT(60), <1>b, <2>1, <2>3, <3>1, <3>2, PushFacts
  <2>. QED  BY <1>d, <2>2, <2>3, <2>4 DEF StopInv, Drained
<1>5. ASSUME NEW x \in Shards, AggPop(x) PROVE StopInv'
  <2>1. /\ UNCHANGED <<main, stops, raw, writer, parser, held>>
        /\ agg[x].pc = "pop" /\ (agg'[x].pc = "done" => Drained(shardQ[x]))
        /\ \A s \in Shards : s # x => agg'[s] = agg[s] /\ shardQ'[s] = shardQ[s]
        /\ shardQ'[x] = Pop(shardQ[x])
    BY <1>5, <1>a DEF AggPop, AggOK, ShardsOK
  <2>a. shardQ[x] \in QueueOf(Trades, {ShardCapacity}) /\ Len(shardQ[x].items) <= ShardCapacity
    BY <1>a DEF ShardsOK
  <2>2. /\ shardQ'[x].shutdown = shardQ[x].shutdown
        /\ Drained(shardQ[x]) => Drained(shardQ'[x])
    BY SMTT(60), <2>1, <2>a, <1>b, PopFacts DEF Drained
  <2>3. ~SweptBefore(x)
    BY <2>1, <1>e DEF Joined
  <2>4. ASSUME NEW s \in Shards
        PROVE /\ shardQ'[s].shutdown => raw'.shutdown /\ Joined(parser'.pc)
              /\ ShutBefore(s)' => shardQ'[s].shutdown
              /\ agg'[s].pc = "done" => Drained(shardQ'[s])
              /\ SweptBefore(s)' => Joined(agg'[s].pc) /\ held'[s] = {}
    BY <1>d, <2>1, <2>2, <2>3 DEF StopInv
  <2>. QED  BY <2>1, <2>4 DEF StopInv
<1>6. ASSUME NEW x \in Shards, AggAdd(x) PROVE StopInv'
  <2>1. /\ UNCHANGED <<main, stops, raw, writer, parser, shardQ>>
        /\ agg[x].pc = "add" /\ agg'[x].pc = "pop"
        /\ \A s \in Shards : s # x => agg'[s] = agg[s] /\ held'[s] = held[s]
    BY <1>6, <1>a DEF AggAdd, AggOK, HeldOK
  <2>2. ~SweptBefore(x)
    BY <2>1, <1>e DEF Joined
  <2>. QED  BY <1>d, <2>1, <2>2 DEF StopInv
<1>7. CASE WriterStep
  <2>1. /\ ~Joined(writer.pc)
        /\ UNCHANGED <<main, stops, raw, parser, shardQ, agg>>
        /\ \A s \in Shards : held'[s] \subseteq held[s]
    <3>1. CASE WriterExtract
      BY <3>1, <1>a DEF WriterExtract, HeldOK, Joined
    <3>2. CASE WriterTimeout \/ WriterWrite \/ WriterReturn \/ WriterEnd
      BY <3>2 DEF WriterTimeout, WriterWrite, WriterReturn, WriterEnd, Joined
    <3>. QED  BY <1>7, <3>1, <3>2 DEF WriterStep
  <2>2. ~raw.shutdown
    BY <2>1 DEF StopInv
  <2>. QED  BY <1>d, <2>1, <2>2 DEF StopInv
<1>8. CASE StartParser \/ StartAgg \/ StartWriter
  <2>1. /\ main.pc \in {"new", "startAggs", "startWriter"}
        /\ main'.pc \in {"startAggs", "startWriter", "running"}
        /\ UNCHANGED <<stops, raw, shardQ, held>>
        /\ parser'.pc = "done" => parser.pc = "done"
    BY <1>8, <1>a, AdvanceFacts
       DEF StartParser, StartAgg, StartWriter, Goto, MainOK, ParserOK
  <2>2. stops = 0 /\ ~raw.shutdown
    BY SMTT(60), <1>b, <2>1 DEF StopInv
  <2>3. \A s \in Shards : agg'[s].pc = "done" => agg[s].pc = "done"
    BY SMTT(60), <1>8, <1>a DEF StartParser, StartAgg, StartWriter, AggOK
  <2>4. \A s \in Shards : ~ShutBefore(s)' /\ ~SweptBefore(s)'
    BY SMTT(60), <2>1, <2>2 DEF ShutBefore, SweptBefore
  <2>. QED  BY <1>b, <2>1, <2>2, <2>3, <2>4 DEF StopInv
<1>9. CASE StopRequest
  <2>1. /\ main.pc \in {"new", "running", "stopped"} /\ main'.pc = "shutRaw"
        /\ stops' = stops + 1
        /\ UNCHANGED <<raw, writer, parser, shardQ, agg, held>>
    BY <1>9, <1>a DEF StopRequest, Goto, MainOK
  <2>2. stops' > 1 => main.pc = "stopped"
    BY SMTT(60), <1>b, <2>1 DEF StopInv
  <2>3. \A s \in Shards : /\ ShutBefore(s)' => ShutBefore(s)
                          /\ SweptBefore(s)' => SweptBefore(s)
    BY <2>1, <2>2 DEF ShutBefore, SweptBefore
  <2>. QED  BY SMTT(60), <1>b, <2>1, <2>2, <2>3 DEF StopInv
<1>10. CASE ShutRaw
  <2>1. /\ main.pc = "shutRaw" /\ main'.pc = "shutShards" /\ main'.next = main.next
        /\ Joined(writer.pc) /\ raw'.shutdown /\ (Drained(raw) => Drained(raw)')
        /\ UNCHANGED <<stops, writer, parser, shardQ, agg, held>>
    BY <1>10, <1>a, ShutdownFacts DEF ShutRaw, Goto, MainOK, RawOK, Drained
  <2>2. main.next = 1
    BY <2>1 DEF ThreadInv
  <2>3. \A s \in Shards : /\ ShutBefore(s)' => ShutBefore(s)
                          /\ SweptBefore(s)' => SweptBefore(s)
    BY SMTT(60), <1>b, <2>1, <2>2 DEF ShutBefore, SweptBefore
  <2>. QED  BY SMTT(60), <1>b, <2>1, <2>3 DEF StopInv
<1>11. CASE ShutShard
  <2>1. /\ main.pc = "shutShards" /\ Joined(parser.pc)
        /\ main' = Advance("extract")
        /\ UNCHANGED <<stops, raw, writer, parser, agg, held>>
        /\ \A s \in Shards : s # main.next => shardQ'[s] = shardQ[s]
        /\ shardQ'[main.next] = Shutdown(shardQ[main.next])
    BY <1>11, <1>a, <1>b DEF ShutShard, ShardsOK
  <2>2. shardQ[main.next] \in QueueOf(Trades, {ShardCapacity})
    BY <1>a, <1>b DEF ShardsOK
  <2>3. /\ shardQ'[main.next].shutdown
        /\ Drained(shardQ[main.next]) => Drained(shardQ'[main.next])
    BY <2>1, <2>2 DEF Drained, Shutdown, QueueOf
  <2>4. /\ main.next = ShardCount => main'.pc = "extract" /\ main'.next = 1
        /\ main.next # ShardCount => main'.pc = "shutShards" /\ main'.next = main.next + 1
    BY <1>a, <2>1, AdvanceFacts
  <2>5. ASSUME NEW s \in Shards
        PROVE  /\ ShutBefore(s)' => ShutBefore(s) \/ s = main.next
               /\ SweptBefore(s)' => SweptBefore(s)
    BY SMTT(60), <1>b, <2>1, <2>4 DEF ShutBefore, SweptBefore
  <2>6. ASSUME NEW s \in Shards
        PROVE /\ shardQ'[s].shutdown => raw'.shutdown /\ Joined(parser'.pc)
              /\ ShutBefore(s)' => shardQ'[s].shutdown
              /\ agg'[s].pc = "done" => Drained(shardQ'[s])
              /\ SweptBefore(s)' => Joined(agg'[s].pc) /\ held'[s] = {}
    <3>1. CASE s = main.next
      BY <2>1, <2>3, <2>5, <3>1 DEF StopInv
    <3>2. CASE s # main.next
      BY <2>1, <2>5, <3>2 DEF StopInv
    <3>. QED  BY <3>1, <3>2
  <2>. QED  BY <2>1, <2>4, <2>6 DEF StopInv
<1>12. CASE MainExtract
  <2>1. /\ main.pc = "extract" /\ \A s \in Shards : Joined(agg[s].pc)
        /\ main'.pc = Advance("write").pc /\ main'.next = Advance("write").next
        /\ UNCHANGED <<stops, raw, writer, parser, agg, shardQ>>
        /\ \A s \in Shards : s # main.next => held'[s] = held[s]
        /\ held'[main.next] = {}
    BY <1>12, <1>a, AdvanceFacts DEF MainExtract, HeldOK, MainOK
  <2>2. /\ main.next = ShardCount => main'.pc = "write" /\ main'.next = 1
        /\ main.next # ShardCount => main'.pc = "extract" /\ main'.next = main.next + 1
    BY <1>a, <2>1, AdvanceFacts
  <2>3. ASSUME NEW s \in Shards
        PROVE  /\ ShutBefore(s)
               /\ SweptBefore(s)' => SweptBefore(s) \/ s = main.next
    BY SMTT(60), <1>b, <2>1, <2>2 DEF ShutBefore, SweptBefore
  <2>4. ASSUME NEW s \in Shards PROVE SweptBefore(s)' => held'[s] = {}
    BY <2>1, <2>3 DEF StopInv
  <2>. QED  BY <2>1, <2>2, <2>3, <2>4 DEF StopInv
<1>13. CASE MainWrite \/ MainReturn
  <2>1. /\ main.pc = "write" /\ main'.pc \in {"write", "stopped"}
        /\ UNCHANGED <<stops, raw, writer, parser, shardQ, agg, held>>
    BY <1>13, <1>a DEF MainWrite, MainReturn, Goto, MainOK
  <2>2. \A s \in Shards : ShutBefore(s) /\ SweptBefore(s)
    BY <2>1 DEF ShutBefore, SweptBefore
  <2>. QED  BY <2>1, <2>2 DEF StopInv
<1>. QED
  BY <1>1, <1>2, <1>3, <1>4, <1>5, <1>6, <1>7, <1>8, <1>9, <1>10, <1>11, <1>12, <1>13
  DEF Next, ParserStep, AggStep, StartStep, StopStep

----------------------------------------------------------------------------
(* Routing, and the windows of a flush *)

(* Before start() no trade is anywhere. *)
LEMMA RouteInit == Init => RouteInv /\ FlushInv
<1>. SUFFICES ASSUME Init PROVE RouteInv /\ FlushInv
  OBVIOUS
<1>1. WindowSet({})
  BY FiniteEmpty DEF WindowSet
<1>2. ASSUME NEW s \in Shards
      PROVE  Range(shardQ[s].items) = {} /\ agg[s].hold = {} /\ held[s] = {}
  BY SMTT(60) DEF Init, NewQueue, Range
<1>. QED  BY <1>1, <1>2 DEF Init, RouteInv, FlushInv

(* The parser pushes a trade to the shard of its symbol, and it stays with *)
(* that shard until it is flushed.                                         *)
LEMMA RouteKept == TypeOK /\ RouteInv /\ [Next]_vars => RouteInv'
<1>. SUFFICES ASSUME TypeOK, RouteInv, [Next]_vars PROVE RouteInv'
  OBVIOUS
<1>. USE DEF vars, inVars, stageVars, flushVars, lifeVars, outVars
<1>a. ShardsOK /\ ParserOK /\ AggOK /\ HeldOK /\ MainOK /\ WriterOK
  BY TypeParts
<1>b. ShardCapacity \in Nat
  BY ShardFacts
<1>c. ASSUME NEW s \in Shards
      PROVE  /\ shardQ[s] \in QueueOf(Trades, {ShardCapacity})
             /\ Len(shardQ[s].items) <= ShardCapacity
             /\ shardQ[s].items \in Seq(Trades)
  BY <1>a DEF ShardsOK, QueueOf
<1>d. ASSUME \A s \in Shards :
               \A t \in Range(shardQ'[s].items) \cup agg'[s].hold \cup held'[s] :
                 \/ t \in Range(shardQ[s].items) \cup agg[s].hold \cup held[s]
                 \/ ShardOf(SymbolOf[t]) = s
      PROVE  RouteInv'
  BY <1>d DEF RouteInv
<1>1. CASE UNCHANGED <<shardQ, agg, held>>
  BY <1>1 DEF RouteInv
<1>2. CASE ParserPush
  <2>1. PICK t \in parser.hold :
          /\ PushReturns(shardQ[ShardOf(SymbolOf[t])])
          /\ shardQ' = [shardQ EXCEPT ![ShardOf(SymbolOf[t])] = Push(@, t)]
    BY <1>2 DEF ParserPush
  <2>2. t \in Trades /\ UNCHANGED <<agg, held>>
    BY <1>2, <1>a DEF ParserPush, ParserOK
  <2>3. ASSUME NEW s \in Shards, NEW u \in Range(shardQ'[s].items)
        PROVE  u \in Range(shardQ[s].items) \/ ShardOf(SymbolOf[u]) = s
    <3>1. CASE s # ShardOf(SymbolOf[t])
      BY <1>a, <2>1, <3>1 DEF ShardsOK
    <3>2. CASE s = ShardOf(SymbolOf[t])
      <4>1. shardQ'[s] = Push(shardQ[s], t) /\ PushReturns(shardQ[s])
        BY <1>a, <2>1, <3>2 DEF ShardsOK
      <4>2. shardQ'[s].items \in {shardQ[s].items, Append(shardQ[s].items, t)}
        <5>1. CASE shardQ[s].shutdown
          BY <4>1, <5>1 DEF Push
        <5>2. CASE ~shardQ[s].shutdown
          BY SMTT(60), <1>c, <4>1, <5>2, PushAppends
        <5>. QED  BY <5>1, <5>2
      <4>3. Range(Append(shardQ[s].items, t)) = Range(shardQ[s].items) \cup {t}
        BY SMTT(60), <1>c, <2>2, RangeAppend
      <4>. QED  BY <3>2, <4>2, <4>3
    <3>. QED  BY <3>1, <3>2
  <2>. QED  BY <1>d, <2>2, <2>3
<1>3. ASSUME NEW x \in Shards, AggPop(x) PROVE RouteInv'
  <2>1. /\ UNCHANGED held
        /\ \A s \in Shards : s # x => agg'[s] = agg[s] /\ shardQ'[s] = shardQ[s]
        /\ shardQ'[x] = Pop(shardQ[x])
        /\ agg'[x].hold = {} \/ (~Drained(shardQ[x]) /\ agg'[x].hold = {Oldest(shardQ[x])})
    BY <1>3, <1>a DEF AggPop, AggOK, ShardsOK
  <2>2. CASE shardQ[x].items = <<>>
    <3>1. shardQ'[x] = shardQ[x] /\ agg'[x].hold = {}
      BY <1>3, <2>1, <2>2 DEF Pop, AggPop, PopReturns, Drained
    <3>. QED  BY <1>d, <2>1, <3>1
  <2>3. CASE shardQ[x].items # <<>>
    <3>1. /\ shardQ'[x].items = Tail(shardQ[x].items)
          /\ Oldest(shardQ[x]) = Head(shardQ[x].items)
      BY SMTT(60), <1>b, <1>c, <2>1, <2>3, PopFacts
    <3>2. Range(shardQ[x].items) = Range(shardQ'[x].items) \cup {Oldest(shardQ[x])}
      BY <1>c, <2>3, <3>1, RangeTail
    <3>. QED  BY <1>d, <2>1, <3>2
  <2>. QED  BY <2>2, <2>3
<1>4. ASSUME NEW x \in Shards, AggAdd(x) PROVE RouteInv'
  <2>1. /\ UNCHANGED shardQ
        /\ \A s \in Shards : s # x => agg'[s] = agg[s] /\ held'[s] = held[s]
        /\ agg'[x].hold = {} /\ held'[x] = held[x] \cup agg[x].hold
    BY <1>4, <1>a DEF AggAdd, AggOK, HeldOK
  <2>. QED  BY <1>d, <2>1
<1>5. CASE WriterExtract
  <2>1. UNCHANGED <<shardQ, agg>> /\ \A s \in Shards : held'[s] \subseteq held[s]
    BY <1>5, <1>a DEF WriterExtract, HeldOK
  <2>. QED  BY <1>d, <2>1
<1>6. CASE StartAgg
  <2>1. /\ UNCHANGED <<shardQ, held>>
        /\ \A s \in Shards : agg'[s] = agg[s] \/ agg'[s].hold = {}
    BY <1>6, <1>a DEF StartAgg, AggOK
  <2>. QED  BY <1>d, <2>1
<1>7. CASE ShutShard
  <2>1. /\ UNCHANGED <<agg, held>>
        /\ \A s \in Shards : shardQ'[s] = shardQ[s] \/ shardQ'[s] = Shutdown(shardQ[s])
    BY <1>7, <1>a DEF ShutShard, ShardsOK
  <2>2. \A s \in Shards : shardQ'[s].items = shardQ[s].items
    BY <1>c, <2>1 DEF Shutdown, QueueOf
  <2>. QED  BY <1>d, <2>1, <2>2
<1>8. CASE MainExtract
  <2>1. UNCHANGED <<shardQ, agg>> /\ \A s \in Shards : held'[s] \subseteq held[s]
    BY <1>8, <1>a DEF MainExtract, HeldOK
  <2>. QED  BY <1>d, <2>1
<1>. QED
  BY ZenonT(60), <1>1, <1>2, <1>3, <1>4, <1>5, <1>6, <1>7, <1>8
  DEF Next, Submit, ParserStep, ParserPop, AggStep, WriterStep, WriterTimeout,
      WriterWrite, WriterReturn, WriterEnd, StartParser, StartStep, StartWriter,
      StopRequest, StopStep, ShutRaw, MainWrite, MainReturn, AdjustClock,
      WriterFails, MainFails, SinkFails

(* A flush meets the windows of a symbol in one shard only, and takes each *)
(* once.                                                                   *)
LEMMA FlushKept ==
  SetFacts /\ TypeOK /\ ThreadInv /\ RouteInv /\ FlushInv /\ [Next]_vars => FlushInv'
<1>. SUFFICES ASSUME SetFacts, TypeOK, ThreadInv, RouteInv, FlushInv, [Next]_vars
              PROVE  FlushInv'
  OBVIOUS
<1>. USE DEF vars, inVars, stageVars, flushVars, lifeVars, outVars
<1>a. HeldOK /\ MainOK /\ WriterOK
  BY TypeParts
<1>b. /\ Shards = 1..ShardCount /\ ShardCount \in Nat \ {0}
      /\ main.next \in Shards /\ writer.next \in Shards
      /\ \A symbol \in Symbols : ShardOf(symbol) \in Shards
  BY <1>a, ShardFacts DEF MainOK, WriterOK
<1>c. UNCHANGED <<writer, main>> => FlushInv'
  BY DEF FlushInv
<1>d. WindowSet({})
  BY FiniteEmpty DEF WindowSet
<1>e. ASSUME NEW s \in Shards, NEW X \in SUBSET held[s], NEW W, WindowSet(W),
             \A w \in W : ShardOf(w.symbol) < s
      PROVE  /\ WindowSet(W \cup WindowsOf(X))
             /\ s # ShardCount => \A w \in W \cup WindowsOf(X) : ShardOf(w.symbol) < s + 1
  <2>1. X \in SUBSET Trades
    BY <1>a DEF HeldOK
  <2>2. \A w \in WindowsOf(X) : ShardOf(w.symbol) = s
    <3>1. \A w \in WindowsOf(X) : \E t \in X : w.symbol = SymbolOf[t]
      BY <2>1, WindowsOfFacts
    <3>2. \A t \in X : ShardOf(SymbolOf[t]) = s
      BY DEF RouteInv
    <3>. QED  BY <3>1, <3>2
  <2>3. \A v \in W, w \in WindowsOf(X) : v.symbol # w.symbol
    BY SMTT(60), <1>b, <1>e, <2>2
  <2>4. WindowSet(WindowsOf(X))
    BY <2>1, WindowsOfFacts
  <2>5. \A w \in W : ShardOf(w.symbol) \in Nat
    BY SMTT(60), <1>b, <1>e DEF WindowSet, Window
  <2>6. WindowSet(W \cup WindowsOf(X))
    BY <1>e, <2>3, <2>4, WindowSetUnion
  <2>7. ASSUME NEW w \in W \cup WindowsOf(X) PROVE ShardOf(w.symbol) < s + 1
    BY SMTT(60), <1>b, <1>e, <2>2, <2>5
  <2>. QED  BY <2>6, <2>7
<1>1. CASE WriterTimeout
  <2>1. writer'.taken = {} /\ UNCHANGED main
    BY <1>1 DEF WriterTimeout
  <2>. QED  BY <1>d, <2>1 DEF FlushInv
<1>2. CASE WriterExtract
  <2>. DEFINE gone == CompletedTrades(held[writer.next], writer.cutoff)
  <2>1. gone \in SUBSET held[writer.next]
    BY DEF CompletedTrades
  <2>. HIDE DEF gone
  <2>2. /\ writer.pc = "extract" /\ writer'.taken = writer.taken \cup WindowsOf(gone)
        /\ writer.next = ShardCount => writer'.pc = "write"
        /\ writer.next # ShardCount => writer'.next = writer.next + 1
        /\ UNCHANGED main
    BY <1>2, <1>a DEF WriterExtract, WriterOK, gone
  <2>3. WindowSet(writer.taken) /\ \A w \in writer.taken : ShardOf(w.symbol) < writer.next
    BY <2>2 DEF FlushInv
  <2>4. /\ WindowSet(writer'.taken)
        /\ writer.next # ShardCount =>
             \A w \in writer'.taken : ShardOf(w.symbol) < writer.next + 1
    <3>1. /\ WindowSet(writer.taken \cup WindowsOf(gone))
          /\ writer.next # ShardCount => \A w \in writer.taken \cup WindowsOf(gone) :
                                          ShardOf(w.symbol) < writer.next + 1
      BY <1>b, <1>e, <2>1, <2>3
    <3>. QED  BY <2>2, <3>1
  <2>. QED  BY <2>2, <2>4 DEF FlushInv
<1>3. CASE WriterWrite
  <2>1. /\ writer'.taken = writer.taken \ Snapshot(writer.taken) /\ writer.taken # {}
        /\ writer'.pc = "write" /\ UNCHANGED main
    BY <1>3, <1>a DEF WriterWrite, WriterOK
  <2>2. WindowSet(writer.taken \ Snapshot(writer.taken))
    BY <2>1, SnapshotFacts DEF FlushInv
  <2>. QED  BY <2>1, <2>2 DEF FlushInv
<1>4. CASE WriterReturn \/ WriterEnd \/ StartWriter
  <2>1. /\ writer'.taken = writer.taken /\ main'.taken = main.taken
        /\ writer'.pc # "extract" /\ (main'.pc # "extract" \/ UNCHANGED main)
    BY <1>4, <1>a DEF WriterReturn, WriterEnd, StartWriter, Goto, WriterOK, MainOK
  <2>. QED  BY <2>1 DEF FlushInv
<1>5. CASE StartParser \/ StartAgg \/ StopRequest \/ ShutRaw \/ MainReturn
  <2>1. /\ UNCHANGED writer /\ main'.taken = main.taken /\ main'.pc # "extract"
    BY SMTT(60), <1>5, <1>a, AdvanceFacts
       DEF StartParser, StartAgg, StopRequest, ShutRaw, MainReturn, Goto, MainOK
  <2>. QED  BY <2>1 DEF FlushInv
<1>6. CASE ShutShard
  <2>1. UNCHANGED writer /\ main'.taken = main.taken /\ main.pc = "shutShards"
    BY SMTT(60), <1>6, <1>a, AdvanceFacts DEF ShutShard
  <2>2. main.taken = {}
    BY <2>1 DEF ThreadInv
  <2>. QED  BY <2>1, <2>2 DEF FlushInv
<1>7. CASE MainExtract
  <2>1. /\ main.pc = "extract" /\ UNCHANGED writer
        /\ main'.taken = main.taken \cup WindowsOf(held[main.next])
        /\ main'.pc = Advance("write").pc /\ main'.next = Advance("write").next
    BY SMTT(60), <1>7, <1>a, AdvanceFacts DEF MainExtract
  <2>2. WindowSet(main.taken) /\ \A w \in main.taken : ShardOf(w.symbol) < main.next
    BY <2>1 DEF FlushInv
  <2>3. /\ WindowSet(main'.taken)
        /\ main.next # ShardCount =>
             \A w \in main'.taken : ShardOf(w.symbol) < main.next + 1
    <3>1. /\ WindowSet(main.taken \cup WindowsOf(held[main.next]))
          /\ main.next # ShardCount =>
               \A w \in main.taken \cup WindowsOf(held[main.next]) :
                 ShardOf(w.symbol) < main.next + 1
      BY <1>b, <1>e, <2>2
    <3>. QED  BY <2>1, <3>1
  <2>4. /\ main.next = ShardCount => main'.pc = "write"
        /\ main.next # ShardCount => main'.next = main.next + 1
    BY <1>a, <2>1, AdvanceFacts
  <2>. QED  BY <2>1, <2>3, <2>4 DEF FlushInv
<1>8. CASE MainWrite
  <2>1. /\ main'.taken = main.taken \ Snapshot(main.taken) /\ main.taken # {}
        /\ main'.pc = "write" /\ UNCHANGED writer
    BY <1>8, <1>a DEF MainWrite, MainOK
  <2>2. WindowSet(main.taken \ Snapshot(main.taken))
    BY <2>1, SnapshotFacts DEF FlushInv
  <2>. QED  BY <2>1, <2>2 DEF FlushInv
<1>. QED
  BY <1>c, <1>1, <1>2, <1>3, <1>4, <1>5, <1>6, <1>7, <1>8
  DEF Next, Submit, ParserStep, ParserPop, ParserPush, AggStep, AggPop, AggAdd,
      WriterStep, StartStep, StopStep, AdjustClock, WriterFails, MainFails, SinkFails

----------------------------------------------------------------------------
(* What the invariant says when stop() has returned *)

(* The places by number, now and after a step. *)
LEMMA Places ==
  /\ Place[1] = InRaw /\ Place[2] = parser.hold /\ Place[3] = InShards
  /\ Place[4] = Adding /\ Place[5] = Held /\ Place[6] = WriterHas
  /\ Place[7] = MainHas /\ Place[8] = Written
  /\ Place'[1] = InRaw' /\ Place'[2] = parser'.hold /\ Place'[3] = InShards'
  /\ Place'[4] = Adding' /\ Place'[5] = Held' /\ Place'[6] = WriterHas'
  /\ Place'[7] = MainHas' /\ Place'[8] = Written'
  /\ \A i \in 1..8 : i \in {1, 2, 3, 4, 5, 6, 7, 8}
BY SMTT(60) DEF Place

(* When stop() has returned, every thread has ended with its queue empty,  *)
(* and every aggregator and flush is empty.                                *)
LEMMA LosslessFromInv == PipelineInv => LosslessStop
<1>1. ASSUME PipelineInv, Stopped, Started PROVE accepted \cap Trades \subseteq Written
  <2>a. main.pc = "stopped" /\ parser.pc # "none"
    BY <1>1 DEF Stopped, Started
  <2>b. TypeOK /\ ThreadInv /\ StopInv /\ Conserved /\ RawOK /\ ParserOK /\ AggOK
    BY <1>1, TypeParts DEF PipelineInv
  <2>1. raw.shutdown /\ Joined(writer.pc)
    BY <2>a, <2>b DEF StopInv
  <2>2. ASSUME NEW s \in Shards
        PROVE  /\ shardQ[s].items = <<>> /\ agg[s].hold = {} /\ held[s] = {}
               /\ Joined(parser.pc)
    <3>1. shardQ[s].shutdown /\ Joined(agg[s].pc) /\ held[s] = {}
      BY <2>a, <2>b DEF StopInv, ShutBefore, SweptBefore
    <3>2. agg[s].pc = "done"
      BY <2>a, <2>b, <3>1 DEF ThreadInv, Joined
    <3>. QED  BY <2>b, <3>1, <3>2 DEF StopInv, ThreadInv, Drained
  <2>3. parser.pc = "done"
    <3>1. 1 \in Shards
      BY SMTT(60), ShardFacts
    <3>. QED  BY <2>2, <2>a, <3>1 DEF Joined
  <2>4. raw.items = <<>> /\ parser.hold = {} /\ writer.taken = {} /\ main.taken = {}
    BY <2>a, <2>b, <2>1, <2>3 DEF StopInv, ThreadInv, Drained, Joined
  <2>5. /\ InRaw = {} /\ parser.hold = {} /\ InShards = {} /\ Adding = {} /\ Held = {}
        /\ WriterHas = {} /\ MainHas = {}
    <3>1. Range(<<>>) = {}
      BY SMTT(60) DEF Range
    <3>. QED  BY <2>2, <2>4, <3>1
              DEF InRaw, InShards, Adding, Held, WriterHas, MainHas, TradesOf
  <2>6. ASSUME NEW t, NEW i \in 1..8, t \in Place[i] PROVE t \in Written
    BY <2>5, <2>6, Places
  <2>. QED  BY <2>b, <2>6 DEF Conserved, Spread
<1>. QED  BY <1>1 DEF LosslessStop
=============================================================================
