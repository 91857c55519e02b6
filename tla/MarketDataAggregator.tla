------------------------ MODULE MarketDataAggregator ------------------------
(***************************************************************************)
(* MarketDataAggregator (aggregation/MarketDataAggregator.cpp): the nested *)
(* map windows_ from symbols to window starts to WindowStats, and the      *)
(* operations on it, each of which the pipeline runs under a shard mutex.  *)
(***************************************************************************)
EXTENDS Decimal, Sequences, Functions

CONSTANTS Symbols, TradeTimes, Prices, Quantities,  \* what a TradeEvent can hold
          WindowMs,                               \* window_ms_
          MaxTrades                               \* bound: trades added

ASSUME AggregatorAssumption ==
  /\ TradeTimes \subseteq Nat
  /\ Prices \subseteq Int64 /\ Quantities \subseteq Int64
  /\ WindowMs \in Nat \ {0}
  /\ MaxTrades \in Nat

VARIABLES windows,   \* windows_
          held,      \* history: trades added and not extracted since
          added,     \* history: the number of trades added
          extracted  \* history: what the last extraction returned, and the
                     \* trades it was to return

vars == <<windows, held, added, extracted>>

TradeEvent == [symbol : Symbols, time : TradeTimes, price : Prices,
               quantity : Quantities, buyer_is_maker : BOOLEAN]

WindowStart(time) == time - (time % WindowMs)

Starts == {WindowStart(time) : time \in TradeTimes}

WindowStats == [symbol : Symbols, start : Nat, trade_count : Nat,
                total_volume : Int64, min_price : Int64, max_price : Int64,
                buyer_initiated : Nat, seller_initiated : Nat]

Empty == [x \in {} |-> x]

(* map[key] = value, and erasing what fails a test. *)
Put(map, key, value) ==
  [k \in DOMAIN map \cup {key} |-> IF k = key THEN value ELSE map[k]]

At(map, key, default) == IF key \in DOMAIN map THEN map[key] ELSE default

Init ==
  /\ windows = Empty
  /\ held = <<>>
  /\ added = 0
  /\ extracted = [stats |-> {}, trades |-> <<>>]

(* A new bucket: try_emplace, with the prices of the first trade. *)
NewStats(trade) ==
  [symbol |-> trade.symbol, start |-> WindowStart(trade.time),
   trade_count |-> 0, total_volume |-> 0,
   min_price |-> trade.price, max_price |-> trade.price,
   buyer_initiated |-> 0, seller_initiated |-> 0]

(* Mutant: the first price stays the minimum. *)
UpdatedKeepsMin(stats, trade, volume) ==
  [stats EXCEPT
     !.max_price = IF trade.price > @ THEN trade.price ELSE @,
     !.trade_count = @ + 1,
     !.total_volume = volume,
     !.buyer_initiated = IF trade.buyer_is_maker THEN @ ELSE @ + 1,
     !.seller_initiated = IF trade.buyer_is_maker THEN @ + 1 ELSE @]

Updated(stats, trade, volume) ==
  [stats EXCEPT
     !.min_price = IF trade.price < @ THEN trade.price ELSE @,
     !.max_price = IF trade.price > @ THEN trade.price ELSE @,
     !.trade_count = @ + 1,
     !.total_volume = volume,
     !.buyer_initiated = IF trade.buyer_is_maker THEN @ ELSE @ + 1,
     !.seller_initiated = IF trade.buyer_is_maker THEN @ + 1 ELSE @]

AddTrade(trade) ==
  LET start   == WindowStart(trade.time)
      buckets == At(windows, trade.symbol, Empty)
      stats   == At(buckets, start, NewStats(trade))
  IN  /\ added < MaxTrades
      /\ \E volume \in PlusOutcomes(stats.total_volume,
                                    Times(trade.price, trade.quantity)) :
           windows' = Put(windows, trade.symbol,
                          Put(buckets, start, Updated(stats, trade, volume)))
      /\ held' = Append(held, trade)
      /\ added' = added + 1
      /\ UNCHANGED extracted

(* window_stats: the empty set stands for nullopt. *)
StatsOf(symbol, start) ==
  LET buckets == At(windows, symbol, Empty)
  IN  IF start \in DOMAIN buckets THEN {buckets[start]} ELSE {}

AllStats == UNION {Range(windows[symbol]) : symbol \in DOMAIN windows}

ExtractAll ==
  /\ extracted' = [stats |-> AllStats, trades |-> held]
  /\ windows' = Empty
  /\ held' = <<>>
  /\ UNCHANGED added

(* Mutant: empty inner maps stay. *)
RemainingWithEmpty(cutoff) ==
  [symbol \in DOMAIN windows |->
     Restrict(windows[symbol],
              {start \in DOMAIN windows[symbol] : ~(start < cutoff)})]

(* A symbol whose last bucket was taken is erased as well. *)
Remaining(cutoff) ==
  LET kept(symbol) == {start \in DOMAIN windows[symbol] : ~(start < cutoff)}
  IN  [symbol \in {s \in DOMAIN windows : kept(s) # {}} |->
         Restrict(windows[symbol], kept(symbol))]

(* Mutant: the bucket at the cutoff is returned and kept. *)
ExtractCompletedCopies(cutoff) ==
  LET done(trade) == WindowStart(trade.time) < cutoff
      open(trade) == ~done(trade)
  IN  /\ extracted' = [stats |-> {w \in AllStats : w.start <= cutoff},
                       trades |-> SelectSeq(held, done)]
      /\ windows' = Remaining(cutoff)
      /\ held' = SelectSeq(held, open)
      /\ UNCHANGED added

ExtractCompleted(cutoff) ==
  LET done(trade) == WindowStart(trade.time) < cutoff
      open(trade) == ~done(trade)
  IN  /\ extracted' = [stats |-> {w \in AllStats : w.start < cutoff},
                       trades |-> SelectSeq(held, done)]
      /\ windows' = Remaining(cutoff)
      /\ held' = SelectSeq(held, open)
      /\ UNCHANGED added

Next ==
  \/ \E trade \in TradeEvent : AddTrade(trade)
  \/ ExtractAll
  \/ \E cutoff \in Starts : ExtractCompleted(cutoff)

Spec == Init /\ [][Next]_vars

-----------------------------------------------------------------------------
(* The reference: a window as a function of the trades it must sum up.     *)

TradesOf(trades, symbol, start) ==
  LET mine(trade) == trade.symbol = symbol /\ WindowStart(trade.time) = start
  IN  SelectSeq(trades, mine)

(* The exact volume times ScaleFactor, and what the truncated products sum *)
(* up to when no word overflows.                                           *)
ExactVolume(trades) ==
  LET sum[i \in 0..Len(trades)] ==
        IF i = 0 THEN 0 ELSE sum[i-1] + trades[i].price * trades[i].quantity
  IN  sum[Len(trades)]

Fits(trades) == ExactVolume(trades) <= ScaleFactor * Int64Max

Count(trades, Test(_)) == Len(SelectSeq(trades, Test))

(* w is what window_stats must report for a window that got these trades.  *)
(* Each product loses less than one unit of the last decimal place.        *)
SumsUp(w, trades) ==
  LET prices == {trades[i].price : i \in DOMAIN trades}
      maker(trade) == trade.buyer_is_maker
      taker(trade) == ~trade.buyer_is_maker
  IN  /\ w.trade_count = Len(trades)
      /\ w.min_price \in prices /\ \A p \in prices : w.min_price <= p
      /\ w.max_price \in prices /\ \A p \in prices : p <= w.max_price
      /\ w.buyer_initiated = Count(trades, taker)
      /\ w.seller_initiated = Count(trades, maker)

VolumeCloseTo(w, trades) ==
  /\ ScaleFactor * w.total_volume <= ExactVolume(trades)
  /\ ExactVolume(trades) < ScaleFactor * (w.total_volume + Len(trades))

-----------------------------------------------------------------------------
(* Types of the nested map: buckets sit under their own symbol and start,  *)
(* which is aligned to the window size, and erase() leaves no empty inner  *)
(* map behind, so a symbol that went quiet takes no memory.                *)
TypeOK ==
  /\ DOMAIN windows \subseteq Symbols
  /\ \A symbol \in DOMAIN windows :
       /\ DOMAIN windows[symbol] # {}
       /\ \A start \in DOMAIN windows[symbol] :
            /\ start % WindowMs = 0
            /\ windows[symbol][start] \in WindowStats
            /\ windows[symbol][start].symbol = symbol
            /\ windows[symbol][start].start = start
  /\ held \in Seq(TradeEvent)
  /\ added \in 0..MaxTrades
  /\ extracted.stats \subseteq WindowStats

(* window_stats reports a window exactly when a trade of it was added and  *)
(* not extracted since, and then the count, extremes and sides of exactly  *)
(* those trades, whatever order they came in and whatever was extracted in *)
(* between: a window refilled after an extraction starts afresh.           *)
WindowsSumUpTrades ==
  \A symbol \in Symbols, start \in Starts :
    LET trades == TradesOf(held, symbol, start)
        found  == StatsOf(symbol, start)
    IN  /\ (found = {}) <=> (trades = <<>>)
        /\ \A w \in found : SumsUp(w, trades)

(* The volume add_trade accumulates in fixed point stays within one unit   *)
(* of the last place per trade of the exact one, as long as the exact one  *)
(* can be represented.                                                     *)
VolumeTruncatedPerTrade ==
  \A symbol \in Symbols, start \in Starts :
    LET trades == TradesOf(held, symbol, start)
    IN  Fits(trades) => \A w \in StatsOf(symbol, start) : VolumeCloseTo(w, trades)

(* An extraction returns one bucket for every window of the trades it is   *)
(* to remove, summing up all of them, and none for the others.             *)
ExtractionExact ==
  LET trades == extracted.trades
      key(trade) == <<trade.symbol, WindowStart(trade.time)>>
  IN  /\ {<<w.symbol, w.start>> : w \in extracted.stats}
            = {key(trades[i]) : i \in DOMAIN trades}
      /\ \A w, v \in extracted.stats :
           w.symbol = v.symbol /\ w.start = v.start => w = v
      /\ \A w \in extracted.stats : SumsUp(w, TradesOf(trades, w.symbol, w.start))
=============================================================================
