---------------------- MODULE MarketDataPipelineProofs ----------------------
(***************************************************************************)
(* The theorems about MarketDataPipeline, for every value of its           *)
(* constants.                                                              *)
(*                                                                         *)
(* First that no trade is lost or counted twice: every step moves trades   *)
(* between eight places.  With the stages (PipelineStageProofs) and the    *)
(* output (PipelineOutputProofs) that makes the inductive invariant.  Then *)
(* the facts on finite sets, which all of this assumes as SetFacts, are    *)
(* discharged, and the steps become behaviours.                            *)
(***************************************************************************)
EXTENDS PipelineOutputProofs, FiniteSetTheorems

USE ZenonT(30)

----------------------------------------------------------------------------
(* Conservation of trades *)

(* Moving trades from one place to another loses none and copies none.     *)
LEMMA Move ==
  ASSUME NEW P, NEW Q, NEW i \in 1..8, NEW j \in 1..8, i # j,
         NEW X \in SUBSET P[i], Q[i] = P[i] \ X, Q[j] = P[j] \cup X,
         \A k \in 1..8 : k # i /\ k # j => Q[k] = P[k]
  PROVE  Spread(Q) = Spread(P) /\ (Apart(P) => Apart(Q))
<1>1. ASSUME NEW t PROVE (\E k \in 1..8 : t \in Q[k]) <=> (\E k \in 1..8 : t \in P[k])
  <2>1. ASSUME NEW k \in 1..8, t \in Q[k] PROVE \E l \in 1..8 : t \in P[l]
    <3>1. CASE k = i
      BY <2>1, <3>1
    <3>2. CASE k = j
      BY <2>1, <3>2
    <3>3. CASE k # i /\ k # j
      BY <2>1, <3>3
    <3>. QED  BY <3>1, <3>2, <3>3
  <2>2. ASSUME NEW k \in 1..8, t \in P[k] PROVE \E l \in 1..8 : t \in Q[l]
    <3>1. CASE k = i
      <4>1. t \in Q[i] \/ t \in Q[j]
        BY <2>2, <3>1
      <4>. QED  BY <4>1
    <3>2. CASE k = j
      BY <2>2, <3>2
    <3>3. CASE k # i /\ k # j
      BY <2>2, <3>3
    <3>. QED  BY <3>1, <3>2, <3>3
  <2>. QED  BY <2>1, <2>2
<1>2. Spread(Q) = Spread(P)
  BY <1>1 DEF Spread
<1>3. ASSUME Apart(P), NEW k \in 1..8, NEW l \in 1..8, k # l,
             NEW t \in Q[k], t \in Q[l]
      PROVE  FALSE
  <2>1. \A m \in 1..8 : t \in Q[m] =>
          \/ t \in P[m] /\ (m = i => t \notin X)
          \/ m = j /\ t \in X
    <3>. SUFFICES ASSUME NEW m \in 1..8, t \in Q[m]
                  PROVE  (t \in P[m] /\ (m = i => t \notin X)) \/ (m = j /\ t \in X)
      OBVIOUS
    <3>1. CASE m = i
      BY <3>1
    <3>2. CASE m = j
      BY <3>2
    <3>3. CASE m # i /\ m # j
      BY <3>3
    <3>. QED  BY <3>1, <3>2, <3>3
  <2>2. \A m, n \in 1..8 : m # n => ~(t \in P[m] /\ t \in P[n])
    BY <1>3 DEF Apart
  <2>3. t \in X => t \in P[i]
    OBVIOUS
  <2>. QED  BY <1>3, <2>1, <2>2, <2>3
<1>. QED  BY <1>2, <1>3 DEF Apart

(* Trades that are nowhere yet enter at one place. *)
LEMMA Enter ==
  ASSUME NEW P, NEW Q, NEW j \in 1..8, NEW X, X \cap Spread(P) = {},
         Q[j] = P[j] \cup X, \A k \in 1..8 : k # j => Q[k] = P[k]
  PROVE  Spread(Q) = Spread(P) \cup X /\ (Apart(P) => Apart(Q))
<1>1. ASSUME NEW t
      PROVE  (\E k \in 1..8 : t \in Q[k]) <=> (t \in X \/ \E k \in 1..8 : t \in P[k])
  <2>1. \A k \in 1..8 : t \in Q[k] <=> (t \in P[k] \/ (k = j /\ t \in X))
    OBVIOUS
  <2>. QED  BY <2>1
<1>2. Spread(Q) = Spread(P) \cup X
  BY SMTT(60), <1>1 DEF Spread
<1>3. ASSUME Apart(P), NEW k \in 1..8, NEW l \in 1..8, k # l,
             NEW t \in Q[k], t \in Q[l]
      PROVE  FALSE
  <2>1. \A m \in 1..8 : t \in Q[m] => (t \in P[m] \/ (m = j /\ t \in X))
    OBVIOUS
  <2>2. \A m, n \in 1..8 : m # n => ~(t \in P[m] /\ t \in P[n])
    BY <1>3 DEF Apart
  <2>3. t \in X => \A m \in 1..8 : t \notin P[m]
    BY DEF Spread
  <2>. QED  BY <1>3, <2>1, <2>2, <2>3
<1>. QED  BY <1>2, <1>3 DEF Apart

(* A union over the shards when one of them changes. *)
LEMMA OneShard ==
  ASSUME NEW f, NEW g, NEW x \in Shards, NEW X,
         \A s \in Shards : s # x => g[s] = f[s]
  PROVE  /\ g[x] = f[x] \cup X =>
              UNION {g[s] : s \in Shards} = (UNION {f[s] : s \in Shards}) \cup X
         /\ g[x] = f[x] \ X /\ (\A s \in Shards : s # x => f[s] \cap X = {}) =>
              UNION {g[s] : s \in Shards} = (UNION {f[s] : s \in Shards}) \ X
<1>1. ASSUME g[x] = f[x] \cup X, NEW t
      PROVE  (\E s \in Shards : t \in g[s]) <=> (t \in X \/ \E s \in Shards : t \in f[s])
  <2>1. \A s \in Shards : t \in g[s] <=> (t \in f[s] \/ (s = x /\ t \in X))
    BY <1>1
  <2>. QED  BY <2>1
<1>2. ASSUME g[x] = f[x] \ X, \A s \in Shards : s # x => f[s] \cap X = {}, NEW t
      PROVE  (\E s \in Shards : t \in g[s]) <=> (t \notin X /\ \E s \in Shards : t \in f[s])
  <2>1. \A s \in Shards : t \in g[s] <=> (t \in f[s] /\ t \notin X)
    BY <1>2
  <2>. QED  BY <2>1
<1>3. ASSUME g[x] = f[x] \cup X
      PROVE  UNION {g[s] : s \in Shards} = (UNION {f[s] : s \in Shards}) \cup X
  BY SMTT(60), <1>1, <1>3
<1>4. ASSUME g[x] = f[x] \ X, \A s \in Shards : s # x => f[s] \cap X = {}
      PROVE  UNION {g[s] : s \in Shards} = (UNION {f[s] : s \in Shards}) \ X
  BY SMTT(60), <1>2, <1>4
<1>. QED  BY <1>3, <1>4

(* Before start() there is no trade in any place. *)
LEMMA TradeInit == Init => Conserved /\ OnePlace
<1>. SUFFICES ASSUME Init PROVE Conserved /\ OnePlace
  OBVIOUS
<1>1. Range(raw.items) = {} /\ IsInjective(raw.items)
  BY SMTT(60) DEF Init, NewQueue, Range, IsInjective
<1>2. ASSUME NEW s \in Shards
      PROVE  /\ Range(shardQ[s].items) = {} /\ IsInjective(shardQ[s].items)
             /\ agg[s].hold = {} /\ held[s] = {}
  BY SMTT(60) DEF Init, NewQueue, Range, IsInjective
<1>3. /\ InRaw = {} /\ parser.hold = {} /\ InShards = {} /\ Adding = {} /\ Held = {}
      /\ WriterHas = {} /\ MainHas = {} /\ Written = {}
  BY SMTT(60), <1>1, <1>2
  DEF Init, InRaw, InShards, Adding, Held, WriterHas, MainHas, Written, TradesOf
<1>4. \A i \in 1..8 : Place[i] = {}
  BY <1>3, Places
<1>5. Spread(Place) = {} /\ Apart(Place)
  BY <1>4 DEF Spread, Apart
<1>6. accepted = {} /\ \A i \in 1..5 : Place[i] \cap Place[8] = {}
  BY SMTT(60), <1>4 DEF Init
<1>. QED  BY <1>1, <1>2, <1>5, <1>6 DEF Conserved, OnePlace

(* The part of OnePlace that is about the queues. *)
QueuesDistinct ==
  /\ IsInjective(raw.items) /\ Range(raw.items) \subseteq accepted
  /\ \A s \in Shards : IsInjective(shardQ[s].items)

(* X leaves place i for place j, and nothing else moves. *)
Moves(i, j, X) ==
  /\ X \subseteq Place[i]
  /\ Place'[i] = Place[i] \ X /\ Place'[j] = Place[j] \cup X
  /\ \A k \in 1..8 : k # i /\ k # j => Place'[k] = Place[k]
  /\ UNCHANGED accepted /\ QueuesDistinct'

(* No trade changes its place. *)
Stays ==
  /\ \A k \in 1..8 : Place'[k] = Place[k]
  /\ UNCHANGED <<accepted, crashed>> /\ QueuesDistinct'

(* A trade that moves between two places is neither lost nor doubled.      *)
LEMMA MoveKept ==
  ASSUME Conserved, OnePlace, ~crashed,
         NEW i \in 1..8, NEW j \in 1..8, i # j, NEW X, Moves(i, j, X)
  PROVE  Conserved' /\ OnePlace'
<1>1. Apart(Place)
  BY DEF OnePlace
<1>2. /\ X \in SUBSET Place[i] /\ Place'[i] = Place[i] \ X /\ Place'[j] = Place[j] \cup X
      /\ \A k \in 1..8 : k # i /\ k # j => Place'[k] = Place[k]
  BY DEF Moves
<1>3. UNCHANGED accepted /\ QueuesDistinct'
  BY DEF Moves
<1>4. Spread(Place') = Spread(Place) /\ Apart(Place')
  BY <1>1, <1>2, Move
<1>. QED  BY SMTT(60), <1>3, <1>4 DEF Conserved, OnePlace, QueuesDistinct, Apart

(* A step that moves no trade keeps the account as it is.                  *)
LEMMA StayKept ==
  ASSUME Conserved, OnePlace, Stays PROVE Conserved' /\ OnePlace'
<1>1. Spread(Place') = Spread(Place) /\ (Apart(Place) => Apart(Place'))
  BY DEF Stays, Spread, Apart
<1>2. \A i \in 1..5 : Place'[i] \cap Place'[8] = {}
  BY SMTT(60) DEF OnePlace, Stays
<1>. QED  BY <1>1, <1>2 DEF Conserved, OnePlace, QueuesDistinct, Stays

(* What the two kinds of queue hold, as the type invariant has it.         *)
LEMMA QueuesTyped ==
  ASSUME TypeOK
  PROVE  /\ QueueCapacity \in Nat /\ ShardCapacity \in Nat
         /\ raw \in QueueOf(Messages, {QueueCapacity}) /\ Len(raw.items) <= QueueCapacity
         /\ raw.items \in Seq(Messages)
         /\ \A s \in Shards : /\ shardQ[s] \in QueueOf(Trades, {ShardCapacity})
                              /\ Len(shardQ[s].items) <= ShardCapacity
                              /\ shardQ[s].items \in Seq(Trades)
BY TypeParts, ShardFacts, PipelineAssumption DEF RawOK, ShardsOK, QueueOf

(* The queues' part of OnePlace. *)
LEMMA Distinct == OnePlace => QueuesDistinct
BY DEF OnePlace, QueuesDistinct

(* A place changes only with the variables it is made of.                  *)
LEMMA Unmoved ==
  /\ UNCHANGED raw => InRaw' = InRaw
  /\ UNCHANGED parser => parser'.hold = parser.hold
  /\ UNCHANGED shardQ => InShards' = InShards
  /\ UNCHANGED agg => Adding' = Adding
  /\ UNCHANGED held => Held' = Held
  /\ UNCHANGED writer => WriterHas' = WriterHas
  /\ UNCHANGED main => MainHas' = MainHas
  /\ UNCHANGED output => Written' = Written
  /\ OnePlace /\ UNCHANGED <<raw, shardQ, accepted>> => QueuesDistinct'
<1>1. /\ UNCHANGED raw => InRaw' = InRaw
      /\ UNCHANGED shardQ => InShards' = InShards
      /\ UNCHANGED agg => Adding' = Adding
      /\ UNCHANGED held => Held' = Held
  BY DEF InRaw, InShards, Adding, Held
<1>2. /\ UNCHANGED writer => WriterHas' = WriterHas
      /\ UNCHANGED main => MainHas' = MainHas
      /\ UNCHANGED output => Written' = Written
  BY DEF WriterHas, MainHas, Written
<1>3. OnePlace /\ UNCHANGED <<raw, shardQ, accepted>> => QueuesDistinct'
  BY Distinct DEF QueuesDistinct
<1>. QED  BY <1>1, <1>2, <1>3

(* What the places and the queues say of OnePlace in the next state.       *)
LEMMA OnePlaceAgain == Apart(Place') /\ QueuesDistinct' => OnePlace'
BY SMTT(60) DEF OnePlace, QueuesDistinct, Apart

(* Routing keeps the trades of two shards apart.                           *)
LEMMA ShardsApart ==
  ASSUME RouteInv, NEW s \in Shards, NEW u \in Shards, s # u
  PROVE  /\ Range(shardQ[s].items) \cap Range(shardQ[u].items) = {}
         /\ agg[s].hold \cap agg[u].hold = {} /\ held[s] \cap held[u] = {}
BY SMTT(60) DEF RouteInv

(* submit_raw_message lets one new message into the raw queue, or none.    *)
LEMMA SubmitMoves ==
  ASSUME TypeOK, Conserved, OnePlace, NEW m \in Messages, Submit(m), ~crashed
  PROVE  Conserved' /\ OnePlace'
<1>. USE DEF vars, inVars, stageVars, flushVars, lifeVars, outVars
<1>1. /\ UNCHANGED <<shardQ, parser, agg, held, writer, main, output, crashed>>
      /\ m \notin submitted /\ accepted \subseteq submitted /\ PushReturns(raw)
      /\ raw' = Push(raw, m)
      /\ accepted' = IF raw.shutdown THEN accepted ELSE accepted \cup {m}
  BY TypeParts DEF Submit, HistoryOK
<1>2. CASE raw.shutdown
  <2>1. UNCHANGED <<raw, accepted>>
    BY <1>1, <1>2 DEF Push
  <2>2. Stays
    <3>1. /\ InRaw' = InRaw /\ parser'.hold = parser.hold /\ InShards' = InShards
          /\ Adding' = Adding /\ Held' = Held /\ WriterHas' = WriterHas
          /\ MainHas' = MainHas /\ Written' = Written
      BY Unmoved, <1>1, <2>1
    <3>2. UNCHANGED <<accepted, crashed>> /\ QueuesDistinct'
      BY Unmoved, <1>1, <2>1
    <3>. QED  BY SMTT(60), <3>1, <3>2, Places DEF Stays
  <2>. QED  BY StayKept, <2>2
<1>3. CASE ~raw.shutdown
  <2>. DEFINE X == {m} \cap Trades
  <2>1. raw'.items = Append(raw.items, m) /\ accepted' = accepted \cup {m}
    BY SMTT(60), QueuesTyped, <1>1, <1>3, PushFacts
  <2>2. m \notin accepted /\ m \notin Range(raw.items)
    BY Distinct, <1>1 DEF QueuesDistinct
  <2>3. Range(raw'.items) = Range(raw.items) \cup {m} /\ IsInjective(raw'.items)
    BY SMTT(60), QueuesTyped, Distinct, <2>1, <2>2, RangeAppend DEF QueuesDistinct
  <2>4. QueuesDistinct'
    BY Distinct, <1>1, <2>1, <2>3 DEF QueuesDistinct
  <2>5. InRaw' = InRaw \cup X
    BY <2>3 DEF InRaw
  <2>6. Place'[1] = Place[1] \cup X /\ \A k \in 1..8 : k # 1 => Place'[k] = Place[k]
    BY SMTT(60), Unmoved, <1>1, <2>5, Places
  <2>7. X \cap Spread(Place) = {}
    BY <2>2 DEF Conserved
  <2>. HIDE DEF X
  <2>8. Spread(Place') = Spread(Place) \cup X /\ (Apart(Place) => Apart(Place'))
    <3>1. 1 \in 1..8
      BY SMTT(60)
    <3>. QED  BY <2>6, <2>7, <3>1, Enter
  <2>9. Apart(Place)
    BY DEF OnePlace
  <2>10. Conserved'
    BY <2>1, <2>8 DEF Conserved, X
  <2>. QED  BY OnePlaceAgain, <2>4, <2>8, <2>9, <2>10
<1>. QED  BY <1>2, <1>3

(* pop() of the raw queue hands the oldest message to the parser.          *)
LEMMA ParserPopMoves ==
  ASSUME TypeOK, ThreadInv, Conserved, OnePlace, ParserPop, ~crashed
  PROVE  Conserved' /\ OnePlace'
<1>. USE DEF vars, inVars, stageVars, flushVars, lifeVars, outVars
<1>1. /\ UNCHANGED <<shardQ, agg, held, writer, main, output, crashed, accepted>>
      /\ parser.hold = {} /\ raw' = Pop(raw)
      /\ Drained(raw) => parser'.hold = {}
      /\ ~Drained(raw) /\ Oldest(raw) \in Trades => parser'.hold = {Oldest(raw)}
      /\ ~Drained(raw) /\ Oldest(raw) \notin Trades => parser'.hold = {}
  BY DEF ParserPop, ThreadInv
<1>2. CASE raw.items = <<>>
  <2>1. UNCHANGED raw /\ Drained(raw)
    BY <1>1, <1>2 DEF Pop, ParserPop, PopReturns, Drained
  <2>2. Stays
    <3>1. /\ InRaw' = InRaw /\ parser'.hold = parser.hold /\ InShards' = InShards
          /\ Adding' = Adding /\ Held' = Held /\ WriterHas' = WriterHas
          /\ MainHas' = MainHas /\ Written' = Written
      BY Unmoved, <1>1, <2>1
    <3>2. UNCHANGED <<accepted, crashed>> /\ QueuesDistinct'
      BY Unmoved, <1>1, <2>1
    <3>. QED  BY SMTT(60), <3>1, <3>2, Places DEF Stays
  <2>. QED  BY StayKept, <2>2
<1>3. CASE raw.items # <<>>
  <2>1. raw'.items = Tail(raw.items) /\ Oldest(raw) = Head(raw.items)
    BY SMTT(60), QueuesTyped, <1>1, <1>3, PopFacts
  <2>2. /\ Range(raw.items) = Range(raw'.items) \cup {Oldest(raw)}
        /\ IsInjective(raw'.items) /\ Oldest(raw) \notin Range(raw'.items)
    BY ZenonT(60), QueuesTyped, Distinct, <1>3, <2>1, RangeTail DEF QueuesDistinct
  <2>3. QueuesDistinct'
    BY Distinct, <1>1, <2>2 DEF QueuesDistinct
  <2>4. ~Drained(raw)
    BY <1>3 DEF Drained
  <2>5. CASE Oldest(raw) \in Trades
    <3>. DEFINE X == {Oldest(raw)}
    <3>1. InRaw' = InRaw \ X /\ X \in SUBSET InRaw /\ parser'.hold = parser.hold \cup X
      BY <1>1, <2>2, <2>4, <2>5 DEF InRaw
    <3>. HIDE DEF X
    <3>2. Moves(1, 2, X)
      <4>1. /\ InShards' = InShards /\ Adding' = Adding /\ Held' = Held
            /\ WriterHas' = WriterHas /\ MainHas' = MainHas /\ Written' = Written
        BY Unmoved, <1>1
      <4>2. UNCHANGED accepted /\ QueuesDistinct'
        BY Unmoved, <1>1, <2>3
      <4>. QED  BY <4>1, <4>2, <3>1, Places DEF Moves
    <3>. QED  BY SMTT(60), MoveKept, <3>2
  <2>6. CASE Oldest(raw) \notin Trades
    <3>1. InRaw' = InRaw /\ parser'.hold = parser.hold
      BY <1>1, <2>2, <2>4, <2>6 DEF InRaw
    <3>2. Stays
      <4>1. /\ InRaw' = InRaw /\ parser'.hold = parser.hold /\ InShards' = InShards
            /\ Adding' = Adding /\ Held' = Held /\ WriterHas' = WriterHas
            /\ MainHas' = MainHas /\ Written' = Written
        BY Unmoved, <1>1, <3>1
      <4>2. UNCHANGED <<accepted, crashed>> /\ QueuesDistinct'
        BY Unmoved, <1>1, <2>3
      <4>. QED  BY SMTT(60), <4>1, <4>2, Places DEF Stays
    <3>. QED  BY StayKept, <3>2
  <2>. QED  BY <2>5, <2>6
<1>. QED  BY <1>2, <1>3

(* push() of the parsed trade puts it into the queue of its symbol's shard. *)
LEMMA ParserPushMoves ==
  ASSUME TypeOK, ThreadInv, StopInv, RouteInv, Conserved, OnePlace, ParserPush, ~crashed
  PROVE  Conserved' /\ OnePlace'
<1>. USE DEF vars, inVars, stageVars, flushVars, lifeVars, outVars
<1>1. PICK t \in parser.hold :
        /\ PushReturns(shardQ[ShardOf(SymbolOf[t])])
        /\ shardQ' = [shardQ EXCEPT ![ShardOf(SymbolOf[t])] = Push(@, t)]
  BY DEF ParserPush
<1>. DEFINE x == ShardOf(SymbolOf[t])
            X == {t}
            f == [s \in Shards |-> Range(shardQ[s].items)]
            g == [s \in Shards |-> Range(shardQ'[s].items)]
<1>2. /\ UNCHANGED <<raw, agg, held, writer, main, output, crashed, accepted>>
      /\ parser.pc = "push" /\ parser.hold = {t} /\ parser'.hold = {}
  BY <1>1 DEF ParserPush, ThreadInv
<1>3. t \in Trades /\ x \in Shards
  BY TypeParts, ShardFacts, WindowOfFacts DEF ParserOK
<1>4. ~shardQ[x].shutdown
  BY <1>2, <1>3 DEF StopInv, Joined
<1>5. /\ shardQ'[x] = Push(shardQ[x], t) /\ PushReturns(shardQ[x])
      /\ \A s \in Shards : s # x => shardQ'[s] = shardQ[s]
  BY TypeParts, <1>1, <1>3 DEF ShardsOK
<1>6. t \notin Range(shardQ[x].items)
  <2>1. Place[2] \cap Place[3] = {}
    BY SMTT(60) DEF OnePlace, Apart
  <2>2. t \notin InShards
    BY <1>2, <2>1, Places
  <2>. QED  BY <1>3, <2>2 DEF InShards
<1>. HIDE DEF x
<1>7. shardQ'[x].items = Append(shardQ[x].items, t)
  <2>1. shardQ[x] \in QueueOf(Trades, {ShardCapacity})
    BY QueuesTyped, <1>3
  <2>2. Push(shardQ[x], t).items = Append(shardQ[x].items, t)
    BY SMTT(60), <1>4, <2>1, PushAppends
  <2>. QED  BY <1>5, <2>2
<1>8. /\ Range(shardQ'[x].items) = Range(shardQ[x].items) \cup {t}
      /\ IsInjective(shardQ'[x].items)
  BY SMTT(60), QueuesTyped, Distinct, <1>3, <1>6, <1>7, RangeAppend DEF QueuesDistinct
<1>9. QueuesDistinct'
  BY Distinct, <1>2, <1>5, <1>8 DEF QueuesDistinct
<1>10. InShards' = InShards \cup X
  <2>1. g[x] = f[x] \cup X /\ \A s \in Shards : s # x => g[s] = f[s]
    BY <1>3, <1>5, <1>8
  <2>2. UNION {g[s] : s \in Shards} = (UNION {f[s] : s \in Shards}) \cup X
    <3>. HIDE DEF f, g, X
    <3>. QED  BY SMTT(60), <1>3, <2>1, OneShard
  <2>3. InShards = UNION {f[s] : s \in Shards} /\ InShards' = UNION {g[s] : s \in Shards}
    BY DEF InShards
  <2>. QED  BY <2>2, <2>3
<1>11. parser'.hold = parser.hold \ X /\ X \in SUBSET parser.hold
  BY <1>2
<1>. HIDE DEF X
<1>12. Moves(2, 3, X)
  <2>1. /\ InRaw' = InRaw /\ Adding' = Adding /\ Held' = Held /\ WriterHas' = WriterHas
        /\ MainHas' = MainHas /\ Written' = Written
    BY Unmoved, <1>2
  <2>2. UNCHANGED accepted /\ QueuesDistinct'
    BY Unmoved, <1>2, <1>9
  <2>. QED  BY ZenonT(60), <2>1, <2>2, <1>10, <1>11, Places DEF Moves
<1>. QED  BY SMTT(60), MoveKept, <1>12

(* pop() of a shard's queue hands its oldest trade to the aggregator.      *)
LEMMA AggPopMoves ==
  ASSUME TypeOK, ThreadInv, RouteInv, Conserved, OnePlace,
         NEW x \in Shards, AggPop(x), ~crashed
  PROVE  Conserved' /\ OnePlace'
<1>. USE DEF vars, inVars, stageVars, flushVars, lifeVars, outVars
<1>1. /\ UNCHANGED <<raw, parser, held, writer, main, output, crashed, accepted>>
      /\ \A s \in Shards : s # x => agg'[s] = agg[s] /\ shardQ'[s] = shardQ[s]
      /\ shardQ'[x] = Pop(shardQ[x]) /\ agg[x].pc = "pop"
      /\ Drained(shardQ[x]) => agg'[x].hold = {}
      /\ ~Drained(shardQ[x]) => agg'[x].hold = {Oldest(shardQ[x])}
  BY TypeParts DEF AggPop, AggOK, ShardsOK
<1>2. agg[x].hold = {}
  BY <1>1 DEF ThreadInv
<1>3. CASE shardQ[x].items = <<>>
  <2>1. shardQ'[x] = shardQ[x] /\ agg'[x].hold = {}
    BY <1>1, <1>3 DEF Pop, AggPop, PopReturns, Drained
  <2>2. InShards' = InShards /\ Adding' = Adding /\ QueuesDistinct'
    BY ZenonT(60), Distinct, <1>1, <1>2, <2>1 DEF InShards, Adding, QueuesDistinct
  <2>3. Stays
    <3>1. /\ InRaw' = InRaw /\ parser'.hold = parser.hold /\ InShards' = InShards
          /\ Adding' = Adding /\ Held' = Held /\ WriterHas' = WriterHas
          /\ MainHas' = MainHas /\ Written' = Written
      BY Unmoved, <1>1, <2>2
    <3>2. UNCHANGED <<accepted, crashed>> /\ QueuesDistinct'
      BY Unmoved, <1>1, <2>2
    <3>. QED  BY SMTT(60), <3>1, <3>2, Places DEF Stays
  <2>. QED  BY StayKept, <2>3
<1>4. CASE shardQ[x].items # <<>>
  <2>. DEFINE X == {Oldest(shardQ[x])}
              f == [s \in Shards |-> Range(shardQ[s].items)]
              g == [s \in Shards |-> Range(shardQ'[s].items)]
              h == [s \in Shards |-> agg[s].hold]
              k == [s \in Shards |-> agg'[s].hold]
  <2>1. shardQ'[x].items = Tail(shardQ[x].items)
        /\ Oldest(shardQ[x]) = Head(shardQ[x].items)
    BY SMTT(60), QueuesTyped, <1>1, <1>4, PopFacts
  <2>2. /\ Range(shardQ[x].items) = Range(shardQ'[x].items) \cup {Oldest(shardQ[x])}
        /\ IsInjective(shardQ'[x].items)
        /\ Oldest(shardQ[x]) \notin Range(shardQ'[x].items)
    BY ZenonT(60), QueuesTyped, Distinct, <1>4, <2>1, RangeTail DEF QueuesDistinct
  <2>3. QueuesDistinct'
    BY Distinct, <1>1, <2>2 DEF QueuesDistinct
  <2>4. agg'[x].hold = agg[x].hold \cup X
    BY <1>1, <1>2, <1>4 DEF Drained
  <2>5. InShards' = InShards \ X
    <3>1. /\ g[x] = f[x] \ X /\ \A s \in Shards : s # x => g[s] = f[s]
          /\ \A s \in Shards : s # x => f[s] \cap X = {}
      BY ShardsApart, <1>1, <2>2
    <3>2. UNION {g[s] : s \in Shards} = (UNION {f[s] : s \in Shards}) \ X
      <4>. HIDE DEF f, g, X
      <4>. QED  BY SMTT(60), <3>1, OneShard
    <3>3. InShards = UNION {f[s] : s \in Shards} /\ InShards' = UNION {g[s] : s \in Shards}
      BY DEF InShards
    <3>. QED  BY <3>2, <3>3
  <2>6. Adding' = Adding \cup X
    <3>1. k[x] = h[x] \cup X /\ \A s \in Shards : s # x => k[s] = h[s]
      BY <1>1, <2>4
    <3>2. UNION {k[s] : s \in Shards} = (UNION {h[s] : s \in Shards}) \cup X
      <4>. HIDE DEF h, k, X
      <4>. QED  BY SMTT(60), <3>1, OneShard
    <3>3. Adding = UNION {h[s] : s \in Shards} /\ Adding' = UNION {k[s] : s \in Shards}
      BY DEF Adding
    <3>. QED  BY <3>2, <3>3
  <2>7. X \in SUBSET InShards
    BY <2>2 DEF InShards
  <2>. HIDE DEF X
  <2>8. Moves(3, 4, X)
    <3>1. /\ InRaw' = InRaw /\ parser'.hold = parser.hold /\ Held' = Held
          /\ WriterHas' = WriterHas /\ MainHas' = MainHas /\ Written' = Written
      BY Unmoved, <1>1
    <3>2. UNCHANGED accepted /\ QueuesDistinct'
      BY Unmoved, <1>1, <2>3
    <3>. QED  BY ZenonT(60), <3>1, <3>2, <2>5, <2>6, <2>7, Places DEF Moves
  <2>. QED  BY SMTT(60), MoveKept, <2>8
<1>. QED  BY <1>3, <1>4

(* add_trade puts the aggregator's trade into the shard's map.             *)
LEMMA AggAddMoves ==
  ASSUME TypeOK, RouteInv, Conserved, OnePlace, NEW x \in Shards, AggAdd(x), ~crashed
  PROVE  Conserved' /\ OnePlace'
<1>. USE DEF vars, inVars, stageVars, flushVars, lifeVars, outVars
<1>. DEFINE X == agg[x].hold
            f == [s \in Shards |-> held[s]]
            g == [s \in Shards |-> held'[s]]
            h == [s \in Shards |-> agg[s].hold]
            k == [s \in Shards |-> agg'[s].hold]
<1>1. /\ UNCHANGED <<raw, shardQ, parser, writer, main, output, crashed, accepted>>
      /\ \A s \in Shards : s # x => agg'[s] = agg[s] /\ held'[s] = held[s]
      /\ agg'[x].hold = {} /\ held'[x] = held[x] \cup X
  BY TypeParts DEF AggAdd, AggOK, HeldOK
<1>2. Held' = Held \cup X
  <2>1. g[x] = f[x] \cup X /\ \A s \in Shards : s # x => g[s] = f[s]
    BY <1>1
  <2>2. UNION {g[s] : s \in Shards} = (UNION {f[s] : s \in Shards}) \cup X
    <3>. HIDE DEF f, g, X
    <3>. QED  BY SMTT(60), <2>1, OneShard
  <2>3. Held = UNION {f[s] : s \in Shards} /\ Held' = UNION {g[s] : s \in Shards}
    BY DEF Held
  <2>. QED  BY <2>2, <2>3
<1>3. Adding' = Adding \ X
  <2>1. /\ k[x] = h[x] \ X /\ \A s \in Shards : s # x => k[s] = h[s]
        /\ \A s \in Shards : s # x => h[s] \cap X = {}
    BY ShardsApart, <1>1
  <2>2. UNION {k[s] : s \in Shards} = (UNION {h[s] : s \in Shards}) \ X
    <3>. HIDE DEF h, k, X
    <3>. QED  BY SMTT(60), <2>1, OneShard
  <2>3. Adding = UNION {h[s] : s \in Shards} /\ Adding' = UNION {k[s] : s \in Shards}
    BY DEF Adding
  <2>. QED  BY <2>2, <2>3
<1>4. X \in SUBSET Adding
  BY DEF Adding
<1>. HIDE DEF X
<1>5. Moves(4, 5, X)
  <2>1. /\ InRaw' = InRaw /\ parser'.hold = parser.hold /\ InShards' = InShards
        /\ WriterHas' = WriterHas /\ MainHas' = MainHas /\ Written' = Written
    BY Unmoved, <1>1
  <2>2. UNCHANGED accepted /\ QueuesDistinct'
    BY Unmoved, <1>1
  <2>. QED  BY ZenonT(60), <2>1, <2>2, <1>2, <1>3, <1>4, Places DEF Moves
<1>. QED  BY SMTT(60), MoveKept, <1>5

(* An extraction takes what it takes from one shard's map only.            *)
LEMMA HeldLess ==
  ASSUME TypeOK, RouteInv, NEW x \in Shards, NEW X \in SUBSET held[x],
         \A s \in Shards : s # x => held'[s] = held[s], held'[x] = held[x] \ X
  PROVE  Held' = Held \ X /\ X \in SUBSET Held /\ X \in SUBSET Trades
<1>. DEFINE f == [s \in Shards |-> held[s]]
            g == [s \in Shards |-> held'[s]]
<1>1. /\ g[x] = f[x] \ X /\ \A s \in Shards : s # x => g[s] = f[s]
      /\ \A s \in Shards : s # x => f[s] \cap X = {}
  BY ShardsApart
<1>2. UNION {g[s] : s \in Shards} = (UNION {f[s] : s \in Shards}) \ X
  <2>. HIDE DEF f, g
  <2>. QED  BY SMTT(60), <1>1, OneShard
<1>3. Held = UNION {f[s] : s \in Shards} /\ Held' = UNION {g[s] : s \in Shards}
  BY DEF Held
<1>4. X \in SUBSET Held /\ X \in SUBSET Trades
  BY TypeParts DEF Held, HeldOK
<1>. QED  BY <1>2, <1>3, <1>4

(* The trades of two sets of windows together. *)
LEMMA TradesOfUnion == \A V, W : TradesOf(V \cup W) = TradesOf(V) \cup TradesOf(W)
BY DEF TradesOf

(* extract_completed hands the finished windows of a shard to the writer.  *)
LEMMA WriterExtractMoves ==
  ASSUME SetFacts, TypeOK, RouteInv, Conserved, OnePlace, WriterExtract, ~crashed
  PROVE  Conserved' /\ OnePlace'
<1>. USE DEF vars, inVars, stageVars, flushVars, lifeVars, outVars
<1>. DEFINE X == CompletedTrades(held[writer.next], writer.cutoff)
<1>1. X \in SUBSET held[writer.next] /\ writer.next \in Shards
  BY TypeParts DEF CompletedTrades, WriterOK
<1>. HIDE DEF X
<1>2. /\ UNCHANGED <<raw, shardQ, parser, agg, main, output, crashed, accepted>>
      /\ \A s \in Shards : s # writer.next => held'[s] = held[s]
      /\ held'[writer.next] = held[writer.next] \ X
      /\ writer'.taken = writer.taken \cup WindowsOf(X)
  BY TypeParts, <1>1 DEF WriterExtract, HeldOK, WriterOK, X
<1>3. Held' = Held \ X /\ X \in SUBSET Held /\ X \in SUBSET Trades
  BY HeldLess, <1>1, <1>2
<1>4. WriterHas' = WriterHas \cup X
  <2>1. TradesOf(WindowsOf(X)) = X
    BY <1>3, WindowsOfFacts
  <2>. QED  BY ZenonT(60), TradesOfUnion, <1>2, <2>1 DEF WriterHas
<1>5. Moves(5, 6, X)
  <2>1. /\ InRaw' = InRaw /\ parser'.hold = parser.hold /\ InShards' = InShards
        /\ Adding' = Adding /\ MainHas' = MainHas /\ Written' = Written
    BY Unmoved, <1>2
  <2>2. UNCHANGED accepted /\ QueuesDistinct'
    BY Unmoved, <1>2
  <2>. QED  BY <2>1, <2>2, <1>3, <1>4, Places DEF Moves
<1>. QED  BY SMTT(60), MoveKept, <1>5

(* extract_all hands every window of a shard to the stopping thread.       *)
LEMMA MainExtractMoves ==
  ASSUME SetFacts, TypeOK, RouteInv, Conserved, OnePlace, MainExtract, ~crashed
  PROVE  Conserved' /\ OnePlace'
<1>. USE DEF vars, inVars, stageVars, flushVars, lifeVars, outVars
<1>. DEFINE X == held[main.next]
<1>1. main.next \in Shards
  BY TypeParts DEF MainOK
<1>2. /\ UNCHANGED <<raw, shardQ, parser, agg, writer, output, crashed, accepted>>
      /\ \A s \in Shards : s # main.next => held'[s] = held[s]
      /\ held'[main.next] = held[main.next] \ X
      /\ main'.taken = main.taken \cup WindowsOf(X)
  BY SMTT(60), TypeParts, <1>1, AdvanceFacts DEF MainExtract, HeldOK
<1>3. X \in SUBSET held[main.next]
  OBVIOUS
<1>. HIDE DEF X
<1>4. Held' = Held \ X /\ X \in SUBSET Held /\ X \in SUBSET Trades
  BY HeldLess, <1>1, <1>2, <1>3
<1>5. MainHas' = MainHas \cup X
  <2>1. TradesOf(WindowsOf(X)) = X
    BY <1>4, WindowsOfFacts
  <2>. QED  BY SMTT(60), TradesOfUnion, <1>2, <2>1 DEF MainHas
<1>6. Moves(5, 7, X)
  <2>1. /\ InRaw' = InRaw /\ parser'.hold = parser.hold /\ InShards' = InShards
        /\ Adding' = Adding /\ WriterHas' = WriterHas /\ Written' = Written
    BY Unmoved, <1>2
  <2>2. UNCHANGED accepted /\ QueuesDistinct'
    BY Unmoved, <1>2
  <2>. QED  BY ZenonT(60), <2>1, <2>2, <1>4, <1>5, Places DEF Moves
<1>. QED  BY SMTT(60), MoveKept, <1>6

(* A block in the file holds exactly the trades of its snapshot.           *)
LEMMA WrittenMore ==
  ASSUME SetFacts, TypeOK, NEW W, WindowSet(W), W # {}, WriteSnapshot(W)
  PROVE  Written' = Written \cup TradesOf(Snapshot(W))
<1>1. PICK lines \in SortedBySymbol(Snapshot(W)) :
        output' = Append(output, Serialize(FirstStart(W), lines))
  BY DEF WriteSnapshot
<1>. DEFINE b == Serialize(FirstStart(W), lines)
<1>2. b \in Block /\ LinesIn(b) = Snapshot(W)
  BY BlockFacts
<1>. HIDE DEF b
<1>3. output \in Seq(Block) /\ output' = Append(output, b)
  BY TypeParts, <1>1 DEF OutputOK, b
<1>. QED  BY <1>2, <1>3, WrittenAppend

(* sink_.write moves a snapshot of the writer thread's windows to the file. *)
LEMMA WriterWriteMoves ==
  ASSUME SetFacts, TypeOK, FlushInv, Conserved, OnePlace, WriterWrite, ~crashed
  PROVE  Conserved' /\ OnePlace'
<1>. USE DEF vars, inVars, stageVars, flushVars, lifeVars, outVars
<1>. DEFINE X == TradesOf(Snapshot(writer.taken))
<1>1. /\ UNCHANGED <<raw, shardQ, parser, agg, held, main, crashed, accepted>>
      /\ writer.taken # {} /\ WriteSnapshot(writer.taken)
      /\ writer'.taken = writer.taken \ Snapshot(writer.taken)
  BY TypeParts DEF WriterWrite, WriterOK
<1>2. WindowSet(writer.taken)
  BY DEF FlushInv
<1>3. Written' = Written \cup X
  BY WrittenMore, <1>1, <1>2
<1>4. WriterHas' = WriterHas \ X /\ X \in SUBSET WriterHas
  <2>1. /\ TradesOf(writer.taken \ Snapshot(writer.taken)) = TradesOf(writer.taken) \ X
        /\ X \in SUBSET TradesOf(writer.taken)
    BY <1>1, <1>2, SnapshotFacts
  <2>. QED  BY <1>1, <2>1 DEF WriterHas
<1>. HIDE DEF X
<1>5. Moves(6, 8, X)
  <2>1. /\ InRaw' = InRaw /\ parser'.hold = parser.hold /\ InShards' = InShards
        /\ Adding' = Adding /\ Held' = Held /\ MainHas' = MainHas
    BY Unmoved, <1>1
  <2>2. UNCHANGED accepted /\ QueuesDistinct'
    BY Unmoved, <1>1
  <2>. QED  BY ZenonT(60), <2>1, <2>2, <1>3, <1>4, Places DEF Moves
<1>. QED  BY SMTT(60), MoveKept, <1>5

(* sink_.write moves a snapshot of the stopping thread's windows to the file. *)
LEMMA MainWriteMoves ==
  ASSUME SetFacts, TypeOK, FlushInv, Conserved, OnePlace, MainWrite, ~crashed
  PROVE  Conserved' /\ OnePlace'
<1>. USE DEF vars, inVars, stageVars, flushVars, lifeVars, outVars
<1>. DEFINE X == TradesOf(Snapshot(main.taken))
<1>1. /\ UNCHANGED <<raw, shardQ, parser, agg, held, writer, crashed, accepted>>
      /\ main.taken # {} /\ WriteSnapshot(main.taken)
      /\ main'.taken = main.taken \ Snapshot(main.taken)
  BY TypeParts DEF MainWrite, MainOK
<1>2. WindowSet(main.taken)
  BY DEF FlushInv
<1>3. Written' = Written \cup X
  BY WrittenMore, <1>1, <1>2
<1>4. MainHas' = MainHas \ X /\ X \in SUBSET MainHas
  <2>1. /\ TradesOf(main.taken \ Snapshot(main.taken)) = TradesOf(main.taken) \ X
        /\ X \in SUBSET TradesOf(main.taken)
    BY <1>1, <1>2, SnapshotFacts
  <2>. QED  BY <1>1, <2>1 DEF MainHas
<1>. HIDE DEF X
<1>5. Moves(7, 8, X)
  <2>1. /\ InRaw' = InRaw /\ parser'.hold = parser.hold /\ InShards' = InShards
        /\ Adding' = Adding /\ Held' = Held /\ WriterHas' = WriterHas
    BY Unmoved, <1>1
  <2>2. UNCHANGED accepted /\ QueuesDistinct'
    BY Unmoved, <1>1
  <2>. QED  BY ZenonT(60), <2>1, <2>2, <1>3, <1>4, Places DEF Moves
<1>. QED  BY SMTT(60), MoveKept, <1>5

(* The steps of the writer between extraction and write move no trade.     *)
LEMMA WriterStays ==
  ASSUME TypeOK, ThreadInv, OnePlace, WriterTimeout \/ WriterReturn \/ WriterEnd
  PROVE  Stays
<1>. USE DEF vars, inVars, stageVars, flushVars, lifeVars, outVars
<1>1. /\ UNCHANGED <<raw, shardQ, parser, agg, held, main, output, crashed, accepted>>
      /\ writer'.taken = writer.taken
  <2>1. CASE WriterTimeout
    BY <2>1 DEF WriterTimeout, ThreadInv
  <2>2. CASE WriterReturn \/ WriterEnd
    BY <2>2, TypeParts DEF WriterReturn, WriterEnd, WriterOK
  <2>. QED  BY <2>1, <2>2
<1>2. WriterHas' = WriterHas
  BY <1>1 DEF WriterHas
<1>3. Stays
  <2>1. /\ InRaw' = InRaw /\ parser'.hold = parser.hold /\ InShards' = InShards
        /\ Adding' = Adding /\ Held' = Held /\ WriterHas' = WriterHas
        /\ MainHas' = MainHas /\ Written' = Written
    BY Unmoved, <1>1, <1>2
  <2>2. UNCHANGED <<accepted, crashed>> /\ QueuesDistinct'
    BY Unmoved, <1>1
  <2>. QED  BY ZenonT(60), <2>1, <2>2, Places DEF Stays
<1>. QED  BY <1>3

(* start() creates threads and moves no trade.                             *)
LEMMA StartStays ==
  ASSUME TypeOK, ThreadInv, OnePlace, StartParser \/ StartAgg \/ StartWriter
  PROVE  Stays
<1>. USE DEF vars, inVars, stageVars, flushVars, lifeVars, outVars
<1>1. /\ UNCHANGED <<raw, shardQ, held, output, crashed, accepted>>
      /\ writer'.taken = writer.taken /\ main'.taken = main.taken
      /\ parser'.hold = parser.hold
  BY SMTT(60), TypeParts, AdvanceFacts
     DEF StartParser, StartAgg, StartWriter, Goto, WriterOK, MainOK, ParserOK
<1>2. \A s \in Shards : agg'[s].hold = agg[s].hold
  <2>1. CASE UNCHANGED agg
    BY <2>1
  <2>2. CASE StartAgg
    <3>1. main.next \in Shards /\ main.pc = "startAggs" /\ main.next >= main.next
      BY SMTT(60), <2>2, TypeParts, ShardFacts DEF StartAgg, MainOK
    <3>2. agg[main.next].pc = "none"
      BY <3>1 DEF ThreadInv
    <3>3. agg[main.next].hold = {}
      BY <3>1, <3>2 DEF ThreadInv
    <3>. QED  BY <2>2, TypeParts, <3>3 DEF StartAgg, AggOK
  <2>. QED  BY <2>1, <2>2 DEF StartParser, StartWriter
<1>3. WriterHas' = WriterHas /\ MainHas' = MainHas /\ Adding' = Adding
  BY <1>1, <1>2 DEF WriterHas, MainHas, Adding
<1>4. Stays
  <2>1. /\ InRaw' = InRaw /\ parser'.hold = parser.hold /\ InShards' = InShards
        /\ Adding' = Adding /\ Held' = Held /\ WriterHas' = WriterHas
        /\ MainHas' = MainHas /\ Written' = Written
    BY Unmoved, <1>1, <1>3
  <2>2. UNCHANGED <<accepted, crashed>> /\ QueuesDistinct'
    BY Unmoved, <1>1
  <2>. QED  BY SMTT(60), <2>1, <2>2, Places DEF Stays
<1>. QED  BY <1>4

(* stop()'s calls and joins move no trade. *)
LEMMA StopStays ==
  ASSUME TypeOK, OnePlace, StopRequest \/ ShutRaw \/ ShutShard \/ MainReturn
  PROVE  Stays
<1>. USE DEF vars, inVars, stageVars, flushVars, lifeVars, outVars
<1>1. /\ UNCHANGED <<parser, agg, held, writer, output, crashed, accepted>>
      /\ main'.taken = main.taken
      /\ raw' = raw \/ raw' = Shutdown(raw)
      /\ \A s \in Shards : shardQ'[s] = shardQ[s] \/ shardQ'[s] = Shutdown(shardQ[s])
  BY SMTT(60), TypeParts, AdvanceFacts
     DEF StopRequest, ShutRaw, ShutShard, MainReturn, Goto, MainOK, ShardsOK
<1>2. raw'.items = raw.items /\ \A s \in Shards : shardQ'[s].items = shardQ[s].items
  BY QueuesTyped, <1>1 DEF Shutdown, QueueOf
<1>3. MainHas' = MainHas /\ InRaw' = InRaw /\ InShards' = InShards /\ QueuesDistinct'
  BY Distinct, <1>1, <1>2 DEF MainHas, InRaw, InShards, QueuesDistinct
<1>4. Stays
  <2>1. /\ InRaw' = InRaw /\ parser'.hold = parser.hold /\ InShards' = InShards
        /\ Adding' = Adding /\ Held' = Held /\ WriterHas' = WriterHas
        /\ MainHas' = MainHas /\ Written' = Written
    BY Unmoved, <1>1, <1>3
  <2>2. UNCHANGED <<accepted, crashed>> /\ QueuesDistinct'
    BY Unmoved, <1>1, <1>3
  <2>. QED  BY ZenonT(60), <2>1, <2>2, Places DEF Stays
<1>. QED  BY <1>4

(* A jump of the clock moves no trade. *)
LEMMA ClockStays ==
  ASSUME OnePlace, AdjustClock \/ UNCHANGED vars
  PROVE  Stays
<1>. USE DEF vars, inVars, stageVars, flushVars, lifeVars, outVars
<1>1. UNCHANGED <<raw, shardQ, parser, agg, held, writer, main, output, crashed, accepted>>
  BY DEF AdjustClock
<1>2. Stays
  <2>1. /\ InRaw' = InRaw /\ parser'.hold = parser.hold /\ InShards' = InShards
        /\ Adding' = Adding /\ Held' = Held /\ WriterHas' = WriterHas
        /\ MainHas' = MainHas /\ Written' = Written
    BY Unmoved, <1>1
  <2>2. UNCHANGED <<accepted, crashed>> /\ QueuesDistinct'
    BY Unmoved, <1>1
  <2>. QED  BY ZenonT(60), <2>1, <2>2, Places DEF Stays
<1>. QED  BY <1>2

(* sink_.write that throws ends the process; the file may hold the block   *)
(* whose windows the thread still has, and loses none that it held.        *)
LEMMA SinkFailsKept ==
  ASSUME SetFacts, TypeOK, Conserved, OnePlace, NEW i \in {6, 7}, NEW W, WindowSet(W),
         Place[i] = TradesOf(W), SinkFails(W), ~crashed
  PROVE  Conserved' /\ OnePlace'
<1>. USE DEF vars, inVars, stageVars, flushVars, lifeVars, outVars
<1>1. /\ UNCHANGED <<raw, shardQ, parser, agg, held, writer, main, accepted>>
      /\ crashed' /\ W # {} /\ (WriteSnapshot(W) \/ UNCHANGED output)
  BY DEF SinkFails
<1>2. /\ Written \subseteq Written' /\ Written' \subseteq Written \cup Place[i]
  <2>1. TradesOf(Snapshot(W)) \subseteq TradesOf(W)
    BY <1>1, SnapshotFacts
  <2>. QED  BY Unmoved, WrittenMore, <1>1, <2>1
<1>3. /\ \A k \in 1..8 : k # 8 => Place'[k] = Place[k]
      /\ Place[8] \subseteq Place'[8] /\ Place'[8] \subseteq Place[8] \cup Place[i]
  BY ZenonT(60), Unmoved, <1>1, <1>2, Places
<1>4. i \in 1..8 /\ i # 8 /\ 8 \in 1..8 /\ \A k \in 1..5 : k \in 1..8 /\ k # i /\ k # 8
  BY SMTT(60)
<1>5. ASSUME NEW t PROVE (\E k \in 1..8 : t \in Place'[k]) <=> (\E k \in 1..8 : t \in Place[k])
  BY <1>3, <1>4
<1>6. Conserved'
  BY ZenonT(60), <1>1, <1>5 DEF Conserved, Spread
<1>7. \A k \in 1..5 : Place'[k] \cap Place'[8] = {}
  <2>1. Apart(Place)
    BY DEF OnePlace
  <2>. QED  BY <1>3, <1>4, <2>1 DEF Apart
<1>8. QueuesDistinct'
  BY ZenonT(60), Unmoved, <1>1
<1>. QED  BY <1>1, <1>6, <1>7, <1>8 DEF OnePlace, QueuesDistinct

(* Every step moves trades from one place to another, or lets one in by    *)
(* submit_raw_message; sink_.write that throws may leave a copy behind.    *)
LEMMA TradeKept ==
  SetFacts /\ TypeOK /\ ThreadInv /\ StopInv /\ RouteInv /\ FlushInv /\ Conserved /\ OnePlace
  /\ [Next]_vars => Conserved' /\ OnePlace'
<1>. SUFFICES ASSUME SetFacts, TypeOK, ThreadInv, StopInv, RouteInv, FlushInv, Conserved,
                     OnePlace, [Next]_vars
              PROVE  Conserved' /\ OnePlace'
  OBVIOUS
<1>1. CASE WriterTimeout \/ WriterReturn \/ WriterEnd
  BY <1>1, WriterStays, StayKept
<1>2. CASE StartParser \/ StartAgg \/ StartWriter
  BY <1>2, StartStays, StayKept
<1>3. CASE StopRequest \/ ShutRaw \/ ShutShard \/ MainReturn
  BY <1>3, StopStays, StayKept
<1>4. CASE AdjustClock \/ UNCHANGED vars
  BY <1>4, ClockStays, StayKept
<1>5. CASE WriterFails /\ ~crashed
  BY <1>5, SinkFailsKept, Places DEF WriterFails, FlushInv, WriterHas
<1>6. CASE MainFails /\ ~crashed
  BY <1>6, SinkFailsKept, Places DEF MainFails, FlushInv, MainHas
<1>. QED
  BY ZenonT(60), <1>1, <1>2, <1>3, <1>4, <1>5, <1>6, SubmitMoves, ParserPopMoves, ParserPushMoves,
     AggPopMoves, AggAddMoves, WriterExtractMoves, MainExtractMoves, WriterWriteMoves,
     MainWriteMoves
  DEF Next, ParserStep, AggStep, WriterStep, StartStep, StopStep

(* A block adds lines with trades that no line has yet. *)
LEMMA LineKept ==
  ASSUME SetFacts, TypeOK, FlushInv, OnePlace, LineInv, [Next]_vars PROVE LineInv'
<1>. USE DEF vars, outVars
<1>a. OutputOK
  BY TypeParts
<1>1. UNCHANGED output => LineInv'
  BY DEF LineInv
<1>2. ASSUME NEW W, WindowSet(W), W # {}, WriteSnapshot(W), TradesOf(W) \cap Written = {}
      PROVE  LineInv'
  <2>1. PICK lines \in SortedBySymbol(Snapshot(W)) :
          output' = Append(output, Serialize(FirstStart(W), lines))
    BY <1>2 DEF WriteSnapshot
  <2>. DEFINE b == Serialize(FirstStart(W), lines)
              n == Len(output)
  <2>2. b \in Block /\ LinesIn(b) = Snapshot(W) /\ Snapshot(W) \subseteq W
    BY <1>2, BlockFacts, SnapshotFacts
  <2>. HIDE DEF b
  <2>3. output \in Seq(Block) /\ output' = Append(output, b)
    BY <1>a, <2>1 DEF OutputOK, b
  <2>4. /\ n \in Nat /\ DOMAIN output = 1..n /\ DOMAIN output' = 1..(n + 1)
        /\ \A i \in 1..n : output'[i] = output[i]
        /\ output'[n + 1] = b
    BY SMTT(60), <2>2, <2>3, SeqAppend, SeqLen
  <2>5. \A i \in 1..(n + 1) : i \in 1..n \/ i = n + 1
    BY SMTT(60), <2>4
  <2>6. ASSUME NEW i \in 1..n, NEW v \in LinesIn(output[i]), NEW w \in W
        PROVE  v.trades \cap w.trades = {}
    <3>1. v.trades \subseteq TradesOf(LinesIn(output[i])) /\ w.trades \subseteq TradesOf(W)
      BY DEF TradesOf
    <3>2. TradesOf(LinesIn(output[i])) \subseteq Written
      BY <2>4 DEF Written
    <3>. QED  BY <1>2, <3>1, <3>2
  <2>7. \A v, w \in W : v.trades \cap w.trades # {} => v = w
    BY SMTT(60), <1>2 DEF WindowSet
  <2>. SUFFICES ASSUME NEW i \in 1..(n + 1), NEW j \in 1..(n + 1),
                       NEW v \in LinesIn(output'[i]), NEW w \in LinesIn(output'[j]),
                       v.trades \cap w.trades # {}
                PROVE  i = j /\ v = w
    BY <2>4 DEF LineInv
  <2>8. CASE i \in 1..n /\ j \in 1..n
    BY <2>4, <2>8 DEF LineInv
  <2>9. CASE i = n + 1 /\ j \in 1..n
    BY <2>2, <2>4, <2>6, <2>9
  <2>10. CASE i \in 1..n /\ j = n + 1
    BY <2>2, <2>4, <2>6, <2>10
  <2>11. CASE i = n + 1 /\ j = n + 1
    BY <2>2, <2>4, <2>7, <2>11
  <2>. QED  BY <2>5, <2>8, <2>9, <2>10, <2>11
<1>3. ASSUME ~crashed PROVE /\ TradesOf(writer.taken) \cap Written = {}
                            /\ TradesOf(main.taken) \cap Written = {}
  <2>1. Place[6] \cap Place[8] = {} /\ Place[7] \cap Place[8] = {}
    BY SMTT(60), <1>3 DEF OnePlace, Apart
  <2>. QED  BY <2>1, Places DEF WriterHas, MainHas
<1>4. CASE ~crashed /\ (WriterWrite \/ WriterFails)
  BY <1>1, <1>2, <1>3, <1>4 DEF WriterWrite, WriterFails, SinkFails, FlushInv
<1>5. CASE ~crashed /\ (MainWrite \/ MainFails)
  BY <1>1, <1>2, <1>3, <1>5 DEF MainWrite, MainFails, SinkFails, FlushInv
<1>. QED
  BY <1>1, <1>4, <1>5
  DEF Next, Submit, ParserStep, ParserPop, ParserPush, AggStep, AggPop, AggAdd,
      WriterStep, WriterTimeout, WriterExtract, WriterReturn, WriterEnd,
      StartParser, StartStep, StartAgg, StartWriter, StopRequest, StopStep,
      ShutRaw, ShutShard, MainExtract, MainReturn, AdjustClock

----------------------------------------------------------------------------
(* What the invariant says of trades and of stop() *)

(* By the time stop() flushes, it has joined the writer. *)
LEMMA WriterFromInv == PipelineInv => SingleWriter
BY DEF PipelineInv, StopInv, Joined, SingleWriter

(* The eight places are those that NoTradeLost names. *)
LEMMA ConservedFromInv == ASSUME PipelineInv PROVE NoTradeLost
<1>1. accepted \cap Trades = Spread(Place)
  BY DEF PipelineInv, Conserved
<1>. SUFFICES ASSUME NEW t, NEW i \in 1..8, t \in Place[i]
              PROVE  t \in Queued \cup InHand \cup Held \cup Taken \cup Written
  BY <1>1 DEF Spread, NoTradeLost
<1>. QED  BY SMTT(60), Places DEF InRaw, InShards, Adding, WriterHas, MainHas, Queued, InHand, Taken

(* A trade in the file is in no place from which it could be written       *)
(* again, and in one line.                                                 *)
LEMMA OnceFromInv == ASSUME PipelineInv PROVE WrittenOnce
<1>1. OnePlace /\ Conserved /\ LineInv
  BY DEF PipelineInv
<1>2. \A i \in 1..5 : Place[i] \cap Written = {}
  BY <1>1, Places DEF OnePlace
<1>3. InRaw \cap Written = {} /\ parser.hold \cap Written = {} /\ InShards \cap Written = {}
      /\ Adding \cap Written = {} /\ Held \cap Written = {}
  BY SMTT(60), <1>2, Places
<1>4. Written \subseteq Trades
  BY SMTT(60), <1>1, Places DEF Conserved, Spread
<1>5. Written \cap (Queued \cup InHand \cup Held) = {}
  BY <1>3, <1>4 DEF InRaw, InShards, Adding, Queued, InHand
<1>6. ~crashed => Written \cap Taken = {}
  <2>1. ~crashed => Place[6] \cap Place[8] = {} /\ Place[7] \cap Place[8] = {}
    BY SMTT(60), <1>1 DEF OnePlace, Apart
  <2>. QED  BY <2>1, Places DEF Taken, WriterHas, MainHas
<1>. QED  BY <1>1, <1>5, <1>6 DEF LineInv, WrittenOnce

----------------------------------------------------------------------------
(* Finite sets *)

(* A set of numbers that is not empty has a smallest element: what         *)
(* begin() of a std::map relies on.                                        *)
LEMMA LeastNatural ==
  ASSUME NEW S \in SUBSET Nat, S # {}
  PROVE  \E x \in S : \A y \in S : x <= y
<1>. DEFINE Below(x) == {y \in S : y < x}
            Belows == {Below(x) : x \in S}
<1>0. \A x \in S : x \in Nat
  OBVIOUS
<1>1. \A x \in S : Below(x) \in FiniteSubsetsOf(S)
  <2>. SUFFICES ASSUME NEW x \in S PROVE IsFiniteSet(Below(x))
    BY DEF FiniteSubsetsOf
  <2>1. ASSUME NEW y \in Below(x) PROVE y \in Nat /\ y <= x
    <3>1. x \in Nat /\ y \in Nat /\ y < x
      BY <1>0
    <3>. QED  BY SMTT(60), <3>1
  <2>. QED  BY <1>0, <2>1, FS_BoundedSetOfNaturals
<1>2. \E B \in Belows : \A C \in Belows : ~(<<C, B>> \in StrictSubsetOrdering(S))
  <2>1. Belows \subseteq FiniteSubsetsOf(S) /\ Belows # {}
    BY <1>1
  <2>. QED  BY <2>1, FS_StrictSubsetOrderingWellFounded, WFMin
<1>3. PICK x \in S : \A y \in S : ~(<<Below(y), Below(x)>> \in StrictSubsetOrdering(S))
  BY <1>2
<1>4. ASSUME NEW y \in S, y < x PROVE FALSE
  <2>1. Below(y) \subseteq Below(x) /\ Below(y) # Below(x)
    <3>1. y \in Below(x) /\ y \notin Below(y)
      BY SMTT(60), <1>4
    <3>2. ASSUME NEW z \in Below(y) PROVE z \in Below(x)
      <4>1. x \in Nat /\ y \in Nat /\ z \in Nat /\ z \in S /\ z < y
        BY <1>0
      <4>2. z < x
        BY SMTT(60), <1>4, <4>1
      <4>. QED  BY <4>1, <4>2
    <3>. QED  BY <3>1, <3>2
  <2>2. <<Below(y), Below(x)>> \in StrictSubsetOrdering(S)
    <3>. HIDE DEF Below
    <3>1. Below(x) \in SUBSET S /\ Below(y) \in SUBSET S
      BY DEF Below
    <3>. QED  BY <2>1, <3>1 DEF StrictSubsetOrdering
  <2>. QED  BY <1>3, <2>2
<1>5. \A y \in S : x <= y
  BY SMTT(60), <1>4
<1>. QED  BY <1>5

(* The facts on finite sets that the pipeline's proofs assume hold. *)
LEMMA SetFactsHold == SetFacts
<1>1. \A S \in SUBSET Nat : S # {} => \E x \in S : \A y \in S : x <= y
  BY LeastNatural
<1>2. \A S : IsFiniteSet(S) => Cardinality(S) \in Nat /\ (Cardinality(S) = 0 <=> S = {})
  BY FS_CardinalityType, FS_EmptySet
<1>3. \A S : IsFiniteSet(S) => \A T \in SUBSET S : IsFiniteSet(T)
  BY FS_Subset
<1>4. \A S, T : IsFiniteSet(S) /\ IsFiniteSet(T) => IsFiniteSet(S \cup T)
  BY FS_Union
<1>5. \A S, T : IsFiniteSet(S) => \A f \in Surjection(S, T) : IsFiniteSet(T)
  BY FS_Surjection
<1>. QED  BY <1>1, <1>2, <1>3, <1>4, <1>5 DEF SetFacts

----------------------------------------------------------------------------
(* The inductive invariant of the pipeline *)

(* The invariant holds when the constructor has returned. *)
LEMMA PipelineInit == Init => PipelineInv
<1>1. Init => LineInv
  BY SMTT(60) DEF Init, LineInv
<1>. QED  BY <1>1, TypeInit, ThreadInit, StopInit, RouteInit, TradeInit DEF PipelineInv

(* Every step of every thread keeps it. *)
LEMMA PipelineKept ==
  ASSUME SetFacts, PipelineInv, [Next]_vars PROVE PipelineInv'
BY TypeStep, ThreadKept, StopKept, RouteKept, FlushKept, TradeKept, LineKept
DEF PipelineInv

----------------------------------------------------------------------------
(* The theorems *)

(* The inductive invariant of all the proofs: where every thread and every *)
(* step of stop() can be, that each trade is in one place, and what the    *)
(* blocks in the file can hold.                                            *)
THEOREM Invariance == Spec => [](PipelineInv /\ OutputInv)
<1>1. Init => PipelineInv /\ OutputInv
  BY PipelineInit, OutputInit
<1>2. PipelineInv /\ OutputInv /\ [Next]_vars => (PipelineInv /\ OutputInv)'
  BY SetFactsHold, PipelineKept, OutputKept
<1>. QED  BY <1>1, <1>2, PTL DEF Spec

(* Every variable keeps its type: queues stay within their capacity, a     *)
(* thread's program counter within its loop.                               *)
THEOREM TypeCorrect == Spec => []TypeOK
<1>1. PipelineInv => TypeOK
  BY DEF PipelineInv
<1>. QED  BY <1>1, Invariance, PTL

(* write_windows() never runs in two threads: stop() joins the writer      *)
(* before its own flush.                                                   *)
THEOREM WritersExclude == Spec => []SingleWriter
BY WriterFromInv, Invariance, PTL

(* A trade that the raw queue accepted is in a queue, in a thread's hand,  *)
(* in an aggregator, in a snapshot or in the file: no step drops it.       *)
THEOREM TradesConserved == Spec => []NoTradeLost
<1>1. PipelineInv => NoTradeLost
  BY ConservedFromInv
<1>. QED  BY <1>1, Invariance, PTL

(* stop() after start() returns with every accepted trade in the file.     *)
THEOREM StopIsLossless == Spec => []LosslessStop
BY LosslessFromInv, Invariance, PTL

(* No trade is counted in two lines, and what is in the file is nowhere    *)
(* else in the pipeline.                                                   *)
THEOREM NothingWrittenTwice == Spec => []WrittenOnce
<1>1. PipelineInv => WrittenOnce
  BY OnceFromInv
<1>. QED  BY <1>1, Invariance, PTL

(* Every block in the file lists each symbol once, in order, with trades   *)
(* of that symbol and of its window only, for any number of shards and any *)
(* hash; with windows of whole seconds its timestamp is exact.             *)
THEOREM BlocksCorrect == Spec => []BlocksWellFormed
<1>1. OutputInv => BlocksWellFormed
  BY BlocksFromInv DEF OutputInv
<1>. QED  BY <1>1, Invariance, PTL

(* The file is in the order of the windows and has no gap behind its end   *)
(* but for late trades, however the clock jumps, whenever stop() comes and *)
(* wherever the sink throws.                                               *)
THEOREM FileOrdered == Spec => []OnlyLateTradesOutOfOrder
<1>1. OutputInv => OnlyLateTradesOutOfOrder
  BY OrderFromInv DEF OutputInv
<1>. QED  BY <1>1, Invariance, PTL

(* If only stop() flushes, the output is the one of a single aggregator,   *)
(* whatever the number of shards.                                          *)
THEOREM ShardsInvisible == Spec => []ShardCountInvisible
<1>1. PipelineInv /\ OutputInv => ShardCountInvisible
  BY ShardsFromInv DEF OutputInv
<1>. QED  BY <1>1, Invariance, PTL

(* On a host whose clock only moves forward, no periodic flush writes a    *)
(* window before its end.                                                  *)
THEOREM FlushesFinished ==
  ASSUME SteadyClock PROVE Spec => []OnlyFinishedWindows
<1>1. OutputInv => OnlyFinishedWindows
  BY SteadyClock DEF OutputInv, FinishInv
<1>. QED  BY <1>1, Invariance, PTL

(* The pipeline is a ledger of trades: it accepts a message, writes some   *)
(* of what it accepted and has not written, or closes when all is written, *)
(* and does nothing else.                                                  *)
THEOREM PipelineIsLedger == Spec => ImplementsLedger
<1>1. Init => Ledger!Init
  BY LedgerInit
<1>2. ASSUME PipelineInv, PipelineInv', OutputInv, [Next]_vars
      PROVE  [Ledger!Next]_<<accepted, Written, Started /\ (Stopped \/ stops > 1)>>
  BY <1>2, SetFactsHold, LedgerNext DEF OutputInv
<1>. QED  BY <1>1, <1>2, Invariance, PTL DEF Spec, ImplementsLedger, Ledger!Spec

(* After stop() has returned, nothing is written any more, though stop()   *)
(* may be called again and goes through all its steps, flush included.     *)
THEOREM ClosedForGood == Spec => [][Closed => output' = output]_vars
<1>1. PipelineInv /\ OutputInv /\ [Next]_vars => (Closed => output' = output)
  BY SetFactsHold, ClosedWritesNothing DEF OutputInv
<1>. QED  BY <1>1, Invariance, PTL DEF Spec
=============================================================================
