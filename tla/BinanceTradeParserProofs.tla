---------------------- MODULE BinanceTradeParserProofs ----------------------
(***************************************************************************)
(* Proofs about BinanceTradeParser::parse and Decimal::parse: which        *)
(* messages become events, for texts of any length.                        *)
(***************************************************************************)
EXTENDS BinanceTradeParser, FiniteSetTheorems, TLAPS

USE ZenonT(30)

----------------------------------------------------------------------------
(* Texts of numbers *)

(* Where the digits begin, and what a number looks like from there. *)
Start(t) == IF t[1] \in {"+", "-"} THEN 2 ELSE 1

DigitsFrom(t, a, b) == \A k \in a..b : IsDigit(t[k])

WholeFrom(t, a) == a <= Len(t) /\ DigitsFrom(t, a, Len(t))

FractionFrom(t, a) ==
  \E d \in (a + 1)..(Len(t) - 1) :
    /\ t[d] = "." /\ Len(t) - d <= kScale
    /\ DigitsFrom(t, a, d - 1) /\ DigitsFrom(t, d + 1, Len(t))

NumberFrom(t, a) == WholeFrom(t, a) \/ FractionFrom(t, a)

(* A sequence has at most one dot when their set has at most one element.  *)
LEMMA AtMostOne ==
  ASSUME NEW S, IsFiniteSet(S)
  PROVE  Cardinality(S) <= 1 <=> S = {} \/ \E x : S = {x}
<1>1. Cardinality(S) \in Nat
  BY FS_CardinalityType
<1>2. Cardinality(S) <= 1 <=> Cardinality(S) = 0 \/ Cardinality(S) = 1
  BY SMTT(60), <1>1
<1>3. Cardinality(S) = 0 <=> S = {}
  BY FS_EmptySet
<1>4. Cardinality(S) = 1 <=> \E x : S = {x}
  BY FS_Singleton
<1>. QED  BY <1>2, <1>3, <1>4

(* The dots of a sequence are finitely many, and no dot is a digit. *)
LEMMA DotFacts ==
  ASSUME NEW s \in Seq(Characters)
  PROVE  /\ IsFiniteSet(Dots(s)) /\ Dots(s) \subseteq 1..Len(s)
         /\ Len(s) \in Nat /\ DOMAIN s = 1..Len(s)
         /\ \A k \in Dots(s) : ~IsDigit(s[k])
<1>1. Len(s) \in Nat /\ DOMAIN s = 1..Len(s)
  BY SMTT(60)
<1>2. Dots(s) \subseteq 1..Len(s)
  BY <1>1 DEF Dots
<1>3. IsFiniteSet(Dots(s))
  <2>1. IsFiniteSet(1..Len(s))
    BY SMTT(60), <1>1, FS_Interval
  <2>. QED  BY <1>2, <2>1, FS_Subset
<1>4. \A k \in Dots(s) : ~IsDigit(s[k])
  BY TextAssumption DEF Dots, IsDigit
<1>. QED  BY <1>1, <1>2, <1>3, <1>4

(* What IsNumber asks of the text without its sign. *)
IsPlain(s) ==
  /\ s # <<>>
  /\ Cardinality(Dots(s)) <= 1
  /\ \A i \in DOMAIN s : i \in Dots(s) \/ IsDigit(s[i])
  /\ Dots(s) \cap {1, Len(s)} = {}
  /\ Len(s) - IntegerLength(s) <= kScale + 1

(* That is either digits only, or one dot inside, with few digits after it. *)
LEMMA PlainForm ==
  ASSUME NEW s \in Seq(Characters)
  PROVE  IsPlain(s) <=> NumberFrom(s, 1)
<1>1. /\ IsFiniteSet(Dots(s)) /\ Dots(s) \subseteq 1..Len(s)
      /\ Len(s) \in Nat /\ DOMAIN s = 1..Len(s)
      /\ \A k \in Dots(s) : ~IsDigit(s[k])
  BY DotFacts
<1>2. s # <<>> <=> 1 <= Len(s)
  BY SMTT(60)
<1>3. kScale \in Nat
  BY TextAssumption
<1>4. Cardinality(Dots(s)) <= 1 <=> Dots(s) = {} \/ \E x : Dots(s) = {x}
  BY <1>1, AtMostOne
<1>5. ASSUME Dots(s) = {} PROVE IsPlain(s) <=> WholeFrom(s, 1)
  <2>1. IntegerLength(s) = Len(s)
    BY <1>5 DEF IntegerLength
  <2>2. Len(s) - IntegerLength(s) <= kScale + 1
    BY SMTT(60), <1>1, <1>3, <2>1
  <2>. QED  BY <1>1, <1>2, <1>4, <1>5, <2>2 DEF IsPlain, WholeFrom, DigitsFrom
<1>6. ASSUME NEW d, Dots(s) = {d}
      PROVE  /\ IsPlain(s) => /\ d \in 2..(Len(s) - 1) /\ Len(s) - d <= kScale
                              /\ DigitsFrom(s, 1, d - 1) /\ DigitsFrom(s, d + 1, Len(s))
             /\ d \in 2..(Len(s) - 1) /\ Len(s) - d <= kScale
                /\ DigitsFrom(s, 1, d - 1) /\ DigitsFrom(s, d + 1, Len(s)) => IsPlain(s)
  <2>1. d \in 1..Len(s) /\ Dots(s) # {}
    BY <1>1, <1>6
  <2>2. IntegerLength(s) = d - 1
    <3>1. Min({d}) = d
      BY SMTT(60), <2>1 DEF Min
    <3>. QED  BY <1>6, <3>1 DEF IntegerLength
  <2>3. Len(s) - IntegerLength(s) <= kScale + 1 <=> Len(s) - d <= kScale
    BY SMTT(60), <1>1, <1>3, <2>1, <2>2
  <2>4. Dots(s) \cap {1, Len(s)} = {} <=> d # 1 /\ d # Len(s)
    BY <1>6
  <2>5. d # 1 /\ d # Len(s) <=> d \in 2..(Len(s) - 1)
    <3>1. \A l \in Nat : \A e \in 1..l : e # 1 /\ e # l <=> e \in 2..(l - 1)
      BY SMTT(60)
    <3>. QED  BY <1>1, <2>1, <3>1
  <2>6. (\A k \in DOMAIN s : k \in Dots(s) \/ IsDigit(s[k]))
          <=> \A k \in 1..Len(s) : k # d => IsDigit(s[k])
    BY <1>1, <1>6
  <2>7. (\A k \in 1..Len(s) : k # d => IsDigit(s[k]))
          <=> DigitsFrom(s, 1, d - 1) /\ DigitsFrom(s, d + 1, Len(s))
    <3>1. \A k : k \in 1..Len(s) /\ k # d <=> k \in 1..(d - 1) \/ k \in (d + 1)..Len(s)
      BY SMTT(60), <1>1, <2>1
    <3>. QED  BY <3>1 DEF DigitsFrom
  <2>8. s # <<>>
    BY SMTT(60), <2>1
  <2>. QED  BY <1>4, <1>6, <2>3, <2>4, <2>5, <2>6, <2>7, <2>8 DEF IsPlain
<1>7. WholeFrom(s, 1) => Dots(s) = {}
  BY <1>1 DEF WholeFrom, DigitsFrom
<1>8. ASSUME NEW d \in 2..(Len(s) - 1), s[d] = ".",
             DigitsFrom(s, 1, d - 1), DigitsFrom(s, d + 1, Len(s))
      PROVE  Dots(s) = {d}
  <2>1. d \in 1..Len(s)
    BY SMTT(60), <1>1
  <2>2. \A k \in 1..Len(s) : k = d \/ k \in 1..(d - 1) \/ k \in (d + 1)..Len(s)
    BY SMTT(60), <1>1, <2>1
  <2>3. \A k \in 1..Len(s) : k # d => IsDigit(s[k])
    BY <1>8, <2>2 DEF DigitsFrom
  <2>4. \A k : k \in Dots(s) <=> k = d
    BY <1>1, <1>8, <2>1, <2>3 DEF Dots
  <2>. QED  BY <2>4
<1>9. FractionFrom(s, 1) <=> \E d \in 2..(Len(s) - 1) :
                               /\ s[d] = "." /\ Len(s) - d <= kScale
                               /\ DigitsFrom(s, 1, d - 1) /\ DigitsFrom(s, d + 1, Len(s))
  BY SMTT(60) DEF FractionFrom
<1>10. IsPlain(s) => NumberFrom(s, 1)
  <2>. SUFFICES ASSUME IsPlain(s) PROVE NumberFrom(s, 1)
    OBVIOUS
  <2>1. CASE Dots(s) = {}
    BY <1>5, <2>1 DEF NumberFrom
  <2>2. ASSUME NEW d, Dots(s) = {d} PROVE NumberFrom(s, 1)
    <3>1. s[d] = "."
      BY <2>2 DEF Dots
    <3>. QED  BY <1>6, <1>9, <2>2, <3>1 DEF NumberFrom
  <2>. QED  BY <1>4, <2>1, <2>2 DEF IsPlain
<1>11. NumberFrom(s, 1) => IsPlain(s)
  <2>1. WholeFrom(s, 1) => IsPlain(s)
    BY <1>5, <1>7
  <2>2. FractionFrom(s, 1) => IsPlain(s)
    BY <1>6, <1>8, <1>9
  <2>. QED  BY <2>1, <2>2 DEF NumberFrom
<1>. QED  BY <1>10, <1>11

(* IsNumber, on the text with its sign. *)
LEMMA NumberForm ==
  ASSUME NEW t \in Seq(Characters)
  PROVE  IsNumber(t) <=> t # <<>> /\ NumberFrom(t, Start(t))
<1>1. IsNumber(t) <=> IsPlain(Unsigned(t))
  BY DEF IsNumber, IsPlain
<1>2. CASE t = <<>>
  BY <1>1, <1>2 DEF Unsigned, IsPlain
<1>3. CASE t # <<>> /\ t[1] \notin {"+", "-"}
  BY <1>1, <1>3, PlainForm DEF Unsigned, Start
<1>4. CASE t # <<>> /\ t[1] \in {"+", "-"}
  <2>. DEFINE s == Tail(t)
              n == Len(t)
  <2>1. Unsigned(t) = s /\ Start(t) = 2
    BY <1>4 DEF Unsigned, Start
  <2>2. s \in Seq(Characters) /\ n \in Nat /\ n >= 1 /\ Len(s) = n - 1
    BY SMTT(60), <1>4
  <2>3. \A k \in 1..(n - 1) : s[k] = t[k + 1]
    BY SMTT(60), <1>4
  <2>. HIDE DEF s, n
  <2>4. ASSUME NEW a \in Nat, NEW b \in Nat, 1 <= a, b <= n - 1
        PROVE  DigitsFrom(s, a, b) <=> DigitsFrom(t, a + 1, b + 1)
    <3>1. \A k \in a..b : k \in 1..(n - 1) /\ k + 1 \in (a + 1)..(b + 1)
      BY SMTT(60), <2>2, <2>4
    <3>2. \A k \in (a + 1)..(b + 1) : k - 1 \in a..b /\ (k - 1) + 1 = k
      BY SMTT(60), <2>2, <2>4
    <3>3. DigitsFrom(t, a + 1, b + 1) => DigitsFrom(s, a, b)
      BY <2>3, <3>1 DEF DigitsFrom
    <3>4. ASSUME DigitsFrom(s, a, b), NEW k \in (a + 1)..(b + 1) PROVE IsDigit(t[k])
      BY <2>3, <3>1, <3>2, <3>4 DEF DigitsFrom
    <3>. QED  BY <3>3, <3>4 DEF DigitsFrom
  <2>5. WholeFrom(s, 1) <=> WholeFrom(t, 2)
    <3>1. /\ 1 <= Len(s) <=> 2 <= n
          /\ Len(s) \in Nat /\ Len(s) + 1 = n /\ Len(s) <= n - 1 /\ 1 \in Nat /\ 1 <= 1
          /\ 1 + 1 = 2
      BY SMTT(60), <2>2
    <3>. QED  BY <2>4, <3>1 DEF WholeFrom, n
  <2>6. FractionFrom(s, 1) <=> FractionFrom(t, 2)
    <3>. DEFINE InS(d) == /\ s[d] = "." /\ Len(s) - d <= kScale
                          /\ DigitsFrom(s, 1, d - 1) /\ DigitsFrom(s, d + 1, Len(s))
                InT(d) == /\ t[d] = "." /\ n - d <= kScale
                          /\ DigitsFrom(t, 2, d - 1) /\ DigitsFrom(t, d + 1, n)
    <3>1. ASSUME NEW d \in 2..(n - 2) PROVE InS(d) <=> InT(d + 1)
      <4>1. /\ d \in Nat /\ d - 1 \in Nat /\ d + 1 \in Nat /\ n - 1 \in Nat
            /\ d - 1 <= n - 1 /\ 1 <= d + 1 /\ n - 1 <= n - 1 /\ 1 <= 1
            /\ (d - 1) + 1 = (d + 1) - 1 /\ 1 + 1 = 2 /\ (n - 1) + 1 = n
            /\ d \in 1..(n - 1) /\ (n - 1) - d = n - (d + 1)
        BY SMTT(60), <2>2
      <4>2. s[d] = t[d + 1]
        BY <2>3, <4>1
      <4>3. DigitsFrom(s, 1, d - 1) <=> DigitsFrom(t, 2, (d + 1) - 1)
        BY <2>4, <4>1
      <4>4. DigitsFrom(s, d + 1, Len(s)) <=> DigitsFrom(t, (d + 1) + 1, n)
        BY <2>2, <2>4, <4>1
      <4>5. Len(s) - d = n - (d + 1)
        BY <2>2, <4>1
      <4>. QED  BY <4>2, <4>3, <4>4, <4>5
    <3>2. /\ (1 + 1)..(Len(s) - 1) = 2..(n - 2)
          /\ (2 + 1)..(n - 1) = 3..(n - 1)
      BY SMTT(60), <2>2
    <3>3. /\ \A d \in 2..(n - 2) : d + 1 \in 3..(n - 1)
          /\ \A d \in 3..(n - 1) : d - 1 \in 2..(n - 2) /\ (d - 1) + 1 = d
      BY SMTT(60), <2>2
    <3>4. FractionFrom(s, 1) <=> \E d \in 2..(n - 2) : InS(d)
      BY <3>2 DEF FractionFrom
    <3>5. FractionFrom(t, 2) <=> \E d \in 3..(n - 1) : InT(d)
      BY <3>2 DEF FractionFrom, n
    <3>. HIDE DEF InS, InT
    <3>6. (\E d \in 2..(n - 2) : InS(d)) => \E d \in 3..(n - 1) : InT(d)
      BY <3>1, <3>3
    <3>7. ASSUME NEW d \in 3..(n - 1), InT(d) PROVE InS(d - 1) /\ d - 1 \in 2..(n - 2)
      <4>1. d - 1 \in 2..(n - 2) /\ (d - 1) + 1 = d
        BY <3>3
      <4>2. InS(d - 1) <=> InT((d - 1) + 1)
        BY <3>1, <4>1
      <4>. QED  BY <3>7, <4>1, <4>2
    <3>. QED  BY <3>4, <3>5, <3>6, <3>7
  <2>. QED  BY <1>1, <1>4, <2>1, <2>2, <2>5, <2>6, PlainForm DEF NumberFrom
<1>. QED  BY <1>2, <1>3, <1>4

(* A number begins with a digit. *)
LEMMA FirstIsDigit ==
  ASSUME NEW t \in Seq(Characters), NEW a \in Nat, NumberFrom(t, a)
  PROVE  a <= Len(t) /\ IsDigit(t[a])
<1>0. Len(t) \in Nat
  BY SMTT(60)
<1>1. CASE WholeFrom(t, a)
  <2>1. a <= Len(t) => a \in a..Len(t)
    BY SMTT(60), <1>0
  <2>. QED  BY <1>1, <2>1 DEF WholeFrom, DigitsFrom
<1>2. CASE FractionFrom(t, a)
  <2>1. PICK d \in (a + 1)..(Len(t) - 1) : DigitsFrom(t, a, d - 1)
    BY <1>2 DEF FractionFrom
  <2>2. a \in a..(d - 1) /\ a <= Len(t)
    BY SMTT(60), <1>0
  <2>. QED  BY <2>1, <2>2 DEF DigitsFrom
<1>. QED  BY <1>1, <1>2 DEF NumberFrom

(* It has digits and dots only. *)
LEMMA NoOtherCharacter ==
  ASSUME NEW t \in Seq(Characters), NEW a \in Nat, NumberFrom(t, a),
         NEW k \in a..Len(t)
  PROVE  IsDigit(t[k]) \/ t[k] = "."
<1>0. Len(t) \in Nat
  BY SMTT(60)
<1>1. CASE WholeFrom(t, a)
  BY <1>1 DEF WholeFrom, DigitsFrom
<1>2. CASE FractionFrom(t, a)
  <2>1. PICK d \in (a + 1)..(Len(t) - 1) :
          t[d] = "." /\ DigitsFrom(t, a, d - 1) /\ DigitsFrom(t, d + 1, Len(t))
    BY <1>2 DEF FractionFrom
  <2>2. k = d \/ k \in a..(d - 1) \/ k \in (d + 1)..Len(t)
    BY SMTT(60), <1>0
  <2>. QED  BY <2>1, <2>2 DEF DigitsFrom
<1>. QED  BY <1>1, <1>2 DEF NumberFrom

(* After its first dot come digits, at least one and at most kScale. *)
LEMMA AfterTheDot ==
  ASSUME NEW t \in Seq(Characters), NEW a \in Nat, NumberFrom(t, a),
         NEW d \in (a + 1)..Len(t), t[d] = ".", DigitsFrom(t, a, d - 1)
  PROVE  d + 1 <= Len(t) /\ Len(t) - d <= kScale /\ DigitsFrom(t, d + 1, Len(t))
<1>0. Len(t) \in Nat /\ ~IsDigit(".")
  <2>1. Len(t) \in Nat
    BY SMTT(60)
  <2>. QED  BY <2>1, TextAssumption DEF IsDigit
<1>1. ~WholeFrom(t, a)
  <2>1. d \in a..Len(t)
    BY SMTT(60), <1>0
  <2>. QED  BY <1>0, <2>1 DEF WholeFrom, DigitsFrom
<1>2. PICK e \in (a + 1)..(Len(t) - 1) :
        /\ t[e] = "." /\ Len(t) - e <= kScale
        /\ DigitsFrom(t, a, e - 1) /\ DigitsFrom(t, e + 1, Len(t))
  BY <1>1 DEF NumberFrom, FractionFrom
<1>3. e = d \/ e \in a..(d - 1) \/ d \in a..(e - 1)
  BY SMTT(60), <1>0
<1>4. e = d
  BY <1>0, <1>2, <1>3 DEF DigitsFrom
<1>5. e + 1 <= Len(t)
  BY SMTT(60), <1>0
<1>. QED  BY <1>2, <1>4, <1>5

----------------------------------------------------------------------------
(* The scan *)

(* What the scan has read when it is at idx: the digits before a dot, and  *)
(* those after the dot at d.                                               *)
IntegerRead ==
  /\ Start(text) <= Len(text) /\ IsDigit(text[Start(text)])
  /\ Start(text) <= idx /\ DigitsFrom(text, Start(text), idx - 1)

DotRead(d) ==
  /\ d \in (Start(text) + 1)..Len(text) /\ text[d] = "."
  /\ DigitsFrom(text, Start(text), d - 1)

FractionRead ==
  \E d \in 1..(idx - 1) :
    /\ DotRead(d) /\ d + 1 <= Len(text) /\ IsDigit(text[d + 1])
    /\ DigitsFrom(text, d + 1, idx - 1)
    /\ fractional_digits = idx - 1 - d /\ fractional_digits <= kScale

(* It never runs past its text, and what it has read is the beginning of a *)
(* number until it rejects the text.                                       *)
ScanInv ==
  /\ text \in Seq(Characters) /\ idx \in 1..(Len(text) + 1)
  /\ pc \in {"sign", "first", "integer", "point", "fraction", "end",
             "returned", "rejected"}
  /\ pc \in {"sign", "first", "integer", "point"} => fractional_digits = 0
  /\ pc \in {"first", "integer", "point", "fraction", "end"} => text # <<>>
  /\ pc = "first" => idx = Start(text)
  /\ pc = "integer" => IntegerRead
  /\ pc = "point" => DotRead(idx - 1)
  /\ pc = "fraction" => FractionRead
  /\ pc = "end" => ~AtDigit /\ ((IntegerRead /\ ~AtDot) \/ FractionRead)
  /\ pc = "returned" => IsNumber(text)
  /\ pc = "rejected" => ~IsNumber(text)

ParsedFields(m, e) ==
  /\ DOMAIN e = DOMAIN NoEvent
  /\ e.symbol = <<Payload(m), "s">>
  /\ e.trade_id = <<Payload(m), "t">>
  /\ e.trade_time_ms = <<Payload(m), "T">>
  /\ e.buyer_is_maker = <<Payload(m), "m">>

(* The message has passed the checks before a number is scanned, and its   *)
(* price has been one before its quantity is.                              *)
ParserInv ==
  /\ IsMessage(message)
  /\ stage \in {"checks", "price", "quantity", "event", "nullopt"}
  /\ ScanInv
  /\ stage = "checks" => event = NoEvent /\ text = message.price
  /\ stage \in {"price", "quantity", "event"} =>
       Accepted(message) /\ ParsedFields(message, event)
  /\ stage = "price" => text = message.price
  /\ stage = "quantity" => text = message.quantity /\ IsNumber(message.price)
  /\ stage = "event" => IsNumber(message.price) /\ IsNumber(message.quantity)
  /\ stage = "nullopt" => ~IsTrade(message)

(* Where parse() begins. *)
LEMMA StartFacts ==
  ASSUME NEW t \in Seq(Characters)
  PROVE  /\ Start(t) \in Nat /\ Start(t) >= 1 /\ Len(t) \in Nat
         /\ t # <<>> => Start(t) \in 1..(Len(t) + 1)
<1>1. Len(t) \in Nat /\ (t # <<>> => Len(t) >= 1)
  BY SMTT(60)
<1>2. Start(t) = 1 \/ Start(t) = 2
  BY DEF Start
<1>. QED  BY SMTT(60), <1>1, <1>2

(* Nothing is read when parse() is called. *)
LEMMA ScanStarts ==
  ASSUME NEW t \in Seq(Characters), Init(t)
  PROVE  ScanInv
<1>1. Len(t) \in Nat /\ 1 \in 1..(Len(t) + 1)
  BY SMTT(60)
<1>. QED  BY <1>1 DEF Init, ScanInv

(* parse() throws only for texts that are no numbers. *)
LEMMA RejectRight == ScanInv /\ Reject => ~IsNumber(text)
<1>. SUFFICES ASSUME ScanInv, Reject, text # <<>>, NumberFrom(text, Start(text)) PROVE FALSE
  BY NumberForm DEF ScanInv
<1>0. /\ text \in Seq(Characters) /\ Len(text) \in Nat
      /\ Start(text) \in Nat /\ Start(text) >= 1
      /\ idx \in 1..(Len(text) + 1) /\ kScale \in Nat
  BY StartFacts, TextAssumption DEF ScanInv
<1>1. CASE pc = "first" /\ ~AtDigit
  BY <1>0, <1>1, FirstIsDigit DEF ScanInv, AtDigit
<1>2. ASSUME NEW d, DotRead(d)
      PROVE  /\ d + 1 <= Len(text) /\ Len(text) - d <= kScale
             /\ DigitsFrom(text, d + 1, Len(text)) /\ d \in Nat
  <2>1. d \in Nat
    BY SMTT(60), <1>0, <1>2 DEF DotRead
  <2>. QED  BY <1>0, <1>2, <2>1, AfterTheDot DEF DotRead
<1>3. CASE pc = "point" /\ ~AtDigit
  <2>1. DotRead(idx - 1)
    BY <1>3 DEF ScanInv
  <2>2. (idx - 1) + 1 <= Len(text) /\ DigitsFrom(text, (idx - 1) + 1, Len(text))
    BY <1>2, <2>1
  <2>3. (idx - 1) + 1 = idx /\ (idx <= Len(text) => idx \in idx..Len(text))
    BY SMTT(60), <1>0
  <2>. QED  BY <1>3, <2>2, <2>3 DEF DigitsFrom, AtDigit
<1>4. CASE pc = "fraction" /\ AtDigit /\ fractional_digits >= kScale
  <2>1. PICK d : DotRead(d) /\ fractional_digits = idx - 1 - d
    BY <1>4 DEF ScanInv, FractionRead
  <2>2. Len(text) - d <= kScale /\ d \in Nat
    BY <1>2, <2>1
  <2>3. idx <= Len(text)
    BY <1>4 DEF AtDigit
  <2>4. idx - 1 - d >= kScale
    BY <1>4, <2>1
  <2>. QED  BY SMTT(60), <1>0, <2>2, <2>3, <2>4
<1>5. CASE pc = "end" /\ idx # Len(text) + 1
  <2>1. idx \in 1..Len(text) /\ idx <= Len(text)
    BY SMTT(60), <1>0, <1>5
  <2>2. ~IsDigit(text[idx])
    BY <1>5, <2>1 DEF ScanInv, AtDigit
  <2>3. CASE IntegerRead /\ ~AtDot
    <3>1. idx \in Start(text)..Len(text)
      BY SMTT(60), <1>0, <2>1, <2>3 DEF IntegerRead
    <3>. QED  BY <1>0, <2>1, <2>2, <2>3, <3>1, NoOtherCharacter DEF AtDot
  <2>4. CASE FractionRead
    <3>1. PICK d \in 1..(idx - 1) : DotRead(d)
      BY <2>4 DEF FractionRead
    <3>2. idx \in (d + 1)..Len(text)
      BY SMTT(60), <1>0, <2>1
    <3>. QED  BY <1>2, <2>2, <3>1, <3>2 DEF DigitsFrom
  <2>. QED  BY <1>5, <2>3, <2>4 DEF ScanInv
<1>. QED  BY <1>1, <1>3, <1>4, <1>5 DEF Reject, Goto

(* parse() returns only for texts that are numbers. *)
LEMMA ReturnRight == ScanInv /\ Return => IsNumber(text)
<1>. SUFFICES ASSUME ScanInv, pc = "end", idx = Len(text) + 1
              PROVE  NumberFrom(text, Start(text))
  BY NumberForm DEF ScanInv, Return, Goto
<1>0. /\ text \in Seq(Characters) /\ Len(text) \in Nat
      /\ Start(text) \in Nat /\ idx - 1 = Len(text)
  <2>1. text \in Seq(Characters) /\ Len(text) \in Nat /\ Start(text) \in Nat
    BY StartFacts DEF ScanInv
  <2>. QED  BY SMTT(60), <2>1
<1>1. CASE IntegerRead
  BY <1>0, <1>1 DEF IntegerRead, NumberFrom, WholeFrom
<1>2. CASE FractionRead
  <2>1. PICK d \in 1..(idx - 1) :
          /\ DotRead(d) /\ d + 1 <= Len(text)
          /\ DigitsFrom(text, d + 1, idx - 1)
          /\ fractional_digits = idx - 1 - d /\ fractional_digits <= kScale
    BY <1>2 DEF FractionRead
  <2>2. d \in (Start(text) + 1)..(Len(text) - 1)
    BY SMTT(60), <1>0, <2>1 DEF DotRead
  <2>3. Len(text) - d <= kScale
    BY <1>0, <2>1
  <2>. QED  BY <1>0, <2>1, <2>2, <2>3 DEF DotRead, NumberFrom, FractionFrom
<1>. QED  BY <1>1, <1>2 DEF ScanInv

(* One more digit in a row. *)
LEMMA OneMoreDigit ==
  ASSUME NEW t, NEW a \in Nat, NEW n \in Nat, DigitsFrom(t, a, n - 1), IsDigit(t[n])
  PROVE  DigitsFrom(t, a, (n + 1) - 1)
<1>1. \A k \in a..((n + 1) - 1) : k \in a..(n - 1) \/ k = n
  BY SMTT(60)
<1>. QED  BY <1>1 DEF DigitsFrom

(* Every step of the scan. *)
LEMMA ScanKept == ScanInv /\ Next => ScanInv' /\ text' = text
<1>. SUFFICES ASSUME ScanInv, Next PROVE ScanInv' /\ text' = text
  OBVIOUS
<1>. USE DEF numbers, Goto
<1>t. text' = text
  BY DEF Next, Reject, Sign, FirstDigit, IntegerDigit, Point, FirstFractional,
         FractionalDigit, DigitsEnd, Return
<1>0. /\ text \in Seq(Characters) /\ Len(text) \in Nat
      /\ Start(text) \in Nat /\ Start(text) >= 1
      /\ idx \in 1..(Len(text) + 1) /\ idx \in Nat /\ kScale \in Nat
      /\ text # <<>> => Start(text) \in 1..(Len(text) + 1)
  <2>1. /\ text \in Seq(Characters) /\ Len(text) \in Nat
        /\ Start(text) \in Nat /\ Start(text) >= 1
        /\ text # <<>> => Start(text) \in 1..(Len(text) + 1)
        /\ idx \in 1..(Len(text) + 1) /\ kScale \in Nat
    BY StartFacts, TextAssumption DEF ScanInv
  <2>2. idx \in Nat
    BY SMTT(60), <2>1
  <2>. QED  BY <2>1, <2>2
<1>d. AtDigit \/ AtDot => idx + 1 \in 1..(Len(text) + 1)
  <2>1. idx <= Len(text) => idx + 1 \in 1..(Len(text) + 1)
    BY SMTT(60), <1>0
  <2>. QED  BY <2>1 DEF AtDigit, AtDot
<1>1. CASE Reject
  BY <1>1, <1>t, RejectRight DEF Reject, ScanInv
<1>2. CASE Sign
  <2>1. idx' = Start(text) /\ idx' \in 1..(Len(text) + 1)
    BY <1>0, <1>2 DEF Sign, Start
  <2>. QED  BY <1>2, <1>t, <2>1 DEF Sign, ScanInv
<1>3. CASE FirstDigit
  <2>1. DigitsFrom(text, idx, idx - 1) /\ idx <= idx
    <3>1. idx..(idx - 1) = {} /\ idx <= idx
      BY SMTT(60), <1>0
    <3>. QED  BY <3>1 DEF DigitsFrom
  <2>2. idx = Start(text) /\ AtDigit
    BY <1>3 DEF FirstDigit, ScanInv
  <2>3. IntegerRead'
    BY <1>3, <1>t, <2>1, <2>2 DEF FirstDigit, IntegerRead, AtDigit
  <2>. QED  BY <1>3, <1>t, <2>3 DEF FirstDigit, ScanInv
<1>4. CASE IntegerDigit
  <2>1. IntegerRead /\ IsDigit(text[idx]) /\ idx' = idx + 1
    BY <1>4 DEF IntegerDigit, ScanInv, AtDigit
  <2>2. DigitsFrom(text, Start(text), (idx + 1) - 1)
    BY <1>0, <2>1, OneMoreDigit DEF IntegerRead
  <2>3. Start(text) <= idx => Start(text) <= idx + 1
    BY SMTT(60), <1>0
  <2>4. IntegerRead'
    BY <1>t, <2>1, <2>2, <2>3 DEF IntegerRead
  <2>. QED  BY <1>4, <1>d, <1>t, <2>4 DEF IntegerDigit, ScanInv
<1>5. CASE Point
  <2>1. IntegerRead /\ AtDot /\ idx' = idx + 1
    BY <1>5 DEF Point, ScanInv
  <2>2. ~IsDigit(text[idx])
    BY <2>1, TextAssumption DEF AtDot, IsDigit
  <2>3. idx # Start(text)
    BY <2>1, <2>2 DEF IntegerRead
  <2>4. idx \in (Start(text) + 1)..Len(text) /\ (idx + 1) - 1 = idx
    BY SMTT(60), <1>0, <2>1, <2>3 DEF IntegerRead, AtDot
  <2>5. DotRead(idx)
    BY <2>1, <2>4 DEF DotRead, IntegerRead, AtDot
  <2>6. DotRead(idx - 1)'
    BY <1>t, <2>1, <2>4, <2>5 DEF DotRead
  <2>. QED  BY <1>5, <1>d, <1>t, <2>1, <2>6 DEF Point, ScanInv
<1>6. CASE FirstFractional
  <2>1. /\ DotRead(idx - 1) /\ AtDigit /\ fractional_digits = 0
        /\ UNCHANGED <<idx, fractional_digits>>
    BY <1>6 DEF FirstFractional, ScanInv
  <2>2. /\ (idx - 1) + 1 = idx /\ idx..(idx - 1) = {} /\ idx - 1 - (idx - 1) = 0
        /\ 0 <= kScale
    BY SMTT(60), <1>0
  <2>3. idx - 1 \in 1..(idx - 1)
    BY SMTT(60), <1>0, <2>1 DEF DotRead
  <2>4. /\ (idx - 1) + 1 <= Len(text) /\ IsDigit(text[(idx - 1) + 1])
        /\ DigitsFrom(text, (idx - 1) + 1, idx - 1)
        /\ fractional_digits = idx - 1 - (idx - 1) /\ fractional_digits <= kScale
    BY <2>1, <2>2 DEF AtDigit, DigitsFrom
  <2>5. FractionRead
    BY <2>1, <2>3, <2>4 DEF FractionRead
  <2>6. FractionRead'
    BY <1>t, <2>1, <2>5 DEF FractionRead, DotRead
  <2>. QED  BY <1>6, <1>t, <2>6 DEF FirstFractional, ScanInv
<1>7. CASE FractionalDigit
  <2>1. PICK d \in 1..(idx - 1) :
          /\ DotRead(d) /\ d + 1 <= Len(text) /\ IsDigit(text[d + 1])
          /\ DigitsFrom(text, d + 1, idx - 1)
          /\ fractional_digits = idx - 1 - d /\ fractional_digits <= kScale
    BY <1>7 DEF FractionalDigit, ScanInv, FractionRead
  <2>2. /\ idx' = idx + 1 /\ fractional_digits' = fractional_digits + 1
        /\ IsDigit(text[idx]) /\ fractional_digits < kScale
    BY <1>7 DEF FractionalDigit, AtDigit
  <2>3. d \in Nat /\ d + 1 \in Nat /\ d \in 1..((idx + 1) - 1)
    BY SMTT(60), <1>0
  <2>4. fractional_digits' = (idx + 1) - 1 - d /\ fractional_digits' <= kScale
    <3>1. idx - 1 - d < kScale => (idx - 1 - d) + 1 <= kScale
      BY SMTT(60), <1>0, <2>3
    <3>2. (idx - 1 - d) + 1 = (idx + 1) - 1 - d
      BY SMTT(60), <1>0, <2>3
    <3>. QED  BY <2>1, <2>2, <3>1, <3>2
  <2>5. DigitsFrom(text, d + 1, (idx + 1) - 1)
    BY <1>0, <2>1, <2>2, <2>3, OneMoreDigit
  <2>6. FractionRead'
    BY <1>t, <2>1, <2>2, <2>3, <2>4, <2>5 DEF FractionRead, DotRead
  <2>. QED  BY <1>7, <1>d, <1>t, <2>6 DEF FractionalDigit, ScanInv
<1>8. CASE DigitsEnd
  <2>1. ~AtDigit /\ ((IntegerRead /\ ~AtDot) \/ FractionRead)
    BY <1>8 DEF DigitsEnd, ScanInv
  <2>2. (~AtDigit /\ ((IntegerRead /\ ~AtDot) \/ FractionRead))'
    BY <1>8, <1>t, <2>1
    DEF DigitsEnd, AtDigit, AtDot, IntegerRead, FractionRead, DotRead
  <2>. QED  BY <1>8, <1>t, <2>2 DEF DigitsEnd, ScanInv
<1>9. CASE Return
  BY <1>9, <1>t, ReturnRight DEF Return, ScanInv
<1>. QED  BY <1>t, <1>1, <1>2, <1>3, <1>4, <1>5, <1>6, <1>7, <1>8, <1>9 DEF Next

----------------------------------------------------------------------------
(* The message *)

(* The checks are those of the reference, but for the numbers. *)
LEMMA AcceptedForm ==
  ASSUME NEW m, IsMessage(m)
  PROVE  IsTrade(m) <=> Accepted(m) /\ IsNumber(m.price) /\ IsNumber(m.quantity)
<1>1. unwrap_payload(m) = Payload(m)
  BY DEF unwrap_payload, Payload
<1>2. PayloadIsObject(m) <=> m.data # "other"
  <2>1. m.data \in {"absent", "other", "object"}
    BY DEF IsMessage
  <2>. QED  BY <2>1 DEF PayloadIsObject, unwrap_payload
<1>. QED  BY <1>1, <1>2 DEF IsTrade, Accepted, is_unsupported_event_type, has_required_fields

(* Where the parser begins. *)
LEMMA ParserStarts == ParserInit => ParserInv
<1>. SUFFICES ASSUME ParserInit PROVE ParserInv
  OBVIOUS
<1>1. IsMessage(message)
  BY InputsAssumption DEF ParserInit
<1>2. ScanInv
  BY <1>1, ScanStarts DEF ParserInit, IsMessage
<1>. QED  BY <1>1, <1>2 DEF ParserInit, ParserInv, Init

(* Every step of parse(). *)
LEMMA ParserKept == ParserInv /\ [ParserNext]_<<parserVars, vars>> => ParserInv'
<1>. SUFFICES ASSUME ParserInv, [ParserNext]_<<parserVars, vars>> PROVE ParserInv'
  OBVIOUS
<1>. USE DEF parserVars
<1>m. message' = message
  BY DEF ParserNext, Refuse, ReadFields, Scan, PriceParsed, QuantityParsed, NumberRejected
<1>0. IsMessage(message) /\ IsMessage(message)'
  BY <1>m DEF ParserInv
<1>s. ASSUME UNCHANGED vars PROVE ScanInv' /\ text' = text
  BY <1>s DEF ParserInv, vars, ScanInv, IntegerRead, FractionRead, DotRead, AtDigit, AtDot
<1>1. CASE Refuse
  <2>1. ~IsTrade(message)
    BY <1>0, <1>1, AcceptedForm DEF Refuse
  <2>. QED  BY <1>0, <1>1, <1>m, <1>s, <2>1 DEF Refuse, ParserInv
<1>2. CASE ReadFields
  <2>1. /\ stage = "checks" /\ Accepted(message) /\ stage' = "price" /\ UNCHANGED vars
        /\ event = NoEvent /\ text = message.price
    BY <1>2 DEF ReadFields, Accepted, has_required_fields, ParserInv
  <2>2. unwrap_payload(message) = Payload(message)
    BY DEF unwrap_payload, Payload
  <2>3. event' = [NoEvent EXCEPT !.symbol = <<Payload(message), "s">>,
                                 !.trade_id = <<Payload(message), "t">>,
                                 !.trade_time_ms = <<Payload(message), "T">>,
                                 !.buyer_is_maker = <<Payload(message), "m">>]
    BY <1>2, <2>1, <2>2 DEF ReadFields, Accepted, has_required_fields
  <2>4. ParsedFields(message, event')
    BY <2>3 DEF ParsedFields, NoEvent
  <2>. QED  BY <1>0, <1>m, <1>s, <2>1, <2>4 DEF ParserInv
<1>3. CASE Scan
  <2>1. ScanInv' /\ text' = text
    BY <1>3, ScanKept DEF Scan, ParserInv
  <2>. QED  BY <1>0, <1>3, <2>1 DEF Scan, ParserInv
<1>4. CASE PriceParsed
  <2>1. IsNumber(message.price)
    BY <1>4 DEF PriceParsed, ParserInv, ScanInv
  <2>2. ParsedFields(message, event')
    <3>1. ParsedFields(message, event) /\ event' = [event EXCEPT !.price = raw]
      BY <1>4 DEF PriceParsed, ParserInv
    <3>. QED  BY <3>1 DEF ParsedFields, NoEvent
  <2>3. ScanInv'
    <3>1. message.quantity \in Seq(Characters)
      BY <1>0 DEF IsMessage
    <3>2. 1 \in 1..(Len(message.quantity) + 1)
      BY SMTT(60), <3>1
    <3>. QED  BY <1>4, <3>1, <3>2 DEF PriceParsed, ScanInv
  <2>4. Accepted(message)
    BY <1>4 DEF PriceParsed, ParserInv
  <2>. QED  BY <1>0, <1>4, <1>m, <2>1, <2>2, <2>3, <2>4 DEF PriceParsed, ParserInv
<1>5. CASE QuantityParsed
  <2>1. IsNumber(message.quantity)
    BY <1>5 DEF QuantityParsed, ParserInv, ScanInv
  <2>2. ParsedFields(message, event')
    <3>1. ParsedFields(message, event) /\ event' = [event EXCEPT !.quantity = raw]
      BY <1>5 DEF QuantityParsed, ParserInv
    <3>. QED  BY <3>1 DEF ParsedFields, NoEvent
  <2>. QED  BY <1>0, <1>5, <1>m, <1>s, <2>1, <2>2 DEF QuantityParsed, ParserInv
<1>6. CASE NumberRejected
  <2>1. ~IsNumber(text) /\ (text = message.price \/ text = message.quantity)
    BY <1>6 DEF NumberRejected, ParserInv, ScanInv
  <2>2. ~IsTrade(message)
    BY <2>1 DEF IsTrade
  <2>. QED  BY <1>0, <1>6, <1>m, <1>s, <2>2 DEF NumberRejected, ParserInv
<1>7. CASE UNCHANGED <<parserVars, vars>>
  BY <1>0, <1>7, <1>s DEF ParserInv
<1>. QED  BY <1>1, <1>2, <1>3, <1>4, <1>5, <1>6, <1>7 DEF ParserNext

(* parse() never ends its thread and gives an event for exactly the        *)
(* trades, with their own fields: Decimal::parse accepts the decimal       *)
(* numbers and nothing else, however long a text is.                       *)
THEOREM RecognisesTrades == ParserSpec => []TradesRecognised
<1>1. ParserInv => TradesRecognised
  BY AcceptedForm DEF ParserInv, TradesRecognised, ParsedFields
<1>. QED  BY <1>1, ParserStarts, ParserKept, PTL DEF ParserSpec

(* Decimal::parse never reads beyond the end of its text. *)
THEOREM ScanStaysInside == ParserSpec => [](idx \in 1..(Len(text) + 1))
<1>1. ParserInv => idx \in 1..(Len(text) + 1)
  BY DEF ParserInv, ScanInv
<1>. QED  BY <1>1, ParserStarts, ParserKept, PTL DEF ParserSpec
=============================================================================
