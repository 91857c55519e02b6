---------------------------- MODULE StartupProofs ----------------------------
(***************************************************************************)
(* Proofs about Startup, for any command line and any config file: which   *)
(* path parse_cli_options returns, and what load_from_file lets through.   *)
(***************************************************************************)
EXTENDS Startup, TLAPS

USE ZenonT(30)

----------------------------------------------------------------------------
(* The command line *)

ArgsOK == args \in Seq(STRING)

(* Argument k is a value of a --config, if W has those before it. *)
Follows(k, W) == k > 1 /\ args[k - 1] = kConfigFlag /\ k - 1 \notin W

(* The values among the first n arguments, which no other set can be. *)
AreValues(n, W) == \A k \in 1..n : k \in W <=> Follows(k, W)

OnlyValues(n, V) ==
  \A W \in SUBSET DOMAIN args :
    AreValues(Len(args), W) => \A k \in 1..n : k \in W <=> k \in V

(* The options among the first n arguments, and the path the last gives. *)
IsOption(k) == args[k] = kConfigFlag \/ args[k] \in DOMAIN InlinePath

OptionsSeen(n, V) == {k \in (1..n) \ V : IsOption(k)}

PathOf(k) == IF args[k] = kConfigFlag THEN args[k + 1] ELSE InlinePath[args[k]]

LastGives(n, V, path) ==
  \/ OptionsSeen(n, V) = {} /\ path = DefaultPath
  \/ \E last \in OptionsSeen(n, V) : /\ \A k \in OptionsSeen(n, V) : k <= last
                                     /\ path = PathOf(last)

(* What the loop has made of the first n arguments: it took the values for *)
(* values, and has the path of the last option.  The next argument is no   *)
(* value.                                                                  *)
Seen(n, V, path) ==
  /\ V \in SUBSET (1..n)
  /\ AreValues(n, V) /\ OnlyValues(n, V)
  /\ ~Follows(n + 1, V)
  /\ LastGives(n, V, path)

LoopInv == i \in 1..(Len(args) + 1) /\ \E V : Seen(i - 1, V, config_path)

(* Where the command line has led. *)
PathInv ==
  /\ phase = "cli" => LoopInv
  /\ phase # "cli" =>
       \/ phase = "failed" /\ IsDangling(args)
       \/ ~IsDangling(args) /\ config_path = PathGiven(args)

(* argv as a sequence. *)
LEMMA ArgsFacts ==
  ArgsOK => Len(args) \in Nat /\ DOMAIN args = 1..Len(args)
BY SMTT(60) DEF ArgsOK

(* Before the loop nothing has been seen. *)
LEMMA LoopStarts == ArgsOK /\ CliInit => LoopInv
<1>. SUFFICES ASSUME ArgsOK, CliInit PROVE LoopInv
  OBVIOUS
<1>1. i = 1 /\ config_path = DefaultPath /\ Len(args) \in Nat
  BY ArgsFacts DEF CliInit
<1>2. 1..0 = {} /\ i - 1 = 0 /\ i \in 1..(Len(args) + 1) /\ ~(0 + 1 > 1)
  BY SMTT(60), <1>1
<1>3. Seen(0, {}, config_path)
  BY <1>1, <1>2
  DEF Seen, AreValues, OnlyValues, Follows, LastGives, OptionsSeen
<1>. QED  BY <1>2, <1>3 DEF LoopInv

(* One more argument is understood: the one after the first n, with V2 the *)
(* values then.                                                            *)
LEMMA ValuesGrow ==
  ASSUME ArgsOK, NEW n \in Nat, n + 1 <= Len(args),
         NEW V \in SUBSET (1..n), AreValues(n, V), OnlyValues(n, V),
         NEW V2, V2 = IF Follows(n + 1, V) THEN V \cup {n + 1} ELSE V
  PROVE  /\ V2 \in SUBSET (1..(n + 1))
         /\ AreValues(n + 1, V2) /\ OnlyValues(n + 1, V2)
<1>0. Len(args) \in Nat /\ DOMAIN args = 1..Len(args)
  BY ArgsFacts
<1>1. /\ n + 1 \notin V /\ n + 1 \in 1..(n + 1) /\ n + 1 \in 1..Len(args)
      /\ 1..n \subseteq 1..(n + 1) /\ (n + 1) - 1 = n
      /\ \A k \in 1..(n + 1) : k = n + 1 \/ k \in 1..n
      /\ \A k \in 1..n : k # n + 1
      /\ \A k \in 1..(n + 1) : k > 1 => k - 1 \in 1..n
  BY SMTT(60), <1>0
<1>2. V2 \in SUBSET (1..(n + 1))
  BY <1>1
<1>3. \A k \in 1..n : k \in V2 <=> k \in V
  BY <1>1
<1>4. \A k \in 1..(n + 1) : Follows(k, V2) <=> Follows(k, V)
  BY <1>1, <1>3 DEF Follows
<1>5. n + 1 \in V2 <=> Follows(n + 1, V)
  BY <1>1
<1>6. AreValues(n + 1, V2)
  BY <1>1, <1>3, <1>4, <1>5 DEF AreValues
<1>7. ASSUME NEW W \in SUBSET DOMAIN args, AreValues(Len(args), W)
      PROVE  \A k \in 1..(n + 1) : k \in W <=> k \in V2
  <2>1. \A k \in 1..n : k \in W <=> k \in V
    BY <1>7 DEF OnlyValues
  <2>2. Follows(n + 1, W) <=> Follows(n + 1, V)
    BY <1>1, <2>1 DEF Follows
  <2>3. n + 1 \in W <=> Follows(n + 1, W)
    BY <1>1, <1>7 DEF AreValues
  <2>. QED  BY <1>1, <1>3, <1>5, <2>1, <2>2, <2>3
<1>8. OnlyValues(n + 1, V2)
  BY <1>7 DEF OnlyValues
<1>. QED  BY <1>2, <1>6, <1>8

(* An option counts from now on, anything else leaves the path as it is.   *)
LEMMA PathGrows ==
  ASSUME NEW n \in Nat, NEW V \in SUBSET (1..n), NEW path, LastGives(n, V, path)
  PROVE  /\ IsOption(n + 1) => LastGives(n + 1, V, PathOf(n + 1))
         /\ ~IsOption(n + 1) => LastGives(n + 1, V, path)
         /\ LastGives(n + 1, V \cup {n + 1}, path)
<1>1. /\ n + 1 \notin V /\ n + 1 \in 1..(n + 1)
      /\ 1..n \subseteq 1..(n + 1)
      /\ \A k \in 1..(n + 1) : (k = n + 1 \/ k \in 1..n) /\ k <= n + 1
      /\ \A k \in 1..n : k # n + 1
  BY SMTT(60)
<1>2. ASSUME ~IsOption(n + 1) PROVE OptionsSeen(n + 1, V) = OptionsSeen(n, V)
  BY <1>1, <1>2 DEF OptionsSeen
<1>3. OptionsSeen(n + 1, V \cup {n + 1}) = OptionsSeen(n, V)
  BY <1>1 DEF OptionsSeen
<1>4. ASSUME IsOption(n + 1) PROVE LastGives(n + 1, V, PathOf(n + 1))
  <2>1. n + 1 \in OptionsSeen(n + 1, V)
    BY <1>1, <1>4 DEF OptionsSeen
  <2>2. \A k \in OptionsSeen(n + 1, V) : k <= n + 1
    BY <1>1 DEF OptionsSeen
  <2>. QED  BY <2>1, <2>2 DEF LastGives
<1>. QED  BY <1>2, <1>3, <1>4 DEF LastGives

(* A round of the loop understands one more argument, or --config and the  *)
(* value it takes with it.                                                 *)
LEMMA LoopKept == ArgsOK /\ LoopInv /\ CliStep => LoopInv'
<1>. SUFFICES ASSUME ArgsOK, LoopInv, CliStep PROVE LoopInv'
  OBVIOUS
<1>0. Len(args) \in Nat /\ DOMAIN args = 1..Len(args) /\ i \in Nat /\ i - 1 \in Nat
      /\ (i - 1) + 1 = i /\ i <= Len(args)
  BY SMTT(60), ArgsFacts DEF LoopInv, CliStep
<1>1. PICK V : Seen(i - 1, V, config_path)
  BY DEF LoopInv
<1>2. args' = args
  BY DEF CliStep
<1>3. /\ V \in SUBSET (1..i) /\ AreValues(i, V) /\ OnlyValues(i, V)
      /\ V \in SUBSET (1..(i - 1)) /\ LastGives(i - 1, V, config_path)
      /\ i \notin V
  <2>1. /\ V \in SUBSET (1..(i - 1)) /\ AreValues(i - 1, V) /\ OnlyValues(i - 1, V)
        /\ ~Follows(i, V) /\ LastGives(i - 1, V, config_path)
    BY <1>0, <1>1 DEF Seen
  <2>2. i \notin 1..(i - 1)
    BY SMTT(60), <1>0
  <2>3. V = IF Follows((i - 1) + 1, V) THEN V \cup {(i - 1) + 1} ELSE V
    BY <1>0, <2>1
  <2>4. /\ V \in SUBSET (1..((i - 1) + 1))
        /\ AreValues((i - 1) + 1, V) /\ OnlyValues((i - 1) + 1, V)
    BY <1>0, <2>1, <2>3, ValuesGrow
  <2>. QED  BY <1>0, <2>1, <2>2, <2>4
<1>4. CASE args[i] = kConfigFlag
  <2>1. i' = i + 2 /\ config_path' = PathOf(i) /\ i # Len(args)
    BY <1>4 DEF CliStep, Dangling, PathOf
  <2>2. /\ i + 1 <= Len(args) /\ i' - 1 = i + 1 /\ i' \in 1..(Len(args) + 1)
        /\ i + 1 > 1 /\ (i + 1) - 1 = i /\ ((i + 1) + 1) - 1 = i + 1
    <3>1. ASSUME NEW n \in Nat, NEW k, k - 1 \in Nat, k \in Nat, k <= n, k # n
          PROVE  /\ k + 1 <= n /\ (k + 2) - 1 = k + 1 /\ k + 2 \in 1..(n + 1)
                 /\ k + 1 > 1 /\ (k + 1) - 1 = k /\ ((k + 1) + 1) - 1 = k + 1
      BY SMTT(60), <3>1
    <3>. QED  BY <1>0, <2>1, <3>1
  <2>3. Follows(i + 1, V)
    BY <1>3, <1>4, <2>2 DEF Follows
  <2>4. /\ V \cup {i + 1} \in SUBSET (1..(i + 1))
        /\ AreValues(i + 1, V \cup {i + 1}) /\ OnlyValues(i + 1, V \cup {i + 1})
    BY <1>0, <1>3, <2>2, <2>3, ValuesGrow
  <2>5. LastGives(i, V, PathOf(i))
    BY <1>0, <1>3, <1>4, PathGrows DEF IsOption
  <2>6. LastGives(i + 1, V \cup {i + 1}, PathOf(i))
    BY <1>0, <1>3, <2>5, PathGrows
  <2>7. ~Follows((i + 1) + 1, V \cup {i + 1})
    BY <2>2 DEF Follows
  <2>8. PICK V2 : V2 = V \cup {i + 1}
    OBVIOUS
  <2>9. Seen(i + 1, V2, config_path')
    BY <2>1, <2>4, <2>6, <2>7, <2>8 DEF Seen
  <2>10. Seen(i - 1, V2, config_path)'
    BY <1>2, <2>2, <2>9
    DEF Seen, AreValues, OnlyValues, Follows, LastGives, OptionsSeen, IsOption, PathOf
  <2>. QED  BY <1>2, <2>2, <2>10 DEF LoopInv
<1>5. CASE args[i] # kConfigFlag
  <2>1. i' = i + 1
    BY <1>5 DEF CliStep
  <2>2. i' - 1 = i /\ i' \in 1..(Len(args) + 1) /\ (i + 1) - 1 = i
    BY SMTT(60), <1>0, <2>1
  <2>3. LastGives(i, V, config_path')
    BY <1>0, <1>3, <1>5, PathGrows DEF CliStep, IsOption, PathOf
  <2>4. ~Follows(i + 1, V)
    BY <1>5, <2>2 DEF Follows
  <2>5. Seen(i, V, config_path')
    BY <1>3, <2>3, <2>4 DEF Seen
  <2>6. Seen(i - 1, V, config_path)'
    BY <1>2, <2>2, <2>5
    DEF Seen, AreValues, OnlyValues, Follows, LastGives, OptionsSeen, IsOption, PathOf
  <2>. QED  BY <1>2, <2>2, <2>6 DEF LoopInv
<1>. QED  BY <1>4, <1>5

(* The reference chooses the values that the loop found. *)
LEMMA ValuesFound ==
  ASSUME ArgsOK, NEW V \in SUBSET DOMAIN args, AreValues(Len(args), V),
         OnlyValues(Len(args), V)
  PROVE  Values(args) = V
<1>1. DOMAIN args = 1..Len(args)
  BY ArgsFacts
<1>2. /\ Values(args) \in SUBSET DOMAIN args
      /\ \A k \in DOMAIN args :
           k \in Values(args)
             <=> k > 1 /\ args[k - 1] = kConfigFlag /\ k - 1 \notin Values(args)
  BY <1>1 DEF Values, AreValues, Follows
<1>3. AreValues(Len(args), Values(args))
  BY <1>1, <1>2 DEF AreValues, Follows
<1>4. \A k \in DOMAIN args : k \in Values(args) <=> k \in V
  BY <1>1, <1>2, <1>3 DEF OnlyValues
<1>. QED  BY <1>2, <1>4

(* The loop throws only for a --config with nothing after it. *)
LEMMA LoopThrows ==
  ASSUME ArgsOK, LoopInv, Dangling
  PROVE  IsDangling(args)
<1>0. Len(args) \in Nat /\ DOMAIN args = 1..Len(args) /\ i = Len(args)
      /\ args[i] = kConfigFlag /\ i - 1 \in Nat /\ (i - 1) + 1 = i /\ i <= Len(args)
      /\ i \in 1..i /\ i \notin 1..(i - 1)
  BY SMTT(60), ArgsFacts DEF LoopInv, Dangling
<1>1. PICK V : Seen(i - 1, V, config_path)
  BY DEF LoopInv
<1>2. /\ V \in SUBSET (1..(i - 1)) /\ AreValues(i - 1, V) /\ OnlyValues(i - 1, V)
      /\ ~Follows(i, V)
  BY <1>0, <1>1 DEF Seen
<1>3. V = IF Follows((i - 1) + 1, V) THEN V \cup {(i - 1) + 1} ELSE V
  BY <1>0, <1>2
<1>4. /\ V \in SUBSET (1..((i - 1) + 1))
      /\ AreValues((i - 1) + 1, V) /\ OnlyValues((i - 1) + 1, V)
  BY <1>0, <1>2, <1>3, ValuesGrow
<1>5. Values(args) = V
  BY <1>0, <1>4, ValuesFound
<1>6. Len(args) \notin Values(args)
  BY <1>0, <1>2, <1>5
<1>. QED  BY <1>0, <1>6 DEF IsDangling, Options

(* The largest of a set of numbers. *)
LEMMA MaxIs ==
  ASSUME NEW S \in SUBSET Nat, NEW m \in S, \A k \in S : k <= m
  PROVE  Max(S) = m
<1>1. \A k \in S : m >= k
  BY SMTT(60)
<1>2. Max(S) \in S /\ \A k \in S : Max(S) >= k
  BY <1>1 DEF Max
<1>3. Max(S) \in Nat /\ m \in Nat /\ Max(S) >= m /\ Max(S) <= m
  BY <1>2
<1>. QED  BY SMTT(60), <1>3

(* After the loop the path is the one the last option gives, and every     *)
(* --config had its value.                                                 *)
LEMMA LoopReturns ==
  ASSUME ArgsOK, LoopInv, i > Len(args)
  PROVE  ~IsDangling(args) /\ config_path = PathGiven(args)
<1>0. Len(args) \in Nat /\ DOMAIN args = 1..Len(args)
  BY ArgsFacts
<1>1. i - 1 = Len(args)
  BY SMTT(60), <1>0 DEF LoopInv
<1>2. PICK V : Seen(Len(args), V, config_path)
  BY <1>1 DEF LoopInv
<1>3. /\ V \in SUBSET DOMAIN args /\ AreValues(Len(args), V) /\ OnlyValues(Len(args), V)
      /\ ~Follows(Len(args) + 1, V) /\ LastGives(Len(args), V, config_path)
  BY <1>0, <1>2 DEF Seen
<1>4. Values(args) = V
  BY <1>3, ValuesFound
<1>5. Options(args) = OptionsSeen(Len(args), V)
  BY <1>0, <1>4 DEF Options, OptionsSeen, IsOption
<1>6. ~IsDangling(args)
  <2>. SUFFICES ASSUME IsDangling(args) PROVE FALSE
    OBVIOUS
  <2>1. Len(args) \in 1..Len(args) /\ Len(args) \notin V /\ args[Len(args)] = kConfigFlag
    BY <1>0, <1>4 DEF IsDangling, Options
  <2>2. Len(args) + 1 > 1 /\ (Len(args) + 1) - 1 = Len(args)
    BY SMTT(60), <1>0, <2>1
  <2>. QED  BY <1>3, <2>1, <2>2 DEF Follows
<1>7. ASSUME OptionsSeen(Len(args), V) = {}, config_path = DefaultPath
      PROVE  config_path = PathGiven(args)
  BY <1>5, <1>7 DEF PathGiven
<1>8. ASSUME NEW last \in OptionsSeen(Len(args), V),
             \A k \in OptionsSeen(Len(args), V) : k <= last,
             config_path = PathOf(last)
      PROVE  config_path = PathGiven(args)
  <2>1. Options(args) \in SUBSET Nat
    BY SMTT(60), <1>0 DEF Options
  <2>2. Max(Options(args)) = last
    BY <1>5, <1>8, <2>1, MaxIs
  <2>. QED  BY <1>5, <1>8, <2>2 DEF PathGiven, PathOf
<1>. QED  BY <1>3, <1>6, <1>7, <1>8 DEF LastGives

(* Nothing after the loop touches the arguments or the path. *)
LEMMA PathKept == ArgsOK /\ PathInv /\ [StartNext]_allVars => PathInv'
<1>. SUFFICES ASSUME ArgsOK, PathInv, [StartNext]_allVars PROVE PathInv'
  OBVIOUS
<1>1. ASSUME UNCHANGED cliVars,
             phase' = phase \/ (phase # "cli" /\ phase # "failed" /\ phase' # "cli")
      PROVE  PathInv'
  <2>1. CASE phase' = phase
    <3>1. CASE phase = "cli"
      <4>1. PICK V : Seen(i - 1, V, config_path)
        BY <3>1 DEF PathInv, LoopInv
      <4>2. Seen(i - 1, V, config_path)'
        BY <1>1, <4>1
        DEF cliVars, Seen, AreValues, OnlyValues, Follows, LastGives, OptionsSeen,
            IsOption, PathOf
      <4>. QED  BY <1>1, <2>1, <3>1, <4>2 DEF PathInv, LoopInv, cliVars
    <3>2. CASE phase # "cli"
      BY <1>1, <2>1, <3>2 DEF PathInv, cliVars
    <3>. QED  BY <3>1, <3>2
  <2>2. CASE phase # "cli" /\ phase # "failed" /\ phase' # "cli"
    <3>1. ~IsDangling(args) /\ config_path = PathGiven(args)
      BY <2>2 DEF PathInv
    <3>2. ~IsDangling(args)' /\ config_path' = PathGiven(args)'
      BY <1>1, <3>1 DEF cliVars
    <3>. QED  BY <2>2, <3>2 DEF PathInv
  <2>. QED  BY <1>1, <2>1, <2>2
<1>2. CASE ParseArgument
  <2>1. phase = "cli" /\ phase' = "cli" /\ CliStep
    BY <1>2 DEF ParseArgument, startVars
  <2>2. LoopInv'
    BY <2>1, LoopKept DEF PathInv
  <2>. QED  BY <2>1, <2>2 DEF PathInv
<1>3. CASE ParseEnds
  <2>1. phase = "cli" /\ UNCHANGED cliVars /\ LoopInv
    BY <1>3 DEF ParseEnds, PathInv
  <2>2. CASE Dangling /\ phase' = "failed"
    <3>1. IsDangling(args)
      BY <2>1, <2>2, LoopThrows
    <3>2. IsDangling(args)'
      BY <2>1, <3>1 DEF cliVars
    <3>. QED  BY <2>2, <3>2 DEF PathInv
  <2>3. CASE i > Len(args) /\ phase' = "load"
    <3>1. ~IsDangling(args) /\ config_path = PathGiven(args)
      BY <2>1, <2>3, LoopReturns
    <3>2. ~IsDangling(args)' /\ config_path' = PathGiven(args)'
      BY <2>1, <3>1 DEF cliVars
    <3>. QED  BY <2>3, <3>2 DEF PathInv
  <2>. QED  BY <1>3, <2>2, <2>3 DEF ParseEnds
<1>4. CASE LoadFails \/ Load \/ OpenSink \/ SinkFails
  BY <1>1, <1>4 DEF LoadFails, Load, OpenSink, SinkFails
<1>5. CASE Run \/ UNCHANGED allVars
  BY <1>1, <1>5 DEF Run, startVars, allVars
<1>. QED  BY <1>2, <1>3, <1>4, <1>5 DEF StartNext

----------------------------------------------------------------------------
(* The config file *)

(* A number of the file, in tenths, if it gives it. *)
TenthsOf(fields, name, default) ==
  IF name \in DOMAIN fields THEN fields[name].tenths ELSE default

(* The reconnect settings the file gives. *)
ReconnectGiven(fields) ==
  IF "reconnect" \in DOMAIN fields THEN fields["reconnect"].fields
  ELSE [none \in {} |-> 0]

(* What the ReconnectConfig must be. *)
ReconnectOf(fields) ==
  LET r == ReconnectGiven(fields)
  IN  [initial |-> TenthsOf(r, "initial_backoff_ms", 10 * DefaultReconnect.initial) \div 10,
       max |-> TenthsOf(r, "max_backoff_ms", 10 * DefaultReconnect.max) \div 10,
       tenths |-> TenthsOf(r, "jitter_ratio", DefaultReconnect.tenths)]

(* A number that gets through is a whole one in the unsigned word and not  *)
(* zero.                                                                   *)
LEMMA NumberLoaded ==
  ASSUME NEW object, NEW field, \A v \in Range(object.fields) : IsScalar(v),
         NEW n \in parse_positive_u64(object, field)
  PROVE  /\ field \in DOMAIN object.fields
         /\ n \in 1..UInt64Max
         /\ n = object.fields[field].tenths \div 10
         /\ 10 * n = object.fields[field].tenths
<1>. DEFINE v == object.fields[field]
<1>1. /\ field \in DOMAIN object.fields
      /\ IsUnsigned(v) /\ v.tenths > 0 /\ n = v.tenths \div 10
  BY DEF parse_positive_u64, contains, Throws
<1>2. IsScalar(v)
  BY <1>1 DEF Range
<1>3. v.tenths \in Int /\ v.tenths % 10 = 0 /\ v.tenths \in 0..(10 * UInt64Max)
  BY <1>1, <1>2 DEF IsScalar, IsUnsigned
<1>4. UInt64Max \in Nat
  BY SMTT(60), LoaderAssumption DEF UInt64Max
<1>5. \A t \in Int, u \in Nat :
        t % 10 = 0 /\ t \in 0..(10 * u) /\ t > 0
          => t \div 10 \in 1..u /\ 10 * (t \div 10) = t
  BY SMTT(60)
<1>. HIDE DEF v
<1>6. n \in 1..UInt64Max /\ 10 * n = v.tenths
  BY <1>1, <1>3, <1>4, <1>5
<1>. QED  BY <1>1, <1>6 DEF v

(* The same for a number that has a default. *)
LEMMA NumberOrDefault ==
  ASSUME NEW object, NEW field, \A v \in Range(object.fields) : IsScalar(v),
         NEW default \in 1..UInt64Max, NEW n \in OrDefault(object, field, default)
  PROVE  /\ n \in 1..UInt64Max
         /\ n = TenthsOf(object.fields, field, 10 * default) \div 10
         /\ 10 * n = TenthsOf(object.fields, field, 10 * default)
<1>1. CASE field \in DOMAIN object.fields
  <2>1. n \in parse_positive_u64(object, field)
    BY <1>1 DEF OrDefault, contains
  <2>2. TenthsOf(object.fields, field, 10 * default) = object.fields[field].tenths
    BY <1>1 DEF TenthsOf
  <2>. QED  BY <2>1, <2>2, NumberLoaded
<1>2. CASE field \notin DOMAIN object.fields
  <2>1. n = default /\ TenthsOf(object.fields, field, 10 * default) = 10 * default
    BY <1>2 DEF OrDefault, contains, TenthsOf
  <2>2. UInt64Max \in Nat
    BY SMTT(60), LoaderAssumption DEF UInt64Max
  <2>3. \A u \in Nat : \A d \in 1..u : d = (10 * d) \div 10
    BY SMTT(60)
  <2>. QED  BY <2>1, <2>2, <2>3
<1>. QED  BY <1>1, <1>2

(* The reconnect settings: those of the file over the defaults, in order.  *)
LEMMA ReconnectLoaded ==
  ASSUME NEW file, file.type = "object", IsFile(file),
         NEW c \in parse_reconnect_config(file)
  PROVE  c \in Configs /\ c = ReconnectOf(file.fields)
<1>0. /\ UInt64Max \in Nat
      /\ DefaultReconnect \in [initial : 1..UInt64Max, max : 1..UInt64Max, tenths : 0..10]
      /\ DefaultReconnect.initial <= DefaultReconnect.max
  BY SMTT(60), LoaderAssumption DEF UInt64Max
<1>1. CASE "reconnect" \notin DOMAIN file.fields
  <2>1. c = DefaultReconnect
    BY <1>1 DEF parse_reconnect_config, contains
  <2>2. ReconnectOf(file.fields)
          = [initial |-> (10 * DefaultReconnect.initial) \div 10,
             max |-> (10 * DefaultReconnect.max) \div 10,
             tenths |-> DefaultReconnect.tenths]
    BY <1>1 DEF ReconnectOf, ReconnectGiven, TenthsOf
  <2>3. \A u \in Nat : \A d \in 1..u : (10 * d) \div 10 = d
    BY SMTT(60)
  <2>4. /\ (10 * DefaultReconnect.initial) \div 10 = DefaultReconnect.initial
        /\ (10 * DefaultReconnect.max) \div 10 = DefaultReconnect.max
    BY <1>0, <2>3
  <2>5. DefaultReconnect = [initial |-> DefaultReconnect.initial,
                            max |-> DefaultReconnect.max,
                            tenths |-> DefaultReconnect.tenths]
    BY SMTT(60), <1>0
  <2>. QED  BY <1>0, <2>1, <2>2, <2>4, <2>5 DEF Configs
<1>2. CASE "reconnect" \in DOMAIN file.fields
  <2>. DEFINE r == file.fields["reconnect"]
  <2>1. r.type = "object" /\ ReconnectGiven(file.fields) = r.fields
    BY <1>2 DEF parse_reconnect_config, contains, ReconnectGiven, Throws
  <2>2. c \in [initial : OrDefault(r, "initial_backoff_ms", DefaultReconnect.initial),
               max : OrDefault(r, "max_backoff_ms", DefaultReconnect.max),
               tenths : parse_jitter_ratio(r)] /\ c.initial <= c.max
    BY <1>2 DEF parse_reconnect_config, contains, Throws
  <2>3. \A v \in Range(r.fields) : IsScalar(v)
    BY <1>2, <2>1 DEF IsFile, Range
  <2>. HIDE DEF r
  <2>4. /\ c.initial \in OrDefault(r, "initial_backoff_ms", DefaultReconnect.initial)
        /\ c.max \in OrDefault(r, "max_backoff_ms", DefaultReconnect.max)
        /\ c.tenths \in parse_jitter_ratio(r)
    BY <2>2
  <2>. DEFINE Known(n, field, default) ==
                /\ n \in 1..UInt64Max
                /\ n = TenthsOf(r.fields, field, 10 * default) \div 10
  <2>5. DefaultReconnect.initial \in 1..UInt64Max /\ DefaultReconnect.max \in 1..UInt64Max
        /\ DefaultReconnect.tenths \in 0..10
    BY <1>0
  <2>. HIDE DEF Known
  <2>n. ASSUME NEW field, NEW default \in 1..UInt64Max, NEW n \in OrDefault(r, field, default)
        PROVE  Known(n, field, default)
    BY <2>3, <2>n, NumberOrDefault DEF Known
  <2>6. /\ c.initial \in 1..UInt64Max
        /\ c.initial
             = TenthsOf(r.fields, "initial_backoff_ms", 10 * DefaultReconnect.initial) \div 10
    BY <2>4, <2>5, <2>n DEF Known
  <2>7. /\ c.max \in 1..UInt64Max
        /\ c.max = TenthsOf(r.fields, "max_backoff_ms", 10 * DefaultReconnect.max) \div 10
    BY <2>4, <2>5, <2>n DEF Known
  <2>8. /\ c.tenths \in 0..10
        /\ c.tenths = TenthsOf(r.fields, "jitter_ratio", DefaultReconnect.tenths)
    BY <2>4, <2>5 DEF parse_jitter_ratio, contains, TenthsOf, Throws
  <2>9. c = [initial |-> c.initial, max |-> c.max, tenths |-> c.tenths]
    BY SMTT(60), <2>2
  <2>10. c \in Configs
    BY SMTT(60), <2>2, <2>6, <2>7, <2>8, <2>9 DEF Configs
  <2>11. ReconnectOf(file.fields) = [initial |-> c.initial, max |-> c.max, tenths |-> c.tenths]
    BY <2>1, <2>6, <2>7, <2>8 DEF ReconnectOf
  <2>. QED  BY <2>9, <2>10, <2>11
<1>. QED  BY <1>1, <1>2

(* The items of the symbols field. *)
Items(file) == file.fields["symbols"].items

(* When parse_symbols returns they are not empty, each a text of letters   *)
(* and digits, and what it returns is these in upper case.                 *)
LEMMA ItemsLoaded ==
  ASSUME NEW file, file.type = "object", IsFile(file), NEW z \in parse_symbols(file)
  PROVE  /\ "symbols" \in DOMAIN file.fields
         /\ z = [k \in DOMAIN Items(file) |-> to_upper_ascii(Items(file)[k].text)]
         /\ Len(Items(file)) \in Nat \ {0} /\ DOMAIN Items(file) = 1..Len(Items(file))
         /\ \A k \in DOMAIN Items(file) :
              /\ IsSymbol(Items(file)[k])
              /\ Items(file)[k].text \in Seq(STRING)
<1>1. /\ "symbols" \in DOMAIN file.fields /\ file.fields["symbols"].type = "array"
      /\ Items(file) # <<>> /\ \A v \in Range(Items(file)) : IsSymbol(v)
      /\ z = [k \in DOMAIN Items(file) |-> to_upper_ascii(Items(file)[k].text)]
  BY DEF parse_symbols, contains, Throws, Items
<1>2. /\ Items(file) \in Seq(Range(Items(file)))
      /\ \A v \in Range(Items(file)) : IsScalar(v)
  BY <1>1 DEF IsFile, Items, Range
<1>3. Len(Items(file)) \in Nat \ {0} /\ DOMAIN Items(file) = 1..Len(Items(file))
  <2>. DEFINE it == Items(file)
  <2>. HIDE DEF it
  <2>1. it \in Seq(Range(it)) /\ it # <<>>
    BY <1>1, <1>2 DEF it
  <2>2. Len(it) \in Nat \ {0} /\ DOMAIN it = 1..Len(it)
    BY SMTT(60), <2>1
  <2>. QED  BY <2>2 DEF it
<1>4. ASSUME NEW k \in DOMAIN Items(file)
      PROVE  IsSymbol(Items(file)[k]) /\ Items(file)[k].text \in Seq(STRING)
  <2>1. Items(file)[k] \in Range(Items(file))
    BY DEF Range
  <2>. QED  BY <1>1, <1>2, <2>1 DEF IsSymbol, IsScalar
<1>. QED  BY <1>1, <1>3, <1>4

(* toupper and then tolower give what tolower alone gives. *)
LEMMA CaseFolds ==
  ASSUME NEW ch PROVE ToLower(ToUpper(ch)) = ToLower(ch)
<1>1. CASE ch \in DOMAIN Capital
  <2>1. ToUpper(ch) = Capital[ch] /\ Capital[ch] \in Range(Capital)
    BY <1>1 DEF ToUpper, Range
  <2>2. ch \notin Range(Capital)
    BY <1>1, LoaderAssumption
  <2>3. \A l \in DOMAIN Capital : Capital[l] = Capital[ch] => l = ch
    BY <1>1, LoaderAssumption DEF IsInjective
  <2>4. (CHOOSE l \in DOMAIN Capital : Capital[l] = Capital[ch]) = ch
    BY <1>1, <2>3
  <2>5. ToLower(Capital[ch]) = ch
    BY <2>1, <2>4 DEF ToLower
  <2>6. ToLower(ch) = ch
    BY <2>2 DEF ToLower
  <2>. QED  BY <2>1, <2>5, <2>6
<1>2. CASE ch \notin DOMAIN Capital
  BY <1>2 DEF ToUpper
<1>. QED  BY <1>1, <1>2

(* A symbol that gets through is not empty and has capitals and digits     *)
(* only.                                                                   *)
LEMMA SymbolsLoaded ==
  ASSUME NEW file, file.type = "object", IsFile(file), NEW z \in parse_symbols(file)
  PROVE  /\ z # <<>>
         /\ \A symbol \in Range(z) :
              /\ symbol # <<>>
              /\ \A ch \in Range(symbol) : ch \in Range(Capital) \cup DigitChars
<1>. DEFINE it == Items(file)
<1>1. /\ z = [k \in DOMAIN it |-> to_upper_ascii(it[k].text)]
      /\ Len(it) \in Nat \ {0} /\ DOMAIN it = 1..Len(it)
      /\ \A k \in DOMAIN it : IsSymbol(it[k]) /\ it[k].text \in Seq(STRING)
  BY ItemsLoaded
<1>. HIDE DEF it
<1>2. DOMAIN z = DOMAIN it /\ 1 \in DOMAIN it
  BY SMTT(60), <1>1
<1>3. z # <<>>
  BY SMTT(60), <1>2
<1>4. ASSUME NEW k \in DOMAIN z
      PROVE  /\ z[k] # <<>>
             /\ \A ch \in Range(z[k]) : ch \in Range(Capital) \cup DigitChars
  <2>. DEFINE text == it[k].text
  <2>1. /\ z[k] = [n \in DOMAIN text |-> ToUpper(text[n])]
        /\ text \in Seq(STRING) /\ text # <<>>
        /\ \A n \in DOMAIN text : IsAlnum(text[n])
    BY <1>1, <1>2 DEF to_upper_ascii, IsSymbol
  <2>. HIDE DEF text
  <2>2. 1 \in DOMAIN text
    BY SMTT(60), <2>1
  <2>3. z[k] # <<>>
    BY SMTT(60), <2>1, <2>2
  <2>4. ASSUME NEW n \in DOMAIN text PROVE ToUpper(text[n]) \in Range(Capital) \cup DigitChars
    BY <2>1 DEF IsAlnum, ToUpper, Range
  <2>5. ASSUME NEW ch \in Range(z[k]) PROVE ch \in Range(Capital) \cup DigitChars
    <3>1. PICK n \in DOMAIN text : ch = ToUpper(text[n])
      BY <2>1 DEF Range
    <3>. QED  BY <2>4, <3>1
  <2>. QED  BY <2>3, <2>5
<1>. QED  BY <1>3, <1>4 DEF Range

(* A stream for each symbol of the file, in lower case. *)
LEMMA StreamsLoaded ==
  ASSUME NEW file, file.type = "object", IsFile(file), NEW z \in parse_symbols(file)
  PROVE  /\ Len(StreamsOf(z)) = Len(Items(file))
         /\ DOMAIN StreamsOf(z) = DOMAIN Items(file)
         /\ \A k \in DOMAIN StreamsOf(z) :
              StreamsOf(z)[k] = [n \in DOMAIN Items(file)[k].text |->
                                   ToLower(Items(file)[k].text[n])]
<1>. DEFINE it == Items(file)
            st == StreamsOf(z)
<1>1. /\ z = [k \in DOMAIN it |-> to_upper_ascii(it[k].text)]
      /\ Len(it) \in Nat /\ DOMAIN it = 1..Len(it)
  BY ItemsLoaded
<1>2. st = [k \in DOMAIN z |-> [n \in DOMAIN z[k] |-> ToLower(z[k][n])]]
  BY DEF StreamsOf
<1>. HIDE DEF it, st
<1>3. DOMAIN z = DOMAIN it /\ DOMAIN st = 1..Len(it)
  BY <1>1, <1>2
<1>4. Len(st) = Len(it)
  <2>1. st \in [1..Len(it) -> Range(st)]
    BY <1>2, <1>3 DEF Range
  <2>. QED  BY SMTT(60), <1>1, <2>1
<1>5. ASSUME NEW k \in DOMAIN st
      PROVE  st[k] = [n \in DOMAIN it[k].text |-> ToLower(it[k].text[n])]
  <2>. DEFINE text == it[k].text
  <2>1. z[k] = [n \in DOMAIN text |-> ToUpper(text[n])]
    BY <1>1, <1>3 DEF to_upper_ascii
  <2>2. st[k] = [n \in DOMAIN z[k] |-> ToLower(z[k][n])]
    BY <1>1, <1>2, <1>3
  <2>. HIDE DEF text
  <2>3. DOMAIN z[k] = DOMAIN text /\ \A n \in DOMAIN text : ToLower(z[k][n]) = ToLower(text[n])
    BY <2>1, CaseFolds
  <2>4. st[k] = [n \in DOMAIN text |-> ToLower(text[n])]
    BY <2>2, <2>3
  <2>. QED  BY <2>4 DEF text
<1>6. DOMAIN st = DOMAIN it
  BY <1>1, <1>3
<1>. QED  BY <1>4, <1>5, <1>6 DEF it, st

(* The other fields of a Config that was loaded. *)
LEMMA ConfigLoaded ==
  ASSUME NEW file, IsFile(file), NEW c \in load_from_file(file)
  PROVE  /\ file.type = "object"
         /\ c.symbols \in parse_symbols(file)
         /\ c.reconnect \in Configs /\ c.reconnect = ReconnectOf(file.fields)
         /\ \A f \in {"window_ms", "flush_interval_ms", "aggregator_threads"} :
              c[f] \in 1..UInt64Max /\ 10 * c[f] = TenthsOf(file.fields, f, 10)
         /\ \A f \in {"output_file", "ws_host", "ws_port"} : file.fields[f].text = c[f]
<1>1. file.type = "object" /\ c \in parse_config_json(file)
  BY DEF load_from_file, Throws
<1>2. /\ c.symbols \in parse_symbols(file)
      /\ c["window_ms"] \in parse_positive_u64(file, "window_ms")
      /\ c["flush_interval_ms"] \in parse_positive_u64(file, "flush_interval_ms")
      /\ c["aggregator_threads"] \in OrDefault(file, "aggregator_threads", 1)
      /\ c["output_file"] \in parse_required_string(file, "output_file")
      /\ c["ws_host"] \in parse_required_string(file, "ws_host")
      /\ c["ws_port"] \in parse_required_string(file, "ws_port")
      /\ c.reconnect \in parse_reconnect_config(file)
  BY <1>1 DEF parse_config_json, parse_aggregator_threads
<1>3. \A v \in Range(file.fields) : IsScalar(v)
  BY <1>1 DEF IsFile
<1>4. c.reconnect \in Configs /\ c.reconnect = ReconnectOf(file.fields)
  BY <1>1, <1>2, ReconnectLoaded
<1>5. ASSUME NEW f, NEW n \in parse_positive_u64(file, f)
      PROVE  n \in 1..UInt64Max /\ 10 * n = TenthsOf(file.fields, f, 10)
  BY <1>3, <1>5, NumberLoaded DEF TenthsOf
<1>6. /\ c["aggregator_threads"] \in 1..UInt64Max
      /\ 10 * c["aggregator_threads"] = TenthsOf(file.fields, "aggregator_threads", 10)
  <2>1. 1 \in 1..UInt64Max /\ 10 * 1 = 10
    BY SMTT(60), LoaderAssumption DEF UInt64Max
  <2>2. /\ c["aggregator_threads"] \in 1..UInt64Max
        /\ 10 * c["aggregator_threads"] = TenthsOf(file.fields, "aggregator_threads", 10 * 1)
    BY <1>2, <1>3, <2>1, NumberOrDefault
  <2>. QED  BY <2>1, <2>2
<1>7. ASSUME NEW f, NEW text \in parse_required_string(file, f)
      PROVE  file.fields[f].text = text
  BY <1>7 DEF parse_required_string, Throws
<1>8. \A f \in {"window_ms", "flush_interval_ms", "aggregator_threads"} :
        c[f] \in 1..UInt64Max /\ 10 * c[f] = TenthsOf(file.fields, f, 10)
  BY <1>2, <1>5, <1>6
<1>9. \A f \in {"output_file", "ws_host", "ws_port"} : file.fields[f].text = c[f]
  BY <1>2, <1>7
<1>. QED  BY <1>1, <1>2, <1>4, <1>8, <1>9

----------------------------------------------------------------------------
(* main() *)

(* The arguments and the files stay as the process found them. *)
WorldInv == \E w \in Worlds : args = w.args /\ files = w.files

(* The settings are those of the file at the path, once it is loaded, and  *)
(* the stages are built from them.                                         *)
SettingsInv ==
  /\ phase \in {"cli", "load", "failed", "open", "running", "terminated"}
  /\ phase \in {"cli", "load", "failed"} => settings = {}
  /\ phase \in {"open", "running", "terminated"} =>
       settings = load_from_file(FileAt(config_path))
  /\ phase = "running" =>
       \E c \in settings : config = c.reconnect /\ streams = StreamsOf(c.symbols)

StartInv == WorldInv /\ PathInv /\ SettingsInv

(* What a process may find is as the loader and the loop assume. *)
LEMMA WorldFacts == WorldInv => ArgsOK /\ \A path : IsFile(FileAt(path))
<1>. SUFFICES ASSUME WorldInv PROVE ArgsOK /\ \A path : IsFile(FileAt(path))
  OBVIOUS
<1>1. ArgsOK /\ \A path \in DOMAIN files : IsFile(files[path])
  BY WorldsAssumption DEF WorldInv, ArgsOK
<1>2. ASSUME NEW path PROVE IsFile(FileAt(path))
  <2>1. CASE path \in DOMAIN files
    BY <1>1, <2>1 DEF FileAt
  <2>2. CASE path \notin DOMAIN files
    <3>1. FileAt(path) = [type |-> "missing"]
      BY <2>2 DEF FileAt
    <3>2. FileAt(path).type # "object"
      BY SMTT(60), <3>1
    <3>. QED  BY <3>2 DEF IsFile
  <2>. QED  BY <2>1, <2>2
<1>. QED  BY <1>1, <1>2

(* main() begins with the command line. *)
LEMMA StartBegins == StartInit => StartInv
<1>. SUFFICES ASSUME StartInit PROVE StartInv
  OBVIOUS
<1>1. WorldInv
  BY DEF StartInit, WorldInv
<1>2. LoopInv
  BY <1>1, WorldFacts, LoopStarts DEF StartInit
<1>. QED  BY <1>1, <1>2 DEF StartInit, StartInv, PathInv, SettingsInv

(* Every step of main(), and of the policy after it, keeps the invariant.  *)
LEMMA StartKept == StartInv /\ [StartNext]_allVars => StartInv'
<1>. SUFFICES ASSUME StartInv, [StartNext]_allVars PROVE StartInv'
  OBVIOUS
<1>. USE DEF allVars, startVars, cliVars, vars
<1>1. WorldInv'
  BY DEF StartInv, WorldInv, StartNext, ParseArgument, CliStep, ParseEnds, LoadFails,
         Load, OpenSink, SinkFails, Run
<1>2. PathInv'
  BY WorldFacts, PathKept DEF StartInv
<1>3. SettingsInv'
  <2>1. CASE ParseArgument \/ ParseEnds \/ LoadFails
    BY <2>1 DEF StartInv, SettingsInv, ParseArgument, ParseEnds, LoadFails
  <2>2. CASE Load
    BY <2>2 DEF Load, SettingsInv, FileAt
  <2>3. CASE OpenSink
    <3>1. phase = "open" /\ phase' = "running" /\ UNCHANGED <<settings, files, config_path>>
      BY <2>3 DEF OpenSink
    <3>2. \E c \in settings' : config' = c.reconnect /\ streams' = StreamsOf(c.symbols)
      BY <2>3, <3>1 DEF OpenSink
    <3>3. settings' = load_from_file(FileAt(config_path)')
      BY <3>1 DEF StartInv, SettingsInv, FileAt
    <3>. QED  BY <3>1, <3>2, <3>3 DEF SettingsInv
  <2>4. CASE SinkFails
    BY <2>4 DEF StartInv, SettingsInv, SinkFails, FileAt
  <2>5. CASE Run \/ UNCHANGED allVars
    <3>1. UNCHANGED <<startVars, cliVars, config>>
      BY <2>5 DEF Run, Next, WaitBegins, WaitInterrupted, WaitTimesOut, Stop, Reset
    <3>. QED  BY <3>1 DEF StartInv, SettingsInv, FileAt
  <2>. QED  BY <2>1, <2>2, <2>3, <2>4, <2>5 DEF StartNext
<1>. QED  BY <1>1, <1>2, <1>3 DEF StartInv

(* The inductive invariant of main() up to the construction of the stages. *)
THEOREM StartInvariance == StartSpec => []StartInv
BY StartBegins, StartKept, PTL DEF StartSpec

(* parse_cli_options returns the path of the last --config of either form, *)
(* for command lines of any length, and throws only for one without value. *)
THEOREM PathChosen == StartSpec => []LastPathWins
<1>1. StartInv => LastPathWins
  BY DEF StartInv, PathInv, LastPathWins
<1>. QED  BY <1>1, StartInvariance, PTL

(* load_from_file lets only settings through that the stages can work      *)
(* with, whatever the file holds.                                          *)
THEOREM ConfigChecked == StartSpec => []BrokenConfigRefused
<1>1. StartInv => BrokenConfigRefused
  <2>. SUFFICES ASSUME StartInv, NEW c \in settings
                PROVE  /\ c.window_ms > 0 /\ c.flush_interval_ms > 0
                       /\ c.aggregator_threads > 0
                       /\ c.symbols # <<>>
                       /\ \A symbol \in Range(c.symbols) :
                            /\ symbol # <<>>
                            /\ \A ch \in Range(symbol) :
                                 ch \in Range(Capital) \cup DigitChars
                       /\ c.reconnect \in Configs
    BY DEF BrokenConfigRefused
  <2>1. PICK file : IsFile(file) /\ c \in load_from_file(file)
    BY WorldFacts DEF StartInv, SettingsInv
  <2>2. /\ c["window_ms"] \in 1..UInt64Max /\ c["flush_interval_ms"] \in 1..UInt64Max
        /\ c["aggregator_threads"] \in 1..UInt64Max
        /\ c.reconnect \in Configs /\ c.symbols \in parse_symbols(file)
        /\ file.type = "object"
    BY <2>1, ConfigLoaded
  <2>3. c.window_ms > 0 /\ c.flush_interval_ms > 0 /\ c.aggregator_threads > 0
    <3>1. UInt64Max \in Nat
      BY SMTT(60), LoaderAssumption DEF UInt64Max
    <3>2. \A u \in Nat : \A x \in 1..u : x > 0
      BY SMTT(60)
    <3>. QED  BY <2>2, <3>1, <3>2
  <2>. QED  BY <2>1, <2>2, <2>3, SymbolsLoaded
<1>. QED  BY <1>1, StartInvariance, PTL

(* The stages are built from what the file says, each field under its own  *)
(* name, with the defaults for what it leaves out.                         *)
THEOREM FileObeyed == StartSpec => []FileDecides
<1>1. StartInv => FileDecides
  <2>. SUFFICES ASSUME StartInv, phase = "running" PROVE FileDecides
    BY DEF FileDecides
  <2>. DEFINE file == FileAt(config_path)
              loaded == CHOOSE c \in settings : TRUE
  <2>1. IsFile(file) /\ settings = load_from_file(file)
    BY WorldFacts DEF StartInv, SettingsInv
  <2>2. PICK c \in settings : config = c.reconnect /\ streams = StreamsOf(c.symbols)
    BY DEF StartInv, SettingsInv
  <2>3. loaded \in settings
    BY <2>2
  <2>. HIDE DEF file, loaded
  <2>4. /\ \A f \in {"window_ms", "flush_interval_ms", "aggregator_threads"} :
             10 * loaded[f] = TenthsOf(file.fields, f, 10)
        /\ \A f \in {"output_file", "ws_host", "ws_port"} :
             file.fields[f].text = loaded[f]
    BY <2>1, <2>3, ConfigLoaded
  <2>5. config = ReconnectOf(file.fields)
    BY <2>1, <2>2, ConfigLoaded
  <2>6. /\ Len(streams) = Len(Items(file))
        /\ \A k \in DOMAIN streams :
             streams[k] = [n \in DOMAIN Items(file)[k].text |->
                             ToLower(Items(file)[k].text[n])]
    <3>1. file.type = "object" /\ c.symbols \in parse_symbols(file)
      BY <2>1, <2>2, ConfigLoaded
    <3>. DEFINE st == StreamsOf(c.symbols)
    <3>2. /\ Len(st) = Len(Items(file))
          /\ \A k \in DOMAIN st :
               st[k] = [n \in DOMAIN Items(file)[k].text |-> ToLower(Items(file)[k].text[n])]
      BY <2>1, <3>1, StreamsLoaded
    <3>3. streams = st
      BY <2>2
    <3>. HIDE DEF st
    <3>. QED  BY <3>2, <3>3
  <2>. QED
    BY <2>4, <2>5, <2>6
    DEF FileDecides, TenthsOf, ReconnectOf, ReconnectGiven, Items, file, loaded
<1>. QED  BY <1>1, StartInvariance, PTL
=============================================================================
