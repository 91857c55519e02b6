------------------------------ MODULE MCStartup ------------------------------
(***************************************************************************)
(* Startup for TLC: every command line of up to three words with two       *)
(* files, and for the default path a file for each way a field can be      *)
(* right or wrong.                                                         *)
(***************************************************************************)
EXTENDS Startup, TLC

(* Integer and float literals, in tenths; 32 is too large for a word. *)
Numbers == {-10, 0, 10, 30, 110, 150, 160, 310, 320}
Ratios == {-1, 0, 2, 10, 11}

Words == {"--config", "--config=a", "a", "-v"}
InlineTable == ("--config=a") :> "a"
CapitalTable == "b" :> "B"
Defaults == [initial |-> 2, max |-> 8, tenths |-> 2]

Text(t) == [type |-> "string", text |-> t]
Integer(n) == [type |-> "integer", tenths |-> n]
Float(n) == [type |-> "float", tenths |-> n]
Array(s) == [type |-> "array", items |-> s]
Object(f) == [type |-> "object", fields |-> f]
Null == [type |-> "null"]

Valid == [symbols |-> Array(<<Text(<<"b", "1">>), Text(<<"B">>)>>),
          window_ms |-> Integer(20), flush_interval_ms |-> Integer(10),
          output_file |-> Text(<<"o">>), ws_host |-> Text(<<"h">>),
          ws_port |-> Text(<<"p">>)]

Symbols == {Text(<<>>), Text(<<"B", "-">>), Text(<<"1", "b">>), Integer(10)}

Values1 == {Null, Text(<<>>), Text(<<"x">>), Array(<<>>)}
             \cup {Integer(n) : n \in Numbers} \cup {Float(n) : n \in Ratios}

(* The fields of f with one of them removed, added or changed. *)
Variants(f, names, values) ==
  {[g \in DOMAIN f \ {n} |-> f[g]] : n \in names}
  \cup {(n :> v) @@ f : n \in names, v \in values}

ReconnectFields ==
  {(IF i1 = Null THEN <<>> ELSE "initial_backoff_ms" :> i1)
     @@ (IF m = Null THEN <<>> ELSE "max_backoff_ms" :> m)
     @@ (IF j = Null THEN <<>> ELSE "jitter_ratio" :> j) :
     i1 \in {Null, Float(10)} \cup {Integer(n) : n \in Numbers},
     m \in {Null, Text(<<"x">>)} \cup {Integer(n) : n \in Numbers},
     j \in {Null, Text(<<"x">>), Integer(0), Integer(10)} \cup {Float(n) : n \in Ratios}}

Roots ==
  {Valid} \cup Variants(Valid, DOMAIN Valid \cup {"aggregator_threads"}, Values1)
  \cup {("symbols" :> Array(s)) @@ Valid : s \in {<<a>> : a \in Symbols} \cup {<<Text(<<"B">>), a>> : a \in Symbols}}
  \cup {("reconnect" :> Object(r)) @@ Valid : r \in ReconnectFields}
  \cup {("reconnect" :> v) @@ Valid : v \in {Null, Integer(10)}}

TestWorlds ==
  {[args |-> <<>>, files |-> DefaultPath :> f] :
     f \in {Object(r) : r \in Roots} \cup {Null, [type |-> "malformed"]}}
  \cup {[args |-> w, files |-> ("a" :> Object(Valid)) @@ d] :
          w \in UNION {[1..n -> Words] : n \in 0..3},
          d \in {<<>>, DefaultPath :> Object(("window_ms" :> Integer(30)) @@ Valid)}}
=============================================================================
