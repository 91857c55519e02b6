---------------------------- MODULE ConfigLoader ----------------------------
(***************************************************************************)
(* ConfigLoader: from the JSON of the config file to a Config.  A parsing  *)
(* function is the set of what it returns: one value, or none if it throws.*)
(*                                                                         *)
(* A JSON value is [type, ...]: "integer" and "float" literals with ten    *)
(* times their value, a "string" with its characters, an "array" with its  *)
(* items, an "object" with its fields.  A file that is "missing" or        *)
(* "malformed" is a value of that type.                                    *)
(***************************************************************************)
EXTENDS Integers, Sequences, Functions

CONSTANTS Int64Max,          \* the largest std::int64_t
          DefaultReconnect,  \* a ReconnectConfig as it is constructed
          Capital,           \* the capital of each lowercase letter
          DigitChars         \* the characters 0 to 9

UInt64Max == 2 * Int64Max + 1

ASSUME LoaderAssumption ==
  /\ Int64Max \in Nat \ {0}
  /\ DefaultReconnect \in [initial : 1..UInt64Max, max : 1..UInt64Max, tenths : 0..10]
  /\ DefaultReconnect.initial <= DefaultReconnect.max
  /\ IsInjective(Capital) /\ DOMAIN Capital \cap Range(Capital) = {}

(* Integer literals are whole numbers; the file is a value at most three   *)
(* levels deep, as far as it is looked at.                                 *)
IsScalar(v) ==
  /\ v.type = "integer" => v.tenths \in Int /\ v.tenths % 10 = 0
  /\ v.type = "float" => v.tenths \in Int
  /\ v.type = "string" => v.text \in Seq(STRING)

IsFile(file) ==
  file.type = "object" => \A v \in Range(file.fields) :
    /\ IsScalar(v)
    /\ v.type = "array" => /\ v.items \in Seq(Range(v.items))
                           /\ \A item \in Range(v.items) : IsScalar(item)
    /\ v.type = "object" => \A field \in Range(v.fields) : IsScalar(field)

Throws == {}

(* std::toupper, std::tolower and std::isalnum. *)
ToUpper(ch) == IF ch \in DOMAIN Capital THEN Capital[ch] ELSE ch
ToLower(ch) == IF ch \in Range(Capital)
               THEN CHOOSE l \in DOMAIN Capital : Capital[l] = ch ELSE ch
IsAlnum(ch) == ch \in DOMAIN Capital \cup Range(Capital) \cup DigitChars

to_upper_ascii(text) == [i \in DOMAIN text |-> ToUpper(text[i])]

contains(object, field) == field \in DOMAIN object.fields

(* The type the JSON library gives a number: an integer literal that fits  *)
(* no word becomes a floating-point number.                                *)
IsUnsigned(v) == v.type = "integer" /\ v.tenths \in 0..(10 * UInt64Max)
IsNumeric(v) == v.type \in {"integer", "float"}

IsSymbol(v) ==
  v.type = "string" /\ v.text # <<>> /\ \A i \in DOMAIN v.text : IsAlnum(v.text[i])

parse_symbols(root) ==
  IF /\ contains(root, "symbols")
     /\ root.fields["symbols"].type = "array"
     /\ root.fields["symbols"].items # <<>>
     /\ \A v \in Range(root.fields["symbols"].items) : IsSymbol(v)
  THEN LET items == root.fields["symbols"].items
       IN  {[i \in DOMAIN items |-> to_upper_ascii(items[i].text)]}
  ELSE Throws

parse_positive_u64(object, field) ==
  IF /\ contains(object, field)
     /\ IsUnsigned(object.fields[field])
     /\ object.fields[field].tenths > 0
  THEN {object.fields[field].tenths \div 10} ELSE Throws

parse_required_string(root, field) ==
  IF /\ contains(root, field)
     /\ root.fields[field].type = "string"
     /\ root.fields[field].text # <<>>
  THEN {root.fields[field].text} ELSE Throws

OrDefault(object, field, default) ==
  IF contains(object, field) THEN parse_positive_u64(object, field) ELSE {default}

parse_aggregator_threads(root) == OrDefault(root, "aggregator_threads", 1)

parse_jitter_ratio(reconnect) ==
  IF ~contains(reconnect, "jitter_ratio") THEN {DefaultReconnect.tenths}
  ELSE LET v == reconnect.fields["jitter_ratio"]
       IN  IF IsNumeric(v) /\ v.tenths \in 0..10 THEN {v.tenths} ELSE Throws

(* Mutant: the backoffs are compared only if the file gives both. *)
parse_reconnect_both(root) ==
  IF ~contains(root, "reconnect") THEN {DefaultReconnect}
  ELSE IF root.fields["reconnect"].type # "object" THEN Throws
  ELSE LET r == root.fields["reconnect"]
       IN  {c \in [initial : OrDefault(r, "initial_backoff_ms", DefaultReconnect.initial),
                   max : OrDefault(r, "max_backoff_ms", DefaultReconnect.max),
                   tenths : parse_jitter_ratio(r)] :
              contains(r, "initial_backoff_ms") /\ contains(r, "max_backoff_ms")
                => c.initial <= c.max}

(* The backoffs are compared after the defaults have been filled in. *)
parse_reconnect_config(root) ==
  IF ~contains(root, "reconnect") THEN {DefaultReconnect}
  ELSE IF root.fields["reconnect"].type # "object" THEN Throws
  ELSE LET r == root.fields["reconnect"]
       IN  {c \in [initial : OrDefault(r, "initial_backoff_ms", DefaultReconnect.initial),
                   max : OrDefault(r, "max_backoff_ms", DefaultReconnect.max),
                   tenths : parse_jitter_ratio(r)] : c.initial <= c.max}

(* The records whose every field is what its function returns: none as     *)
(* soon as one of them throws.                                             *)
parse_config_json(root) ==
  [symbols            : parse_symbols(root),
   window_ms          : parse_positive_u64(root, "window_ms"),
   flush_interval_ms  : parse_positive_u64(root, "flush_interval_ms"),
   aggregator_threads : parse_aggregator_threads(root),
   output_file        : parse_required_string(root, "output_file"),
   ws_host            : parse_required_string(root, "ws_host"),
   ws_port            : parse_required_string(root, "ws_port"),
   reconnect          : parse_reconnect_config(root)]

load_from_file(file) ==
  IF file.type = "object" THEN parse_config_json(file) ELSE Throws
=============================================================================
