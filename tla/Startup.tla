------------------------------- MODULE Startup -------------------------------
(***************************************************************************)
(* main.cpp up to the construction of the stages: the command line, the    *)
(* config file, the output file, and the ReconnectPolicy the network stage *)
(* then waits with.  Module Service has the rest of main().                *)
(***************************************************************************)
EXTENDS ReconnectPolicy, CliOptions

CONSTANT Worlds   \* what a process may find: its arguments, and the files

ASSUME WorldsAssumption ==
  \A w \in Worlds : /\ w.args \in Seq(STRING)
                    /\ \A path \in DOMAIN w.files : IsFile(w.files[path])

VARIABLES phase,     \* how far main() has come
          files,     \* the config files by path
          settings,  \* the Config, once loaded (as a set)
          streams    \* the stream names of the target

startVars == <<phase, files, settings, streams>>
allVars == <<startVars, cliVars, vars>>

StartInit ==
  /\ \E w \in Worlds : args = w.args /\ files = w.files
  /\ CliInit
  /\ Init(DefaultReconnect)
  /\ phase = "cli"
  /\ settings = {}
  /\ streams = <<>>

ParseArgument ==
  /\ phase = "cli"
  /\ CliStep
  /\ UNCHANGED <<startVars, vars>>

(* The end of parse_cli_options: it throws, or main() loads the file. *)
ParseEnds ==
  /\ phase = "cli"
  /\ \/ i <= Len(args) /\ Dangling /\ phase' = "failed"
     \/ i > Len(args) /\ phase' = "load"
  /\ UNCHANGED <<files, settings, streams, cliVars, vars>>

FileAt(path) == IF path \in DOMAIN files THEN files[path] ELSE [type |-> "missing"]

LoadFails ==
  /\ phase = "load"
  /\ load_from_file(FileAt(config_path)) = Throws
  /\ phase' = "failed"
  /\ UNCHANGED <<files, settings, streams, cliVars, vars>>

Load ==
  /\ phase = "load"
  /\ settings' = load_from_file(FileAt(config_path))
  /\ settings' # Throws
  /\ phase' = "open"
  /\ UNCHANGED <<files, streams, cliVars, vars>>

(* Mutant: the symbols go into the target as they are in the Config. *)
StreamsAsLoaded(symbols) == symbols

(* build_combined_stream_target: a lowercase name for every symbol. *)
StreamsOf(symbols) ==
  [k \in DOMAIN symbols |-> [n \in DOMAIN symbols[k] |-> ToLower(symbols[k][n])]]

(* The sink, which appends to the file, and the constructors of the stages. *)
OpenSink ==
  /\ phase = "open"
  /\ \E c \in settings :
       /\ config' = c.reconnect
       /\ streams' = StreamsOf(c.symbols)
  /\ phase' = "running"
  /\ UNCHANGED <<files, settings, cliVars, attempt, stop, waiting, delay>>

(* The sink's constructor throws outside of every try block. *)
SinkFails ==
  /\ phase = "open"
  /\ phase' = "terminated"
  /\ UNCHANGED <<files, settings, streams, cliVars, vars>>

Run ==
  /\ phase = "running"
  /\ Next
  /\ UNCHANGED <<startVars, cliVars>>

StartNext ==
  \/ ParseArgument \/ ParseEnds \/ LoadFails \/ Load \/ OpenSink \/ SinkFails \/ Run

StartSpec == StartInit /\ [][StartNext]_allVars

-----------------------------------------------------------------------------
(* The path loaded is the one of the last --config of either form, and     *)
(* main() gives up on the command line only for a --config with nothing    *)
(* after it.                                                               *)
LastPathWins ==
  /\ phase # "cli" /\ ~IsDangling(args) => config_path = PathGiven(args)
  /\ phase \notin {"cli", "failed"} => ~IsDangling(args)

(* main() goes on only with settings the stages can work with: a window    *)
(* and a flush interval that are not zero, a thread, symbols of capitals   *)
(* and digits, and backoffs in order, the ones the file left out included. *)
BrokenConfigRefused ==
  \A c \in settings :
    /\ c.window_ms > 0 /\ c.flush_interval_ms > 0 /\ c.aggregator_threads > 0
    /\ c.symbols # <<>>
    /\ \A symbol \in Range(c.symbols) :
         /\ symbol # <<>>
         /\ \A ch \in Range(symbol) : ch \in Range(Capital) \cup DigitChars
    /\ c.reconnect \in Configs

(* What the file says is what the stages get: each number and text under   *)
(* its own name, the reconnect settings it gives over the defaults, and a  *)
(* stream for each of its symbols, in whichever case it was written.       *)
FileDecides ==
  phase = "running" =>
    LET given == FileAt(config_path).fields
        loaded == CHOOSE c \in settings : TRUE
        reconnect == IF "reconnect" \in DOMAIN given THEN given["reconnect"].fields
                     ELSE [none \in {} |-> 0]
        Tenths(fields, name, default) ==
          IF name \in DOMAIN fields THEN fields[name].tenths ELSE default
    IN  /\ \A f \in {"window_ms", "flush_interval_ms", "aggregator_threads"} :
             10 * loaded[f] = Tenths(given, f, 10)
        /\ \A f \in {"output_file", "ws_host", "ws_port"} : given[f].text = loaded[f]
        /\ config = [initial |-> Tenths(reconnect, "initial_backoff_ms",
                                        10 * DefaultReconnect.initial) \div 10,
                     max |-> Tenths(reconnect, "max_backoff_ms",
                                    10 * DefaultReconnect.max) \div 10,
                     tenths |-> Tenths(reconnect, "jitter_ratio",
                                       DefaultReconnect.tenths)]
        /\ Len(streams) = Len(given["symbols"].items)
        /\ \A k \in DOMAIN streams :
             LET symbol == given["symbols"].items[k].text
             IN  streams[k] = [n \in DOMAIN symbol |-> ToLower(symbol[n])]
=============================================================================
