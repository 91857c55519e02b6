----------------------------- MODULE CliOptions -----------------------------
(***************************************************************************)
(* parse_cli_options: the loop over the arguments after the program's      *)
(* name.  An argument is a word; InlinePath has the words that begin with  *)
(* "--config=", each with the path after it.                               *)
(***************************************************************************)
EXTENDS Naturals, Sequences, FiniteSetsExt

CONSTANTS InlinePath,   \* path of each word of the form --config=<path>
          DefaultPath   \* config_path as it is constructed

kConfigFlag == "--config"

ASSUME CliAssumption == kConfigFlag \notin DOMAIN InlinePath

VARIABLES args,         \* argv, from argv[1] on
          i,            \* the loop index
          config_path   \* options.config_path

cliVars == <<args, i, config_path>>

CliInit ==
  /\ i = 1
  /\ config_path = DefaultPath

Dangling == i = Len(args) /\ args[i] = kConfigFlag

(* Mutant: the value of --config is looked at again as an argument. *)
CliStepRereads ==
  /\ i <= Len(args)
  /\ ~Dangling
  /\ i' = i + 1
  /\ config_path' = IF args[i] = kConfigFlag THEN args[i + 1]
                    ELSE IF args[i] \in DOMAIN InlinePath THEN InlinePath[args[i]]
                    ELSE config_path
  /\ UNCHANGED args

(* One round of the loop; --config takes the next argument, whatever it    *)
(* is, and other arguments are passed over.                                *)
CliStep ==
  /\ i <= Len(args)
  /\ ~Dangling
  /\ i' = IF args[i] = kConfigFlag THEN i + 2 ELSE i + 1
  /\ config_path' = IF args[i] = kConfigFlag THEN args[i + 1]
                    ELSE IF args[i] \in DOMAIN InlinePath THEN InlinePath[args[i]]
                    ELSE config_path
  /\ UNCHANGED args

-----------------------------------------------------------------------------
(* The reference.  The arguments that are values of a --config: those that *)
(* follow one which is itself no value.                                    *)
Values(argv) ==
  CHOOSE V \in SUBSET DOMAIN argv :
    \A k \in DOMAIN argv :
      k \in V <=> k > 1 /\ argv[k - 1] = kConfigFlag /\ k - 1 \notin V

Options(argv) ==
  {k \in DOMAIN argv \ Values(argv) :
     argv[k] = kConfigFlag \/ argv[k] \in DOMAIN InlinePath}

IsDangling(argv) == Len(argv) \in Options(argv) /\ argv[Len(argv)] = kConfigFlag

(* The path the last option gives. *)
PathGiven(argv) ==
  IF Options(argv) = {} THEN DefaultPath
  ELSE LET last == Max(Options(argv))
       IN  IF argv[last] = kConfigFlag THEN argv[last + 1] ELSE InlinePath[argv[last]]
=============================================================================
