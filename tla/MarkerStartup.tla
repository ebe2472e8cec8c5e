--------------------------- MODULE MarkerStartup ---------------------------
(***************************************************************************)
(* Start-up of the marker tool (cmd/marker/main.go and its config package) *)
(* when it runs its root action, registerValidator: app.Run parses the    *)
(* command line against app.Flags, MigrateFlags copies every set flag to  *)
(* the global context, AssemblyConfig builds the Config from defaults and *)
(* the set flags and loads the account, startLogger reads the configured  *)
(* verbosity, and the listener, writer and handler run.                   *)
(*                                                                         *)
(* A flag value is abstracted to its class: "num" for a decimal numeral,  *)
(* "word" for any other text (a hex address, a path, a level name).  The  *)
(* account loader, the listener, the writer and registerValidator are not *)
(* in this repository; their outcomes are nondeterministic choices.        *)
(***************************************************************************)
CONSTANTS
    UserFlags,   \* the flag names a command line may carry
    None         \* the nil *Config, and a Config field left nil

\* config/flag.go: every flag the package defines, with its kind.
FlagKind == [key |-> "string", keystore |-> "string", password |-> "string",
             namePrefix |-> "string", commission |-> "int", Lesser |-> "string",
             Greater |-> "string", VoteNum |-> "int", topNum |-> "int",
             Verbosity |-> "int", rpcaddr |-> "string", rpcport |-> "int",
             value |-> "int", target |-> "string"]

\* main.go Flags: the flags registered as app.Flags by init.  VerbosityFlag
\* and NamePrefixFlag are not among them.
Flags == {"key", "keystore", "rpcaddr", "rpcport", "value", "password",
          "commission", "Lesser", "Greater", "VoteNum", "topNum", "target"}

Texts == {"num", "word"}

\* A command line: the flags it sets, each with the class of its value.
CommandLines == UNION {[S -> Texts] : S \in SUBSET UserFlags}

ASSUME UserFlags \subseteq DOMAIN FlagKind

VARIABLES
    pc,       \* where start-up is
    args,     \* the command line, as parsed into the root flag set
    global,   \* the values the Global* lookups see
    config    \* the *Config AssemblyConfig returned, None for nil

vars == <<pc, args, global, config>>

Phases == {"run", "migrate", "assemble", "logger", "handler",
           "done", "exit1", "panicked", "nilDeref"}

Init ==
    /\ pc = "run"
    /\ args \in CommandLines
    /\ global = args
    /\ config = None

-----------------------------------------------------------------------------
(* ctx.IsSet and the ctx.Global* lookups; at the root context both see the *)
(* root flag set, after the parser accepted a numeral for every int flag.  *)
IsSet(f) == f \in DOMAIN global
Arg(f)   == global[f]

\* AssemblyConfig's fields: the defaults it presets, each replaced by the
\* flag's value when IsSet reports the flag set.  Lesser, Greater and
\* target go through common.HexToAddress, abstracted to the text class;
\* VoteNum is read with the local ctx.Int64, the same flag set at the root.
Assembled ==
    LET Field(f, dflt) == IF IsSet(f) THEN Arg(f) ELSE dflt
    IN  [path          |-> Field("keystore", "empty"),
         password      |-> Field("password", "defaultPassword"),
         Commission    |-> Field("commission", "num"),
         Lesser        |-> Field("Lesser", "zeroAddress"),
         Greater       |-> Field("Greater", "zeroAddress"),
         VoteNum       |-> Field("VoteNum", "num"),
         TargetAddress |-> Field("target", "zeroAddress"),
         Value         |-> Field("value", "num"),
         TopNum        |-> Field("topNum", None),
         Verbosity     |-> Field("Verbosity", "num")]

-----------------------------------------------------------------------------
(* main: app.Run parses os.Args against app.Flags.  A flag that is not     *)
(* registered, or an int flag whose value is not a numeral, makes Run      *)
(* return the parse error; main prints it and exits 1.                     *)
ParseOK == \A f \in DOMAIN args :
              /\ f \in Flags
              /\ FlagKind[f] = "int" => args[f] = "num"

AppRun ==
    /\ pc = "run"
    /\ ParseOK
    /\ pc' = "migrate"
    /\ UNCHANGED <<args, global, config>>

ParseError ==
    /\ pc = "run"
    /\ ~ParseOK
    /\ pc' = "exit1"
    /\ UNCHANGED <<args, global, config>>

\* MigrateFlags' loop: GlobalSet(name, ctx.String(name)) for every set
\* flag; at the root context the global flag set is the local one.
MigrateFlags ==
    /\ pc = "migrate"
    /\ global' = [f \in DOMAIN args |-> args[f]]
    /\ pc' = "assemble"
    /\ UNCHANGED <<args, config>>

\* AssemblyConfig: the fields, then LoadAccount and BLSPublicKey.  On a
\* BLSPublicKey error it returns nil; the Must helpers that follow panic
\* on a failure of their own.
AssemblyConfig ==
    /\ pc = "assemble"
    /\ \/ /\ config' \in {Assembled, None}
          /\ pc' = "logger"
       \/ /\ pc' = "panicked"
          /\ UNCHANGED config
    /\ UNCHANGED <<args, global>>

\* startLogger: config.Verbosity through strconv.Atoi, else through
\* log.LvlFromString, whose error MigrateFlags panics with.  Reading the
\* field of a nil config is a nil pointer dereference.  Only a Verbosity
\* given on the command line could be a word, and app.Run rejects that flag
\* (see ConfigFlagsAccepted), so the value is always the default numeral,
\* Atoi succeeds, and the LvlFromString panic is dead code.
StartLogger ==
    /\ pc = "logger"
    /\ pc' = IF config = None THEN "nilDeref" ELSE "handler"
    /\ UNCHANGED <<args, global, config>>

\* NewListener, NewWriter, setWriter and registerValidator.
RunHandler ==
    /\ pc = "handler"
    /\ pc' = "done"
    /\ UNCHANGED <<args, global, config>>

Next ==
    \/ AppRun
    \/ ParseError
    \/ MigrateFlags
    \/ AssemblyConfig
    \/ StartLogger
    \/ RunHandler

Spec == Init /\ [][Next]_vars

-----------------------------------------------------------------------------
StartupTypeOK ==
    /\ pc \in Phases
    /\ args \in CommandLines
    /\ config = None \/ DOMAIN config = DOMAIN Assembled

\* The flags AssemblyConfig consults through ctx.IsSet.
ConfigFlags == {"keystore", "password", "commission", "Lesser", "Greater",
                "VoteNum", "target", "value", "topNum", "Verbosity"}

\* Every flag AssemblyConfig reads can be given on the command line: a
\* command line made only of such flags, with a numeral for each int flag,
\* is accepted by app.Run and reaches MigrateFlags, so that the branch
\* "if ctx.IsSet(VerbosityFlag.Name)" and the LvlFromString path of
\* startLogger can be taken.
ConfigFlagsAccepted ==
    (/\ pc = "exit1"
     /\ DOMAIN args \subseteq ConfigFlags)
        => \E f \in DOMAIN args : FlagKind[f] = "int" /\ args[f] # "num"

=============================================================================
