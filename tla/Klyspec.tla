-------------------------------- MODULE Klyspec --------------------------------
(***************************************************************************)
(* klyspec/Klyspec.hpp: the registry of commands, their aliases and their   *)
(* arguments, and the command lines KlyCLIService::parse reads with it.     *)
(* A token of a command line is a record; text stands for one that is no    *)
(* option, "--" among them when it is a value.                              *)
(***************************************************************************)
EXTENDS Integers, FiniteSets, SequencesExt, Functions

CONSTANTS
  CommandWords,      \* names and aliases, NoWord among them
  NoWord,     \* the empty one
  Arguments,  \* [id, names, takes, required, default], default a set of at most one
  CommandSpecs,      \* the arguments that a CommandSpec may have when it is registered
  ArgvTokens,        \* what the words of a command line are
  CommandLines,      \* sequences of them
  Executed,          \* what execute() of a subcommand returns
  PluginTurn(_, _)   \* what a plugin's before_parse makes of the words

ASSUME KlyspecAssumption ==
  /\ CommandLines \subseteq Seq(ArgvTokens) /\ CommandSpecs \subseteq Seq(Arguments)
  /\ \A token \in ArgvTokens : token.kind \in {"long", "short"} =>
       token.names \in Seq(Range(token.names)) \ {<<>>}

VARIABLES
  commands,   \* commands_: name -> sequence of arguments
  aliases     \* aliases_: name or alias -> name

registryVars == <<commands, aliases>>

RegistryInit == commands = <<>> /\ aliases = <<>>

Extended(f, x, y) == [z \in DOMAIN f \cup {x} |-> IF z = x THEN y ELSE f[z]]

\* The arguments of the specification are stored as they are, be they two of one
\* id or name, or without an id; its aliases are not looked at. An alias of that
\* name is overwritten, whatever command it stood for.
RegisterCommand(name, arguments) ==
  /\ name # NoWord /\ name \notin DOMAIN commands
  /\ commands' = Extended(commands, name, arguments)
  /\ aliases' = Extended(aliases, name, name)

\* MUTANT: an alias may be given away a second time.
RegisterAliasAgain(name, alias) ==
  /\ name \in DOMAIN commands /\ alias # NoWord
  /\ aliases' = Extended(aliases, alias, name)
  /\ UNCHANGED commands

RegisterAlias(name, alias) ==
  /\ name \in DOMAIN commands /\ alias # NoWord /\ alias \notin DOMAIN aliases
  /\ aliases' = Extended(aliases, alias, name)
  /\ UNCHANGED commands

\* MUTANT: names are not compared, only ids.
ClashesById(arg, spec) == arg.id = spec.id

\* Names are compared with names and ids with ids.
Clashes(arg, spec) == arg.id = spec.id \/ arg.names \cap spec.names # {}

RegisterArgument(name, spec) ==
  /\ name \in DOMAIN aliases /\ spec.id # NoWord
  /\ \A arg \in Range(commands[aliases[name]]) : ~Clashes(arg, spec)
  /\ commands' = [commands EXCEPT ![aliases[name]] = Append(@, spec)]
  /\ UNCHANGED aliases

RegistryNext == \/ \E name \in CommandWords, arguments \in CommandSpecs : RegisterCommand(name, arguments)
                \/ \E name, alias \in CommandWords : RegisterAlias(name, alias)
                \/ \E name \in CommandWords, spec \in Arguments : RegisterArgument(name, spec)

-----------------------------------------------------------------------------
(* KlyCLIService::parse. A token is a record of the following kinds, whose *)
(* names have their dashes:                                                *)
(*   "long"   names = <<name>>        --out                                *)
(*   "short"  names = <<n1, ..., nk>> a cluster, -vo read as -v -o         *)
(*   "end"    --                                                           *)
(*   "text"   anything else                                                *)

\* What lookup_argument knows an argument by.
Called(arg) == {arg.id} \cup arg.names

\* lookup_argument: the first such argument, 0 for none.
LookedUp(args, name) == SelectInSeq(args, LAMBDA a : name \in Called(a))

TakesValue(args, name) == LookedUp(args, name) # 0 /\ args[LookedUp(args, name)].takes = "required"

TrueText == [kind |-> "text", text |-> "true"]

\* MUTANT: the last value replaces the others.
GivenLast(r, id, value) == [r EXCEPT !.values = Extended(@, id, <<value>>)]

Given(r, id, value) ==
  [r EXCEPT !.values = Extended(@, id, (IF id \in DOMAIN @ THEN @[id] ELSE <<>>) \o <<value>>)]

\* A name that nobody registered is reported; an option that needs a value
\* waits for the next token.
ReadOption(args, r, name) ==
  CASE LookedUp(args, name) = 0 -> [r EXCEPT !.ok = FALSE]
    [] TakesValue(args, name)   -> [r EXCEPT !.wants = {args[LookedUp(args, name)].id}]
    [] OTHER                    -> Given(r, args[LookedUp(args, name)].id, TrueText)

\* The first option of a cluster that needs a value has the rest of it.
ReadCluster(args, r, names) ==
  LET k == SelectInSeq(names, LAMBDA name : TakesValue(args, name))
      Flags[n \in 0..Len(names)] == IF n = 0 THEN r ELSE ReadOption(args, Flags[n - 1], names[n])
  IN  IF k \in {0, Len(names)}
      THEN Flags[Len(names)]
      ELSE Given(Flags[k - 1], args[LookedUp(args, names[k])].id,
                 [kind |-> "rest", names |-> SubSeq(names, k + 1, Len(names))])

\* The token after an option that needs a value is the value, even "--" or
\* another option.
ReadToken(args, r, token) ==
  LET positional == [r EXCEPT !.positionals = Append(@, token)]
  IN  IF r.wants # {} THEN Given([r EXCEPT !.wants = {}], CHOOSE id \in r.wants : TRUE, token)
      ELSE IF r.ended THEN positional
      ELSE CASE token.kind = "end"   -> [r EXCEPT !.ended = TRUE]
             [] token.kind = "long"  -> ReadOption(args, r, Head(token.names))
             [] token.kind = "short" -> ReadCluster(args, r, token.names)
             [] OTHER                -> positional

NothingRead == [values |-> <<>>, positionals |-> <<>>, ok |-> TRUE, ended |-> FALSE, wants |-> {}]

Scanned(args, argv) ==
  LET Reading[n \in 0..Len(argv)] == IF n = 0 THEN NothingRead ELSE ReadToken(args, Reading[n - 1], argv[n])
      r == Reading[Len(argv)]
  IN  [r EXCEPT !.ok = @ /\ r.wants = {}]

\* The arguments are gone through in order: the default of an earlier one of the
\* same id is there already.
DefaultedBefore(args, i) == \E j \in 1..(i - 1) : args[j].id = args[i].id /\ args[j].default # {}
MissingArgument(args, i, r) == args[i].required /\ args[i].id \notin DOMAIN r.values /\ ~DefaultedBefore(args, i)

\* The first default that there is for an id.
DefaultOf(args, id) ==
  CHOOSE d \in args[SelectInSeq(args, LAMBDA a : a.id = id /\ a.default # {})].default : TRUE

Defaulted(args, r) ==
  LET ids == {a.id : a \in {b \in Range(args) : b.id \notin DOMAIN r.values /\ b.default # {}}}
  IN  [r EXCEPT !.values = [id \in DOMAIN @ \cup ids |-> IF id \in DOMAIN @ THEN @[id] ELSE <<DefaultOf(args, id)>>]]

\* A required argument is missed even where it has a default itself.
Parse(name, argv) ==
  IF name \notin DOMAIN aliases THEN [ok |-> FALSE]
  ELSE LET args == commands[aliases[name]]
           r    == Scanned(args, argv)
       IN  Defaulted(args, [r EXCEPT !.ok = @ /\ \A i \in DOMAIN args : ~MissingArgument(args, i, r)])

-----------------------------------------------------------------------------
(* SubcommandRegistry: name -> subcommand; the first of a name stays.         *)
RegisterSubcommand(subcommands, name, subcommand) ==
  IF name = NoWord \/ name \in DOMAIN subcommands THEN subcommands ELSE Extended(subcommands, name, subcommand)

NotFound == 127
DispatchSubcommand(subcommands, name) ==
  IF name \in DOMAIN subcommands THEN Executed[subcommands[name]] ELSE NotFound

(* PluginRegistry: every plugin in the order in which they were registered     *)
(* has its turn with the words of the command line, before they are parsed.    *)
BeforeParse(plugins, argv) == FoldLeft(LAMBDA words, plugin : PluginTurn(plugin, words), argv, plugins)

-----------------------------------------------------------------------------
\* Every name and alias leads to a command, and a command's name to itself; and
\* of the arguments of a command, which are those that came with it and those
\* that were registered since, none of the latter has the id or a name of
\* another, or no id. (Those that came with it are taken unchecked, 107.)
NamesResolve ==
  /\ \A a \in DOMAIN aliases : aliases[a] \in DOMAIN commands
  /\ \A name \in DOMAIN commands : name \in DOMAIN aliases /\ aliases[name] = name
  /\ \A name \in DOMAIN commands : \E spec \in CommandSpecs :
       /\ IsPrefix(spec, commands[name])
       /\ \A j \in (Len(spec) + 1)..Len(commands[name]) :
            /\ commands[name][j].id # NoWord
            /\ \A i \in 1..(j - 1) : /\ commands[name][i].id # commands[name][j].id
                                     /\ commands[name][i].names \cap commands[name][j].names = {}

\* What a word leads to never changes, unless a command of that very name is
\* registered (107), and no command loses an argument.
OnlyCommandsTakeOver ==
  [][/\ \A a \in DOMAIN aliases :
          a \in DOMAIN aliases' /\ aliases'[a] \in {aliases[a]} \cup ({a} \ DOMAIN commands)
     /\ \A name \in DOMAIN commands : IsPrefix(commands[name], commands'[name])]_registryVars

Occurrences(seq, token) == {i \in DOMAIN seq : seq[i] = token}
ValuePlaces(values, token) == UNION {{id} \X Occurrences(values[id], token) : id \in DOMAIN values}

\* What parse puts in by itself.
MadeUp(args) == {TrueText} \cup UNION {a.default : a \in Range(args)}

\* Each word of a command line is a positional or a value, as often as it was
\* given, and no word is that was not given; and what a command requires was
\* given, by an option of its id, unless an argument of the same id in front of
\* it has a default (258-265): where the ids of a command are its arguments' own,
\* by its own option, whatever its default.
HasAll(args, argv, r) ==
  /\ \A token \in ArgvTokens : token.kind = "text" /\ token \notin MadeUp(args) =>
       Cardinality(Occurrences(argv, token)) = Cardinality(Occurrences(r.positionals, token))
                                               + Cardinality(ValuePlaces(r.values, token))
  /\ \A i \in DOMAIN args : args[i].required =>
       \/ \E n \in DOMAIN argv, a \in Range(args) :
            a.id = args[i].id /\ argv[n].kind \in {"long", "short"} /\ Range(argv[n].names) \cap Called(a) # {}
       \/ DefaultedBefore(args, i)

\* A command line that is read without a complaint loses none of its words, and
\* nothing that its command requires is missing from it.
NothingIsLost == \A name \in DOMAIN aliases, argv \in CommandLines :
  Parse(name, argv).ok => HasAll(commands[aliases[name]], argv, Parse(name, argv))
=============================================================================
