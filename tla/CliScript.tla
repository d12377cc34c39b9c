-------------------------------- MODULE CliScript --------------------------------
(* The words that the programs zetha-rdb and zetha-mem read: how a line, or    *)
(* several, become the arguments of a command, how arguments become values,    *)
(* and which of the commands of a script or a session are run. Both programs   *)
(* have the same text; a command is what it returns, its effects are the       *)
(* business of ZethaRdbCli and ZethaMemDb. Texts are sequences of characters.   *)
EXTENDS Integers, Sequences, SequencesExt, FiniteSetsExt, Functions

CONSTANTS
  KnownCommands,  \* first words that zetha_cli_is_known accepts
  ExitCommand,    \* "exit"
  ResultOf,       \* what a command returns: "ok" or the kind of its error
  MaxInteger      \* INT64_MAX

ASSUME ExitAssumption == ExitCommand \in KnownCommands

-----------------------------------------------------------------------------
(* Lines.                                                                    *)

IsSpace(ch) == ch \in {" ", "\t", "\n", "\r"}

\* mode is the quote that is open. A backslash counts inside either quote.
SplitStep(s, ch) ==
  CASE s.escape -> [s EXCEPT !.tok = Append(@, ch), !.escape = FALSE]
    [] ~s.escape /\ ch = "\\" -> [s EXCEPT !.escape = TRUE]
    [] ~s.escape /\ ch \in {"'", "\""} /\ s.mode \in {"", ch} -> [s EXCEPT !.mode = IF @ = ch THEN "" ELSE ch]
    [] ~s.escape /\ IsSpace(ch) /\ s.mode = "" ->
         [s EXCEPT !.out = IF s.tok = <<>> THEN @ ELSE Append(@, s.tok), !.tok = <<>>]
    [] OTHER -> [s EXCEPT !.tok = Append(@, ch)]

\* An argument of nothing but quotes leaves no argument.
SplitWs(line) ==
  LET s == FoldLeft(SplitStep, [mode |-> "", out |-> <<>>, tok |-> <<>>, escape |-> FALSE], line)
  IN  CASE s.escape -> [args |-> <<>>, needs_more |-> FALSE, error |-> TRUE]
        [] ~s.escape /\ s.mode # "" -> [args |-> <<>>, needs_more |-> TRUE, error |-> FALSE]
        [] OTHER -> [args |-> IF s.tok = <<>> THEN s.out ELSE Append(s.out, s.tok),
                     needs_more |-> FALSE, error |-> FALSE]

-----------------------------------------------------------------------------
(* Values.                                                                   *)

DigitOf == [c \in {"0", "1", "2", "3", "4", "5", "6", "7", "8", "9"} |->
              CHOOSE n \in 0..9 : ToString(n) = c]

IsDigits(s) == \A i \in DOMAIN s : s[i] \in DOMAIN DigitOf
NumberFrom(digits) == FoldLeft(LAMBDA n, c : 10 * n + DigitOf[c], 0, digits)

\* The longest part of s from its second place on, if it has a sign, or else
\* its first, that is digits; stoll and stod stop there and say nothing of the
\* rest.
Unsigned_(s) == IF s # <<>> /\ s[1] = "-" THEN Tail(s) ELSE s
LeadingDigits(s) == SubSeq(s, 1, Max({n \in 0..Len(s) : IsDigits(SubSeq(s, 1, n))}))
Negated(s, n) == IF s # <<>> /\ s[1] = "-" THEN -n ELSE n

Stoll(s) ==
  LET digits == LeadingDigits(Unsigned_(s))
  IN  IF digits = <<>> \/ NumberFrom(digits) > MaxInteger THEN {} ELSE {Negated(s, NumberFrom(digits))}

\* A number with a point, as its digits and how many of them are behind it.
Stod(s) ==
  LET u     == Unsigned_(s)
      whole == LeadingDigits(u)
      rest  == SubSeq(u, Len(whole) + 1, Len(u))
      part_ == IF rest # <<>> /\ rest[1] = "." THEN LeadingDigits(Tail(rest)) ELSE <<>>
  IN  IF whole \o part_ = <<>> THEN {} ELSE {<<Negated(s, NumberFrom(whole \o part_)), Len(part_)>>}

ParseValue(s) ==
  LET points == Cardinality({i \in DOMAIN s : s[i] = "."})
      digits == s # <<>> /\ points < 2 /\ \A i \in DOMAIN s : s[i] \in DOMAIN DigitOf \cup {".", "-"}
      real   == IF digits /\ points = 1 THEN Stod(s) ELSE {}
      whole  == IF digits /\ points = 0 THEN Stoll(s) ELSE {}
  IN  CASE s = <<"t", "r", "u", "e">> -> <<"boolean", TRUE>>
        [] s = <<"f", "a", "l", "s", "e">> -> <<"boolean", FALSE>>
        [] real # {}  -> <<"real", CHOOSE n \in real : TRUE>>
        [] whole # {} -> <<"integer", CHOOSE n \in whole : TRUE>>
        [] OTHER      -> <<"text", s>>

\* Arguments from start on: what has no '=', or nothing in front of it, is
\* passed over; of two for one column the later one counts.
ParseRow(kvs, start) ==
  FoldLeft(LAMBDA row, kv :
             LET ends == {i \in DOMAIN kv : kv[i] = "="}
                 pos  == Min(ends)
             IN  IF ends = {} \/ pos = 1 THEN row
                 ELSE [k \in {SubSeq(kv, 1, pos - 1)} |-> ParseValue(SubSeq(kv, pos + 1, Len(kv)))] @@ row,
           <<>>, SubSeq(kvs, start, Len(kvs)))

-----------------------------------------------------------------------------
(* Commands.                                                                 *)

Ok == 0
Usage == 2
ExitRequested == 99

ZethaCliIsKnown(cmd) == cmd \in KnownCommands

FailClassified(code) ==
  CASE code = "QueryParseError" -> 10 [] code = "SchemaError" -> 11 [] code = "IpcError" -> 13
    [] OTHER -> 12

Dispatch(argv) ==
  CASE argv = <<>> -> Ok
    [] argv # <<>> /\ ~ZethaCliIsKnown(argv[1]) -> Usage
    [] argv # <<>> /\ argv[1] = ExitCommand -> ExitRequested
    [] OTHER -> IF ResultOf[argv[1]] = "ok" THEN Ok
                ELSE IF ResultOf[argv[1]] = "usage" THEN Usage ELSE FailClassified(ResultOf[argv[1]])

-----------------------------------------------------------------------------
(* A script: the commands that it runs (ran) and what the program returns (rc, *)
(* in {} while it goes on).                                                    *)

Started == [ran |-> <<>>, rc |-> {}, pending |-> {}]

ScriptLine(r, line) ==
  LET candidate == IF r.pending = {} THEN line ELSE (CHOOSE p \in r.pending : TRUE) \o <<"\n">> \o line
      parsed    == SplitWs(candidate)
      rc        == Dispatch(parsed.args)
  IN  CASE r.rc # {} \/ line = <<>> -> r
        [] r.rc = {} /\ line # <<>> /\ line[1] = "#" -> r
        [] OTHER ->
             IF parsed.error THEN [r EXCEPT !.rc = {Usage}]
             ELSE IF parsed.needs_more THEN [r EXCEPT !.pending = {candidate}]
             ELSE [ran |-> Append(r.ran, parsed.args), pending |-> {},
                   rc |-> IF rc = ExitRequested THEN {Ok} ELSE IF rc # Ok THEN {rc} ELSE {}]

RunScript(lines) ==
  LET r == FoldLeft(ScriptLine, Started, lines)
  IN  [ran |-> r.ran,
       rc  |-> IF r.rc # {} THEN CHOOSE n \in r.rc : TRUE ELSE IF r.pending # {} THEN Usage ELSE Ok]

\* The command line of the program itself: its words are taken as they are.
RunArguments(argv) == IF Dispatch(argv) = ExitRequested THEN Ok ELSE Dispatch(argv)

\* A session at the prompt: a command that fails does not end it, every line
\* that continues another is kept, and what is run goes into the history.
SessionLine(r, line) ==
  LET full   == IF r.pending = {} THEN line ELSE (CHOOSE p \in r.pending : TRUE) \o <<"\n">> \o line
      parsed == SplitWs(full)
  IN  CASE r.rc # {} \/ (r.pending = {} /\ line = <<>>) -> r
        [] OTHER ->
             IF parsed.error THEN [r EXCEPT !.pending = {}]
             ELSE IF parsed.needs_more THEN [r EXCEPT !.pending = {full}]
             ELSE [ran |-> Append(r.ran, parsed.args), pending |-> {}, history |-> Append(r.history, full),
                   rc |-> IF Dispatch(parsed.args) = ExitRequested THEN {Ok} ELSE {}]

RunSession(lines) == FoldLeft(SessionLine, [history |-> <<>>] @@ Started, lines)

\* The same where the standard input is no terminal: an empty line is taken for
\* the end, of the session or of the line that it would continue.
PipedLine(r, line) ==
  IF line # <<>> \/ r.rc # {} THEN SessionLine(r, line)
  ELSE IF r.pending = {} THEN [r EXCEPT !.rc = {Ok}] ELSE [r EXCEPT !.pending = {}]

RunPiped(lines) == FoldLeft(PipedLine, [history |-> <<>>] @@ Started, lines)
=============================================================================
