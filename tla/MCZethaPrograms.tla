----------------------------- MODULE MCZethaPrograms -----------------------------
(* Scripts, rows, filters, command lines and sealed data for the programs,   *)
(* and what is asked of rows.                                                *)
EXTENDS CliScript, ZethaIndexCli, CryptBlob, ZethaRdbQuery

\* A stream and a tag in place of those of tweetnacl: they depend on all that
\* they are made from.
MCKeyByte(key, nonce, i) == (7 * FoldLeft(+, 3, key) + 5 * FoldLeft(+, 1, nonce) + 11 * i) % 256
MCOneTimeAuth(bytes, key) ==
  [i \in 1..(ZEROBYTES - BOXZEROBYTES) |-> FoldLeft(LAMBDA h, b : ((2 * i + 1) * h + b + 1) % 251, key[i] % 251, bytes)]


-----------------------------------------------------------------------------
(* Scripts of zetha-rdb and zetha-mem. Commands are named by one letter:     *)
(* o succeeds, b fails, x exits, and u is not known.                         *)

MCKnownCommands == {<<"o">>, <<"b">>, <<"x">>}
MCExitCommand   == <<"x">>
MCResultOf      == [cmd \in {<<"o">>, <<"b">>} |-> IF cmd = <<"o">> THEN "ok" ELSE "SchemaError"]

ScriptArguments == {<<>>, <<" ">>, <<"'">>, <<"\\", "1">>, <<"a", "\n", "\n", "#", "\n", "b">>, <<"a", "\n", "#">>}
CommandOf == [name : {<<"o">>, <<"b">>, <<"x">>, <<"u">>}, args : {<<>>}]
             \cup [name : {<<"o">>}, args : UNION {[1..n -> ScriptArguments] : n \in 1..2}]
             \cup [name : {<<"b">>}, args : [1..1 -> ScriptArguments]]
ScriptSamples ==
  [script : UNION {[1..n -> CommandOf] : n \in 0..1}
            \cup {<<c, d>> : c \in {x \in CommandOf : Len(x.args) < 2}, d \in {x \in CommandOf : x.args = <<>>}},
   quote : {"'", "\"", "\\"}]

\* An argument between quotes, with a backslash before what would end them, or
\* with one before each of its characters.
WrittenArgument(arg, quote) ==
  IF quote = "\\" THEN FlattenSeq([i \in DOMAIN arg |-> <<"\\", arg[i]>>])
  ELSE <<quote>> \o FlattenSeq([i \in DOMAIN arg |-> IF arg[i] \in {quote, "\\"} THEN <<"\\", arg[i]>> ELSE <<arg[i]>>])
       \o <<quote>>
WrittenCommand(c, quote) ==
  c.name \o FlattenSeq([i \in DOMAIN c.args |-> <<" ">> \o WrittenArgument(c.args[i], quote)])
WrittenScript(s) ==
  FlattenSeq([i \in DOMAIN s.script |-> WrittenCommand(s.script[i], s.quote) \o <<"\n">>])

\* The lines that getline finds in a text.
ScriptLines(text) ==
  LET s == FoldLeft(LAMBDA r, ch : IF ch = "\n" THEN [done |-> Append(r.done, r.line), line |-> <<>>]
                                   ELSE [r EXCEPT !.line = Append(@, ch)],
                    [done |-> <<>>, line |-> <<>>], text)
  IN  IF s.line = <<>> THEN s.done ELSE Append(s.done, s.line)

\* A script passes over empty lines and comments inside of quotes too.
PassedOver(arg) ==
  LET lines == ScriptLines(Append(arg, "\n"))
      kept  == <<lines[1]>> \o SelectSeq(Tail(lines), LAMBDA l : l # <<>> /\ l[1] # "#")
  IN  FlattenSeq([i \in DOMAIN kept |-> (IF i = 1 THEN <<>> ELSE <<"\n">>) \o kept[i]])
Multiline(arg) == \E i \in DOMAIN arg : arg[i] = "\n"
LastLineIsComment(arg) == Multiline(arg) /\ Last(ScriptLines(arg))[1] = "#"

ArgvOf(c, Kept(_)) == <<c.name>> \o SelectSeq([i \in DOMAIN c.args |-> Kept(c.args[i])], LAMBDA a : a # <<>>)
UpTo(seq, Ends_(_)) ==
  LET ends == {i \in DOMAIN seq : Ends_(seq[i])} IN IF ends = {} THEN seq ELSE SubSeq(seq, 1, Min(ends))

\* A script runs its commands with the arguments as they were written, up to
\* the first one that fails or exits, and returns what that one returned; only
\* arguments that are empty, and lines inside of quotes that are empty or look
\* like a comment, are lost. A session runs all of them up to exit, and loses
\* empty arguments only, and so does one that is piped in, without empty lines.
\* What is cut off inside of an argument is not run.
ScriptReadsBack(s) ==
  LET text == WrittenScript(s)
      all  == \A c \in Range(s.script), n \in 1..2 : n \in DOMAIN c.args =>
                 ~LastLineIsComment(c.args[n]) /\ (s.quote = "\\" => ~Multiline(c.args[n]))
      argv(Kept(_)) == [i \in DOMAIN s.script |-> ArgvOf(s.script[i], Kept)]
      run  == RunScript(ScriptLines(text))
      ran  == UpTo(argv(PassedOver), LAMBDA a : a[1] # <<"o">>)
      shell == RunSession(ScriptLines(text))
  IN  all =>
        /\ run.ran = ran
        /\ run.rc = IF ran = <<>> THEN Ok ELSE RunArguments(Last(ran))
        /\ shell.ran = UpTo(argv(LAMBDA a : a), LAMBDA a : a[1] = <<"x">>)
        /\ (\A l \in Range(ScriptLines(text)) : l # <<>>) => RunPiped(ScriptLines(text)) = shell
        /\ [i \in DOMAIN shell.history |-> SplitWs(shell.history[i]).args] = shell.ran
        /\ s.quote # "\\" => \A n \in 0..Len(text) :
             LET cut == RunScript(ScriptLines(SubSeq(text, 1, n)))
             IN  /\ Len(cut.ran) <= Len(ran)
                 /\ \A i \in DOMAIN cut.ran : IF i < Len(cut.ran) THEN cut.ran[i] = ran[i] ELSE IsPrefix(cut.ran[i], ran[i])

\* Rows: arguments of the form column=value.
CliValues == {<<"1", "0">>, <<"-", "1">>, <<"0", ".", "5", "0">>, <<"-", ".", "5">>, <<"1", "-", "0">>, <<"1", "2", "3">>,
              <<"1", ".", "1", ".", "1">>, <<"-">>, <<".">>, <<"a", "=", "1">>, <<"t", "r", "u", "e">>, <<>>}
RowSamples == [row : {<<x, y>> : x \in {"k", "c"} \X CliValues, y \in {"k", "c"} \X CliValues}]

\* The value that an argument stands for: a number, if that is what it is.
\* (What has a '-' behind its first character is not one, though the program
\* takes such an argument for the number in front of it.)
RealValue(v) ==
  LET sign   == IF v # <<>> /\ v[1] = "-" THEN -1 ELSE 1
      digits == SelectSeq(v, LAMBDA c : c \in DOMAIN DigitOf)
      point  == {i \in DOMAIN v : v[i] = "."}
  IN  <<sign * NumberFrom(digits), IF point = {} THEN 0 ELSE Len(v) - Min(point)>>
RowReadsBack(s) ==
  LET row == ParseRow(<<<<"o">>>> \o [i \in DOMAIN s.row |-> <<s.row[i][1], "=">> \o s.row[i][2]], 2)
  IN  /\ DOMAIN row = {<<s.row[i][1]>> : i \in DOMAIN s.row}
      /\ LET v == s.row[2][2]
             r == row[<<s.row[2][1]>>]
         IN  /\ r[1] = "text" => r[2] = v
             /\ r[1] = "boolean" => v = <<"t", "r", "u", "e">>
             /\ r[1] \in {"integer", "real"} /\ ~Contains(Tail(v), "-") =>
                  (IF r[1] = "integer" THEN <<r[2], 0>> ELSE r[2]) = RealValue(v)
             /\ v \in {<<"1", "0">>, <<"-", "1">>, <<"0", ".", "5", "0">>} => r[1] # "text"

-----------------------------------------------------------------------------
(* Filters of zetha-index.                                                   *)

FilterOperands == {<<"w">>, <<" ", "w">>, <<"w", ";", "w">>, <<"'">>, <<>>}
Required_(b, r) == [require |-> b] @@ r
FilterRules ==
  {Required_(TRUE, [NewRule EXCEPT !.value = v]) : v \in FilterOperands}
  \cup {Required_(FALSE, [NewRule EXCEPT !.kind = "regex", !.value = v]) : v \in FilterOperands}
  \cup {Required_(FALSE, [NewRule EXCEPT !.kind = "has_any", !.values = vs]) :
          vs \in {<<>>} \cup {<<v>> : v \in FilterOperands} \cup {<<v, <<"w">>>> : v \in FilterOperands}}
  \cup {Required_(TRUE, [NewRule EXCEPT !.kind = "metadata", !.key = <<"k">>, !.op = op, !.value = v]) :
          op \in CompareOps, v \in {<<"w">>, <<"=">>}}
FilterSamples == [filter : UNION {[1..n -> FilterRules] : n \in 0..1}
                           \cup {<<x, y>> : x \in FilterRules, y \in {r \in FilterRules : r.kind \in {"token", "metadata"}}}]

Quoted_(v) == <<"\"">> \o v \o <<"\"">>
WrittenRule(r) ==
  <<IF r.require THEN "require" ELSE "exclude", " ">>
  \o (CASE r.kind = "token" -> <<"token", " ">> \o Quoted_(r.value)
        [] r.kind = "regex" -> <<"match_regex", " ">> \o Quoted_(r.value)
        [] r.kind = "metadata" -> <<"metadata", ".">> \o r.key \o <<" ">> \o r.op \o <<" ">> \o Quoted_(r.value)
        [] OTHER -> <<"has_any", "(">>
                    \o FlattenSeq([i \in DOMAIN r.values |-> (IF i = 1 THEN <<>> ELSE <<",">>) \o Quoted_(r.values[i])])
                    \o <<")">>)
WrittenFilter(rules) == FlattenSeq([i \in DOMAIN rules |-> WrittenRule(rules[i]) \o <<";", "\n">>])

\* The rules of a filter are read as they were written, between double quotes,
\* whatever else their operands hold. A filter that is cut off is refused, or
\* is the rules in front of the cut and at most one that begins as the next
\* one does.
FilterReadsBack(s) ==
  LET text == WrittenFilter(s.filter)
  IN  /\ ParseFilter(text) = {s.filter}
      /\ \A n \in 0..Len(text) : \A read \in ParseFilter(SubSeq(text, 1, n)) :
           /\ Len(read) <= Len(s.filter)
           /\ \A i \in DOMAIN read : IF i < Len(read) THEN read[i] = s.filter[i]
                                     ELSE read[i].kind = s.filter[i].kind /\ read[i].require = s.filter[i].require

-----------------------------------------------------------------------------
(* Command lines of zetha-index, and documents that ask for the same.        *)

MCLowerWords == [w \in {"HTML", ".HTM"} |-> IF w = "HTML" THEN "html" ELSE ".htm"]
Suffixed(s) == [suffix |-> s, entries |-> {}]
MCDirectoryTree ==
  (<<"a">> :> Suffixed(<<>>)) @@ (<<"b">> :> Suffixed(<<".HTM">>)) @@ (<<"c">> :> Suffixed(<<".pdf">>))
  @@ (<<"d">> :> [suffix |-> <<>>, entries |-> {<<<<"b">>, <<"e">>>>}])
  @@ (<<"e">> :> [suffix |-> <<".html">>, entries |-> {<<<<"c">>, <<"a">>>>}])

BuildInputs == [path : {<<"b">>, <<"d">>, <<"e">>, <<"none">>}, adapter : {<<>>, <<"html">>, <<"other">>}, recursive : BOOLEAN]
BuildSamples ==
  [inputs : UNION {[1..n -> BuildInputs] : n \in 0..1} \cup {<<x, y>> : x \in BuildInputs, y \in {i \in BuildInputs : i.path = <<"d">>}},
   output : {{}, {<<"o">>}}, stemming : {{}, {<<"suffix">>}}, first : BOOLEAN]

InputArguments(i) ==
  <<<<"--input">>, i.path>> \o (IF i.adapter = <<>> THEN <<>> ELSE <<<<"--adapter">>, i.adapter>>)
  \o (IF i.recursive THEN <<<<"--recursive">>>> ELSE <<>>)
FlagArguments(s) ==
  FlattenSeq([i \in 1..2 |-> LET v == IF i = 1 THEN s.output ELSE s.stemming
                             IN  IF v = {} THEN <<>>
                                 ELSE <<<<IF i = 1 THEN "--output" ELSE "--stemmer">>, CHOOSE x \in v : TRUE>>])
BuildArguments(s) ==
  LET inputs == FlattenSeq([i \in DOMAIN s.inputs |-> InputArguments(s.inputs[i])])
  IN  <<<<"build">>>> \o (IF s.first THEN FlagArguments(s) \o inputs ELSE inputs \o FlagArguments(s))

InputEntry(i) ==
  Object((<<"path">> :> String(i.path)) @@ (<<"adapter">> :> String(IF i.adapter = <<"html">> THEN <<"HTML">> ELSE i.adapter))
         @@ (IF i.recursive THEN <<"recursive">> :> String(<<"yes">>) ELSE <<>>))
BuildDocument(s) ==
  Object((<<"input">> :> Array([i \in DOMAIN s.inputs |-> InputEntry(s.inputs[i])]))
         @@ (IF s.output = {} THEN <<>> ELSE <<"output">> :> String(CHOOSE x \in s.output : TRUE))
         @@ (IF s.stemming = {} THEN <<>> ELSE <<"stemming">> :> String(CHOOSE x \in s.stemming : TRUE)))

\* A build that is asked for by arguments, in whatever order, and one that is
\* asked for by a document, are the same, and take in the same files; but for a
\* build of nothing, which only a document can ask for. One that names
\* what is not there, or no adapter's name, is refused as a whole. A source
\* that is not recursive takes no files from below, one that is takes all.
BuildReadsBack(s) ==
  LET args == RunCli(BuildArguments(s), Null)
      file == RunCli(<<<<"build">>, <<"--config">>, <<"f">>>>, BuildDocument(s))
      Value__(v, default) == IF v = {} THEN default ELSE CHOOSE x \in v : TRUE
      built == [inputs |-> s.inputs, output |-> Value__(s.output, <<"index.zidx">>), filter_file |-> <<>>,
                stemming |-> Value__(s.stemming, <<"none">>), stopwords |-> <<"smart">>]
  IN  /\ file = {<<"build", built>>}
      /\ args = IF s.inputs = <<>> THEN {} ELSE file
      /\ LET wrong == \E i \in Range(s.inputs) : i.path = <<"none">> \/ i.adapter = <<"other">>
         IN  (DocumentsOf(built) = {}) = wrong
      /\ \A i \in Range(s.inputs) : \A files \in SourceFiles(i) :
           /\ {f[1] : f \in Range(files)} = CASE i.path = <<"b">> -> {<<"b">>}
                                              [] i.path = <<"e">> -> {<<"a">>, <<"c">>}
                                              [] OTHER -> {<<"b">>} \cup (IF i.recursive THEN {<<"a">>, <<"c">>} ELSE {})
           /\ i.path = <<"b">> \/ i.adapter # <<>> => \A f \in Range(files) : f[2] = "html"

-----------------------------------------------------------------------------
(* Sealed data.                                                              *)

BlobSamples == [code : {"blob"}, key : {<<1>>, <<254>>}, nonce : {<<0>>, <<160>>}, data : UNION {[1..n -> {0, 26, 255}] : n \in 0..2}]
UpperDigits(hex) ==
  [i \in DOMAIN hex |-> IF \E c \in DOMAIN UpperHex : UpperHex[c] = HexValue(hex[i])
                        THEN CHOOSE c \in DOMAIN UpperHex : UpperHex[c] = HexValue(hex[i]) ELSE hex[i]]
OpenedBlob(hexKey, hex) == LET b == HexToBlob(hex) IN IF IsError(b) THEN b ELSE DecryptWithHexKey(hexKey, b[2])

\* What was sealed with a key is opened with it, from its hex text in small or
\* capital digits; a text that differs from it in one digit or byte, or is cut
\* off or longer, and another key, open nothing.
BlobReadsBack(s) ==
  LET key == GenerateKeyHex(s.key)
      hex == BlobToHex(EncryptWithHexKey(key, s.data, s.nonce)[2])
      changed == {SubSeq(hex, 1, n) : n \in 0..(Len(hex) - 1)}
                 \cup {ReplaceAt(hex, i, d) : i \in DOMAIN hex, d \in {"0", "8", "F", "g"}}
                 \cup {hex \o <<d, e>> : d \in {"0", "f"}, e \in {"0", "f"}} \cup {<<d>> \o hex : d \in {"0", "1"}}
  IN  /\ \A h \in {hex, UpperDigits(hex)}, k \in {key, UpperDigits(key)} : OpenedBlob(k, h) = Value_(s.data)
      /\ \A h \in changed : HexToBytes(h) # HexToBytes(hex) => IsError(OpenedBlob(key, h))
      /\ \A k \in {BytesToHex(<<3>>), BytesToHex(s.key \o s.key), Tail(key), <<>>} : IsError(OpenedBlob(k, hex))

-----------------------------------------------------------------------------
(* Rows whose columns have types, and what is asked of them.                 *)

Numbers_ == {0, 9, 10, 1234567, 1234568}
MCIntegerText == [n \in Numbers_ |->
  CASE n = 0 -> "0" [] n = 9 -> "9" [] n = 10 -> "10" [] n = 1234567 -> "1234567" [] n = 1234568 -> "1234568"]
MCRealText == [n \in Numbers_ |-> IF n > 999999 THEN "1.23457e+06" ELSE MCIntegerText[n]]
MCTextOrder == <<"", "0", "1.23457e+06", "10", "1234567", "1234568", "9", "false", "true", "x", "y">>
MCNumberIn == [s \in {MCTextOrder[i] : i \in DOMAIN MCTextOrder} |->
  CASE s = "9" -> 9 [] s = "10" -> 10 [] s = "1234567" -> 1234567 [] s = "1234568" -> 1234568
    [] s = "1.23457e+06" -> 1234570 [] OTHER -> 0]

\* What is known of a thing: a number, a text, and whether; or some of these.
\* A row has a cell for every column: insert fills in nulls.
Facts == {[has |-> h, n |-> n, t |-> t, b |-> b] :
            h \in SUBSET {"n", "t", "b"}, n \in {0, 9, 10, 1234567}, t \in {"9", "10", "x"}, b \in BOOLEAN}
RowOf(f) == [a \in {"n", "t", "b"} |->
  IF a \notin f.has THEN NullCell
  ELSE CASE a = "n" -> IntegerCell(f.n) [] a = "t" -> TextCell(f.t) [] a = "b" -> BooleanCell(f.b)]

\* Questions about them; the last ones are not of the form that is evaluated.
Compare_(op, a, e) == <<"compare", op, <<"attribute", a>>, e>>
Ops == {"==", "!=", "<", "<=", ">", ">="}
Asked_ == UNION {{Compare_(op, "n", LiteralNumber(9)), Compare_(op, "t", LiteralText("9")), Compare_(op, "b", LiteralBool(TRUE)),
                  Compare_(op, "t", <<"name", "x">>), Compare_(op, "n", <<"attribute", "n">>)} : op \in Ops}
         \cup {Compare_("==", "n", LiteralNumber(1234567)), Compare_("<", "n", LiteralNumber(1234568)),
               Compare_("==", "n", LiteralNumber(0)), Compare_("!=", "z", LiteralNumber(9)),
               <<"compare", "==", LiteralNumber(9), <<"attribute", "n">>>>, <<"call", "f">>}
Questions == Asked_ \cup {<<"not", e>> : e \in Asked_}
             \cup {<<op, e, f>> : op \in {"and", "or"}, e \in {x \in Asked_ : x[2] \in {"<", "=="}}, f \in {<<"not", x>> : x \in Asked_}}

\* A null counts as 0, as no text, as false; a column that is not there makes
\* a condition false.
SaysOf(op, a, e, f) ==
  LET value == IF e[1] = "literal" THEN e[2][2] ELSE e[2]
      n == IF "n" \in f.has THEN f.n ELSE 0
      t == IF "t" \in f.has THEN f.t ELSE ""
      b == "b" \in f.has /\ f.b
  IN  IF e[1] = "attribute" THEN op \in {"==", "<=", ">="}
      ELSE CASE a = "n" -> Holds(op, n < value, n = value)
             [] a = "t" -> Holds(op, TextBefore(t, value), t = value)
             [] a = "b" -> Holds(op, ~b /\ value, b = value)
             [] a = "z" -> FALSE

RECURSIVE Says(_, _)
Says(e, f) ==
  CASE e[1] = "and" -> Says(e[2], f) /\ Says(e[3], f)
    [] e[1] = "or"  -> Says(e[2], f) \/ Says(e[3], f)
    [] e[1] = "not" -> ~Says(e[2], f)
    [] e[1] = "compare" /\ e[3][1] = "attribute" -> SaysOf(e[2], e[3][2], e[4], f)
    [] OTHER -> FALSE

\* A number in a question has the digits of a cell, and no more.
RECURSIVE Exact(_)
Exact(e) ==
  IF e[1] = "compare" THEN e[4] \notin {LiteralNumber(1234567), LiteralNumber(1234568)}
  ELSE \A i \in 2..Len(e) : e[1] \in {"and", "or", "not"} => Exact(e[i])

\* Ways to put a query together: with one step and conditions on it, with more,
\* with none, with a condition before the first step.
QueryCalls == UNION
  {{<<<<"step", "child", "t">>, <<"where", e>>>>, <<<<"step", "parent", "t">>, <<"where", e>>, <<"where", <<"not", Compare_("<", "n", LiteralNumber(9))>>>>>>} :
     e \in Questions}
  \cup {<<>>, <<<<"step", "child", "t">>>>, <<<<"step", "child", "*">>>>, <<<<"step", "child", "t">>, <<"step", "attribute", "n">>>>,
        <<<<"where", <<"call", "f">>>>, <<"step", "child", "t">>>>}

\* A query of one table, of conditions on it, and of nothing else, has for an
\* answer the rows of which all conditions say the truth; no other has one.
AnswersWhatIsAsked(calls) ==
  LET answer == UNION {QueryTable(steps, [t \in {"t"} |-> {RowOf(f) : f \in Facts}]) : steps \in BuiltBy(calls)}
      wheres == {calls[i][2] : i \in {j \in DOMAIN calls : calls[j][1] = "where"}}
      proper == /\ calls # <<>> /\ calls[1][1] = "step" /\ calls[1][3] = "t"
                /\ \A i \in 2..Len(calls) : calls[i][1] = "where"
  IN  /\ (answer # {}) = proper
      /\ proper /\ (\A e \in wheres : Exact(e)) =>
           answer = {{RowOf(f) : f \in {g \in Facts : \A e \in wheres : Says(e, g)}}}
=================================================================================
