----------------------------- MODULE MCZethaLibrary -----------------------------
(* The databases of ZethaRDB and the parts of the library that stand alone,   *)
(* side by side: part says which of them a behaviour runs.                     *)
EXTENDS ZethaCreate, ZethaPageCache, ZethaWindow, ZethaIndex, ZethaCrypt, Klyspec,
        KlyspecText, ZethaQuery, ZethaRdbText, ZethaCodec, MCSerdeTk, MCToolkits,
        MCZethaPrograms, Linenoise, MCZethaRdb, MCZethaRdbCli

VARIABLES
  part,
  sample    \* {} or {a text for one of the parsers, or a value for one of the codecs}

\* What keeps no database: one of these at most moves in a behaviour.
standsAlone == <<sample, createVars, cacheVars, windowVars, indexVars, vaultVars, registryVars, editorVars>>

vars == <<part, rdbVars, cliVars, standsAlone>>

-----------------------------------------------------------------------------
Words(chars, n) == UNION {[1..k -> chars] : k \in 0..n}

(* ZethaINDEX: words of few letters.                                         *)

MCLowerOf == [c \in {"a", "c", "e", "r", "s", "t", "'", "C"} |-> IF c = "C" THEN "c" ELSE c]
MCCharOrder == <<"'", "a", "c", "e", "r", "s", "t">>
MCEndings == <<<<"e", "s">>, <<"s">>>>
MCStopwords == {<<"a", "s">>, <<"a", "t">>}
MCStringOrder == <<"", "10", "9", "9.html", ".html", "extension", "name", "path">>
MCNumberOf == [s \in {"10", "9"} |-> IF s = "9" THEN 9 ELSE 10]

Car == <<"c", "a", "r">>
Plain_(path, text) == [path |-> path, name |-> path, extension |-> "", adapter |-> "txt", text |-> text]
Html == [path |-> "9.html", name |-> "9.html", extension |-> ".html", adapter |-> "html",
         text |-> <<"<", "t", ">", "C", "a", "t", "<", "t", ">", "a", "s", " ", "s", "e", "t", "s">>]
Cars == Plain_("9", Car \o <<"s", " ", "C", "a", "r", " ", "a", "t", " ">> \o Car)
Cats == Plain_("10", <<"c", "a", "t", "s", ",", "c", "a", "t", "c", "a", "t">>)

Rule(require, kind, value) ==
  [require |-> require, kind |-> kind, value |-> value, values |-> {value, <<"s">>}, key |-> "", op |-> ""]
MetadataRule(require, key, op, value) ==
  [require |-> require, kind |-> "metadata", value |-> value, values |-> {}, key |-> key, op |-> op]
Filters ==
  {<<>>, <<Rule(TRUE, "token", <<"C", "a", "r">>)>>, <<Rule(FALSE, "has_any", <<"c", "a", "t">>)>>,
   <<Rule(FALSE, "regex", <<"C", "a">>)>>, <<Rule(TRUE, "token", Car), Rule(FALSE, "token", Car)>>}
  \cup {<<MetadataRule(TRUE, "name", op, "9")>> : op \in {"==", "!=", "<", "<=", ">", ">="}}
  \cup {<<MetadataRule(FALSE, "size", "==", "9")>>}

MCOptions == [files : {<<>>, <<Cats, Html>>, <<Html, Cats, Cars>>}, filter : {<<>>},
              stemming : {"none", "suffix"}, stopwords : {"none", "smart"}]
             \cup [files : {<<Cars, Cats, Html>>}, filter : Filters, stemming : {"none"}, stopwords : {"smart"}]

MCVaultKeys == {<<>>, <<1>>, <<2>>, <<1, 2>>}
MCPlains == {<<>>, <<1>>, <<2, 2>>}

-----------------------------------------------------------------------------
(* Klyspec: arguments and command lines.                                     *)

\* The first is looked up by its id, too.
Out     == [id |-> "--out", names |-> {"-o"}, takes |-> "required", required |-> TRUE, default |-> {[kind |-> "text", text |-> "std"]}]
Verbose == [id |-> "verbose", names |-> {"-v"}, takes |-> "none", required |-> FALSE, default |-> {}]
Level   == [id |-> "level", names |-> {"--level", "-v"}, takes |-> "required", required |-> FALSE, default |-> {[kind |-> "text", text |-> "1"]}]
Other   == [id |-> "level", names |-> {"--other"}, takes |-> "optional", required |-> TRUE, default |-> {}]
NoId    == [id |-> "", names |-> {"-x"}, takes |-> "none", required |-> FALSE, default |-> {}]
MCArguments == {Out, Verbose, Level, Other, NoId}

\* Two of one id, in either order, and two of one name.
MCCommandSpecs == {<<>>, <<Level, Other>>, <<Other, Level, NoId, Verbose>>}

MCArgvTokens == {[kind |-> "long", names |-> <<"--out">>], [kind |-> "long", names |-> <<"--level">>],
                 [kind |-> "short", names |-> <<"-v", "-o">>], [kind |-> "short", names |-> <<"-o", "-v">>],
                 [kind |-> "end"], [kind |-> "text", text |-> "t"], [kind |-> "text", text |-> "u"]}
MCCommandLines == UNION {[1..n -> MCArgvTokens] : n \in 0..3}

\* Subcommands and plugins, registered one after the other. The word of a
\* subcommand leads to the first that was registered with it, and whatever the
\* plugins put in front of a command line stands there, the last one's first.
MCExecuted == [s \in {3, 4} |-> s]
MCPluginTurn(plugin, words) == <<plugin[1]>> \o words
Registrations == UNION {[1..n -> CommandWords \X {3, 4}] : n \in 0..3}
FirstComes(calls) ==
  LET subs   == FoldLeft(LAMBDA s, c : RegisterSubcommand(s, c[1], c[2]), <<>>, calls)
      firsts(name) == {i \in DOMAIN calls : calls[i][1] = name /\ name # NoWord}
  IN  /\ \A name \in CommandWords :
           DispatchSubcommand(subs, name) = IF firsts(name) = {} THEN NotFound ELSE calls[Min(firsts(name))][2]
      /\ BeforeParse(calls, <<"t">>) = Reverse([i \in DOMAIN calls |-> calls[i][1]]) \o <<"t">>

\* What is sent of a command line tells its options and their first values, and
\* nothing else, as long as no value holds a mark of the format itself.
SentValues == [{"out", "level"} -> Words({"t", "u"}, 2)] \cup [{"out"} -> Words({"t", "u"}, 2)]
TellsApart(v) == \A w \in SentValues :
  (SerializeValues(v) \cap SerializeValues(w) # {}) <=>
     DOMAIN v = DOMAIN w /\ \A id \in DOMAIN v : {v[id][i] : i \in DOMAIN v[id] \cap {1}} = {w[id][i] : i \in DOMAIN w[id] \cap {1}}

\* Profiles: documents with texts and integers, that stay what they are in YAML.
PlainProfile(v) ==
  v[1] = "object" /\ FitsYaml(v) /\ \A k \in DOMAIN v[2] : /\ v[2][k][1] \in {"int", "string"} /\ SeenAs(v[2][k]) = v[2][k]
                                                           /\ v[2][k] # String(<<"<", "x", "/>">>)
ProfileOf(v) == [k \in DOMAIN v[2] |-> Shown(v[2][k])]
WrittenAs(format, v) == CASE format = "json"  -> DumpJson(v, TRUE) [] format = "xml"   -> {DumpXml(v)}
                          [] format = "yaml"  -> {DumpYaml(v)}     [] format = "sexpr" -> {DumpSexpr(v)}

\* YAML and XML give a profile whole, and no format gives anything that is not
\* of it; JSON gives all its texts. (ProfilesFromEveryFormat is about the rest.)
ProfileLoads(v) ==
  LET all == ProfileOf(v)
      PartOf(p, r) == DOMAIN p \subseteq DOMAIN r /\ \A k \in DOMAIN p : p[k] = r[k]
      texts == [k \in {j \in DOMAIN v[2] : v[2][j][1] = "string"} |-> all[k]]
  IN  PlainProfile(v) =>
        \A format \in {"yaml", "xml", "json", "sexpr"} : \A text \in WrittenAs(format, v) :
           LET loaded == LoadProfile(format, text)
           IN  /\ \A p \in loaded : PartOf(p, all)
               /\ format \in {"yaml", "xml"} => loaded = {all}
               /\ format = "json" => \E p \in loaded : PartOf(texts, p)

-----------------------------------------------------------------------------
(* Texts: those that are written from something, and those that differ from    *)
(* them in one token.                                                          *)

Edited(text, tokens) ==
  {text} \cup {SubSeq(text, 1, n) : n \in 0..Len(text)} \cup {RemoveAt(text, i) : i \in DOMAIN text}
  \cup {InsertAt(text, i, t) : i \in DOMAIN text, t \in tokens}
  \cup {ReplaceAt(text, i, t) : i \in DOMAIN text, t \in tokens}
  \cup {Append(text, t) : t \in tokens}

\* Paths.
PathSteps == [name : {"a"}, predicates : {<<>>} \cup [1..1 -> [attribute : {"b"}, value :
               {PathName("b"), [is |-> "bool", text |-> "true"], [is |-> "string", text |-> "true"],
                [is |-> "number", text |-> "1"]}]]]
             \cup {[name |-> "true", predicates |-> <<[attribute |-> "b", value |-> PathName("a")],
                                                      [attribute |-> "a", value |-> PathName("b")]>>]}
Paths == [absolute : BOOLEAN, steps : UNION {[1..n -> PathSteps] : n \in 1..2}]
PathTokens == {PathMark(m) : m \in {"/", "[", "@", "=", "]"}}
              \cup {PathName("a"), [is |-> "number", text |-> "1"]}
PathTexts == UNION {Edited(TextOfPath(p), PathTokens) : p \in Paths}

\* A path that is written is read, and what is read is what was written: a
\* text that is accepted is the text of what it was read as, so that nothing
\* of it is passed over.
PathReadsBack(text) ==
  /\ \A path \in ParsePath(text) : TextOfPath(path) = text /\ path.steps # <<>>
  /\ text \in {TextOfPath(p) : p \in Paths} => ParsePath(text) # {}

\* Paths that zetha-mem is asked for, and what may be put under a key.
MCSpelled == ("1" :> <<"1">>) @@ ("10" :> <<"1", "0">>) @@ ("true" :> <<"t", "r", "u", "e">>) @@ ("b" :> <<"b">>)
AskedLiterals == {[is |-> "number", text |-> t] : t \in {"1", "10"}} \cup {[is |-> "string", text |-> t] : t \in {"1", "true"}}
                 \cup {[is |-> "bool", text |-> "true"], PathName("b")}
AskedSteps == [name : {"a", "b"}, predicates : {<<>>} \cup [1..1 -> [attribute : {"b"}, value : AskedLiterals]]]
              \cup [name : {"b"}, predicates : [1..1 -> [attribute : {"c"}, value : {PathName("b")}]]]
AskedPaths == [absolute : {TRUE}, steps : UNION {[1..n -> AskedSteps] : n \in 1..2}]
PutTexts == {<<"1">>, <<"1", ".", "0">>, <<"1", "0">>, <<"0", "1">>, <<"t", "r", "u", "e">>, <<"b">>, <<>>}

\* Does a text that was put stand for what a query asks for? A number is one
\* however it is written, true is no text, and a query can ask for no text that
\* is put as a number or as a boolean.
StandsFor(put, literal) ==
  CASE literal.is = "number" -> ParseValue(put)[1] \in {"integer", "real"}
                                /\ put \in (IF literal.text = "1" THEN {<<"1">>, <<"1", ".", "0">>, <<"0", "1">>} ELSE {<<"1", "0">>})
    [] literal.is = "bool"   -> put = <<"t", "r", "u", "e">>
    [] OTHER                 -> put = <<"b">> /\ literal.text = "b"

\* A query of zetha-mem finds the records whose keys have its names between
\* their slashes, and in which each of its predicates, whichever step it was
\* written at, is true.
PathFinds(path) == \A put \in PutTexts :
  MemQuery([key \in Words({"/", "a", "b"}, 4) |-> "b" :> ParseValue(put)], TextOfPath(path)) =
    {{key \in Words({"/", "a", "b"}, 4) :
        /\ SelectSeq(key, LAMBDA c : c # "/") = [i \in DOMAIN path.steps |-> path.steps[i].name]
        /\ \A i \in DOMAIN key : i > 1 => "/" \in {key[i - 1], key[i]}
        /\ \A i \in DOMAIN path.steps : \A predicate \in Range(path.steps[i].predicates) :
             predicate.attribute = "b" /\ StandsFor(put, predicate.value)}}

\* Schemas.
SchemaColumns == {[name |-> n, type |-> t, primary_key |-> k = "p", unique |-> k \in {"p", "u"}, nullable |-> k \in {"u", "o"}] :
                    n \in {"key", "c"}, t \in {"integer", "null"}, k \in {"p", "u", "o", "n"}}
SchemaTables == [name : {"table"}, columns : {<<>>} \cup [1..1 -> SchemaColumns]
                   \cup {<<x, y>> : x \in SchemaColumns, y \in {c \in SchemaColumns : ~c.primary_key /\ c.type = "null"}}]
TextSchemas == [database : {"d"}, tables : {<<>>} \cup [1..1 -> SchemaTables]]
               \cup {[database |-> "d", tables |-> <<t, [t EXCEPT !.name = "t"]>>] : t \in {x \in SchemaTables : Len(x.columns) = 1}}
SchemaTexts == UNION {Edited(TextOfTextSchema(s), {"(", ",", "not", "c"}) : s \in TextSchemas}

\* A schema is read as it was written, and whatever is read has the words of
\* the text in their order: the parser forgives a missing semicolon and a
\* comma before a parenthesis, and a modifier given twice, and nothing else.
SchemaReadsBack(text) ==
  /\ \A s \in ParseTextSchema(text) : Bones(TextOfTextSchema(s)) = Bones(text)
  /\ \A s \in TextSchemas : TextOfTextSchema(s) = text => ParseTextSchema(text) = {s}

\* Schemas in C++: the tables' columns, each with its calls.
NativeCalls == Words({"nullable_col", "not_null", "unique", "primary_key"}, 3)
NativeSamples == [tables : {<<<<[name |-> "key", calls |-> c], [name |-> "c", calls |-> d]>>>> : c \in NativeCalls, d \in Words({"not_null", "primary_key"}, 1)}
                           \cup {<<<<[name |-> "key", calls |-> c]>>, <<[name |-> "c", calls |-> d]>>>> : c, d \in Words({"unique", "primary_key"}, 1)}]
NativeColumns(table) == [i \in DOMAIN table |-> NativeColumn(table[i].name, "integer", table[i].calls)]
WordsOfCall == ("not_null" :> <<"not", "null">>) @@ ("unique" :> <<"unique">>) @@ ("primary_key" :> <<"primary", "key">>) @@ ("nullable_col" :> <<>>)
TextOfNative(s) ==
  <<"database", "d", ";">> \o FlattenSeq([t \in DOMAIN s.tables |->
    <<"table", "table", "(">> \o FlattenSeq([i \in DOMAIN s.tables[t] |->
       (IF i = 1 THEN <<>> ELSE <<",">>) \o <<s.tables[t][i].name, "integer">>
       \o FlattenSeq([k \in DOMAIN s.tables[t][i].calls |-> WordsOfCall[s.tables[t][i].calls[k]]])]) \o <<")">>])

\* A schema is the same whether it is made in C++ or written with the same
\* words, and two primary keys of a table are refused in both; but for columns
\* that are made nullable after they were not, for which there is no text. What
\* is made in C++ counts before a text.
NativeReadsBack(s) ==
  LET native == NativeSchema("d", [t \in DOMAIN s.tables |-> [name |-> "table", columns |-> NativeColumns(s.tables[t])]])
      text   == TextOfNative(s)
      Renulled(calls) == \E i, j \in DOMAIN calls : i < j /\ calls[i] \in {"not_null", "primary_key"} /\ calls[j] = "nullable_col"
      renulled == \E t \in DOMAIN s.tables : \E i \in DOMAIN s.tables[t] : Renulled(s.tables[t][i].calls)
  IN  /\ ~renulled => ResolveSchema({}, text) = native
      /\ native # {} => ResolveSchema(native, text) = native

\* Klytmk: nodes and where their text is cut off.
Body(node) == IF node.kind = "pre-evaluate"
              THEN FlattenSeq([i \in DOMAIN node.written |-> <<node.written[i][1], "=", node.written[i][2], ";">>])
              ELSE node.written
TextOfNode(node) ==
  <<node.kind>> \o SetToSeq(node.name) \o <<"{">> \o Body(node) \o <<"}", ";">>
TextOfNodes(nodes) == FlattenSeq([i \in DOMAIN nodes |-> TextOfNode(nodes[i])])

\* Of two attributes of one name the later one counts.
ReadAs(node) ==
  [kind |-> node.kind, name |-> node.name,
   attributes |-> IF node.kind # "pre-evaluate" THEN <<>>
                  ELSE FoldLeft(LAMBDA f, named : Extended(f, named[1], named[2]), <<>>, node.written)]

WrittenNodes ==
  [kind : {"param", "command"}, name : {{"'q'"}},
   written : {<<>>, <<"{", "}">>, <<"x", "{", "{", "}", ";", "}", "param">>}]
  \cup [kind : {"pre-evaluate"}, name : {{}},
        written : UNION {[1..n -> {"x", "param"} \X {"'q'", "'r'"}] : n \in 0..2}]
KlytmkSamples == UNION
  {{[nodes |-> ns, cut |-> n] : n \in 0..Len(TextOfNodes(ns))} :
     ns \in {<<>>} \cup {<<x, y>> : x \in WrittenNodes, y \in {w \in WrittenNodes : Len(w.written) # 2}}}

\* A text of nodes is read as them. One that is cut off is refused, or read as
\* the nodes in front of the cut: nothing is made up, and a node never runs
\* into the next one. (Not all that are cut short are refused: parse_klytmk
\* ends without an error where the text ends in a header.)
NodesReadBack(s) ==
  LET text  == TextOfNodes(s.nodes)
      nodes == [i \in DOMAIN s.nodes |-> ReadAs(s.nodes[i])]
      read  == ParseKlytmk(SubSeq(text, 1, s.cut))
  IN  /\ \A ns \in read : IsPrefix(ns, nodes)
      /\ s.cut = Len(text) => read = {nodes}

\* The parsers of the library read what is written, whole, and nothing else:
\* paths of ZethaQUERY, schemas of ZethaRDB, templates of klyspec, descriptors of
\* SerdeTk, programs and backends of IPCtk (what compiles of these is emitted
\* whole), scripts and rows of zetha-rdb and zetha-mem, filters and builds of
\* zetha-index.
TextsReadBack == \A s \in sample :
  /\ part = "query"  => PathReadsBack(s)
  /\ part = "asked"  => PathFinds(s)
  /\ part = "schema" => SchemaReadsBack(s)
  /\ part = "native" => NativeReadsBack(s)
  /\ part = "klytmk" => NodesReadBack(s)
  /\ part = "plugins" => FirstComes(s)
  /\ part = "descriptor" => DescriptorReadsBack(s)
  /\ part = "ipcl" => ProgramReadsBack(s) /\ \A b \in IpcBackends : CompilesWhatFits(s, b)
  /\ part = "itkd" => BackendReadsBack(s)
  /\ part = "script" => ScriptReadsBack(s)
  /\ part = "row"    => RowReadsBack(s)
  /\ part = "filter" => FilterReadsBack(s)
  /\ part = "build"  => BuildReadsBack(s)

-----------------------------------------------------------------------------
(* Codecs.                                                                   *)

Fields == Words({"\\", "\t", "\n", "n"}, 2)
SentCells == [name : Fields, kind : {"i"}, data : Words({"\\", "\t", "n"}, 1)]

\* Code points, and their bytes.
MCCombiningChars == {769, 917760}
MCWideChars == {20013}
TextPoints == {97, 233, 769, 20013, 128512, 917760}
Tail6(n) == 128 + (n % 64)
Utf8(cp) ==
  CASE cp < 128   -> <<cp>>
    [] cp \in 128..2047 -> <<192 + cp \div 64, Tail6(cp)>>
    [] cp \in 2048..65535 -> <<224 + cp \div 4096, Tail6(cp \div 64), Tail6(cp)>>
    [] OTHER      -> <<240 + cp \div 262144, Tail6(cp \div 4096), Tail6(cp \div 64), Tail6(cp)>>
Utf8Text(points) == FlattenSeq([i \in DOMAIN points |-> Utf8(points[i])])

\* The characters of a line are read one by one; the cursor goes from one that
\* combines with no other to the next, and back over the same ones, but for
\* characters in front of the line with nothing to combine with, over which it
\* does not go back; and the columns are those of its characters.
LineReadsBack(points) ==
  LET buf    == Utf8Text(points)
      Offset(n) == Len(Utf8Text(SubSeq(points, 1, n)))
      bounds == {Offset(n) : n \in {0, Len(points)} \cup {k \in 1..Len(points) : k < Len(points) /\ points[k + 1] \notin CombiningChars}}
      Prev_(p) == Max({b \in bounds : b < p})
      base   == points # <<>> /\ points[1] \in CombiningChars
  IN  /\ \A n \in DOMAIN points :
           ReadUTF8Char(SubSeq(buf, Offset(n - 1) + 1, Len(buf))) =
             {[char |-> [cp |-> points[n], len |-> Offset(n) - Offset(n - 1)], rest |-> SubSeq(buf, Offset(n) + 1, Len(buf))]}
      /\ \A p \in bounds \ {Len(buf)} : p + GraphemeLen(buf, p) = Min({b \in bounds : b > p})
      /\ \A p \in bounds \ {0} : p - PrevGraphemeLen(buf, p) = IF base /\ Prev_(p) = 0 THEN p ELSE Prev_(p)
      /\ ColumnPos(<<27, 91, 49, 109>> \o buf) = MapThenSumSet(LAMBDA n : WidthOf(points[n]), DOMAIN points)

\* What zetha-index answers to a request is JSON, and holds what was asked.
MCHitsFor(hits, q) == hits
Hit(term, documents) == [term |-> term, documents |-> documents]
AnswerSamples == [code : {"answer"}, query : Words({"\"", "\\", "\n", "x"}, 2),
                  hits : {<<>>, <<Hit(<<"x">>, <<"2", "0">>)>>, <<Hit(<<"\"">>, <<"2">>), Hit(<<"x">>, <<"0">>)>>}]
AnswerReadsBack(s) ==
  LET answer == Response(s.hits, <<SearchRequest>> \o s.query \o <<" ", "x">>)
      HitValue(h) == Object((<<"term">> :> String(h.term))
                            @@ (<<"docs">> :> Array([i \in DOMAIN h.documents |-> Unsigned(WholeOf[h.documents[i]])])))
  IN  /\ LoadJson(answer.body) =
           {Object((<<"query">> :> String(s.query)) @@ (<<"hits">> :> Array([i \in DOMAIN s.hits |-> HitValue(s.hits[i])])))}
      /\ answer.content_length = Len(answer.body)

\* Snapshots of zetha-mem: records by path, with the characters that its file
\* uses itself.
SnapFields == [key : Words({"|", "E", "\n"}, 1), kind : {"s"}, text : Words({"|", "\\", "\n", "n"}, 2)]
              \cup [key : {<<"E">>}, kind : {"b"}, text : {<<"0">>, <<"1">>}]
SnapRecords == [path : Words({"|", "\\", "\n", "n"}, 2), fields : {<<>>}]
               \cup [path : {<<"n">>}, fields : {<<f>> : f \in SnapFields}
                                             \cup {<<f, [key |-> <<"k">>, kind |-> "i", text |-> <<"-", "1">>]>> : f \in SnapFields}]
Snapshots == {<<>>} \cup {<<r>> : r \in SnapRecords}
             \cup {<<[path |-> <<"E">>, fields |-> <<[key |-> <<"n">>, kind |-> "b", text |-> <<"1">>]>>], r>> : r \in SnapRecords}
SnapMap(records) ==
  [p \in {r.path : r \in Range(records)} |->
     LET fields == (CHOOSE r \in Range(records) : r.path = p).fields
     IN  [k \in {f.key : f \in Range(fields)} |->
            LET f == CHOOSE f \in Range(fields) : f.key = k IN <<f.kind, f.text>>]]

\* What is written of a snapshot is read as it, but for one with a bar in a
\* field, which is refused. What is cut off is refused, or is the first of the
\* records: that is what ZethaMemDb knows of a file.
SnapshotReadsBack(records) ==
  LET text  == EncodeSnapshot(records)
      piped == {i \in DOMAIN records : \E f \in Range(records[i].fields) : Contains(f.key, "|") \/ Contains(f.text, "|")}
      Whole_(k) == Len(EncodeSnapshot(SubSeq(records, 1, k)))
  IN  \A n \in 0..Len(text) :
        DecodeSnapshot(SubSeq(text, 1, n)) =
          {SnapMap(SubSeq(records, 1, k)) :
             k \in {j \in 0..Len(records) : n \in {Whole_(j) - 1, Whole_(j)} /\ piped \cap 1..j = {}}}

\* A message arrives as it was sent. Of one that does not fit the buffer of
\* the receiver, or was cut on its way, nothing arrives, or less of its payload.
MessageArrives(message) ==
  LET sent == IpcSend(message)
  IN  /\ DecodeMessage(IpcReceive(sent, Len(sent) + 1)) = {message}
      /\ \A n \in 0..Len(sent) : \A m \in DecodeMessage(IpcReceive(sent, n)) :
           m.verb = message.verb /\ m.table = message.table /\ IsPrefix(m.payload, message.payload)

Spaced(digits) == FlattenSeq([i \in DOMAIN digits |-> <<digits[i], Blank>>])

CodecSamples ==
  [code : {"bytes"}, bytes : Words({0, 1, 127, 128, 255}, 4), pad : BOOLEAN]
  \cup [code : {"row"}, row : Words(SentCells, 1) \cup {<<x, y>> : x, y \in {c \in SentCells : Len(c.name) < 2}}]
  \cup [code : {"message"}, message : [verb : Fields, table : {<<>>, <<"\\">>, <<"\n">>}, payload : Fields]]
  \cup BlobSamples \cup AnswerSamples
  \cup [code : {"snapshot"}, snapshot : Snapshots]
  \cup [code : {"values"}, values : SentValues]
  \cup [code : {"utf8"}, text : Words(TextPoints, 4)]

\* What is encoded is decoded to the same, whatever characters of the format
\* itself it holds and however long it is, with blanks between the digits too;
\* what is sealed is opened with its key alone, and only if it is whole; a line
\* of UTF-8 is walked character by character; and an answer is JSON.
CodesReadBack ==
  part = "codec" => \A s \in sample :
    CASE s.code = "bytes" ->
           LET digits == Encode64(s.bytes, s.pad)
           IN  /\ Decode64(digits) = s.bytes /\ Decode64(Spaced(digits)) = s.bytes
               /\ s.pad => Len(digits) = 4 * ((Len(s.bytes) + 2) \div 3)
      [] s.code = "row"     -> DecodeRow(EncodeRow(s.row), {"i"}) = {s.row}
      [] s.code = "message" -> MessageArrives(s.message)
      [] s.code = "snapshot" -> SnapshotReadsBack(s.snapshot)
      [] s.code = "blob"    -> BlobReadsBack(s)
      [] s.code = "answer"  -> AnswerReadsBack(s)
      [] s.code = "values"  -> TellsApart(s.values)
      [] s.code = "utf8"    -> LineReadsBack(s.text)

-----------------------------------------------------------------------------
(* Documents of SerdeTk.                                                     *)

\* What a format of SerdeTk writes of a document it reads back, or loses in the
\* way that the format is known to lose it; a text that is cut off is refused
\* by JSON; paths lead to the values they name; and what is built call by call is
\* what the calls said; and a profile of klyspec holds nothing but what the
\* document holds that it is read from, and all of it from YAML and XML.
FormatsReadBack == \A v \in sample :
  /\ part = "document" => DocReadsBack(v) /\ RoutesLead(v) /\ ProfileLoads(v)
  /\ part = "built"    => BuiltAsSaid(v)

\* "Supported formats: JSON, XML, YAML, S-Expr" (klyspec/USAGE.md:178): a
\* profile is the same from each of them. Violated by what the code does: of a
\* profile in JSON the integers that are not below zero are left out, and an
\* S-expression gives none.
ProfilesFromEveryFormat ==
  part = "document" => \A v \in sample : PlainProfile(v) =>
    \A format \in {"yaml", "xml", "json", "sexpr"} : \A text \in WrittenAs(format, v) :
       LoadProfile(format, text) = {ProfileOf(v)}

\* The validator of SerdeTk finds a document valid if it is what the schema
\* asks for, and only then but for the items of an array, which it does not
\* compare; and it finds the same of it whichever format it was read from.
VerdictsAgree == part = "verdict" => \A p \in sample : JudgedWell(p[1], p[2])

\* "uniqueItems violated" (SerdeTk.hpp:787) is what the validator has to say of
\* an array with two items that are the same, as JSON Schema 2020-12 does, which
\* the format of JSON names as its standard (JSON.sktl:68). Violated by what the
\* code does: it looks for them in numbers, and never in an array.
UniqueItemsAreUnique ==
  part = "verdict" => \A p \in sample :
    (p[2][1] = "array" /\ ~Peculiar(p[1][2], p[2]) /\ Validate(p[1], p[2]) = {}) => Conforms(p[1][2], p[2])

-----------------------------------------------------------------------------
(* DSLUtils and the queries of ZethaRDB.                                     *)

\* The parser combinators of DSLUtils read words of their grammar, tell truly
\* where and why they stop, and commit to nothing that try_parse can take back;
\* pattern<> matches what its text says; a rewritten tree means what it meant,
\* and no rule fits it any more.
CombinatorsReadRight == \A s \in sample :
  /\ part = "parser"  => \A t \in DslTexts : ReadsRight(s, t, DslChars)
  /\ part = "pattern" => \A t \in DslStrings : MatchesRight(s, t)
  /\ part = "tree"    => RewritesRight(s)

\* A query of ZethaRDB has an answer if it is of one table with conditions on
\* it, and the answer is the rows of which they are true.
QueriesAreAnswered == part = "where" => \A s \in sample : AnswersWhatIsAsked(s)

-----------------------------------------------------------------------------
(* The line editor.                                                          *)

\* Of the last two, one leads out of the history, and one out of the buffer.
MCHistories == {<<>>, <<<<"a">>, <<"a", " ", "a">>>>, <<<<>>, <<" ">>, <<>>>>, <<<<"a", " ", " ", "a", "a">>>>}

-----------------------------------------------------------------------------
(* All of them.                                                              *)

Init ==
  /\ part \in {"rdb", "turns", "create", "cache", "window", "index", "vault", "klyspec",
             "query", "asked", "schema", "native", "klytmk", "plugins", "codec", "descriptor", "document", "built", "verdict",
             "parser", "pattern", "tree", "ipcl", "itkd", "where", "script", "row", "filter", "build", "editor"}
  /\ sample = {} /\ RdbInit /\ CliInit
  /\ CreateInit /\ CacheInit /\ WindowInit /\ IndexInit /\ VaultInit /\ RegistryInit /\ EditorInit
  /\ part = "cache" \/ max_pages = 0
  /\ part = "vault" \/ master = ValidMaster
  /\ part = "editor" \/ (~multi /\ Len(history) = 1)

AloneNext ==
  /\ UNCHANGED <<part, rdbVars, cliVars>>
  /\ \/ /\ part = "create" /\ CreateNext
        /\ UNCHANGED <<sample, cacheVars, windowVars, indexVars, vaultVars, registryVars, editorVars>>
     \/ /\ part = "cache" /\ CacheNext
        /\ UNCHANGED <<sample, createVars, windowVars, indexVars, vaultVars, registryVars, editorVars>>
     \/ /\ part = "window" /\ WindowNext
        /\ UNCHANGED <<sample, createVars, cacheVars, indexVars, vaultVars, registryVars, editorVars>>
     \/ /\ part = "index" /\ IndexNext
        /\ UNCHANGED <<sample, createVars, cacheVars, windowVars, vaultVars, registryVars, editorVars>>
     \/ /\ part = "vault" /\ VaultNext
        /\ UNCHANGED <<sample, createVars, cacheVars, windowVars, indexVars, registryVars, editorVars>>
     \/ /\ part = "klyspec" /\ RegistryNext
        /\ UNCHANGED <<sample, createVars, cacheVars, windowVars, indexVars, vaultVars, editorVars>>
     \/ /\ part = "editor" /\ EditorNext
        /\ UNCHANGED <<sample, createVars, cacheVars, windowVars, indexVars, vaultVars, registryVars>>
     \/ /\ sample = {}
        /\ \/ part = "query"  /\ \E s \in PathTexts : sample' = {s}
           \/ part = "asked"  /\ \E s \in AskedPaths : sample' = {s}
           \/ part = "schema" /\ \E s \in SchemaTexts : sample' = {s}
           \/ part = "native" /\ \E s \in NativeSamples : sample' = {s}
           \/ part = "plugins" /\ \E s \in Registrations : sample' = {s}
           \/ part = "klytmk" /\ \E s \in KlytmkSamples : sample' = {s}
           \/ part = "codec"  /\ \E s \in CodecSamples : sample' = {s}
           \/ part = "descriptor" /\ \E s \in Descriptors : sample' = {s}
           \/ part = "document"   /\ \E s \in Docs : sample' = {s}
           \/ part = "built"      /\ \E s \in BuildCalls : sample' = {s}
           \/ part = "parser"  /\ \E s \in DslParsers : sample' = {s}
           \/ part = "pattern" /\ \E s \in DslPatterns : sample' = {s}
           \/ part = "tree"    /\ \E s \in DslTrees : sample' = {s}
           \/ part = "ipcl"    /\ \E s \in IpcPrograms : sample' = {s}
           \/ part = "itkd"    /\ \E s \in IpcBackends : sample' = {s}
           \/ part = "script"  /\ \E s \in ScriptSamples : sample' = {s}
           \/ part = "row"     /\ \E s \in RowSamples : sample' = {s}
           \/ part = "filter"  /\ \E s \in FilterSamples : sample' = {s}
           \/ part = "build"   /\ \E s \in BuildSamples : sample' = {s}
           \/ part = "where"   /\ \E s \in QueryCalls : sample' = {s}
           \/ part = "verdict"    /\ \E s \in TriedSchemas, v \in Judged : sample' = {<<s, v>>}
        /\ UNCHANGED <<createVars, cacheVars, windowVars, indexVars, vaultVars, registryVars, editorVars>>

Next ==
  \/ AloneNext
  \/ part = "rdb" /\ RdbNext /\ UNCHANGED <<part, cliVars, standsAlone>>
  \/ part = "turns" /\ CliNext /\ UNCHANGED <<part, rdbVars, standsAlone>>

Spec == Init /\ [][Next]_vars
=============================================================================
