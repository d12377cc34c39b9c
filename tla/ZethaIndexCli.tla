------------------------------ MODULE ZethaIndexCli ------------------------------
(***************************************************************************)
(* The program zetha-index: its command line, its configuration documents, *)
(* the texts of its filters, and the files that it takes in. What it then  *)
(* builds is ZethaIndex. A text is a sequence of words and characters. A   *)
(* result is in a set, which is empty after a failure: the program reports *)
(* it and returns 1.                                                       *)
(***************************************************************************)
EXTENDS SerdeValue

CONSTANTS
  HitsFor(_, _), \* what query finds in an index, see ZethaIndex
  LowerWords,    \* what lower() makes of words that are not in lower case
  DirectoryTree  \* path |-> its suffix and, of a directory, {the paths in it, as they come}

-----------------------------------------------------------------------------
(* Filters.                                                                *)

\* trim.
TrimFilter(text) ==
  LET ink == {i \in DOMAIN text : text[i] \notin {" ", "\n"}}
  IN  IF ink = {} THEN <<>> ELSE SubSeq(text, Min(ink), Max(ink))

Unquote(text) ==
  IF Len(text) >= 2 /\ Head(text) \in {"'", "\""} /\ Last(text) = Head(text)
  THEN SubSeq(text, 2, Len(text) - 1) ELSE text

Statement(s) == IF TrimFilter(s.current) = <<>> THEN s.out ELSE Append(s.out, TrimFilter(s.current))

\* A quote counts wherever it stands, in the middle of a word too.
SplitStatement(s, ch) ==
  CASE ch \in {"'", "\""} /\ s.quote \in {"", ch} ->
         [s EXCEPT !.quote = IF @ = ch THEN "" ELSE ch, !.current = Append(@, ch)]
    [] ch = ";" /\ s.quote = "" -> [s EXCEPT !.out = Statement(s), !.current = <<>>]
    [] OTHER -> [s EXCEPT !.current = Append(@, ch)]

SplitStatements(text) ==
  Statement(FoldLeft(SplitStatement, [out |-> <<>>, current |-> <<>>, quote |-> ""], text))

Operand(text) == Unquote(TrimFilter(text))
Behind(prefix, text) == SubSeq(text, Len(prefix) + 1, Len(text))
CompareOps == {<<"=", "=">>, <<"!", "=">>, <<"<">>, <<"<", "=">>, <<">">>, <<">", "=">>}
NewRule == [kind |-> "token", key |-> <<>>, op |-> <<"=", "=">>, value |-> <<>>, values |-> <<>>]

\* The comparator ends at a blank: where there is none the value is taken for
\* a part of it.
MetadataRuleOf(rest) ==
  LET signs == {i \in DOMAIN rest : rest[i] \in {"=", "!", "<", ">"}}
      pos   == Min(signs)
      ends  == {i \in pos..Len(rest) : rest[i] = " "}
      op    == TrimFilter(SubSeq(rest, pos, IF ends = {} THEN Len(rest) ELSE Min(ends) - 1))
  IN  IF signs = {} THEN {}
      ELSE IF op \notin CompareOps THEN {}
      ELSE {[NewRule EXCEPT !.kind = "metadata", !.key = TrimFilter(SubSeq(rest, 1, pos - 1)), !.op = op,
                            !.value = Operand(SubSeq(rest, pos + Len(op), Len(rest)))]}

\* getline at each comma, be it inside quotes or not; nothing follows a last one.
ItemsOf(inner) ==
  LET s == FoldLeft(LAMBDA r, ch : IF ch = "," THEN [done |-> Append(r.done, r.item), item |-> <<>>]
                                   ELSE [r EXCEPT !.item = Append(@, ch)],
                    [done |-> <<>>, item |-> <<>>], inner)
  IN  IF s.item = <<>> THEN s.done ELSE Append(s.done, s.item)

PredicateOf(stmt) ==
  CASE IsPrefix(<<"token", " ">>, stmt) -> {[NewRule EXCEPT !.value = Operand(Behind(<<"token", " ">>, stmt))]}
    [] IsPrefix(<<"metadata", ".">>, stmt) -> MetadataRuleOf(Behind(<<"metadata", ".">>, stmt))
    [] IsPrefix(<<"has_any", "(">>, stmt) /\ Last(stmt) = ")" ->
         LET items == ItemsOf(SubSeq(stmt, 3, Len(stmt) - 1))
         IN  {[NewRule EXCEPT !.kind = "has_any", !.values = [i \in DOMAIN items |-> Operand(items[i])]]}
    [] IsPrefix(<<"match_regex", " ">>, stmt) ->
         {[NewRule EXCEPT !.kind = "regex", !.value = Operand(Behind(<<"match_regex", " ">>, stmt))]}
    [] OTHER -> {}

FilterRuleOf(stmt) ==
  {[require |-> IsPrefix(<<"require", " ">>, stmt)] @@ rule :
     rule \in IF \E w \in {"require", "exclude"} : IsPrefix(<<w, " ">>, stmt)
              THEN PredicateOf(TrimFilter(SubSeq(stmt, 3, Len(stmt)))) ELSE {}}

ParseFilter(text) ==
  FoldLeft(LAMBDA rules, stmt : {Append(rs, r) : rs \in rules, r \in FilterRuleOf(stmt)}, {<<>>}, SplitStatements(text))

-----------------------------------------------------------------------------
(* What is to be built: the options, from a document or from arguments.    *)

LowerText(text) == [i \in DOMAIN text |-> IF text[i] \in DOMAIN LowerWords THEN LowerWords[text[i]] ELSE text[i]]

ValueAsString(v) == IF v[1] \in {"string", "int", "uint", "double", "bool"} THEN Shown(v) ELSE <<>>

ValueAsBool(v) ==
  CASE v[1] = "bool" -> v[2]
    [] v[1] \in {"int", "uint"} -> v[2] # 0
    [] v[1] = "string" -> LowerText(v[2]) \in {<<"true">>, <<"1">>, <<"yes">>}
    [] OTHER -> FALSE

DefaultConfig == [inputs |-> <<>>, output |-> <<"index.zidx">>, filter_file |-> <<>>,
                  stemming |-> <<"none">>, stopwords |-> <<"smart">>]

SourceFromValue(entry) ==
  IF entry[1] # "object" THEN {}
  ELSE IF ~{<<"path">>, <<"adapter">>} \subseteq DOMAIN entry[2] THEN {}
  ELSE {[path      |-> ValueAsString(entry[2][<<"path">>]),
         adapter   |-> LowerText(ValueAsString(entry[2][<<"adapter">>])),
         recursive |-> <<"recursive">> \in DOMAIN entry[2] /\ ValueAsBool(entry[2][<<"recursive">>])]}

ConfigFromDocument(root) ==
  LET Field(key, default) == IF <<key>> \in DOMAIN root[2] THEN ValueAsString(root[2][<<key>>]) ELSE default
  IN  IF root[1] # "object" THEN {}
      ELSE IF <<"input">> \notin DOMAIN root[2] THEN {}
      ELSE IF root[2][<<"input">>][1] # "array" THEN {}
      ELSE {[inputs      |-> sources,
             output      |-> Field("output", DefaultConfig.output),
             filter_file |-> Field("filter", DefaultConfig.filter_file),
             stemming    |-> Field("stemming", DefaultConfig.stemming),
             stopwords   |-> Field("stopwords", DefaultConfig.stopwords)] :
              sources \in FoldLeft(LAMBDA done, e : {Append(d, s) : d \in done, s \in SourceFromValue(e)},
                                   {<<>>}, root[2][<<"input">>][2])}

\* The first of such a flag, with the argument behind it, is taken out.
TakeFlag(args, flag) ==
  LET places == {i \in DOMAIN args : args[i] = <<flag>> /\ i < Len(args)}
      i      == Min(places)
  IN  IF places = {} THEN [value |-> {}, args |-> args]
      ELSE [value |-> {args[i + 1]}, args |-> SubSeq(args, 1, i - 1) \o SubSeq(args, i + 2, Len(args))]

\* The loop over what is left: await names what the next argument is.
InputArgument(s, arg) ==
  CASE s.await = "path" ->
         [s EXCEPT !.await = "", !.inputs = Append(@, [path |-> arg, adapter |-> <<>>, recursive |-> FALSE])]
    [] s.await = "adapter" -> [s EXCEPT !.await = "", !.inputs[Len(s.inputs)].adapter = arg]
    [] s.await = "" /\ arg = <<"--input">> -> [s EXCEPT !.await = "path"]
    [] s.await = "" /\ arg = <<"--adapter">> /\ s.inputs # <<>> -> [s EXCEPT !.await = "adapter"]
    [] s.await = "" /\ arg = <<"--recursive">> /\ s.inputs # <<>> -> [s EXCEPT !.inputs[Len(s.inputs)].recursive = TRUE]
    [] OTHER -> [s EXCEPT !.await = "failed"]

\* The flags are taken out first, wherever they stand.
OptionsFromArguments(args) ==
  LET output == TakeFlag(args, "--output")
      filter == TakeFlag(output.args, "--filter")
      stem   == TakeFlag(filter.args, "--stemmer")
      stop   == TakeFlag(stem.args, "--stopwords")
      read   == FoldLeft(InputArgument, [await |-> "", inputs |-> <<>>], stop.args)
      Given_(taken, default) == IF taken.value = {} THEN default ELSE CHOOSE v \in taken.value : TRUE
  IN  IF read.await # "" \/ read.inputs = <<>> THEN {}
      ELSE {[inputs      |-> read.inputs,
             output      |-> Given_(output, DefaultConfig.output),
             filter_file |-> Given_(filter, DefaultConfig.filter_file),
             stemming    |-> Given_(stem, DefaultConfig.stemming),
             stopwords   |-> Given_(stop, DefaultConfig.stopwords)]}

\* What the program is to do; config is the document of the file that it names.
RunCli(args, config) ==
  LET cmd   == Head(args)
      rest  == Tail(args)
      file  == TakeFlag(rest, "--config")
      index == TakeFlag(rest, "--index")
      port  == TakeFlag(index.args, "--port")
  IN  CASE args = <<>> -> {<<"help">>}
        [] args # <<>> /\ cmd \in {<<"--help">>, <<"-h">>} -> {<<"help">>}
        [] args # <<>> /\ cmd = <<"build">> ->
             {<<"build", o>> : o \in IF file.value # {} THEN ConfigFromDocument(config) ELSE OptionsFromArguments(rest)}
        [] args # <<>> /\ cmd \in {<<"inspect">>, <<"export">>} -> IF rest = <<>> THEN {} ELSE {<<cmd[1], rest[1]>>}
        [] args # <<>> /\ cmd = <<"query">> -> IF Len(rest) < 2 THEN {} ELSE {<<"query", rest[1], rest[2]>>}
        [] args # <<>> /\ cmd = <<"serve">> -> {<<"serve", i, p>> : i \in index.value, p \in port.value}
        [] OTHER -> {}

-----------------------------------------------------------------------------
(* The files of a source, and how each is read.                            *)

AdapterFor(name) ==
  CASE name \in {<<"txt">>, <<"text">>, <<"plain">>} -> {"txt"}
    [] name \in {<<"html">>, <<"htm">>} -> {"html"}
    [] name = <<"pdf">> -> {"pdf"}
    [] OTHER -> {}

InferAdapter(path) ==
  LET suffix == IF path \in DOMAIN DirectoryTree THEN LowerText(DirectoryTree[path].suffix) ELSE <<>>
  IN  CASE suffix \in {<<".html">>, <<".htm">>} -> <<"html">>
        [] suffix = <<".pdf">> -> <<"pdf">>
        [] OTHER -> <<"txt">>

RECURSIVE FilesUnder(_, _)
FilesUnder(path, depth) ==
  LET node == DirectoryTree[path]
      Inside(entries) == FlattenSeq([i \in DOMAIN entries |-> FilesUnder(entries[i], depth - 1)])
  IN  IF node.entries = {} THEN <<path>>
      ELSE IF depth = 0 THEN <<>>
      ELSE Inside(CHOOSE e \in node.entries : TRUE)

EnumerateDocuments(source) ==
  IF source.path \notin DOMAIN DirectoryTree THEN {}
  ELSE {FilesUnder(source.path, IF source.recursive THEN Cardinality(DOMAIN DirectoryTree) ELSE 1)}

\* One adapter for the whole source, found by its own name: the files of a
\* directory whose adapter is not given are all read as plain text.
SourceFiles(source) ==
  {[i \in DOMAIN files |-> <<files[i], adapter>>] :
     files \in EnumerateDocuments(source),
     adapter \in AdapterFor(IF source.adapter = <<>> THEN InferAdapter(source.path) ELSE source.adapter)}

DocumentsOf(options) ==
  FoldLeft(LAMBDA done, source : {d \o s : d \in done, s \in SourceFiles(source)}, {<<>>}, options.inputs)

-----------------------------------------------------------------------------
(* Answers. The numbers of documents are words here, and so is a request's *)
(* "GET /search?q=".                                                       *)

JsonEscape(text) ==
  FlattenSeq([i \in DOMAIN text |-> CASE text[i] \in {"\\", "\""} -> <<"\\", text[i]>>
                                      [] text[i] = "\n" -> <<"\\", "n">>
                                      [] text[i] = "\t" -> <<"\\", "t">>
                                      [] OTHER -> <<text[i]>>])

WithCommas(texts) == FlattenSeq([i \in DOMAIN texts |-> (IF i = 1 THEN <<>> ELSE <<",">>) \o texts[i]])

QueryResultJson(q, hits) ==
  <<"{", "\"", "query", "\"", ":", "\"">> \o JsonEscape(q) \o <<"\"", ",", "\"", "hits", "\"", ":", "[">>
  \o WithCommas([i \in DOMAIN hits |->
                   <<"{", "\"", "term", "\"", ":", "\"">> \o JsonEscape(hits[i].term)
                   \o <<"\"", ",", "\"", "docs", "\"", ":", "[">>
                   \o WithCommas([j \in DOMAIN hits[i].documents |-> <<hits[i].documents[j]>>]) \o <<"]", "}">>])
  \o <<"]", "}">>

\* serve_http: the query is found anywhere in what was read, and taken as it
\* is up to the next blank; without one the empty query is answered.
SearchRequest == "GET /search?q="
QueryOfRequest(request) ==
  LET starts == {i \in DOMAIN request : request[i] = SearchRequest}
      ends   == {i \in Min(starts)..Len(request) : request[i] = " "}
  IN  IF starts = {} THEN <<>>
      ELSE SubSeq(request, Min(starts) + 1, IF ends = {} THEN Len(request) ELSE Min(ends) - 1)

Response(index, request) ==
  LET q    == QueryOfRequest(request)
      body == QueryResultJson(q, HitsFor(index, q))
  IN  [content_length |-> Len(body), body |-> body]
=============================================================================
