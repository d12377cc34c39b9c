------------------------------- MODULE MCSerdeTk -------------------------------
(* Documents, written and read in every format.                              *)
EXTENDS SerdeText, SerdeSchema

MCWholeOf     == [t \in {"-1", "0", "2"} |-> CASE t = "-1" -> 0 - 1 [] t = "0" -> 0 [] OTHER -> 2]
MCDoubleOf    == [t \in {"0.5", "nan"} |-> t]
MCDoubleText  == [d \in {"0.5", "nan", "2.0"} |-> IF d = "2.0" THEN "2" ELSE d]
MCJsonNumbers == {"-1", "0", "2", "0.5"}
MCEscapeOf    == [c \in {"\"", "\\", "\n"} |-> IF c = "\n" THEN "n" ELSE c]
MCEscapes     == [c \in {"\"", "\\", "/", "n"} |-> IF c = "n" THEN "\n" ELSE c]
MCKeyOrder    == <<<<"k">>, <<"z">>>>

DocStrings == {<<>>, <<"x">>, <<"2">>, <<"null">>, <<"x", " ", "x">>, <<"x", ":">>, <<"\"", "x">>, <<"x", "\n", "-">>, <<"-", " ", "x">>,
            <<"<", "x", "/>">>}
DocScalars == {Null, Bool(TRUE), Signed(2), Signed(0 - 1), Unsigned(2), Double("0.5"), Double("2.0"), Double("nan"), Binary(<<"x">>)}
           \cup {String(s) : s \in DocStrings}
DocFields(vs) == {<<>>} \cup [{<<"k">>} -> vs] \cup [{<<"k">>, <<"z">>} -> vs]
DocFew     == {Signed(2), String(<<"x">>), String(<<>>), Array(<<>>), Object(<<>>), Array(<<Signed(2)>>), Array(<<String(<<"x">>), Null>>),
            Object([k \in {<<"z">>} |-> Bool(TRUE)])}
Docs == DocScalars \cup {Array(vs) : vs \in UNION {[1 .. n -> DocScalars] : n \in 0 .. 2} \cup UNION {[1 .. n -> DocFew] : n \in 1 .. 3}}
        \cup {Object(f) : f \in DocFields(DocScalars) \cup DocFields(DocFew)}
        \cup {Object([k \in {<<"k">>} |-> Object(f)]) : f \in DocFields(DocFew)}
        \cup {Array(<<Array(vs), v>>) : vs \in UNION {[1 .. n -> DocFew] : n \in 1 .. 2}, v \in DocFew}

-----------------------------------------------------------------------------
(* What of a document is left by each format.                                *)

RECURSIVE Leaves(_)
Leaves(v) == IF Composite(v) THEN UNION {Leaves(v[2][i]) : i \in DOMAIN v[2]} ELSE {v}

\* JSON: numbers forget their types, but for their sign and their fraction.
RECURSIVE SeenByJson(_)
SeenByJson(v) ==
  CASE v[1] = "array"  -> Array([i \in DOMAIN v[2] |-> SeenByJson(v[2][i])])
    [] v[1] = "object" -> Object([k \in DOMAIN v[2] |-> SeenByJson(v[2][k])])
    [] v[1] = "int" /\ v[2] >= 0        -> Unsigned(v[2])
    [] v = Double("2.0")                -> Unsigned(2)
    [] OTHER -> v

\* The others: scalars are what they look like.
SeenAs(v) == ParseScalar(Shown(v))

\* YAML: lists and objects that hold something, lists of scalars only, and no
\* empty strings or strings of two lines.
RECURSIVE FitsYaml(_)
FitsYaml(v) ==
  /\ Composite(v) /\ DOMAIN v[2] # {}
  /\ \A i \in DOMAIN v[2] :
       IF Composite(v[2][i]) THEN v[1] = "object" /\ FitsYaml(v[2][i])
       ELSE v[2][i] # String(<<>>) /\ v[2][i] # String(<<"x", "\n", "-">>)

RECURSIVE SeenByYaml(_)
SeenByYaml(v) ==
  CASE v[1] = "array"  -> Array([i \in DOMAIN v[2] |-> SeenByYaml(v[2][i])])
    [] v[1] = "object" -> Object([k \in DOMAIN v[2] |-> SeenByYaml(v[2][k])])
    [] OTHER -> SeenAs(v)

\* XML: lists run into the lists they are in; one of one item is that item, one
\* of none is not there; what is left without fields is an empty string.
RECURSIVE SeenByXml(_)
SeenByXml(v) ==     \* the sequence of what stands for v
  CASE v[1] = "array"  -> FlattenSeq([i \in DOMAIN v[2] |-> SeenByXml(v[2][i])])
    [] v[1] = "object" ->
         LET f == [k \in {j \in DOMAIN v[2] : SeenByXml(v[2][j]) # <<>>} |->
                     LET vs == SeenByXml(v[2][k]) IN IF Len(vs) = 1 THEN vs[1] ELSE Array(vs)]
         IN  <<IF f = <<>> THEN String(<<>>) ELSE Object(f)>>
    [] OTHER -> <<SeenAs(v)>>

\* S-expressions: objects are lists of pairs, null is a word.
RECURSIVE SeenBySexpr(_)
SeenBySexpr(v) ==
  CASE v[1] = "array"  -> Array([i \in DOMAIN v[2] |-> SeenBySexpr(v[2][i])])
    [] v[1] = "object" ->
         LET keys == KeysOf(v[2])
         IN  Array([i \in DOMAIN keys |-> Array(<<ParseScalar(keys[i]), SeenBySexpr(v[2][keys[i]])>>)])
    [] v[1] = "null"   -> String(<<"nil">>)
    [] v[1] = "string" -> v
    [] OTHER -> SeenAs(v)

\* What one format writes it reads back, but for what is said above.
DocReadsBack(v) ==
  LET shows(bad) == Leaves(v) \cap bad # {}
      carried    == UNION {LoadCarrier(b) : b \in DumpCarrier(v)}
  IN  /\ \A pretty \in BOOLEAN :
           UNION {LoadJson(t) : t \in DumpJson(v, pretty)} =
             IF shows({Double("nan"), Binary(<<"x">>)}) THEN {} ELSE {SeenByJson(v)}
      /\ carried = IF v = Binary(<<"x">>) THEN {v}
                   ELSE IF shows({Double("nan"), Binary(<<"x">>)}) THEN {} ELSE {SeenByJson(v)}
      /\ \A t \in DumpJson(v, FALSE) : Composite(v) =>
           \A n \in 0 .. Len(t) - 1 : LoadJson(SubSeq(t, 1, n)) = {}
      /\ FitsYaml(v) => LoadYaml(DumpYaml(v)) = {SeenByYaml(v)}
      /\ v[1] = "array" /\ ~shows({String(<<"x", "\n", "-">>)}) =>
           \A w \in LoadYaml(DumpYaml(v)) : w # Null => IsPrefix(w[2], SeenByYaml(v)[2])
      /\ v[1] = "object" /\ ~shows({String(<<"<", "x", "/>">>)}) =>
           LoadXml(DumpXml(v)) = {IF SeenByXml(v)[1][1] = "object" THEN SeenByXml(v)[1] ELSE Object(<<>>)}
      /\ ~shows({String(s) : s \in {t \in DocStrings : \E i \in DOMAIN t : t[i] \in Spaces}}) =>
           LoadSexpr(DumpSexpr(v)) = IF Composite(v) THEN SeenBySexpr(v) ELSE Array(<<SeenBySexpr(v)>>)

-----------------------------------------------------------------------------
(* Paths into a document: where they lead.                                   *)

MCIndexOf == [t \in {<<"0">>, <<"1">>, <<"2">>, <<"3">>} |->
                CASE t = <<"0">> -> 0 [] t = <<"1">> -> 1 [] t = <<"2">> -> 2 [] OTHER -> 3]
IndexText(n) == CHOOSE t \in DOMAIN MCIndexOf : MCIndexOf[t] = n

RECURSIVE Routes(_)
Routes(v) ==
  {<<<<>>, v>>} \cup
  CASE v[1] = "object" -> UNION {{<<<<".">> \o k \o r[1], r[2]>> : r \in Routes(v[2][k])} : k \in DOMAIN v[2]}
    [] v[1] = "array"  -> UNION {{<<<<"[">> \o IndexText(i - 1) \o <<"]">> \o r[1], r[2]>> : r \in Routes(v[2][i])} : i \in DOMAIN v[2]}
    [] OTHER           -> {}

\* A path leads to the value it names and to no other, with or without "root";
\* a step further than there is anything leads nowhere, and [*] to all items.
RoutesLead(v) == \A r \in Routes(v) :
  LET leads(more) == RunQuery(v, r[1] \o more)
      size == IF r[2][1] = "array" THEN Len(r[2][2]) ELSE 0
  IN  /\ leads(<<>>) = <<r[2]>> /\ RunQuery(v, <<"root">> \o r[1]) = <<r[2]>>
      /\ leads(<<"[">> \o IndexText(size) \o <<"]">>) = <<>>
      /\ leads(<<".", "none">>) = <<>> /\ leads(<<"[", "0">>) = <<>>
      /\ leads(<<"[", "*", "]">>) = IF r[2][1] = "array" THEN r[2][2] ELSE <<>>
      /\ LET steps == {k \in 1 .. Len(r[1]) : r[1][k] \in {".", "["}}
             Step_(vs, k) == UNION {IF r[1][k] = "." THEN ApiField(x, <<r[1][k + 1]>>)
                                    ELSE ApiIndex(x, IndexOf[<<r[1][k + 1]>>]) : x \in vs}
             reached == FoldLeft(Step_, {v}, SetToSortSeq(steps, LAMBDA j, k : j < k))
         IN  reached = {r[2]} /\ \A tag \in {"int", "string", "object", "double"} :
               UNION {ApiGet(x, tag) : x \in reached} = IF r[2][1] = tag \/ (tag = "double" /\ r[2][1] \in {"int", "uint"}) THEN {r[2]} ELSE {}

-----------------------------------------------------------------------------
(* Documents that are built, call by call. A call names one of the builders   *)
(* that there are by then; what it sets or pushes is its own number.          *)

ApplyCall(b, call) ==
  LET builder == b.builders[call.by]
      v       == Signed(Len(b.builders))
  IN  CASE call.does = "set"  -> SetField(b, builder, call.key, v)
        [] call.does = "push" -> PushItem(b, builder, v)
        [] OTHER              -> AddField(b, builder, call.key, call.does)

\* Legal calls: through a builder of that kind whose object is still there; the
\* Creator has sections only.
CallsOf(b) ==
  {c \in [by : DOMAIN b.builders, does : {"set", "object", "list", "push"}, key : {<<"k">>, <<"z">>}] :
     /\ Alive(b, b.builders[c.by])
     /\ c.does = "push" <=> b.builders[c.by].kind = "list"
     /\ c.by = 1 => c.does = "object"
     /\ c.does = "push" => c.key = <<"k">>}

RECURSIVE Builds(_, _)
Builds(b, n) == {<<>>} \cup (IF n = 0 THEN {} ELSE
                UNION {{<<c>> \o more : more \in Builds(ApplyCall(b, c), n - 1)} : c \in CallsOf(b)})
BuildCalls == {calls \in Builds(NewDocument, 4) : Len(calls) > 1}

\* The document that calls build, as a plain value in which every builder is a
\* path: what a call gives to a path stands there, until a later one gives
\* something to the same path or to one in front of it.
RECURSIVE Placed(_, _, _)
Placed(v, path, x) ==
  IF path = <<>> THEN (IF x[1] = "push" THEN Array(Append(IF v[1] = "array" THEN v[2] ELSE <<>>, x[2])) ELSE x)
  ELSE LET f == IF v[1] = "object" THEN v[2] ELSE <<>>
       IN  Object(WithField(f, path[1], Placed(IF path[1] \in DOMAIN f THEN f[path[1]] ELSE Null, Tail(path), x)))
PlaceCall(t, call) ==
  LET path == t.paths[call.by]
      n    == Signed(Len(t.paths))
  IN  CASE call.does = "push" -> [t EXCEPT !.doc = Placed(@, path, <<"push", n>>)]
        [] call.does = "set"  -> [t EXCEPT !.doc = Placed(@, Append(path, call.key), n)]
        [] OTHER -> [doc |-> Placed(t.doc, Append(path, call.key), IF call.does = "list" THEN Array(<<>>) ELSE Object(<<>>)),
                     paths |-> Append(t.paths, Append(path, call.key))]

\* The builders, which point into objects that others may have replaced, build
\* what their paths say.
BuiltAsSaid(calls) ==
  BuiltFrom(FoldLeft(ApplyCall, NewDocument, calls)) =
    FoldLeft(PlaceCall, [doc |-> Object(<<>>), paths |-> <<<<>>>>], calls).doc

-----------------------------------------------------------------------------
(* Schemas and what is held against them.                                    *)

MCHalvesOf == [d \in {"0.5", "2.0"} |-> IF d = "0.5" THEN 1 ELSE 4]

WordArray(ws)  == Array([i \in DOMAIN ws |-> String(<<ws[i]>>)])
One(word, v) == (<<word>> :> v)
Keywords ==
  {One("type", String(<<t>>)) : t \in {"null", "boolean", "integer", "number", "string", "object", "array", "x"}}
  \cup {One("type", WordArray(<<"string", "array">>)), One("type", Null)}
  \cup {One("enum", Array(<<Signed(2), String(<<"x">>), Array(<<Unsigned(2)>>)>>)), One("const", Unsigned(2)), One("const", Double("nan"))}
  \cup {One(w, n) : w \in {"minLength", "maxLength", "minItems", "maxItems"}, n \in {Signed(1), Unsigned(2), Signed(0 - 1)}}
  \cup {One(w, n) : w \in {"minimum", "maximum"}, n \in {Signed(0 - 1), Unsigned(2), Double("0.5"), Double("nan")}}
  \cup {One("pattern", String(<<"x", "x">>)), One("uniqueItems", Bool(TRUE)), One("required", WordArray(<<"k", "z">>)),
        One("required", Array(<<Null>>)), One("additionalProperties", Bool(FALSE))}
Combined(kws) == kws \cup {f @@ g : f \in kws, g \in kws}
Subschemas == {One("type", String(<<"integer">>)), One("maximum", Double("0.5")), One("required", WordArray(<<"k">>))}
Nested ==
  {One("properties", Object((<<"k">> :> Object(f)) @@ (<<"y">> :> Null))) @@ g :
     f \in Subschemas, g \in {<<>>, One("additionalProperties", Bool(FALSE)), One("required", WordArray(<<"z">>)),
                             One("additionalProperties", Bool(TRUE))}}
  \cup {One("items", Object(f)) : f \in Subschemas} \cup {One("items", Array(<<Object(f), Null, Object(f)>>)) : f \in Subschemas}
  \cup {One("allOf", Array(<<Object(f), Object(g)>>)) : f, g \in Subschemas}
  \cup {One("items", Object(One("allOf", Array(<<Object(f)>>)))) : f \in Subschemas}
TriedSchemas == {Object(f) : f \in Combined(Keywords) \cup Nested}

Judged == {Null, Bool(TRUE), Signed(2), Signed(0 - 1), Unsigned(2), Double("0.5"), Double("nan"), String(<<>>), String(<<"y", "x", "x">>),
           String(<<"x">>), Array(<<>>), Array(<<Unsigned(2)>>), Array(<<Signed(2), Signed(2), Double("0.5")>>), Object(<<>>),
           Object(<<"k">> :> Signed(0 - 1)), Object((<<"k">> :> String(<<"x">>)) @@ (<<"z">> :> Null)),
           Array(<<Object(<<"k">> :> Null), Object(<<"z">> :> Null)>>)}

\* What a schema asks of a value, by the value alone: numbers by how large they
\* are, sizes by how many there are.
Same(v, w) == IF Numeric(v) /\ Numeric(w) THEN ~Below(v, w) /\ ~Below(w, v) ELSE v = w
Is(v, t)   == CASE t = <<"integer">> -> v[1] \in {"int", "uint"}
                [] t = <<"number">>  -> Numeric(v)
                [] t = <<"boolean">> -> v[1] = "bool"
                [] OTHER -> <<v[1]>> = t

RECURSIVE Conforms(_, _)
Conforms(s, v) ==
  LET sub(t, w)  == t[1] = "object" => Conforms(t[2], w)
      asks(word) == IF Has(s, word) THEN {s[<<word>>]} ELSE {}
      fields     == UNION {DOMAIN p[2] : p \in asks("properties")}
  IN  /\ \A t \in asks("type") :
           \/ t[1] = "string" /\ Is(v, t[2])
           \/ t[1] = "array" /\ \E i \in DOMAIN t[2] : Is(v, t[2][i][2])
      /\ \A e \in asks("enum")  : \E i \in DOMAIN e[2] : Same(e[2][i], v)
      /\ \A c \in asks("const") : Same(c, v)
      /\ v[1] = "string" =>
           /\ \A n \in asks("minLength") : n[2] <= Len(v[2])
           /\ \A n \in asks("maxLength") : n[2] >= Len(v[2])
           /\ \A p \in asks("pattern")   : \E i, j \in 0 .. Len(v[2]) : SubSeq(v[2], i + 1, j) = p[2]
      /\ v[1] = "array" =>
           /\ \A n \in asks("minItems") : n[2] <= Len(v[2])
           /\ \A n \in asks("maxItems") : n[2] >= Len(v[2])
           /\ \A u \in asks("uniqueItems") : u = Bool(TRUE) => \A i, j \in DOMAIN v[2] : i # j => ~Same(v[2][i], v[2][j])
           /\ \A t \in asks("items") : \A i \in DOMAIN v[2] :
                IF t[1] = "array" THEN i \in DOMAIN t[2] => sub(t[2][i], v[2][i]) ELSE sub(t, v[2][i])
      /\ v[1] = "object" =>
           /\ \A r \in asks("required")   : \A i \in DOMAIN r[2] : r[2][i][1] = "string" /\ r[2][i][2] \in DOMAIN v[2]
           /\ \A p \in asks("properties") : \A k \in DOMAIN p[2] \cap DOMAIN v[2] : sub(p[2][k], v[2][k])
           /\ \A a \in asks("additionalProperties") : a = Bool(FALSE) => DOMAIN v[2] \subseteq fields
      /\ Numeric(v) =>
           /\ \A n \in asks("minimum") : ~Below(v, n)
           /\ \A n \in asks("maximum") : ~Below(n, v)
      /\ \A a \in asks("allOf") : \A i \in DOMAIN a[2] : sub(a[2][i], v)

\* Where the validator goes its own ways: sizes below zero, a schema that
\* allows no properties without naming any, numbers and arrays that an enum or
\* a const names with another type, and a number of which unique items are
\* asked, which is no array to look for them in.
Peculiar(s, v) ==
  \/ \E w \in {"minLength", "maxLength", "minItems", "maxItems"} : Has(s, w) /\ s[<<w>>][2] < 0
  \/ Has(s, "additionalProperties") /\ ~Has(s, "properties")
  \/ Has(s, "uniqueItems") /\ Numeric(v)
  \/ (Has(s, "enum") \/ Has(s, "const")) /\ (Numeric(v) \/ v[1] = "array")

\* Every document that is what the schema asks for is found valid, and no other
\* but for arrays whose items were to be unique, which the validator does not
\* look at (UniqueItemsAreUnique is about these); and the same document is judged
\* alike whether it was read from JSON or from YAML.
JudgedWell(schema, v) ==
  ~Peculiar(schema[2], v) =>
     /\ Conforms(schema[2], v) => Validate(schema, v) = {}
     /\ Validate(schema, v) = {} => Conforms(schema[2], v) \/ (Has(schema[2], "uniqueItems") /\ v[1] = "array")
     /\ FitsYaml(v) => Validate(schema, SeenByYaml(v)) = Validate(schema, SeenByJson(v))

-----------------------------------------------------------------------------
(* Descriptors of formats.                                                   *)

MCMustHave == [binary \in BOOLEAN |-> IF binary THEN {<<"query">>, <<"layout">>} ELSE {<<"query">>}]
MCKnownSections == {<<"query">>, <<"layout">>, <<"__top_mime__">>}
MCBackends == {"JSON", "BSON"}

SectionLines == {<<>>, <<<<"engines", "a">>>>, <<<<"format", "b">>, <<"in", "{">>, <<"engines", "c">>, <<"}">>>>}
Descriptors ==
  [name : {"JSON", "BSON", "TOML"}, binary : BOOLEAN, mime : {<<>>, <<"m", "n">>},
   sections : UNION {[1 .. n -> [name : {"query", "layout", "other"}, lines : SectionLines]] : n \in 0 .. 2}]

HeadOf(d) == <<<<"format", d.name>>, <<"category", IF d.binary THEN "binary" ELSE "textual">>, <<"mime">> \o d.mime>>
TextOfDescriptor(d) ==
  HeadOf(d) \o FlattenSeq([i \in DOMAIN d.sections |-> <<<<d.sections[i].name, "{">>>> \o d.sections[i].lines \o <<<<"}", "#">>>>])

\* The lines that d gives to a section of that name, without the braces.
LinesOf(d, name) ==
  FlattenSeq([i \in DOMAIN d.sections |->
    IF d.sections[i].name = name THEN SelectSeq(d.sections[i].lines, LAMBDA l : Last(l) \notin {"{", "}"}) ELSE <<>>])

\* A descriptor is read as it was written, whatever its sections hold; with a
\* brace too many or too few it is refused; and it makes a format if it names
\* a known one and all the sections it must have hold something. That format
\* reads its files back, if the category it is given is that of its backend.
DescriptorReadsBack(d) ==
  LET text  == TextOfDescriptor(d)
      given == {n \in {"query", "layout", "other"} : LinesOf(d, n) # <<>>}
  IN  /\ \A i \in DOMAIN text : Last(Uncommented(text[i])) \in {"{", "}"} => ParseSktl(RemoveAt(text, i)) = {}
      /\ ParseSktl(SubSeq(text, 2, Len(text))) = {}
      /\ \E e \in ParseSktl(text) :
           /\ e.name = {d.name} /\ e.binary = d.binary
           /\ e.sections = (IF d.mime = <<>> THEN <<>> ELSE (<<"__top_mime__">> :> d.mime))
                           @@ [n \in {<<g>> : g \in given} |-> LinesOf(d, n[1])]
           /\ Compiles(e) = (d.name # "TOML" /\ "other" \notin given /\ "query" \in given /\ (d.binary => "layout" \in given))
           /\ FormatAttributes(e).mime = d.mime
           /\ FormatAttributes(e).engines = FlattenSeq([i \in DOMAIN LinesOf(d, "query") |->
                LET l == LinesOf(d, "query")[i] IN IF l[1] = "engines" THEN Tail(l) ELSE <<>>])
           /\ d.name # "TOML" => \A v \in DocFew :
                UNION {LoadFile(e, t) : t \in DumpFile(e, v)} = IF (d.name = "BSON") = d.binary THEN {SeenByJson(v)} ELSE {}
=============================================================================
