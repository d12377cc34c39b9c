------------------------------- MODULE SerdeSchema -------------------------------
(***************************************************************************)
(* SerdeTk: what is asked of a document, its validation against a schema   *)
(* document and paths into it; and the descriptors formats are made from.  *)
(***************************************************************************)
EXTENDS SerdeValue

Has(f, word) == <<word>> \in DOMAIN f
Numeric(v)    == v[1] \in {"int", "uint", "double"}
IntegerIn(f, word) == Has(f, word) /\ f[<<word>>][1] \in {"int", "uint"}
Fault(condition, what) == IF condition THEN {what} ELSE {}

\* A double as far as the validator compares it: in halves.
CONSTANT HalvesOf
Halves(v) == IF v[1] = "double" THEN HalvesOf[v[2]] ELSE 2 * v[2]
Below(v, w) == Double("nan") \notin {v, w} /\ Halves(v) < Halves(w)     \* nan is below nothing, and above nothing

\* A negative bound is cast to size_t: larger than any size.
CONSTANT MaxSize
Size(v) == IF v[2] < 0 THEN MaxSize + 1 ELSE v[2]

-----------------------------------------------------------------------------
(* Validator::validate_node. The answers are the kinds of errors reported;  *)
(* "throws" stands for an exception that no one catches.                    *)

IsType(v, t) ==
  CASE t = <<"null">>    -> v[1] = "null"
    [] t = <<"boolean">> -> v[1] = "bool"
    [] t = <<"integer">> -> v[1] \in {"int", "uint"}
    [] t = <<"number">>  -> Numeric(v)
    [] t \in {<<"string">>, <<"object">>, <<"array">>} -> v[1] = t[1]
    [] OTHER -> FALSE

TypeErrors(s, v) ==
  IF ~Has(s, "type") THEN {}
  ELSE LET t  == s[<<"type">>]
           ok == \/ t[1] = "string" /\ IsType(v, t[2])
                 \/ t[1] = "array" /\ \E i \in DOMAIN t[2] : t[2][i][1] = "string" /\ IsType(v, t[2][i][2])
       IN  Fault(t[1] \notin {"string", "array"}, "schema") \cup Fault(~ok, "type")

\* Values are equal only if their tags are: an int is not the uint it equals.
EnumErrors(s, v) ==
  Fault(/\ Has(s, "enum")
     /\ LET e == s[<<"enum">>] IN e[1] # "array" \/ v \notin ToSet(e[2]), "enum")
  \cup Fault(Has(s, "const") /\ s[<<"const">>] # v, "const")

\* pattern: regex_search, for patterns of plain characters.
StringErrors(s, v) ==
  IF v[1] # "string" THEN {}
  ELSE Fault(IntegerIn(s, "minLength") /\ Len(v[2]) < Size(s[<<"minLength">>]), "minLength")
       \cup Fault(IntegerIn(s, "maxLength") /\ Len(v[2]) > Size(s[<<"maxLength">>]), "maxLength")
       \cup Fault(/\ Has(s, "pattern") /\ s[<<"pattern">>][1] = "string"
               /\ \A i \in 1 .. Len(v[2]) + 1 : ~IsPrefix(s[<<"pattern">>][2], SubSeq(v[2], i, Len(v[2]))), "pattern")

RequiredErrors(s, v) ==
  IF ~(Has(s, "required") /\ v[1] = "object" /\ s[<<"required">>][1] = "array") THEN {}
  ELSE LET names == ToSet(s[<<"required">>][2])
       IN  Fault(\E n \in names : n[1] # "string", "schema")
           \cup Fault(\E n \in names : n[1] = "string" /\ n[2] \notin DOMAIN v[2], "required")

\* Without properties nothing is said of additional ones.
ClosedErrors(s, v) ==
  Fault(/\ Has(s, "properties") /\ s[<<"properties">>][1] = "object" /\ v[1] = "object"
     /\ Has(s, "additionalProperties") /\ s[<<"additionalProperties">>] = Bool(FALSE)
     /\ ~(DOMAIN v[2] \subseteq DOMAIN s[<<"properties">>][2]), "additional")

CountErrors(s, v) ==
  IF v[1] # "array" THEN {}
  ELSE Fault(IntegerIn(s, "minItems") /\ Len(v[2]) < Size(s[<<"minItems">>]), "minItems")
       \cup Fault(IntegerIn(s, "maxItems") /\ Len(v[2]) > Size(s[<<"maxItems">>]), "maxItems")

\* MUTANT: a value that is as large as the maximum is too large.
NumberErrorsAtMaximum(s, v) ==
  Fault(Has(s, "minimum") /\ Numeric(v) /\ Numeric(s[<<"minimum">>]) /\ Below(v, s[<<"minimum">>]), "minimum")
  \cup Fault(Has(s, "maximum") /\ Numeric(v) /\ Numeric(s[<<"maximum">>]) /\ ~Below(v, s[<<"maximum">>]), "maximum")

\* uniqueItems is looked at for numbers, which have no items.
NumberErrors(s, v) ==
  IF ~Numeric(v) THEN {}
  ELSE Fault(Has(s, "minimum") /\ Numeric(s[<<"minimum">>]) /\ Below(v, s[<<"minimum">>]), "minimum")
       \cup Fault(Has(s, "maximum") /\ Numeric(s[<<"maximum">>]) /\ Below(s[<<"maximum">>], v), "maximum")
       \cup Fault(Has(s, "uniqueItems") /\ s[<<"uniqueItems">>] = Bool(TRUE), "throws")

\* Which schemas which parts of v are held against.
Parts(s, v) ==
  (IF Has(s, "properties") /\ s[<<"properties">>][1] = "object" /\ v[1] = "object"
   THEN {<<s[<<"properties">>][2][k], v[2][k]>> : k \in DOMAIN s[<<"properties">>][2] \cap DOMAIN v[2]} ELSE {})
  \cup (IF Has(s, "items") /\ v[1] = "array"
        THEN LET t == s[<<"items">>]
             IN  CASE t[1] = "object" -> {<<t, v[2][i]>> : i \in DOMAIN v[2]}
                   [] t[1] = "array"  -> {<<t[2][i], v[2][i]>> : i \in DOMAIN t[2] \cap DOMAIN v[2]}
                   [] OTHER           -> {}
        ELSE {})
  \cup (IF Has(s, "allOf") /\ s[<<"allOf">>][1] = "array" THEN {<<t, v>> : t \in ToSet(s[<<"allOf">>][2])} ELSE {})

RECURSIVE ValidateNode(_, _)
ValidateNode(s, v) ==
  TypeErrors(s, v) \cup EnumErrors(s, v) \cup StringErrors(s, v) \cup RequiredErrors(s, v) \cup ClosedErrors(s, v)
  \cup CountErrors(s, v) \cup NumberErrors(s, v)
  \cup UNION {ValidateNode(m[1][2], m[2]) : m \in {n \in Parts(s, v) : n[1][1] = "object"}}

Validate(schema, v) == IF schema[1] # "object" THEN {"schema"} ELSE ValidateNode(schema[2], v)

-----------------------------------------------------------------------------
(* STKQ::run: the values a path leads to.                                   *)

CONSTANT IndexOf     \* the index, from 0, that a text in brackets stands for

RECURSIVE Walk(_, _, _)
Walk(v, path, i) ==
  LET close == {j \in i .. Len(path) : path[j] = "]" /\ \A k \in i .. j - 1 : path[k] # "]"}
      stop  == Min({j \in i .. Len(path) + 1 : j > Len(path) \/ path[j] \in {".", "["}})
      key   == SubSeq(path, i, stop - 1)
  IN  IF i > Len(path) THEN <<v>>
      ELSE CASE path[i] = "." -> Walk(v, path, i + 1)
             [] path[i] = "[" /\ (close = {} \/ v[1] # "array") -> <<>>
             [] path[i] = "[" /\ close # {} /\ v[1] = "array" ->
                  LET token == SubSeq(path, i + 1, Min(close) - 1)
                      n     == IndexOf[token] + 1
                  IN  IF token = <<"*">> THEN v[2]
                      ELSE IF n > Len(v[2]) THEN <<>> ELSE Walk(v[2][n], path, Min(close) + 1)
             [] path[i] \notin {".", "["} ->
                  IF v[1] = "object" /\ key \in DOMAIN v[2] THEN Walk(v[2][key], path, stop) ELSE <<>>

\* A leading "root" is dropped, whatever comes after it.
RunQuery(v, path) == Walk(v, IF At(path, 1, "root") THEN Tail(path) ELSE path, 1)

\* API: one field or item at a time, and what get<> makes of it; {} where it
\* throws. operator[] of an array looks at no bound.
ApiField(v, key) == IF v[1] = "object" /\ key \in DOMAIN v[2] THEN {v[2][key]} ELSE {}
ApiIndex(v, n)   == IF v[1] # "array" THEN {} ELSE IF n < Len(v[2]) THEN {v[2][n + 1]} ELSE {<<"undefined">>}
ApiGet(v, tag)   == IF v[1] = tag \/ (tag = "double" /\ Numeric(v)) THEN {v} ELSE {}

-----------------------------------------------------------------------------
(* Creator and its builders. Objects are shared by whoever points to them:    *)
(* they stand on a heap, the root first, and a builder points to a field of   *)
(* one, [in |-> object, key |-> its key, kind]; the root's field is no one's.  *)

NewDocument == [heap |-> <<<<>>>>, builders |-> <<[in |-> 0, key |-> <<>>, kind |-> "object"]>>]

Pointed(b, builder) == IF builder.in = 0 THEN <<"ref", 1>> ELSE b.heap[builder.in][builder.key]
Filled(b, n, key, v) == [b EXCEPT !.heap[n] = WithField(@, key, v)]

\* What is no object becomes an empty one.
EnsureObject(b, builder) ==
  IF Pointed(b, builder)[1] = "ref" THEN b
  ELSE [Filled(b, builder.in, builder.key, <<"ref", Len(b.heap) + 1>>) EXCEPT !.heap = Append(@, <<>>)]

SetField(b, builder, key, v) ==
  LET e == EnsureObject(b, builder) IN Filled(e, Pointed(e, builder)[2], key, v)

\* add_object (add_section) and add_list: the builder of the new field.
AddField(b, builder, key, kind) ==
  LET e    == EnsureObject(b, builder)
      n    == Pointed(e, builder)[2]
      node == IF kind = "list" THEN Array(<<>>) ELSE <<"ref", Len(e.heap) + 1>>
      f    == Filled(e, n, key, node)
  IN  [heap |-> IF kind = "list" THEN f.heap ELSE Append(f.heap, <<>>),
       builders |-> Append(b.builders, [in |-> n, key |-> key, kind |-> kind])]

PushItem(b, builder, v) ==
  LET node == Pointed(b, builder)
  IN  Filled(b, builder.in, builder.key, IF node[1] = "array" THEN Array(Append(node[2], v)) ELSE Array(<<v>>))

\* The document as it is read.
BuiltFrom(b) ==
  LET value[n \in DOMAIN b.heap] ==
        Object([k \in DOMAIN b.heap[n] |-> LET v == b.heap[n][k] IN IF v[1] = "ref" THEN value[v[2]] ELSE v])
  IN  value[1]

\* An object that nothing points to any more is gone, and so are its fields:
\* a builder that points to one of them must not be used.
Alive(b, builder) ==
  LET RefsOf(n) == {b.heap[n][k][2] : k \in {j \in DOMAIN b.heap[n] : b.heap[n][j][1] = "ref"}}
      alive[n \in DOMAIN b.heap] == n = 1 \/ \E m \in DOMAIN b.heap : m < n /\ n \in RefsOf(m) /\ alive[m]
  IN  builder.in = 0 \/ alive[builder.in]

-----------------------------------------------------------------------------
(* sktl::parse and validate: descriptors, as lines of words.                *)

\* What is left of a line in front of a comment.
Uncommented(line) == LET hash == {i \in DOMAIN line : line[i] = "#"} IN IF hash = {} THEN line ELSE SubSeq(line, 1, Min(hash) - 1)

\* What a section is given; one that is given nothing leaves no trace.
Noted(d, section, items) ==
  IF items = <<>> THEN d
  ELSE [d EXCEPT !.sections = WithField(@, section, (IF section \in DOMAIN @ THEN @[section] ELSE <<>>) \o items)]

\* A line outside of the sections.
TopLine(d, word, rest) ==
  CASE word = "format"     -> IF rest = <<>> THEN d ELSE [d EXCEPT !.name = {rest[1]}]
    [] word = "category"   -> [d EXCEPT !.binary = rest # <<>> /\ rest[1] = "binary"]
    [] word = "extensions" -> [d EXCEPT !.extensions = @ \o rest]
    [] word = "mime"       -> Noted(d, <<"__top_mime__">>, rest)
    [] word = "encoding"   -> Noted(d, <<"__top_encoding__">>, SubSeq(rest, 1, 1))
    [] OTHER               -> d

\* One line further. The lines of a block within a section are the section's.
ReadLine(ds, written) ==
  LET line == Uncommented(written)
  IN  IF line = <<>> THEN ds
      ELSE CASE line = <<"}">> ->
                  {[d EXCEPT !.depth = @ - 1, !.section = IF d.depth = 1 THEN <<>> ELSE @] : d \in {x \in ds : x.depth > 0}}
             [] line # <<"}">> /\ Last(line) = "{" ->
                  {[d EXCEPT !.depth = @ + 1, !.section = IF d.depth = 0 THEN Front(line) ELSE @] : d \in ds}
             [] OTHER -> {IF d.depth > 0 THEN Noted(d, d.section, <<line>>) ELSE TopLine(d, line[1], Tail(line)) : d \in ds}

ParseSktl(lines) ==
  LET start == {[name |-> {}, binary |-> FALSE, extensions |-> <<>>, sections |-> <<>>, section |-> <<>>, depth |-> 0]}
      end   == FoldLeft(ReadLine, start, lines)
  IN  {e \in end : e.depth = 0 /\ e.name # {}}

CONSTANTS
  MustHave,      \* the sections that textual and that binary formats must have
  KnownSections,
  Backends,      \* the formats there is a loader and a dumper for
  BinaryBackends \* those of them that load and dump bytes

\* compile: which descriptors make a format.
Compiles(e) ==
  /\ DOMAIN e.sections \subseteq KnownSections
  /\ MustHave[e.binary] \subseteq DOMAIN e.sections
  /\ e.name \subseteq Backends

\* What is written in a section behind a word.
After_(e, section, word) ==
  IF section \notin DOMAIN e.sections THEN <<>>
  ELSE FlattenSeq([i \in DOMAIN e.sections[section] |->
         LET line == e.sections[section][i] IN IF line[1] = word THEN Tail(line) ELSE <<>>])
Top_(e, section) == IF section \in DOMAIN e.sections THEN e.sections[section] ELSE <<>>

FormatAttributes(e) ==
  [mime |-> Top_(e, <<"__top_mime__">>), encoding |-> Top_(e, <<"__top_encoding__">>),
   engines |-> After_(e, <<"query">>, "engines"), standards |-> After_(e, <<"validation">>, "standards"),
   adapters |-> After_(e, <<"conversion">>, "adapters")]

\* load_file and dump_file go by the category that is written, the loader and
\* the dumper are those of the backend; {} where they throw. (Of the textual
\* backends there is JSON here.)
DumpFile(e, v) ==
  CASE e.name \cap BinaryBackends # {} /\ e.binary -> DumpCarrier(v)
    [] e.name \cap BinaryBackends = {} /\ ~e.binary -> DumpJson(v, TRUE)
    [] OTHER -> {}
LoadFile(e, text) ==
  CASE e.name \cap BinaryBackends # {} /\ e.binary -> LoadCarrier(text)
    [] e.name \cap BinaryBackends = {} /\ ~e.binary -> LoadJson(text)
    [] OTHER -> {}
=============================================================================
