------------------------------- MODULE SerdeValue -------------------------------
(***************************************************************************)
(* SerdeTk: values, scalar tokens, JSON, and the binary formats that carry *)
(* JSON. A text is a sequence of atoms: words and numbers whole, all other *)
(* characters one by one. Strings, keys and bytes are texts too.           *)
(***************************************************************************)
EXTENDS Integers, SequencesExt, FiniteSetsExt

CONSTANTS
  WholeOf,      \* the integer that a text stands for
  DoubleOf,     \* the double that any other text stands for that std::stod reads
  DoubleText,   \* how a double is printed, with six digits
  JsonNumbers,  \* the texts of numbers that JSON knows
  Escapes,      \* what a character after a backslash stands for in JSON
  EscapeOf,     \* the characters that are written with a backslash, and how
  KeyOrder      \* the keys of objects, ascending

\* A value is a tag and what it holds: an object a function of its keys.
Null         == <<"null">>
Bool(b)      == <<"bool", b>>
Signed(n)    == <<"int", n>>
Unsigned(n)  == <<"uint", n>>
Double(d)    == <<"double", d>>
String(s)    == <<"string", s>>
Binary(s)    == <<"binary", s>>
Array(vs)    == <<"array", vs>>
Object(f)    == <<"object", f>>
Composite(v) == v[1] \in {"array", "object"}

KeysOf(f)     == SelectSeq(KeyOrder, LAMBDA k : k \in DOMAIN f)
WithField(f, k, v) == (k :> v) @@ f

-----------------------------------------------------------------------------
(* Scalars.                                                                *)

\* operator<< of a scalar; what is binary is shown by its size or not at all.
Shown(v) ==
  CASE v[1] = "null"            -> <<"null">>
    [] v[1] = "bool"            -> <<IF v[2] THEN "true" ELSE "false">>
    [] v[1] \in {"int", "uint"} -> <<CHOOSE t \in DOMAIN WholeOf : WholeOf[t] = v[2]>>
    [] v[1] = "double"          -> <<DoubleText[v[2]]>>
    [] v[1] = "string"          -> v[2]
    [] v[1] = "binary"          -> <<"<binary>">>

Spaces == {" ", "\n"}
Trimmed(text) ==
  LET ink == {i \in DOMAIN text : text[i] \notin Spaces}
  IN  IF ink = {} THEN <<>> ELSE SubSeq(text, Min(ink), Max(ink))

\* parse_scalar_token: whatever looks like a literal or like a number is one;
\* a quoted string has no escapes.
ParseScalar(token) ==
  LET text == Trimmed(token)
  IN  IF text \in {<<"null">>, <<"~">>} THEN Null
      ELSE IF text \in {<<"true">>, <<"false">>} THEN Bool(text[1] = "true")
      ELSE IF Len(text) >= 2 /\ text[1] = "\"" /\ Last(text) = "\"" THEN String(SubSeq(text, 2, Len(text) - 1))
      ELSE IF Len(text) = 1 /\ text[1] \in DOMAIN WholeOf THEN Signed(WholeOf[text[1]])
      ELSE IF Len(text) = 1 /\ text[1] \in DOMAIN DoubleOf THEN Double(DoubleOf[text[1]])
      ELSE String(text)

-----------------------------------------------------------------------------
(* JSON.                                                                   *)

EmitJsonString(s) ==
  <<"\"">> \o FlattenSeq([i \in DOMAIN s |-> IF s[i] \in DOMAIN EscapeOf THEN <<"\\", EscapeOf[s[i]]>> ELSE <<s[i]>>])
           \o <<"\"">>

\* emit_json_value: one line, or pretty with every item on a line of its own.
RECURSIVE EmitJson(_, _, _)
EmitJson(v, pretty, depth) ==
  LET line(d) == IF pretty THEN <<"\n">> \o [i \in 1 .. 2 * d |-> " "] ELSE <<>>
      blank   == IF pretty THEN <<" ">> ELSE <<>>
      listed(open, items, close) ==
        <<open>> \o FlattenSeq([i \in DOMAIN items |->
                      (IF i = 1 THEN <<>> ELSE <<",">> \o blank) \o line(depth + 1) \o items[i]])
                 \o (IF items = <<>> THEN <<>> ELSE line(depth)) \o <<close>>
      item(w) == EmitJson(w, pretty, depth + 1)
  IN  CASE v[1] = "array"  -> listed("[", [i \in DOMAIN v[2] |-> item(v[2][i])], "]")
        [] v[1] = "object" ->
             LET keys == KeysOf(v[2])
             IN  listed("{", [i \in DOMAIN keys |->
                                EmitJsonString(keys[i]) \o <<":">> \o blank \o item(v[2][keys[i]])], "}")
        [] v[1] = "string" -> EmitJsonString(v[2])
        [] OTHER           -> Shown(v)

RECURSIVE HasBinary(_)
HasBinary(v) == \/ v[1] = "binary"
                \/ Composite(v) /\ \E i \in DOMAIN v[2] : HasBinary(v[2][i])

\* dump_string: {} where it throws.
DumpJson(v, pretty) == IF HasBinary(v) THEN {} ELSE {EmitJson(v, pretty, 0) \o (IF pretty THEN <<"\n">> ELSE <<>>)}

\* skip_ws.
Ink(text, i)   == Min({j \in i .. Len(text) + 1 : j > Len(text) \/ text[j] \notin Spaces})
At(text, i, c) == i <= Len(text) /\ text[i] = c

\* The parsers return {} where they throw, else what was read and the place
\* behind it.
JsonString(text, i) ==
  LET from[k \in Nat] ==
        IF k > Len(text) THEN {}
        ELSE IF text[k] = "\"" THEN {<<<<>>, k + 1>>}
        ELSE IF text[k] # "\\" THEN {<<<<text[k]>> \o m[1], m[2]>> : m \in from[k + 1]}
        ELSE IF k = Len(text) \/ text[k + 1] \notin DOMAIN Escapes THEN {}
        ELSE {<<<<Escapes[text[k + 1]]>> \o m[1], m[2]>> : m \in from[k + 2]}
  IN  from[i + 1]

\* parse_number: what has no sign and no fraction is unsigned.
JsonNumber(word) == IF word \in DOMAIN DoubleOf THEN Double(DoubleOf[word])
                    ELSE IF WholeOf[word] < 0 THEN Signed(WholeOf[word]) ELSE Unsigned(WholeOf[word])

RECURSIVE JsonValue(_, _), JsonFields(_, _, _), JsonItems(_, _, _)

JsonValue(text, from) ==
  LET i     == Ink(text, from)
      first == Ink(text, i + 1)
      one(v) == {<<v, i + 1>>}
  IN  IF i > Len(text) THEN {}
      ELSE CASE text[i] = "{"  -> IF At(text, first, "}") THEN {<<Object(<<>>), first + 1>>} ELSE JsonFields(text, first, <<>>)
             [] text[i] = "["  -> IF At(text, first, "]") THEN {<<Array(<<>>), first + 1>>} ELSE JsonItems(text, first, <<>>)
             [] text[i] = "\"" -> {<<String(m[1]), m[2]>> : m \in JsonString(text, i)}
             [] text[i] \in {"true", "false"} -> one(Bool(text[i] = "true"))
             [] text[i] = "null"              -> one(Null)
             [] text[i] \in JsonNumbers       -> one(JsonNumber(text[i]))
             [] OTHER -> {}

\* A key that comes twice keeps the later value.
JsonFields(text, from, f) ==
  LET k == Ink(text, from)
  IN  IF ~At(text, k, "\"") THEN {}
      ELSE UNION {
        LET c == Ink(text, key[2])
        IN  IF ~At(text, c, ":") THEN {}
            ELSE UNION {
              LET e == Ink(text, m[2])
                  g == WithField(f, key[1], m[1])
              IN  CASE At(text, e, "}") -> {<<Object(g), e + 1>>}
                    [] At(text, e, ",") -> JsonFields(text, e + 1, g)
                    [] OTHER            -> {}
              : m \in JsonValue(text, c + 1)}
        : key \in JsonString(text, k)}

JsonItems(text, from, vs) ==
  UNION {LET e  == Ink(text, m[2])
             ws == Append(vs, m[1])
         IN  CASE At(text, e, "]") -> {<<Array(ws), e + 1>>}
               [] At(text, e, ",") -> JsonItems(text, e + 1, ws)
               [] OTHER            -> {}
         : m \in JsonValue(text, from)}

LoadJson(text) == {m[1] : m \in {n \in JsonValue(text, 1) : Ink(text, n[2]) > Len(text)}}

-----------------------------------------------------------------------------
(* MessagePack and BSON: JSON behind four bytes, or bytes as they are.     *)

DumpCarrier(v) == IF v[1] = "binary" THEN {v[2]} ELSE {<<"STKJ">> \o t : t \in DumpJson(v, TRUE)}
LoadCarrier(bytes) == IF At(bytes, 1, "STKJ") THEN LoadJson(Tail(bytes)) ELSE {Binary(bytes)}
=============================================================================
