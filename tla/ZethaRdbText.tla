------------------------------ MODULE ZethaRdbText ------------------------------
(***************************************************************************)
(* TextSchemaParser of ZethaRDB.hpp, on tokens: words and the marks ; ( ) , *)
(* are strings.  (A word that begins with a keyword and goes on with an    *)
(* underscore is read as two words; it is left out.)                       *)
(***************************************************************************)
EXTENDS Integers, SequencesExt, Functions

Marks == {";", "(", ")", ","}
WordAt(text, i)   == i <= Len(text) /\ text[i] \notin Marks
TokenAt(text, i, t) == i <= Len(text) /\ text[i] = t
SkipToken(text, i, t)  == IF TokenAt(text, i, t) THEN i + 1 ELSE i

TypeOf ==
  [t \in {"int", "integer", "i64", "real", "float", "double", "bool", "boolean", "text", "string",
          "blob", "bytes", "null"} |->
     CASE t \in {"int", "integer", "i64"}     -> "integer"
       [] t \in {"real", "float", "double"}   -> "real"
       [] t \in {"bool", "boolean"}           -> "boolean"
       [] t \in {"text", "string"}            -> "text"
       [] t \in {"blob", "bytes"}             -> "blob"
       [] OTHER                               -> "null"]

\* The modifiers that begin at i: which there are, in any order and more than
\* once, and the place after them; {} where one is begun and not finished.
Modifiers(text, i) ==
  LET from[k \in i..Len(text) + 1] ==
        CASE TokenAt(text, k, "unique") ->
               {[m EXCEPT !.which = @ \cup {"unique"}] : m \in from[k + 1]}
          [] TokenAt(text, k, "primary") ->
               (IF TokenAt(text, k + 1, "key")
                THEN {[m EXCEPT !.which = @ \cup {"primary"}] : m \in from[k + 2]} ELSE {})
          [] TokenAt(text, k, "not") ->
               (IF TokenAt(text, k + 1, "null")
                THEN {[m EXCEPT !.which = @ \cup {"not"}] : m \in from[k + 2]} ELSE {})
          [] OTHER -> {[which |-> {}, next |-> k]}
  IN  from[i]

ColumnOf(name, type, which) ==
  [name |-> name, type |-> type, primary_key |-> "primary" \in which,
   unique |-> which \cap {"primary", "unique"} # {}, nullable |-> which \cap {"primary", "not"} = {}]

\* The columns from i on and the place after the closing parenthesis, which
\* may follow a comma. Two columns of one name are not refused.
ColumnsFrom(text, i) ==
  LET from[k \in i..Len(text) + 1] ==
        IF TokenAt(text, k, ")") THEN {[columns |-> <<>>, next |-> k + 1]}
        ELSE IF ~(WordAt(text, k) /\ WordAt(text, k + 1) /\ text[k + 1] \in DOMAIN TypeOf) THEN {}
        ELSE UNION {
          LET column == ColumnOf(text[k], TypeOf[text[k + 1]], m.which)
          IN  CASE TokenAt(text, m.next, ",") ->
                     {[rest EXCEPT !.columns = <<column>> \o @] : rest \in from[m.next + 1]}
                [] TokenAt(text, m.next, ")") -> {[columns |-> <<column>>, next |-> m.next + 1]}
                [] OTHER -> {}
          : m \in Modifiers(text, k + 2)}
  IN  {c \in from[i] : Len(SelectSeq(c.columns, LAMBDA col : col.primary_key)) <= 1}

\* parse: {} for an error, else the schema; a semicolon is never missed.
ParseTextSchema(text) ==
  LET tables[i \in 1..Len(text) + 1] ==
        CASE i = Len(text) + 1 -> {<<>>}
          [] TokenAt(text, i, "table") /\ WordAt(text, i + 1) /\ TokenAt(text, i + 2, "(") ->
               UNION {{<<[name |-> text[i + 1], columns |-> c.columns]>> \o rest
                        : rest \in tables[SkipToken(text, c.next, ";")]}
                      : c \in ColumnsFrom(text, i + 3)}
          [] OTHER -> {}
  IN  IF TokenAt(text, 1, "database") /\ WordAt(text, 2)
      THEN {[database |-> text[2], tables |-> t] : t \in tables[SkipToken(text, 3, ";")]}
      ELSE {}

-----------------------------------------------------------------------------
(* schema_dsl: the same in C++, call by call. A later call on a column        *)
(* overrules an earlier one, so that a primary key may be made nullable.      *)
(* (default_to is left out: no text has it, and it is not stored.)             *)
NativeColumn(name, type, calls) ==
  FoldLeft(LAMBDA c, call :
             CASE call = "nullable_col" -> [c EXCEPT !.nullable = TRUE]
               [] call = "not_null"     -> [c EXCEPT !.nullable = FALSE]
               [] call = "unique"       -> [c EXCEPT !.unique = TRUE]
               [] call = "primary_key"  -> [c EXCEPT !.primary_key = TRUE, !.unique = TRUE, !.nullable = FALSE],
           [name |-> name, type |-> type, primary_key |-> FALSE, unique |-> FALSE, nullable |-> TRUE], calls)

\* table: {} where it throws. (A key without a name is not noticed.)
NativeTable(name, columns) ==
  LET keys == SelectSeq(columns, LAMBDA c : c.primary_key)
  IN  IF \E i \in DOMAIN keys : i < Len(keys) /\ keys[i].name # "" THEN {} ELSE {[name |-> name, columns |-> columns]}

NativeSchema(database, tables) ==
  FoldLeft(LAMBDA schemas, table : {[s EXCEPT !.tables = Append(@, t)] : s \in schemas, t \in NativeTable(table.name, table.columns)},
           {[database |-> database, tables |-> <<>>]}, tables)

\* The schema that create takes: the native one, if there is one, or else the
\* text, if there is one.
ResolveSchema(native, text) ==
  CASE native # {} -> native
    [] native = {} /\ text # <<>> -> ParseTextSchema(text)
    [] OTHER -> {[database |-> "zetha_rdb", tables |-> <<>>]}

-----------------------------------------------------------------------------
\* How a schema is written.
TextOfColumn(column) ==
  <<column.name, column.type>>
  \o (CASE column.primary_key -> <<"primary", "key">> [] column.unique /\ ~column.primary_key -> <<"unique">> [] OTHER -> <<>>)
  \o (IF column.nullable \/ column.primary_key THEN <<>> ELSE <<"not", "null">>)

TextOfTextSchema(schema) ==
  <<"database", schema.database, ";">> \o
  FlattenSeq([i \in DOMAIN schema.tables |->
     <<"table", schema.tables[i].name, "(">> \o
     FlattenSeq([j \in DOMAIN schema.tables[i].columns |->
        (IF j = 1 THEN <<>> ELSE <<",">>) \o TextOfColumn(schema.tables[i].columns[j])]) \o
     <<")", ";">>])

\* A text without what may be there or not.
Bones(text) ==
  LET Kept(i) == /\ text[i] \notin {";", "primary", "key", "unique", "not"}
                 /\ ~(text[i] = "null" /\ i > 1 /\ text[i - 1] = "not")
                 /\ ~(text[i] = "," /\ TokenAt(text, i + 1, ")"))
  IN  FlattenSeq([i \in DOMAIN text |-> IF Kept(i) THEN <<text[i]>> ELSE <<>>])
=============================================================================
