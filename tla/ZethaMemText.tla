----------------------------- MODULE ZethaMemText -----------------------------
(***************************************************************************)
(* What parse_schema and parse_query of ZethaMEM.hpp make of a text.  The  *)
(* text is its tokens: names, marks, comparison operators and literals,    *)
(* each tight if the next one follows without a space.  A parser returns   *)
(* {} where the code throws, and {s} where it returns s.                   *)
(***************************************************************************)
EXTENDS ZethaTables

Token(kind, is) == [kind |-> kind, is |-> is, tight |-> FALSE]
Word(w)    == Token("word", w)
Mark(m)    == Token("mark", m)

\* true and false are words of the text, whoever reads them.
Literal(v) == IF v.type = "bool" THEN Word(IF v.num = 1 THEN "true" ELSE "false") ELSE Token("literal", v)

Is(toks, i, w) == /\ i \in DOMAIN toks
                  /\ toks[i].kind \in {"word", "mark"}
                  /\ toks[i].is = w

\* identifier takes any word, a keyword as well.
Named(toks, i) == i \in DOMAIN toks /\ toks[i].kind = "word"

\* value_literal: true and false are words, all others begin with a digit, a
\* minus or a quote.
Valued(toks, i)  == i \in DOMAIN toks /\ (toks[i].kind = "literal" \/ toks[i].is \in {"true", "false"})
ValueAt(toks, i) == IF toks[i].kind = "literal" THEN toks[i].is
                    ELSE [type |-> "bool", num |-> IF toks[i].is = "true" THEN 1 ELSE 0]

\* Whether a keyword cannot end where this token begins, for it begins with a
\* letter, an underscore or a digit.
RunsOn(tok) == \/ tok.kind = "word"
               \/ tok.kind = "literal" /\ tok.is.type \in {"int", "double"} /\ tok.is.num >= 0

\* Mutant: < is tried before <=.
ComparesShortFirst(toks, i) == /\ i \in DOMAIN toks
                               /\ toks[i].kind = "op" /\ toks[i].is \notin {"<=", ">="}
                               /\ ~(toks[i].tight /\ i + 1 \in DOMAIN toks /\ RunsOn(toks[i + 1]))

\* comparison_op reads an operator as a keyword: it must not run on into what follows.
Compares(toks, i) == /\ i \in DOMAIN toks
                     /\ toks[i].kind = "op"
                     /\ ~(toks[i].tight /\ i + 1 \in DOMAIN toks /\ RunsOn(toks[i + 1]))

\* An optional where, a predicate, and the end of the text.
Where(toks, i) ==
  IF i = Len(toks) + 1 THEN {{}}
  ELSE IF /\ i + 3 = Len(toks)
          /\ Is(toks, i, "where") /\ Named(toks, i + 1) /\ Compares(toks, i + 2) /\ Valued(toks, i + 3)
       THEN {{[column |-> toks[i + 1].is, op |-> toks[i + 2].is, value |-> ValueAt(toks, i + 3)]}}
  ELSE {}

\* n times name, mark, value, with commas between them, from token i on.
IsList(toks, i, n, mark) == \A g \in 0 .. n - 1 :
  /\ Named(toks, i + 4 * g) /\ Is(toks, i + 4 * g + 1, mark) /\ Valued(toks, i + 4 * g + 2)
  /\ g < n - 1 => Is(toks, i + 4 * g + 3, ",")
List(toks, i, n) == [g \in 1 .. n |-> <<toks[i + 4 * g - 4].is, ValueAt(toks, i + 4 * g - 2)>>]

\* table t { name : type ; ... }, no name twice.
Schemas(toks) ==
  {n \in 0 .. Len(toks) :
     /\ Is(toks, 1, "table") /\ Named(toks, 2) /\ Is(toks, 3, "{")
     /\ \A g \in 1 .. n : /\ Named(toks, 4 * g) /\ Is(toks, 4 * g + 1, ":")
                          /\ Named(toks, 4 * g + 2)
                          /\ toks[4 * g + 2].is \in {"int", "double", "bool", "string"}
                          /\ Is(toks, 4 * g + 3, ";")
     /\ \A g, h \in 1 .. n : toks[4 * g].is = toks[4 * h].is => g = h
     /\ Is(toks, 4 * n + 4, "}") /\ Len(toks) = 4 * n + 4}

ParseSchema(toks) ==
  {[table |-> toks[2].is, columns |-> [g \in 1 .. n |-> <<toks[4 * g].is, toks[4 * g + 2].is>>]] :
     n \in Schemas(toks)}

\* insert t { name : value , ... }, with a comma before the end if one likes;
\* update t set name = value , ... where ...; select t where ...; delete t where ...
Inserts(toks) ==
  {n \in 0 .. Len(toks) :
     /\ Is(toks, 1, "insert") /\ Named(toks, 2) /\ Is(toks, 3, "{")
     /\ IsList(toks, 4, n, ":")
     /\ Is(toks, Len(toks), "}")
     /\ \/ Len(toks) = 4 + (IF n = 0 THEN 0 ELSE 4 * n - 1)
        \/ n > 0 /\ Is(toks, 4 * n + 3, ",") /\ Len(toks) = 4 * n + 4}
Updates(toks) == {n \in 1 .. Len(toks) : /\ Is(toks, 1, "update") /\ Named(toks, 2) /\ Is(toks, 3, "set")
                                         /\ IsList(toks, 4, n, "=")}
Plains(toks)  == {w \in Where(toks, 3) : /\ Is(toks, 1, "select") \/ Is(toks, 1, "delete")
                                         /\ Named(toks, 2)}

ParseQuery(toks) ==
  LET Read(do, fields, where) == [do |-> do, table |-> toks[2].is, fields |-> fields, where |-> where]
      inserted(n) == Read("insert", List(toks, 4, n), {})
      updated(n)  == {Read("update", List(toks, 4, n), w) : w \in Where(toks, 4 * n + 3)}
  IN  {inserted(n) : n \in Inserts(toks)}
      \cup {Read(toks[1].is, <<>>, w) : w \in Plains(toks)}
      \cup (UNION {updated(n) : n \in Updates(toks)})

-----------------------------------------------------------------------------
(* Writing, to compare with.                                              *)

\* Whether the text of a literal begins with a letter or a digit, and not with
\* a quote or a minus.
BeginsInWord(v) == v.type = "bool" \/ (v.type \in {"int", "double"} /\ v.num >= 0)

TextOfList(fields, mark) == FlattenSeq([i \in DOMAIN fields |->
  (IF i = 1 THEN <<>> ELSE <<Mark(",")>>) \o <<Word(fields[i][1]), Mark(mark), Literal(fields[i][2])>>])

TextOfWhere(where, tight) ==
  IF where = {} THEN <<>>
  ELSE LET w == CHOOSE w \in where : TRUE
       IN  <<Word("where"), Word(w.column), [Token("op", w.op) EXCEPT !.tight = tight], Literal(w.value)>>

TextOf(s, tight) ==
  <<Word(s.do), Word(s.table)>>
  \o (CASE s.do = "insert" -> <<Mark("{")>> \o TextOfList(s.fields, ":") \o <<Mark("}")>>
        [] s.do = "update" -> <<Word("set")>> \o TextOfList(s.fields, "=")
        [] OTHER -> <<>>)
  \o TextOfWhere(s.where, tight)

TextOfSchema(t, columns) ==
  <<Word("table"), Word(t), Mark("{")>>
  \o FlattenSeq([i \in DOMAIN columns |-> <<Word(columns[i][1]), Mark(":"), Word(columns[i][2]), Mark(";")>>])
  \o <<Mark("}")>>

-----------------------------------------------------------------------------
(* What the statements of ZethaTables are as texts.                        *)

\* Those on the tables there are; an update sets something.
Statements == [do : {"insert"}, table : DOMAIN tables, fields : Lists, where : {{}}]
              \cup [do : {"update"}, table : DOMAIN tables, fields : Lists \ {<<>>}, where : Wheres]
              \cup [do : {"select", "delete"}, table : DOMAIN tables, fields : {<<>>}, where : Wheres]

\* A statement is read as it was written, unless an operator runs on into a
\* literal that begins with a digit, or into true or false: then it is refused, not read otherwise.
\* So is a schema, unless it has a column twice; and nothing is read of a text
\* with something left over or missing at its end.
ReadsBack ==
  /\ \A s \in Statements, tight \in BOOLEAN :
       ParseQuery(TextOf(s, tight)) =
         IF tight /\ \E w \in s.where : BeginsInWord(w.value)
         THEN {} ELSE {s}
  /\ \A t \in DOMAIN tables, l \in Layouts :
       ParseSchema(TextOfSchema(t, l)) =
         IF \E i, j \in DOMAIN l : i # j /\ l[i][1] = l[j][1] THEN {} ELSE {[table |-> t, columns |-> l]}
  /\ \A s \in Statements, more \in {Word("x"), Mark("}")} \cup {Literal(v) : v \in Literals} :
       LET text == TextOf(s, FALSE)
       IN  /\ ParseQuery(Append(text, more)) = {}
           /\ ParseQuery(SubSeq(text, 1, Len(text) - 1)) = {}
=============================================================================
