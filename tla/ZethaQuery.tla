------------------------------- MODULE ZethaQuery -------------------------------
(***************************************************************************)
(* The text parser of ZethaQUERY.hpp: a path of names, each with predicates *)
(* [@attribute = literal], on tokens [is |-> kind, text |-> t]; and what    *)
(* zetha-mem finds with such a path: it puts what CliScript reads.           *)
(***************************************************************************)
EXTENDS CliScript

CONSTANT Spelled   \* the characters of a token

PathMark(t)   == [is |-> "mark", text |-> t]
PathName(t)   == [is |-> "name", text |-> t]

PathMarkAt(text, i, t) == i <= Len(text) /\ text[i] = PathMark(t)
PathNameAt(text, i)    == i <= Len(text) /\ text[i].is = "name"

\* A literal is a string, a number, or a name: a boolean if it is true or
\* false, else a name the query refers to.
LiteralOf(token) ==
  CASE token.is = "name" /\ token.text \in {"true", "false"} -> [is |-> "bool", text |-> token.text]
    [] OTHER -> token

PredicateAt(text, i) ==
  /\ PathMarkAt(text, i, "[") /\ PathMarkAt(text, i + 1, "@") /\ PathNameAt(text, i + 2) /\ PathMarkAt(text, i + 3, "=")
  /\ i + 4 <= Len(text) /\ text[i + 4].is # "mark"
  /\ PathMarkAt(text, i + 5, "]")

\* How many predicates follow at i.
PredicatesFrom(text, i) ==
  CHOOSE n \in 0..Len(text) : /\ \A m \in 0..(n - 1) : PredicateAt(text, i + 6 * m)
                              /\ ~PredicateAt(text, i + 6 * n)

StepAt(text, i, n) ==
  [name |-> text[i].text,
   predicates |-> [m \in 1..n |-> [attribute |-> text[i + 6 * m - 3].text,
                                   value     |-> LiteralOf(text[i + 6 * m - 1])]]]

\* parse and lower_query: {} for an error, else the path.
ParsePath(text) ==
  LET steps[i \in 1..Len(text) + 1] ==
        IF ~PathNameAt(text, i) THEN {}
        ELSE LET n    == PredicatesFrom(text, i + 1)
                 next == i + 1 + 6 * n
             IN  CASE next = Len(text) + 1   -> {<<StepAt(text, i, n)>>}
                   [] PathMarkAt(text, next, "/") -> {<<StepAt(text, i, n)>> \o more : more \in steps[next + 1]}
                   [] OTHER                   -> {}
      first == IF PathMarkAt(text, 1, "/") THEN 2 ELSE 1
  IN  {[absolute |-> first = 2, steps |-> s] : s \in steps[first]}

\* How a path is written.
TextOfStep(step) ==
  <<PathName(step.name)>> \o
  FlattenSeq([m \in DOMAIN step.predicates |->
     <<PathMark("["), PathMark("@"), PathName(step.predicates[m].attribute), PathMark("="),
       IF step.predicates[m].value.is = "bool" THEN PathName(step.predicates[m].value.text)
                                               ELSE step.predicates[m].value,
       PathMark("]")>>])

TextOfPath(path) ==
  (IF path.absolute THEN <<PathMark("/")>> ELSE <<>>) \o
  FlattenSeq([i \in DOMAIN path.steps |->
     (IF i = 1 THEN <<>> ELSE <<PathMark("/")>>) \o TextOfStep(path.steps[i])])

-----------------------------------------------------------------------------
(* MemDB::query. A key is a sequence of words and slashes.                  *)

\* split_path_: nothing stands between two slashes, or in front of the first.
SplitPath(key) ==
  SelectSeq(FoldLeft(LAMBDA parts, c : IF c = "/" THEN Append(parts, <<>>)
                                       ELSE Append(Front(parts), Append(Last(parts), c)), <<<<>>>>, key),
            LAMBDA part : part # <<>>)

MatchPath(steps, key) ==
  LET parts == SplitPath(key)
  IN  Len(parts) = Len(steps) /\ \A i \in DOMAIN parts : parts[i] = <<steps[i].name>>

\* A number is a double, and a name a text.
LiteralValue(literal) ==
  CASE literal.is = "number" -> <<"real", CHOOSE n \in Stod(Spelled[literal.text]) : TRUE>>
    [] literal.is = "bool"   -> <<"boolean", literal.text = "true">>
    [] OTHER                 -> <<"text", Spelled[literal.text]>>

\* value_equals: numbers of both kinds are compared as doubles.
AsReal(v) == IF v[1] = "integer" THEN <<v[2], 0>> ELSE v[2]
ValueEquals(a, b) ==
  LET m == AsReal(a)
      n == AsReal(b)
  IN  IF {a[1], b[1]} \subseteq {"integer", "real"} THEN m[1] * 10^n[2] = n[1] * 10^m[2]
      ELSE a[1] = b[1] /\ a[2] = b[2]

EvalExpr(predicate, fields) ==
  predicate.attribute \in DOMAIN fields /\ ValueEquals(fields[predicate.attribute], LiteralValue(predicate.value))

\* The predicates of every step are about the same record.
MatchPredicates(steps, fields) ==
  \A i \in DOMAIN steps : \A p \in Range(steps[i].predicates) : EvalExpr(p, fields)

\* {} for an error, else the keys that are found.
MemQuery(data, text) ==
  {{key \in DOMAIN data : MatchPath(path.steps, key) /\ MatchPredicates(path.steps, data[key])} : path \in ParsePath(text)}
=============================================================================
